SPECIFICATION FairSpec
CONSTANTS
    image = image  clean = clean  fix = fix
    useless = useless  deeper = deeper
    bug = bug  other = other
    Version = {image, clean, fix, useless, deeper}
    Pristine = image
    Token = {bug, other}
    NoCrash = NoCrash
    NoPatch = NoPatch
    NoServer = NoServer
    Crash <- MCCrash
    Decode <- MCDecode
    Target <- AllTargets
    Faults = {"timeout", "misread", "write", "raise", "ceiling",
              "stale"}
    MaxTurns = 2
    MaxDepth = 2
    MaxAttempts = 2
INVARIANTS
    TypeOK
    CleanSource
    ProvedPatchIsGreen
    ChainIsReal
    RejectionIsFair
PROPERTIES
    StageEnds
CHECK_DEADLOCK FALSE
