SPECIFICATION Spec
CONSTANTS
    image = image  clean = clean  fix = fix
    useless = useless  deeper = deeper
    bug = bug  other = other
    Version = {image, clean, fix, useless, deeper}
    Pristine = image
    Token = {bug, other}
    NoCrash = NoCrash
    NoPatch = NoPatch
    NoServer = NoServer
    Crash <- MCCrash
    Decode <- MCDecode
    Target <- Daemon
    Faults = {}
    MaxTurns = 1
    MaxDepth = 0
    MaxAttempts = 2
INVARIANTS
    JudgedItself
CHECK_DEADLOCK FALSE
