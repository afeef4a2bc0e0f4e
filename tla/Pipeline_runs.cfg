SPECIFICATION FairSpec
CONSTANTS
    f1 = f1  f2 = f2  w1 = w1  w2 = w2  o1 = o1
    p1 = p1  p2 = p2  sigA = sigA  sigB = sigB
    Finding = {f1, f2}
    Worker = {w1, w2}
    ServerRun = {}
    HostTarget = {f2}
    Operator = {}
    Pod = {p1}
    Signature = {sigA}
    NoFinding = NoFinding
    NoPod = NoPod
    NoWorker = NoWorker
    MaxAttempts = 2
    MaxIterations = 1
    Environment = {}
    MaxEvents = 0
PROPERTIES
    RunTerminates
    RunDrains
    ImplementsQueue
CHECK_DEADLOCK FALSE
