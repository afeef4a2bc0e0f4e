SPECIFICATION Spec
CONSTANTS
    f1 = f1  f2 = f2  w1 = w1  w2 = w2  o1 = o1
    p1 = p1  p2 = p2  sigA = sigA  sigB = sigB
    Finding = {f1, f2}
    Worker = {w1}
    ServerRun = {w1}
    HostTarget = {}
    Operator = {o1}
    Pod = {p1, p2}
    Signature = {sigA}
    NoFinding = NoFinding
    NoPod = NoPod
    NoWorker = NoWorker
    MaxAttempts = 3
    MaxIterations = 2
    Environment = {"raise", "requeue", "unblock", "signoff", "iterate",
                   "dbfail"}
    MaxEvents = 2
SYMMETRY Symmetry
INVARIANTS
    NoStrandedPending
    NeverSelfSigned
    AttachFindsPod
CHECK_DEADLOCK FALSE
