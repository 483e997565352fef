\* An edit of each kind, with a crash, a failing open or write, and a redeploy
\* at any point.
CONSTANTS
    r1 = r1  r2 = r2  r3 = r3
    Requests = {r1, r2, r3}
    Kind <- EveryKind
    MaxCrashes = 1
    MaxIoErrors = 1
    MaxDeploys = 1
SPECIFICATION Spec
INVARIANTS TypeOK AckedSurvive OneCopyLeft IdleInSync ActiveHoldsAcked
