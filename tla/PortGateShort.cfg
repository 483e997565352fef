\* The server reports fewer tokens than the estimate, or a body that does not parse.
CONSTANTS
    t1 = t1  t2 = t2  t3 = t3  t4 = t4  t5 = t5
    Threads <- ThreeThreads
    Streamers = {}
    Mlx = {}
    Routed = {}
    Roster <- ThreeSlotsAndTokens
    Estimate <- MixedEstimates
    UsageTotals = {1}
    BodyMayThrow = TRUE
    RETRY_ATTEMPTS = 2
    CallsPerThread = 1
SPECIFICATION FairSpec
PROPERTY EveryCallEnds
