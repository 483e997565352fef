\* Both gates, and every release gives back what was taken; t4 streams (mlx).
CONSTANTS
    t1 = t1  t2 = t2  t3 = t3  t4 = t4  t5 = t5
    Threads <- FourThreads
    Streamers = {t4}
    Mlx = {t2, t4}
    Routed = {t1}
    Roster <- ThreeSlotsAndTokens
    Estimate <- FourEstimates
    UsageTotals = {}
    BodyMayThrow = FALSE
    RETRY_ATTEMPTS = 1
    CallsPerThread = 2
SPECIFICATION FairSpec
INVARIANTS TypeOK SlotsCounted
PROPERTIES ImplementsSlots EveryCallEnds
