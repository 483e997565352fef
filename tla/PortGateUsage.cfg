\* Replies report fewer or more tokens than the estimate, or throw; t4 asks for
\* no output, and t5 streams (llama) past the gate.
CONSTANTS
    t1 = t1  t2 = t2  t3 = t3  t4 = t4  t5 = t5
    Threads <- FiveThreads
    Streamers = {t5}
    Mlx = {}
    Routed = {}
    Roster <- ThreeSlotsAndTokens
    Estimate <- FiveEstimates
    UsageTotals = {0, 2}
    BodyMayThrow = TRUE
    RETRY_ATTEMPTS = 2
    CallsPerThread = 1
SPECIFICATION Spec
INVARIANTS FreeSlotNoticed SleepersDoNotFit LedgerAccounted
