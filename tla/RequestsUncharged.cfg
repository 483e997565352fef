\* A budget, and requests in flat and pipeline mode.
CONSTANTS
    t1 = t1  t2 = t2  s1 = s1  s2 = s2
    Threads <- TwoThreads
    Sessions <- TwoSessions
    NoSession = NoSession
    Agents <- ThreeAgents
    Engine <- Engines
    Supports <- SupportedBackends
    Users <- UserPrompts
    PromptEdits = 1
    Ttls = {1}
    CacheSizes = {1, 2}
    Setups <- FlatAndPipeline
SPECIFICATION Spec
INVARIANT LedgerComplete
SYMMETRY ThreadSymmetry
CHECK_DEADLOCK FALSE
