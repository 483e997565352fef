\* Two requests' threads, a session, three agents over two models.
CONSTANTS
    t1 = t1  t2 = t2  s1 = s1
    Threads <- TwoThreads
    Agents <- ThreeAgents
    Model <- Models
    Quant <- Quants
    Sessions = {s1}
    NoSession = NoSession
    Prompts <- GrownAndEdited
    MIN_CTX = 2
    Nobody = Nobody
    MaxCalls = 3
SPECIFICATION Spec
INVARIANTS TypeOK ModelStays ResidentReclaimable SessionCountRight ContextIsPrompt
SYMMETRY ThreadSymmetry
CHECK_DEADLOCK FALSE
