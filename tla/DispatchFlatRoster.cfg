SPECIFICATION Spec
CONSTANTS
    Names <- AllNames
    Deployed <- ThreeAgents
    Tags <- ThreeAgentsTags
    NoName = ""
    Configs <- EachMode
    Mark = "SELECTED:"
    Eol = "eol"
    RawMax = 4
    Targets <- BothTargets
INVARIANT FlatAsksEverybody
CHECK_DEADLOCK FALSE
