SPECIFICATION Spec
CONSTANTS
    Names <- AllNames
    Deployed <- ThreeAgents
    Tags <- ThreeAgentsTags
    NoName = ""
    Configs <- EachMode
    Mark = "SELECTED:"
    Eol = "eol"
    RawMax = 4
    Targets <- BothTargets
INVARIANTS
    TypeOK
    StagesReadLastGood
    ReducerReads
    FinalIsLastGood
    SomebodyAnswers
    RosterHonoured
    QualityPassNarrow
    SelectionBounded
    EarlySelectionStands
PROPERTIES
    
    Replies
CHECK_DEADLOCK FALSE
