SPECIFICATION FairPanesSpec
CONSTANTS
    Sandboxes = {"a", "b"}
    Scenarios = {"x", "y"}
    Nothing = "none"
    Sessions <- MCSessions
    MaxCalls = 3
    MaxTimers = 1
    Elements <- MCElements
    Modes = {"movement"}
    Files = {"f", "g"}
INVARIANTS
    ShownIsExplained
    CallsGoToTheSelected
    OfferedIsShown
    AutomationIsExplained
    StopReaches
PROPERTIES
    EventFits
    EventuallyShown
CHECK_DEADLOCK FALSE
