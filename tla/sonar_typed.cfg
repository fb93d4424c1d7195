SPECIFICATION Spec
CONSTANTS
    Builds = {"future"}
    HeadLen = 1
    HalfLen = 2
    Asked <- mcAsked
    Typed <- mcTyped
    MaxRecords = 1
    MaxPresses = 1
INVARIANT TypedIsTaken
CHECK_DEADLOCK FALSE
