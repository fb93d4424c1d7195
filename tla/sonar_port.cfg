SPECIFICATION Spec
CONSTANTS
    Builds = {"linux"}
    HeadLen = 1
    HalfLen = 2
    Asked <- mcAsked
    Typed <- mcTyped
    MaxRecords = 2
    MaxPresses = 0
INVARIANT HalvesTogether
CHECK_DEADLOCK FALSE
