SPECIFICATION FairSpec
CONSTANTS
    Builds = {"linux", "windows", "future"}
    HeadLen = 1
    HalfLen = 2
    Asked <- mcAsked
    Typed <- mcTyped
    MaxRecords = 3
    MaxPresses = 4
INVARIANT SonarTypeOK
INVARIANT HalvesWhole
INVARIANT HalvesTogetherInOriginal
INVARIANT HeaderAsTaken
INVARIANT SettingsHold
PROPERTY Recording
PROPERTY TildeEnds
CHECK_DEADLOCK FALSE
