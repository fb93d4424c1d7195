SPECIFICATION FairSpec
CONSTANTS
    a = a
    b = b
    ls = ls
    NL = NL
    BS = BS
    NUL = NUL
    Dots = Dots
    Dash = Dash
    ESC = ESC
    EOL = EOL
    Text <- mcText
    Word <- mcWord
    numChars = 4
    OctetMod = 5
    Messages <- mcMessages
    Outputs <- mcOutputs
    ErrorLine <- mcError
    MaxConveyed = 1
    MaxCrashes = 1
INVARIANT VehicleTypeOK
INVARIANT HandedAsShown
INVARIANT InBuffer
INVARIANT LineInv
INVARIANT OutputIsCurrent
PROPERTY OutputEnds
