SPECIFICATION PromptSpec
CONSTANTS
    a = a
    b = b
    ls = ls
    NL = NL
    BS = BS
    NUL = NUL
    Dots = Dots
    Dash = Dash
    ESC = ESC
    EOL = EOL
    Text <- mcText
    Word <- mcWord
    numChars = 4
    OctetMod = 5
    Messages <- mcMessages
    Outputs <- ShortLines
    ErrorLine <- mcError
    MaxConveyed = 1
    MaxCrashes = 0
INVARIANT TransmitsSerialInput
