SPECIFICATION Spec
CONSTANTS
    Shore = Shore
    AUV = AUV
    AckMsg = ack
    MODE = MODE
    MODESOLO = MODESOLO
    RCVD = RCVD
    PING = PING
    Zero = Zero
    bw500 = bw500
    bw125 = bw125
    sf256 = sf256
    sf1024 = sf1024
    hello = hello
    pingback = pingback
    help = help
    bad = bad
    Bw <- mcBw
    Sf <- mcSf
    Config <- mcConfig
    Boot <- mcBoot
    Pingback <- mcPingback
    HelpMsg <- mcHelp
    Msg <- mcMsg
    Oversize = {}
    SeqMod = 6
    MaxGap = 4
    Retries = 1
    Line <- HandshakeLines
    MaxTyped <- mcTyped
    MaxSend <- mcSend
    MaxResets <- NoResets
INVARIANT AUVNeverAlone
INVARIANT SettingsAgreed
INVARIANT AppliesWhatWasConfirmed
INVARIANT LineConveyed
INVARIANT OneChangeInv
PROPERTY SketchIsLineService
PROPERTY LinkIsChannel
CHECK_DEADLOCK FALSE
