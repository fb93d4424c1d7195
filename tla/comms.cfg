SPECIFICATION FairSpec
CONSTANTS
    Shore = Shore
    AUV = AUV
    AckMsg = ack
    MODE = MODE
    MODESOLO = MODESOLO
    RCVD = RCVD
    PING = PING
    Zero = Zero
    bw500 = bw500
    bw125 = bw125
    sf256 = sf256
    sf1024 = sf1024
    hello = hello
    pingback = pingback
    help = help
    bad = bad
    Bw <- mcBw
    Sf <- mcSf
    Config <- mcConfig
    Boot <- mcBoot
    Pingback <- mcPingback
    HelpMsg <- mcHelp
    Msg <- mcMsg
    Oversize <- mcOversize
    SeqMod = 6
    MaxGap = 4
    Retries = 1
    Line <- AllLines
    MaxTyped <- OneEach
    MaxSend <- OneSend
    MaxResets <- ShoreReset
PROPERTY SendReturns
PROPERTY LoopReturns
PROPERTY LinesComeOut
INVARIANT TypeOK
INVARIANT ConveyedOnce
INVARIANT ConveyInv
CHECK_DEADLOCK FALSE
