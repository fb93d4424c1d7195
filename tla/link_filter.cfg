SPECIFICATION LinkSpec
CONSTANTS
    Shore = Shore
    AUV = AUV
    Msg = {text, long}
    Oversize = {long}
    AckMsg = ack
    Config = {bw500}
    Boot = bw500
    SeqMod = 4
    Retries = 1
    MaxGap = 2
    MaxSend <- FewSends
    MaxResets <- ShoreResets
INVARIANT FilterOnlyDuplicates
CHECK_DEADLOCK FALSE
