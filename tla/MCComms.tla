------------------------------ MODULE MCComms -------------------------------
(* The sketch on both radios, on small instances: two bandwidths, two      *)
(* spreading factors, and the lines each run lets the operator type.       *)
EXTENDS AUVLines

CONSTANTS bw500, bw125, sf256, sf1024, hello, pingback, help, bad

mcBw     == {bw500, bw125}
mcSf     == {sf256, sf1024}
mcConfig == [bw : mcBw \cup {Zero}, sf : mcSf \cup {Zero}]
mcBoot   == [bw |-> bw500, sf |-> sf256]

PerNode(s, a) == [n \in Node |-> IF n = Shore THEN s ELSE a]

Change   == <<MODE, bw125, sf1024>>
Other    == <<MODE, bw500, sf1024>>
Hello    == <<hello>>

\* A line that is too long for a packet.
Long     == <<bad>>

mcPingback == <<pingback>>
mcHelp     == <<help>>

HandshakeLines == PerNode({Change, Hello}, {})
TwoChanges     == PerNode({Change, Other}, {})
AllLines       == PerNode({Change, Hello, <<PING>>, <<hello, MODE, bw125>>,
                           <<MODE, bw125, bad>>, <<MODESOLO, bw125, sf1024>>},
                          {<<hello, PING>>, Long})

Confirmations == {Confirmation(c) : c \in mcConfig}
mcMsg == UNION {Line[n] : n \in Node}
            \cup Confirmations \cup {mcPingback, mcHelp}

mcOversize == {Long}

NoResets == PerNode(0, 0)
ShoreReset == PerNode(1, 0)
mcTyped  == PerNode(3, 1)
mcSend   == PerNode(3, 4)
FewTyped == PerNode(2, 0)
OneEach  == PerNode(1, 1)
OneSend  == PerNode(3, 3)
FewSend  == PerNode(2, 2)
=============================================================================
