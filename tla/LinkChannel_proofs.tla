------------------------- MODULE LinkChannel_proofs -------------------------
(***************************************************************************)
(* The link implements its channels, for all values of the constants: the  *)
(* initial states map to initial states, every step to a step or a         *)
(* stutter.                                                                *)
(***************************************************************************)
EXTENDS LinkChannel, ReliableDatagram_proofs

\* A step of the channel, or none, in which the variables of the first line
\* become those of the second.
StepOf(m,  o,  h,  t,  c,
       m2, o2, h2, t2, c2) ==
    \/ ~o /\ m2 = m + 1 /\ o2 = TRUE /\ <<h2, t2, c2>> = <<h, t, c>>
    \/ /\ h = {}
       /\ \E u \in 1 .. m : (\A v \in t : v < u) /\ h2 = {u}
       /\ <<m2, o2, t2, c2>> = <<m, o, t, c>>
    \/ h # {} /\ t2 = t \cup h /\ h2 = {} /\ <<m2, o2, c2>> = <<m, o, c>>
    \/ o /\ m \in t \cup h /\ c2 = c \cup {m} /\ o2 = FALSE /\ <<m2, h2, t2>> = <<m, h, t>>
    \/ o /\ o2 = FALSE /\ <<m2, h2, t2, c2>> = <<m, h, t, c>>
    \/ <<m2, o2, h2, t2, c2>> = <<m, o, h, t, c>>

\* What the step of the link does to the channel to n.
StepTo(n) ==
    StepOf(calls[Peer(n)],  Sending(Peer(n)),  HeldBy(n),  got[n],  acked[Peer(n)],
           calls'[Peer(n)], Sending(Peer(n))', HeldBy(n)', got'[n], acked'[Peer(n)])

\* No restarts: what the channel promises holds between two power cycles.
NobodyRestarts == MaxResets = [n \in Node |-> 0]

\* Where no restart is allowed none happens.
NoneRestarted == \A n \in Node : resets[n] = 0

LEMMA NoneRestartedInit == LinkInit => NoneRestarted
  BY DEF LinkInit, NoneRestarted

LEMMA NoneRestartedStep ==
    ASSUME NobodyRestarts, LinkTypeOK, NoneRestarted, [LinkNext]_linkVars
    PROVE  NoneRestarted' /\ \A n \in Node : ~Reset(n)
  <1>1. \A n \in Node : ~Reset(n)
    BY DEF NobodyRestarts, NoneRestarted, Reset
  <1>2. resets' = resets
    BY <1>1 DEF LinkNext, linkVars, historyVars, SendtoWait, Poll, ListenWait, TakeAck,
           ReAck, Discard, Timeout, Retransmit, GiveUp, Receive, ListenApp, DropAck,
           Acknowledge, Deliver, Filter, TxDone, ChangeModem
  <1> QED
    BY <1>1, <1>2 DEF NoneRestarted

\* A message that recvfromAck() is about to hold and return is later than
\* all that it has returned.
LEMMA NewIsLater ==
    ASSUME LinkTypeOK, OrderInv, NoneRestarted, NEW n \in Node,
           NEW p \in rxBuf[n], ~p.ack, p.id # seen[n]
    PROVE  p.uid \in 1 .. calls[Peer(n)] /\ \A u \in got[n] : u < p.uid
  <1>1. OrderAt(n) /\ Peer(n) \in Node
    BY Peers DEF OrderInv
  <1>2. p.uid \in (last[n] .. calls[Peer(n)]) \ {0}
    BY <1>1 DEF OrderAt, Arrived
  <1>3. last[n] \in Nat /\ calls[Peer(n)] \in Nat /\ got[n] \subseteq Nat
    BY <1>1 DEF LinkTypeOK
  <1>4. p.uid # last[n]
    BY <1>1 DEF OrderAt, Remembers, NoneRestarted
  <1>5. \A u \in got[n] : u <= last[n]
    BY <1>1 DEF OrderAt, Delivered
  <1> QED
    BY <1>2, <1>3, <1>4, <1>5

\* A thread that is in the sketch holds no message.
LEMMA HoldsNothing ==
    ASSUME LinkTypeOK, OrderInv, NEW n \in Node, ctl[n] # "recvfromAck"
    PROVE  inp[n] = {} /\ HeldBy(n) = {}
  BY DEF OrderInv, OrderAt, Deaf, HeldBy, LinkTypeOK

\* Every step of the link is a step of each channel, or none.
LEMMA LinkStepIsChannelStep ==
    ASSUME LinkInv, NoneRestarted, [LinkNext]_linkVars, \A n \in Node : ~Reset(n),
           NEW k \in Node
    PROVE  StepTo(k)
  <1> USE DEF LinkInv
  <1>0. Peer(k) \in Node /\ Peer(k) # k /\ \A n \in Node : n = k \/ n = Peer(k)
    BY Peers
  <1>1. ASSUME NEW n \in Node, NEW m \in Msg, SendtoWait(n, m) PROVE StepTo(k)
    <2>1. seen' = seen /\ inp' = inp /\ got' = got /\ acked' = acked
      BY <1>1 DEF SendtoWait
    <2>2. HeldBy(k)' = HeldBy(k)
      BY <2>1 DEF HeldBy
    <2>3. CASE n = k
      <3>1. calls'[Peer(k)] = calls[Peer(k)] /\ ctl'[Peer(k)] = ctl[Peer(k)]
        BY <1>1, <1>0, <2>3 DEF SendtoWait, LinkTypeOK
      <3> QED
        BY <2>1, <2>2, <3>1 DEF StepTo, StepOf, Sending
    <2>4. CASE n = Peer(k)
      <3>1. calls'[n] = calls[n] + 1 /\ ctl[n] = "app" /\ ctl'[n] = "sent"
        BY <1>1 DEF SendtoWait, LinkTypeOK
      <3>2. ~Sending(n) /\ Sending(n)' = TRUE
        BY <3>1 DEF Sending
      <3> QED
        BY <2>1, <2>2, <2>4, <3>1, <3>2 DEF StepTo, StepOf
    <2> QED
      BY <1>0, <2>3, <2>4
  <1>2. ASSUME NEW n \in Node, Poll(n) PROVE StepTo(k)
    <2>1. seen' = seen /\ inp' = inp /\ got' = got /\ calls' = calls
      BY <1>2 DEF Poll, ListenWait, TakeAck, ReAck, Discard, historyVars
    <2>2. HeldBy(k)' = HeldBy(k)
      BY <2>1 DEF HeldBy
    <2>3. CASE TakeAck(n)
      <3>1. CASE n = k
        BY <1>0, <2>1, <2>2, <2>3, <3>1 DEF TakeAck, StepTo, StepOf, Sending, LinkTypeOK
      <3>2. CASE n = Peer(k)
        <4>1. acked'[n] = acked[n] \cup {calls[n]} /\ Sending(n) /\ Sending(n)' = FALSE
          BY <2>3 DEF TakeAck, Sending, LinkTypeOK
        <4>2. PICK p \in rxBuf[n] : IsOurAck(n, p)
          BY <2>3 DEF TakeAck
        <4>3. Numbered(n) /\ Acks(k)
          BY DEF AckInv, NoneRestarted
        <4>4. p.ack /\ p.uid = calls[n]
          BY <1>0, <4>2, <4>3, <3>2, OurAckIsOurs, Peers DEF IsOurAck
        <4>5. Secured(k, calls[n])
          BY <4>2, <4>3, <4>4, <3>2 DEF Acks
        <4>6. calls[n] \in got[k] \cup HeldBy(k)
          BY <4>5 DEF Secured, HeldBy
        <4> QED
          BY <2>1, <2>2, <3>2, <4>1, <4>6 DEF StepTo, StepOf
      <3> QED
        BY <1>0, <3>1, <3>2
    <2>4. CASE ListenWait(n) \/ ReAck(n) \/ Discard(n)
      <3>1. acked' = acked /\ Sending(n) /\ Sending(n)'
        BY <2>4 DEF ListenWait, ReAck, Discard, historyVars, Sending, LinkTypeOK
      <3>2. \A j \in Node : j # n => ctl'[j] = ctl[j]
        BY <2>4 DEF ListenWait, ReAck, Discard, LinkTypeOK
      <3>3. Sending(Peer(k))' = Sending(Peer(k))
        BY <1>0, <3>1, <3>2 DEF Sending
      <3> QED
        BY <2>1, <2>2, <3>1, <3>3 DEF StepTo, StepOf
    <2> QED
      BY <1>2, <2>3, <2>4 DEF Poll
  <1>3. ASSUME NEW n \in Node, Timeout(n) PROVE StepTo(k)
    <2>1. seen' = seen /\ inp' = inp /\ got' = got /\ calls' = calls /\ acked' = acked
      BY <1>3 DEF Timeout, Retransmit, GiveUp, historyVars
    <2>2. HeldBy(k)' = HeldBy(k)
      BY <2>1 DEF HeldBy
    <2>3. Sending(n) /\ \A j \in Node : j # n => ctl'[j] = ctl[j]
      BY <1>3 DEF Timeout, Retransmit, GiveUp, LinkTypeOK, Sending
    <2>4. Sending(n)' \in BOOLEAN
      BY DEF Sending
    <2>5. \/ Sending(Peer(k))' = Sending(Peer(k))
          \/ Sending(Peer(k)) /\ Sending(Peer(k))' = FALSE
      BY <1>0, <2>3, <2>4 DEF Sending
    <2> QED
      BY <2>1, <2>2, <2>5 DEF StepTo, StepOf
  <1>4. ASSUME NEW n \in Node, Receive(n) PROVE StepTo(k)
    <2>1. calls' = calls /\ acked' = acked
      BY <1>4 DEF Receive, ListenApp, DropAck, Acknowledge, Deliver, Filter, historyVars
    <2>2. \A j \in Node : Sending(j)' = Sending(j)
      BY <1>4 DEF Receive, ListenApp, DropAck, Acknowledge, Deliver, Filter,
                  threadVars, Sending, LinkTypeOK
    <2>3. CASE n # k \/ ListenApp(n) \/ DropAck(n)
      <3>1. seen'[k] = seen[k] /\ inp'[k] = inp[k] /\ got'[k] = got[k]
        BY <1>4, <2>3 DEF Receive, ListenApp, DropAck, Acknowledge, Deliver, Remember,
                    Filter, threadVars, historyVars, LinkTypeOK
      <3>2. HeldBy(k)' = HeldBy(k)
        BY <3>1 DEF HeldBy
      <3> QED
        BY <1>0, <2>1, <2>2, <3>1, <3>2 DEF StepTo, StepOf
    <2>4. CASE Acknowledge(k)
      <3>1. PICK p \in rxBuf[k] : ~p.ack /\ inp' = [inp EXCEPT ![k] = {p}]
        BY <2>4 DEF Acknowledge
      <3>2. seen' = seen /\ got' = got /\ inp'[k] = {p}
        BY <2>4, <3>1 DEF Acknowledge, historyVars, LinkTypeOK
      <3>3. HeldBy(k) = {}
        BY <2>4, HoldsNothing DEF Acknowledge
      <3>4. CASE p.id = seen[k]
        <4>1. HeldBy(k)' = {}
          BY <3>2, <3>4 DEF HeldBy
        <4> QED
          BY <1>0, <2>1, <2>2, <3>2, <3>3, <4>1 DEF StepTo, StepOf
      <3>5. CASE p.id # seen[k]
        <4>1. HeldBy(k)' = {p.uid}
          BY <3>2, <3>5 DEF HeldBy
        <4>2. p.uid \in 1 .. calls[Peer(k)] /\ \A u \in got[k] : u < p.uid
          BY <3>1, <3>5, NewIsLater
        <4> QED
          BY <1>0, <2>1, <2>2, <3>2, <3>3, <4>1, <4>2 DEF StepTo, StepOf
      <3> QED
        BY <3>4, <3>5
    <2>5. CASE Deliver(k)
      <3>1. PICK p \in inp[k] : p.id # seen[k] /\ got' = [got EXCEPT ![k] = @ \cup {p.uid}]
        BY <2>5 DEF Deliver
      <3>2. inp[k] = {p}
        BY <3>1 DEF OrderInv, OrderAt, Deaf
      <3>3. HeldBy(k) = {p.uid}
        BY <3>1, <3>2 DEF HeldBy
      <3>4. inp'[k] = {} /\ got'[k] = got[k] \cup {p.uid}
        BY <2>5, <3>1 DEF Deliver, LinkTypeOK
      <3>5. HeldBy(k)' = {}
        BY <3>4 DEF HeldBy
      <3> QED
        BY <1>0, <2>1, <2>2, <3>3, <3>4, <3>5 DEF StepTo, StepOf
    <2>6. CASE Filter(k)
      <3>1. PICK p \in inp[k] : p.id = seen[k]
        BY <2>6 DEF Filter
      <3>2. inp[k] = {p}
        BY <3>1 DEF OrderInv, OrderAt, Deaf
      <3>3. inp'[k] = {} /\ got' = got
        BY <2>6 DEF Filter, LinkTypeOK, historyVars
      <3>4. HeldBy(k) = {} /\ HeldBy(k)' = {}
        BY <3>1, <3>2, <3>3 DEF HeldBy
      <3> QED
        BY <1>0, <2>1, <2>2, <3>3, <3>4 DEF StepTo, StepOf
    <2> QED
      BY <1>4, <2>3, <2>4, <2>5, <2>6 DEF Receive
  <1>5. CASE UNCHANGED <<threadVars, historyVars>>
    <2>1. HeldBy(k)' = HeldBy(k) /\ Sending(Peer(k))' = Sending(Peer(k))
      BY <1>5 DEF HeldBy, Sending, threadVars
    <2> QED
      BY <1>5, <2>1 DEF StepTo, StepOf, historyVars
  <1> QED
    BY <1>1, <1>2, <1>3, <1>4, <1>5 DEF LinkNext, TxDone, ChangeModem, linkVars

\* The initial states of the link are initial states of each channel.
LEMMA LinkInitIsChannelInit == LinkInit => ToShore!Init /\ ToAUV!Init
  BY TwoRadios DEF LinkInit, ToShore!Init, ToAUV!Init, Sending, HeldBy, Node

\* Two radios that do not restart are two channels: whatever is lost or
\* repeated, sendtoWait() and recvfromAck() are the calls of a channel that
\* delivers at most once, in order, and confirms only what it delivers.
THEOREM LinkImplementsChannel ==
    ASSUME NobodyRestarts
    PROVE  LinkSpec => LinkIsChannel
  <1>1. Shore \in Node /\ AUV \in Node /\ Peer(Shore) = AUV /\ Peer(AUV) = Shore
    BY TwoRadios DEF Node, Peer
  <1>2. LinkInv /\ NoneRestarted /\ [LinkNext]_linkVars
          => [ToShore!Next]_(ToShore!channelVars) /\ [ToAUV!Next]_(ToAUV!channelVars)
    <2> SUFFICES ASSUME LinkInv, NoneRestarted, [LinkNext]_linkVars
                 PROVE  /\ [ToShore!Next]_(ToShore!channelVars)
                        /\ [ToAUV!Next]_(ToAUV!channelVars)
      OBVIOUS
    <2>1. \A n \in Node : ~Reset(n)
      BY NoneRestartedStep DEF LinkInv
    <2>2. StepTo(Shore) /\ StepTo(AUV)
      BY <1>1, <2>1, LinkStepIsChannelStep
    <2>3. [ToShore!Next]_(ToShore!channelVars)
      BY <1>1, <2>2 DEF StepTo, StepOf, ToShore!Next, ToShore!channelVars, ToShore!Call,
             ToShore!Hold, ToShore!HandOver, ToShore!ReturnTrue, ToShore!ReturnFalse
    <2>4. [ToAUV!Next]_(ToAUV!channelVars)
      BY <1>1, <2>2 DEF StepTo, StepOf, ToAUV!Next, ToAUV!channelVars, ToAUV!Call,
             ToAUV!Hold, ToAUV!HandOver, ToAUV!ReturnTrue, ToAUV!ReturnFalse
    <2> QED
      BY <2>3, <2>4
  <1>3. LinkInv /\ NoneRestarted /\ [LinkNext]_linkVars => NoneRestarted'
    BY NoneRestartedStep DEF LinkInv
  <1> QED
    BY <1>2, <1>3, LinkInvariant, NoneRestartedInit, LinkInitIsChannelInit, PTL
       DEF LinkSpec, LinkIsChannel, ToShore!Spec, ToAUV!Spec
=============================================================================
