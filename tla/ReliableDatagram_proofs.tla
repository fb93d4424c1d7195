---------------------- MODULE ReliableDatagram_proofs -----------------------
(***************************************************************************)
(* Proofs about the link, for any number of calls, restarts and retries,   *)
(* any ID space of at least three numbers and any payloads.                *)
(***************************************************************************)
EXTENDS ReliableDatagram, TLAPS

-----------------------------------------------------------------------------
(* Two radios, and numbers modulo SeqMod                                   *)

\* There are two radios and each is the peer of the other.
LEMMA Peers ==
    ASSUME NEW n \in Node
    PROVE  /\ Peer(n) \in Node
           /\ Peer(n) # n
           /\ Peer(Peer(n)) = n
           /\ \A k \in Node : k = n \/ k = Peer(n)
  BY TwoRadios DEF Node, Peer

\* What the assumptions say of the numbers.
LEMMA Bounds ==
    /\ SeqMod \in Nat /\ SeqMod >= 3
    /\ MaxGap \in Nat /\ MaxGap >= 1 /\ MaxGap + 2 <= SeqMod
    /\ Retries \in Nat
  BY SeqModBound, GapBound, RetriesBound

\* A number modulo SeqMod is an ID.
LEMMA ModIsId ==
    ASSUME NEW a \in Nat
    PROVE  a % SeqMod \in Id
  BY Bounds DEF Id

\* Division with remainder.
LEMMA DivMod ==
    ASSUME NEW a \in Nat
    PROVE  /\ a \div SeqMod \in Nat
           /\ a % SeqMod \in Nat
           /\ a % SeqMod < SeqMod
           /\ a = SeqMod * (a \div SeqMod) + (a % SeqMod)
  BY Bounds

\* The product of SeqMod and a positive number is no less than SeqMod.
LEMMA Multiple ==
    ASSUME NEW q \in Nat, q >= 1
    PROVE  SeqMod * q >= SeqMod
  BY Bounds

\* Two calls less than SeqMod apart that have the same ID are one call.
LEMMA SameId ==
    ASSUME NEW a \in Nat, NEW b \in Nat, b <= a, a - b < SeqMod,
           a % SeqMod = b % SeqMod
    PROVE  a = b
  <1> DEFINE q == a \div SeqMod
             r == b \div SeqMod
  <1>1. q \in Nat /\ r \in Nat
    BY DivMod
  <1>2. a - b = SeqMod * q - SeqMod * r
    BY DivMod, Bounds
  <1>3. SeqMod * q - SeqMod * r = SeqMod * (q - r)
    BY <1>1, Bounds
  <1>4. ~(q - r >= 1)
    <2> SUFFICES ASSUME q - r >= 1 PROVE FALSE
      OBVIOUS
    <2>1. q - r \in Nat
      BY <1>1
    <2>2. SeqMod * (q - r) >= SeqMod
      BY <2>1, Multiple
    <2> QED
      BY <1>2, <1>3, <2>2, Bounds
  <1>5. ~(r - q >= 1)
    <2> SUFFICES ASSUME r - q >= 1 PROVE FALSE
      OBVIOUS
    <2>1. r - q \in Nat
      BY <1>1
    <2>2. SeqMod * (r - q) >= SeqMod
      BY <2>1, Multiple
    <2>3. SeqMod * (q - r) = 0 - SeqMod * (r - q)
      BY <1>1, Bounds
    <2> QED
      BY <1>2, <1>3, <2>2, <2>3, Bounds
  <1>6. q = r
    BY <1>1, <1>4, <1>5
  <1>7. SeqMod * (q - r) = 0
    BY <1>1, <1>6, Bounds
  <1> QED
    BY <1>2, <1>3, <1>7

\* The header ID follows the call counter.
LEMMA NextId ==
    ASSUME NEW a \in Nat
    PROVE  ((a % SeqMod) + 1) % SeqMod = (a + 1) % SeqMod
  <1> DEFINE q == a \div SeqMod
             i == a % SeqMod
  <1>1. q \in Nat /\ i \in Nat /\ i < SeqMod /\ a = SeqMod * q + i
    BY DivMod
  <1> HIDE DEF q, i
  <1>2. (SeqMod * q + (i + 1)) % SeqMod = (i + 1) % SeqMod
    BY <1>1, Bounds
  <1>3. SeqMod * q \in Nat
    BY <1>1, Bounds
  <1>4. SeqMod * q + (i + 1) = a + 1
    BY <1>1, <1>3
  <1>5. (i + 1) % SeqMod = (a + 1) % SeqMod
    BY <1>2, <1>4
  <1> QED
    BY <1>5 DEF i

-----------------------------------------------------------------------------
(* Types                                                                   *)

\* What sendtoWait() and acknowledge() transmit are packets.
LEMMA Packets ==
    /\ \A i \in Id, u \in Nat, m \in Msg : Data(i, u, m) \in Packet
    /\ \A p \in Packet : AckOf(p) \in Packet
    /\ \A p \in Packet : p.id \in Id /\ p.uid \in Nat
  BY DEF Data, AckOf, Packet, DataPacket, AckPacket

\* The radios are in a well-typed state after init() and setup().
LEMMA TypeInit == LinkInit => LinkTypeOK
  BY Bounds, BootConfig DEF LinkInit, LinkTypeOK, RadioInit, RadioTypeOK, Mode,
     Control, Id

\* No operation of the library or the driver leaves its types.
LEMMA TypeStep == LinkTypeOK /\ [LinkNext]_linkVars => LinkTypeOK'
  <1> SUFFICES ASSUME LinkTypeOK, [LinkNext]_linkVars PROVE LinkTypeOK'
    OBVIOUS
  <1> USE DEF LinkTypeOK, RadioTypeOK
  <1>1. ASSUME NEW n \in Node, NEW m \in Msg, SendtoWait(n, m) PROVE LinkTypeOK'
    <2> seq[n] + 1 \in Nat /\ calls[n] + 1 \in Nat
      BY DEF Id
    <2>1. (seq[n] + 1) % SeqMod \in Id /\ 1 \in 0 .. (Retries + 1)
      BY ModIsId, Bounds
    <2>2. Data((seq[n] + 1) % SeqMod, calls[n] + 1, m) \in Packet
      BY <2>1, Packets
    <2> QED
      BY <1>1, <2>1, <2>2 DEF SendtoWait, NextSeq, Send, StartTx, Mode, Control
  <1>2. ASSUME NEW n \in Node, Poll(n) PROVE LinkTypeOK'
    <2>1. CASE ListenWait(n)
      BY <2>1 DEF ListenWait, Listen, Mode, Control, historyVars
    <2>2. CASE TakeAck(n)
      BY <2>2 DEF TakeAck, TakeBuffer, Mode, Control
    <2>3. CASE ReAck(n)
      BY <2>3, Packets DEF ReAck, TakeAndSend, StartTx, Mode, Control, historyVars
    <2>4. CASE Discard(n)
      BY <2>4 DEF Discard, TakeBuffer, Mode, Control, historyVars
    <2> QED
      BY <1>2, <2>1, <2>2, <2>3, <2>4 DEF Poll
  <1>3. ASSUME NEW n \in Node, Timeout(n) PROVE LinkTypeOK'
    <2>1. CASE Retransmit(n)
      <3>1. tries[n] + 1 \in 0 .. (Retries + 1)
        BY <2>1, Bounds DEF Retransmit
      <3>2. \A m \in out[n] : Data(seq[n], calls[n], m) \in Packet
        BY Packets
      <3> QED
        BY <2>1, <3>1, <3>2
        DEF Retransmit, Send, StartTx, Mode, Control, historyVars
    <2>2. CASE GiveUp(n)
      BY <2>2 DEF GiveUp, radioVars, Control, historyVars
    <2> QED
      BY <1>3, <2>1, <2>2 DEF Timeout
  <1>4. ASSUME NEW n \in Node, Receive(n) PROVE LinkTypeOK'
    <2>1. CASE ListenApp(n)
      BY <2>1 DEF ListenApp, Listen, Mode, threadVars, historyVars
    <2>2. CASE DropAck(n)
      BY <2>2 DEF DropAck, TakeBuffer, Mode, threadVars, historyVars
    <2>3. CASE Acknowledge(n)
      BY <2>3, Packets DEF Acknowledge, TakeAndSend, StartTx, Mode, Control, historyVars
    <2>4. CASE Deliver(n)
      BY <2>4, Packets DEF Deliver, Remember, radioVars, Control
    <2>5. CASE Filter(n)
      BY <2>5 DEF Filter, radioVars, Control, historyVars
    <2> QED
      BY <1>4, <2>1, <2>2, <2>3, <2>4, <2>5 DEF Receive
  <1>5. ASSUME NEW n \in Node, TxDone(n) PROVE LinkTypeOK'
    BY <1>5, Peers DEF TxDone, TxDoneHeard, TxDoneLost, Mode, threadVars, historyVars
  <1>6. ASSUME NEW n \in Node, NEW c \in Config, ChangeModem(n, c) PROVE LinkTypeOK'
    BY <1>6 DEF ChangeModem, SetModem, threadVars, historyVars
  <1>7. ASSUME NEW n \in Node, Reset(n) PROVE LinkTypeOK'
    BY <1>7, Bounds, BootConfig DEF Reset, RadioReset, Mode, Control, Id
  <1>8. CASE UNCHANGED linkVars
    BY <1>8 DEF linkVars, radioVars, threadVars, historyVars
  <1> QED
    BY <1>1, <1>2, <1>3, <1>4, <1>5, <1>6, <1>7, <1>8 DEF LinkNext

\* Every variable of the driver and of the library keeps its type.
THEOREM LinkTypeCorrect == LinkSpec => []LinkTypeOK
  BY TypeInit, TypeStep, PTL DEF LinkSpec

-----------------------------------------------------------------------------
(* What is delivered is delivered once and in order                        *)

\* Nothing has been sent.
LEMMA OrderInit == LinkInit => OrderInv
  BY Peers DEF LinkInit, RadioInit, OrderInv, OrderAt, Deaf, InFlight, Arrived,
     Delivered, Remembers, Running, Sending

\* No operation breaks the link between a message, the number it carries and
\* the last one delivered; k is the node whose part is shown, n the one that
\* moves.
LEMMA OrderStep == LinkTypeOK /\ OrderInv /\ [LinkNext]_linkVars => OrderInv'
  <1> SUFFICES ASSUME LinkTypeOK, OrderInv, [LinkNext]_linkVars, NEW k \in Node
               PROVE  OrderAt(k)'
    BY DEF OrderInv
  <1> USE Packets
      DEF OrderInv, OrderAt, Deaf, InFlight, Arrived, Delivered, Remembers,
          Running, Sending, LinkTypeOK, RadioTypeOK
  <1>1. ASSUME NEW n \in Node, NEW m \in Msg, SendtoWait(n, m) PROVE OrderAt(k)'
    BY <1>1, Peers DEF SendtoWait, NextSeq, Send, StartTx, Data
  <1>2. ASSUME NEW n \in Node, Poll(n) PROVE OrderAt(k)'
    <2>1. CASE ListenWait(n)
      BY <2>1, Peers DEF ListenWait, Listen, historyVars
    <2>2. CASE TakeAck(n)
      BY <2>2, Peers DEF TakeAck, TakeBuffer
    <2>3. CASE ReAck(n)
      BY <2>3, Peers DEF ReAck, TakeAndSend, StartTx, AckOf, historyVars
    <2>4. CASE Discard(n)
      BY <2>4, Peers DEF Discard, TakeBuffer, historyVars
    <2> QED
      BY <1>2, <2>1, <2>2, <2>3, <2>4 DEF Poll
  <1>3. ASSUME NEW n \in Node, Timeout(n) PROVE OrderAt(k)'
    <2>1. CASE Retransmit(n)
      BY <2>1, Peers DEF Retransmit, Send, StartTx, Data, historyVars
    <2>2. CASE GiveUp(n)
      BY <2>2, Peers DEF GiveUp, radioVars, historyVars
    <2> QED
      BY <1>3, <2>1, <2>2 DEF Timeout
  <1>4. ASSUME NEW n \in Node, Receive(n) PROVE OrderAt(k)'
    <2>1. CASE ListenApp(n)
      BY <2>1, Peers DEF ListenApp, Listen, threadVars, historyVars
    <2>2. CASE DropAck(n)
      BY <2>2, Peers DEF DropAck, TakeBuffer, threadVars, historyVars
    <2>3. CASE Acknowledge(n)
      <3> PICK p \in rxBuf[n] : /\ ~p.ack
                                /\ TakeAndSend(n, AckOf(p))
                                /\ inp' = [inp EXCEPT ![n] = {p}]
        BY <2>3 DEF Acknowledge
      <3> USE <2>3, Peers DEF Acknowledge, TakeAndSend, StartTx, AckOf, historyVars
      <3>1. Deaf(k)'
        <4>1. CASE k = n
          BY <4>1
        <4>2. CASE k = Peer(n)
          <5>1. /\ mode'[k] = mode[k] /\ fifo'[k] = fifo[k] /\ inp'[k] = inp[k]
                /\ rxBuf'[k] = rxBuf[k] /\ ctl'[k] = ctl[k]
            BY <4>2
          <5>2. Deaf(k)
            OBVIOUS
          <5> QED
            BY <5>1, <5>2 DEF Deaf, Running
        <4> QED
          BY <4>1, <4>2
      <3>2. InFlight(k)'
        OBVIOUS
      <3>3. Arrived(k)'
        OBVIOUS
      <3>4. Delivered(k)'
        OBVIOUS
      <3>5. Remembers(k)'
        OBVIOUS
      <3> QED
        BY <3>1, <3>2, <3>3, <3>4, <3>5
    <2>4. CASE Deliver(n)
      BY <2>4, Peers DEF Deliver, Remember, radioVars
    <2>5. CASE Filter(n)
      BY <2>5, Peers DEF Filter, radioVars, historyVars
    <2> QED
      BY <1>4, <2>1, <2>2, <2>3, <2>4, <2>5 DEF Receive
  <1>5. ASSUME NEW n \in Node, TxDone(n) PROVE OrderAt(k)'
    <2> UNCHANGED <<threadVars, historyVars>>
      BY <1>5 DEF TxDone
    <2>1. CASE TxDoneHeard(n)
      <3> USE <2>1, Peers DEF TxDoneHeard, threadVars, historyVars
      <3>1. Deaf(k)'
        <4>1. CASE k = n
          BY <4>1
        <4>2. CASE k = Peer(n)
          <5>1. inp[k] = {} /\ fifo[k] = {}
            BY <4>2
          <5>2. inp'[k] = inp[k] /\ fifo'[k] = fifo[k]
            BY <4>2
          <5> QED
            BY <5>1, <5>2
        <4> QED
          BY <4>1, <4>2
      <3>2. InFlight(k)' /\ Delivered(k)'
        OBVIOUS
      <3>3. Arrived(k)'
        OBVIOUS
      <3>4. Remembers(k)'
        OBVIOUS
      <3> QED
        BY <3>1, <3>2, <3>3, <3>4
    <2>2. CASE TxDoneLost(n)
      BY <2>2, Peers DEF TxDoneLost, threadVars, historyVars
    <2> QED
      BY <1>5, <2>1, <2>2 DEF TxDone
  <1>6. ASSUME NEW n \in Node, NEW c \in Config, ChangeModem(n, c) PROVE OrderAt(k)'
    BY <1>6, Peers DEF ChangeModem, SetModem, threadVars, historyVars
  <1>7. ASSUME NEW n \in Node, Reset(n) PROVE OrderAt(k)'
    BY <1>7, Peers DEF Reset, RadioReset
  <1>8. CASE UNCHANGED linkVars
    BY <1>8, Peers DEF linkVars, radioVars, threadVars, historyVars
  <1> QED
    BY <1>1, <1>2, <1>3, <1>4, <1>5, <1>6, <1>7, <1>8 DEF LinkNext

\* Messages reach the sketch once and in order, whatever is lost, repeated or
\* restarted at the peer, and however often the numbers wrap.
THEOREM LinkInOrderOnce == LinkSpec => []InOrderOnce
  <1>1. LinkTypeOK /\ OrderInv => InOrderOnce
    <2> SUFFICES ASSUME LinkTypeOK, OrderInv, NEW n \in Node, resets[n] = 0,
                        NEW p \in inp[n], p.id # seen[n], NEW u \in got[n]
                 PROVE  u < p.uid
      BY DEF InOrderOnce
    <2>1. /\ p \in Packet /\ ~p.ack /\ p.uid # last[n]
          /\ p.uid \in last[n] .. calls[Peer(n)]
      BY DEF OrderInv, OrderAt, Arrived, Delivered, Remembers, LinkTypeOK
    <2>2. u <= last[n] /\ u \in Nat
      BY DEF OrderInv, OrderAt, Delivered, LinkTypeOK
    <2> QED
      BY <2>1, <2>2, Peers, Packets DEF LinkTypeOK
  <1> QED
    BY TypeInit, TypeStep, OrderInit, OrderStep, <1>1, PTL DEF LinkSpec

-----------------------------------------------------------------------------
(* What is acknowledged is delivered                                       *)

\* The header ID of the next call.
LEMMA IdOfNext ==
    ASSUME NEW n \in Node, LinkTypeOK, seq[n] = IdOf(calls[n])
    PROVE  (seq[n] + 1) % SeqMod = IdOf(calls[n] + 1)
  BY NextId DEF IdOf, LinkTypeOK

\* Among calls less than SeqMod apart the header ID tells them apart.
LEMMA IdTells ==
    \A a, b \in Nat : b <= a /\ a - b < SeqMod /\ IdOf(a) = IdOf(b) => a = b
  BY SameId DEF IdOf

\* Before the first message everything is number 0.
LEMMA AckInit == LinkInit => AckInv
  <1> SUFFICES ASSUME LinkInit, NEW n \in Node PROVE Numbered(n) /\ Acks(n)
    BY DEF AckInv
  <1>1. IdOf(0) = 0
    BY Bounds DEF IdOf
  <1> QED
    BY <1>1, Peers, Bounds DEF LinkInit, RadioInit, Numbered, Acks

\* A message in recvfromAck() that has the number of the last one is the last
\* one, for no more than MaxGap calls can lie between them.
LEMMA SeenIsLast ==
    ASSUME LinkTypeOK, OrderInv, NEW n \in Node, Numbered(n),
           NEW p \in rxBuf[n] \cup inp[n], ~p.ack, p.id = seen[n]
    PROVE  p.uid = last[n] /\ p.uid \in got[n]
  <1>1. /\ p \in Packet /\ p.uid \in (last[n] .. calls[Peer(n)]) \ {0}
        /\ last[n] \in Nat /\ calls[Peer(n)] \in Nat
    BY Peers DEF OrderInv, OrderAt, Arrived, LinkTypeOK, RadioTypeOK
  <1>2. IdOf(p.uid) = IdOf(last[n]) /\ calls[Peer(n)] - last[n] <= MaxGap
    BY DEF Numbered
  <1>3. p.uid - last[n] < SeqMod /\ last[n] <= p.uid /\ p.uid \in Nat
    BY <1>1, <1>2, Bounds
  <1>4. p.uid = last[n]
    BY <1>1, <1>2, <1>3, IdTells
  <1> QED
    BY <1>1, <1>4 DEF OrderInv, OrderAt, Delivered

\* What a node acknowledges, for the first time or again, it has.
LEMMA AckIsSecured ==
    ASSUME LinkTypeOK, OrderInv, NEW n \in Node, Numbered(n),
           NEW p \in rxBuf[n], ~p.ack
    PROVE  /\ p.uid \in last[n] .. calls[Peer(n)]
           /\ p.id = seen[n] => p.uid \in got[n]
  BY SeenIsLast DEF OrderInv, OrderAt, Arrived

\* The acknowledgement that ends a call is that of the call.
LEMMA OurAckIsOurs ==
    ASSUME LinkTypeOK, OrderInv, NEW n \in Node, Numbered(n), Acks(Peer(n)),
           NEW p \in rxBuf[n], IsOurAck(n, p)
    PROVE  p.uid = calls[n]
  <1>1. p \in Packet /\ p.uid \in Nat /\ calls[n] \in Nat
    BY Packets DEF LinkTypeOK, RadioTypeOK
  <1>2. IdOf(p.uid) = IdOf(calls[n])
    BY DEF Numbered, IsOurAck
  <1>3. p.uid <= calls[n] /\ calls[n] - p.uid <= MaxGap + 1
    BY <1>1, Peers, Bounds DEF Acks, IsOurAck
  <1>4. calls[n] - p.uid < SeqMod
    BY <1>1, <1>3, Bounds
  <1> QED
    BY <1>1, <1>2, <1>3, <1>4, IdTells

\* What is secured stays secured until a restart.
LEMMA StaysSecured ==
    ASSUME LinkTypeOK, OrderInv, [LinkNext]_linkVars, NEW n \in Node,
           resets'[n] = 0, NEW u \in Nat, Secured(n, u)
    PROVE  Secured(n, u)'
  <1> USE DEF Secured, OrderInv, OrderAt, Deaf, LinkTypeOK, RadioTypeOK
  <1>1. ASSUME NEW k \in Node, NEW m \in Msg, SendtoWait(k, m) PROVE Secured(n, u)'
    BY <1>1 DEF SendtoWait
  <1>2. ASSUME NEW k \in Node, Poll(k) PROVE Secured(n, u)'
    BY <1>2 DEF Poll, ListenWait, TakeAck, ReAck, Discard, historyVars
  <1>3. ASSUME NEW k \in Node, Timeout(k) PROVE Secured(n, u)'
    BY <1>3 DEF Timeout, Retransmit, GiveUp, historyVars
  <1>4. ASSUME NEW k \in Node, Receive(k) PROVE Secured(n, u)'
    <2>1. CASE ListenApp(k) \/ DropAck(k)
      BY <2>1 DEF ListenApp, DropAck, threadVars, historyVars
    <2>2. CASE Acknowledge(k)
      BY <2>2 DEF Acknowledge, historyVars
    <2>3. CASE Deliver(k)
      BY <2>3 DEF Deliver, Remember
    <2>4. CASE Filter(k)
      BY <2>4 DEF Filter, historyVars
    <2> QED
      BY <1>4, <2>1, <2>2, <2>3, <2>4 DEF Receive
  <1>5. ASSUME NEW k \in Node, TxDone(k) PROVE Secured(n, u)'
    BY <1>5 DEF TxDone, threadVars, historyVars
  <1>6. ASSUME NEW k \in Node, NEW c \in Config, ChangeModem(k, c) PROVE Secured(n, u)'
    BY <1>6 DEF ChangeModem, threadVars, historyVars
  <1>7. ASSUME NEW k \in Node, Reset(k) PROVE Secured(n, u)'
    BY <1>7 DEF Reset
  <1>8. CASE UNCHANGED linkVars
    BY <1>8 DEF linkVars, threadVars, historyVars
  <1> QED
    BY <1>1, <1>2, <1>3, <1>4, <1>5, <1>6, <1>7, <1>8 DEF LinkNext

\* Only a restart is counted as one.
LEMMA ResetsCount ==
    ASSUME LinkTypeOK, [LinkNext]_linkVars
    PROVE  \/ resets' = resets
           \/ \E n \in Node : resets'[n] # 0
  <1> USE DEF LinkTypeOK
  <1>1. ASSUME NEW n \in Node, Reset(n) PROVE resets'[n] # 0
    BY <1>1 DEF Reset
  <1>2. ASSUME NEW n \in Node,
               \/ \E m \in Msg : SendtoWait(n, m)
               \/ Poll(n) \/ Timeout(n) \/ Receive(n) \/ TxDone(n)
               \/ \E c \in Config : ChangeModem(n, c)
        PROVE  resets' = resets
    BY <1>2 DEF SendtoWait, Poll, ListenWait, TakeAck, ReAck, Discard, Timeout,
       Retransmit, GiveUp, Receive, ListenApp, DropAck, Acknowledge, Deliver, Filter,
       TxDone, ChangeModem, historyVars
  <1>3. CASE UNCHANGED linkVars
    BY <1>3 DEF linkVars, historyVars
  <1> QED
    BY <1>1, <1>2, <1>3 DEF LinkNext

\* Numbers stay the calls modulo SeqMod.
LEMMA NumberedStep ==
    ASSUME LinkTypeOK, OrderInv, [LinkNext]_linkVars, resets' = resets,
           \A n \in Node : Numbered(n), NEW k \in Node
    PROVE  Numbered(k)'
  <1> USE Packets DEF Numbered, LinkTypeOK, RadioTypeOK
  <1>1. ASSUME NEW n \in Node, NEW m \in Msg, SendtoWait(n, m) PROVE Numbered(k)'
    <2>1. (seq[n] + 1) % SeqMod = IdOf(calls[n] + 1)
      BY IdOfNext
    <2> QED
      BY <1>1, <2>1, Peers DEF SendtoWait, NextSeq, Send, StartTx, Data
  <1>2. ASSUME NEW n \in Node, Poll(n) PROVE Numbered(k)'
    <2>1. CASE ListenWait(n) \/ TakeAck(n) \/ Discard(n)
      BY <2>1, Peers DEF ListenWait, Listen, TakeAck, TakeBuffer, Discard, historyVars
    <2>2. CASE ReAck(n)
      BY <2>2, Peers DEF ReAck, TakeAndSend, StartTx, AckOf, historyVars
    <2> QED
      BY <1>2, <2>1, <2>2 DEF Poll
  <1>3. ASSUME NEW n \in Node, Timeout(n) PROVE Numbered(k)'
    BY <1>3, Peers DEF Timeout, Retransmit, Send, StartTx, Data, GiveUp, radioVars,
       historyVars
  <1>4. ASSUME NEW n \in Node, Receive(n) PROVE Numbered(k)'
    <2>1. CASE ListenApp(n) \/ DropAck(n)
      BY <2>1, Peers DEF ListenApp, Listen, DropAck, TakeBuffer, threadVars, historyVars
    <2>2. CASE Acknowledge(n)
      BY <2>2, Peers DEF Acknowledge, TakeAndSend, StartTx, AckOf, historyVars
    <2>3. CASE Deliver(n)
      <3> PICK p \in inp[n] : /\ seen' = [seen EXCEPT ![n] = p.id]
                              /\ last' = [last EXCEPT ![n] = p.uid]
        BY <2>3 DEF Deliver, Remember
      <3>1. p.uid \in last[n] .. calls[Peer(n)] /\ p.id = IdOf(p.uid)
        BY Peers DEF OrderInv, OrderAt, Arrived, Delivered
      <3>2. calls[Peer(n)] - p.uid <= MaxGap
        BY <3>1, Peers, Bounds
      <3> QED
        BY <2>3, <3>1, <3>2, Peers DEF Deliver, Remember, radioVars
    <2>4. CASE Filter(n)
      BY <2>4, Peers DEF Filter, radioVars, historyVars
    <2> QED
      BY <1>4, <2>1, <2>2, <2>3, <2>4 DEF Receive
  <1>5. ASSUME NEW n \in Node, TxDone(n) PROVE Numbered(k)'
    BY <1>5, Peers DEF TxDone, TxDoneHeard, TxDoneLost, threadVars, historyVars
  <1>6. ASSUME NEW n \in Node, NEW c \in Config, ChangeModem(n, c) PROVE Numbered(k)'
    BY <1>6, Peers DEF ChangeModem, SetModem, threadVars, historyVars
  <1>7. ASSUME NEW n \in Node, Reset(n) PROVE Numbered(k)'
    BY <1>7 DEF Reset
  <1>8. CASE UNCHANGED linkVars
    BY <1>8, Peers DEF linkVars, radioVars, threadVars, historyVars
  <1> QED
    BY <1>1, <1>2, <1>3, <1>4, <1>5, <1>6, <1>7, <1>8 DEF LinkNext

\* What is acknowledged, in the air, at the sender or taken, is secured.
LEMMA AcksStep ==
    ASSUME LinkTypeOK, OrderInv, [LinkNext]_linkVars,
           \A n \in Node : resets'[n] = 0,
           \A n \in Node : Numbered(n) /\ Acks(n), NEW k \in Node
    PROVE  Acks(k)'
  <1>0. \A n \in Node : \A u \in Nat : Secured(n, u) => Secured(n, u)'
    BY StaysSecured
  <1> USE <1>0, Packets DEF Acks, LinkTypeOK, RadioTypeOK
  <1>1. ASSUME NEW n \in Node, NEW m \in Msg, SendtoWait(n, m) PROVE Acks(k)'
    BY <1>1, Peers, Bounds DEF SendtoWait, NextSeq, Send, StartTx, Data, Numbered
  <1>2. ASSUME NEW n \in Node, Poll(n) PROVE Acks(k)'
    <2>1. CASE ListenWait(n)
      BY <2>1, Peers DEF ListenWait, Listen, historyVars
    <2>2. CASE TakeAck(n)
      <3> PICK p \in rxBuf[n] : IsOurAck(n, p)
        BY <2>2 DEF TakeAck
      <3>1. p.uid = calls[n] /\ Secured(Peer(n), calls[n])
        BY OurAckIsOurs, Peers DEF IsOurAck
      <3> QED
        BY <2>2, <3>1, Peers DEF TakeAck, TakeBuffer
    <2>3. CASE ReAck(n)
      <3> PICK p \in rxBuf[n] : IsSeen(n, p) /\ TakeAndSend(n, AckOf(p))
        BY <2>3 DEF ReAck
      <3>1. p.uid \in last[n] .. calls[Peer(n)] /\ Secured(n, p.uid)
        BY AckIsSecured DEF IsSeen, Secured
      <3> QED
        BY <2>3, <3>1, Peers DEF ReAck, TakeAndSend, StartTx, AckOf, historyVars
    <2>4. CASE Discard(n)
      BY <2>4, Peers DEF Discard, TakeBuffer, historyVars
    <2> QED
      BY <1>2, <2>1, <2>2, <2>3, <2>4 DEF Poll
  <1>3. ASSUME NEW n \in Node, Timeout(n) PROVE Acks(k)'
    <2>1. CASE Retransmit(n)
      <3>1. ctl[n] = "waiting" /\ ctl' = [ctl EXCEPT ![n] = "sent"] /\ rxBuf' = rxBuf
            /\ UNCHANGED historyVars
        BY <2>1 DEF Retransmit
      <3>2. \A p \in fifo'[k] : p.ack => p \in fifo[k]
        <4> PICK m \in out[n] : Send(n, Data(seq[n], calls[n], m))
          BY <2>1 DEF Retransmit
        <4> DEFINE d == Data(seq[n], calls[n], m)
        <4>1. fifo' = fifo \/ fifo' = [fifo EXCEPT ![n] = {d}]
          BY DEF Send, StartTx
        <4>2. ~d.ack
          BY DEF Data
        <4> HIDE DEF d
        <4>3. \A p \in fifo'[k] : p \in fifo[k] \/ p = d
          <5>1. CASE fifo' = fifo
            BY <5>1
          <5>2. CASE fifo' = [fifo EXCEPT ![n] = {d}]
            BY <5>2
          <5> QED
            BY <4>1, <5>1, <5>2
        <4> QED
          BY <4>2, <4>3
      <3> QED
        BY <3>1, <3>2, Peers, Bounds DEF historyVars
    <2>2. CASE GiveUp(n)
      BY <2>2, Peers DEF GiveUp, radioVars, historyVars
    <2> QED
      BY <1>3, <2>1, <2>2 DEF Timeout
  <1>4. ASSUME NEW n \in Node, Receive(n) PROVE Acks(k)'
    <2>1. CASE ListenApp(n) \/ DropAck(n)
      BY <2>1, Peers DEF ListenApp, Listen, DropAck, TakeBuffer, threadVars, historyVars
    <2>2. CASE Acknowledge(n)
      <3> PICK p \in rxBuf[n] : /\ ~p.ack
                                /\ TakeAndSend(n, AckOf(p))
                                /\ inp' = [inp EXCEPT ![n] = {p}]
        BY <2>2 DEF Acknowledge
      <3>1. p.uid \in last[n] .. calls[Peer(n)] /\ Secured(n, p.uid)'
        BY <2>2, AckIsSecured DEF Secured, Acknowledge, historyVars
      <3> QED
        BY <2>2, <3>1, Peers DEF Acknowledge, TakeAndSend, StartTx, AckOf, historyVars
    <2>3. CASE Deliver(n)
      BY <2>3, Peers DEF Deliver, Remember, radioVars, OrderInv, OrderAt, Deaf
    <2>4. CASE Filter(n)
      BY <2>4, Peers DEF Filter, radioVars, historyVars
    <2> QED
      BY <1>4, <2>1, <2>2, <2>3, <2>4 DEF Receive
  <1>5. ASSUME NEW n \in Node, TxDone(n) PROVE Acks(k)'
    <2>1. CASE TxDoneHeard(n)
      <3>1. \A p \in fifo'[k] : p \in fifo[k]
        BY <2>1 DEF TxDoneHeard
      <3>2. \A p \in rxBuf'[Peer(k)] : p \in rxBuf[Peer(k)] \/ p \in fifo[k]
        BY <2>1, Peers DEF TxDoneHeard
      <3>3. \A p \in fifo[k] : p.ack => calls[Peer(k)] - p.uid <= MaxGap
        BY Peers, Bounds DEF Numbered
      <3> QED
        BY <1>5, <3>1, <3>2, <3>3, Peers, Bounds DEF TxDone, threadVars, historyVars
    <2>2. CASE TxDoneLost(n)
      BY <1>5, <2>2, Peers DEF TxDone, TxDoneLost, threadVars, historyVars
    <2> QED
      BY <1>5, <2>1, <2>2 DEF TxDone
  <1>6. ASSUME NEW n \in Node, NEW c \in Config, ChangeModem(n, c) PROVE Acks(k)'
    BY <1>6, Peers DEF ChangeModem, SetModem, threadVars, historyVars
  <1>7. ASSUME NEW n \in Node, Reset(n) PROVE Acks(k)'
    BY <1>7 DEF Reset
  <1>8. CASE UNCHANGED linkVars
    BY <1>8, Peers DEF linkVars, radioVars, threadVars, historyVars
  <1> QED
    BY <1>1, <1>2, <1>3, <1>4, <1>5, <1>6, <1>7, <1>8 DEF LinkNext

\* Both together, for as long as neither radio restarts.
LEMMA AckStep == LinkTypeOK /\ OrderInv /\ AckInv /\ [LinkNext]_linkVars => AckInv'
  <1> SUFFICES ASSUME LinkTypeOK, OrderInv, AckInv, [LinkNext]_linkVars,
                      \A n \in Node : resets'[n] = 0, NEW k \in Node
               PROVE  Numbered(k)' /\ Acks(k)'
    BY DEF AckInv
  <1>1. resets' = resets
    BY ResetsCount
  <1>2. \A n \in Node : Numbered(n) /\ Acks(n)
    BY <1>1 DEF AckInv
  <1> QED
    BY <1>1, <1>2, NumberedStep, AcksStep

\* The invariant the model checker checks on small instances.
THEOREM LinkInvariant == LinkSpec => []LinkInv
  BY TypeInit, TypeStep, OrderInit, OrderStep, AckInit, AckStep, PTL
     DEF LinkSpec, LinkInv

\* An acknowledged call has been delivered, or is about to be, as long as the
\* radios have not been restarted: nothing between the sender's counter and
\* the receiver's sketch can make sendtoWait() true by mistake.
THEOREM LinkAckMeansDelivered == LinkSpec => []AckMeansDelivered
  <1>1. LinkInv => AckMeansDelivered
    <2> SUFFICES ASSUME LinkInv, \A n \in Node : resets[n] = 0, NEW n \in Node,
                        NEW u \in acked[n]
                 PROVE  \/ u \in got[Peer(n)]
                        \/ \E p \in inp[Peer(n)] : p.uid = u /\ p.id # seen[Peer(n)]
      BY DEF AckMeansDelivered
    <2>1. Acks(Peer(n))
      BY Peers DEF LinkInv, AckInv
    <2> QED
      BY <2>1, Peers DEF Acks, Secured
  <1> QED
    BY LinkInvariant, <1>1, PTL

\* recvfromAck() filters repetitions only, as long as the radios have not
\* been restarted; that it takes a restart is what the run link_filter shows.
THEOREM LinkFilter == LinkSpec => []FilterOnlyDuplicatesOnce
  <1>1. LinkInv => FilterOnlyDuplicatesOnce
    <2> SUFFICES ASSUME LinkInv, \A n \in Node : resets[n] = 0, NEW n \in Node,
                        NEW p \in inp[n], p.id = seen[n]
                 PROVE  p.uid \in got[n]
      BY DEF FilterOnlyDuplicatesOnce, FilterOnlyDuplicates
    <2>1. Numbered(n) /\ ~p.ack /\ LinkTypeOK /\ OrderInv
      BY DEF LinkInv, AckInv, OrderInv, OrderAt, Delivered
    <2> QED
      BY <2>1, SeenIsLast
  <1> QED
    BY LinkInvariant, <1>1, PTL

=============================================================================
