-------------------------- MODULE AUVComms_proofs ---------------------------
(***************************************************************************)
(* Proofs about the sketch on both radios: it uses the link as the link    *)
(* may be used, so what is proved of the link holds of it, and a change of *)
(* settings that the shore begins never leaves the AUV alone.              *)
(***************************************************************************)
EXTENDS AUVComms, ReliableDatagram_proofs

\* Names for a part of one action each.
USE DEF ClearRemote, TakeSettings, WordsRead, ForVehicle

-----------------------------------------------------------------------------
(* The sketch implements the link                                          *)

SetOK == set \in [Node -> Config]

\* What the settings are before anything is typed or received.
LEMMA NoSettingsOK == NoSettings \in Config
  BY Registers DEF NoSettings

\* A line that is well formed leaves register values in set[].
LEMMA LocalSetOK ==
    ASSUME NEW old \in Config, NEW line
    PROVE  LocalSet(old, line) \in Config
  BY Registers DEF LocalSet

\* The array set[] only ever holds values of the look-up tables, or zero.
LEMMA SetInit == Init => SetOK
  BY NoSettingsOK DEF Init, SetOK

LEMMA SetStep == SetOK /\ [Next]_vars => SetOK'
  <1> SUFFICES ASSUME SetOK, [Next]_vars PROVE SetOK'
    OBVIOUS
  <1> USE DEF SetOK
  <1>1. ASSUME NEW n \in Node, Typed(n) PROVE SetOK'
    BY <1>1, LocalSetOK DEF Typed, BattCheck, TypeMalformed, TypeMode,
       TypeModeSolo, TypeLine
  <1>2. ASSUME NEW n \in Node, Thread(n) PROVE SetOK'
    BY <1>2 DEF Thread, Wait, Acknowledged, Idle, TakeMessage, Words,
       RequestNotUnderstood, Confirm, Apply, AnswerPing, Confirmed, EndOfMessage,
       appVars
  <1>3. ASSUME NEW n \in Node, Expire(n) \/ Radio(n) \/ PowerCycle(n) PROVE SetOK'
    BY <1>3, NoSettingsOK DEF Expire, Resend, Unacknowledged, Radio, PowerCycle, appVars
  <1>4. CASE UNCHANGED vars
    BY <1>4 DEF vars, appVars
  <1> QED
    BY <1>1, <1>2, <1>3, <1>4 DEF Next

\* Every step of the sketch is a step of the link or leaves it alone.
LEMMA LinkStep == SetOK /\ [Next]_vars => [LinkNext]_linkVars
  <1> SUFFICES ASSUME SetOK, [Next]_vars PROVE [LinkNext]_linkVars
    OBVIOUS
  <1>1. ASSUME NEW n \in Node, Typed(n) PROVE [LinkNext]_linkVars
    <2>1. CASE BattCheck(n)
      BY <2>1, LinesAreSent DEF BattCheck, LinkNext
    <2>2. ASSUME NEW line \in Line[n], TypeMalformed(n, line) PROVE [LinkNext]_linkVars
      BY <2>2 DEF TypeMalformed
    <2>3. ASSUME NEW line \in Line[n], TypeMode(n, line) \/ TypeLine(n, line)
          PROVE  [LinkNext]_linkVars
      BY <2>3, LinesAreSent DEF TypeMode, TypeLine, LinkNext
    <2>4. ASSUME NEW line \in Line[n], TypeModeSolo(n, line) PROVE [LinkNext]_linkVars
      BY <2>4, LocalSetOK DEF TypeModeSolo, LinkNext, SetOK
    <2> QED
      BY <1>1, <2>1, <2>2, <2>3, <2>4 DEF Typed
  <1>2. ASSUME NEW n \in Node, Wait(n) \/ Acknowledged(n) \/ Idle(n) \/ TakeMessage(n)
        PROVE  [LinkNext]_linkVars
    BY <1>2 DEF Wait, Acknowledged, Idle, TakeMessage, LinkNext, Poll, Receive
  <1>3. ASSUME NEW n \in Node, Words(n) PROVE [LinkNext]_linkVars
    <2>1. CASE RequestNotUnderstood(n) \/ EndOfMessage(n)
      BY <2>1 DEF RequestNotUnderstood, EndOfMessage
    <2>2. CASE Confirm(n)
      <3> PICK c \in Config : SendtoWait(n, Confirmation(c))
        BY <2>2 DEF Confirm
      <3> QED
        BY LinesAreSent DEF LinkNext, Confirmation
    <2>3. CASE AnswerPing(n)
      BY <2>3, LinesAreSent DEF AnswerPing, LinkNext
    <2>4. CASE Apply(n) \/ Confirmed(n)
      BY <2>4 DEF Apply, Confirmed, LinkNext, SetOK
    <2> QED
      BY <1>3, <2>1, <2>2, <2>3, <2>4 DEF Words
  <1>4. ASSUME NEW n \in Node, Expire(n) \/ Radio(n) \/ PowerCycle(n)
        PROVE  [LinkNext]_linkVars
    BY <1>4 DEF Expire, Resend, Unacknowledged, Radio, PowerCycle, LinkNext, Timeout
  <1>5. CASE UNCHANGED vars
    BY <1>5 DEF vars
  <1> QED
    BY <1>1, <1>2, <1>3, <1>4, <1>5 DEF Next, Thread

\* The sketch implements the link: what it does to the radio and the library
\* is what the specification of the link allows.
THEOREM SketchUsesLink == Spec => LinkSpec
  <1>1. Init => LinkInit
    BY DEF Init
  <1> QED
    BY <1>1, SetInit, SetStep, LinkStep, PTL DEF Spec, LinkSpec

\* So what was proved of the link holds while the sketch runs on it.
THEOREM SketchLinkInv == Spec => []LinkInv /\ []InOrderOnce /\ []AckMeansDelivered
  BY SketchUsesLink, LinkInvariant, LinkInOrderOnce, LinkAckMeansDelivered, PTL

-----------------------------------------------------------------------------
(* Types                                                                   *)

\* Nothing the sketch does leaves its types: a message it goes through is a
\* message, its words are counted, set[] and the registers hold table values.
LEMMA AppTypeStep ==
    ASSUME LinkTypeOK, OrderInv, AppTypeOK, [Next]_vars
    PROVE  AppTypeOK'
  <1> USE DEF AppTypeOK, Place
  <1>0. /\ \A n \in Node : calls[n] + 1 \in Nat
        /\ SetOK'
        /\ \A n \in Node : inp[n] \subseteq DataPacket
        /\ \A p \in DataPacket : p.uid \in Nat /\ p.msg \in Msg
    <2>1. SetOK'
      BY SetStep DEF SetOK
    <2>2. ASSUME NEW n \in Node, NEW p \in inp[n] PROVE p \in DataPacket
      <3>1. p \in Packet /\ ~p.ack
        BY DEF LinkTypeOK, OrderInv, OrderAt, Delivered
      <3> QED
        BY <3>1 DEF Packet, DataPacket, AckPacket
    <2>3. \A p \in DataPacket : p.uid \in Nat /\ p.msg \in Msg
      BY DEF DataPacket
    <2>4. \A n \in Node : calls[n] + 1 \in Nat
      BY DEF LinkTypeOK
    <2> QED
      BY <2>1, <2>2, <2>3, <2>4
  <1>1. ASSUME NEW n \in Node, Typed(n) PROVE AppTypeOK'
    <2>1. CASE BattCheck(n)
      BY <2>1 DEF BattCheck, GoTo
    <2>2. ASSUME NEW line \in Line[n],
                 TypeMalformed(n, line) \/ TypeMode(n, line) \/ TypeModeSolo(n, line)
          PROVE  AppTypeOK'
      BY <1>0, <2>2 DEF SetOK, TypeMalformed, TypeMode, TypeModeSolo, GoTo
    <2>3. ASSUME NEW line \in Line[n], TypeLine(n, line) PROVE AppTypeOK'
      <3>1. calls'[n] \in Nat
        BY <1>0, <2>3 DEF TypeLine, SendtoWait, LinkTypeOK
      <3> QED
        BY <2>3, <3>1 DEF TypeLine, GoTo
    <2> QED
      BY <1>1, <2>1, <2>2, <2>3 DEF Typed
  <1>2. ASSUME NEW n \in Node, Wait(n) \/ Resend(n) \/ Idle(n) \/ Radio(n)
        PROVE  AppTypeOK'
    BY <1>2 DEF Wait, Resend, Idle, Radio, appVars
  <1>3. ASSUME NEW n \in Node, Acknowledged(n) PROVE AppTypeOK'
    BY <1>3 DEF Acknowledged, AfterAck, GoTo
  <1>4. ASSUME NEW n \in Node, Unacknowledged(n) PROVE AppTypeOK'
    BY <1>4 DEF Unacknowledged, AfterFailure, GoTo
  <1>5. ASSUME NEW n \in Node, TakeMessage(n) PROVE AppTypeOK'
    BY <1>0, <1>5 DEF TakeMessage, GoTo
  <1>6. ASSUME NEW n \in Node, Words(n) PROVE AppTypeOK'
    <2>1. ASSUME NEW p \in buf[n]
          PROVE  Len(p.msg) \in Nat /\ DOMAIN p.msg \subseteq Nat /\ p.uid \in Nat
      BY <1>0, Sentences
    <2>2. CASE RequestNotUnderstood(n)
      BY <1>0, <2>1, <2>2 DEF SetOK, RequestNotUnderstood, GoOn
    <2>3. CASE Confirm(n)
      BY <1>0, <2>1, <2>3 DEF SetOK, Confirm, GoOn, GoTo
    <2>4. CASE Apply(n)
      BY <2>4 DEF Apply, GoTo
    <2>5. CASE AnswerPing(n) \/ Confirmed(n)
      BY <2>1, <2>5 DEF AnswerPing, Confirmed, GoOn, GoTo
    <2>6. CASE EndOfMessage(n)
      BY <2>1, <2>6 DEF EndOfMessage, GoTo
    <2> QED
      BY <1>6, <2>2, <2>3, <2>4, <2>5, <2>6 DEF Words
  <1>7. ASSUME NEW n \in Node, PowerCycle(n) PROVE AppTypeOK'
    BY <1>7, NoSettingsOK DEF PowerCycle, GoTo
  <1>8. CASE UNCHANGED vars
    BY <1>8 DEF vars, appVars
  <1> QED
    BY <1>1, <1>2, <1>3, <1>4, <1>5, <1>6, <1>7, <1>8 DEF Next, Thread, Expire

\* Types of the sketch and the link, for every vocabulary and every bound.
THEOREM SketchTypeCorrect == Spec => []TypeOK
  <1>1. Init => AppTypeOK
    BY NoSettingsOK DEF Init, AppTypeOK, Place
  <1>2. LinkInv => LinkTypeOK /\ OrderInv
    BY DEF LinkInv
  <1> QED
    BY <1>1, <1>2, AppTypeStep, SketchLinkInv, PTL DEF Spec, TypeOK

-----------------------------------------------------------------------------
(* One thread                                                              *)

\* Both sketches are at the top of loop(), with nothing in their buffers.
LEMMA ThreadInit == Init => ThreadInv
  BY DEF Init, LinkInit, ThreadInv, InCall, Sending

\* Every call of the library begins and ends where the sketch is in one, a
\* message is taken at the top of loop() and dropped before the sketch is
\* back there; k is the node whose part is shown, n the one that moves.
LEMMA ThreadStep ==
    ASSUME LinkTypeOK, OrderInv, AppTypeOK, ThreadInv, [Next]_vars
    PROVE  ThreadInv'
  <1> DEFINE Here(k) == /\ InCall(k) <=> Sending(k)
                        /\ ctl[k] = "recvfromAck" => at[k] = "loop"
                        /\ at[k] \in {"loop", "transmit", "modeChangeLocal"} => buf[k] = {}
                        /\ at[k] \in {"modeChangeRemote", "apply", "ping"} => remote[k]
                        /\ \A p, q \in buf[k] : p = q
  <1> SUFFICES ASSUME NEW k \in Node PROVE Here(k)'
    BY DEF ThreadInv
  <1>0. Here(k) /\ ctl \in [Node -> Control]
    BY DEF ThreadInv, LinkTypeOK
  <1> USE <1>0 DEF InCall, Sending, GoTo, AppTypeOK
  <1>1. ASSUME NEW n \in Node, Typed(n) PROVE Here(k)'
    <2>1. CASE BattCheck(n)
      BY <2>1 DEF BattCheck, SendtoWait
    <2>2. ASSUME NEW line \in Line[n], TypeMalformed(n, line) PROVE Here(k)'
      BY <2>2 DEF TypeMalformed, linkVars, threadVars
    <2>3. ASSUME NEW line \in Line[n], TypeMode(n, line) PROVE Here(k)'
      BY <2>3 DEF TypeMode, MayType, SendtoWait
    <2>4. ASSUME NEW line \in Line[n], TypeModeSolo(n, line) PROVE Here(k)'
      BY <2>4 DEF TypeModeSolo, ChangeModem, threadVars
    <2>5. ASSUME NEW line \in Line[n], TypeLine(n, line) PROVE Here(k)'
      BY <2>5 DEF TypeLine, MayType, SendtoWait
    <2> QED
      BY <1>1, <2>1, <2>2, <2>3, <2>4, <2>5 DEF Typed
  <1>2. ASSUME NEW n \in Node, Words(n) PROVE Here(k)'
    <2>1. CASE RequestNotUnderstood(n)
      BY <2>1 DEF RequestNotUnderstood, NextKeyword, GoOn, linkVars, threadVars
    <2>2. CASE Confirm(n)
      BY <2>2 DEF Confirm, NextKeyword, GoOn, SendtoWait
    <2>3. CASE Apply(n)
      BY <2>3 DEF Apply, ChangeModem, threadVars
    <2>4. CASE AnswerPing(n)
      BY <2>4 DEF AnswerPing, NextKeyword, GoOn, SendtoWait
    <2>5. CASE Confirmed(n)
      BY <2>5 DEF Confirmed, NextKeyword, GoOn, ChangeModem, threadVars
    <2>6. CASE EndOfMessage(n)
      BY <2>6 DEF EndOfMessage, linkVars, threadVars
    <2> QED
      BY <1>2, <2>1, <2>2, <2>3, <2>4, <2>5, <2>6 DEF Words
  <1>3. ASSUME NEW n \in Node, Wait(n) \/ Resend(n) PROVE Here(k)'
    BY <1>3 DEF Wait, ListenWait, ReAck, Discard, Resend, Retransmit, appVars
  <1>4. ASSUME NEW n \in Node, Acknowledged(n) PROVE Here(k)'
    BY <1>4 DEF Acknowledged, TakeAck, AfterAck
  <1>5. ASSUME NEW n \in Node, Unacknowledged(n) PROVE Here(k)'
    BY <1>5 DEF Unacknowledged, GiveUp, AfterFailure
  <1>6. ASSUME NEW n \in Node, Idle(n) PROVE Here(k)'
    BY <1>6 DEF Idle, ListenApp, DropAck, Acknowledge, Filter, appVars, threadVars
  <1>7. ASSUME NEW n \in Node, TakeMessage(n) PROVE Here(k)'
    <2>1. \A p, q \in inp[n] : p = q
      BY DEF OrderInv, OrderAt, Deaf
    <2> QED
      BY <1>7, <2>1 DEF TakeMessage, Deliver
  <1>8. ASSUME NEW n \in Node, Radio(n) PROVE Here(k)'
    BY <1>8 DEF Radio, TxDone, appVars, threadVars
  <1>9. ASSUME NEW n \in Node, PowerCycle(n) PROVE Here(k)'
    BY <1>9 DEF PowerCycle, Reset
  <1>10. CASE UNCHANGED vars
    BY <1>10 DEF vars, linkVars, threadVars, appVars
  <1> QED
    BY <1>1, <1>2, <1>3, <1>4, <1>5, <1>6, <1>7, <1>8, <1>9, <1>10
       DEF Next, Thread, Expire

\* The sketch and the library agree on where the thread is, for every line and
\* every restart; a message is in the sketch's buffer only while the sketch
\* goes through it.
LEMMA SketchIsOneThread == Spec => []ThreadInv
  <1>1. LinkInv /\ TypeOK => LinkTypeOK /\ OrderInv /\ AppTypeOK
    BY DEF LinkInv, TypeOK
  <1> QED
    BY <1>1, ThreadInit, ThreadStep, SketchLinkInv, SketchTypeCorrect, PTL DEF Spec

-----------------------------------------------------------------------------
(* The vocabulary of a handshake                                           *)

\* The request for c is well formed, is taken by both radios for c, and is
\* no confirmation.
LEMMA RequestWords ==
    ASSUME NEW c \in [bw : Bw, sf : Sf]
    PROVE  /\ ~StartsWith(Request(c), MODESOLO)
           /\ StartsWith(Request(c), MODE)
           /\ ~Malformed(Request(c))
           /\ \A old : LocalSet(old, Request(c)) = c
           /\ \A new \in Config : \A old \in Config :
                 IsRemoteSet(new, old, Request(c)) => new = c
           /\ \A i \in DOMAIN Request(c) : Request(c)[i] # RCVD
  <1>1. /\ Len(Request(c)) = 3 /\ DOMAIN Request(c) = {1, 2, 3}
        /\ Request(c)[1] = MODE /\ Request(c)[2] = c.bw /\ Request(c)[3] = c.sf
    BY DEF Request
  <1>2. c.bw \in Bw /\ c.sf \in Sf /\ c.bw \notin Sf /\ c.sf \notin Bw
    BY Vocabulary
  <1>3. MODE \notin Bw /\ MODE \notin Sf /\ RCVD \notin Bw /\ RCVD \notin Sf
    BY Vocabulary DEF Keyword
  <1>4. Places(Request(c), Bw) = {2} /\ Places(Request(c), Sf) = {3}
    BY <1>1, <1>2, <1>3 DEF Places
  <1>5. \A new \in Config : \A old \in Config :
           IsRemoteSet(new, old, Request(c)) => new = c
    <2> SUFFICES ASSUME NEW new \in Config, NEW old \in Config,
                        IsRemoteSet(new, old, Request(c))
                 PROVE  new = c
      OBVIOUS
    <2>1. new.bw = c.bw /\ new.sf = c.sf
      BY <1>1, <1>4 DEF IsRemoteSet, IsLastOf
    <2> QED
      BY <2>1, Registers
  <1>6. \A old : LocalSet(old, Request(c)) = c
    BY <1>1, <1>2 DEF LocalSet
  <1> QED
    BY <1>1, <1>2, <1>3, <1>5, <1>6, KeywordsDiffer DEF StartsWith, Malformed

\* The confirmation starts with its keyword and asks for nothing.
LEMMA ConfirmationWords ==
    ASSUME NEW c \in Config
    PROVE  /\ StartsWith(Confirmation(c), RCVD)
           /\ 1 \in DOMAIN Confirmation(c) /\ Confirmation(c)[1] = RCVD
           /\ \A i \in DOMAIN Confirmation(c) : Confirmation(c)[i] # MODE
  <1>1. /\ Len(Confirmation(c)) = 2 /\ DOMAIN Confirmation(c) = {1, 2}
        /\ Confirmation(c)[1] = RCVD /\ Confirmation(c)[2] = c
    BY DEF Confirmation
  <1>2. c # MODE /\ RCVD # MODE
    BY Vocabulary, KeywordsDiffer DEF Keyword
  <1> QED
    BY <1>1, <1>2 DEF StartsWith

\* A harmless message has neither keyword.
LEMMA HarmlessWords ==
    ASSUME NEW m, Harmless(m)
    PROVE  /\ ~StartsWith(m, MODE) /\ ~StartsWith(m, MODESOLO)
           /\ \A i \in DOMAIN m : m[i] # MODE /\ m[i] # RCVD
  BY DEF Harmless, Places

-----------------------------------------------------------------------------
(* What is in the air was sent                                             *)

\* A message on its way to the sketch was there before or is that of the
\* sender's current call.
LEMMA OnTheWay ==
    ASSUME LinkTypeOK, [LinkNext]_linkVars, NEW n \in Node,
           NEW p \in fifo'[n] \cup rxBuf'[Peer(n)] \cup inp'[Peer(n)], ~p.ack
    PROVE  \/ p \in fifo[n] \cup rxBuf[Peer(n)] \cup inp[Peer(n)]
           \/ p.uid = calls'[n] /\ p.msg \in out'[n]
  <1> USE DEF LinkTypeOK, RadioTypeOK
  <1>1. ASSUME NEW k \in Node, NEW m \in Msg, SendtoWait(k, m)
        PROVE  \/ p \in fifo[n] \cup rxBuf[Peer(n)] \cup inp[Peer(n)]
               \/ p.uid = calls'[n] /\ p.msg \in out'[n]
    BY <1>1, Peers DEF SendtoWait, NextSeq, Send, StartTx, Data
  <1>2. ASSUME NEW k \in Node, Poll(k)
        PROVE  p \in fifo[n] \cup rxBuf[Peer(n)] \cup inp[Peer(n)]
    BY <1>2, Peers DEF Poll, ListenWait, Listen, TakeAck, TakeBuffer, ReAck,
       TakeAndSend, StartTx, AckOf, Discard
  <1>3. ASSUME NEW k \in Node, Timeout(k)
        PROVE  \/ p \in fifo[n] \cup rxBuf[Peer(n)] \cup inp[Peer(n)]
               \/ p.uid = calls'[n] /\ p.msg \in out'[n]
    BY <1>3, Peers DEF Timeout, Retransmit, Send, StartTx, Data, GiveUp, radioVars,
       historyVars
  <1>4. ASSUME NEW k \in Node, Receive(k)
        PROVE  p \in fifo[n] \cup rxBuf[Peer(n)] \cup inp[Peer(n)]
    BY <1>4, Peers DEF Receive, ListenApp, Listen, DropAck, TakeBuffer, Acknowledge,
       TakeAndSend, StartTx, AckOf, Deliver, Filter, radioVars, threadVars
  <1>5. ASSUME NEW k \in Node, TxDone(k)
        PROVE  p \in fifo[n] \cup rxBuf[Peer(n)] \cup inp[Peer(n)]
    BY <1>5, Peers DEF TxDone, TxDoneHeard, TxDoneLost, threadVars
  <1>6. ASSUME NEW k \in Node, NEW d \in Config, ChangeModem(k, d)
        PROVE  p \in fifo[n] \cup rxBuf[Peer(n)] \cup inp[Peer(n)]
    BY <1>6 DEF ChangeModem, SetModem, threadVars
  <1>7. ASSUME NEW k \in Node, Reset(k)
        PROVE  p \in fifo[n] \cup rxBuf[Peer(n)] \cup inp[Peer(n)]
    BY <1>7, Peers DEF Reset, RadioReset
  <1>8. CASE UNCHANGED linkVars
    BY <1>8 DEF linkVars, radioVars, threadVars
  <1> QED
    BY <1>1, <1>2, <1>3, <1>4, <1>5, <1>6, <1>7, <1>8 DEF LinkNext

-----------------------------------------------------------------------------
(* A line typed at the shore comes out of the vehicle's UART               *)

\* A call of the shore is the next one, and for a line without keywords only
\* if that is what it says.
LEMMA PlainCalls ==
    ASSUME LinkTypeOK, AppTypeOK, [Next]_vars
    PROVE  \/ plain' = plain /\ calls'[Shore] = calls[Shore] /\ out'[Shore] \subseteq out[Shore]
           \/ plain' = plain /\ calls'[Shore] = calls[Shore] + 1
           \/ /\ plain' = plain \cup {calls'[Shore]} /\ calls'[Shore] = calls[Shore] + 1
              /\ \A m \in out'[Shore] : Plain(m)
  <1> DEFINE Goes   == calls'[Shore] = calls[Shore] /\ out'[Shore] \subseteq out[Shore]
             Begins == calls'[Shore] = calls[Shore] + 1
             Goal   == \/ plain' = plain /\ (Goes \/ Begins)
                       \/ /\ plain' = plain \cup {calls'[Shore]} /\ Begins
                          /\ \A m \in out'[Shore] : Plain(m)
  <1>0. Shore \in Node
    BY DEF Node
  <1> USE <1>0 DEF LinkTypeOK
  <1>1. ASSUME NEW n \in Node, NEW m, SendtoWait(n, m)
        PROVE  /\ Goes \/ Begins
               /\ n = Shore => Begins /\ out'[Shore] = {m}
    BY <1>1 DEF SendtoWait
  <1>2. ASSUME NEW n \in Node, Typed(n) PROVE Goal
    <2>1. CASE BattCheck(n)
      BY <1>1, <2>1 DEF BattCheck
    <2>2. ASSUME NEW line \in Line[n], TypeMalformed(n, line) \/ TypeModeSolo(n, line)
          PROVE  Goal
      BY <2>2 DEF TypeMalformed, TypeModeSolo, ChangeModem, linkVars, threadVars, historyVars
    <2>3. ASSUME NEW line \in Line[n], TypeMode(n, line) PROVE Goal
      BY <1>1, <2>3 DEF TypeMode
    <2>4. ASSUME NEW line \in Line[n], TypeLine(n, line) PROVE Goal
      BY <1>1, <2>4 DEF TypeLine, Plain
    <2> QED
      BY <1>2, <2>1, <2>2, <2>3, <2>4 DEF Typed
  <1>3. ASSUME NEW n \in Node, Words(n) PROVE Goal
    <2>1. CASE Confirm(n)
      BY <1>1, <2>1 DEF Confirm
    <2>2. CASE AnswerPing(n)
      BY <1>1, <2>2 DEF AnswerPing
    <2>3. CASE RequestNotUnderstood(n) \/ Apply(n) \/ Confirmed(n) \/ EndOfMessage(n)
      BY <2>3 DEF RequestNotUnderstood, Apply, Confirmed, EndOfMessage, ChangeModem,
         linkVars, threadVars, historyVars
    <2> QED
      BY <1>3, <2>1, <2>2, <2>3 DEF Words
  <1>4. ASSUME NEW n \in Node,
               \/ Wait(n) \/ Acknowledged(n) \/ Idle(n) \/ TakeMessage(n)
               \/ Expire(n) \/ Radio(n) \/ PowerCycle(n)
        PROVE  plain' = plain /\ Goes
    BY <1>4 DEF Wait, ListenWait, ReAck, Discard, Acknowledged, TakeAck, Idle,
       ListenApp, DropAck, Acknowledge, Filter, TakeMessage, Deliver, Expire, Resend,
       Retransmit, Unacknowledged, GiveUp, Radio, TxDone, PowerCycle, Reset, appVars,
       threadVars, historyVars
  <1>5. CASE UNCHANGED vars
    BY <1>5 DEF vars, linkVars, threadVars, historyVars, appVars
  <1> QED
    BY <1>2, <1>3, <1>4, <1>5 DEF Next, Thread

\* Only three steps change what the vehicle's sketch has in its buffer and
\* what it has printed; remoteControl goes up for a keyword of that message.
BufferStays ==
    /\ buf'[AUV] = buf[AUV]
    /\ conveyed' = conveyed
    /\ got'[AUV] = got[AUV]
    /\ resets'[AUV] = resets[AUV]
    /\ remote'[AUV] = remote[AUV] \/ \E p \in buf[AUV] : ~Plain(p.msg)

LEMMA BufferSteps ==
    ASSUME LinkTypeOK, AppTypeOK, [Next]_vars
    PROVE  BufferStays \/ TakeMessage(AUV) \/ EndOfMessage(AUV) \/ PowerCycle(AUV)
  <1>0. AUV \in Node
    BY DEF Node
  <1> USE <1>0 DEF BufferStays, LinkTypeOK, AppTypeOK
  <1>1. ASSUME NEW n \in Node, Typed(n) PROVE BufferStays
    BY <1>1 DEF Typed, BattCheck, TypeMalformed, TypeMode, TypeModeSolo, TypeLine,
       SendtoWait, ChangeModem, linkVars, historyVars
  <1>2. ASSUME NEW n \in Node,
               RequestNotUnderstood(n) \/ Confirm(n) \/ AnswerPing(n) \/ Confirmed(n)
        PROVE  BufferStays
    <2>1. buf' = buf /\ conveyed' = conveyed /\ got' = got /\ resets' = resets
      BY <1>2 DEF RequestNotUnderstood, Confirm, AnswerPing, Confirmed, SendtoWait,
         ChangeModem, linkVars, historyVars
    <2>2. \E p \in buf[n] : \E i \in DOMAIN p.msg : NextKeyword(n, p, i)
      BY <1>2 DEF RequestNotUnderstood, Confirm, AnswerPing, Confirmed
    <2>3. \E p \in buf[n] : ~Plain(p.msg)
      BY <2>2 DEF NextKeyword, Ahead, Plain
    <2>4. remote' = [remote EXCEPT ![n] = TRUE]
      BY <1>2 DEF RequestNotUnderstood, Confirm, AnswerPing, Confirmed, GoOn
    <2> QED
      BY <2>1, <2>3, <2>4
  <1>3. ASSUME NEW n \in Node,
               \/ Wait(n) \/ Acknowledged(n) \/ Idle(n) \/ Expire(n) \/ Radio(n) \/ Apply(n)
        PROVE  BufferStays
    BY <1>3 DEF Wait, ListenWait, ReAck, Discard, Acknowledged, TakeAck, Idle,
       ListenApp, DropAck, Acknowledge, Filter, Expire, Resend, Retransmit,
       Unacknowledged, GiveUp, Radio, TxDone, Apply, ChangeModem, appVars, historyVars
  <1>4. ASSUME NEW n \in Node, n # AUV, TakeMessage(n) \/ EndOfMessage(n) \/ PowerCycle(n)
        PROVE  BufferStays
    BY <1>4 DEF TakeMessage, Deliver, EndOfMessage, PowerCycle, Reset, linkVars, historyVars
  <1>5. CASE UNCHANGED vars
    BY <1>5 DEF vars, linkVars, historyVars, appVars
  <1> QED
    BY <1>1, <1>2, <1>3, <1>4, <1>5 DEF Next, Thread, Words

\* Nothing has been typed.
LEMMA ConveyInit == Init => PlainInv /\ UARTInv
  BY DEF Init, LinkInit, RadioInit, Node, PlainInv, UARTInv, ConveyedOnce

\* What has been printed, delivered, or is on its way is no later than the
\* shore's current call.
LEMMA NoneFromTheFuture ==
    ASSUME LinkTypeOK, OrderInv, UARTInv
    PROVE  /\ \A p \in fifo[Shore] \cup rxBuf[AUV] \cup inp[AUV] :
                 ~p.ack => p.uid \in Nat /\ p.uid <= calls[Shore]
           /\ \A u \in got[AUV] : u \in Nat /\ u <= calls[Shore]
           /\ \A p \in buf[AUV] : p.uid \in Nat /\ p.uid <= calls[Shore]
           /\ calls[Shore] \in Nat
           /\ \A p \in inp[AUV] : ~p.ack
  <1>1. AUV \in Node /\ Shore \in Node /\ Peer(AUV) = Shore
    BY TwoRadios DEF Node, Peer
  <1>2. /\ calls[Shore] \in Nat /\ last[AUV] \in Nat /\ got[AUV] \subseteq Nat
        /\ fifo[Shore] \subseteq Packet
        /\ rxBuf[AUV] \subseteq Packet /\ inp[AUV] \subseteq Packet
    BY <1>1 DEF LinkTypeOK, RadioTypeOK
  <1>3. /\ \A p \in fifo[Shore] : ~p.ack => p.uid = calls[Shore]
        /\ \A p \in rxBuf[AUV] \cup inp[AUV] : ~p.ack => p.uid \in last[AUV] .. calls[Shore]
    BY <1>1 DEF OrderInv, OrderAt, InFlight, Arrived
  <1>4. \A u \in got[AUV] : u <= calls[Shore]
    BY <1>1, <1>2 DEF OrderInv, OrderAt, Delivered
  <1>5. \A p \in inp[AUV] : ~p.ack
    BY <1>1 DEF OrderInv, OrderAt, Delivered
  <1> QED
    BY <1>2, <1>3, <1>4, <1>5 DEF UARTInv

\* The number of a line without keywords is never that of a message with one,
\* from sendtoWait() at the shore to the buffer of the AUV's sketch.
LEMMA PlainStep ==
    ASSUME LinkTypeOK, OrderInv, AppTypeOK, ThreadInv, PlainInv, UARTInv,
           [Next]_vars, [LinkNext]_linkVars
    PROVE  PlainInv'
  <1> DEFINE Way == fifo[Shore] \cup rxBuf[AUV] \cup inp[AUV]
  <1>0. AUV \in Node /\ Shore \in Node /\ Peer(Shore) = AUV /\ plain \subseteq Nat
    BY DEF Node, Peer, AppTypeOK
  <1>1. ASSUME NEW u \in plain' PROVE u <= calls'[Shore]
    <2>1. calls[Shore] \in Nat /\ \A v \in plain : v \in Nat /\ v <= calls[Shore]
      BY <1>0, NoneFromTheFuture DEF PlainInv
    <2> QED
      BY <1>1, <2>1, PlainCalls
  <1>2. ASSUME calls'[Shore] \in plain', NEW m \in out'[Shore] PROVE Plain(m)
    BY <1>2, PlainCalls, NoneFromTheFuture DEF PlainInv
  <1>3. \A u \in Nat : u <= calls[Shore] /\ u \in plain' => u \in plain
    BY PlainCalls, NoneFromTheFuture
  <1>4. ASSUME NEW p \in Way', ~p.ack, p.uid \in plain' PROVE Plain(p.msg)
    <2>1. p \in Way \/ (p.uid = calls'[Shore] /\ p.msg \in out'[Shore])
      BY <1>0, <1>4, OnTheWay
    <2>2. CASE p \in Way
      BY <1>3, <1>4, <2>2, NoneFromTheFuture DEF PlainInv
    <2> QED
      BY <1>2, <1>4, <2>1, <2>2
  <1>5. ASSUME NEW p \in buf'[AUV], p.uid \in plain' PROVE Plain(p.msg) /\ ~remote'[AUV]
    <2>1. CASE BufferStays
      <3>1. p \in buf[AUV] /\ p.uid \in plain
        BY <1>3, <1>5, <2>1, NoneFromTheFuture DEF BufferStays
      <3>2. Plain(p.msg) /\ ~remote[AUV] /\ \A q \in buf[AUV] : q = p
        BY <1>0, <3>1 DEF PlainInv, ThreadInv
      <3> QED
        BY <2>1, <3>2 DEF BufferStays
    <2>2. CASE TakeMessage(AUV)
      <3>1. p \in inp[AUV] /\ ~remote'[AUV] /\ plain' = plain
        BY <1>0, <1>5, <2>2 DEF TakeMessage, AppTypeOK
      <3> QED
        BY <1>5, <3>1, NoneFromTheFuture DEF PlainInv
    <2>3. CASE EndOfMessage(AUV) \/ PowerCycle(AUV)
      BY <1>0, <1>5, <2>3 DEF EndOfMessage, PowerCycle, AppTypeOK
    <2> QED
      BY <2>1, <2>2, <2>3, BufferSteps
  <1> QED
    BY <1>1, <1>2, <1>4, <1>5 DEF PlainInv

\* What the AUV got is printed once, in order, and if it is a line without
\* keywords it is printed.
LEMMA UARTStep ==
    ASSUME LinkTypeOK, OrderInv, InOrderOnce, AppTypeOK, ThreadInv, PlainInv, UARTInv,
           [Next]_vars
    PROVE  UARTInv'
  <1>0. AUV \in Node
    BY DEF Node
  <1>1. \A u \in got[AUV] : u \in plain' => u \in plain
    BY PlainCalls, NoneFromTheFuture
  <1>2. CASE BufferStays
    BY <1>1, <1>2 DEF BufferStays, UARTInv, ConveyedOnce
  <1>3. CASE TakeMessage(AUV)
    <2>1. PICK p \in inp[AUV] : p.id # seen[AUV] /\ got' = [got EXCEPT ![AUV] = @ \cup {p.uid}]
      BY <1>3 DEF TakeMessage, Deliver
    <2>2. /\ inp[AUV] = {p}
          /\ buf[AUV] = {} /\ buf'[AUV] = {p}
          /\ got'[AUV] = got[AUV] \cup {p.uid}
          /\ conveyed' = conveyed /\ plain' = plain /\ resets' = resets
      <3>1. inp[AUV] = {p}
        BY <1>0 DEF OrderInv, OrderAt, Deaf
      <3> QED
        BY <1>0, <1>3, <2>1, <3>1 DEF TakeMessage, Deliver, ThreadInv, AppTypeOK, LinkTypeOK
    <2>3. resets[AUV] = 0 => \A u \in got[AUV] : u < p.uid
      BY <1>0, <2>1 DEF InOrderOnce
    <2> QED
      BY <2>2, <2>3 DEF UARTInv, ConveyedOnce
  <1>4. CASE EndOfMessage(AUV)
    <2>1. /\ buf'[AUV] = {} /\ got' = got /\ plain' = plain /\ resets' = resets
          /\ conveyed' = IF remote[AUV] THEN conveyed ELSE conveyed \cup {p.uid : p \in buf[AUV]}
      BY <1>0, <1>4 DEF EndOfMessage, AppTypeOK, linkVars, historyVars
    <2>2. \A p \in buf[AUV] : p.uid \in plain => ~remote[AUV]
      BY DEF PlainInv
    <2> QED
      BY <2>1, <2>2 DEF UARTInv, ConveyedOnce
  <1>5. CASE PowerCycle(AUV)
    <2>1. buf'[AUV] = {} /\ got' = got /\ conveyed' = conveyed /\ resets'[AUV] # 0
      BY <1>0, <1>5 DEF PowerCycle, Reset, AppTypeOK, LinkTypeOK
    <2> QED
      BY <2>1 DEF UARTInv, ConveyedOnce
  <1> QED
    BY <1>2, <1>3, <1>4, <1>5, BufferSteps

\* The invariant of the lines, whatever is typed and whoever restarts.
THEOREM ConveyInvariant == Spec => []ConveyInv
  <1>1. LinkInv /\ TypeOK => LinkTypeOK /\ OrderInv /\ AppTypeOK
    BY DEF LinkInv, TypeOK
  <1>2. AppTypeOK /\ [Next]_vars => [LinkNext]_linkVars
    BY LinkStep DEF SetOK, AppTypeOK
  <1>3. /\ LinkInv /\ TypeOK /\ InOrderOnce /\ ThreadInv
        /\ PlainInv /\ UARTInv /\ [Next]_vars
        => PlainInv' /\ UARTInv'
    BY <1>1, <1>2, PlainStep, UARTStep
  <1> QED
    BY <1>3, ConveyInit, SketchLinkInv, SketchTypeCorrect, SketchIsOneThread, PTL
       DEF Spec, ConveyInv

\* While the AUV is not restarted it prints every message at most once and in
\* the order of the shore's calls.
THEOREM SketchConveysOnce == Spec => []ConveyedOnce
  <1>1. ConveyInv => ConveyedOnce
    BY DEF ConveyInv, UARTInv
  <1> QED
    BY <1>1, ConveyInvariant, PTL

\* The shore's `Transmission successful' for a line without a keyword is
\* true: the AUV has printed the line or is about to.  For every vocabulary,
\* all lines, and any losses, as long as no radio restarts.
THEOREM SketchConveysLines == Spec => []LineConveyed
  <1>1. TypeOK /\ LinkInv /\ AckMeansDelivered /\ ConveyInv => LineConveyed
    <2> SUFFICES ASSUME TypeOK, LinkInv, AckMeansDelivered, ConveyInv, NoRestart,
                        NEW u \in acked[Shore] \cap plain, u \notin conveyed
                 PROVE  Held(AUV, u)
      BY DEF LineConveyed
    <2>1. AUV \in Node /\ Shore \in Node /\ Peer(Shore) = AUV
      BY DEF Node, Peer
    <2>2. \/ u \in got[AUV]
          \/ \E p \in inp[AUV] : p.uid = u /\ p.id # seen[AUV]
      BY <2>1 DEF AckMeansDelivered, NoRestart
    <2>3. CASE u \in got[AUV]
      <3>1. PICK p \in buf[AUV] : p.uid = u
        BY <2>1, <2>3 DEF ConveyInv, UARTInv, NoRestart
      <3>2. ~remote[AUV]
        BY <3>1 DEF ConveyInv, PlainInv
      <3>3. at[AUV] = "tokens"
        BY <2>1, <3>1, <3>2 DEF ConveyInv, ThreadInv, TypeOK, AppTypeOK, Place
      <3> QED
        BY <3>1, <3>3 DEF Held
    <2> QED
      BY <2>2, <2>3 DEF Held
  <1> QED
    BY <1>1, SketchTypeCorrect, SketchLinkInv, ConveyInvariant, PTL

-----------------------------------------------------------------------------
(* One change of settings                                                  *)

\* What is typed: harmless lines, and at the shore the request.
LEMMA TypedLines ==
    ASSUME NEW c, OneChange(c), NEW n \in Node, NEW line \in Line[n]
    PROVE  /\ ~StartsWith(line, MODESOLO)
           /\ StartsWith(line, MODE) => n = Shore /\ line = Request(c)
           /\ ~StartsWith(line, MODE) => Harmless(line)
  <1>1. CASE Harmless(line)
    BY <1>1, HarmlessWords
  <1>2. CASE ~Harmless(line)
    <2>1. c \in [bw : Bw, sf : Sf] /\ n = Shore /\ line = Request(c)
      BY <1>2 DEF OneChange, Node
    <2> QED
      BY <2>1, RequestWords
  <1> QED
    BY <1>1, <1>2

\* What is received: MODE is in the request and only the AUV gets it, RCVD in
\* the confirmation and only the shore gets it.
LEMMA ReceivedWords ==
    ASSUME NEW c, OneChange(c), NEW n \in Node, NEW m, Says(c, Peer(n), m)
    PROVE  /\ \A i \in DOMAIN m : m[i] = MODE =>
                 n = AUV /\ m = Request(c) /\ set[Shore] = c
           /\ (\E i \in DOMAIN m : m[i] = RCVD) \/ StartsWith(m, RCVD) =>
                 /\ n = Shore /\ m = Confirmation(c)
                 /\ \A k \in Node : set[k] = c
  <1>1. c \in [bw : Bw, sf : Sf] /\ c \in Config
    BY Registers DEF OneChange
  <1>2. CASE Harmless(m)
    BY <1>2, HarmlessWords DEF Harmless, StartsWith, Places
  <1>3. CASE Peer(n) = Shore /\ set[Shore] = c /\ m = Request(c)
    <2>1. n = AUV
      BY <1>3, Peers, TwoRadios DEF Node
    <2>2. Request(c)[1] = MODE
      BY DEF Request
    <2> QED
      BY <1>1, <1>3, <2>1, <2>2, RequestWords, KeywordsDiffer DEF StartsWith
  <1>4. CASE Peer(n) = AUV /\ set[Shore] = c /\ set[AUV] = c /\ m = Confirmation(c)
    <2>1. n = Shore /\ \A k \in Node : set[k] = c
      BY <1>4, TwoRadios DEF Node, Peer
    <2> QED
      BY <1>1, <1>4, <2>1, ConfirmationWords
  <1> QED
    BY <1>2, <1>3, <1>4 DEF Says

\* A step that no radio restarts in.
Calm == \E n \in Node : Typed(n) \/ Thread(n) \/ Expire(n) \/ Radio(n)

LEMMA NoRestartYet ==
    ASSUME LinkTypeOK, SetOK, [Next]_vars, NoRestart'
    PROVE  NoRestart /\ (Calm \/ UNCHANGED vars)
  <1>1. NoRestart
    BY LinkStep, ResetsCount DEF NoRestart
  <1>2. ASSUME NEW n \in Node, PowerCycle(n) PROVE FALSE
    BY <1>2 DEF PowerCycle, Reset, NoRestart, LinkTypeOK
  <1> QED
    BY <1>1, <1>2 DEF Next, Calm

\* What set[] comes to hold is c.
LEMMA SettingsStep ==
    ASSUME NEW c, OneChange(c), MessagesInv(c), SetOK, Calm
    PROVE  \A k \in Node : set'[k] = set[k] \/ set'[k] = c
  <1> DEFINE Goal == \A k \in Node : set'[k] = set[k] \/ set'[k] = c
  <1> USE DEF SetOK
  <1>1. c \in [bw : Bw, sf : Sf]
    BY DEF OneChange
  <1>2. ASSUME NEW n \in Node, Typed(n) PROVE Goal
    <2>1. CASE BattCheck(n)
      BY <2>1 DEF BattCheck
    <2>2. ASSUME NEW line \in Line[n],
                 \/ TypeMalformed(n, line) \/ TypeMode(n, line)
                 \/ TypeModeSolo(n, line) \/ TypeLine(n, line)
          PROVE  Goal
      <3>1. /\ ~StartsWith(line, MODESOLO)
            /\ StartsWith(line, MODE) => n = Shore /\ line = Request(c)
        BY TypedLines
      <3> QED
        BY <1>1, <2>2, <3>1, RequestWords
           DEF TypeMalformed, TypeMode, TypeModeSolo, TypeLine
    <2> QED
      BY <1>2, <2>1, <2>2 DEF Typed
  <1>3. ASSUME NEW n \in Node, Words(n) PROVE Goal
    <2>1. CASE RequestNotUnderstood(n) \/ Confirm(n)
      <3> PICK p \in buf[n], d \in Config :
               /\ \E i \in DOMAIN p.msg : p.msg[i] = MODE
               /\ IsRemoteSet(d, set[n], p.msg)
               /\ set' = [set EXCEPT ![n] = d]
        BY <2>1 DEF RequestNotUnderstood, Confirm
      <3>1. p.msg = Request(c)
        BY Peers, ReceivedWords DEF MessagesInv
      <3>2. d = c
        BY <1>1, <3>1, RequestWords
      <3> QED
        BY <3>2
    <2> QED
      BY <1>3, <2>1 DEF Words, Apply, AnswerPing, Confirmed, EndOfMessage
  <1>4. ASSUME NEW n \in Node,
               \/ Wait(n) \/ Acknowledged(n) \/ Idle(n) \/ TakeMessage(n)
               \/ Expire(n) \/ Radio(n)
        PROVE  set' = set
    BY <1>4 DEF Wait, Acknowledged, Idle, TakeMessage, Expire, Resend,
       Unacknowledged, Radio, appVars
  <1> QED
    BY <1>2, <1>3, <1>4 DEF Calm, Thread

\* What a node hands to sendtoWait().
LEMMA WhatIsSent ==
    ASSUME NEW c, OneChange(c), MessagesInv(c), SetOK, Calm,
           NEW n \in Node, NEW m \in out'[n], LinkTypeOK
    PROVE  \/ m \in out[n]
           \/ Says(c, n, m)'
  <1> USE DEF SetOK, LinkTypeOK
  <1>1. c \in [bw : Bw, sf : Sf] /\ Shore \in Node /\ Peer(AUV) = Shore
        /\ Harmless(HelpMsg) /\ Harmless(Pingback)
    BY TwoRadios DEF OneChange, Node, Peer
  <1>0. ASSUME NEW k \in Node, NEW x, SendtoWait(k, x), m \notin out[n]
        PROVE  k = n /\ m = x
    BY <1>0 DEF SendtoWait
  <1>2. ASSUME NEW k \in Node, Typed(k), m \notin out[n] PROVE Says(c, n, m)'
    <2>1. CASE BattCheck(k)
      BY <1>0, <1>1, <1>2, <2>1 DEF BattCheck, Says
    <2>2. ASSUME NEW line \in Line[k], TypeMalformed(k, line) \/ TypeModeSolo(k, line)
          PROVE  out' = out
      BY <2>2 DEF TypeMalformed, TypeModeSolo, ChangeModem, linkVars, threadVars
    <2>3. ASSUME NEW line \in Line[k], TypeMode(k, line) PROVE Says(c, n, m)'
      <3>1. k = Shore /\ line = Request(c) /\ set' = [set EXCEPT ![k] = c]
        BY <1>1, <2>3, TypedLines, RequestWords DEF TypeMode
      <3>2. k = n /\ m = line
        BY <1>0, <1>2, <2>3 DEF TypeMode
      <3> QED
        BY <1>1, <3>1, <3>2 DEF Says
    <2>4. ASSUME NEW line \in Line[k], TypeLine(k, line) PROVE Says(c, n, m)'
      BY <1>0, <1>2, <2>4, TypedLines DEF TypeLine, Says
    <2> QED
      BY <1>2, <2>1, <2>2, <2>3, <2>4 DEF Typed
  <1>3. ASSUME NEW k \in Node, Words(k), m \notin out[n] PROVE Says(c, n, m)'
    <2>1. CASE Confirm(k)
      <3> PICK p \in buf[k], d \in Config :
               /\ \E i \in DOMAIN p.msg : p.msg[i] = MODE
               /\ IsRemoteSet(d, set[k], p.msg)
               /\ set' = [set EXCEPT ![k] = d]
               /\ SendtoWait(k, Confirmation(d))
        BY <2>1 DEF Confirm
      <3>1. k = AUV /\ p.msg = Request(c) /\ set[Shore] = c
        BY Peers, ReceivedWords DEF MessagesInv
      <3>2. d = c
        BY <1>1, <3>1, RequestWords
      <3>3. k = n /\ m = Confirmation(d)
        BY <1>0, <1>3
      <3> QED
        BY <1>1, <3>1, <3>2, <3>3, TwoRadios DEF Says
    <2>2. CASE AnswerPing(k)
      BY <1>0, <1>1, <1>3, <2>2 DEF AnswerPing, Says
    <2>3. CASE RequestNotUnderstood(k) \/ Apply(k) \/ Confirmed(k) \/ EndOfMessage(k)
      BY <1>3, <2>3 DEF RequestNotUnderstood, Apply, Confirmed, EndOfMessage,
         ChangeModem, linkVars, threadVars
    <2> QED
      BY <1>3, <2>1, <2>2, <2>3 DEF Words
  <1>4. ASSUME NEW k \in Node,
               \/ Wait(k) \/ Acknowledged(k) \/ Idle(k) \/ TakeMessage(k)
               \/ Expire(k) \/ Radio(k)
        PROVE  m \in out[n]
    BY <1>4 DEF Wait, ListenWait, ReAck, Discard, Acknowledged, TakeAck, Idle,
       ListenApp, DropAck, Acknowledge, Filter, TakeMessage, Deliver, Expire, Resend,
       Retransmit, Unacknowledged, GiveUp, Radio, TxDone, threadVars
  <1> QED
    BY <1>2, <1>3, <1>4 DEF Calm, Thread

\* Messages stay what they are on their way.
LEMMA MessagesStep ==
    ASSUME NEW c, OneChange(c), MessagesInv(c), AppTypeOK, Calm,
           [LinkNext]_linkVars, LinkTypeOK, OrderInv
    PROVE  MessagesInv(c)'
  <1> DEFINE Way(n) == fifo[n] \cup rxBuf[Peer(n)] \cup inp[Peer(n)]
             Taken(n) == \A p \in buf'[n] : p \in buf[n] \/ p \in inp[n]
  <1> SetOK
    BY DEF SetOK, AppTypeOK
  <1>1. \A n \in Node : \A m : Says(c, n, m) => Says(c, n, m)'
    BY SettingsStep, TwoRadios DEF Says, Node
  <1>2. ASSUME NEW n \in Node, NEW m \in out'[n] PROVE Says(c, n, m)'
    BY <1>1, <1>2, WhatIsSent DEF MessagesInv
  <1>3. ASSUME NEW n \in Node, NEW p \in Way(n)', ~p.ack PROVE Says(c, n, p.msg)'
    <2>1. p \in Way(n) \/ p.msg \in out'[n]
      BY <1>3, OnTheWay
    <2> QED
      BY <1>1, <1>2, <1>3, <2>1 DEF MessagesInv
  <1>4. ASSUME NEW n \in Node PROVE Taken(n)
    <2> USE DEF AppTypeOK
    <2>2. ASSUME NEW k \in Node, TakeMessage(k) PROVE Taken(n)
      BY <2>2 DEF TakeMessage
    <2>3. ASSUME NEW k \in Node, Typed(k) PROVE buf' = buf
      BY <2>3 DEF Typed, BattCheck, TypeMalformed, TypeMode, TypeModeSolo, TypeLine
    <2>4. ASSUME NEW k \in Node, Words(k) PROVE buf' = buf \/ buf' = [buf EXCEPT ![k] = {}]
      BY <2>4 DEF Words, RequestNotUnderstood, Confirm, Apply, AnswerPing, Confirmed,
         EndOfMessage
    <2>5. ASSUME NEW k \in Node,
                 Wait(k) \/ Acknowledged(k) \/ Idle(k) \/ Expire(k) \/ Radio(k)
          PROVE  buf' = buf
      BY <2>5 DEF Wait, Acknowledged, Idle, Expire, Resend, Unacknowledged, Radio, appVars
    <2> QED
      BY <2>2, <2>3, <2>4, <2>5 DEF Calm, Thread
  <1>5. ASSUME NEW n \in Node, NEW p \in buf'[Peer(n)] PROVE Says(c, n, p.msg)'
    <2>1. p \in buf[Peer(n)] \/ (p \in inp[Peer(n)] /\ ~p.ack)
      BY <1>4, <1>5, Peers DEF OrderInv, OrderAt, Delivered
    <2> QED
      BY <1>1, <2>1 DEF MessagesInv
  <1> QED
    BY <1>2, <1>3, <1>4, <1>5 DEF MessagesInv

\* A call's number stands for its message.
LEMMA CurrentStep ==
    ASSUME LinkTypeOK, OrderInv, [LinkNext]_linkVars, CurrentInv
    PROVE  CurrentInv'
  <1> DEFINE Way == fifo[AUV] \cup rxBuf[Shore] \cup inp[Shore]
             Goes == /\ out'[AUV] = out[AUV]
                     /\ calls'[AUV] = calls[AUV]
                     /\ Sending(AUV)' => Sending(AUV)
             Ends == out'[AUV] = {} /\ ~Sending(AUV)'
             Begins == calls'[AUV] = calls[AUV] + 1 /\ \E m : out'[AUV] = {m}
  <1>1. AUV \in Node /\ Peer(AUV) = Shore /\ Shore \in Node /\ Peer(Shore) = AUV
    BY TwoRadios DEF Node, Peer
  <1>2. Goes \/ Ends \/ Begins
    <2> USE <1>1 DEF Sending, LinkTypeOK
    <2>1. ASSUME NEW k \in Node, NEW m \in Msg, SendtoWait(k, m) PROVE Goes \/ Ends \/ Begins
      BY <2>1 DEF SendtoWait
    <2>2. ASSUME NEW k \in Node, Poll(k) PROVE Goes \/ Ends \/ Begins
      BY <2>2 DEF Poll, ListenWait, TakeAck, ReAck, Discard, historyVars
    <2>3. ASSUME NEW k \in Node, Timeout(k) PROVE Goes \/ Ends \/ Begins
      BY <2>3 DEF Timeout, Retransmit, GiveUp, historyVars
    <2>4. ASSUME NEW k \in Node, Receive(k) PROVE Goes \/ Ends \/ Begins
      BY <2>4 DEF Receive, ListenApp, DropAck, Acknowledge, Deliver, Filter,
         threadVars, historyVars
    <2>5. ASSUME NEW k \in Node, TxDone(k) \/ \E d \in Config : ChangeModem(k, d)
          PROVE  Goes \/ Ends \/ Begins
      BY <2>5 DEF TxDone, ChangeModem, threadVars, historyVars
    <2>6. ASSUME NEW k \in Node, Reset(k) PROVE Goes \/ Ends \/ Begins
      BY <2>6 DEF Reset
    <2>7. CASE UNCHANGED linkVars
      BY <2>7 DEF linkVars, threadVars, historyVars
    <2> QED
      BY <2>1, <2>2, <2>3, <2>4, <2>5, <2>6, <2>7 DEF LinkNext
  <1>3. \A m, k \in out'[AUV] : m = k
    BY <1>2 DEF CurrentInv
  <1>4. ASSUME NEW p \in Way', ~p.ack, Sending(AUV)', p.uid = calls'[AUV]
        PROVE  p.msg \in out'[AUV]
    <2>1. p \in Way \/ p.msg \in out'[AUV]
      BY <1>1, <1>4, OnTheWay
    <2>2. p \in Way => p.uid <= calls[AUV]
      <3>1. /\ \A q \in fifo[AUV] : ~q.ack => q.uid = calls[AUV]
            /\ \A q \in rxBuf[Shore] \cup inp[Shore] : ~q.ack => q.uid \in last[Shore] .. calls[AUV]
        BY <1>1 DEF OrderInv, OrderAt, InFlight, Arrived
      <3> QED
        BY <1>1, <1>4, <3>1 DEF LinkTypeOK
    <2> QED
      BY <1>1, <1>2, <1>4, <2>1, <2>2 DEF CurrentInv, LinkTypeOK
  <1> QED
    BY <1>3, <1>4 DEF CurrentInv

\* Settings that are c stay c.
LEMMA SettingsStay ==
    ASSUME NEW c, OneChange(c), MessagesInv(c), AppTypeOK, Calm,
           NEW n \in Node, set[n] = c
    PROVE  set'[n] = c
  BY SettingsStep DEF SetOK, AppTypeOK

\* The message the AUV answers with a confirmation is the request for c.
LEMMA ConfirmsRequest ==
    ASSUME NEW c, OneChange(c), MessagesInv(c), AppTypeOK, NEW n \in Node, Confirm(n)
    PROVE  /\ n = AUV /\ set[Shore] = c
           /\ set' = [set EXCEPT ![n] = c]
           /\ SendtoWait(n, Confirmation(c))
  <1> PICK p \in buf[n], d \in Config :
           /\ \E i \in DOMAIN p.msg : p.msg[i] = MODE
           /\ IsRemoteSet(d, set[n], p.msg)
           /\ set' = [set EXCEPT ![n] = d]
           /\ SendtoWait(n, Confirmation(d))
    BY DEF Confirm
  <1>1. n = AUV /\ p.msg = Request(c) /\ set[Shore] = c
    BY Peers, ReceivedWords DEF MessagesInv
  <1>2. d = c
    BY <1>1, RequestWords DEF OneChange, AppTypeOK
  <1> QED
    BY <1>1, <1>2

\* The message that makes a node write the confirmed settings is the
\* confirmation of c, and the node is the shore.
LEMMA ConfirmedIsConfirmation ==
    ASSUME NEW c, OneChange(c), MessagesInv(c), NEW n \in Node, Confirmed(n)
    PROVE  /\ n = Shore /\ modem' = [modem EXCEPT ![n] = c]
           /\ \A k \in Node : set[k] = c
  <1>1. PICK p \in buf[n] : \E i \in DOMAIN p.msg : p.msg[i] = RCVD
    BY DEF Confirmed
  <1>2. n = Shore /\ \A k \in Node : set[k] = c
    BY <1>1, Peers, ReceivedWords DEF MessagesInv
  <1> QED
    BY <1>2 DEF Confirmed, ChangeModem, SetModem

\* The sketch that is at the confirmation has the settings it confirms.
LEMMA PlaceStep ==
    ASSUME NEW c, OneChange(c), LinkTypeOK, AppTypeOK, MessagesInv(c), PlaceInv(c), ThreadInv,
           Calm
    PROVE  PlaceInv(c)'
  <1> USE DEF PlaceInv, ThreadInv, InCall, Sending, AppTypeOK
  <1>0. /\ ctl \in [Node -> Control] /\ out \in [Node -> SUBSET Msg]
        /\ set[Shore] = c => set'[Shore] = c
        /\ Shore \in Node /\ AUV \in Node /\ Shore # AUV
    BY SettingsStay, TwoRadios DEF LinkTypeOK, Node
  <1>1. ASSUME NEW n \in Node, Typed(n) PROVE PlaceInv(c)'
    <2>1. CASE BattCheck(n)
      BY <1>0, <2>1 DEF BattCheck, SendtoWait, GoTo
    <2>2. ASSUME NEW line \in Line[n], TypeMalformed(n, line) PROVE PlaceInv(c)'
      BY <1>0, <2>2 DEF TypeMalformed, MayType, linkVars, threadVars
    <2>3. ASSUME NEW line \in Line[n], TypeMode(n, line) PROVE PlaceInv(c)'
      BY <1>0, <2>3 DEF TypeMode, SendtoWait, GoTo
    <2>4. ASSUME NEW line \in Line[n], TypeModeSolo(n, line) PROVE PlaceInv(c)'
      BY <1>0, <2>4 DEF TypeModeSolo, MayType, ChangeModem, threadVars
    <2>5. ASSUME NEW line \in Line[n], TypeLine(n, line) PROVE PlaceInv(c)'
      BY <1>0, <2>5 DEF TypeLine, SendtoWait, GoTo
    <2> QED
      BY <1>1, <2>1, <2>2, <2>3, <2>4, <2>5 DEF Typed
  <1>2. ASSUME NEW n \in Node, Words(n) PROVE PlaceInv(c)'
    <2>1. CASE RequestNotUnderstood(n)
      BY <1>0, <2>1 DEF RequestNotUnderstood, NextKeyword, linkVars, threadVars
    <2>2. CASE Confirm(n)
      <3>1. /\ n = AUV /\ set[Shore] = c
            /\ set' = [set EXCEPT ![n] = c]
            /\ SendtoWait(n, Confirmation(c))
        BY <2>2, ConfirmsRequest
      <3> QED
        BY <1>0, <2>2, <3>1 DEF Confirm, SendtoWait, GoTo
    <2>3. CASE Apply(n)
      BY <1>0, <2>3 DEF Apply, ChangeModem, GoTo, threadVars
    <2>4. CASE AnswerPing(n)
      BY <1>0, <2>4 DEF AnswerPing, SendtoWait, GoTo
    <2>5. CASE Confirmed(n)
      BY <1>0, <2>5 DEF Confirmed, ChangeModem, threadVars
    <2>6. CASE EndOfMessage(n)
      BY <1>0, <2>6 DEF EndOfMessage, GoTo, linkVars, threadVars
    <2> QED
      BY <1>2, <2>1, <2>2, <2>3, <2>4, <2>5, <2>6 DEF Words
  <1>3. ASSUME NEW n \in Node, Wait(n) \/ Resend(n) PROVE PlaceInv(c)'
    BY <1>0, <1>3 DEF Wait, ListenWait, ReAck, Discard, Resend, Retransmit, appVars
  <1>4. ASSUME NEW n \in Node, Acknowledged(n) PROVE PlaceInv(c)'
    BY <1>0, <1>4 DEF Acknowledged, TakeAck, AfterAck, GoTo
  <1>5. ASSUME NEW n \in Node, Unacknowledged(n) PROVE PlaceInv(c)'
    BY <1>0, <1>5 DEF Unacknowledged, GiveUp, AfterFailure, GoTo
  <1>6. ASSUME NEW n \in Node, Idle(n) PROVE PlaceInv(c)'
    BY <1>0, <1>6 DEF Idle, ListenApp, DropAck, Acknowledge, Filter, appVars, threadVars
  <1>7. ASSUME NEW n \in Node, TakeMessage(n) PROVE PlaceInv(c)'
    BY <1>0, <1>7 DEF TakeMessage, Deliver, GoTo
  <1>8. ASSUME NEW n \in Node, Radio(n) PROVE PlaceInv(c)'
    BY <1>8 DEF Radio, TxDone, appVars, threadVars
  <1> QED
    BY <1>1, <1>2, <1>3, <1>4, <1>5, <1>6, <1>7, <1>8 DEF Calm, Thread, Expire

\* Registers are written by the AUV when its confirmation was acknowledged
\* and by the shore when it has the confirmation.
LEMMA ModemStep ==
    ASSUME NEW c, OneChange(c), LinkTypeOK, AppTypeOK, MessagesInv(c), PlaceInv(c), Calm
    PROVE  \/ modem' = modem
           \/ at[AUV] = "apply" /\ modem' = [modem EXCEPT ![AUV] = c]
           \/ /\ \A k \in Node : set[k] = c
              /\ modem' = [modem EXCEPT ![Shore] = c]
  <1>1. ASSUME NEW n \in Node, Typed(n) PROVE modem' = modem
    <2>1. CASE BattCheck(n)
      BY <2>1 DEF BattCheck, SendtoWait
    <2>2. ASSUME NEW line \in Line[n],
                 TypeMalformed(n, line) \/ TypeMode(n, line) \/ TypeLine(n, line)
          PROVE  modem' = modem
      BY <2>2 DEF TypeMalformed, TypeMode, TypeLine, SendtoWait, linkVars, radioVars
    <2>3. ASSUME NEW line \in Line[n], TypeModeSolo(n, line) PROVE FALSE
      BY <2>3, TypedLines DEF TypeModeSolo
    <2> QED
      BY <1>1, <2>1, <2>2, <2>3 DEF Typed
  <1>2. ASSUME NEW n \in Node, Apply(n)
        PROVE  at[AUV] = "apply" /\ modem' = [modem EXCEPT ![AUV] = c]
    <2>1. n = AUV /\ set[AUV] = c
      BY <1>2 DEF Apply, PlaceInv, Node
    <2> QED
      BY <1>2, <2>1 DEF Apply, ChangeModem, SetModem
  <1>3. ASSUME NEW n \in Node, Confirmed(n)
        PROVE  (\A k \in Node : set[k] = c) /\ modem' = [modem EXCEPT ![Shore] = c]
    BY <1>3, ConfirmedIsConfirmation
  <1>4. ASSUME NEW n \in Node,
               \/ RequestNotUnderstood(n) \/ Confirm(n) \/ AnswerPing(n) \/ EndOfMessage(n)
               \/ Wait(n) \/ Acknowledged(n) \/ Idle(n) \/ TakeMessage(n)
               \/ Expire(n) \/ Radio(n)
        PROVE  modem' = modem
    BY <1>4 DEF RequestNotUnderstood, Confirm, AnswerPing, EndOfMessage, SendtoWait,
       Wait, ListenWait, ReAck, Discard, Acknowledged, TakeAck, Idle, ListenApp, DropAck,
       Acknowledge, Filter, TakeMessage, Deliver, Expire, Resend, Retransmit,
       Unacknowledged, GiveUp, Radio, TxDone, TxDoneHeard, TxDoneLost, TakeAndSend,
       linkVars, radioVars
  <1> QED
    BY <1>1, <1>2, <1>3, <1>4 DEF Calm, Thread, Words

\* The confirmation that recvfromAck() holds is kept until the sketch has it.
LEMMA PendingStep ==
    ASSUME NEW c, OneChange(c), LinkTypeOK, OrderInv, AppTypeOK, MessagesInv(c), Calm,
           NEW p \in inp[Shore], p.id # seen[Shore], ~p.ack, StartsWith(p.msg, RCVD)
    PROVE  HoldsConfirmation(Shore)'
  <1> DEFINE Kept == inp'[Shore] = inp[Shore] /\ seen'[Shore] = seen[Shore]
  <1>0. /\ Shore \in Node /\ inp \in [Node -> SUBSET Packet] /\ seen \in [Node -> Id]
        /\ ctl[Shore] = "recvfromAck" /\ inp[Shore] = {p}
    BY DEF Node, OrderInv, OrderAt, Deaf, LinkTypeOK
  <1>1. ASSUME NEW n \in Node, Typed(n) PROVE Kept
    BY <1>1 DEF Typed, BattCheck, TypeMalformed, TypeMode, TypeModeSolo, TypeLine,
       SendtoWait, ChangeModem, linkVars, threadVars
  <1>2. ASSUME NEW n \in Node, Words(n) PROVE Kept
    BY <1>2 DEF Words, RequestNotUnderstood, Confirm, Apply, AnswerPing, Confirmed,
       EndOfMessage, SendtoWait, ChangeModem, linkVars, threadVars
  <1>3. ASSUME NEW n \in Node, Wait(n) \/ Acknowledged(n) \/ Expire(n) \/ Radio(n)
        PROVE  Kept
    BY <1>3 DEF Wait, ListenWait, ReAck, Discard, Acknowledged, TakeAck, Expire, Resend,
       Retransmit, Unacknowledged, GiveUp, Radio, TxDone, threadVars
  <1>4. ASSUME NEW n \in Node, Idle(n) PROVE Kept
    BY <1>0, <1>4 DEF Idle, ListenApp, DropAck, Acknowledge, Filter, threadVars
  <1>5. ASSUME NEW n \in Node, TakeMessage(n), n # Shore PROVE Kept
    BY <1>0, <1>5 DEF TakeMessage, Deliver, Remember
  <1>6. CASE TakeMessage(Shore)
    <2>1. p \in buf'[Shore] /\ word'[Shore] = 0 /\ at'[Shore] = "tokens"
      BY <1>0, <1>6 DEF TakeMessage, GoTo, AppTypeOK
    <2>2. p.msg \in Msg
      <3>1. p \in Packet
        BY <1>0
      <3> QED
        BY <3>1 DEF Packet, DataPacket, AckPacket
    <2>3. DOMAIN p.msg = 1 .. Len(p.msg) /\ Len(p.msg) \in Nat
      BY <2>2, Sentences
    <2>4. 1 \in DOMAIN p.msg /\ p.msg[1] = RCVD /\ \A j \in DOMAIN p.msg : 1 <= j
      BY <2>3 DEF StartsWith
    <2>5. NextKeyword(Shore, p, 1)'
      BY <2>1, <2>4 DEF NextKeyword, Ahead, Places, Keyword
    <2> QED
      BY <2>1, <2>4, <2>5 DEF HoldsConfirmation
  <1>7. Kept => HoldsConfirmation(Shore)'
    BY DEF HoldsConfirmation
  <1> QED
    BY <1>1, <1>2, <1>3, <1>4, <1>5, <1>6, <1>7 DEF Calm, Thread

\* The sketch that has come to the confirmation's keyword acts upon it.
LEMMA ReadingStep ==
    ASSUME NEW c, OneChange(c), LinkTypeOK, AppTypeOK, MessagesInv(c), ThreadInv, Calm,
           NEW p \in buf[Shore], NEW i \in DOMAIN p.msg,
           NextKeyword(Shore, p, i), p.msg[i] = RCVD
    PROVE  ShoreFollows(c)'
  <1> DEFINE Kept == /\ at'[Shore] = at[Shore]
                     /\ buf'[Shore] = buf[Shore]
                     /\ word'[Shore] = word[Shore]
  <1>0. Shore \in Node /\ at[Shore] = "tokens" /\ ~Sending(Shore)
    BY DEF Node, NextKeyword, ThreadInv, InCall
  <1>1. ASSUME NEW n \in Node, Typed(n) PROVE Kept
    BY <1>0, <1>1, TwoRadios DEF Typed, BattCheck, TypeMalformed, TypeMode, TypeModeSolo,
       TypeLine, MayType, GoTo, AppTypeOK
  <1>2. ASSUME NEW n \in Node, RequestNotUnderstood(n) PROVE Kept
    <2>1. PICK q \in buf[n] : \E j \in DOMAIN q.msg : q.msg[j] = MODE
      BY <1>2 DEF RequestNotUnderstood
    <2>2. n = AUV
      BY <2>1, Peers, ReceivedWords DEF MessagesInv
    <2> QED
      BY <1>0, <1>2, <2>2, TwoRadios DEF RequestNotUnderstood, GoOn, AppTypeOK
  <1>3. ASSUME NEW n \in Node, Confirm(n) PROVE Kept
    <2>1. n = AUV
      BY <1>3, ConfirmsRequest
    <2> QED
      BY <1>0, <1>3, <2>1, TwoRadios DEF Confirm, GoOn, GoTo, AppTypeOK
  <1>4. ASSUME NEW n \in Node, Apply(n) PROVE Kept
    BY <1>0, <1>4 DEF Apply, GoTo, AppTypeOK
  <1>5. ASSUME NEW n \in Node, AnswerPing(n) PROVE Kept
    <2>1. n # Shore
      <3> SUFFICES ASSUME n = Shore PROVE FALSE
        OBVIOUS
      <3>1. PICK q \in buf[Shore] : \E j \in DOMAIN q.msg :
               NextKeyword(Shore, q, j) /\ q.msg[j] = PING
        BY <1>5 DEF AnswerPing
      <3>2. PICK j \in DOMAIN q.msg : NextKeyword(Shore, q, j) /\ q.msg[j] = PING
        BY <3>1
      <3>3. q = p
        BY <1>0 DEF ThreadInv
      <3>4. i \in Nat /\ j \in Nat /\ i <= j /\ j <= i
        <4>1. p \in DataPacket
          BY <1>0 DEF AppTypeOK
        <4>2. p.msg \in Msg
          BY <4>1 DEF DataPacket
        <4> QED
          BY <3>2, <3>3, <4>2, Sentences DEF NextKeyword
      <3> QED
        BY <3>2, <3>3, <3>4, KeywordsDiffer
    <2> QED
      BY <1>0, <1>5, <2>1 DEF AnswerPing, GoOn, GoTo, AppTypeOK
  <1>6. ASSUME NEW n \in Node, EndOfMessage(n) PROVE Kept
    <2>1. n # Shore
      BY <1>6 DEF EndOfMessage, NextKeyword
    <2> QED
      BY <1>0, <1>6, <2>1 DEF EndOfMessage, GoTo, AppTypeOK
  <1>7. ASSUME NEW n \in Node, Wait(n) \/ Idle(n) \/ Resend(n) \/ Radio(n) PROVE Kept
    BY <1>7 DEF Wait, Idle, Resend, Radio, appVars
  <1>8. ASSUME NEW n \in Node, Acknowledged(n) \/ Unacknowledged(n) PROVE Kept
    BY <1>0, <1>8 DEF Acknowledged, TakeAck, Unacknowledged, GiveUp, GoTo, Sending,
       AppTypeOK
  <1>9. ASSUME NEW n \in Node, TakeMessage(n) PROVE Kept
    BY <1>0, <1>9 DEF TakeMessage, GoTo, AppTypeOK
  <1>10. ASSUME NEW n \in Node, Confirmed(n) PROVE modem'[Shore] = c
    BY <1>0, <1>10, ConfirmedIsConfirmation DEF LinkTypeOK, RadioTypeOK
  <1>11. Kept => HoldsConfirmation(Shore)'
    BY DEF HoldsConfirmation, NextKeyword, Ahead
  <1> QED
    BY <1>1, <1>2, <1>3, <1>4, <1>5, <1>6, <1>7, <1>8, <1>9, <1>10, <1>11
       DEF Calm, Thread, Expire, Words, ShoreFollows

\* A shore that is on the new settings stays there, one that will be is kept
\* from it by nothing.
LEMMA ShoreFollowsStep ==
    ASSUME NEW c, OneChange(c), LinkTypeOK, OrderInv, AppTypeOK, MessagesInv(c),
           PlaceInv(c), ThreadInv, Calm, ShoreFollows(c)
    PROVE  ShoreFollows(c)'
  <1>1. CASE modem[Shore] = c
    <2>1. modem'[Shore] = c
      BY <1>1, ModemStep, TwoRadios DEF LinkTypeOK, RadioTypeOK, Node
    <2> QED
      BY <2>1 DEF ShoreFollows
  <1>2. CASE HoldsConfirmation(Shore)
    BY <1>2, PendingStep, ReadingStep DEF HoldsConfirmation, ShoreFollows
  <1> QED
    BY <1>1, <1>2 DEF ShoreFollows

\* How the AUV comes to send its confirmation and to write its registers.
LEMMA HowTheAUVGetsThere ==
    ASSUME AppTypeOK, Calm
    PROVE  /\ at'[AUV] = "apply" =>
                 at[AUV] = "apply" \/ (at[AUV] = "modeChangeRemote" /\ Acknowledged(AUV))
           /\ at'[AUV] = "modeChangeRemote" =>
                 at[AUV] = "modeChangeRemote" \/ Confirm(AUV)
  <1> DEFINE Goal == /\ at'[AUV] = "apply" =>
                           \/ at[AUV] = "apply"
                           \/ at[AUV] = "modeChangeRemote" /\ Acknowledged(AUV)
                     /\ at'[AUV] = "modeChangeRemote" =>
                           at[AUV] = "modeChangeRemote" \/ Confirm(AUV)
  <1> USE DEF AppTypeOK, GoTo
  <1>0. AUV \in Node
    BY DEF Node
  <1>1. ASSUME NEW n \in Node, Typed(n) PROVE Goal
    BY <1>0, <1>1 DEF Typed, BattCheck, TypeMalformed, TypeMode, TypeModeSolo, TypeLine
  <1>2. ASSUME NEW n \in Node, Acknowledged(n) PROVE Goal
    <2>1. CASE n = AUV
      BY <1>0, <1>2, <2>1 DEF Acknowledged, AfterAck, TakeAck, Sending
    <2>2. CASE n # AUV
      BY <1>0, <1>2, <2>2 DEF Acknowledged
    <2> QED
      BY <2>1, <2>2
  <1>3. ASSUME NEW n \in Node, Unacknowledged(n) PROVE Goal
    BY <1>0, <1>3 DEF Unacknowledged, AfterFailure
  <1>4. ASSUME NEW n \in Node,
               RequestNotUnderstood(n) \/ Apply(n) \/ AnswerPing(n) \/ Confirmed(n)
               \/ EndOfMessage(n) \/ TakeMessage(n)
        PROVE  Goal
    BY <1>0, <1>4 DEF RequestNotUnderstood, Apply, AnswerPing, Confirmed, EndOfMessage,
       TakeMessage
  <1>5. ASSUME NEW n \in Node, Confirm(n) PROVE Goal
    <2>1. CASE n = AUV
      BY <1>0, <1>5, <2>1 DEF Confirm
    <2>2. CASE n # AUV
      BY <1>0, <1>5, <2>2 DEF Confirm
    <2> QED
      BY <2>1, <2>2
  <1>6. ASSUME NEW n \in Node, Wait(n) \/ Idle(n) \/ Resend(n) \/ Radio(n) PROVE Goal
    BY <1>6 DEF Wait, Idle, Resend, Radio, appVars
  <1> QED
    BY <1>1, <1>2, <1>3, <1>4, <1>5, <1>6 DEF Calm, Thread, Expire, Words

\* What has been delivered after a step was so before or was held, and the
\* number of a call in progress does not change.
LEMMA DeliveredWasSecured ==
    ASSUME LinkTypeOK, [LinkNext]_linkVars, NEW n \in Node
    PROVE  /\ \A u \in got'[n] : Secured(n, u)
           /\ ctl[n] # "app" => calls'[n] = calls[n]
  <1> DEFINE Goal == /\ \A u \in got'[n] : Secured(n, u)
                     /\ ctl[n] # "app" => calls'[n] = calls[n]
  <1> USE DEF Secured, LinkTypeOK
  <1>1. ASSUME NEW k \in Node, NEW m \in Msg, SendtoWait(k, m) PROVE Goal
    BY <1>1 DEF SendtoWait
  <1>2. ASSUME NEW k \in Node, Deliver(k) PROVE Goal
    BY <1>2 DEF Deliver
  <1>3. ASSUME NEW k \in Node,
               \/ Poll(k) \/ Timeout(k) \/ TxDone(k) \/ Reset(k)
               \/ ListenApp(k) \/ DropAck(k) \/ Acknowledge(k) \/ Filter(k)
               \/ \E d \in Config : ChangeModem(k, d)
        PROVE  got' = got /\ calls' = calls
    BY <1>3 DEF Poll, ListenWait, TakeAck, ReAck, Discard, Timeout, Retransmit, GiveUp,
       TxDone, Reset, ListenApp, DropAck, Acknowledge, Filter, ChangeModem, historyVars
  <1>4. CASE UNCHANGED linkVars
    BY <1>4 DEF linkVars, historyVars
  <1> QED
    BY <1>1, <1>2, <1>3, <1>4 DEF LinkNext, Receive

\* A confirmation that the shore's sketch has, or is about to get, is one the
\* shore follows.
LEMMA SecuredIsFollowed ==
    ASSUME NEW c, OneChange(c), OrderInv, CurrentInv, PlaceInv(c), ThreadInv, RegistersInv(c),
           at[AUV] = "modeChangeRemote", Secured(Shore, calls[AUV])
    PROVE  ShoreFollows(c)
  <1>1. CASE calls[AUV] \in got[Shore]
    BY <1>1 DEF RegistersInv
  <1>2. ASSUME NEW p \in inp[Shore], p.uid = calls[AUV], p.id # seen[Shore]
        PROVE  ShoreFollows(c)
    <2>1. ~p.ack /\ Sending(AUV)
      BY DEF OrderInv, OrderAt, Delivered, ThreadInv, InCall, Node
    <2>2. p.msg = Confirmation(c)
      BY <1>2, <2>1 DEF CurrentInv, PlaceInv
    <2>3. StartsWith(p.msg, RCVD)
      BY <2>2, Registers, ConfirmationWords DEF OneChange
    <2> QED
      BY <1>2, <2>1, <2>3 DEF ShoreFollows, HoldsConfirmation
  <1> QED
    BY <1>1, <1>2 DEF Secured

\* The AUV writes its registers only when the shore follows.
LEMMA RegistersStep ==
    ASSUME NEW c, OneChange(c), LinkInv, NoRestart, AppTypeOK, MessagesInv(c),
           CurrentInv, PlaceInv(c), ThreadInv, RegistersInv(c), Calm,
           [LinkNext]_linkVars
    PROVE  RegistersInv(c)'
  <1>0. /\ Shore \in Node /\ AUV \in Node /\ Peer(AUV) = Shore /\ Peer(Shore) = AUV
        /\ Shore # AUV
        /\ LinkTypeOK /\ OrderInv
        /\ modem \in [Node -> Config]
    BY TwoRadios DEF Node, Peer, LinkInv, LinkTypeOK, RadioTypeOK
  <1>1. ShoreFollows(c) => ShoreFollows(c)'
    BY <1>0, ShoreFollowsStep
  <1>2. \A n \in Node : set[n] = c => set'[n] = c
    BY SettingsStay
  <1>3. \A n \in Node : modem'[n] \in {Boot, c}
    BY <1>0, ModemStep DEF RegistersInv
  <1>4. ASSUME modem'[AUV] # Boot PROVE set'[Shore] = c /\ ShoreFollows(c)'
    <2>1. modem'[AUV] = modem[AUV] \/ at[AUV] = "apply"
      BY <1>0, ModemStep
    <2> QED
      BY <1>0, <1>1, <1>2, <1>4, <2>1 DEF RegistersInv, PlaceInv
  <1>5. ASSUME at'[AUV] = "apply" PROVE ShoreFollows(c)'
    <2>1. CASE at[AUV] = "apply"
      BY <1>1, <2>1 DEF RegistersInv
    <2>2. CASE at[AUV] = "modeChangeRemote" /\ Acknowledged(AUV)
      <3>1. PICK p \in rxBuf[AUV] : IsOurAck(AUV, p)
        BY <2>2 DEF Acknowledged, TakeAck
      <3>2. Numbered(AUV) /\ Acks(Shore)
        BY <1>0 DEF LinkInv, AckInv, NoRestart
      <3>3. p.uid = calls[AUV]
        BY <1>0, <3>1, <3>2, OurAckIsOurs
      <3>4. Secured(Shore, calls[AUV])
        BY <1>0, <3>1, <3>2, <3>3 DEF Acks, IsOurAck
      <3> QED
        BY <1>0, <1>1, <2>2, <3>4, SecuredIsFollowed
    <2> QED
      BY <1>5, <2>1, <2>2, HowTheAUVGetsThere
  <1>6. ASSUME at'[AUV] = "modeChangeRemote", calls'[AUV] \in got'[Shore]
        PROVE  ShoreFollows(c)'
    <2>1. CASE at[AUV] = "modeChangeRemote"
      <3>1. calls'[AUV] = calls[AUV]
        BY <1>0, <2>1, DeliveredWasSecured DEF ThreadInv, InCall, Sending
      <3>2. Secured(Shore, calls[AUV])
        BY <1>0, <1>6, <3>1, DeliveredWasSecured
      <3> QED
        BY <1>0, <1>1, <2>1, <3>2, SecuredIsFollowed
    <2>2. CASE Confirm(AUV)
      <3>1. calls'[AUV] = calls[AUV] + 1 /\ got' = got
        BY <1>0, <2>2 DEF Confirm, SendtoWait, LinkTypeOK
      <3>2. /\ \A u \in got[Shore] : u <= last[Shore]
            /\ last[Shore] <= calls[AUV]
        BY <1>0 DEF OrderInv, OrderAt, Delivered
      <3> QED
        BY <1>0, <1>6, <3>1, <3>2 DEF LinkTypeOK
    <2> QED
      BY <1>6, <2>1, <2>2, HowTheAUVGetsThere
  <1>7. ASSUME modem'[Shore] # Boot PROVE set'[AUV] = c
    <2>1. modem'[Shore] = modem[Shore] \/ set[AUV] = c
      BY <1>0, ModemStep
    <2> QED
      BY <1>0, <1>2, <1>7, <2>1 DEF RegistersInv
  <1> QED
    BY <1>3, <1>4, <1>5, <1>6, <1>7 DEF RegistersInv

-----------------------------------------------------------------------------
(* The AUV is never left alone                                             *)

\* Nothing has been said and both radios have their first settings.
LEMMA HandshakeInit ==
    ASSUME NEW c, Init
    PROVE  HandshakeInv(c)
  <1>1. /\ \A n \in Node : Peer(n) \in Node
        /\ Shore \in Node /\ AUV \in Node
    BY Peers DEF Node
  <1> USE <1>1 DEF Init, LinkInit, RadioInit
  <1>2. MessagesInv(c)
    BY DEF MessagesInv
  <1>3. CurrentInv
    BY DEF CurrentInv
  <1>4. PlaceInv(c)
    BY DEF PlaceInv
  <1>5. RegistersInv(c)
    BY DEF RegistersInv
  <1> QED
    BY <1>2, <1>3, <1>4, <1>5 DEF HandshakeInv

\* No step of the sketches breaks the handshake.
LEMMA HandshakeStep ==
    ASSUME NEW c, OneChange(c), LinkInv, AppTypeOK, ThreadInv, HandshakeInv(c),
           [Next]_vars
    PROVE  HandshakeInv(c)'
  <1> SUFFICES ASSUME NoRestart' PROVE HandshakeInv(c)'
    BY DEF HandshakeInv
  <1>1. LinkTypeOK /\ OrderInv /\ SetOK
    BY DEF LinkInv, AppTypeOK, SetOK
  <1>2. NoRestart /\ (Calm \/ UNCHANGED vars) /\ [LinkNext]_linkVars
    BY <1>1, NoRestartYet, LinkStep
  <1>3. MessagesInv(c) /\ CurrentInv /\ PlaceInv(c) /\ RegistersInv(c)
    BY <1>2 DEF HandshakeInv
  <1>4. CASE Calm
    <2>1. MessagesInv(c)'
      BY <1>1, <1>2, <1>3, <1>4, MessagesStep
    <2>2. CurrentInv'
      BY <1>1, <1>2, <1>3, CurrentStep
    <2>3. PlaceInv(c)'
      BY <1>1, <1>3, <1>4, PlaceStep
    <2>4. RegistersInv(c)'
      BY <1>2, <1>3, <1>4, RegistersStep
    <2> QED
      BY <2>1, <2>2, <2>3, <2>4 DEF HandshakeInv
  <1>5. CASE UNCHANGED vars
    <2> USE <1>5 DEF vars, linkVars, radioVars, threadVars, historyVars, appVars
    <2>1. MessagesInv(c)'
      BY <1>3 DEF MessagesInv, Says
    <2>2. CurrentInv'
      BY <1>3 DEF CurrentInv, Sending
    <2>3. PlaceInv(c)'
      BY <1>3 DEF PlaceInv
    <2>4. RegistersInv(c)'
      BY <1>3 DEF RegistersInv, ShoreFollows, HoldsConfirmation, NextKeyword, Ahead
    <2> QED
      BY <2>1, <2>2, <2>3, <2>4 DEF HandshakeInv
  <1> QED
    BY <1>2, <1>4, <1>5

\* The invariant of the handshake, for every configuration that an operator
\* may ask for, whatever else is typed, as long as it is harmless.
THEOREM HandshakeInvariant == Spec => []OneChangeInv
  <1>1. Init => OneChangeInv
    BY HandshakeInit DEF OneChangeInv
  <1>2. LinkInv /\ TypeOK /\ ThreadInv /\ OneChangeInv /\ [Next]_vars => OneChangeInv'
    <2> SUFFICES ASSUME LinkInv, TypeOK, ThreadInv, OneChangeInv, [Next]_vars,
                        NEW c \in [bw : Bw, sf : Sf], OneChange(c)
                 PROVE  HandshakeInv(c)'
      BY DEF OneChangeInv
    <2> QED
      BY HandshakeStep DEF TypeOK, OneChangeInv
  <1> QED
    BY <1>1, <1>2, SketchLinkInv, SketchTypeCorrect, SketchIsOneThread, PTL DEF Spec

\* The same for one configuration.
LEMMA OneHandshake ==
    ASSUME NEW c, OneChange(c), OneChangeInv
    PROVE  HandshakeInv(c)
  BY DEF OneChangeInv, OneChange

\* The AUV is on new settings only if the shore is on them too or holds the
\* confirmation that will put it there: modeChangeRemote() waits for the
\* acknowledgement of its confirmation before it writes, and an
\* acknowledgement that it takes for that one is that one.  For every
\* vocabulary, configuration, SeqMod, RETRIES and every bound.
THEOREM AUVIsNeverAlone ==
    ASSUME NEW c, OneChange(c)
    PROVE  Spec => []AUVNeverAlone
  <1>1. OneChangeInv => AUVNeverAlone
    <2> SUFFICES ASSUME OneChangeInv, NoRestart, modem[AUV] # Boot
                 PROVE  \/ modem[Shore] = modem[AUV]
                        \/ HoldsConfirmation(Shore) /\ set[Shore] = modem[AUV]
      BY DEF AUVNeverAlone
    <2>1. modem[AUV] = c /\ set[Shore] = c /\ ShoreFollows(c)
      BY OneHandshake DEF HandshakeInv, RegistersInv, Node
    <2> QED
      BY <2>1 DEF ShoreFollows
  <1> QED
    BY <1>1, HandshakeInvariant, PTL

\* A radio writes only settings that both sketches hold.  For every
\* vocabulary, configuration, SeqMod, RETRIES and every bound.
THEOREM SettingsAreAgreed ==
    ASSUME NEW c, OneChange(c)
    PROVE  Spec => []SettingsAgreed
  <1>1. OneChangeInv => SettingsAgreed
    <2> SUFFICES ASSUME OneChangeInv, NoRestart, NEW n \in Node, modem[n] # Boot
                 PROVE  set[Peer(n)] = modem[n]
      BY DEF SettingsAgreed
    <2>1. RegistersInv(c)
      BY OneHandshake DEF HandshakeInv
    <2> QED
      BY <2>1, TwoRadios DEF RegistersInv, Node, Peer
  <1> QED
    BY <1>1, HandshakeInvariant, PTL

\* What comms_stale finds needs a second, different request: an operator who
\* asks for one configuration, however often and whatever is lost, makes the
\* shore write the settings that it was told were received.
THEOREM OneChangeIsApplied ==
    ASSUME NEW c, OneChange(c)
    PROVE  Spec => [](NoRestart => AppliesWhatWasConfirmed)
  <1>1. OneChangeInv => (NoRestart => AppliesWhatWasConfirmed)
    <2> SUFFICES ASSUME OneChangeInv, NoRestart, NEW n \in Node, NEW p \in buf[n],
                        NEW i \in DOMAIN p.msg, p.msg[i] = RCVD
                 PROVE  p.msg = Confirmation(set[n])
      BY DEF AppliesWhatWasConfirmed
    <2>1. Says(c, Peer(n), p.msg)
      <3>1. MessagesInv(c)
        BY OneHandshake DEF HandshakeInv
      <3> QED
        BY <3>1, Peers DEF MessagesInv
    <2>2. n = Shore /\ p.msg = Confirmation(c) /\ set[Shore] = c
      BY <2>1, ReceivedWords
    <2> QED
      BY <2>2
  <1> QED
    BY <1>1, HandshakeInvariant, PTL

=============================================================================
