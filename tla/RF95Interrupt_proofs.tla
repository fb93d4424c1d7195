------------------------ MODULE RF95Interrupt_proofs ------------------------
(***************************************************************************)
(* Proofs about the receiving half of the radio, for any number of packets *)
(* and any time in the air that is no shorter than the window.             *)
(***************************************************************************)
EXTENDS RF95Interrupt, Integers, SequenceTheorems, TLAPS

LEMMA AirFacts == AirTime \in Nat /\ AirTime >= 11
  BY AirIsSlow DEF Window

-----------------------------------------------------------------------------

LEMMA InterruptTypeInit == Init => InterruptTypeOK
  <1> SUFFICES ASSUME Init PROVE InterruptTypeOK
    OBVIOUS
  <1>1. headers \in Seq(Packet \cup {Nothing}) /\ Len(headers) < 4
    BY DEF Init
  <1>2. air \in 0 .. AirTime /\ count \in Nat
    BY AirFacts DEF Init
  <1>3. buf \in Packet \cup {Nothing} /\ rxHeader \in Packet \cup {Nothing}
        /\ payload \in Packet \cup {Nothing} /\ taking \in Packet \cup {Nothing}
    BY Zenon DEF Init
  <1> QED
    BY <1>1, <1>2, <1>3 DEF Init, InterruptTypeOK

\* A step of the handler.
LEMMA HandlerType == ASSUME InterruptTypeOK, Handler PROVE InterruptTypeOK'
  <1> USE AirFacts DEF InterruptTypeOK
  <1>1. ASSUME NEW kind \in Kind, Heard(kind)
        PROVE  buf' \in Packet /\ count' \in Nat
    BY <1>1 DEF Heard, Packet
  <1>2. CASE RxBad
    BY <1>2 DEF RxBad, radio, thread
  <1>3. CASE RxShort
    BY <1>1, <1>3 DEF RxShort, GotOne, thread, Kind
  <1>4. CASE RxForeign
    BY <1>1, <1>4 DEF RxForeign, GotOne, thread, Kind
  <1>5. CASE RxOwn
    BY <1>1, <1>5 DEF RxOwn, GotOne, thread, Kind
  <1>6. CASE TxDone
    BY <1>6 DEF TxDone, thread
  <1> QED
    BY <1>2, <1>3, <1>4, <1>5, <1>6 DEF Handler

LEMMA ThreadType == ASSUME InterruptTypeOK, Thread PROVE InterruptTypeOK'
  <1> USE AirFacts DEF InterruptTypeOK
  <1>1. Tick \in 0 .. AirTime
    BY DEF Tick
  <1>2. CASE Work
    BY <1>2 DEF Work, radio, thread
  <1>3. CASE Transmit
    BY <1>3 DEF Transmit, thread
  <1>4. CASE Poll \/ Again \/ Recv
    BY <1>1, <1>4 DEF Poll, Again, Recv, Look, radio
  <1>9. CASE Listen
    BY <1>1, <1>9 DEF Listen
  <1>5. CASE Copy
    BY <1>1, <1>5 DEF Copy, radio
  <1>6. CASE ClearRxBuf
    BY <1>1, <1>6 DEF ClearRxBuf
  <1>7. CASE ReadHeader
    <2>1. headers' \in Seq(Packet \cup {Nothing}) /\ Len(headers') < 4
      BY <1>7 DEF ReadHeader, radio
    <2> QED
      BY <1>1, <1>7, <2>1 DEF ReadHeader, radio
  <1>8. CASE ReadLastHeader
    <2>1. headers' \in Seq(Packet \cup {Nothing}) /\ Len(headers') < 4
      BY <1>8 DEF ReadLastHeader
    <2> QED
      BY <1>1, <1>8, <2>1 DEF ReadLastHeader, radio
  <1> QED
    BY <1>2, <1>3, <1>4, <1>5, <1>6, <1>7, <1>8, <1>9 DEF Thread

LEMMA InterruptTypeStep == InterruptTypeOK /\ [Handler \/ Thread]_vars => InterruptTypeOK'
  <1>1. InterruptTypeOK /\ UNCHANGED vars => InterruptTypeOK'
    BY DEF InterruptTypeOK, vars, radio, thread
  <1> QED
    BY <1>1, HandlerType, ThreadType

\* The driver's variables keep their types whatever is interrupted.
THEOREM InterruptTypeCorrect == Spec => []InterruptTypeOK
  BY InterruptTypeInit, InterruptTypeStep, PTL DEF Spec

-----------------------------------------------------------------------------
(* The window                                                              *)

\* Steps the thread has left until it has read the last header.
ToGo == IF pc = "work" THEN (IF looking THEN 11 ELSE 0)
        ELSE IF pc = "again" THEN (IF looking THEN 9 ELSE 10)
        ELSE IF pc = "recv" THEN (IF looking THEN 7 ELSE 8)
        ELSE IF pc = "copy" THEN 6
        ELSE IF pc = "clear" THEN 5
        ELSE 4 - Len(headers)

\* When the radio listens although a packet waits, the thread is about to take
\* it, and the next one is on the air for longer than that.
WindowInv ==
    /\ mode = "rx" /\ rxBufValid => (pc # "work" \/ looking) /\ air >= ToGo
    /\ pc \in {"again", "recv", "copy", "clear"} => rxBufValid
    /\ pc = "recv" /\ looking => mode = "rx"
    /\ pc \in {"copy", "clear", "headers"} => mode = "rx" /\ ~looking
    /\ pc = "clear" => taking = buf /\ payload \in {buf, Nothing}
    /\ pc # "headers" => headers = <<>>
    /\ pc = "headers" =>
          /\ ~rxBufValid /\ air >= 4 - Len(headers)
          /\ taking \in Own /\ rxHeader = taking /\ payload \in {taking, Nothing}
          /\ \A i \in DOMAIN headers : headers[i] = taking

TakingInv == WindowInv /\ ValidIsOwn /\ HandedIsOnePacket

\* So no packet ends while the thread takes one.
LEMMA NoneInTheWindow ==
    ASSUME InterruptTypeOK, WindowInv, mode = "rx", air = 0
    PROVE  pc = "work" /\ ~rxBufValid
  <1>1. ~rxBufValid
    BY DEF WindowInv, ToGo, InterruptTypeOK
  <1>2. pc # "headers"
    <2>1. Len(headers) \in Nat /\ Len(headers) < 4
      BY DEF InterruptTypeOK
    <2> QED
      BY <2>1 DEF WindowInv
  <1> QED
    BY <1>1, <1>2 DEF WindowInv, InterruptTypeOK

\* What Append() leaves alone.
LEMMA AppendKeeps ==
    ASSUME NEW S, NEW hs \in Seq(S), NEW p \in S, NEW i \in 1 .. Len(hs)
    PROVE  Append(hs, p)[i] = hs[i]
  OBVIOUS

\* Three headers of a packet and the last one.
LEMMA FourHeaders ==
    ASSUME NEW S, NEW hs \in Seq(S), NEW p \in S, Len(hs) = 3,
           \A i \in DOMAIN hs : hs[i] = p
    PROVE  Append(hs, p) = <<p, p, p, p>>
  <1> DEFINE t == Append(hs, p)
             u == <<p, p, p, p>>
  <1>1. hs[1] = p /\ hs[2] = p /\ hs[3] = p
    OBVIOUS
  <1>2. t \in Seq(S) /\ Len(t) = 4 /\ t[4] = p /\ \A i \in 1 .. 3 : t[i] = hs[i]
    <2>1. t \in Seq(S) /\ Len(t) = Len(hs) + 1 /\ t[Len(hs) + 1] = p
      <3>1. t \in Seq(S)
        BY AppendProperties
      <3>2. Len(t) = Len(hs) + 1
        BY AppendProperties
      <3>3. t[Len(hs) + 1] = p
        BY AppendProperties
      <3> QED
        BY <3>1, <3>2, <3>3
    <2>2. ASSUME NEW i \in 1 .. Len(hs) PROVE t[i] = hs[i]
      BY AppendKeeps
    <2> HIDE DEF t
    <2> QED
      BY <2>1, <2>2
  <1>3. u \in Seq(S) /\ Len(u) = 4 /\ u[1] = p /\ u[2] = p /\ u[3] = p /\ u[4] = p
    OBVIOUS
  <1> HIDE DEF t, u
  <1>4. \A i \in 1 .. Len(t) : t[i] = u[i]
    BY <1>1, <1>2, <1>3
  <1>5. t = u
    BY <1>2, <1>3, <1>4, SeqEqual
  <1> QED
    BY <1>5 DEF t, u

LEMMA HandlerKeeps == ASSUME InterruptTypeOK, TakingInv, Handler PROVE TakingInv'
  <1> USE DEF TakingInv
  <1>1. CASE TxDone
    BY <1>1 DEF TxDone, thread, WindowInv, ValidIsOwn, HandedIsOnePacket
  <1>2. CASE RxBad \/ RxShort \/ RxForeign \/ RxOwn
    <2>1. mode = "rx" /\ air = 0
      BY <1>2 DEF RxBad, RxShort, RxForeign, RxOwn, Heard
    <2>2. pc = "work" /\ ~rxBufValid
      BY <2>1, NoneInTheWindow
    <2>3. UNCHANGED <<pc, looking, payload, headers, handed, taking>>
      BY <1>2 DEF RxBad, RxShort, RxForeign, RxOwn, thread
    <2>4. headers = <<>>
      BY <2>2 DEF WindowInv
    <2>5. HandedIsOnePacket'
      BY <2>3 DEF HandedIsOnePacket
    <2>6. CASE RxOwn
      <3>1. buf' \in Own /\ rxHeader' = buf' /\ mode' = "idle"
        BY <2>6 DEF RxOwn, Heard, GotOne, Own, Packet, Kind, InterruptTypeOK
      <3> QED
        BY <2>2, <2>3, <2>4, <2>5, <3>1 DEF WindowInv, ValidIsOwn
    <2>7. CASE ~RxOwn
      <3>1. ~rxBufValid'
        BY <1>2, <2>2, <2>7 DEF RxBad, RxShort, RxForeign, radio
      <3> QED
        BY <2>2, <2>3, <2>4, <2>5, <3>1 DEF WindowInv, ValidIsOwn
    <2> QED
      BY <2>6, <2>7
  <1> QED
    BY <1>1, <1>2 DEF Handler

LEMMA ThreadKeeps == ASSUME InterruptTypeOK, TakingInv, Thread PROVE TakingInv'
  <1> USE DEF TakingInv
  <1> DEFINE Rest == ValidIsOwn /\ HandedIsOnePacket
  <1>1. air \in Nat /\ AirTime \in Nat /\ AirTime >= 11
    BY AirFacts DEF InterruptTypeOK
  <1>2. CASE Work
    BY <1>2 DEF Work, radio, thread, WindowInv, ValidIsOwn, HandedIsOnePacket
  <1>3. CASE Transmit
    BY <1>3 DEF Transmit, thread, WindowInv, ValidIsOwn, HandedIsOnePacket
  <1>13. CASE Listen
    <2>1. /\ pc \in {"work", "again", "recv"} /\ ~looking /\ looking' /\ mode' = "rx"
          /\ UNCHANGED <<rxBufValid, buf, rxHeader, pc, payload, headers, handed, taking>>
          /\ air' = IF mode = "rx" THEN Tick ELSE AirTime
      BY <1>13 DEF Listen
    <2>2. ASSUME rxBufValid PROVE air' >= ToGo'
      <3>1. CASE mode = "rx"
        <4>1. pc \in {"again", "recv"} /\ air >= ToGo /\ air' = Tick
          BY <2>1, <2>2, <3>1 DEF WindowInv
        <4> QED
          BY <1>1, <2>1, <4>1 DEF ToGo, Tick
      <3>2. CASE mode # "rx"
        <4>1. air' = AirTime
          BY <2>1, <3>2
        <4>2. ToGo' \in Nat /\ ToGo' <= 11
          BY <2>1 DEF ToGo
        <4> QED
          BY <1>1, <4>1, <4>2
      <3> QED
        BY <3>1, <3>2
    <2> QED
      BY <2>1, <2>2 DEF WindowInv, ValidIsOwn, HandedIsOnePacket
  <1>4. ASSUME NEW then, Look(then) PROVE Rest'
    BY <1>4 DEF Look, radio, ValidIsOwn, HandedIsOnePacket
  <1>5. CASE Poll
    <2>1. PICK then \in {"again", "recv"} : Look(then)
      BY <1>5 DEF Poll
    <2>2. /\ pc = "work" /\ looking /\ ~looking' /\ headers = <<>>
          /\ UNCHANGED <<mode, rxBufValid, headers>>
          /\ pc' = (IF rxBufValid THEN then ELSE "work") /\ air' = Tick
      BY <1>5, <2>1 DEF Poll, Look, WindowInv, radio
    <2>3. mode' = "rx" /\ rxBufValid' => pc' # "work" /\ air' >= ToGo'
      BY <1>1, <2>1, <2>2 DEF WindowInv, ToGo, Tick
    <2>4. WindowInv'
      BY <2>1, <2>2, <2>3 DEF WindowInv
    <2> QED
      BY <1>4, <2>1, <2>4
  <1>6. CASE Again
    <2>1. /\ pc = "again" /\ looking /\ ~looking' /\ headers = <<>> /\ rxBufValid
          /\ UNCHANGED <<mode, rxBufValid, headers>>
          /\ pc' = "recv" /\ air' = Tick
      BY <1>6 DEF Again, Look, WindowInv, radio
    <2>2. mode' = "rx" => air' >= ToGo'
      BY <1>1, <2>1 DEF WindowInv, ToGo, Tick
    <2>3. WindowInv'
      BY <2>1, <2>2 DEF WindowInv
    <2> QED
      BY <1>4, <1>6, <2>3 DEF Again
  <1>7. CASE Recv
    <2>1. /\ pc = "recv" /\ looking /\ ~looking' /\ headers = <<>> /\ rxBufValid
          /\ mode = "rx" /\ UNCHANGED <<mode, rxBufValid, headers>>
          /\ pc' = "copy" /\ air' = Tick
      BY <1>7 DEF Recv, Look, WindowInv, radio
    <2>2. air' >= ToGo'
      BY <1>1, <2>1 DEF WindowInv, ToGo, Tick
    <2>3. WindowInv'
      BY <2>1, <2>2 DEF WindowInv
    <2> QED
      BY <1>4, <1>7, <2>3 DEF Recv
  <1>8. CASE Copy
    <2>1. pc = "copy" /\ rxBufValid /\ mode = "rx" /\ air >= 6 /\ headers = <<>>
      BY <1>8 DEF Copy, WindowInv, ToGo
    <2>2. /\ pc' = "clear"
          /\ UNCHANGED <<mode, rxBufValid, buf, rxHeader, looking, headers, handed>>
          /\ air' = air - 1 /\ taking' = buf /\ payload' \in {buf, Nothing}
      BY <1>8, <2>1 DEF Copy, Tick, radio
    <2>3. WindowInv'
      BY <1>1, <2>1, <2>2 DEF WindowInv, ToGo
    <2> QED
      BY <2>2, <2>3 DEF ValidIsOwn, HandedIsOnePacket
  <1>9. CASE ClearRxBuf
    <2>1. /\ pc = "clear" /\ rxBufValid /\ mode = "rx" /\ air >= 5 /\ headers = <<>>
          /\ taking = buf /\ payload \in {buf, Nothing}
      BY <1>9 DEF ClearRxBuf, WindowInv, ToGo
    <2>2. buf \in Own /\ rxHeader = buf
      BY <2>1 DEF ValidIsOwn
    <2>3. /\ pc' = "headers" /\ ~rxBufValid' /\ air' = air - 1
          /\ UNCHANGED <<mode, buf, rxHeader, looking, payload, headers, handed, taking>>
      BY <1>9, <2>1 DEF ClearRxBuf, Tick
    <2>4. Len(headers') = 0
      BY <2>1, <2>3
    <2>5. WindowInv'
      BY <1>1, <2>1, <2>2, <2>3, <2>4 DEF WindowInv
    <2> QED
      BY <2>3, <2>5 DEF ValidIsOwn, HandedIsOnePacket
  <1>10. ASSUME pc = "headers"
         PROVE  /\ mode = "rx" /\ ~looking /\ air >= 4 - Len(headers) /\ ~rxBufValid
                /\ taking \in Own /\ rxHeader = taking /\ payload \in {taking, Nothing}
                /\ \A i \in DOMAIN headers : headers[i] = taking
                /\ Len(headers) \in Nat /\ Len(headers) < 4 /\ headers \in Seq(Packet \cup {Nothing})
                /\ rxHeader \in Packet \cup {Nothing}
    <2>1. headers \in Seq(Packet \cup {Nothing}) /\ rxHeader \in Packet \cup {Nothing}
      BY DEF InterruptTypeOK
    <2>5. Len(headers) \in Nat /\ Len(headers) < 4
      <3>1. Len(headers) \in Nat
        BY <2>1, LenProperties, Zenon
      <3>2. Len(headers) < 4
        BY DEF InterruptTypeOK
      <3> QED
        BY <3>1, <3>2
    <2>3. mode = "rx" /\ ~looking /\ air >= 4 - Len(headers)
      BY <1>10 DEF WindowInv
    <2>4. /\ ~rxBufValid
          /\ taking \in Own /\ rxHeader = taking /\ payload \in {taking, Nothing}
          /\ \A i \in DOMAIN headers : headers[i] = taking
      BY <1>10 DEF WindowInv
    <2> QED
      BY <2>1, <2>3, <2>4, <2>5
  <1>11. CASE ReadHeader
    <2>1. pc = "headers" /\ Len(headers) < 3
      BY <1>11 DEF ReadHeader
    <2>2. /\ headers' = Append(headers, rxHeader) /\ air' = air - 1
          /\ UNCHANGED <<mode, rxBufValid, buf, rxHeader, pc, looking, payload, handed, taking>>
      BY <1>1, <1>10, <1>11, <2>1 DEF ReadHeader, Tick, radio
    <2>3. Len(headers') = Len(headers) + 1 /\ \A i \in DOMAIN headers' : headers'[i] = taking
      BY <1>10, <2>1, <2>2
    <2>5. WindowInv'
      BY <1>1, <1>10, <2>1, <2>2, <2>3 DEF WindowInv
    <2> QED
      BY <2>2, <2>5 DEF ValidIsOwn, HandedIsOnePacket
  <1>12. CASE ReadLastHeader
    <2>1. pc = "headers" /\ Len(headers) = 3
      BY <1>12 DEF ReadLastHeader
    <2>2. /\ pc' = "work" /\ headers' = <<>>
          /\ UNCHANGED <<mode, rxBufValid, buf, rxHeader, looking>>
          /\ handed' = [payload |-> payload, headers |-> Append(headers, rxHeader)]
      BY <1>12 DEF ReadLastHeader, radio
    <2>3. Append(headers, rxHeader) = <<taking, taking, taking, taking>>
      BY <1>10, <2>1, FourHeaders
    <2>4. HandedIsOnePacket'
      BY <1>10, <2>1, <2>2, <2>3 DEF HandedIsOnePacket
    <2>5. WindowInv'
      BY <1>10, <2>1, <2>2 DEF WindowInv
    <2> QED
      BY <2>2, <2>4, <2>5 DEF ValidIsOwn
  <1> QED
    BY <1>2, <1>3, <1>5, <1>6, <1>7, <1>8, <1>9, <1>11, <1>12,
       <1>13 DEF Thread

LEMMA TakingInit == Init => TakingInv
  BY DEF Init, TakingInv, WindowInv, ValidIsOwn, HandedIsOnePacket

LEMMA TakingStep == InterruptTypeOK /\ TakingInv /\ [Handler \/ Thread]_vars => TakingInv'
  <1>1. TakingInv /\ UNCHANGED vars => TakingInv'
    BY DEF vars, radio, thread, TakingInv, WindowInv, ToGo, ValidIsOwn, HandedIsOnePacket
  <1> QED
    BY <1>1, HandlerKeeps, ThreadKeeps

\* A valid buffer holds one packet for this node and its headers.
THEOREM ValidBufferIsOwn == Spec => []ValidIsOwn
  <1>1. TakingInv => ValidIsOwn
    BY DEF TakingInv
  <1> QED
    BY <1>1, TakingInit, TakingStep, InterruptTypeInit, InterruptTypeStep, PTL DEF Spec

\* Although payload and headers are read in five steps with the radio on, they
\* are those of one packet, if a packet is longer in the air than these steps.
THEOREM OnePacketIsHanded == Spec => []HandedIsOnePacket
  <1>1. TakingInv => HandedIsOnePacket
    BY DEF TakingInv
  <1> QED
    BY <1>1, TakingInit, TakingStep, InterruptTypeInit, InterruptTypeStep, PTL DEF Spec

-----------------------------------------------------------------------------
(* The refinement                                                          *)

LEMMA StepIsBufferStep ==
    ASSUME InterruptTypeOK, TakingInv, [Handler \/ Thread]_vars
    PROVE  [Buffer!Accept \/ Buffer!Take]_<<Held, handed>>
  <1> USE DEF TakingInv
  <1>1. CASE RxOwn
    <2>1. mode = "rx" /\ air = 0
      BY <1>1 DEF RxOwn, Heard
    <2>2. pc = "work" /\ ~rxBufValid
      BY <2>1, NoneInTheWindow
    <2>3. Held = {} /\ Held' = {buf'} /\ handed' = handed
      BY <1>1, <2>2 DEF Held, RxOwn, thread
    <2>4. buf' \in Own
      BY <1>1 DEF RxOwn, Heard, Own, Packet, Kind, InterruptTypeOK
    <2> QED
      BY <2>3, <2>4 DEF Buffer!Accept
  <1>2. CASE RxBad \/ RxShort \/ RxForeign
    <2>1. mode = "rx" /\ air = 0
      BY <1>2 DEF RxBad, RxShort, RxForeign, Heard
    <2>2. pc = "work" /\ ~rxBufValid
      BY <2>1, NoneInTheWindow
    <2>3. Held = {} /\ Held' = {} /\ handed' = handed
      BY <1>2, <2>2 DEF Held, RxBad, RxShort, RxForeign, radio, thread
    <2> QED
      BY <2>3
  <1>3. CASE TxDone \/ Work \/ Transmit \/ UNCHANGED vars
    BY <1>3 DEF TxDone, Work, Transmit, vars, radio, thread, Held
  <1>4. CASE Listen
    BY <1>4 DEF Listen, Held
  <1>9. CASE Poll \/ Again \/ Recv
    <2>1. pc # "headers" /\ pc' # "headers" /\ UNCHANGED <<rxBufValid, buf, handed>>
      BY <1>9 DEF Poll, Again, Recv, Look, radio
    <2> QED
      BY <2>1 DEF Held
  <1>5. CASE Copy
    BY <1>5 DEF Copy, radio, Held
  <1>6. CASE ClearRxBuf
    BY <1>6 DEF ClearRxBuf, Held, WindowInv
  <1>7. CASE ReadHeader
    BY <1>7 DEF ReadHeader, radio, Held
  <1>8. CASE ReadLastHeader
    <2>1. /\ pc = "headers" /\ Len(headers) = 3 /\ pc' = "work"
          /\ UNCHANGED rxBufValid
          /\ handed' = [payload |-> payload, headers |-> Append(headers, rxHeader)]
      BY <1>8 DEF ReadLastHeader, radio
    <2>2. /\ ~rxBufValid
          /\ rxHeader = taking /\ payload \in {taking, Nothing}
          /\ \A i \in DOMAIN headers : headers[i] = taking
          /\ headers \in Seq(Packet \cup {Nothing}) /\ rxHeader \in Packet \cup {Nothing}
      BY <2>1 DEF WindowInv, InterruptTypeOK
    <2>3. Append(headers, rxHeader) = <<taking, taking, taking, taking>>
      BY <2>1, <2>2, FourHeaders
    <2>4. Held = {taking} /\ Held' = {}
      BY <2>1, <2>2 DEF Held
    <2> QED
      BY <2>1, <2>2, <2>3, <2>4 DEF Buffer!Take
  <1> QED
    BY <1>1, <1>2, <1>3, <1>4, <1>5, <1>6, <1>7, <1>8, <1>9 DEF Handler, Thread

\* The driver implements a buffer of one packet that is taken in one step, which
\* is how the protocol's model sees it.
THEOREM RadioIsPacketBuffer == Spec => TakenInOneStep
  <1>1. Init => Buffer!Init
    BY DEF Init, Buffer!Init, Held
  <1> QED
    BY <1>1, StepIsBufferStep, TakingInit, TakingStep, InterruptTypeInit, InterruptTypeStep, PTL
       DEF Spec, TakenInOneStep, Buffer!Spec
=============================================================================
