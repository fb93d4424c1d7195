-------------------------- MODULE AUVLines_proofs ---------------------------
(***************************************************************************)
(* The two sketches implement the line service, for all values of the      *)
(* constants: the initial states map to initial states, every step to a    *)
(* step or a stutter.  What a step does to the link's channel is taken     *)
(* from LinkChannel_proofs, what it does to the sketch from                *)
(* AUVComms_proofs.                                                        *)
(***************************************************************************)
EXTENDS AUVLines, AUVComms_proofs, LinkChannel_proofs

\* The sketches' messages go through two channels, whatever the sketches do
\* with the link.
THEOREM SketchIsChannel ==
    ASSUME NobodyRestarts
    PROVE  Spec => LinkIsChannel
  BY SketchUsesLink, LinkImplementsChannel, PTL

-----------------------------------------------------------------------------
(* One step                                                                *)

\* What the vehicle deals with.
Dealing == HeldBy(AUV) \cup Uids(buf[AUV])

\* A step of the service, or none, from the first line to the second.
ServiceStepOf(m,  o,  l,  h,  t,  c,
              m2, o2, l2, h2, t2, c2) ==
    \/ ~o /\ m2 = m + 1 /\ o2 = TRUE /\ l2 \in {l, l \cup {m + 1}} /\ <<h2, t2, c2>> = <<h, t, c>>
    \/ /\ h = {}
       /\ \E u \in 1 .. m : (\A v \in t : v < u) /\ h2 = {u}
       /\ <<m2, o2, l2, t2, c2>> = <<m, o, l, t, c>>
    \/ h # {} /\ t2 = t \cup h /\ h2 = {} /\ <<m2, o2, l2, c2>> = <<m, o, l, c>>
    \/ h # {} /\ h \cap l = {} /\ h2 = {} /\ <<m2, o2, l2, t2, c2>> = <<m, o, l, t, c>>
    \/ /\ o /\ (m \in l => m \in t \cup h) /\ c2 = c \cup {m} /\ o2 = FALSE
       /\ <<m2, l2, h2, t2>> = <<m, l, h, t>>
    \/ o /\ o2 = FALSE /\ <<m2, l2, h2, t2, c2>> = <<m, l, h, t, c>>
    \/ <<m2, o2, l2, h2, t2, c2>> = <<m, o, l, h, t, c>>

ServiceStep ==
    ServiceStepOf(calls[Shore],  Sending(Shore),  plain,  Dealing,  conveyed,  acked[Shore],
                  calls'[Shore], Sending(Shore)', plain', Dealing', conveyed', acked'[Shore])

\* A message that recvfromAck() holds keeps the sketch at the top of loop(),
\* with nothing in its buffer.
LEMMA HeldThenEmpty ==
    ASSUME LinkTypeOK, OrderInv, ThreadInv, HeldBy(AUV) # {}
    PROVE  at[AUV] = "loop" /\ buf[AUV] = {}
  <1>1. AUV \in Node /\ inp[AUV] # {}
    BY DEF Node, HeldBy
  <1> QED
    BY <1>1 DEF OrderInv, OrderAt, Deaf, ThreadInv

\* recvfromAck() returns what it holds: the vehicle goes on dealing with it.
LEMMA TakeMessageStutters ==
    ASSUME LinkTypeOK, OrderInv, AppTypeOK, ThreadInv, TakeMessage(AUV)
    PROVE  ServiceStep
  <1>1. /\ AUV \in Node /\ Shore \in Node /\ AUV # Shore
        /\ ctl \in [Node -> Control]
        /\ inp \in [Node -> SUBSET Packet]
        /\ \A p, q \in inp[AUV] : p = q
    BY TwoRadios DEF Node, LinkTypeOK, OrderInv, OrderAt, Deaf
  <1>2. PICK p \in inp[AUV] : p.id # seen[AUV]
    BY DEF TakeMessage, Deliver
  <1>3. inp[AUV] = {p} /\ buf[AUV] = {}
    BY <1>1 DEF TakeMessage, ThreadInv
  <1>4. inp'[AUV] = {} /\ buf'[AUV] = {p}
    BY <1>1, <1>3 DEF TakeMessage, Deliver, AppTypeOK
  <1>5. Dealing = {p.uid} /\ Dealing' = {p.uid}
    <2>1. HeldBy(AUV) = {p.uid} /\ Uids(buf[AUV]) = {}
      BY <1>2, <1>3 DEF HeldBy, Uids
    <2>2. HeldBy(AUV)' = {} /\ Uids(buf[AUV])' = {p.uid}
      BY <1>4 DEF HeldBy, Uids
    <2> QED
      BY <2>1, <2>2 DEF Dealing
  <1>6. /\ calls' = calls /\ acked' = acked /\ plain' = plain /\ conveyed' = conveyed
        /\ Sending(Shore)' = Sending(Shore)
    BY <1>1 DEF TakeMessage, Deliver, Sending
  <1> QED
    BY <1>5, <1>6 DEF ServiceStep, ServiceStepOf

\* The sketch has gone through the words: the message is printed, or it was
\* for the radio and is no line.
LEMMA EndOfMessageIsPrintOrObey ==
    ASSUME LinkTypeOK, OrderInv, AppTypeOK, ThreadInv, PlainInv, EndOfMessage(AUV)
    PROVE  ServiceStep
  <1>1. /\ AUV \in Node
        /\ inp' = inp /\ seen' = seen /\ ctl' = ctl
        /\ calls' = calls /\ acked' = acked /\ plain' = plain
        /\ at[AUV] = "tokens" /\ buf'[AUV] = {}
        /\ conveyed' = IF remote[AUV] THEN conveyed ELSE conveyed \cup Uids(buf[AUV])
    BY DEF EndOfMessage, ForVehicle, AppTypeOK, linkVars, threadVars, historyVars, Node,
       Uids
  <1>2. HeldBy(AUV) = {}
    BY <1>1, HeldThenEmpty
  <1>3. Dealing = Uids(buf[AUV]) /\ Dealing' = {} /\ Sending(Shore)' = Sending(Shore)
    <2>1. HeldBy(AUV)' = HeldBy(AUV) /\ Sending(Shore)' = Sending(Shore)
      BY <1>1 DEF HeldBy, Sending
    <2>2. Uids(buf[AUV])' = {}
      BY <1>1 DEF Uids
    <2> QED
      BY <1>2, <2>1, <2>2 DEF Dealing
  <1>4. remote[AUV] => Dealing \cap plain = {}
    BY <1>3 DEF PlainInv, Uids
  <1>5. CASE Dealing = {}
    BY <1>1, <1>3, <1>5 DEF ServiceStep, ServiceStepOf
  <1>6. CASE Dealing # {}
    BY <1>1, <1>3, <1>4, <1>6 DEF ServiceStep, ServiceStepOf
  <1> QED
    BY <1>5, <1>6

\* While the sketch's buffer stays as it is the step is that of the link's
\* channel, which hands nothing over.
LEMMA ChannelStepIsServiceStep ==
    ASSUME LinkTypeOK, OrderInv, InOrderOnce, NoneRestarted, AppTypeOK,
           ThreadInv, ThreadInv', OrderInv', LinkTypeOK', UARTInv,
           [Next]_vars, BufferStays, StepTo(AUV)
    PROVE  ServiceStep
  <1> DEFINE m == calls[Shore]
             h == HeldBy(AUV)
             t == got[AUV]
  <1>0. AUV \in Node /\ Peer(AUV) = Shore
    BY TwoRadios DEF Node, Peer
  <1>1. /\ got'[AUV] = got[AUV] /\ conveyed' = conveyed
        /\ Uids(buf[AUV])' = Uids(buf[AUV])
    BY DEF BufferStays, Uids
  <1>2. m \in Nat /\ calls'[Shore] # m => plain' \in {plain, plain \cup {calls'[Shore]}}
    BY PlainCalls
  <1>3. m \in Nat /\ calls'[Shore] = m => plain' = plain
    BY PlainCalls
  <1>4. m \in Nat
    BY NoneFromTheFuture
  <1>5. h # {} => ~(h \subseteq t)
    <2> SUFFICES ASSUME NEW p \in inp[AUV], p.id # seen[AUV] PROVE p.uid \notin got[AUV]
      BY DEF HeldBy
    <2>1. \A u \in got[AUV] : u < p.uid
      BY <1>0 DEF InOrderOnce, NoneRestarted
    <2>2. got[AUV] \subseteq Nat
      BY NoneFromTheFuture
    <2> QED
      BY <2>1, <2>2
  <1>6. HeldBy(AUV)' # {} => Uids(buf[AUV]) = {}
    <2>1. HeldBy(AUV)' # {} => buf'[AUV] = {}
      <3>1. HeldBy(AUV)' # {} => inp'[AUV] # {}
        BY DEF HeldBy
      <3> QED
        BY <1>0, <3>1 DEF OrderInv, OrderAt, Deaf, ThreadInv
    <2> QED
      BY <2>1 DEF BufferStays, Uids
  <1>7. conveyed \subseteq got[AUV]
    BY DEF UARTInv
  <1>8. m \in got[AUV] /\ m \in plain => m \in conveyed \cup Uids(buf[AUV])
    BY <1>0 DEF UARTInv, NoneRestarted, Uids
  <1> HIDE DEF h, t
  <1>9. CASE ~Sending(Shore) /\ calls'[Shore] = m + 1 /\ Sending(Shore)' = TRUE
             /\ <<HeldBy(AUV)', acked'[Shore]>> = <<h, acked[Shore]>>
    <2>1. Dealing' = Dealing
      BY <1>1, <1>9 DEF Dealing, h
    <2>2. plain' \in {plain, plain \cup {m + 1}}
      BY <1>2, <1>4, <1>9
    <2> QED
      BY <1>1, <1>9, <2>1, <2>2 DEF ServiceStep, ServiceStepOf
  <1>10. CASE /\ h = {}
              /\ \E u \in 1 .. m : (\A v \in t : v < u) /\ HeldBy(AUV)' = {u}
              /\ <<calls'[Shore], Sending(Shore)', acked'[Shore]>>
                    = <<m, Sending(Shore), acked[Shore]>>
    <2>1. PICK u \in 1 .. m : (\A v \in t : v < u) /\ HeldBy(AUV)' = {u}
      BY <1>10
    <2>2. Dealing = {} /\ Dealing' = {u} /\ \A v \in conveyed : v < u
      BY <1>1, <1>6, <1>7, <1>10, <2>1 DEF Dealing, h, t
    <2> QED
      BY <1>1, <1>3, <1>4, <1>10, <2>2 DEF ServiceStep, ServiceStepOf
  <1>11. CASE h # {} /\ got'[AUV] = t \cup h
    BY <1>1, <1>5, <1>11 DEF t
  <1>12. CASE /\ Sending(Shore) /\ m \in t \cup h
              /\ acked'[Shore] = acked[Shore] \cup {m} /\ Sending(Shore)' = FALSE
              /\ <<calls'[Shore], HeldBy(AUV)'>> = <<m, h>>
    BY <1>1, <1>3, <1>4, <1>8, <1>12 DEF ServiceStep, ServiceStepOf, Dealing, h, t
  <1>13. CASE /\ Sending(Shore) /\ Sending(Shore)' = FALSE
              /\ <<calls'[Shore], HeldBy(AUV)', acked'[Shore]>> = <<m, h, acked[Shore]>>
    BY <1>1, <1>3, <1>4, <1>13 DEF ServiceStep, ServiceStepOf, Dealing, h
  <1>14. CASE <<calls'[Shore], Sending(Shore)', HeldBy(AUV)', acked'[Shore]>>
                 = <<m, Sending(Shore), h, acked[Shore]>>
    BY <1>1, <1>3, <1>4, <1>14 DEF ServiceStep, ServiceStepOf, Dealing, h
  <1> QED
    BY <1>0, <1>9, <1>10, <1>11, <1>12, <1>13, <1>14 DEF StepTo, StepOf, h, t

-----------------------------------------------------------------------------
(* The refinement                                                          *)

\* Nothing has been typed, nothing is held, nothing has come out.
LEMMA SketchInitIsServiceInit == Init => Service!Init
  BY DEF Init, LinkInit, Service!Init, Sending, HeldBy, Uids, Node

\* Every step of the sketches is a step of the service, or none.
LEMMA SketchStepIsServiceStep ==
    ASSUME LinkInv, LinkInv', InOrderOnce, AppTypeOK, ThreadInv, ThreadInv', PlainInv,
           UARTInv, NoneRestarted, NobodyRestarts, [Next]_vars
    PROVE  ServiceStep
  <1>1. LinkTypeOK /\ OrderInv /\ LinkTypeOK' /\ OrderInv'
    BY DEF LinkInv
  <1>2. [LinkNext]_linkVars
    BY LinkStep DEF SetOK, AppTypeOK
  <1>3. AUV \in Node /\ \A n \in Node : ~Reset(n)
    BY <1>1, <1>2, NoneRestartedStep DEF Node
  <1>4. StepTo(AUV)
    BY <1>2, <1>3, LinkStepIsChannelStep
  <1>5. CASE BufferStays
    BY <1>1, <1>4, <1>5, ChannelStepIsServiceStep
  <1>6. CASE TakeMessage(AUV)
    BY <1>1, <1>6, TakeMessageStutters
  <1>7. CASE EndOfMessage(AUV)
    BY <1>1, <1>7, EndOfMessageIsPrintOrObey
  <1>8. ~PowerCycle(AUV)
    BY <1>3 DEF PowerCycle
  <1> QED
    BY <1>1, <1>5, <1>6, <1>7, <1>8, BufferSteps

\* Two sketches that do not restart are the line service: whatever is typed at
\* either end, lost or repeated on the way, a line without a keyword comes out
\* of the UART at most once, in its order, and not unless it comes out is it
\* reported as sent.
THEOREM SketchImplementsLineService ==
    ASSUME NobodyRestarts
    PROVE  Spec => SketchIsLineService
  <1>1. ServiceStep => [Service!Next]_(Service!serviceVars)
    BY DEF ServiceStep, ServiceStepOf, Dealing, Service!Next, Service!serviceVars,
       Service!Call, Service!Arrive, Service!ComeOut, Service!Obey, Service!Succeed,
       Service!Fail
  <1>2. TypeOK => AppTypeOK
    BY DEF TypeOK
  <1>3. ConveyInv => ThreadInv /\ PlainInv /\ UARTInv
    BY DEF ConveyInv
  <1>4. /\ LinkInv /\ LinkInv' /\ InOrderOnce /\ TypeOK /\ ConveyInv /\ ConveyInv'
        /\ NoneRestarted /\ [Next]_vars
        => [Service!Next]_(Service!serviceVars)
    <2>1. ConveyInv' => ThreadInv'
      BY DEF ConveyInv
    <2> QED
      BY <1>1, <1>2, <1>3, <2>1, SketchStepIsServiceStep
  <1>5. LinkInv /\ TypeOK /\ NoneRestarted /\ [Next]_vars => NoneRestarted'
    <2> SUFFICES ASSUME LinkInv, TypeOK, NoneRestarted, [Next]_vars
                 PROVE  NoneRestarted'
      OBVIOUS
    <2>1. [LinkNext]_linkVars
      BY LinkStep DEF SetOK, AppTypeOK, TypeOK
    <2> QED
      BY <2>1, NoneRestartedStep DEF LinkInv
  <1>6. Init => NoneRestarted
    BY NoneRestartedInit DEF Init
  <1> QED
    BY <1>4, <1>5, <1>6, SketchInitIsServiceInit, SketchLinkInv, SketchTypeCorrect,
       ConveyInvariant, PTL DEF Spec, SketchIsLineService, Service!Spec
=============================================================================
