---------------------------- MODULE LinkChannel -----------------------------
(***************************************************************************)
(* The link between two radios that do not restart is two channels, one in *)
(* each direction.  A message is held by its receiver while recvfromAck()  *)
(* transmits the acknowledgement, unless it is going to be filtered.       *)
(***************************************************************************)
EXTENDS ReliableDatagram

\* What recvfromAck() of n holds and will return.
HeldBy(n) == {p.uid : p \in {q \in inp[n] : q.id # seen[n]}}

\* The channels, named for their receivers.
ToShore == INSTANCE Channel WITH
    made      <- calls[AUV],
    open      <- Sending(AUV),
    held      <- HeldBy(Shore),
    taken     <- got[Shore],
    confirmed <- acked[AUV]

ToAUV == INSTANCE Channel WITH
    made      <- calls[Shore],
    open      <- Sending(Shore),
    held      <- HeldBy(AUV),
    taken     <- got[AUV],
    confirmed <- acked[Shore]

\* Losses, repetitions, late acknowledgements, an octet for a number and two
\* threads that are deaf while they wait: none of it shows.  sendtoWait() and
\* recvfromAck() are the calls of a channel that delivers each message at
\* most once, in order, and confirms only what it delivers.
LinkIsChannel == ToShore!Spec /\ ToAUV!Spec
=============================================================================
