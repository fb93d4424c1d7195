------------------------------ MODULE AUVLines ------------------------------
(***************************************************************************)
(* The two sketches, and the radios and the link below them, are the line  *)
(* service, as long as neither restarts.  The vehicle deals with a message *)
(* from the moment recvfromAck() has it until the sketch has gone through  *)
(* its words.                                                              *)
(***************************************************************************)
EXTENDS AUVComms, LinkChannel

Uids(packets) == {p.uid : p \in packets}

Service == INSTANCE LineService WITH
    made      <- calls[Shore],
    open      <- Sending(Shore),
    lines     <- plain,
    held      <- HeldBy(AUV) \cup Uids(buf[AUV]),
    printed   <- conveyed,
    confirmed <- acked[Shore]

\* Whatever is lost or repeated, whichever commands for the radios come in
\* between, and whatever the AUV has to say itself: lines come out of the
\* UART at most once and in order, and none that was acknowledged is lost.
SketchIsLineService == Service!Spec
=============================================================================
