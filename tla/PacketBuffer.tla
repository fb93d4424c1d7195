---------------------------- MODULE PacketBuffer ----------------------------
(***************************************************************************)
(* What the radio promises the protocol: a buffer of one packet, which is  *)
(* taken, payload and headers, in one step.                                *)
(***************************************************************************)
EXTENDS Naturals

CONSTANTS Packets, Nothing
VARIABLES held, handed

\* `handed' is what was taken last.
Init == held = {} /\ handed = [payload |-> Nothing, headers |-> <<>>]

Accept ==
    /\ held = {}
    /\ \E p \in held' : p \in Packets /\ held' = {p}
    /\ UNCHANGED handed

\* The payload may not be asked for.
Take ==
    /\ held' = {}
    /\ \E p \in held : /\ handed'.payload \in {p, Nothing}
                       /\ handed'.headers = <<p, p, p, p>>

Spec == Init /\ [][Accept \/ Take]_<<held, handed>>
=============================================================================
