----------------------------- MODULE MCInterrupt ----------------------------
(* The radio's receiving half with the shortest packets that are safe.     *)
EXTENDS RF95Interrupt

mcAirTime == Window
=============================================================================
