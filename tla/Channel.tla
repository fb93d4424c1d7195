------------------------------ MODULE Channel -------------------------------
(***************************************************************************)
(* What an acknowledged link promises in one direction.  The sender makes  *)
(* its calls 1, 2, 3, ... one at a time.  The receiver gets some of them,  *)
(* each at most once and in the order of the calls; it holds a message for *)
(* a while before it hands it over.  A call that returns true is one the   *)
(* receiver has, or holds; one that returns false may be either.           *)
(***************************************************************************)
EXTENDS Naturals

VARIABLES
    made,      \* number of calls made
    open,      \* the last of them has not returned
    held,      \* {call} the receiver holds, and will hand over
    taken,     \* calls handed over
    confirmed  \* calls that returned true

channelVars == <<made, open, held, taken, confirmed>>

ChannelTypeOK ==
    /\ made \in Nat
    /\ open \in BOOLEAN
    /\ held \subseteq 1 .. made
    /\ taken \subseteq 1 .. made
    /\ confirmed \subseteq 1 .. made

Init ==
    /\ made = 0
    /\ open = FALSE
    /\ held = {}
    /\ taken = {}
    /\ confirmed = {}

Call ==
    /\ ~open
    /\ made' = made + 1
    /\ open' = TRUE
    /\ UNCHANGED <<held, taken, confirmed>>

\* A message arrives, perhaps after its call has returned false.
Hold ==
    /\ held = {}
    /\ \E u \in 1 .. made :
          /\ \A v \in taken : v < u
          /\ held' = {u}
    /\ UNCHANGED <<made, open, taken, confirmed>>

HandOver ==
    /\ held # {}
    /\ taken' = taken \cup held
    /\ held' = {}
    /\ UNCHANGED <<made, open, confirmed>>

ReturnTrue ==
    /\ open
    /\ made \in taken \cup held
    /\ confirmed' = confirmed \cup {made}
    /\ open' = FALSE
    /\ UNCHANGED <<made, held, taken>>

ReturnFalse ==
    /\ open
    /\ open' = FALSE
    /\ UNCHANGED <<made, held, taken, confirmed>>

Next == Call \/ Hold \/ HandOver \/ ReturnTrue \/ ReturnFalse

Spec == Init /\ [][Next]_channelVars
=============================================================================
