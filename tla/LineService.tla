---------------------------- MODULE LineService -----------------------------
(***************************************************************************)
(* What the sketches promise the operator: a line that is no command for   *)
(* the radios comes out of the vehicle's UART at most once, lines come out *)
(* in the order in which they were typed, and `Transmission successful'    *)
(* is said only of a line that has come out or will.                       *)
(***************************************************************************)
EXTENDS Naturals

VARIABLES
    made,      \* calls the shore has made, for lines and for anything else
    open,      \* the last of them has not returned
    lines,     \* those that were for lines without a command in them
    held,      \* {call} whose message the vehicle is dealing with
    printed,   \* calls whose message has come out of the UART
    confirmed  \* calls that returned true

serviceVars == <<made, open, lines, held, printed, confirmed>>

Init ==
    /\ made = 0
    /\ open = FALSE
    /\ lines = {}
    /\ held = {}
    /\ printed = {}
    /\ confirmed = {}

\* Some call, perhaps for a line.
Call ==
    /\ ~open
    /\ made' = made + 1
    /\ open' = TRUE
    /\ lines' \in {lines, lines \cup {made + 1}}
    /\ UNCHANGED <<held, printed, confirmed>>

Arrive ==
    /\ held = {}
    /\ \E u \in 1 .. made : (\A v \in printed : v < u) /\ held' = {u}
    /\ UNCHANGED <<made, open, lines, printed, confirmed>>

ComeOut ==
    /\ held # {}
    /\ printed' = printed \cup held
    /\ held' = {}
    /\ UNCHANGED <<made, open, lines, confirmed>>

\* The message was for the radio, so it does not come out.
Obey ==
    /\ held # {}
    /\ held \cap lines = {}
    /\ held' = {}
    /\ UNCHANGED <<made, open, lines, printed, confirmed>>

Succeed ==
    /\ open
    /\ made \in lines => made \in printed \cup held
    /\ confirmed' = confirmed \cup {made}
    /\ open' = FALSE
    /\ UNCHANGED <<made, lines, held, printed>>

Fail ==
    /\ open
    /\ open' = FALSE
    /\ UNCHANGED <<made, lines, held, printed, confirmed>>

Next == Call \/ Arrive \/ ComeOut \/ Obey \/ Succeed \/ Fail

Spec == Init /\ [][Next]_serviceVars

=============================================================================
