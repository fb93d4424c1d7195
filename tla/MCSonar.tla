------------------------------ MODULE MCSonar -------------------------------
(* The recorder on a small instance: one octet of header, two of a channel *)
(* and the one after it, settings inside and outside the limits, an int    *)
(* that does not fit an octet; the user answers all questions at once or   *)
(* one, and presses keys between and ahead of the questions.               *)
EXTENDS SonarRecord

Ask(r, f, g) == [range |-> r, freq |-> f, gain |-> g]

mcAsked == {Ask(50, 0, 20), Ask(35, 2, 40), Ask(200, 7, 41), Ask(266, -1, -1)}

\* `50', `0' and `20', each with its Enter; `10'; the keys.
Fifty   == <<53, 48, Enter, 48, Enter, 50, 48, Enter>>
Ten     == <<49, 48, Enter>>
mcTyped == {Fifty, Ten, <<PlusKey>>, <<TildeKey>>}
=============================================================================
