----------------------------- MODULE MCVehicle ------------------------------
(* The vehicle's terminal on a small instance: a buffer of four octets, an *)
(* index that can take five values, lines that fit, that do not, that are  *)
(* edited, that are not ended.                                             *)
EXTENDS Vehicle

CONSTANTS a, b, ls

mcText == {a, b}
mcWord == {ls, Dots, Dash, ESC}

\* The second word reaches the script in time, or late.
mcMessages == {<<ls, ESC>>}

\* Lines edited, empty and short, one after the other; lines that leave the
\* buffer, and then one of two octets, the longest there is room for; an
\* octet 0, and a last line that is not ended.
Several == <<<<a, b, BS, NL>>, <<NL>>, <<b, NL>>>>
Strays  == <<<<BS, a, NL>>, <<b, b, NL>>>>
Long    == <<<<a, a, b, NL>>, <<b, a, NL>>>>
Open    == <<<<a, NUL, NL>>, <<b>>>>

mcOutputs == {<<>>, Several, Long, Strays, Open}
\* Three lines, each of which fits.
ShortLines == {<<<<a, NL>>, <<b, b, NL>>, <<a, NL>>>>}
mcError   == <<b, NL>>
=============================================================================
