----------------------------- MODULE SerialLine -----------------------------
(***************************************************************************)
(* receiveLine() of the sketch, octet by octet: what comes in on the UART  *)
(* is edited into msgBuffer until an end marker makes it new data, which   *)
(* transmitLine() takes as a C string.                                     *)
(*                                                                         *)
(* The index is one octet.  It can leave the buffer: a backspace at the    *)
(* start of a line takes it to the last value of an octet, and a line that *)
(* fills the buffer has its end marker written one past the end.  Memory   *)
(* behind the buffer is modelled as octets that nothing else uses.         *)
(***************************************************************************)
EXTENDS Naturals, Sequences

CONSTANTS
    Text,      \* octets that a terminal shows: none of the three below
    NL, BS,    \* endMarker, backSpace
    NUL,       \* the octet 0
    numChars,  \* size of msgBuffer, 255
    OctetMod   \* number of values of an octet, 256

ASSUME Octets   == NL # BS /\ NUL \notin {NL, BS} /\ Text \cap {NL, BS, NUL} = {}
ASSUME Sizes    == numChars \in Nat /\ OctetMod \in Nat /\ 1 < numChars /\ numChars < OctetMod

VARIABLES
    uart,       \* octets that have arrived and are not read
    msgBuffer,  \* the buffer and what lies behind it
    ndx,
    newData,
    \* history
    shown,      \* the line being typed, as a terminal shows it
    lastLine,   \* the last one that was ended
    fresh,      \* nothing was read since
    plain,      \* the line being typed is plain so far
    lastPlain,  \* the last one was
    strayed     \* a write for a plain line went past the buffer

history  == <<shown, lastLine, fresh, plain, lastPlain, strayed>>
lineVars == <<uart, msgBuffer, ndx, newData, history>>

Octet == Text \cup {NL, BS, NUL}
Index == 0 .. (OctetMod - 1)

LineTypeOK ==
    /\ uart \in Seq(Octet)
    /\ msgBuffer \in [Index -> Text \cup {NL, NUL}]
    /\ ndx \in Index
    /\ newData \in BOOLEAN
    /\ shown \in Seq(Text)
    /\ lastLine \in Seq(Text)
    /\ fresh \in BOOLEAN
    /\ plain \in BOOLEAN
    /\ lastPlain \in BOOLEAN
    /\ strayed \in BOOLEAN

LineInit ==
    /\ uart = <<>>
    /\ msgBuffer = [i \in Index |-> NUL]
    /\ ndx = 0
    /\ newData = FALSE
    /\ shown = <<>>
    /\ lastLine = <<>>
    /\ fresh = FALSE
    /\ plain = TRUE
    /\ lastPlain = TRUE
    /\ strayed = FALSE

-----------------------------------------------------------------------------
(* One turn of the loop, for each of its three branches.                   *)

\* What the terminal makes of octet c.
Shows(c) ==
    CASE c = NL -> <<>>
      [] c = BS -> IF shown = <<>> THEN <<>> ELSE SubSeq(shown, 1, Len(shown) - 1)
      [] c = NUL -> shown
      [] OTHER  -> Append(shown, c)

\* A plain line has no octet 0, takes back nothing that was not typed, and
\* leaves room in the buffer for its two octets of end.
StaysPlain(c) ==
    /\ plain
    /\ c # NUL
    /\ c = BS => shown # <<>>
    /\ Len(Shows(c)) < numChars - 1

\* Octet c comes, and the octets at these indices are written.
Notes(c, indices) ==
    /\ shown' = Shows(c)
    /\ lastLine' = IF c = NL THEN shown ELSE lastLine
    /\ fresh' = (c = NL)
    /\ plain' = (c = NL \/ StaysPlain(c))
    /\ lastPlain' = IF c = NL THEN plain ELSE lastPlain
    /\ strayed' = (strayed \/ (StaysPlain(c) /\ \E i \in indices : i >= numChars))

StoreUnchecked(c) ==
    /\ c \notin {NL, BS}
    /\ msgBuffer' = [msgBuffer EXCEPT ![ndx] = c]
    /\ ndx' = ndx + 1
    /\ Notes(c, {ndx})
    /\ UNCHANGED newData

Store(c) ==
    /\ c \notin {NL, BS}
    /\ ndx < numChars - 1
    /\ msgBuffer' = [msgBuffer EXCEPT ![ndx] = c]
    /\ ndx' = ndx + 1
    /\ Notes(c, {ndx})
    /\ UNCHANGED newData

\* ndx-- and ndx++, never less than zero, never more than an octet.
Previous  == IF ndx = 0 THEN OctetMod - 1 ELSE ndx - 1
Following == IF ndx = OctetMod - 1 THEN 0 ELSE ndx + 1

EraseKeepIndex(c) ==
    /\ c = BS
    /\ ndx' = ndx
    /\ msgBuffer' = [msgBuffer EXCEPT ![Previous] = NUL]
    /\ Notes(c, {Previous})
    /\ UNCHANGED newData

Erase(c) ==
    /\ c = BS
    /\ ndx' = Previous
    /\ msgBuffer' = [msgBuffer EXCEPT ![Previous] = NUL]
    /\ Notes(c, {Previous})
    /\ UNCHANGED newData

\* The end marker, or an octet that no longer fits.
Ends(c) == c = NL \/ (c # BS /\ ndx >= numChars - 1)

EndLineKeepIndex(c) ==
    /\ Ends(c)
    /\ msgBuffer' = [msgBuffer EXCEPT ![ndx] = NUL, ![Following] = NL]
    /\ ndx' = ndx
    /\ newData' = TRUE
    /\ Notes(c, {ndx, Following})

\* Either ends the line; an octet that does not fit is lost.
EndLine(c) ==
    /\ Ends(c)
    /\ msgBuffer' = [msgBuffer EXCEPT ![ndx] = NUL, ![Following] = NL]
    /\ ndx' = 0
    /\ newData' = TRUE
    /\ Notes(c, {ndx, Following})

ReadOctet ==
    /\ uart # <<>>
    /\ LET c == Head(uart) IN Store(c) \/ Erase(c) \/ EndLine(c)
    /\ uart' = Tail(uart)

\* transmitLine() takes the line.
TakeLine ==
    /\ newData
    /\ newData' = FALSE
    /\ UNCHANGED <<uart, msgBuffer, ndx, history>>

\* The string at msgBuffer is s.
Holds(s) ==
    /\ Len(s) < OctetMod
    /\ \A i \in 1 .. Len(s) : msgBuffer[i - 1] = s[i]
    /\ msgBuffer[Len(s)] = NUL

-----------------------------------------------------------------------------
(* Properties                                                              *)

\* A plain line is handed to transmitLine() as the terminal shows it, with
\* its backspaces, whatever came before it: neither what longer lines left in
\* the buffer nor an index that has left it in an earlier line shows.  Octets
\* of the next line that are read before transmitLine() are another matter.
HandedAsShown == newData /\ fresh /\ lastPlain => Holds(lastLine)

\* No write for a plain line goes past the end of msgBuffer, its two octets of
\* end included, wherever an earlier line has left the index.
InBuffer == ~strayed

(***************************************************************************)
(* The inductive invariant: the buffer up to ndx is the line being typed.  *)
(***************************************************************************)
LineInv ==
    /\ plain =>
        /\ ndx = Len(shown)
        /\ ndx < numChars - 1
        /\ \A i \in 1 .. Len(shown) : msgBuffer[i - 1] = shown[i]
    /\ fresh => plain /\ shown = <<>>
    /\ HandedAsShown
=============================================================================
