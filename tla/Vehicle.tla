------------------------------ MODULE Vehicle -------------------------------
(***************************************************************************)
(* The vehicle's side of the terminal: pyTerminal.py on the BeagleBone and *)
(* the serial half of the sketch, joined by the UART.                      *)
(*                                                                         *)
(* The script runs what the sketch prints and writes the output back line  *)
(* by line; the sketch transmits each line, which may take longer than the *)
(* five seconds the script allows, and prints `...'.  In this direction    *)
(* the UART carries octets (SerialLine); in the other one whole words and  *)
(* ends of line, of which the script reads whatever has arrived.           *)
(***************************************************************************)
EXTENDS SerialLine

CONSTANTS
    Word,        \* words of messages
    Dots, Dash,  \* `...' and `-'
    ESC,         \* `esc'
    EOL,         \* the end of a line, two octets
    Messages,    \* messages for the vehicle: sequences of words
    Outputs,     \* outputs of a command: sequences of lines
    ErrorLine,   \* `Couldn't execute'
    MaxConveyed, \* bound: messages the sketch prints
    MaxCrashes   \* bound: times the script is killed

ASSUME Words  == {Dots, Dash, ESC} \subseteq Word /\ EOL \notin Word
ASSUME Texts  == /\ \A m \in Messages : m \in Seq(Word)
                 /\ \A o \in Outputs : o \in Seq(Seq(Octet) \ {<<>>})
                 /\ ErrorLine \in Seq(Octet)
ASSUME Counts == MaxConveyed \in Nat /\ MaxCrashes \in Nat

VARIABLES
    at,     \* where the sketch is
    wire,   \* octets the script has written and the UART has to carry
    print,  \* words and ends of line the sketch has printed, likewise
    inp,    \* those that have arrived at the script
    pc,     \* where the script is
    file,   \* {output file}: the number of its command, and its lines
    todo,   \* lines of it still to send
    esc,    \* escFlag
    \* history
    runs,      \* commands run
    latest,    \* the latest one of this life of the script, 0 for none
    conveyed,  \* messages printed
    crashes    \* times the script was killed

scriptVars == <<pc, file, todo, esc, runs, latest, crashes>>
vars == <<lineVars, at, wire, print, inp, scriptVars, conveyed>>

VehicleTypeOK ==
    /\ LineTypeOK
    /\ at    \in {"loop", "receiveLine", "transmit", "battCheck"}
    /\ wire  \in Seq(Octet)
    /\ print \in Seq(Word \cup {EOL})
    /\ inp   \in Seq(Word \cup {EOL})
    /\ pc    \in {"start", "loop", "call", "lines", "getAck", "wait"}
    /\ file  \in SUBSET [run : Nat, lines : {<<>>} \cup Outputs]
    /\ todo  \in Seq(Seq(Octet))
    /\ esc   \in BOOLEAN
    /\ runs \in Nat /\ latest \in Nat /\ conveyed \in Nat /\ crashes \in Nat

Init ==
    /\ LineInit
    /\ at = "loop"
    /\ wire = <<>> /\ print = <<>> /\ inp = <<>>
    /\ pc = "start"
    /\ file = {}
    /\ todo = <<>>
    /\ esc = FALSE
    /\ runs = 0 /\ latest = 0 /\ conveyed = 0 /\ crashes = 0

-----------------------------------------------------------------------------
(* The UART                                                                *)

Arrive ==
    /\ wire # <<>>
    /\ uart' = Append(uart, Head(wire))
    /\ wire' = Tail(wire)
    /\ UNCHANGED <<msgBuffer, ndx, newData, history>>
    /\ UNCHANGED <<at, print, inp, scriptVars, conveyed>>

PrintArrives ==
    /\ print # <<>>
    /\ inp' = Append(inp, Head(print))
    /\ print' = Tail(print)
    /\ UNCHANGED <<lineVars, at, wire, scriptVars, conveyed>>

-----------------------------------------------------------------------------
(* The sketch of the vehicle                                               *)

Receive ==
    /\ at \in {"loop", "receiveLine"}
    /\ ReadOctet
    /\ at' = "receiveLine"
    /\ UNCHANGED <<wire, print, inp, scriptVars, conveyed>>

\* transmitLine() without a line, ...
NoLine ==
    /\ at = "receiveLine"
    /\ uart = <<>>
    /\ ~newData
    /\ at' = "loop"
    /\ UNCHANGED <<lineVars, wire, print, inp, scriptVars, conveyed>>

\* ... and with one.
Transmit ==
    /\ at = "receiveLine"
    /\ uart = <<>>
    /\ TakeLine
    /\ at' = "transmit"
    /\ UNCHANGED <<wire, print, inp, scriptVars, conveyed>>

\* transmit() returns, whether or not there was an acknowledgement.
Transmitted ==
    /\ at = "transmit"
    /\ print' = print \o <<Dots, EOL>>
    /\ at' = "loop"
    /\ UNCHANGED <<lineVars, wire, inp, scriptVars, conveyed>>

\* A help message keeps the sketch as long as a line does.
BattCheck ==
    /\ at = "loop"
    /\ uart = <<>>
    /\ at' = "battCheck"
    /\ UNCHANGED <<lineVars, wire, print, inp, scriptVars, conveyed>>

BattChecked ==
    /\ at = "battCheck"
    /\ at' = "loop"
    /\ UNCHANGED <<lineVars, wire, print, inp, scriptVars, conveyed>>

\* A message from the shore.
Convey ==
    /\ at = "loop"
    /\ uart = <<>>
    /\ conveyed < MaxConveyed
    /\ conveyed' = conveyed + 1
    /\ \E m \in Messages : print' = (print \o m) \o <<EOL>>
    /\ UNCHANGED <<lineVars, at, wire, inp, scriptVars>>

-----------------------------------------------------------------------------
(* The script                                                              *)

scriptElse == <<lineVars, at, print, conveyed, crashes>>

IsWord(w)    == w # EOL
WordsOf(s)   == SelectSeq(s, IsWord)
Blank(s)     == WordsOf(s) = <<>>
FirstWord(s) == WordsOf(s)[1]

\* in_waiting < 3: nothing, an end of line, or perhaps one short word.
FewOctets(s)  == Blank(s) /\ Len(s) < 2
MayBeFew(s)   == Len(s) < 2 /\ \A i \in DOMAIN s : s[i] \notin {Dots, ESC}

StartUpKeepFile ==
    /\ pc = "start"
    /\ inp' = <<>> /\ wire' = <<>>
    /\ pc' = "loop"
    /\ UNCHANGED <<file, todo, esc, runs, latest, scriptElse>>

\* The start of main(): flush both directions, remove the output file.
StartUp ==
    /\ pc = "start"
    /\ inp' = <<>> /\ wire' = <<>>
    /\ file' = {}
    /\ pc' = "loop"
    /\ UNCHANGED <<todo, esc, runs, latest, scriptElse>>

\* The process ends and the service starts it again.
Exit ==
    /\ pc' = "start"
    /\ todo' = <<>>
    /\ esc' = FALSE
    /\ latest' = 0

\* split() of nothing but white space has no first word.
BlankChunk ==
    /\ inp # <<>>
    /\ Blank(inp)
    /\ \/ pc = "loop" /\ file = {}
       \/ pc = "getAck" /\ ~FewOctets(inp)
    /\ inp' = <<>>
    /\ Exit
    /\ UNCHANGED <<wire, file, runs, scriptElse>>

\* Whatever came with `-' or `...' in front of it is ignored.
Ignore ==
    /\ pc = "loop" /\ file = {}
    /\ ~Blank(inp)
    /\ FirstWord(inp) \in {Dash, Dots}
    /\ inp' = <<>>
    /\ UNCHANGED <<wire, pc, file, todo, esc, runs, latest, scriptElse>>

\* Anything else is a command; its output file is empty to begin with.
RunCommand ==
    /\ pc = "loop" /\ file = {}
    /\ ~Blank(inp)
    /\ FirstWord(inp) \notin {Dash, Dots}
    /\ inp' = <<>>
    /\ runs' = runs + 1
    /\ latest' = runs + 1
    /\ file' = {[run |-> runs + 1, lines |-> <<>>]}
    /\ pc' = "call"
    /\ UNCHANGED <<wire, todo, esc, scriptElse>>

CommandEnds ==
    /\ pc = "call"
    /\ \E o \in Outputs : file' = {[f EXCEPT !.lines = o] : f \in file}
    /\ pc' = "loop"
    /\ UNCHANGED <<wire, inp, todo, esc, runs, latest, scriptElse>>

CommandFails ==
    /\ pc = "call"
    /\ wire' = wire \o ErrorLine
    /\ pc' = "loop"
    /\ UNCHANGED <<inp, file, todo, esc, runs, latest, scriptElse>>

\* The output file exists: read its lines.
ReadFile ==
    /\ pc = "loop"
    /\ \E f \in file : todo' = f.lines
    /\ pc' = "lines"
    /\ UNCHANGED <<wire, inp, file, esc, runs, latest, scriptElse>>

\* An empty line is skipped.
SkipLine ==
    /\ pc = "lines"
    /\ todo # <<>>
    /\ ~esc
    /\ Head(todo) = <<NL>>
    /\ todo' = Tail(todo)
    /\ UNCHANGED <<wire, pc, inp, file, esc, runs, latest, scriptElse>>

\* A line, and at once a look at what has come back.
WriteLine ==
    /\ pc = "lines"
    /\ todo # <<>>
    /\ ~esc
    /\ Head(todo) # <<NL>>
    /\ wire' = wire \o Head(todo)
    /\ todo' = Tail(todo)
    /\ pc' = "getAck"
    /\ UNCHANGED <<inp, file, esc, runs, latest, scriptElse>>

\* After `esc' one more line, and no more.
LastLine ==
    /\ pc = "lines"
    /\ todo # <<>>
    /\ esc
    /\ wire' = wire \o Head(todo)
    /\ todo' = <<>>
    /\ UNCHANGED <<pc, inp, file, esc, runs, latest, scriptElse>>

NoMoreLines ==
    /\ pc = "lines"
    /\ todo = <<>>
    /\ file' = {}
    /\ esc' = FALSE
    /\ pc' = "loop"
    /\ UNCHANGED <<wire, inp, todo, runs, latest, scriptElse>>

NoAck ==
    /\ pc = "getAck"
    /\ MayBeFew(inp)
    /\ pc' = "wait"
    /\ UNCHANGED <<wire, inp, file, todo, esc, runs, latest, scriptElse>>

\* getAck(): the first word that has come back; the others are lost.
Ack ==
    /\ pc = "getAck"
    /\ ~Blank(inp)
    /\ inp' = <<>>
    /\ esc' = (esc \/ FirstWord(inp) = ESC)
    /\ pc' = IF FirstWord(inp) = Dots THEN "lines" ELSE "wait"
    /\ UNCHANGED <<wire, file, todo, runs, latest, scriptElse>>

FiveSecondsOrAck ==
    /\ pc = "wait"
    /\ ~Blank(inp)
    /\ pc' = "lines"
    /\ UNCHANGED <<wire, inp, file, todo, esc, runs, latest, scriptElse>>

\* The while loop takes the function getAck for its value: it looks at
\* nothing and ends after five seconds.
FiveSeconds ==
    /\ pc = "wait"
    /\ pc' = "lines"
    /\ UNCHANGED <<wire, inp, file, todo, esc, runs, latest, scriptElse>>

\* The script is killed, or the BeagleBone goes down; the file stays.
Crash ==
    /\ pc # "start"
    /\ crashes < MaxCrashes
    /\ crashes' = crashes + 1
    /\ Exit
    /\ UNCHANGED <<lineVars, at, wire, print, inp, file, runs, conveyed>>

-----------------------------------------------------------------------------

Uart   == Arrive \/ PrintArrives
Sketch == Receive \/ NoLine \/ Transmit \/ Transmitted \/ BattCheck \/ BattChecked \/ Convey
Output == \/ ReadFile \/ SkipLine \/ WriteLine \/ LastLine \/ NoMoreLines
          \/ NoAck \/ Ack \/ FiveSeconds
Script == \/ StartUp \/ BlankChunk \/ Ignore \/ RunCommand
          \/ CommandEnds \/ CommandFails \/ Output

Next == Uart \/ Sketch \/ Script \/ Crash

Spec == Init /\ [][Next]_vars

\* The script's process is scheduled, and five seconds pass.
FairSpec == Spec /\ WF_vars(Output)

\* A sketch as fast as it is: an octet takes a millisecond on the UART, loop()
\* and receiveLine() take microseconds, so a sketch that can read does.
\* Octets still pile up while it is in a call that blocks.
Reading    == at = "receiveLine" \/ (at = "loop" /\ uart # <<>>)
PromptNext == IF Reading THEN Sketch ELSE Next

PromptSpec == Init /\ [][PromptNext]_vars

-----------------------------------------------------------------------------
(* Properties                                                              *)

\* What is being sent is the output of the command that this life of the
\* script ran last: neither a crash in the middle of a command or of its
\* output, nor one that printed nothing, leaves a file that is sent later.
OutputIsCurrent ==
    pc \in {"lines", "getAck", "wait"} => \E f \in file : f.run = latest

\* The output of a command comes to an end whatever is or is not answered,
\* and the script goes back to reading commands.
OutputEnds == pc = "lines" ~> pc \in {"loop", "start"}

\* ino:14 `It transmits any serial input': what the sketch is about to
\* transmit is a line as it was written to it, the latest that was ended.
TransmitsSerialInput ==
    at = "receiveLine" /\ uart = <<>> /\ newData /\ lastPlain => Holds(lastLine)
=============================================================================
