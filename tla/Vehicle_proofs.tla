--------------------------- MODULE Vehicle_proofs ---------------------------
(***************************************************************************)
(* Proofs about the vehicle's terminal, for any buffer and octet size, any *)
(* messages, outputs and number of crashes.                                *)
(***************************************************************************)
EXTENDS Vehicle, TLAPS

-----------------------------------------------------------------------------
(* The serial line                                                         *)

\* What the assumptions say of the sizes.
LEMMA Bounds ==
    /\ numChars \in Nat /\ OctetMod \in Nat
    /\ 1 < numChars /\ numChars < OctetMod
  BY Sizes

\* The octets are told apart.
LEMMA OctetKinds ==
    ASSUME NEW c \in Octet
    PROVE  /\ c \in Text => c # NL /\ c # BS /\ c # NUL
           /\ c \notin Text => c = NL \/ c = BS \/ c = NUL
           /\ NL # BS /\ NL # NUL /\ BS # NUL
  BY Octets DEF Octet

\* What the terminal shows is text.
LEMMA ShowType == ASSUME LineTypeOK, NEW c \in Octet PROVE Shows(c) \in Seq(Text)
  <1>1. CASE c = NL
    BY <1>1, OctetKinds DEF Shows
  <1>2. CASE c = BS
    <2>1. shown # <<>> => SubSeq(shown, 1, Len(shown) - 1) \in Seq(Text)
      BY DEF LineTypeOK
    <2> QED
      BY <1>2, <2>1, OctetKinds DEF Shows, LineTypeOK
  <1>3. CASE c = NUL
    BY <1>3, OctetKinds DEF Shows, LineTypeOK
  <1>4. CASE c \in Text
    BY <1>4, OctetKinds DEF Shows, LineTypeOK
  <1> QED
    BY <1>1, <1>2, <1>3, <1>4, OctetKinds

\* A turn of the loop keeps the types, the index an octet among them.
LEMMA ReadType == ASSUME LineTypeOK, ReadOctet PROVE LineTypeOK'
  <1> DEFINE c == Head(uart)
  <1>1. c \in Octet /\ uart' \in Seq(Octet)
    BY DEF LineTypeOK, ReadOctet
  <1>2. Store(c) \/ Erase(c) \/ EndLine(c)
    BY DEF ReadOctet
  <1>3. PICK indices : Notes(c, indices)
    BY <1>2 DEF Store, Erase, EndLine
  <1>4. /\ shown' \in Seq(Text) /\ lastLine' \in Seq(Text) /\ fresh' \in BOOLEAN
        /\ plain' \in BOOLEAN /\ lastPlain' \in BOOLEAN /\ strayed' \in BOOLEAN
        /\ newData' \in BOOLEAN
    <2>1. shown' \in Seq(Text) /\ lastLine' \in Seq(Text)
      BY <1>1, <1>3, ShowType DEF Notes, LineTypeOK
    <2>2. fresh' \in BOOLEAN /\ plain' \in BOOLEAN /\ lastPlain' \in BOOLEAN /\ strayed' \in BOOLEAN
      BY <1>3 DEF Notes, LineTypeOK
    <2>3. newData' \in BOOLEAN
      BY <1>2 DEF Store, Erase, EndLine, LineTypeOK
    <2> QED
      BY <2>1, <2>2, <2>3
  <1>5. Previous \in Index /\ Following \in Index
    BY Bounds DEF Previous, Following, Index, LineTypeOK
  <1>6. ndx' \in Index
    BY <1>2, <1>5, Bounds DEF Store, Erase, EndLine, Index, LineTypeOK
  <1>7. msgBuffer' \in [Index -> Text \cup {NL, NUL}]
    <2>1. CASE Store(c)
      BY <1>1, <2>1 DEF Store, Octet, LineTypeOK
    <2>2. CASE Erase(c)
      BY <2>2 DEF Erase, LineTypeOK
    <2>3. CASE EndLine(c)
      BY <2>3 DEF EndLine, LineTypeOK
    <2> QED
      BY <1>2, <2>1, <2>2, <2>3
  <1> QED
    BY <1>1, <1>4, <1>6, <1>7 DEF LineTypeOK

\* What a turn of the loop does to the history, the indices it writes aside.
LEMMA NotesOf ==
    ASSUME ReadOctet
    PROVE  /\ shown' = Shows(Head(uart))
           /\ lastLine' = IF Head(uart) = NL THEN shown ELSE lastLine
           /\ fresh' = (Head(uart) = NL)
           /\ plain' = (Head(uart) = NL \/ StaysPlain(Head(uart)))
           /\ lastPlain' = IF Head(uart) = NL THEN plain ELSE lastPlain
  <1>1. Store(Head(uart)) \/ Erase(Head(uart)) \/ EndLine(Head(uart))
    BY DEF ReadOctet
  <1>2. PICK indices : Notes(Head(uart), indices)
    BY <1>1 DEF Store, Erase, EndLine
  <1> QED
    BY <1>2 DEF Notes

\* An octet that leaves the line plain is stored after what is shown, ...
LEMMA PlainText ==
    ASSUME LineTypeOK, LineInv, ReadOctet, Head(uart) \in Text, StaysPlain(Head(uart))
    PROVE  /\ Store(Head(uart)) /\ ndx < numChars - 2
           /\ ndx' = Len(shown') /\ shown' = Append(shown, Head(uart))
           /\ \A i \in 1 .. Len(shown') : msgBuffer'[i - 1] = shown'[i]
  <1> DEFINE c == Head(uart)
  <1>1. c \in Octet /\ c # NL /\ c # BS /\ c # NUL
    <2>1. c \in Octet
      BY DEF Octet
    <2> QED
      BY <2>1, OctetKinds
  <1>2. /\ ndx = Len(shown) /\ ndx \in Nat /\ ndx \in Index /\ shown \in Seq(Text)
        /\ msgBuffer \in [Index -> Text \cup {NL, NUL}]
        /\ \A i \in 1 .. Len(shown) : msgBuffer[i - 1] = shown[i]
    BY Bounds DEF StaysPlain, LineInv, LineTypeOK, Index
  <1>3. shown' = Append(shown, c) /\ Len(shown') = Len(shown) + 1
    BY <1>1, <1>2, NotesOf DEF Shows
  <1>4. ndx < numChars - 2
    <2>1. Len(Shows(c)) < numChars - 1 /\ Shows(c) = Append(shown, c)
      BY <1>1 DEF StaysPlain, Shows
    <2> QED
      BY <1>2, <2>1, Bounds
  <1>5. Store(c)
    <2>1. ~Erase(c) /\ ~EndLine(c)
      BY <1>1, <1>2, <1>4, Bounds DEF Erase, EndLine, Ends
    <2> QED
      BY <2>1 DEF ReadOctet
  <1>6. msgBuffer' = [msgBuffer EXCEPT ![ndx] = c] /\ ndx' = ndx + 1
    BY <1>5 DEF Store
  <1>7. ASSUME NEW i \in 1 .. Len(shown') PROVE msgBuffer'[i - 1] = shown'[i]
    <2>1. CASE i = Len(shown) + 1
      BY <1>2, <1>3, <1>6, <2>1
    <2>2. CASE i \in 1 .. Len(shown)
      <3>1. i - 1 \in Index /\ i - 1 # ndx
        BY <1>2, <2>2, Bounds DEF Index
      <3> QED
        BY <1>2, <1>3, <1>6, <2>2, <3>1
    <2> QED
      BY <1>2, <1>3, <2>1, <2>2
  <1> QED
    BY <1>2, <1>3, <1>4, <1>5, <1>6, <1>7

\* ... a backspace that leaves it plain takes the last octet of it back, ...
LEMMA PlainBackspace ==
    ASSUME LineTypeOK, LineInv, ReadOctet, Head(uart) = BS, StaysPlain(Head(uart))
    PROVE  /\ Erase(Head(uart)) /\ Previous = ndx - 1 /\ ndx \in 1 .. numChars - 2
           /\ ndx' = Len(shown') /\ ndx' < ndx
           /\ \A i \in 1 .. Len(shown') : msgBuffer'[i - 1] = shown'[i]
  <1> DEFINE c == Head(uart)
  <1>1. c \in Octet /\ c # NL /\ c # NUL
    <2>1. c \in Octet
      BY DEF Octet
    <2> QED
      BY <2>1, OctetKinds
  <1>2. /\ ndx = Len(shown) /\ ndx \in Nat /\ ndx \in Index /\ shown \in Seq(Text)
        /\ shown # <<>> /\ ndx < numChars - 1
        /\ msgBuffer \in [Index -> Text \cup {NL, NUL}]
        /\ \A i \in 1 .. Len(shown) : msgBuffer[i - 1] = shown[i]
    BY Bounds DEF StaysPlain, LineInv, LineTypeOK, Index
  <1>3. ndx # 0 /\ Previous = ndx - 1
    BY <1>2 DEF Previous
  <1>4. Erase(c) /\ ndx' = ndx - 1 /\ msgBuffer' = [msgBuffer EXCEPT ![ndx - 1] = NUL]
    BY <1>1, <1>3 DEF ReadOctet, Store, EndLine, Ends, Erase
  <1>5. shown' = SubSeq(shown, 1, Len(shown) - 1)
    BY <1>1, <1>2, NotesOf DEF Shows
  <1>6. /\ Len(shown') = Len(shown) - 1
        /\ \A i \in 1 .. Len(shown') : shown'[i] = shown[i]
    BY <1>2, <1>3, <1>5
  <1>7. ASSUME NEW i \in 1 .. Len(shown') PROVE msgBuffer'[i - 1] = shown'[i]
    <2>1. i \in 1 .. Len(shown) /\ i - 1 \in Index /\ i - 1 # ndx - 1
      BY <1>2, <1>3, <1>6, Bounds DEF Index
    <2> QED
      BY <1>2, <1>4, <1>6, <2>1
  <1> QED
    BY <1>2, <1>3, <1>4, <1>6, <1>7, Bounds

\* ... and the end of a plain line makes a string of it, inside the buffer.
LEMMA PlainEnd ==
    ASSUME LineTypeOK, LineInv, ReadOctet, Head(uart) = NL, plain
    PROVE  /\ EndLine(Head(uart)) /\ Following = ndx + 1 /\ ndx \in 0 .. numChars - 2
           /\ ndx' = 0 /\ lastLine' = shown /\ Holds(lastLine)'
  <1>1. NL # BS
    BY Octets
  <1>2. EndLine(Head(uart)) /\ Notes(Head(uart), {ndx, Following})
    BY <1>1 DEF ReadOctet, Store, Erase, EndLine
  <1>3. /\ ndx = Len(shown) /\ ndx \in Nat /\ ndx \in Index /\ shown \in Seq(Text)
        /\ ndx < numChars - 1
        /\ msgBuffer \in [Index -> Text \cup {NL, NUL}]
        /\ \A i \in 1 .. Len(shown) : msgBuffer[i - 1] = shown[i]
    BY Bounds DEF LineInv, LineTypeOK, Index
  <1>4. Following = ndx + 1
    BY <1>3, Bounds DEF Following
  <1>5. ndx' = 0 /\ msgBuffer' = [msgBuffer EXCEPT ![ndx] = NUL, ![ndx + 1] = NL]
    BY <1>2, <1>4 DEF EndLine
  <1>6. lastLine' = shown
    BY NotesOf
  <1>7. ASSUME NEW i \in 1 .. Len(shown) PROVE msgBuffer'[i - 1] = shown[i]
    <2>1. i - 1 \in Index /\ i - 1 # ndx /\ i - 1 # ndx + 1
      BY <1>3, Bounds DEF Index
    <2> QED
      BY <1>3, <1>5, <2>1
  <1>8. Len(shown) < OctetMod /\ msgBuffer'[Len(shown)] = NUL
    BY <1>3, <1>5, Bounds DEF Index
  <1> QED
    <2>1. Holds(lastLine)'
      BY <1>6, <1>7, <1>8 DEF Holds
    <2>2. ndx \in 0 .. numChars - 2
      BY <1>3, Bounds
    <2> QED
      BY <1>2, <1>4, <1>5, <1>6, <2>1, <2>2

\* A turn of the loop keeps the buffer up to ndx equal to what is shown, and
\* comes back to it with the end of a line that was not plain.
LEMMA ReadKeepsLine == ASSUME LineTypeOK, LineInv, ReadOctet PROVE LineInv'
  <1> DEFINE c == Head(uart)
  <1>1. c \in Octet
    BY DEF LineTypeOK, ReadOctet
  <1>2. CASE c = NL
    <2>1. EndLine(c)
      BY <1>2, Octets DEF ReadOctet, Store, Erase
    <2>2. ndx' = 0 /\ shown' = <<>> /\ plain' = TRUE /\ lastPlain' = plain
      <3>1. Shows(c) = <<>>
        BY <1>2, OctetKinds, <1>1 DEF Shows
      <3> QED
        BY <1>2, <2>1, <3>1, NotesOf DEF EndLine
    <2>3. plain => Holds(lastLine)'
      BY <1>2, PlainEnd
    <2> QED
      BY <2>2, <2>3, Bounds DEF LineInv, HandedAsShown
  <1>3. CASE c # NL
    <2>1. fresh' = FALSE /\ plain' = StaysPlain(c)
      BY <1>3, NotesOf DEF StaysPlain, LineTypeOK
    <2>2. StaysPlain(c) => c \in Text \/ c = BS
      BY <1>1, <1>3, OctetKinds DEF StaysPlain
    <2>3. StaysPlain(c) => /\ ndx' = Len(shown')
                           /\ ndx' < numChars - 1
                           /\ \A i \in 1 .. Len(shown') : msgBuffer'[i - 1] = shown'[i]
      <3>1. ASSUME StaysPlain(c), c \in Text
            PROVE  /\ ndx' = Len(shown')
                   /\ ndx' < numChars - 1
                   /\ \A i \in 1 .. Len(shown') : msgBuffer'[i - 1] = shown'[i]
        <4>1. ndx' = ndx + 1 /\ ndx \in Nat /\ ndx < numChars - 2
          BY <3>1, PlainText, Bounds DEF Store, LineTypeOK, Index
        <4> QED
          BY <3>1, <4>1, PlainText, Bounds
      <3>2. ASSUME StaysPlain(c), c = BS
            PROVE  /\ ndx' = Len(shown')
                   /\ ndx' < numChars - 1
                   /\ \A i \in 1 .. Len(shown') : msgBuffer'[i - 1] = shown'[i]
        <4>1. ndx' = ndx - 1 /\ ndx \in 1 .. numChars - 2
          BY <3>2, PlainBackspace DEF Erase
        <4> QED
          BY <3>2, <4>1, PlainBackspace, Bounds
      <3> QED
        BY <2>2, <3>1, <3>2
    <2> QED
      BY <2>1, <2>3 DEF LineInv, HandedAsShown
  <1> QED
    BY <1>2, <1>3

\* While a line is plain a turn of the loop writes inside the buffer.
LEMMA ReadStaysInBuffer ==
    ASSUME LineTypeOK, LineInv, InBuffer, ReadOctet
    PROVE  InBuffer'
  <1> DEFINE c == Head(uart)
  <1>1. c \in Octet /\ ndx \in Nat
    BY Bounds DEF LineTypeOK, ReadOctet, Index
  <1> SUFFICES ASSUME NEW indices, Notes(c, indices), StaysPlain(c),
                      \/ Store(c) /\ indices = {ndx}
                      \/ Erase(c) /\ indices = {Previous}
                      \/ EndLine(c) /\ indices = {ndx, Following}
               PROVE  \A i \in indices : i < numChars
    <2>1. \A i \in {ndx, Previous, Following} : i < numChars => ~(i >= numChars)
      BY <1>1, Bounds DEF Previous, Following
    <2> QED
      BY <2>1 DEF ReadOctet, Store, Erase, EndLine, Notes, InBuffer
  <1>2. c \in Text \/ c = BS \/ c = NL
    BY <1>1, OctetKinds DEF StaysPlain
  <1>3. CASE c \in Text
    <2>1. Store(c) /\ ndx < numChars - 2 /\ ~Erase(c) /\ ~EndLine(c)
      BY <1>1, <1>3, PlainText, OctetKinds, Bounds DEF Erase, EndLine, Ends
    <2> QED
      BY <1>1, <2>1, Bounds
  <1>4. CASE c = BS
    <2>1. Previous = ndx - 1 /\ ndx \in 1 .. numChars - 2 /\ ~Store(c) /\ ~EndLine(c)
      BY <1>4, PlainBackspace, OctetKinds, <1>1 DEF Store, EndLine, Ends
    <2> QED
      BY <2>1, Bounds
  <1>5. CASE c = NL
    <2>1. plain
      BY DEF StaysPlain
    <2>2. Following = ndx + 1 /\ ndx \in 0 .. numChars - 2 /\ ~Store(c) /\ ~Erase(c)
      BY <1>1, <1>5, <2>1, PlainEnd, OctetKinds DEF Store, Erase
    <2> QED
      BY <2>2, Bounds
  <1> QED
    BY <1>2, <1>3, <1>4, <1>5

\* Taking the line, or leaving the buffer alone, changes nothing of this.
LEMMA LineKept ==
    ASSUME LineTypeOK, LineInv, newData' = newData \/ newData' = FALSE,
           UNCHANGED <<msgBuffer, ndx, history>>
    PROVE  LineInv' /\ strayed' = strayed
  BY DEF LineInv, HandedAsShown, Holds, history

-----------------------------------------------------------------------------
(* The script and the sketch                                               *)

\* Types of what goes over the UART and of the output file.
VehicleTypes ==
    /\ at    \in {"loop", "receiveLine", "transmit", "battCheck"}
    /\ wire  \in Seq(Octet)
    /\ print \in Seq(Word \cup {EOL})
    /\ inp   \in Seq(Word \cup {EOL})
    /\ pc    \in {"start", "loop", "call", "lines", "getAck", "wait"}
    /\ file  \in SUBSET [run : Nat, lines : {<<>>} \cup Outputs]
    /\ todo  \in Seq(Seq(Octet))
    /\ esc   \in BOOLEAN
    /\ runs \in Nat /\ latest \in Nat /\ conveyed \in Nat /\ crashes \in Nat

LEMMA TypesTogether == VehicleTypeOK <=> LineTypeOK /\ VehicleTypes
  BY DEF VehicleTypeOK, VehicleTypes

\* Outputs are sequences of lines, lines sequences of octets, messages of words.
LEMMA TextTypes ==
    /\ \A o \in Outputs : o \in Seq(Seq(Octet))
    /\ <<>> \in Seq(Seq(Octet)) /\ <<>> \in Seq(Octet) /\ <<>> \in Seq(Word \cup {EOL})
    /\ \A m \in Messages : m \in Seq(Word \cup {EOL})
    /\ <<Dots, EOL>> \in Seq(Word \cup {EOL})
    /\ <<EOL>> \in Seq(Word \cup {EOL})
    /\ ErrorLine \in Seq(Octet)
  <1>1. \A o \in Outputs : o \in Seq(Seq(Octet))
    <2> SUFFICES ASSUME NEW o \in Outputs PROVE o \in Seq(Seq(Octet))
      OBVIOUS
    <2>1. o \in Seq(Seq(Octet) \ {<<>>})
      BY Texts
    <2> QED
      BY <2>1
  <1>2. \A m \in Messages : m \in Seq(Word \cup {EOL})
    <2> SUFFICES ASSUME NEW m \in Messages PROVE m \in Seq(Word \cup {EOL})
      OBVIOUS
    <2>1. m \in Seq(Word)
      BY Texts
    <2> QED
      BY <2>1
  <1> QED
    BY <1>1, <1>2, Texts, Words

\* The sketch does not touch the script, nor the script the sketch.
LEMMA SketchType ==
    ASSUME LineTypeOK, VehicleTypes, Sketch
    PROVE  LineTypeOK' /\ VehicleTypes'
  <1>1. LineTypeOK'
    <2>1. CASE Receive
      BY <2>1, ReadType DEF Receive
    <2>2. CASE Transmit
      BY <2>2 DEF Transmit, TakeLine, history, LineTypeOK
    <2>3. CASE NoLine \/ Transmitted \/ BattCheck \/ BattChecked \/ Convey
      BY <2>3 DEF NoLine, Transmitted, BattCheck, BattChecked, Convey, lineVars, history, LineTypeOK
    <2> QED
      BY <2>1, <2>2, <2>3 DEF Sketch
  <1>2. print' \in Seq(Word \cup {EOL})
    <2>1. CASE Transmitted
      BY <2>1, TextTypes DEF Transmitted, VehicleTypes
    <2>2. CASE Convey
      <3>1. PICK m \in Messages : print' = (print \o m) \o <<EOL>>
        BY <2>2 DEF Convey
      <3>2. print \o m \in Seq(Word \cup {EOL})
        BY TextTypes DEF VehicleTypes
      <3> QED
        BY <3>1, <3>2, TextTypes
    <2>3. CASE Receive \/ NoLine \/ Transmit \/ BattCheck \/ BattChecked
      BY <2>3 DEF Receive, NoLine, Transmit, BattCheck, BattChecked, VehicleTypes
    <2> QED
      BY <2>1, <2>2, <2>3 DEF Sketch
  <1>3. /\ at' \in {"loop", "receiveLine", "transmit", "battCheck"}
        /\ conveyed' \in Nat
        /\ UNCHANGED <<wire, inp, scriptVars>>
    BY DEF Sketch, Receive, NoLine, Transmit, Transmitted, BattCheck, BattChecked,
           Convey, VehicleTypes
  <1> QED
    BY <1>1, <1>2, <1>3 DEF VehicleTypes, scriptVars

LEMMA UartType ==
    ASSUME LineTypeOK, VehicleTypes, Uart
    PROVE  LineTypeOK' /\ VehicleTypes'
  <1>1. CASE Arrive
    <2>1. uart' \in Seq(Octet) /\ wire' \in Seq(Octet)
      BY <1>1 DEF Arrive, LineTypeOK, VehicleTypes
    <2> QED
      BY <1>1, <2>1 DEF Arrive, history, LineTypeOK, VehicleTypes, scriptVars
  <1>2. CASE PrintArrives
    <2>1. print' \in Seq(Word \cup {EOL}) /\ inp' \in Seq(Word \cup {EOL})
      BY <1>2 DEF PrintArrives, VehicleTypes
    <2> QED
      BY <1>2, <2>1 DEF PrintArrives, LineTypeOK, VehicleTypes, scriptVars, lineVars, history
  <1> QED
    BY <1>1, <1>2 DEF Uart

LEMMA ScriptType ==
    ASSUME LineTypeOK, VehicleTypes, Script \/ Crash
    PROVE  LineTypeOK' /\ VehicleTypes'
  <1> USE DEF VehicleTypes
  <1>1. UNCHANGED <<lineVars, at, print, conveyed>>
    BY DEF Script, Output, Crash, StartUp, BlankChunk, Ignore, RunCommand, CommandEnds,
           CommandFails, ReadFile, SkipLine, WriteLine, LastLine, NoMoreLines, NoAck, Ack,
           FiveSeconds, scriptElse
  <1>2. LineTypeOK'
    BY <1>1 DEF lineVars, history, LineTypeOK
  <1>3. wire' \in Seq(Octet)
    <2>1. CASE WriteLine \/ LastLine
      <3>1. Head(todo) \in Seq(Octet) /\ wire' = wire \o Head(todo)
        BY <2>1 DEF WriteLine, LastLine
      <3> QED
        BY <3>1
    <2>2. CASE CommandFails
      BY <2>2, TextTypes DEF CommandFails
    <2>3. CASE ~(WriteLine \/ LastLine \/ CommandFails)
      BY <2>3, TextTypes DEF Script, Output, Crash, StartUp, BlankChunk, Ignore, RunCommand,
           CommandEnds, ReadFile, SkipLine, NoMoreLines, NoAck, Ack, FiveSeconds
    <2> QED
      BY <2>1, <2>2, <2>3
  <1>4. inp' \in Seq(Word \cup {EOL})
    BY TextTypes DEF Script, Output, Crash, StartUp, BlankChunk, Ignore, RunCommand, CommandEnds,
           CommandFails, ReadFile, SkipLine, WriteLine, LastLine, NoMoreLines, NoAck, Ack,
           FiveSeconds
  <1>5. file' \in SUBSET [run : Nat, lines : {<<>>} \cup Outputs]
    <2>1. CASE CommandEnds
      <3>1. PICK o \in Outputs : file' = {[f EXCEPT !.lines = o] : f \in file}
        BY <2>1 DEF CommandEnds
      <3> QED
        BY <3>1
    <2>2. CASE ~CommandEnds
      BY <2>2 DEF Script, Output, Crash, StartUp, BlankChunk, Ignore, RunCommand,
           CommandFails, ReadFile, SkipLine, WriteLine, LastLine, NoMoreLines, NoAck, Ack,
           FiveSeconds
    <2> QED
      BY <2>1, <2>2
  <1>6. todo' \in Seq(Seq(Octet))
    <2>1. CASE ReadFile
      <3>1. PICK f \in file : todo' = f.lines
        BY <2>1 DEF ReadFile
      <3>2. f.lines \in {<<>>} \cup Outputs
        OBVIOUS
      <3> QED
        BY <3>1, <3>2, TextTypes
    <2>2. CASE SkipLine \/ WriteLine
      <3>1. todo # <<>> /\ todo' = Tail(todo)
        BY <2>2 DEF SkipLine, WriteLine
      <3> QED
        BY <3>1
    <2>3. CASE ~(ReadFile \/ SkipLine \/ WriteLine)
      BY <2>3, TextTypes DEF Script, Output, Crash, Exit, StartUp, BlankChunk, Ignore,
           RunCommand, CommandEnds, CommandFails, LastLine, NoMoreLines, NoAck, Ack,
           FiveSeconds
    <2> QED
      BY <2>1, <2>2, <2>3
  <1>7. pc' \in {"start", "loop", "call", "lines", "getAck", "wait"} /\ esc' \in BOOLEAN
    BY DEF Script, Output, Crash, Exit, StartUp, BlankChunk, Ignore, RunCommand,
           CommandEnds, CommandFails, ReadFile, SkipLine, WriteLine, LastLine, NoMoreLines,
           NoAck, Ack, FiveSeconds
  <1>8. runs' \in Nat /\ latest' \in Nat /\ crashes' \in Nat
    BY DEF Script, Output, Crash, Exit, StartUp, BlankChunk, Ignore, RunCommand,
           CommandEnds, CommandFails, ReadFile, SkipLine, WriteLine, LastLine, NoMoreLines,
           NoAck, Ack, FiveSeconds, scriptElse
  <1> QED
    BY <1>1, <1>2, <1>3, <1>4, <1>5, <1>6, <1>7, <1>8

LEMMA VehicleTypeStep == VehicleTypeOK /\ [Next]_vars => VehicleTypeOK'
  <1> SUFFICES ASSUME LineTypeOK, VehicleTypes, [Next]_vars
               PROVE  LineTypeOK' /\ VehicleTypes'
    BY TypesTogether DEF VehicleTypeOK, VehicleTypes
  <1>1. CASE UNCHANGED vars
    BY <1>1 DEF vars, lineVars, history, scriptVars, LineTypeOK, VehicleTypes
  <1> QED
    BY <1>1, SketchType, UartType, ScriptType DEF Next

LEMMA VehicleTypeInit == Init => VehicleTypeOK
  <1>1. LineInit => LineTypeOK
    <2> SUFFICES ASSUME LineInit PROVE LineTypeOK
      OBVIOUS
    <2>1. ndx \in Index /\ msgBuffer \in [Index -> Text \cup {NL, NUL}]
      BY Bounds DEF LineInit, Index
    <2>2. uart \in Seq(Octet) /\ shown \in Seq(Text) /\ lastLine \in Seq(Text)
      BY DEF LineInit
    <2> QED
      BY <2>1, <2>2 DEF LineInit, LineTypeOK
  <1>2. Init => VehicleTypes
    <2> SUFFICES ASSUME Init PROVE VehicleTypes
      OBVIOUS
    <2>1. /\ wire \in Seq(Octet) /\ todo \in Seq(Seq(Octet))
          /\ print \in Seq(Word \cup {EOL}) /\ inp \in Seq(Word \cup {EOL})
      BY TextTypes DEF Init
    <2>2. file \in SUBSET [run : Nat, lines : {<<>>} \cup Outputs]
      BY DEF Init
    <2> QED
      BY <2>1, <2>2 DEF Init, VehicleTypes
  <1> QED
    BY <1>1, <1>2, TypesTogether DEF Init

\* The index of the serial buffer stays an octet, lines and messages stay
\* lines and messages, for every size, output and crash.
THEOREM VehicleTypeCorrect == Spec => []VehicleTypeOK
  BY VehicleTypeInit, VehicleTypeStep, PTL DEF Spec

-----------------------------------------------------------------------------
(* What transmitLine() gets                                                *)

LEMMA LineInvInit == Init => LineInv /\ InBuffer
  BY Bounds DEF Init, LineInit, LineInv, HandedAsShown, InBuffer

LEMMA LineInvStep ==
    VehicleTypeOK /\ LineInv /\ InBuffer /\ [Next]_vars => LineInv' /\ InBuffer'
  <1> SUFFICES ASSUME LineTypeOK, LineInv, InBuffer, [Next]_vars PROVE LineInv' /\ InBuffer'
    BY DEF VehicleTypeOK
  <1>1. CASE Receive
    BY <1>1, ReadKeepsLine, ReadStaysInBuffer DEF Receive
  <1>2. CASE ~Receive
    <2>1. /\ newData' = newData \/ newData' = FALSE
          /\ UNCHANGED <<msgBuffer, ndx, history>>
      BY <1>2 DEF Next, Uart, Sketch, Script, Output, Arrive, PrintArrives, NoLine, Transmit,
             TakeLine, Transmitted, BattCheck, BattChecked, Convey, Crash, StartUp,
             BlankChunk, Ignore, RunCommand, CommandEnds, CommandFails, ReadFile, SkipLine,
             WriteLine, LastLine, NoMoreLines, NoAck, Ack, FiveSeconds, scriptElse,
             vars, lineVars
    <2>2. LineInv' /\ strayed' = strayed
      BY <2>1, LineKept
    <2> QED
      BY <2>2 DEF InBuffer
  <1> QED
    BY <1>1, <1>2

\* The buffer up to ndx is the line being typed, while that is plain.
THEOREM LineInvariant == Spec => []LineInv
  BY VehicleTypeInit, VehicleTypeStep, LineInvInit, LineInvStep, PTL DEF Spec

\* A plain line that has been read, and after which nothing was read yet, is
\* what transmitLine() takes, whatever lines came before it.
THEOREM LineHandedAsShown == Spec => []HandedAsShown
  <1>1. LineInv => HandedAsShown
    BY DEF LineInv
  <1> QED
    BY <1>1, LineInvariant, PTL

\* Nothing is written past the buffer for a plain line.
THEOREM PlainStaysInBuffer == Spec => []InBuffer
  BY VehicleTypeInit, VehicleTypeStep, LineInvInit, LineInvStep, PTL DEF Spec

-----------------------------------------------------------------------------
(* The output file                                                         *)

\* A file that a running script finds is that of its latest command.
FileInv ==
    /\ pc # "start" => \A f \in file : f.run = latest
    /\ pc \in {"call", "lines", "getAck", "wait"} => file # {}

LEMMA FileInvStep == VehicleTypeOK /\ FileInv /\ [Next]_vars => FileInv'
  <1> SUFFICES ASSUME VehicleTypes, FileInv, [Next]_vars PROVE FileInv'
    BY TypesTogether
  <1>1. CASE Uart \/ Sketch \/ UNCHANGED vars
    <2>1. UNCHANGED scriptVars
      BY <1>1 DEF Uart, Arrive, PrintArrives, Sketch, Receive, NoLine, Transmit, Transmitted,
             BattCheck, BattChecked, Convey, vars
    <2> QED
      BY <2>1 DEF scriptVars, FileInv
  <1>2. CASE CommandEnds
    <2>1. PICK o \in Outputs : file' = {[f EXCEPT !.lines = o] : f \in file}
      BY <1>2 DEF CommandEnds
    <2>2. \A f \in file : [f EXCEPT !.lines = o].run = f.run
      BY DEF VehicleTypes
    <2> QED
      BY <1>2, <2>1, <2>2 DEF CommandEnds, FileInv
  <1>3. CASE RunCommand
    BY <1>3 DEF RunCommand, FileInv
  <1>4. CASE StartUp \/ BlankChunk \/ Ignore \/ CommandFails \/ Crash
    BY <1>4 DEF StartUp, BlankChunk, Ignore, CommandFails, Crash, Exit, FileInv
  <1>5. CASE Output
    BY <1>5 DEF Output, ReadFile, SkipLine, WriteLine, LastLine, NoMoreLines, NoAck, Ack,
           FiveSeconds, FileInv
  <1> QED
    BY <1>1, <1>2, <1>3, <1>4, <1>5 DEF Next, Script

\* Whatever crashes come in the middle of commands and outputs, the script
\* only ever sends the output of the command it ran last.
THEOREM OutputStaysCurrent == Spec => []OutputIsCurrent
  <1>1. Init => FileInv
    BY DEF Init, FileInv
  <1>2. FileInv => OutputIsCurrent
    BY DEF FileInv, OutputIsCurrent
  <1> QED
    BY <1>1, <1>2, FileInvStep, VehicleTypeInit, VehicleTypeStep, PTL DEF Spec
=============================================================================
