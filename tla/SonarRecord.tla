---------------------------- MODULE SonarRecord -----------------------------
(***************************************************************************)
(* The side scan recorder: it asks the sonar for one channel at a time,    *)
(* puts the two channels of a ping together and writes them to the mission *)
(* file, in the three builds the repository has.                           *)
(*                                                                         *)
(* An octet is <<n, i>>, the i-th one of the n-th reply of the sonar: what *)
(* the file holds tells what was taken when, and with which settings.      *)
(***************************************************************************)
EXTENDS Integers, Sequences

CONSTANTS
    Builds,      \* the programs considered
    HeadLen, HalfLen, \* octets of a reply's header, of a channel
    Asked,       \* settings asked for on the command line or in settings.cfg
    Typed,       \* what the user of the interactive build types at a time: character codes
    MaxRecords,  \* bound: pings recorded
    MaxPresses   \* bound: how often the user types

Port == 0
Starboard == 2
Reply == HeadLen + HalfLen + 1

Settings == [range : Int, freq : Int, gain : Int]

Key      == 0 .. 255
Enter    == 10
Space    == 32
PlusKey  == 43
TildeKey == 126

ASSUME BuildsAre == Builds \subseteq {"linux", "windows", "future"}
ASSUME Lengths   == HeadLen \in Nat /\ HalfLen \in Nat \ {0}
ASSUME Inputs    == Asked \subseteq Settings /\ Typed \subseteq Seq(Key)
ASSUME Limits    == MaxRecords \in Nat /\ MaxPresses \in Nat

VARIABLES
    build,
    pc,
    sonarSwitches,  \* range, freq and gain of it
    rangeIndex,     \* m_nRangeIndex
    packNumber,     \* sonarSwitches.Pack_Number
    receiveBuf, headerBuf, dataBuf,
    outfile,        \* the pings written
    \* the connection and the sonar
    request,    \* the one on its way, if any
    taken,      \* requests answered
    left,       \* octets of the last reply not received
    connected,
    intact,     \* connected, and no reply was received in parts
    \* the user
    asked,      \* the settings last asked for, as the numbers they are
    changes,    \* how often the user began to change them
    keys,       \* characters typed and not read
    presses     \* how often the user typed

program == <<build, pc, sonarSwitches, rangeIndex, packNumber, receiveBuf, headerBuf, dataBuf,
             outfile>>
link    == <<request, taken, left, connected, intact>>
user    == <<asked, changes, keys, presses>>
vars    == <<program, link, user>>

-----------------------------------------------------------------------------
(* Settings                                                                *)

AtLeast(lo, n) == IF n < lo THEN lo ELSE n
AtMost(hi, n)  == IF n > hi THEN hi ELSE n

\* An int is cut to an octet before it is limited.
Octet(n) == n % 256

WithRange(set, n) == [set EXCEPT !.range = AtMost(200, AtLeast(10, Octet(n)))]

WithFreqCapFirst(set, n) ==
    LET f == Octet(n)
    IN  [set EXCEPT !.range = IF f = 2 THEN AtMost(50, @) ELSE @,
                    !.freq  = AtMost(2, AtLeast(0, f))]

\* High frequency limits the range that has been set.
WithFreq(set, n) ==
    LET f == AtMost(2, AtLeast(0, Octet(n)))
    IN  [set EXCEPT !.range = IF f = 2 THEN AtMost(50, @) ELSE @, !.freq = f]

WithGain(set, n) == [set EXCEPT !.gain = AtMost(40, AtLeast(0, Octet(n)))]

Switches(set, s) == WithGain(WithFreq(WithRange(set, s.range), s.freq), s.gain)

\* The ranges the sonar has, by index from 0.
IndexToRange == <<1, 2, 3, 4, 5, 10, 20, 30, 40, 50, 60, 80, 100, 125, 150, 200>>

\* The table of GetRangeIndex() starts at 10; what is not in it counts as 200.
GetRangeIndex(range) ==
    IF \E i \in 5 .. 15 : IndexToRange[i + 1] = range
    THEN CHOOSE i \in 5 .. 15 : IndexToRange[i + 1] = range
    ELSE 15

-----------------------------------------------------------------------------

Octets == Nat \X Nat
Scan   == [pack : {Port, Starboard}, set : Settings, changes : Nat]
Record == [set : Settings, index : 0 .. 15, changes : Nat,
           header : [0 .. HeadLen - 1 -> Octets], data : [0 .. 2 * HalfLen - 1 -> Octets]]

SonarTypeOK ==
    /\ build \in Builds
    /\ pc \in IF build = "future"
              THEN {"range", "freq", "gain", "start", "recv", "getch", "ended"}
              ELSE {"settings", "start", "recv"}
    /\ sonarSwitches \in Settings
    /\ rangeIndex \in 0 .. 15
    /\ packNumber \in {Port, Starboard}
    /\ receiveBuf \in [0 .. Reply - 1 -> Octets]
    /\ headerBuf \in [0 .. HeadLen - 1 -> Octets]
    /\ dataBuf \in [0 .. 2 * HalfLen -> Octets]
    /\ outfile \in Seq(Record)
    /\ request \in SUBSET Scan
    /\ taken \in Seq(Scan)
    /\ left \in 0 .. Reply
    /\ connected \in BOOLEAN /\ intact \in BOOLEAN
    /\ build # "future" => asked \in Settings
    /\ changes \in Nat /\ presses \in Nat
    /\ keys \in Seq(Key)

Zero == <<0, 0>>

Init ==
    /\ build \in Builds
    /\ pc = IF build = "future" THEN "range" ELSE "settings"
    /\ sonarSwitches = [range |-> 50, freq |-> 0, gain |-> 20]
    /\ asked \in IF build = "future" THEN {sonarSwitches} ELSE Asked
    /\ rangeIndex = 9
    /\ packNumber = Port
    /\ receiveBuf = [i \in 0 .. Reply - 1 |-> Zero]
    /\ headerBuf = [i \in 0 .. HeadLen - 1 |-> Zero]
    /\ dataBuf = [i \in 0 .. 2 * HalfLen |-> Zero]
    /\ outfile = <<>>
    /\ request = {}
    /\ taken = <<>>
    /\ left = 0
    /\ connected = TRUE /\ intact = TRUE
    /\ changes = 0 /\ presses = 0
    /\ keys = <<>>

-----------------------------------------------------------------------------
(* The sonar and the connection                                            *)

Answer ==
    /\ connected
    /\ Len(outfile) < MaxRecords
    /\ \E scan \in request : taken' = Append(taken, scan)
    /\ request' = {}
    /\ left' = Reply
    /\ UNCHANGED <<program, connected, intact, user>>

\* What was on the way may be lost with the connection.
Lose ==
    /\ connected
    /\ connected' = FALSE /\ intact' = FALSE
    /\ left' \in {0, left}
    /\ UNCHANGED <<program, request, taken, user>>

-----------------------------------------------------------------------------
(* The program                                                             *)

SendSwitchesBuiltOnce(pack, set) ==
    request' = {[pack |-> pack, set |-> IF taken = <<>> THEN set ELSE taken[1].set,
                 changes |-> changes]}

\* send(): the switches as they are, for channel pack.
SendSwitches(pack, set) == request' = {[pack |-> pack, set |-> set, changes |-> changes]}

\* What is asked for on the command line or in settings.cfg.
ReadSettings ==
    /\ pc = "settings"
    /\ sonarSwitches' = Switches(sonarSwitches, asked)
    /\ rangeIndex' = GetRangeIndex(sonarSwitches'.range)
    /\ pc' = "start"
    /\ UNCHANGED <<build, packNumber, receiveBuf, headerBuf, dataBuf, outfile, link, user>>

\* The first request.
Start ==
    /\ pc = "start"
    /\ SendSwitches(packNumber, sonarSwitches)
    /\ pc' = "recv"
    /\ UNCHANGED <<build, sonarSwitches, rangeIndex, packNumber, receiveBuf, headerBuf, dataBuf,
                   outfile, taken, left, connected, intact, user>>

\* receiveBuf once recv() has put k octets into it.
Received(k) ==
    [i \in 0 .. Reply - 1 |->
        IF i < k THEN <<Len(taken), Reply - left + i>> ELSE receiveBuf[i]]

\* Next channel: the two builds whose second assignment is a comparison, and
\* the original.
SwitchPackOnce == Starboard
SwitchPackAdd  == packNumber + 2
SwitchPack     == IF packNumber = Port THEN Starboard ELSE Port
NextPack       == IF build = "windows" THEN SwitchPack ELSE SwitchPackOnce

\* The port channel is put into the data back to front.
PortData(buf) ==
    [i \in 0 .. 2 * HalfLen |-> IF i < HalfLen THEN buf[HalfLen - 1 - i + HeadLen] ELSE dataBuf[i]]

StarboardData(buf) ==
    [i \in 0 .. 2 * HalfLen |-> IF i < HalfLen THEN dataBuf[i] ELSE buf[i - HalfLen + HeadLen]]

WriteOnePingData(header, data) ==
    outfile' = Append(outfile,
        [set |-> sonarSwitches, index |-> rangeIndex, changes |-> changes, header |-> header,
         data |-> [i \in 0 .. 2 * HalfLen - 1 |-> data[i]]])

StorePort(buf) ==
    /\ packNumber = Port
    /\ dataBuf' = PortData(buf)
    /\ UNCHANGED <<headerBuf, outfile>>

StoreStarboard(buf) ==
    /\ packNumber = Starboard
    /\ headerBuf' = [i \in 0 .. HeadLen - 1 |-> buf[i]]
    /\ dataBuf' = StarboardData(buf)
    /\ WriteOnePingData(headerBuf', dataBuf')

\* A key is looked at after each recv(), in one build.
Turn == IF build = "future" THEN "getch" ELSE "recv"

ReceiveAny(k) ==
    /\ pc = "recv"
    /\ left' = left - k
    /\ receiveBuf' = Received(k)
    /\ intact' = (intact /\ k = Reply)
    /\ StorePort(Received(k)) \/ StoreStarboard(Received(k))
    /\ packNumber' = NextPack
    /\ SendSwitches(NextPack, sonarSwitches)
    /\ pc' = Turn
    /\ UNCHANGED <<build, sonarSwitches, rangeIndex, taken, connected, user>>

ReceiveSendOnWrite(k) ==
    /\ pc = "recv" /\ k = Reply
    /\ left' = left - k
    /\ receiveBuf' = Received(k)
    /\ StorePort(Received(k)) \/ StoreStarboard(Received(k))
    /\ packNumber' = NextPack
    /\ IF packNumber = Starboard THEN SendSwitches(NextPack, sonarSwitches)
                                 ELSE UNCHANGED request
    /\ pc' = Turn
    /\ UNCHANGED <<build, sonarSwitches, rangeIndex, taken, connected, intact, user>>

\* A reply in one piece is stored and the next one asked for.
Receive(k) ==
    /\ pc = "recv" /\ k = Reply
    /\ left' = left - k
    /\ receiveBuf' = Received(k)
    /\ StorePort(Received(k)) \/ StoreStarboard(Received(k))
    /\ packNumber' = NextPack
    /\ SendSwitches(NextPack, sonarSwitches)
    /\ pc' = Turn
    /\ UNCHANGED <<build, sonarSwitches, rangeIndex, taken, connected, intact, user>>

\* Part of one is dropped, as is what follows: nothing is asked for again.
ReceivePart(k) ==
    /\ pc = "recv" /\ k < Reply
    /\ left' = left - k
    /\ receiveBuf' = Received(k)
    /\ intact' = FALSE
    /\ pc' = Turn
    /\ UNCHANGED <<build, sonarSwitches, rangeIndex, packNumber, headerBuf, dataBuf, outfile>>
    /\ UNCHANGED <<request, taken, connected, user>>

\* recv() returns at once when the connection is closed.
ReceiveNothing ==
    /\ pc = "recv"
    /\ ~connected /\ left = 0
    /\ pc' = Turn
    /\ UNCHANGED <<build, sonarSwitches, rangeIndex, packNumber, receiveBuf, headerBuf, dataBuf,
                   outfile, link, user>>

Recv == ReceiveNothing \/ \E k \in 1 .. left : Receive(k) \/ ReceivePart(k)

-----------------------------------------------------------------------------
(* The keys of the interactive build                                       *)

\* The user may type at any time, ahead of a question too.
Type(chars) ==
    /\ build = "future" /\ pc # "ended"
    /\ presses < MaxPresses
    /\ keys' = keys \o chars
    /\ presses' = presses + 1
    /\ UNCHANGED <<program, link, asked, changes>>

\* The number on a line of digits.
Number(line) ==
    LET value[i \in 0 .. Len(line)] ==
            IF i = 0 THEN 0 ELSE 10 * value[i - 1] + line[i] - 48
    IN  IF \A i \in DOMAIN line : line[i] \in 48 .. 57 THEN value[Len(line)] ELSE -1

\* cin >> temp; cin.ignore(): white space is skipped, the character at i taken,
\* all behind it dropped up to the end of the line at j.  It waits until there
\* is such a line.
ReadLine(field, i, j) ==
    /\ i < j
    /\ \A h \in 1 .. i - 1 : keys[h] \in {Enter, Space}
    /\ keys[i] \notin {Enter, Space} /\ keys[j] = Enter
    /\ \A h \in i .. j - 1 : keys[h] # Enter
    /\ keys' = SubSeq(keys, j + 1, Len(keys))
    /\ asked' = [asked EXCEPT ![field] = Number(SubSeq(keys, i, j - 1))]

\* The three questions: temp is an octet, so what is set is a character's code.
AskRange ==
    /\ pc = "range"
    /\ \E i, j \in DOMAIN keys :
          ReadLine("range", i, j) /\ sonarSwitches' = WithRange(sonarSwitches, keys[i])
    /\ pc' = "freq"
    /\ UNCHANGED <<build, rangeIndex, packNumber, receiveBuf, headerBuf, dataBuf, outfile,
                   link, changes, presses>>

AskFreq ==
    /\ pc = "freq"
    /\ \E i, j \in DOMAIN keys :
          ReadLine("freq", i, j) /\ sonarSwitches' = WithFreq(sonarSwitches, keys[i])
    /\ pc' = "gain"
    /\ UNCHANGED <<build, rangeIndex, packNumber, receiveBuf, headerBuf, dataBuf, outfile,
                   link, changes, presses>>

\* After the last one the first request is sent, or the recording goes on.
AskGain ==
    /\ pc = "gain"
    /\ \E i, j \in DOMAIN keys :
          ReadLine("gain", i, j) /\ sonarSwitches' = WithGain(sonarSwitches, keys[i])
    /\ rangeIndex' = GetRangeIndex(sonarSwitches'.range)
    /\ pc' = IF changes = 0 THEN "start" ELSE "recv"
    /\ UNCHANGED <<build, packNumber, receiveBuf, headerBuf, dataBuf, outfile, link, changes,
                   presses>>

NoKey ==
    /\ pc = "getch" /\ keys = <<>>
    /\ pc' = "recv"
    /\ UNCHANGED <<build, sonarSwitches, rangeIndex, packNumber, receiveBuf, headerBuf, dataBuf,
                   outfile, link, user>>

\* `+' asks the questions while a request is under way, `~' ends the recording.
OnKey(key) ==
    CASE key = PlusKey  -> pc' = "range" /\ changes' = changes + 1
      [] key = TildeKey -> pc' = "ended" /\ changes' = changes
      [] OTHER          -> pc' = "recv" /\ changes' = changes

Getch ==
    /\ pc = "getch" /\ keys # <<>>
    /\ OnKey(Head(keys))
    /\ keys' = Tail(keys)
    /\ UNCHANGED <<build, sonarSwitches, rangeIndex, packNumber, receiveBuf, headerBuf, dataBuf,
                   outfile, link, asked, presses>>

-----------------------------------------------------------------------------

Program == ReadSettings \/ AskRange \/ AskFreq \/ AskGain \/ Start \/ Recv \/ NoKey \/ Getch
Next    == Answer \/ Lose \/ Program \/ \E chars \in Typed : Type(chars)

Spec == Init /\ [][Next]_vars

\* A connected sonar answers what it is asked, and the program runs: a question
\* is a step of it once the user has typed a line.
FairSpec == Spec /\ WF_vars(Answer) /\ WF_vars(Program)

-----------------------------------------------------------------------------
(* Properties                                                              *)

\* The replies whose octets are the halves of ping r.
PortOf(r)      == r.data[0][1]
StarboardOf(r) == r.data[HalfLen][1]

\* Whatever recv() returns when, a ping in the file is made of two whole
\* replies, the first to a request for the port channel, mirrored, and a later
\* one to a request for the starboard channel, with the header of the latter.
HalvesWhole ==
    \A n \in DOMAIN outfile :
        LET r == outfile[n]
            p == PortOf(r)
            s == StarboardOf(r)
        IN  /\ p \in DOMAIN taken /\ s \in DOMAIN taken /\ p < s
            /\ taken[p].pack = Port /\ taken[s].pack = Starboard
            /\ \A i \in 0 .. HalfLen - 1 :
                   /\ r.data[i] = <<p, HeadLen + HalfLen - 1 - i>>
                   /\ r.data[HalfLen + i] = <<s, HeadLen + i>>
            /\ \A i \in 0 .. HeadLen - 1 : r.header[i] = <<s, i>>

\* The two halves of a ping were taken one right after the other.
HalvesTogether ==
    \A n \in DOMAIN outfile : StarboardOf(outfile[n]) = PortOf(outfile[n]) + 1

\* ... which the original program keeps.
HalvesTogetherInOriginal == build = "windows" => HalvesTogether

\* The header of a ping tells the settings its starboard half was taken with;
\* only that of the one ping that was under way when the user changed them may
\* tell the new ones.  (The port half may be an older reply: HalvesTogether.)
ChangesBefore(n) == IF n = 1 THEN 0 ELSE outfile[n - 1].changes

HeaderAsTaken ==
    \A n \in DOMAIN outfile :
        LET r == outfile[n]
            s == taken[StarboardOf(r)]
        IN  r.set # s.set => r.changes > ChangesBefore(n)

\* What the sonar takes: high frequency with a short range only.
Takes(s) == /\ s.range \in 10 .. 200 /\ s.freq \in 0 .. 2 /\ s.gain \in 0 .. 40
            /\ s.freq = 2 => s.range <= 50

Waiting == pc \in {"range", "freq", "gain"}

\* Whatever is asked for or typed, and whenever, the sonar is only ever sent
\* settings it takes; the index in the file is not that of a shorter range than
\* it was set to; and settings that are read as numbers, from the command line
\* or settings.cfg, are kept as they are if the sonar takes them.
SettingsHold ==
    /\ \A r \in request : Takes(r.set)
    /\ \A i \in DOMAIN taken : Takes(taken[i].set)
    /\ \A n \in DOMAIN outfile : IndexToRange[outfile[n].index + 1] >= outfile[n].set.range
    /\ build # "future" /\ pc # "settings" /\ Takes(asked) => sonarSwitches = asked

\* The same for the interactive build: numbers typed as the range, frequency
\* and gain that the sonar takes become its settings.
TypedIsTaken ==
    build = "future" /\ ~Waiting /\ Takes(asked) => sonarSwitches = asked

\* As long as every reply comes in one piece and the user answers what is
\* asked, pings are recorded.
Recording ==
    []intact /\ []<>~Waiting => <>(pc = "ended" \/ Len(outfile) = MaxRecords)

\* As long as every reply does, a `~' that is the next key while the program
\* records ends the recording (or the bound on the records is reached).
TildeEnds ==
    []intact => (pc \in {"recv", "getch"} /\ keys # <<>> /\ Head(keys) = TildeKey
                    ~> pc = "ended" \/ Len(outfile) = MaxRecords)
=============================================================================
