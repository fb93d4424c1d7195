------------------------- MODULE SonarRecord_proofs -------------------------
(***************************************************************************)
(* Proofs about the recorder, for any lengths, settings, keys and records, *)
(* and whatever recv() returns.                                            *)
(***************************************************************************)
EXTENDS SonarRecord, TLAPS

\* What the assumptions say of the lengths.
LEMMA LengthFacts ==
    /\ HeadLen \in Nat /\ HalfLen \in Nat /\ HalfLen > 0
    /\ Reply = HeadLen + HalfLen + 1
  BY Lengths DEF Reply

-----------------------------------------------------------------------------
(* The settings                                                            *)

\* Each setting is brought within its limits, and left alone if it is there.
LEMMA RangeLimit ==
    ASSUME NEW set \in Settings, NEW n \in Int
    PROVE  /\ WithRange(set, n) \in Settings
           /\ WithRange(set, n).range \in 10 .. 200
           /\ WithRange(set, n).freq = set.freq /\ WithRange(set, n).gain = set.gain
           /\ n \in 10 .. 200 => WithRange(set, n).range = n
  <1>1. AtMost(200, AtLeast(10, Octet(n))) \in 10 .. 200
        /\ (n \in 10 .. 200 => AtMost(200, AtLeast(10, Octet(n))) = n)
    BY DEF AtMost, AtLeast, Octet
  <1> QED
    BY <1>1 DEF WithRange, Settings

LEMMA FreqLimit ==
    ASSUME NEW set \in Settings, NEW n \in Int
    PROVE  /\ WithFreq(set, n) \in Settings
           /\ WithFreq(set, n).freq \in 0 .. 2
           /\ WithFreq(set, n).freq = 2 => WithFreq(set, n).range <= 50
           /\ set.range \in 10 .. 200 => WithFreq(set, n).range \in 10 .. 200
           /\ WithFreq(set, n).gain = set.gain
           /\ n \in 0 .. 2 => WithFreq(set, n).freq = n
           /\ n \in 0 .. 2 /\ (n = 2 => set.range <= 50) => WithFreq(set, n).range = set.range
  <1> DEFINE f == AtMost(2, AtLeast(0, Octet(n)))
             r == IF f = 2 THEN AtMost(50, set.range) ELSE set.range
  <1>1. f \in 0 .. 2 /\ (n \in 0 .. 2 => f = n)
    BY DEF AtMost, AtLeast, Octet
  <1>2. /\ r \in Int
        /\ f = 2 => r <= 50
        /\ set.range \in 10 .. 200 => r \in 10 .. 200
        /\ (f = 2 => set.range <= 50) => r = set.range
    BY <1>1 DEF AtMost, Settings
  <1>3. WithFreq(set, n) = [set EXCEPT !.range = r, !.freq = f]
    BY DEF WithFreq
  <1>4. /\ WithFreq(set, n) \in Settings
        /\ WithFreq(set, n).range = r /\ WithFreq(set, n).freq = f
        /\ WithFreq(set, n).gain = set.gain
    <2>1. f \in Int /\ r \in Int
      BY <1>1, <1>2
    <2> HIDE DEF r, f
    <2>2. WithFreq(set, n) = [range |-> r, freq |-> f, gain |-> set.gain] /\ set.gain \in Int
      BY <1>3 DEF Settings
    <2> QED
      BY <2>1, <2>2 DEF Settings
  <1> QED
    BY <1>1, <1>2, <1>4

LEMMA GainLimit ==
    ASSUME NEW set \in Settings, NEW n \in Int
    PROVE  /\ WithGain(set, n) \in Settings
           /\ WithGain(set, n).gain \in 0 .. 40
           /\ WithGain(set, n).range = set.range /\ WithGain(set, n).freq = set.freq
           /\ n \in 0 .. 40 => WithGain(set, n).gain = n
  <1>1. AtMost(40, AtLeast(0, Octet(n))) \in 0 .. 40
        /\ (n \in 0 .. 40 => AtMost(40, AtLeast(0, Octet(n))) = n)
    BY DEF AtMost, AtLeast, Octet
  <1> QED
    BY <1>1 DEF WithGain, Settings

\* Together: what is limited is what the sonar takes, and limiting changes
\* nothing that it takes.
LEMMA SwitchesTake ==
    ASSUME NEW set \in Settings, NEW s \in Settings
    PROVE  /\ Switches(set, s) \in Settings
           /\ Takes(Switches(set, s))
           /\ Takes(s) => Switches(set, s) = s
  <1> DEFINE a == WithRange(set, s.range)
             b == WithFreq(a, s.freq)
             c == WithGain(b, s.gain)
  <1>1. s.range \in Int /\ s.freq \in Int /\ s.gain \in Int
    BY DEF Settings
  <1>2. a \in Settings /\ a.range \in 10 .. 200 /\ (s.range \in 10 .. 200 => a.range = s.range)
    BY <1>1, RangeLimit
  <1> HIDE DEF a
  <1>3. /\ b \in Settings /\ b.range \in 10 .. 200 /\ b.freq \in 0 .. 2
        /\ b.freq = 2 => b.range <= 50
        /\ s.freq \in 0 .. 2 => b.freq = s.freq
        /\ s.freq \in 0 .. 2 /\ (s.freq = 2 => a.range <= 50) => b.range = a.range
    BY <1>1, <1>2, FreqLimit
  <1> HIDE DEF b
  <1>4. /\ c \in Settings /\ c.gain \in 0 .. 40 /\ c.range = b.range /\ c.freq = b.freq
        /\ s.gain \in 0 .. 40 => c.gain = s.gain
    <2>1. b \in Settings /\ s.gain \in Int
      BY <1>1, <1>3
    <2> QED
      BY <2>1, GainLimit
  <1>5. c = Switches(set, s)
    BY DEF a, b, c, Switches
  <1> HIDE DEF c
  <1>6. Takes(c)
    BY <1>3, <1>4 DEF Takes
  <1>7. ASSUME Takes(s) PROVE c = s
    <2>1. c.range = s.range /\ c.freq = s.freq /\ c.gain = s.gain
      BY <1>1, <1>2, <1>3, <1>4, <1>7 DEF Takes
    <2> QED
      BY <1>4, <2>1 DEF Settings
  <1> QED
    BY <1>4, <1>5, <1>6, <1>7

LEMMA IndexType == ASSUME NEW range \in Int PROVE GetRangeIndex(range) \in 0 .. 15
  BY DEF GetRangeIndex

\* The index the file gets never stands for a shorter range.
LEMMA IndexCovers ==
    ASSUME NEW range \in Int, range <= 200
    PROVE  GetRangeIndex(range) \in 0 .. 15 /\ IndexToRange[GetRangeIndex(range) + 1] >= range
  <1>1. CASE \E i \in 5 .. 15 : IndexToRange[i + 1] = range
    <2>1. GetRangeIndex(range) \in 5 .. 15 /\ IndexToRange[GetRangeIndex(range) + 1] = range
      BY <1>1 DEF GetRangeIndex
    <2> QED
      BY <2>1
  <1>2. CASE ~\E i \in 5 .. 15 : IndexToRange[i + 1] = range
    BY <1>2 DEF GetRangeIndex, IndexToRange
  <1> QED
    BY <1>1, <1>2

-----------------------------------------------------------------------------
(* Types                                                                   *)

\* Octets are copied from one buffer to the other at indices both have.
LEMMA BuffersType ==
    ASSUME SonarTypeOK, NEW k \in 1 .. left
    PROVE  /\ Received(k) \in [0 .. Reply - 1 -> Octets]
           /\ \A buf \in [0 .. Reply - 1 -> Octets] :
                 /\ PortData(buf) \in [0 .. 2 * HalfLen -> Octets]
                 /\ StarboardData(buf) \in [0 .. 2 * HalfLen -> Octets]
                 /\ [i \in 0 .. HeadLen - 1 |-> buf[i]] \in [0 .. HeadLen - 1 -> Octets]
  <1>1. ASSUME NEW i \in 0 .. Reply - 1
        PROVE  (IF i < k THEN <<Len(taken), Reply - left + i>> ELSE receiveBuf[i]) \in Octets
    <2>1. Len(taken) \in Nat /\ Reply - left + i \in Nat /\ receiveBuf[i] \in Octets
      BY LengthFacts DEF SonarTypeOK
    <2> QED
      BY <2>1 DEF Octets
  <1>2. Received(k) \in [0 .. Reply - 1 -> Octets]
    BY <1>1 DEF Received
  <1>3. ASSUME NEW buf \in [0 .. Reply - 1 -> Octets], NEW i \in 0 .. 2 * HalfLen
        PROVE  /\ i < HalfLen => buf[HalfLen - 1 - i + HeadLen] \in Octets
               /\ ~(i < HalfLen) => buf[i - HalfLen + HeadLen] \in Octets
               /\ dataBuf[i] \in Octets
    <2>1. /\ i < HalfLen => HalfLen - 1 - i + HeadLen \in 0 .. Reply - 1
          /\ ~(i < HalfLen) => i - HalfLen + HeadLen \in 0 .. Reply - 1
      BY LengthFacts
    <2> QED
      BY <2>1 DEF SonarTypeOK
  <1>4. ASSUME NEW buf \in [0 .. Reply - 1 -> Octets], NEW i \in 0 .. HeadLen - 1
        PROVE  buf[i] \in Octets
    <2>1. i \in 0 .. Reply - 1
      BY LengthFacts
    <2> QED
      BY <2>1
  <1> QED
    BY <1>2, <1>3, <1>4 DEF PortData, StarboardData

\* Storing a channel keeps the types of what is stored.
LEMMA StoreType ==
    ASSUME SonarTypeOK, NEW buf \in [0 .. Reply - 1 -> Octets], NEW k \in 1 .. left,
           StorePort(buf) \/ StoreStarboard(buf)
    PROVE  /\ headerBuf' \in [0 .. HeadLen - 1 -> Octets]
           /\ dataBuf' \in [0 .. 2 * HalfLen -> Octets]
           /\ outfile' \in Seq(Record)
  <1>1. CASE StorePort(buf)
    BY <1>1, BuffersType DEF StorePort, SonarTypeOK
  <1>2. CASE StoreStarboard(buf)
    <2>1. headerBuf' \in [0 .. HeadLen - 1 -> Octets] /\ dataBuf' \in [0 .. 2 * HalfLen -> Octets]
      BY <1>2, BuffersType DEF StoreStarboard
    <2> DEFINE d == [i \in 0 .. 2 * HalfLen - 1 |-> dataBuf'[i]]
               rec == [set |-> sonarSwitches, index |-> rangeIndex, changes |-> changes,
                       header |-> headerBuf', data |-> d]
    <2>2. d \in [0 .. 2 * HalfLen - 1 -> Octets]
      <3>1. \A i \in 0 .. 2 * HalfLen - 1 : i \in 0 .. 2 * HalfLen
        BY LengthFacts
      <3> QED
        BY <2>1, <3>1
    <2>3. sonarSwitches \in Settings /\ rangeIndex \in 0 .. 15 /\ changes \in Nat
      BY DEF SonarTypeOK
    <2>4. rec \in Record
      BY <2>1, <2>2, <2>3 DEF Record
    <2>5. outfile' = Append(outfile, rec)
      BY <1>2 DEF StoreStarboard, WriteOnePingData
    <2> HIDE DEF rec
    <2>6. outfile' \in Seq(Record)
      BY <2>4, <2>5 DEF SonarTypeOK
    <2> QED
      BY <2>1, <2>6
  <1> QED
    BY <1>1, <1>2

LEMMA SentType ==
    ASSUME SonarTypeOK, NEW pack \in {Port, Starboard}, NEW set \in Settings,
           SendSwitches(pack, set)
    PROVE  request' \in SUBSET Scan
  <1>1. [pack |-> pack, set |-> set, changes |-> changes] \in Scan
    BY DEF SonarTypeOK, Scan
  <1> QED
    BY <1>1 DEF SendSwitches

LEMMA SonarTypeInit == Init => SonarTypeOK
  <1> SUFFICES ASSUME Init PROVE SonarTypeOK
    OBVIOUS
  <1>1. Zero \in Octets
    BY DEF Zero, Octets
  <1>2. sonarSwitches \in Settings /\ (build # "future" => asked \in Settings)
    BY Inputs DEF Init, Settings
  <1>3. /\ receiveBuf \in [0 .. Reply - 1 -> Octets]
        /\ headerBuf \in [0 .. HeadLen - 1 -> Octets]
        /\ dataBuf \in [0 .. 2 * HalfLen -> Octets]
    BY <1>1 DEF Init
  <1>4. outfile \in Seq(Record) /\ taken \in Seq(Scan) /\ keys \in Seq(Key)
    BY DEF Init
  <1>5. left \in 0 .. Reply /\ rangeIndex \in 0 .. 15
    BY LengthFacts DEF Init
  <1> QED
    BY <1>2, <1>3, <1>4, <1>5 DEF Init, SonarTypeOK

\* Reading a line leaves the keys behind it; the key it takes is an octet.
LEMMA LineType ==
    ASSUME SonarTypeOK, NEW field, NEW i \in DOMAIN keys, NEW j \in DOMAIN keys,
           ReadLine(field, i, j)
    PROVE  keys' \in Seq(Key) /\ keys[i] \in Int
  <1>1. keys \in Seq(Key) /\ i \in 1 .. Len(keys) /\ j \in 1 .. Len(keys) /\ keys[i] \in Key
    BY DEF SonarTypeOK
  <1>2. SubSeq(keys, j + 1, Len(keys)) \in Seq(Key)
    BY <1>1, SMTT(30)
  <1>3. keys' = SubSeq(keys, j + 1, Len(keys))
    BY DEF ReadLine
  <1>4. \A k \in Key : k \in Int
    BY DEF Key
  <1> QED
    BY <1>1, <1>2, <1>3, <1>4

LEMMA SonarTypeStep == SonarTypeOK /\ [Next]_vars => SonarTypeOK'
  <1> SUFFICES ASSUME SonarTypeOK, [Next]_vars PROVE SonarTypeOK'
    OBVIOUS
  <1>1. CASE Answer
    <2>1. PICK scan \in request : taken' = Append(taken, scan)
      BY <1>1 DEF Answer
    <2>2. taken' \in Seq(Scan) /\ left' \in 0 .. Reply
      BY <1>1, <2>1, LengthFacts DEF Answer, SonarTypeOK
    <2> QED
      BY <1>1, <2>2 DEF Answer, SonarTypeOK, program, user
  <1>2. CASE Lose
    <2>1. left' \in 0 .. Reply
      BY <1>2, LengthFacts DEF Lose, SonarTypeOK
    <2> QED
      BY <1>2, <2>1 DEF Lose, SonarTypeOK, program, user
  <1>3. CASE Start
    <2>1. request' \in SUBSET Scan
      BY <1>3, SentType DEF Start, SonarTypeOK
    <2> QED
      BY <1>3, <2>1 DEF Start, SonarTypeOK, user
  <1>4. ASSUME NEW k \in 1 .. left, Receive(k) PROVE SonarTypeOK'
    <2>1. Received(k) \in [0 .. Reply - 1 -> Octets]
      BY BuffersType
    <2>2. /\ headerBuf' \in [0 .. HeadLen - 1 -> Octets]
          /\ dataBuf' \in [0 .. 2 * HalfLen -> Octets]
          /\ outfile' \in Seq(Record)
      BY <1>4, <2>1, StoreType DEF Receive
    <2>3. NextPack \in {Port, Starboard}
      BY DEF NextPack, SwitchPack, SwitchPackOnce
    <2>4. request' \in SUBSET Scan
      BY <1>4, <2>3, SentType DEF Receive, SonarTypeOK
    <2>5. left' \in 0 .. Reply
      BY <1>4, LengthFacts DEF Receive, SonarTypeOK
    <2> QED
      BY <1>4, <2>1, <2>2, <2>3, <2>4, <2>5 DEF Receive, Turn, SonarTypeOK, user
  <1>5. ASSUME NEW k \in 1 .. left, ReceivePart(k) PROVE SonarTypeOK'
    <2>1. receiveBuf' \in [0 .. Reply - 1 -> Octets]
      BY <1>5, BuffersType DEF ReceivePart
    <2>2. left' \in 0 .. Reply
      BY <1>5, LengthFacts DEF ReceivePart, SonarTypeOK
    <2> QED
      BY <1>5, <2>1, <2>2 DEF ReceivePart, Turn, SonarTypeOK, user
  <1>6. CASE ReceiveNothing
    BY <1>6 DEF ReceiveNothing, Turn, SonarTypeOK, link, user
  <1>7. ASSUME NEW chars \in Typed, Type(chars) PROVE SonarTypeOK'
    <2>1. keys' \in Seq(Key) /\ presses' \in Nat
      BY <1>7, Inputs DEF Type, SonarTypeOK
    <2> QED
      BY <1>7, <2>1 DEF Type, SonarTypeOK, program, link
  <1>8. CASE NoKey
    BY <1>8 DEF NoKey, SonarTypeOK, link, user
  <1>9. CASE Getch
    <2>1. keys' \in Seq(Key)
      BY <1>9 DEF Getch, SonarTypeOK
    <2>2. /\ build = "future" /\ pc' \in {"range", "recv", "ended"}
          /\ changes' \in Nat
      BY <1>9 DEF Getch, OnKey, SonarTypeOK
    <2> QED
      BY <1>9, <2>1, <2>2 DEF Getch, SonarTypeOK, link
  <1>10. CASE ReadSettings
    <2>1. asked \in Settings /\ sonarSwitches \in Settings /\ build # "future"
      BY <1>10 DEF ReadSettings, SonarTypeOK
    <2>2. sonarSwitches' \in Settings /\ sonarSwitches'.range <= 200
      BY <1>10, <2>1, SwitchesTake DEF ReadSettings, Takes, Settings
    <2>3. rangeIndex' \in 0 .. 15
      BY <1>10, <2>2, IndexCovers DEF ReadSettings, Settings
    <2> QED
      BY <1>10, <2>1, <2>2, <2>3 DEF ReadSettings, SonarTypeOK, link, user
  <1>11. CASE AskRange
    <2>1. PICK i \in DOMAIN keys, j \in DOMAIN keys :
              ReadLine("range", i, j) /\ sonarSwitches' = WithRange(sonarSwitches, keys[i])
      BY <1>11 DEF AskRange
    <2>2. keys' \in Seq(Key) /\ sonarSwitches' \in Settings /\ build = "future"
      BY <1>11, <2>1, LineType, RangeLimit DEF AskRange, SonarTypeOK
    <2> QED
      BY <1>11, <2>2 DEF AskRange, SonarTypeOK, link
  <1>12. CASE AskFreq
    <2>1. PICK i \in DOMAIN keys, j \in DOMAIN keys :
              ReadLine("freq", i, j) /\ sonarSwitches' = WithFreq(sonarSwitches, keys[i])
      BY <1>12 DEF AskFreq
    <2>2. keys' \in Seq(Key) /\ sonarSwitches' \in Settings /\ build = "future"
      BY <1>12, <2>1, LineType, FreqLimit DEF AskFreq, SonarTypeOK
    <2> QED
      BY <1>12, <2>2 DEF AskFreq, SonarTypeOK, link
  <1>13. CASE AskGain
    <2>1. PICK i \in DOMAIN keys, j \in DOMAIN keys :
              ReadLine("gain", i, j) /\ sonarSwitches' = WithGain(sonarSwitches, keys[i])
      BY <1>13 DEF AskGain
    <2>2. keys' \in Seq(Key) /\ sonarSwitches' \in Settings /\ build = "future"
      BY <1>13, <2>1, LineType, GainLimit DEF AskGain, SonarTypeOK
    <2>3. rangeIndex' \in 0 .. 15
      BY <1>13, <2>2, IndexType DEF AskGain, Settings
    <2> QED
      BY <1>13, <2>2, <2>3 DEF AskGain, SonarTypeOK, link
  <1>14. CASE UNCHANGED vars
    BY <1>14 DEF vars, program, link, user, SonarTypeOK
  <1> QED
    BY <1>1, <1>2, <1>3, <1>4, <1>5, <1>6, <1>7, <1>8, <1>9, <1>10, <1>11, <1>12, <1>13, <1>14
       DEF Next, Program, Recv

\* Buffers, settings and keys stay what they are.
THEOREM SonarTypeCorrect == Spec => []SonarTypeOK
  BY SonarTypeInit, SonarTypeStep, PTL DEF Spec
-----------------------------------------------------------------------------
(* What the file is made of                                                *)

\* The settings before the first request.
NotYet == pc \in {"settings", "start"} \/ (Waiting /\ changes = 0)

\* At most one request or reply is outstanding, for the channel the program
\* will take it for.
Outstanding ==
    /\ left > 0 => request = {} /\ taken # <<>> /\ taken[Len(taken)].pack = packNumber
    /\ \A r \in request : r.pack = packNumber
    /\ NotYet => request = {} /\ taken = <<>> /\ packNumber = Port

\* While the starboard channel is due, the port half is in place; in the
\* original it is the one before.
PortStored ==
    packNumber = Starboard =>
        LET p == dataBuf[0][1]
        IN  /\ p \in DOMAIN taken
            /\ taken[p].pack = Port
            /\ \A i \in 0 .. HalfLen - 1 : dataBuf[i] = <<p, HeadLen + HalfLen - 1 - i>>
            /\ build = "windows" => /\ left > 0 => Len(taken) = p + 1
                                    /\ request # {} => Len(taken) = p

\* Changes of the settings are in the order of the requests, and the settings
\* now are those of every request since the last change.
ChangesInOrder ==
    /\ \A i, j \in DOMAIN taken : i <= j => taken[i].changes <= taken[j].changes
    /\ \A i \in DOMAIN taken : taken[i].changes <= changes
    /\ \A r \in request : r.changes <= changes
    /\ \A r \in request, i \in DOMAIN taken : taken[i].changes <= r.changes
    /\ \A i \in DOMAIN taken : taken[i].changes = changes => taken[i].set = sonarSwitches
    /\ \A r \in request : r.changes = changes => r.set = sonarSwitches
    /\ Waiting => /\ \A i \in DOMAIN taken : taken[i].changes # changes
                  /\ \A r \in request : r.changes # changes

\* What is outstanding was asked for after the last ping was recorded.
AskedSince ==
    LET before == ChangesBefore(Len(outfile) + 1)
    IN  /\ before \in 0 .. changes
        /\ \A r \in request : r.changes >= before
        /\ left > 0 => taken[Len(taken)].changes >= before

DataInv == Outstanding /\ PortStored /\ HalvesWhole /\ HalvesTogetherInOriginal

\* A longer list of replies is as good for what is recorded.
Extends(new, old) == DOMAIN old \subseteq DOMAIN new /\ \A i \in DOMAIN old : new[i] = old[i]

LEMMA AppendExtends ==
    ASSUME NEW S, NEW seq \in Seq(S), NEW e \in S
    PROVE  /\ Extends(Append(seq, e), seq)
           /\ Len(Append(seq, e)) = Len(seq) + 1
           /\ Append(seq, e)[Len(seq) + 1] = e
           /\ DOMAIN Append(seq, e) = DOMAIN seq \cup {Len(seq) + 1}
           /\ DOMAIN seq = 1 .. Len(seq)
  BY DEF Extends

\* What was recorded stays true when the sonar answers.
LEMMA RecordedKept ==
    ASSUME HalvesWhole, HalvesTogetherInOriginal, Extends(taken', taken),
           UNCHANGED <<build, outfile>>
    PROVE  HalvesWhole' /\ HalvesTogetherInOriginal'
  <1>1. HalvesWhole'
    BY DEF HalvesWhole, Extends, PortOf, StarboardOf
  <1>2. HalvesTogetherInOriginal'
    BY DEF HalvesTogetherInOriginal, HalvesTogether, PortOf, StarboardOf
  <1> QED
    BY <1>1, <1>2

\* Steps that neither ask, nor answer, nor store.
LEMMA DataKept ==
    ASSUME SonarTypeOK, DataInv, left' <= left, left' \in Nat, NotYet' => NotYet,
           UNCHANGED <<build, packNumber, dataBuf, outfile, request, taken>>
    PROVE  DataInv'
  <1>1. left \in Nat
    BY LengthFacts DEF SonarTypeOK
  <1>2. Outstanding'
    BY <1>1 DEF DataInv, Outstanding
  <1>3. PortStored'
    BY <1>1 DEF DataInv, PortStored
  <1>4. HalvesWhole' /\ HalvesTogetherInOriginal'
    BY RecordedKept DEF DataInv, Extends
  <1> QED
    BY <1>2, <1>3, <1>4 DEF DataInv

LEMMA DataAnswer == ASSUME SonarTypeOK, DataInv, Answer PROVE DataInv'
  <1>1. PICK scan \in request : taken' = Append(taken, scan)
    BY DEF Answer
  <1>2. /\ UNCHANGED <<build, pc, packNumber, dataBuf, outfile>>
        /\ request' = {} /\ left' = Reply
    BY DEF Answer, program
  <1>3. taken \in Seq(Scan) /\ scan \in Scan
    BY DEF SonarTypeOK
  <1>4. /\ Extends(taken', taken)
        /\ Len(taken') = Len(taken) + 1
        /\ taken'[Len(taken')] = scan
        /\ Len(taken) + 1 \in DOMAIN taken'
    BY <1>1, <1>3, AppendExtends
  <1>5. scan.pack = packNumber /\ ~NotYet /\ ~NotYet'
    BY <1>2 DEF DataInv, Outstanding, NotYet, Waiting, Answer, user
  <1>6. Outstanding'
    <2>1. taken' # <<>>
      BY <1>4
    <2> QED
      BY <1>2, <1>4, <1>5, <2>1 DEF Outstanding
  <1>7. PortStored'
    BY <1>2, <1>4 DEF DataInv, PortStored, Extends
  <1>8. HalvesWhole' /\ HalvesTogetherInOriginal'
    BY <1>2, <1>4, RecordedKept DEF DataInv
  <1> QED
    BY <1>6, <1>7, <1>8 DEF DataInv

LEMMA DataStart == ASSUME SonarTypeOK, DataInv, Start PROVE DataInv'
  <1>1. /\ UNCHANGED <<build, packNumber, outfile, taken, left>>
        /\ NotYet /\ ~NotYet'
        /\ \A r \in request' : r.pack = packNumber
    BY DEF Start, SendSwitches, NotYet, Waiting
  <1>2. packNumber = Port /\ ~(left > 0)
    BY <1>1 DEF DataInv, Outstanding
  <1>3. Outstanding' /\ PortStored'
    BY <1>1, <1>2 DEF Outstanding, PortStored, Port, Starboard
  <1>4. HalvesWhole' /\ HalvesTogetherInOriginal'
    BY <1>1, RecordedKept DEF DataInv, Extends
  <1> QED
    BY <1>3, <1>4 DEF DataInv

\* A reply in one piece is in the buffer as the sonar sent it.
LEMMA WholeReply ==
    ASSUME SonarTypeOK, DataInv, NEW k \in 1 .. left, k = Reply
    PROVE  /\ \A i \in 0 .. Reply - 1 : Received(k)[i] = <<Len(taken), i>>
           /\ Len(taken) \in DOMAIN taken
           /\ taken[Len(taken)].pack = packNumber
           /\ left > 0
  <1>1. left \in Nat /\ left = Reply /\ left > 0
    BY LengthFacts DEF SonarTypeOK
  <1>2. \A i \in 0 .. Reply - 1 : i < k /\ Reply - left + i = i
    BY <1>1, LengthFacts
  <1>3. taken # <<>> /\ taken[Len(taken)].pack = packNumber
    BY <1>1 DEF DataInv, Outstanding
  <1>4. Len(taken) \in DOMAIN taken
    BY <1>3 DEF SonarTypeOK
  <1> QED
    BY <1>1, <1>2, <1>3, <1>4 DEF Received

LEMMA DataPort ==
    ASSUME SonarTypeOK, DataInv, NEW k \in 1 .. left, Receive(k), StorePort(Received(k))
    PROVE  DataInv'
  <1> DEFINE n == Len(taken)
  <1>1. /\ \A i \in 0 .. Reply - 1 : Received(k)[i] = <<n, i>>
        /\ n \in DOMAIN taken /\ taken[n].pack = packNumber
    BY WholeReply DEF Receive
  <1>2. /\ packNumber = Port /\ packNumber' = Starboard
        /\ dataBuf' = PortData(Received(k))
        /\ UNCHANGED <<build, outfile, taken>>
        /\ left' = left - k /\ k = Reply
        /\ \A r \in request' : r.pack = Starboard
        /\ ~NotYet'
    BY DEF Receive, StorePort, NextPack, SwitchPack, SwitchPackOnce, SendSwitches, Turn,
           NotYet, Waiting
  <1>3. ~(left' > 0)
    BY <1>2, LengthFacts DEF SonarTypeOK
  <1>4. Outstanding'
    BY <1>2, <1>3 DEF Outstanding
  <1>5. ASSUME NEW i \in 0 .. HalfLen - 1
        PROVE  dataBuf'[i] = <<n, HeadLen + HalfLen - 1 - i>>
    <2>1. /\ i \in 0 .. 2 * HalfLen /\ i < HalfLen
          /\ HalfLen - 1 - i + HeadLen \in 0 .. Reply - 1
          /\ HalfLen - 1 - i + HeadLen = HeadLen + HalfLen - 1 - i
      BY LengthFacts
    <2>2. dataBuf'[i] = Received(k)[HalfLen - 1 - i + HeadLen]
      BY <1>2, <2>1 DEF PortData
    <2> QED
      BY <1>1, <2>1, <2>2
  <1>6. dataBuf'[0][1] = n
    BY <1>5, LengthFacts
  <1>7. PortStored'
    BY <1>1, <1>2, <1>3, <1>5, <1>6 DEF PortStored
  <1>8. HalvesWhole' /\ HalvesTogetherInOriginal'
    BY <1>2, RecordedKept DEF DataInv, Extends
  <1> QED
    BY <1>4, <1>7, <1>8 DEF DataInv

\* The ping that is written, in the terms of the properties.
LEMMA PingWritten ==
    ASSUME SonarTypeOK, DataInv, NEW k \in 1 .. left, Receive(k), StoreStarboard(Received(k))
    PROVE  \E r \in Record, p \in DOMAIN taken :
              /\ outfile' = Append(outfile, r)
              /\ PortOf(r) = p /\ StarboardOf(r) = Len(taken) /\ Len(taken) \in DOMAIN taken
              /\ p < Len(taken) /\ (build = "windows" => Len(taken) = p + 1)
              /\ taken[p].pack = Port /\ taken[Len(taken)].pack = Starboard
              /\ \A i \in 0 .. HalfLen - 1 :
                    /\ r.data[i] = <<p, HeadLen + HalfLen - 1 - i>>
                    /\ r.data[HalfLen + i] = <<Len(taken), HeadLen + i>>
                    /\ dataBuf'[i] = dataBuf[i]
              /\ \A i \in 0 .. HeadLen - 1 : r.header[i] = <<Len(taken), i>>
              /\ r.set = sonarSwitches /\ r.changes = changes
  <1> DEFINE n == Len(taken)
             p == dataBuf[0][1]
             buf == Received(k)
  <1>1. /\ \A i \in 0 .. Reply - 1 : buf[i] = <<n, i>>
        /\ n \in DOMAIN taken /\ taken[n].pack = packNumber /\ left > 0
    BY WholeReply DEF Receive
  <1>2. packNumber = Starboard /\ dataBuf' = StarboardData(buf)
        /\ headerBuf' = [i \in 0 .. HeadLen - 1 |-> buf[i]]
    BY DEF StoreStarboard
  <1>3. /\ p \in DOMAIN taken /\ taken[p].pack = Port
        /\ \A i \in 0 .. HalfLen - 1 : dataBuf[i] = <<p, HeadLen + HalfLen - 1 - i>>
        /\ build = "windows" => n = p + 1
    BY <1>1, <1>2 DEF DataInv, PortStored
  <1>4. p < n
    <2>1. DOMAIN taken = 1 .. n /\ n \in Nat
      BY DEF SonarTypeOK
    <2> QED
      BY <1>1, <1>2, <1>3, <2>1 DEF Port, Starboard
  <1> DEFINE d == [i \in 0 .. 2 * HalfLen - 1 |-> dataBuf'[i]]
             r == [set |-> sonarSwitches, index |-> rangeIndex, changes |-> changes,
                   header |-> headerBuf', data |-> d]
  <1>5. outfile' = Append(outfile, r)
    BY DEF StoreStarboard, WriteOnePingData
  <1>6. ASSUME NEW i \in 0 .. HalfLen - 1
        PROVE  /\ d[i] = <<p, HeadLen + HalfLen - 1 - i>>
               /\ d[HalfLen + i] = <<n, HeadLen + i>>
               /\ dataBuf'[i] = dataBuf[i]
    <2>1. /\ i \in 0 .. 2 * HalfLen - 1 /\ i \in 0 .. 2 * HalfLen /\ i < HalfLen
          /\ HalfLen + i \in 0 .. 2 * HalfLen - 1 /\ HalfLen + i \in 0 .. 2 * HalfLen
          /\ ~(HalfLen + i < HalfLen)
          /\ HalfLen + i - HalfLen + HeadLen = HeadLen + i /\ HeadLen + i \in 0 .. Reply - 1
      BY LengthFacts
    <2>2. dataBuf'[i] = dataBuf[i] /\ dataBuf'[HalfLen + i] = buf[HeadLen + i]
      <3>1. dataBuf'[i] = dataBuf[i]
        BY <1>2, <2>1 DEF StarboardData
      <3>2. \A j \in 0 .. 2 * HalfLen : ~(j < HalfLen) => dataBuf'[j] = buf[j - HalfLen + HeadLen]
        BY <1>2 DEF StarboardData
      <3> DEFINE j == HalfLen + i
      <3>3. j \in 0 .. 2 * HalfLen /\ ~(j < HalfLen) /\ j - HalfLen + HeadLen = HeadLen + i
        BY LengthFacts
      <3> HIDE DEF buf, j
      <3>4. dataBuf'[j] = buf[j - HalfLen + HeadLen]
        BY <3>2, <3>3
      <3> QED
        BY <3>1, <3>3, <3>4 DEF j
    <2>3. d[i] = dataBuf'[i] /\ d[HalfLen + i] = dataBuf'[HalfLen + i]
      BY <2>1
    <2>4. buf[HeadLen + i] = <<n, HeadLen + i>>
      BY <1>1, <2>1
    <2> QED
      BY <1>3, <2>2, <2>3, <2>4
  <1>7. PortOf(r) = p /\ StarboardOf(r) = n
    <2>1. 0 \in 0 .. HalfLen - 1 /\ HalfLen + 0 = HalfLen
      BY LengthFacts
    <2>2. d[0] = <<p, HeadLen + HalfLen - 1 - 0>> /\ d[HalfLen + 0] = <<n, HeadLen + 0>>
      <3> HIDE DEF d, p, n
      <3> QED
        BY <1>6, <2>1
    <2>3. d[0][1] = p /\ d[HalfLen][1] = n
      <3> HIDE DEF d, p, n
      <3> QED
        BY <2>1, <2>2
    <2> QED
      BY <2>3 DEF PortOf, StarboardOf
  <1>8. ASSUME NEW i \in 0 .. HeadLen - 1 PROVE headerBuf'[i] = <<n, i>>
    <2>1. i \in 0 .. Reply - 1
      BY LengthFacts
    <2> QED
      BY <1>1, <1>2, <2>1
  <1>9. r \in Record
    <2>1. d \in [0 .. 2 * HalfLen - 1 -> Octets]
      <3>1. \A i \in 0 .. 2 * HalfLen - 1 : i \in 0 .. 2 * HalfLen
        BY LengthFacts
      <3>2. dataBuf' \in [0 .. 2 * HalfLen -> Octets]
        BY <1>2, BuffersType
      <3> QED
        BY <3>1, <3>2
    <2>2. headerBuf' \in [0 .. HeadLen - 1 -> Octets]
      BY <1>2, BuffersType
    <2> QED
      BY <2>1, <2>2 DEF Record, SonarTypeOK
  <1>10. /\ r.set = sonarSwitches /\ r.changes = changes
         /\ r.data = d /\ r.header = headerBuf'
    OBVIOUS
  <1> HIDE DEF r, d, p, n, buf
  <1>11. \A i \in 0 .. HalfLen - 1 :
            /\ r.data[i] = <<p, HeadLen + HalfLen - 1 - i>>
            /\ r.data[HalfLen + i] = <<n, HeadLen + i>>
            /\ dataBuf'[i] = dataBuf[i]
    BY <1>6, <1>10
  <1>12. \A i \in 0 .. HeadLen - 1 : r.header[i] = <<n, i>>
    BY <1>8, <1>10
  <1>13. taken[n].pack = Starboard
    BY <1>1, <1>2
  <1> QED
    BY <1>1, <1>3, <1>4, <1>5, <1>7, <1>9, <1>10, <1>11, <1>12, <1>13 DEF n

LEMMA DataStarboard ==
    ASSUME SonarTypeOK, DataInv, NEW k \in 1 .. left, Receive(k), StoreStarboard(Received(k))
    PROVE  DataInv'
  <1> DEFINE n == Len(taken)
  <1>1. PICK r \in Record, p \in DOMAIN taken :
              /\ outfile' = Append(outfile, r)
              /\ PortOf(r) = p /\ StarboardOf(r) = n /\ n \in DOMAIN taken
              /\ p < n /\ (build = "windows" => n = p + 1)
              /\ taken[p].pack = Port /\ taken[n].pack = Starboard
              /\ \A i \in 0 .. HalfLen - 1 :
                    /\ r.data[i] = <<p, HeadLen + HalfLen - 1 - i>>
                    /\ r.data[HalfLen + i] = <<n, HeadLen + i>>
                    /\ dataBuf'[i] = dataBuf[i]
              /\ \A i \in 0 .. HeadLen - 1 : r.header[i] = <<n, i>>
    BY PingWritten
  <1>2. /\ packNumber = Starboard
        /\ packNumber' = IF build = "windows" THEN Port ELSE Starboard
        /\ UNCHANGED <<build, taken>>
        /\ left' = left - k /\ k = Reply
        /\ \A q \in request' : q.pack = packNumber'
        /\ ~NotYet'
    BY DEF Receive, StoreStarboard, NextPack, SwitchPack, SwitchPackOnce, SendSwitches, Turn,
           Port, Starboard, NotYet, Waiting
  <1>3. ~(left' > 0)
    BY <1>2, LengthFacts DEF SonarTypeOK
  <1>4. Outstanding'
    BY <1>2, <1>3 DEF Outstanding
  <1>5. PortStored'
    <2>1. 0 \in 0 .. HalfLen - 1
      BY LengthFacts
    <2>2. dataBuf'[0] = dataBuf[0]
      BY <1>1, <2>1
    <2> QED
      BY <1>1, <1>2, <2>2 DEF DataInv, PortStored, Port, Starboard
  <1>6. outfile \in Seq(Record)
    BY DEF SonarTypeOK
  <1>7. ASSUME NEW i \in DOMAIN outfile'
        PROVE  \/ i \in DOMAIN outfile /\ outfile'[i] = outfile[i]
               \/ outfile'[i] = r
    BY <1>1, <1>6, AppendExtends DEF Extends
  <1>8. HalvesWhole'
    <2> DEFINE Whole(q) ==
          /\ PortOf(q) \in DOMAIN taken /\ StarboardOf(q) \in DOMAIN taken
          /\ PortOf(q) < StarboardOf(q)
          /\ taken[PortOf(q)].pack = Port /\ taken[StarboardOf(q)].pack = Starboard
          /\ \A i \in 0 .. HalfLen - 1 :
                 /\ q.data[i] = <<PortOf(q), HeadLen + HalfLen - 1 - i>>
                 /\ q.data[HalfLen + i] = <<StarboardOf(q), HeadLen + i>>
          /\ \A i \in 0 .. HeadLen - 1 : q.header[i] = <<StarboardOf(q), i>>
    <2>1. Whole(r)
      BY <1>1
    <2>2. \A i \in DOMAIN outfile : Whole(outfile[i])
      BY DEF DataInv, HalvesWhole
    <2> HIDE DEF Whole
    <2>3. \A i \in DOMAIN outfile' : Whole(outfile'[i])
      BY <1>7, <2>1, <2>2
    <2> QED
      BY <1>2, <2>3 DEF HalvesWhole, Whole, PortOf, StarboardOf
  <1>9. HalvesTogetherInOriginal'
    BY <1>1, <1>2, <1>7 DEF DataInv, HalvesTogetherInOriginal, HalvesTogether, PortOf,
       StarboardOf
  <1> QED
    BY <1>4, <1>5, <1>8, <1>9 DEF DataInv

LEMMA DataStep == SonarTypeOK /\ DataInv /\ [Next]_vars => DataInv'
  <1> SUFFICES ASSUME SonarTypeOK, DataInv, [Next]_vars PROVE DataInv'
    OBVIOUS
  <1>1. left \in Nat
    BY LengthFacts DEF SonarTypeOK
  <1>2. ASSUME NEW k \in 1 .. left, Receive(k) PROVE DataInv'
    BY <1>2, DataPort, DataStarboard DEF Receive
  <1>3. ASSUME NEW k \in 1 .. left, ReceivePart(k) PROVE DataInv'
    <2>1. left' \in Nat /\ left' <= left /\ ~NotYet'
      BY <1>1, <1>3 DEF ReceivePart, Turn, NotYet, Waiting
    <2> QED
      BY <1>3, <2>1, DataKept DEF ReceivePart
  <1>4. CASE Lose
    BY <1>1, <1>4, DataKept DEF Lose, program, user, NotYet, Waiting
  <1>5. CASE ReceiveNothing \/ NoKey \/ Getch \/ UNCHANGED vars
    <2>1. UNCHANGED <<build, packNumber, dataBuf, outfile, request, taken, left>>
      BY <1>5 DEF ReceiveNothing, NoKey, Getch, vars, program, link
    <2>2. NotYet' => NotYet
      BY <1>5 DEF ReceiveNothing, NoKey, Getch, OnKey, Turn, vars, program, user, NotYet,
           Waiting, SonarTypeOK
    <2> QED
      BY <1>1, <2>1, <2>2, DataKept
  <1>6. ASSUME NEW chars \in Typed, Type(chars) PROVE DataInv'
    BY <1>1, <1>6, DataKept DEF Type, program, link, NotYet, Waiting
  <1>7. CASE ReadSettings \/ AskRange \/ AskFreq \/ AskGain
    <2>1. UNCHANGED <<build, packNumber, dataBuf, outfile, request, taken, left>>
      BY <1>7 DEF ReadSettings, AskRange, AskFreq, AskGain, link
    <2>2. NotYet' => NotYet
      BY <1>7 DEF ReadSettings, AskRange, AskFreq, AskGain, NotYet, Waiting
    <2> QED
      BY <1>1, <2>1, <2>2, DataKept
  <1> QED
    BY <1>2, <1>3, <1>4, <1>5, <1>6, <1>7, DataAnswer, DataStart DEF Next, Program, Recv

LEMMA DataInit == Init => DataInv
  <1> SUFFICES ASSUME Init PROVE DataInv
    OBVIOUS
  <1>1. Outstanding /\ PortStored
    BY DEF Init, Outstanding, PortStored, Port, Starboard
  <1>2. DOMAIN outfile = {}
    BY DEF Init
  <1> QED
    BY <1>1, <1>2 DEF DataInv, HalvesWhole, HalvesTogetherInOriginal, HalvesTogether

\* Whatever recv() returns and whatever keys are pressed, a ping in the file is
\* made of two whole replies, mirrored, and of the right channels.
THEOREM RecordsAreWhole == Spec => []HalvesWhole
  <1>1. DataInv => HalvesWhole
    BY DEF DataInv
  <1> QED
    BY <1>1, DataInit, DataStep, SonarTypeInit, SonarTypeStep, PTL DEF Spec

\* The original program pairs halves taken one right after the other.
THEOREM OriginalPairsPings == Spec => []HalvesTogetherInOriginal
  <1>1. DataInv => HalvesTogetherInOriginal
    BY DEF DataInv
  <1> QED
    BY <1>1, DataInit, DataStep, SonarTypeInit, SonarTypeStep, PTL DEF Spec

-----------------------------------------------------------------------------
(* The settings in the header                                              *)

\* Changes are counted.
LEMMA ChangesCounted ==
    ASSUME SonarTypeOK
    PROVE  /\ \A i \in DOMAIN taken : taken[i].changes \in Nat
           /\ \A r \in request : r.changes \in Nat
  <1>1. \A i \in DOMAIN taken : taken[i] \in Scan
    BY DEF SonarTypeOK
  <1>2. \A r \in request : r \in Scan
    BY DEF SonarTypeOK
  <1>3. \A s \in Scan : s.changes \in Nat
    BY DEF Scan
  <1> QED
    BY <1>1, <1>2, <1>3

\* Sending: the new request has the settings and changes of now.
LEMMA SentInOrder ==
    ASSUME ChangesInOrder, NEW pack, SendSwitches(pack, sonarSwitches), SonarTypeOK, ~Waiting',
           UNCHANGED <<sonarSwitches, taken, changes>>
    PROVE  ChangesInOrder' /\ \A r \in request' : r.changes = changes
  <1>1. \A r \in request' : r.changes = changes /\ r.set = sonarSwitches'
    BY DEF SendSwitches
  <1>2. changes \in Nat
    BY DEF SonarTypeOK
  <1> QED
    BY <1>1, <1>2 DEF ChangesInOrder

LEMMA OrderAnswer == ASSUME SonarTypeOK, ChangesInOrder, Answer PROVE ChangesInOrder'
  <1>1. PICK scan \in request : taken' = Append(taken, scan)
    BY DEF Answer
  <1>2. UNCHANGED <<pc, sonarSwitches, changes>> /\ request' = {}
    BY DEF Answer, program, user
  <1>3. taken \in Seq(Scan) /\ scan \in Scan /\ changes \in Nat
    BY DEF SonarTypeOK
  <1>4. \A i \in DOMAIN taken : taken[i].changes \in Nat
    BY ChangesCounted
  <1>5. scan.changes \in Nat
    BY <1>3 DEF Scan
  <1>6. /\ \A i \in DOMAIN taken : taken'[i] = taken[i]
        /\ DOMAIN taken' = DOMAIN taken \cup {Len(taken) + 1}
        /\ taken'[Len(taken) + 1] = scan
        /\ DOMAIN taken = 1 .. Len(taken) /\ Len(taken) \in Nat
    BY <1>1, <1>3, AppendExtends DEF Extends
  <1>7. /\ \A i \in DOMAIN taken : taken[i].changes <= scan.changes
        /\ scan.changes <= changes
        /\ scan.changes = changes => scan.set = sonarSwitches
        /\ Waiting => scan.changes # changes
    BY DEF ChangesInOrder
  <1>8. \A i, j \in DOMAIN taken' : i <= j => taken'[i].changes <= taken'[j].changes
    <2> SUFFICES ASSUME NEW i \in DOMAIN taken', NEW j \in DOMAIN taken', i <= j
                 PROVE  taken'[i].changes <= taken'[j].changes
      OBVIOUS
    <2>1. CASE i \in DOMAIN taken /\ j \in DOMAIN taken
      BY <1>6, <2>1 DEF ChangesInOrder
    <2>2. CASE i \in DOMAIN taken /\ j = Len(taken) + 1
      BY <1>6, <1>7, <2>2
    <2>3. CASE i = Len(taken) + 1
      <3>1. j = i
        BY <1>6, <2>3
      <3> QED
        BY <1>5, <1>6, <2>3, <3>1
    <2> QED
      BY <1>6, <2>1, <2>2, <2>3
  <1>9. \A i \in DOMAIN taken' : /\ taken'[i].changes <= changes
                                 /\ taken'[i].changes = changes => taken'[i].set = sonarSwitches
                                 /\ Waiting => taken'[i].changes # changes
    <2> SUFFICES ASSUME NEW i \in DOMAIN taken'
                 PROVE  /\ taken'[i].changes <= changes
                        /\ taken'[i].changes = changes => taken'[i].set = sonarSwitches
                        /\ Waiting => taken'[i].changes # changes
      OBVIOUS
    <2>1. CASE i \in DOMAIN taken
      BY <1>6, <2>1 DEF ChangesInOrder
    <2>2. CASE i = Len(taken) + 1
      BY <1>6, <1>7, <2>2
    <2> QED
      BY <1>6, <2>1, <2>2
  <1> QED
    BY <1>2, <1>8, <1>9 DEF ChangesInOrder, Waiting

\* A `+' leaves no request with the new number of changes.
LEMMA OrderKey == ASSUME SonarTypeOK, ChangesInOrder, Getch PROVE ChangesInOrder'
  <1>1. UNCHANGED <<request, taken, sonarSwitches>> /\ changes \in Nat
    BY DEF Getch, link, SonarTypeOK
  <1>2. /\ \A i \in DOMAIN taken : taken[i].changes \in Nat
        /\ \A r \in request : r.changes \in Nat
    BY ChangesCounted
  <1>3. CASE changes' = changes + 1
    <2>1. /\ \A i \in DOMAIN taken : taken[i].changes < changes'
          /\ \A r \in request : r.changes < changes'
      BY <1>1, <1>2, <1>3 DEF ChangesInOrder
    <2> QED
      BY <1>1, <1>2, <1>3, <2>1 DEF ChangesInOrder
  <1>4. CASE changes' = changes /\ pc' \in {"ended", "recv"}
    BY <1>1, <1>4 DEF ChangesInOrder, Waiting
  <1> QED
    BY <1>3, <1>4 DEF Getch, OnKey

\* While it asks, nothing on its way or taken has the settings that are asked for.
LEMMA OrderAsk ==
    ASSUME ChangesInOrder, Waiting, UNCHANGED <<request, taken, changes>>
    PROVE  ChangesInOrder'
  BY DEF ChangesInOrder

\* Neither replies nor records are touched by what comes after them.
LEMMA HeaderKept ==
    ASSUME HeaderAsTaken, HalvesWhole, Extends(taken', taken), UNCHANGED outfile
    PROVE  HeaderAsTaken'
  <1> SUFFICES ASSUME NEW i \in DOMAIN outfile
               PROVE  taken'[StarboardOf(outfile[i])] = taken[StarboardOf(outfile[i])]
    BY DEF HeaderAsTaken, StarboardOf, ChangesBefore
  <1>1. StarboardOf(outfile[i]) \in DOMAIN taken
    BY DEF HalvesWhole
  <1> QED
    BY <1>1 DEF Extends

\* The reply that completes a ping was asked for since the ping before it, so
\* only a change after that can be in the one and not in the other.
LEMMA HeaderWritten ==
    ASSUME SonarTypeOK, DataInv, ChangesInOrder, AskedSince, HeaderAsTaken,
           NEW k \in 1 .. left, Receive(k), StoreStarboard(Received(k))
    PROVE  HeaderAsTaken' /\ ChangesBefore(Len(outfile) + 1)' = changes
  <1> DEFINE n == Len(taken)
             m == Len(outfile) + 1
  <1>1. PICK r \in Record, p \in DOMAIN taken :
              /\ outfile' = Append(outfile, r)
              /\ StarboardOf(r) = n /\ n \in DOMAIN taken
              /\ r.set = sonarSwitches /\ r.changes = changes
    BY PingWritten
  <1>2. outfile \in Seq(Record) /\ changes \in Nat /\ taken' = taken /\ left > 0
    BY WholeReply DEF SonarTypeOK, Receive
  <1>3. /\ DOMAIN outfile' = DOMAIN outfile \cup {m} /\ DOMAIN outfile = 1 .. Len(outfile)
        /\ Len(outfile') = m /\ outfile'[m] = r /\ Len(outfile) \in Nat
        /\ \A i \in DOMAIN outfile : outfile'[i] = outfile[i]
    BY <1>1, <1>2, AppendExtends DEF Extends
  <1>4. /\ taken[n].changes \in Nat /\ taken[n].changes <= changes
        /\ taken[n].changes = changes => taken[n].set = sonarSwitches
        /\ ChangesBefore(m) \in Nat /\ taken[n].changes >= ChangesBefore(m)
    BY <1>1, <1>2, ChangesCounted DEF ChangesInOrder, AskedSince
  <1> DEFINE Before(i) == IF i = 1 THEN 0 ELSE outfile[i - 1].changes
  <1>5. \A i \in 1 .. m : ChangesBefore(i)' = Before(i) /\ ChangesBefore(i) = Before(i)
    <2> SUFFICES ASSUME NEW i \in 1 .. m PROVE ChangesBefore(i)' = Before(i)
      BY DEF ChangesBefore
    <2>1. CASE i = 1
      BY <2>1 DEF ChangesBefore
    <2>2. CASE i # 1
      <3>1. i - 1 \in DOMAIN outfile
        BY <1>3, <2>2
      <3> QED
        BY <1>3, <2>2, <3>1 DEF ChangesBefore
    <2> QED
      BY <2>1, <2>2
  <1> DEFINE Fits(i, q) == q.set # taken[StarboardOf(q)].set => q.changes > Before(i)
  <1>6. Fits(m, r)
    <2>1. m \in 1 .. m
      BY <1>3
    <2>2. ChangesBefore(m) = Before(m)
      BY <1>5, <2>1
    <2> HIDE DEF Before, m, n
    <2> QED
      BY <1>1, <1>2, <1>4, <2>2
  <1>7. \A i \in DOMAIN outfile : Fits(i, outfile[i])
    <2> SUFFICES ASSUME NEW i \in DOMAIN outfile PROVE Fits(i, outfile[i])
      OBVIOUS
    <2>1. ChangesBefore(i) = Before(i)
      BY <1>3, <1>5
    <2> HIDE DEF Before
    <2> QED
      BY <2>1 DEF HeaderAsTaken
  <1>8. \A i \in DOMAIN outfile' : Fits(i, outfile'[i])
    <2> HIDE DEF Fits, m
    <2> QED
      BY <1>3, <1>6, <1>7
  <1>9. HeaderAsTaken'
    <2> SUFFICES ASSUME NEW i \in DOMAIN outfile',
                        outfile'[i].set # taken'[StarboardOf(outfile'[i])].set
                 PROVE  outfile'[i].changes > ChangesBefore(i)'
      BY DEF HeaderAsTaken, StarboardOf
    <2>1. i \in 1 .. m
      BY <1>3
    <2>2. ChangesBefore(i)' = Before(i)
      BY <1>5, <2>1
    <2> HIDE DEF Before, m
    <2> QED
      BY <1>2, <1>8, <2>2
  <1>10. ChangesBefore(Len(outfile) + 1)' = changes
    <2>1. ChangesBefore(Len(outfile) + 1)' = outfile'[Len(outfile') + 1 - 1].changes
      BY <1>3 DEF ChangesBefore
    <2> QED
      BY <1>1, <1>3, <2>1
  <1> QED
    BY <1>9, <1>10

SetInv == ChangesInOrder /\ AskedSince /\ HeaderAsTaken

\* Steps that neither ask, nor answer, nor write keep what is between the last
\* record and what is outstanding.
LEMMA SinceKept ==
    ASSUME SonarTypeOK, AskedSince, left' <= left, left' \in Nat, changes' >= changes,
           changes' \in Nat, UNCHANGED <<outfile, request, taken>>
    PROVE  AskedSince'
  <1>1. left \in Nat /\ changes \in Nat
    BY LengthFacts DEF SonarTypeOK
  <1>2. ChangesBefore(Len(outfile) + 1)' = ChangesBefore(Len(outfile) + 1)
    BY DEF ChangesBefore
  <1> QED
    BY <1>1, <1>2 DEF AskedSince

LEMMA SetReceive ==
    ASSUME SonarTypeOK, DataInv, SetInv, NEW k \in 1 .. left, Receive(k)
    PROVE  SetInv'
  <1>1. /\ UNCHANGED <<taken, changes, sonarSwitches>> /\ ~Waiting'
        /\ SendSwitches(NextPack, sonarSwitches)
        /\ changes \in Nat
    BY DEF Receive, user, Turn, Waiting, SonarTypeOK
  <1>2. ChangesInOrder' /\ \A r \in request' : r.changes = changes
    BY <1>1, SentInOrder DEF SetInv
  <1>3. ~(left' > 0)
    BY LengthFacts DEF Receive, SonarTypeOK
  <1>4. CASE StorePort(Received(k))
    <2>1. outfile' = outfile /\ Extends(taken', taken)
      BY <1>1, <1>4 DEF StorePort, Extends
    <2>2. HeaderAsTaken'
      BY <2>1, HeaderKept DEF DataInv, SetInv
    <2>3. ChangesBefore(Len(outfile) + 1)' = ChangesBefore(Len(outfile) + 1)
      BY <2>1 DEF ChangesBefore
    <2>4. AskedSince'
      BY <1>1, <1>2, <1>3, <2>3 DEF SetInv, AskedSince
    <2> QED
      BY <1>2, <2>2, <2>4 DEF SetInv
  <1>5. CASE StoreStarboard(Received(k))
    <2>1. HeaderAsTaken' /\ ChangesBefore(Len(outfile) + 1)' = changes
      BY <1>5, HeaderWritten DEF SetInv
    <2>2. AskedSince'
      BY <1>1, <1>2, <1>3, <2>1 DEF AskedSince
    <2> QED
      BY <1>2, <2>1, <2>2 DEF SetInv
  <1> QED
    BY <1>4, <1>5 DEF Receive

LEMMA SetAnswer == ASSUME SonarTypeOK, DataInv, SetInv, Answer PROVE SetInv'
  <1>1. PICK scan \in request : taken' = Append(taken, scan) /\ scan \in Scan
    BY DEF Answer, SonarTypeOK
  <1>2. /\ Extends(taken', taken) /\ Len(taken') = Len(taken) + 1
        /\ taken'[Len(taken')] = scan
        /\ UNCHANGED <<outfile, changes>> /\ request' = {}
    BY <1>1, AppendExtends DEF Answer, program, user, SonarTypeOK
  <1>3. ChangesBefore(Len(outfile) + 1)' = ChangesBefore(Len(outfile) + 1)
    BY <1>2 DEF ChangesBefore
  <1>4. AskedSince'
    BY <1>2, <1>3 DEF SetInv, AskedSince
  <1>5. HeaderAsTaken'
    BY <1>2, HeaderKept DEF DataInv, SetInv
  <1> QED
    BY <1>4, <1>5, OrderAnswer DEF SetInv

LEMMA SetStep == SonarTypeOK /\ DataInv /\ SetInv /\ [Next]_vars => SetInv'
  <1> SUFFICES ASSUME SonarTypeOK, DataInv, ChangesInOrder, AskedSince, HeaderAsTaken,
                      [Next]_vars
               PROVE  SetInv'
    BY DEF SetInv
  <1>1. HalvesWhole /\ left \in Nat /\ changes \in Nat
    BY LengthFacts DEF DataInv, SonarTypeOK
  <1>2. CASE Start
    <2>1. /\ UNCHANGED <<taken, changes, outfile, sonarSwitches, left>> /\ ~Waiting'
          /\ SendSwitches(packNumber, sonarSwitches)
          /\ ~(left > 0)
      BY <1>2 DEF Start, DataInv, Outstanding, user, Waiting, NotYet
    <2>2. ChangesInOrder' /\ \A r \in request' : r.changes = changes
      BY <2>1, SentInOrder
    <2>3. HeaderAsTaken'
      BY <1>1, <2>1, HeaderKept DEF Extends
    <2>4. ChangesBefore(Len(outfile) + 1)' = ChangesBefore(Len(outfile) + 1)
      BY <2>1 DEF ChangesBefore
    <2>5. AskedSince'
      BY <1>1, <2>1, <2>2, <2>4 DEF AskedSince
    <2> QED
      BY <2>2, <2>3, <2>5 DEF SetInv
  <1>3. CASE Getch
    <2>1. UNCHANGED <<outfile, request, taken, left>> /\ changes' >= changes /\ changes' \in Nat
      BY <1>1, <1>3 DEF Getch, OnKey, link
    <2>2. HeaderAsTaken'
      BY <1>1, <2>1, HeaderKept DEF Extends
    <2> QED
      BY <1>1, <1>3, <2>1, <2>2, OrderKey, SinceKept DEF SetInv
  <1>4. ASSUME UNCHANGED <<outfile, request, taken, changes>>, left' \in Nat, left' <= left,
               ChangesInOrder'
        PROVE  SetInv'
    BY <1>1, <1>4, HeaderKept, SinceKept DEF Extends, SetInv
  <1>5. CASE AskRange \/ AskFreq \/ AskGain
    <2>1. UNCHANGED <<outfile, request, taken, changes, left>> /\ Waiting
      BY <1>5 DEF AskRange, AskFreq, AskGain, link, Waiting
    <2> QED
      BY <1>1, <1>4, <2>1, OrderAsk
  <1>6. CASE ReadSettings
    <2>1. UNCHANGED <<outfile, request, taken, changes, left>> /\ ~Waiting'
          /\ request = {} /\ DOMAIN taken = {}
      BY <1>6 DEF ReadSettings, link, user, Waiting, DataInv, Outstanding, NotYet
    <2>2. ChangesInOrder'
      BY <2>1 DEF ChangesInOrder
    <2> QED
      BY <1>1, <1>4, <2>1, <2>2
  <1>7. ASSUME UNCHANGED <<sonarSwitches, outfile, request, taken, changes>>,
               left' \in Nat, left' <= left, Waiting' => Waiting
        PROVE  SetInv'
    <2>1. ChangesInOrder'
      BY <1>7 DEF ChangesInOrder
    <2> QED
      BY <1>4, <1>7, <2>1
  <1>8. ASSUME NEW k \in 1 .. left, ReceivePart(k) PROVE SetInv'
    <2>1. left' \in Nat /\ left' <= left /\ ~Waiting'
      BY <1>1, <1>8 DEF ReceivePart, Turn, Waiting
    <2> QED
      BY <1>7, <1>8, <2>1 DEF ReceivePart, user
  <1>9. CASE Lose
    BY <1>1, <1>7, <1>9 DEF Lose, program, user, Waiting
  <1>10. CASE ReceiveNothing \/ NoKey \/ UNCHANGED vars
    BY <1>1, <1>7, <1>10 DEF ReceiveNothing, NoKey, Turn, vars, program, link, user, Waiting
  <1>11. ASSUME NEW chars \in Typed, Type(chars) PROVE SetInv'
    BY <1>1, <1>7, <1>11 DEF Type, program, link, Waiting
  <1>12. CASE Answer
    BY <1>12, SetAnswer DEF SetInv
  <1>13. ASSUME NEW k \in 1 .. left, Receive(k) PROVE SetInv'
    BY <1>13, SetReceive DEF SetInv
  <1> QED
    BY <1>2, <1>3, <1>5, <1>6, <1>8, <1>9, <1>10, <1>11, <1>12, <1>13 DEF Next, Program, Recv

\* However often the user changes the settings, and at whatever moment, the
\* header of a ping tells those its starboard half was taken with, but for the
\* one ping that was under way.
THEOREM HeaderTellsSettings == Spec => []HeaderAsTaken
  <1>1. Init => SetInv
    BY DEF Init, SetInv, ChangesInOrder, AskedSince, ChangesBefore, HeaderAsTaken
  <1>2. SetInv => HeaderAsTaken
    BY DEF SetInv
  <1> QED
    BY <1>1, <1>2, SetStep, DataInit, DataStep, SonarTypeInit, SonarTypeStep, PTL DEF Spec

-----------------------------------------------------------------------------
(* What the sonar is sent                                                  *)

\* How far the settings are limited, question by question.
Asking ==
    /\ pc \notin {"settings", "range"} => sonarSwitches.range \in 10 .. 200
    /\ pc \notin {"settings", "range", "freq"} =>
          sonarSwitches.freq \in 0 .. 2 /\ (sonarSwitches.freq = 2 => sonarSwitches.range <= 50)
    /\ pc \notin {"settings", "range", "freq", "gain"} =>
          /\ sonarSwitches.gain \in 0 .. 40
          /\ IndexToRange[rangeIndex + 1] >= sonarSwitches.range

LimitInv == Asking /\ SettingsHold

LEMMA LimitAsk ==
    ASSUME SonarTypeOK, LimitInv, AskRange \/ AskFreq \/ AskGain
    PROVE  LimitInv'
  <1>1. PICK i \in DOMAIN keys, j \in DOMAIN keys :
           \/ AskRange /\ ReadLine("range", i, j) /\ sonarSwitches' = WithRange(sonarSwitches, keys[i])
           \/ AskFreq /\ ReadLine("freq", i, j) /\ sonarSwitches' = WithFreq(sonarSwitches, keys[i])
           \/ AskGain /\ ReadLine("gain", i, j) /\ sonarSwitches' = WithGain(sonarSwitches, keys[i])
    BY DEF AskRange, AskFreq, AskGain
  <1>2. keys[i] \in Int /\ sonarSwitches \in Settings
    BY <1>1, LineType DEF SonarTypeOK
  <1>3. build = "future" /\ UNCHANGED <<build, request, taken, outfile>>
    BY DEF AskRange, AskFreq, AskGain, link, SonarTypeOK
  <1>4. SettingsHold'
    BY <1>3 DEF LimitInv, SettingsHold
  <1>5. Asking'
    <2>1. CASE AskRange /\ sonarSwitches' = WithRange(sonarSwitches, keys[i])
      BY <1>2, <2>1, RangeLimit DEF AskRange, Asking
    <2>2. CASE AskFreq /\ sonarSwitches' = WithFreq(sonarSwitches, keys[i])
      BY <1>2, <2>2, FreqLimit DEF AskFreq, Asking, LimitInv
    <2>3. CASE AskGain /\ sonarSwitches' = WithGain(sonarSwitches, keys[i])
      <3>1. /\ sonarSwitches'.range \in 10 .. 200 /\ sonarSwitches'.freq \in 0 .. 2
            /\ sonarSwitches'.freq = 2 => sonarSwitches'.range <= 50
            /\ sonarSwitches'.gain \in 0 .. 40
        <4>1. /\ sonarSwitches'.range = sonarSwitches.range
              /\ sonarSwitches'.freq = sonarSwitches.freq
              /\ sonarSwitches'.gain \in 0 .. 40
          BY <1>2, <2>3, GainLimit
        <4> QED
          BY <2>3, <4>1 DEF AskGain, Asking, LimitInv
      <3>2. IndexToRange[rangeIndex' + 1] >= sonarSwitches'.range
        BY <2>3, <3>1, IndexCovers DEF AskGain
      <3> QED
        BY <3>1, <3>2 DEF Asking
    <2> QED
      BY <1>1, <2>1, <2>2, <2>3
  <1> QED
    BY <1>4, <1>5 DEF LimitInv

LEMMA LimitRead == ASSUME SonarTypeOK, LimitInv, ReadSettings PROVE LimitInv'
  <1>1. /\ asked \in Settings /\ sonarSwitches \in Settings
        /\ UNCHANGED <<build, request, taken, outfile, asked>> /\ pc' = "start"
        /\ sonarSwitches' = Switches(sonarSwitches, asked)
        /\ rangeIndex' = GetRangeIndex(sonarSwitches'.range)
    BY DEF ReadSettings, SonarTypeOK, link, user
  <1>2. /\ sonarSwitches' \in Settings /\ Takes(sonarSwitches')
        /\ Takes(asked) => sonarSwitches' = asked
    BY <1>1, SwitchesTake
  <1>3. IndexToRange[rangeIndex' + 1] >= sonarSwitches'.range
    BY <1>1, <1>2, IndexCovers DEF Takes, Settings
  <1>4. Asking'
    BY <1>1, <1>2, <1>3 DEF Asking, Takes
  <1>5. SettingsHold'
    BY <1>1, <1>2 DEF LimitInv, SettingsHold
  <1> QED
    BY <1>4, <1>5 DEF LimitInv

\* What is sent and written while the settings are complete.
LEMMA LimitSend ==
    ASSUME SonarTypeOK, LimitInv, NEW pack, SendSwitches(pack, sonarSwitches),
           pc \in {"start", "recv"}, pc' \in {"recv", "getch"},
           UNCHANGED <<build, taken, sonarSwitches, rangeIndex, asked>>,
           \A n \in DOMAIN outfile' :
               \/ n \in DOMAIN outfile /\ outfile'[n] = outfile[n]
               \/ outfile'[n].set = sonarSwitches /\ outfile'[n].index = rangeIndex
    PROVE  LimitInv'
  <1>1. Takes(sonarSwitches) /\ IndexToRange[rangeIndex + 1] >= sonarSwitches.range
    BY DEF LimitInv, Asking, Takes
  <1>2. \A r \in request' : Takes(r.set)
    BY <1>1 DEF SendSwitches
  <1>3. \A n \in DOMAIN outfile' :
           IndexToRange[outfile'[n].index + 1] >= outfile'[n].set.range
    BY <1>1 DEF LimitInv, SettingsHold
  <1>4. SettingsHold'
    BY <1>2, <1>3 DEF LimitInv, SettingsHold
  <1>5. Asking'
    BY DEF LimitInv, Asking
  <1> QED
    BY <1>4, <1>5 DEF LimitInv

LEMMA LimitReceive ==
    ASSUME SonarTypeOK, LimitInv, NEW k \in 1 .. left, Receive(k)
    PROVE  LimitInv'
  <1>1. /\ SendSwitches(NextPack, sonarSwitches) /\ pc = "recv" /\ pc' \in {"recv", "getch"}
        /\ UNCHANGED <<build, taken, sonarSwitches, rangeIndex, asked>>
    BY DEF Receive, Turn, user
  <1>2. ASSUME NEW n \in DOMAIN outfile'
        PROVE  \/ n \in DOMAIN outfile /\ outfile'[n] = outfile[n]
               \/ outfile'[n].set = sonarSwitches /\ outfile'[n].index = rangeIndex
    <2>1. CASE StorePort(Received(k))
      BY <2>1 DEF StorePort
    <2>2. CASE StoreStarboard(Received(k))
      <3>1. PICK r : outfile' = Append(outfile, r) /\ r.set = sonarSwitches /\ r.index = rangeIndex
        BY <2>2 DEF StoreStarboard, WriteOnePingData
      <3>2. outfile \in Seq(Record)
        BY DEF SonarTypeOK
      <3> QED
        BY <3>1, <3>2
    <2> QED
      BY <2>1, <2>2 DEF Receive
  <1> QED
    BY <1>1, <1>2, LimitSend

LEMMA LimitAnswer == ASSUME SonarTypeOK, LimitInv, Answer PROVE LimitInv'
  <1>1. PICK scan \in request : taken' = Append(taken, scan) /\ scan \in Scan
    BY DEF Answer, SonarTypeOK
  <1>2. /\ UNCHANGED <<build, pc, sonarSwitches, rangeIndex, outfile, asked>> /\ request' = {}
        /\ taken \in Seq(Scan) /\ Takes(scan.set)
    BY DEF Answer, program, user, SonarTypeOK, LimitInv, SettingsHold
  <1>3. \A i \in DOMAIN taken' : taken'[i] = scan \/ (i \in DOMAIN taken /\ taken'[i] = taken[i])
    BY <1>1, <1>2, AppendExtends DEF Extends
  <1>4. SettingsHold'
    BY <1>2, <1>3 DEF LimitInv, SettingsHold
  <1> QED
    BY <1>2, <1>4 DEF LimitInv, Asking

LEMMA LimitStep == SonarTypeOK /\ LimitInv /\ [Next]_vars => LimitInv'
  <1> SUFFICES ASSUME SonarTypeOK, LimitInv, [Next]_vars PROVE LimitInv'
    OBVIOUS
  <1>1. CASE Start
    BY <1>1, LimitSend DEF Start, user
  <1>2. ASSUME UNCHANGED <<build, request, taken, outfile, sonarSwitches, rangeIndex, asked>>,
               pc' = pc \/ (pc \in {"recv", "getch"} /\ pc' \in {"recv", "getch", "range", "ended"})
        PROVE  LimitInv'
    BY <1>2 DEF LimitInv, Asking, SettingsHold
  <1>3. ASSUME NEW k \in 1 .. left, ReceivePart(k) PROVE LimitInv'
    BY <1>2, <1>3 DEF ReceivePart, Turn, user
  <1>4. CASE Lose \/ ReceiveNothing \/ NoKey \/ Getch \/ UNCHANGED vars
    BY <1>2, <1>4 DEF Lose, ReceiveNothing, NoKey, Getch, OnKey, Turn, vars, program, link, user
  <1>5. ASSUME NEW chars \in Typed, Type(chars) PROVE LimitInv'
    BY <1>2, <1>5 DEF Type, program, link
  <1> QED
    BY <1>1, <1>3, <1>4, <1>5, LimitAsk, LimitRead, LimitReceive, LimitAnswer
       DEF Next, Program, Recv

\* Whatever integers are asked for and whatever characters are typed, the sonar
\* is only sent settings it takes, the file never has the index of a shorter
\* range, and numbers the sonar takes are kept where they are read as numbers.
THEOREM SettingsAreTaken == Spec => []SettingsHold
  <1>1. Init => LimitInv
    BY DEF Init, LimitInv, Asking, SettingsHold
  <1>2. LimitInv => SettingsHold
    BY DEF LimitInv
  <1> QED
    BY <1>1, <1>2, LimitStep, SonarTypeInit, SonarTypeStep, PTL DEF Spec
=============================================================================
