------------------------------ MODULE AUVComms ------------------------------
(***************************************************************************)
(* The sketch AUV_Comms.ino on both radios: SHORE talks to an operator's   *)
(* terminal, the other one to the vehicle's BeagleBone.  Every action is   *)
(* one of the link's, or one of the sketch's between two calls of it, with *)
(* what the sketch does before the next call.                              *)
(*                                                                         *)
(* A line or message is the sequence of its words.  A setting's key and    *)
(* the register value the look-up tables give it are the same constant.    *)
(***************************************************************************)
EXTENDS ReliableDatagram, Sequences

CONSTANTS
    Bw, Sf,            \* keys of bwLUT and sfLUT (registers 1D and 1E)
    Zero,              \* the octet 0, what set[] holds at power-on
    MODE, MODESOLO, RCVD, PING,  \* command keywords
    Line,              \* lines that may be typed at each node
    MaxTyped,          \* bound: calls of a node after which nothing is typed
    Pingback, HelpMsg  \* the sketch's own messages

Keyword == {MODE, PING, RCVD}

ASSUME Registers   == Config = [bw : Bw \cup {Zero}, sf : Sf \cup {Zero}]
ASSUME Vocabulary  == /\ Bw \cap Sf = {}
                      /\ (Keyword \cup {MODESOLO}) \cap (Bw \cup Sf \cup Config) = {}
ASSUME LinesAreSent == /\ \A n \in Node : Line[n] \subseteq Msg
                       /\ {Pingback, HelpMsg} \subseteq Msg
                       /\ \A c \in Config : <<RCVD, c>> \in Msg
ASSUME Sentences == \A m \in Msg : Len(m) \in Nat /\ DOMAIN m = 1 .. Len(m)
ASSUME KeywordsDiffer == /\ MODE \notin {MODESOLO, RCVD, PING}
                         /\ RCVD \notin {MODESOLO, PING}

VARIABLES
    set,     \* set[0] and set[1]
    at,      \* where the sketch is
    buf,     \* {packet} recvfromAck() returned
    word,    \* words of it the sketch has looked at
    remote,  \* remoteControl
    \* history
    plain,     \* uids of the shore's calls for lines without a keyword
    conveyed,  \* uids of the messages the AUV printed on its UART
    refused    \* `cannot change mode' was the last answer to the operator

appVars == <<set, at, buf, word, remote, plain, conveyed, refused>>
vars    == <<linkVars, appVars>>

Place == {"loop",              \* top of loop()
          "transmit",          \* in sendtoWait(), called from there
          "modeChangeLocal",
          "modeChangeRemote",
          "ping",
          "apply",             \* modeChangeRemote(), acknowledged
          "tokens"}            \* the loop over the words of a message

InCall(n) == at[n] \in {"transmit", "modeChangeLocal", "modeChangeRemote", "ping"}

AppTypeOK ==
    /\ set  \in [Node -> Config]
    /\ at   \in [Node -> Place]
    /\ buf  \in [Node -> SUBSET DataPacket]
    /\ word \in [Node -> Nat]
    /\ remote   \in [Node -> BOOLEAN]
    /\ plain    \in SUBSET Nat
    /\ conveyed \in SUBSET Nat
    /\ refused  \in [Node -> BOOLEAN]

TypeOK == LinkTypeOK /\ AppTypeOK

NoSettings == [bw |-> Zero, sf |-> Zero]

Init ==
    /\ LinkInit
    /\ set    = [n \in Node |-> NoSettings]
    /\ at     = [n \in Node |-> "loop"]
    /\ buf    = [n \in Node |-> {}]
    /\ word   = [n \in Node |-> 0]
    /\ remote = [n \in Node |-> FALSE]
    /\ plain    = {}
    /\ conveyed = {}
    /\ refused  = [n \in Node |-> FALSE]

\* Reports and debug output do not show; this one the peer acts upon.  What
\* follows the keyword spells the settings and is read by nobody.
Confirmation(c) == <<RCVD, c>>

GoTo(n, place) == at' = [at EXCEPT ![n] = place]

-----------------------------------------------------------------------------
(* Settings                                                                *)

StartsWith(line, w) == Len(line) > 0 /\ line[1] = w

LocalSetUnchecked(old, line) ==
    [bw |-> IF Len(line) >= 2 THEN line[2] ELSE old.bw,
     sf |-> IF Len(line) >= 3 THEN line[3] ELSE old.sf]

LocalSetOffByOne(old, line) ==
    [bw |-> IF Len(line) >= 2 /\ line[2] \in Bw THEN line[2] ELSE old.bw,
     sf |-> IF Len(line) >= 4 /\ line[3] \in Sf THEN line[3] ELSE old.sf]

\* modeChangeLocal(): the second word is taken for a bandwidth, the third
\* for a spreading factor, words that are missing are not missed.
LocalSet(old, line) ==
    [bw |-> IF Len(line) >= 2 /\ line[2] \in Bw THEN line[2] ELSE old.bw,
     sf |-> IF Len(line) >= 3 /\ line[3] \in Sf THEN line[3] ELSE old.sf]

Malformed(line) ==
    \/ Len(line) >= 2 /\ line[2] \notin Bw
    \/ Len(line) >= 3 /\ line[3] \notin Sf

\* modeChangeRemote(): keys anywhere in the message, the last one wins.
Places(line, words) == {i \in DOMAIN line : line[i] \in words}

IsLastOf(new, line, keys, old) ==
    IF Places(line, keys) = {} THEN new = old
    ELSE \E i \in Places(line, keys) :
            new = line[i] /\ \A j \in Places(line, keys) : j <= i

IsRemoteSet(new, old, line) ==
    IsLastOf(new.bw, line, Bw, old.bw) /\ IsLastOf(new.sf, line, Sf, old.sf)

Understood(line) == Cardinality(Places(line, Bw \cup Sf)) >= 2

-----------------------------------------------------------------------------
(* Serial input: receiveLine() and transmitLine()                          *)

MayType(n, line) ==
    /\ at[n] = "loop"
    /\ ctl[n] = "app"
    /\ calls[n] < MaxTyped[n]
    /\ line \in Line[n]

\* -changemode with a word that is no setting: -1, but set[] has changed.
TypeMalformed(n, line) ==
    /\ MayType(n, line)
    /\ Running(n)
    /\ StartsWith(line, MODE) \/ StartsWith(line, MODESOLO)
    /\ Malformed(line)
    /\ set' = [set EXCEPT ![n] = LocalSet(@, line)]
    /\ refused' = [refused EXCEPT ![n] = FALSE]
    /\ UNCHANGED <<linkVars, at, buf, word, remote, plain, conveyed>>

TypeMode(n, line) ==
    /\ MayType(n, line)
    /\ StartsWith(line, MODE)
    /\ ~Malformed(line)
    /\ SendtoWait(n, line)
    /\ set' = [set EXCEPT ![n] = LocalSet(@, line)]
    /\ refused' = [refused EXCEPT ![n] = FALSE]
    /\ GoTo(n, "modeChangeLocal")
    /\ UNCHANGED <<buf, word, remote, plain, conveyed>>

\* -changeme: this radio only, at once.
TypeModeSolo(n, line) ==
    /\ MayType(n, line)
    /\ StartsWith(line, MODESOLO)
    /\ ~Malformed(line)
    /\ ChangeModem(n, LocalSet(set[n], line))
    /\ set' = [set EXCEPT ![n] = LocalSet(@, line)]
    /\ refused' = [refused EXCEPT ![n] = FALSE]
    /\ UNCHANGED <<at, buf, word, remote, plain, conveyed>>

\* Any other line goes to the peer as it is.
TypeLine(n, line) ==
    /\ MayType(n, line)
    /\ ~StartsWith(line, MODE)
    /\ ~StartsWith(line, MODESOLO)
    /\ SendtoWait(n, line)
    /\ GoTo(n, "transmit")
    /\ plain' = IF n = Shore /\ Places(line, Keyword) = {}
                THEN plain \cup {calls'[n]} ELSE plain
    /\ UNCHANGED <<set, buf, word, remote, conveyed, refused>>

\* battCheck(): no sooner than 30 s after the last one, power has failed.
BattCheck(n) ==
    /\ n = AUV
    /\ at[n] = "loop"
    /\ calls[n] < MaxTyped[n]
    /\ SendtoWait(n, HelpMsg)
    /\ GoTo(n, "transmit")
    /\ UNCHANGED <<set, buf, word, remote, plain, conveyed, refused>>

-----------------------------------------------------------------------------
(* In sendtoWait()                                                         *)

Wait(n) ==
    /\ ListenWait(n) \/ ReAck(n) \/ Discard(n)
    /\ UNCHANGED appVars

Resend(n) == Retransmit(n) /\ UNCHANGED appVars

\* Where sendtoWait() returns to.
AfterAck(place) ==
    CASE place = "modeChangeRemote" -> "apply"
      [] place = "ping"             -> "tokens"
      [] OTHER                      -> "loop"

AfterFailureRegardless(place) == AfterAck(place)
AfterFailure(place) ==
    IF place \in {"modeChangeRemote", "ping"} THEN "tokens" ELSE "loop"

\* sendtoWait() is true: modeChangeRemote() goes on to the registers.
Acknowledged(n) ==
    /\ TakeAck(n)
    /\ GoTo(n, AfterAck(at[n]))
    /\ UNCHANGED <<set, buf, word, remote, plain, conveyed, refused>>

\* sendtoWait() is false: `cannot change mode' from both handshake methods.
Unacknowledged(n) ==
    /\ GiveUp(n)
    /\ GoTo(n, AfterFailure(at[n]))
    /\ refused' = [refused EXCEPT ![n] = @ \/ at[n] = "modeChangeLocal"]
    /\ UNCHANGED <<set, buf, word, remote, plain, conveyed>>

-----------------------------------------------------------------------------
(* Incoming messages: the second half of loop()                            *)

\* No message for the sketch.
Idle(n) ==
    /\ at[n] = "loop"
    /\ ListenApp(n) \/ DropAck(n) \/ Acknowledge(n) \/ Filter(n)
    /\ UNCHANGED appVars

KeepRemote(n)  == remote' = remote
ClearRemote(n) == remote' = [remote EXCEPT ![n] = FALSE]

\* recvfromAck() is true: split the message.
TakeMessage(n) ==
    /\ at[n] = "loop"
    /\ Deliver(n)
    /\ buf'  = [buf EXCEPT ![n] = inp[n]]
    /\ word' = [word EXCEPT ![n] = 0]
    /\ ClearRemote(n)
    /\ GoTo(n, "tokens")
    /\ UNCHANGED <<set, plain, conveyed, refused>>

\* Keywords of message p that the loop over the words has yet to meet.
Ahead(n, p) == {i \in Places(p.msg, Keyword) : i > word[n]}

\* strtok() has come to the next keyword of message p, the i-th word.
NextKeyword(n, p, i) ==
    /\ at[n] = "tokens"
    /\ i \in Ahead(n, p)
    /\ \A j \in Ahead(n, p) : i <= j

GoOnKeepRemote(n, i) == word' = [word EXCEPT ![n] = i] /\ remote' = remote

GoOn(n, i) ==
    /\ word'   = [word EXCEPT ![n] = i]
    /\ remote' = [remote EXCEPT ![n] = TRUE]

KeepSettings(n, c) == set' = set
TakeSettings(n, c) == set' = [set EXCEPT ![n] = c]

\* modeChangeRemote() runs strtok() to the end of its own copy, so no word of
\* the message is left for the caller's strtok(NULL).
WordsBefore(n, p) == word[n]
WordsRead(n, p)   == Len(p.msg)

\* modeChangeRemote() without two settings in the message.
RequestNotUnderstood(n) ==
    /\ \E p \in buf[n] : \E i \in DOMAIN p.msg, c \in Config :
          /\ NextKeyword(n, p, i)
          /\ p.msg[i] = MODE
          /\ ~Understood(p.msg)
          /\ IsRemoteSet(c, set[n], p.msg)
          /\ TakeSettings(n, c)
          /\ GoOn(n, WordsRead(n, p))
    /\ UNCHANGED <<linkVars, at, buf, plain, conveyed, refused>>

\* ... and with two, up to the call of sendtoWait().
Confirm(n) ==
    /\ \E p \in buf[n] : \E i \in DOMAIN p.msg, c \in Config :
          /\ NextKeyword(n, p, i)
          /\ p.msg[i] = MODE
          /\ Understood(p.msg)
          /\ IsRemoteSet(c, set[n], p.msg)
          /\ TakeSettings(n, c)
          /\ SendtoWait(n, Confirmation(c))
          /\ GoOn(n, WordsRead(n, p))
    /\ GoTo(n, "modeChangeRemote")
    /\ UNCHANGED <<buf, plain, conveyed, refused>>

\* The confirmation was acknowledged: write the registers.
Apply(n) ==
    /\ at[n] = "apply"
    /\ ChangeModem(n, set[n])
    /\ GoTo(n, "tokens")
    /\ UNCHANGED <<set, buf, word, remote, plain, conveyed, refused>>

AnswerPing(n) ==
    /\ \E p \in buf[n] : \E i \in DOMAIN p.msg :
          /\ NextKeyword(n, p, i)
          /\ p.msg[i] = PING
          /\ GoOn(n, i)
    /\ SendtoWait(n, Pingback)
    /\ GoTo(n, "ping")
    /\ UNCHANGED <<set, buf, plain, conveyed, refused>>

\* The confirmation arrived: write whatever set[] holds now.
Confirmed(n) ==
    /\ \E p \in buf[n] : \E i \in DOMAIN p.msg :
          /\ NextKeyword(n, p, i)
          /\ p.msg[i] = RCVD
          /\ GoOn(n, i)
    /\ ChangeModem(n, set[n])
    /\ UNCHANGED <<set, at, buf, plain, conveyed, refused>>

ForVehicleNegated(n) == n = AUV /\ remote[n]
ForVehicle(n)        == n = AUV /\ ~remote[n]

\* No more keywords.  The AUV passes on what was not for the radios.
EndOfMessage(n) ==
    /\ at[n] = "tokens"
    /\ \A p \in buf[n] : Ahead(n, p) = {}
    /\ conveyed' = IF ForVehicle(n)
                   THEN conveyed \cup {p.uid : p \in buf[n]} ELSE conveyed
    /\ buf' = [buf EXCEPT ![n] = {}]
    /\ word' = [word EXCEPT ![n] = 0]
    /\ GoTo(n, "loop")
    /\ UNCHANGED <<linkVars, set, remote, plain, refused>>

-----------------------------------------------------------------------------

PowerCycle(n) ==
    /\ Reset(n)
    /\ set'    = [set EXCEPT ![n] = NoSettings]
    /\ buf'    = [buf EXCEPT ![n] = {}]
    /\ word'   = [word EXCEPT ![n] = 0]
    /\ remote' = [remote EXCEPT ![n] = FALSE]
    /\ refused' = [refused EXCEPT ![n] = FALSE]
    /\ GoTo(n, "loop")
    /\ UNCHANGED <<plain, conveyed>>

Typed(n) ==
    \/ BattCheck(n)
    \/ \E line \in Line[n] :
          TypeMalformed(n, line) \/ TypeMode(n, line)
          \/ TypeModeSolo(n, line) \/ TypeLine(n, line)

Words(n) ==
    \/ RequestNotUnderstood(n) \/ Confirm(n) \/ Apply(n)
    \/ AnswerPing(n) \/ Confirmed(n) \/ EndOfMessage(n)

Expire(n) == Resend(n) \/ Unacknowledged(n)
Thread(n) == Wait(n) \/ Acknowledged(n) \/ Idle(n) \/ TakeMessage(n) \/ Words(n)
Radio(n)  == TxDone(n) /\ UNCHANGED appVars

Next ==
    \E n \in Node : Typed(n) \/ Thread(n) \/ Expire(n) \/ Radio(n) \/ PowerCycle(n)

Spec == Init /\ [][Next]_vars

\* The thread of a radio keeps running, transmissions end, and the timer of the
\* wait loop, read after every packet the loop handles, runs out.  The last is
\* strong fairness because the loop also answers what arrives.
Fairness ==
    \A n \in Node :
        /\ WF_vars(Radio(n))
        /\ WF_vars(Thread(n))
        /\ SF_vars(Expire(n))

FairSpec == Spec /\ Fairness

-----------------------------------------------------------------------------
(* Properties                                                              *)

NoRestart == \A n \in Node : resets[n] = 0

\* The sketch of n has message u, or recvfromAck() holds it for the sketch.
Held(n, u) ==
    \/ \E p \in inp[n] : p.uid = u /\ p.id # seen[n]
    \/ at[n] = "tokens" /\ \E p \in buf[n] : p.uid = u

\* The confirmation has reached n and n has yet to act upon it.
HoldsConfirmation(n) ==
    \/ \E p \in inp[n] : p.id # seen[n] /\ ~p.ack /\ StartsWith(p.msg, RCVD)
    \/ \E p \in buf[n] : \E i \in DOMAIN p.msg :
          NextKeyword(n, p, i) /\ p.msg[i] = RCVD

\* In a handshake that the shore begins the AUV is never the one left alone:
\* once it has written the new registers the shore has written the same, or
\* holds the confirmation and the same settings and will, whichever requests,
\* confirmations and acknowledgements were lost or repeated.  For an operator
\* who asks for one configuration, does not use -changeme, and no restarts.
AUVNeverAlone ==
    NoRestart /\ modem[AUV] # Boot =>
        \/ modem[Shore] = modem[AUV]
        \/ HoldsConfirmation(Shore) /\ set[Shore] = modem[AUV]

\* A radio writes only settings that the other one has agreed to: it holds
\* them in set[], so that the registers are all it has yet to write.  Under
\* the same conditions.
SettingsAgreed ==
    NoRestart => \A n \in Node : modem[n] # Boot => set[Peer(n)] = modem[n]

\* The shore's `Transmission successful' for a line without a keyword means
\* that the AUV has printed it on its UART or is about to: no such message
\* is taken for a command, dropped in favour of one, or lost while the AUV
\* waits for an acknowledgement of its own.
LineConveyed ==
    NoRestart =>
        \A u \in acked[Shore] \cap plain : u \in conveyed \/ Held(AUV, u)

\* The AUV prints a message at most once, and in the order of the calls, as
\* long as it is not restarted itself: what is printed is a command that the
\* BeagleBone runs, and an answer that the shore does not hear makes the
\* message come again, however often, even from a shore that was restarted.
ConveyedOnce ==
    resets[AUV] = 0 => \A p \in buf[AUV] : \A u \in conveyed : u < p.uid

\* The sketch always comes back to loop(): a handshake, a ping or a help
\* message ends even if the peer is in one too, or on other settings.
LoopReturns == \A n \in Node : at[n] # "loop" ~> at[n] = "loop"

\* A line without a keyword for which the shore said `Transmission successful'
\* does come out of the AUV's UART, also if the AUV itself is calling.
LinesComeOut ==
    []<>(NoRestart => acked[Shore] \cap plain \subseteq conveyed)

\* ino:441 tells the operator that the mode cannot change: it does not,
\* until the operator asks again.
RefusalIsFinal == [][\A n \in Node : refused[n] => modem'[n] = modem[n]]_vars

\* ino:516 and ino:708: what a node that was told `-received- New settings'
\* writes to its registers are the settings it was told.
AppliesWhatWasConfirmed ==
    \A n \in Node : \A p \in buf[n] : \A i \in DOMAIN p.msg :
        NextKeyword(n, p, i) /\ p.msg[i] = RCVD => p.msg = Confirmation(set[n])

-----------------------------------------------------------------------------
(***************************************************************************)
(* The inductive invariants behind LineConveyed and ConveyedOnce, with     *)
(* restarts and for every line that is typed.                              *)
(***************************************************************************)

\* Sketch and library are one thread; no message is left in the sketch.
ThreadInv ==
    \A n \in Node :
        /\ InCall(n) <=> Sending(n)
        /\ ctl[n] = "recvfromAck" => at[n] = "loop"
        /\ at[n] \in {"loop", "transmit", "modeChangeLocal"} => buf[n] = {}
        /\ at[n] \in {"modeChangeRemote", "apply", "ping"} => remote[n]
        /\ \A p, q \in buf[n] : p = q

Plain(m) == Places(m, Keyword) = {}

\* What has the number of a line without keywords has no keyword.
PlainInv ==
    /\ \A u \in plain : u <= calls[Shore]
    /\ calls[Shore] \in plain => \A m \in out[Shore] : Plain(m)
    /\ \A p \in fifo[Shore] \cup rxBuf[AUV] \cup inp[AUV] :
          ~p.ack /\ p.uid \in plain => Plain(p.msg)
    /\ \A p \in buf[AUV] : p.uid \in plain => Plain(p.msg) /\ ~remote[AUV]

\* What the AUV got and the sketch has done with it.
UARTInv ==
    /\ conveyed \subseteq got[AUV]
    /\ \A p \in buf[AUV] : p.uid \in got[AUV]
    /\ ConveyedOnce
    /\ resets[AUV] = 0 =>
          \A u \in got[AUV] \cap plain : u \in conveyed \/ \E p \in buf[AUV] : p.uid = u

ConveyInv == ThreadInv /\ PlainInv /\ UARTInv

(***************************************************************************)
(* The inductive invariant behind AUVNeverAlone, for an operator who asks  *)
(* for one configuration c.                                                *)
(***************************************************************************)

Request(c) == <<MODE, c.bw, c.sf>>

\* A message that makes neither radio touch its settings.
Harmless(m) == /\ ~StartsWith(m, MODE) /\ ~StartsWith(m, MODESOLO)
               /\ Places(m, {MODE, RCVD}) = {}

\* The operator asks for c and for nothing else, the vehicle for nothing.
OneChange(c) ==
    /\ c \in [bw : Bw, sf : Sf]
    /\ \A line \in Line[Shore] : line = Request(c) \/ Harmless(line)
    /\ \A line \in Line[AUV] : Harmless(line)
    /\ Harmless(Pingback) /\ Harmless(HelpMsg)

\* Messages of n: harmless, the request, or its confirmation.
Says(c, n, m) ==
    \/ Harmless(m)
    \/ n = Shore /\ set[Shore] = c /\ m = Request(c)
    \/ n = AUV /\ set[Shore] = c /\ set[AUV] = c /\ m = Confirmation(c)

MessagesInv(c) ==
    \A n \in Node :
        /\ \A m \in out[n] : Says(c, n, m)
        /\ \A p \in fifo[n] \cup rxBuf[Peer(n)] \cup inp[Peer(n)] :
              ~p.ack => Says(c, n, p.msg)
        /\ \A p \in buf[Peer(n)] : Says(c, n, p.msg)

\* What carries the number of the AUV's current call is what it sends.
CurrentInv ==
    /\ \A m, k \in out[AUV] : m = k
    /\ \A p \in fifo[AUV] \cup rxBuf[Shore] \cup inp[Shore] :
          ~p.ack /\ Sending(AUV) /\ p.uid = calls[AUV] => p.msg \in out[AUV]

PlaceInv(c) ==
    /\ at[Shore] \notin {"modeChangeRemote", "apply"}
    /\ at[AUV] \in {"modeChangeRemote", "apply"} => set[AUV] = c /\ set[Shore] = c
    /\ at[AUV] = "modeChangeRemote" => out[AUV] = {Confirmation(c)}

\* The shore is on the new settings or will be.
ShoreFollows(c) == modem[Shore] = c \/ HoldsConfirmation(Shore)

RegistersInv(c) ==
    /\ \A n \in Node : modem[n] \in {Boot, c}
    /\ modem[AUV] # Boot => set[Shore] = c /\ ShoreFollows(c)
    /\ modem[Shore] # Boot => set[AUV] = c
    /\ at[AUV] = "apply" => ShoreFollows(c)
    /\ at[AUV] = "modeChangeRemote" /\ calls[AUV] \in got[Shore] => ShoreFollows(c)

HandshakeInv(c) ==
    NoRestart => MessagesInv(c) /\ CurrentInv /\ PlaceInv(c) /\ RegistersInv(c)

\* The handshake, whichever configuration the operator of an instance asks for.
OneChangeInv ==
    \A c \in [bw : Bw, sf : Sf] : OneChange(c) => HandshakeInv(c)
=============================================================================
