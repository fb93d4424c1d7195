-------------------------- MODULE ReliableDatagram --------------------------
(***************************************************************************)
(* RHReliableDatagram on the two radios: a thread per node that is either  *)
(* in the sketch, in the wait loop of sendtoWait(), or inside              *)
(* recvfromAck() while the acknowledgement it owes is transmitted.         *)
(*                                                                         *)
(* Both radios number their messages in one octet and remember the number  *)
(* of the last one delivered, so whether a message is new is decided by a  *)
(* comparison modulo SeqMod.  The uid of a packet, and the variables under *)
(* `history', say which message it really is.                              *)
(***************************************************************************)
EXTENDS RF95, FiniteSets

CONSTANTS
    Retries,   \* RETRIES
    MaxSend,   \* bound: sendtoWait() calls of each node
    MaxGap,    \* bound: calls of a node since its last delivered message
    MaxResets  \* bound: resets of each node

ASSUME RetriesBound == Retries \in Nat
ASSUME CallBounds   == MaxSend \in [Node -> Nat] /\ MaxResets \in [Node -> Nat]
ASSUME GapBound     == MaxGap \in 1 .. (SeqMod - 2)

VARIABLES
    ctl,     \* where the thread is
    seq,     \* _lastSequenceNumber
    tries,   \* `retries' of the current call: transmissions so far
    out,     \* {payload} of the current call
    seen,    \* _seenIds[peer]
    inp,     \* {packet} recvfromAck() holds while it is acknowledged
    \* history
    calls,   \* sendtoWait() calls made, the uid of the latest
    acked,   \* uids of the calls that returned true
    got,     \* uids of the peer's messages delivered to the sketch
    last,    \* the latest of them
    resets   \* resets of the node

threadVars  == <<ctl, seq, tries, out, seen, inp>>
historyVars == <<calls, acked, got, last, resets>>
linkVars    == <<radioVars, threadVars, historyVars>>

Control == {"app",          \* the sketch runs
            "sent",         \* sendtoWait(): packet handed over, not yet polled
            "waiting",      \* sendtoWait(): polling for the acknowledgement
            "recvfromAck"}  \* recvfromAck(): acknowledgement handed over

LinkTypeOK ==
    /\ RadioTypeOK
    /\ ctl    \in [Node -> Control]
    /\ seq    \in [Node -> Id]
    /\ tries  \in [Node -> 0 .. (Retries + 1)]
    /\ out    \in [Node -> SUBSET Msg]
    /\ seen   \in [Node -> Id]
    /\ inp    \in [Node -> SUBSET Packet]
    /\ calls  \in [Node -> Nat]
    /\ acked  \in [Node -> SUBSET Nat]
    /\ got    \in [Node -> SUBSET Nat]
    /\ last   \in [Node -> Nat]
    /\ resets \in [Node -> Nat]

LinkInit ==
    /\ RadioInit
    /\ ctl    = [n \in Node |-> "app"]
    /\ seq    = [n \in Node |-> 0]
    /\ tries  = [n \in Node |-> 0]
    /\ out    = [n \in Node |-> {}]
    /\ seen   = [n \in Node |-> 0]
    /\ inp    = [n \in Node |-> {}]
    /\ calls  = [n \in Node |-> 0]
    /\ acked  = [n \in Node |-> {}]
    /\ got    = [n \in Node |-> {}]
    /\ last   = [n \in Node |-> 0]
    /\ resets = [n \in Node |-> 0]

Data(i, u, m) == [ack |-> FALSE, id |-> i, uid |-> u, msg |-> m]
AckOf(p)      == [ack |-> TRUE, id |-> p.id, uid |-> p.uid, msg |-> AckMsg]
Sending(n)    == ctl[n] \in {"sent", "waiting"}

-----------------------------------------------------------------------------
(* sendtoWait()                                                            *)

\* ++_lastSequenceNumber, an octet.
NextSeqNoWrap(n) == seq[n] + 1
NextSeqStuck(n)  == seq[n]
NextSeq(n)       == (seq[n] + 1) % SeqMod

\* The call up to the first transmission.  The last conjunct of the guard
\* is a bound on the environment: fewer than MaxGap calls in a row are lost.
\* It leaves out hours of the AUV's help calls that nobody hears.
SendtoWait(n, m) ==
    LET id == NextSeq(n)
        u  == calls[n] + 1
    IN /\ ctl[n] = "app"
       /\ Running(n)
       /\ u <= MaxSend[n]
       /\ u - last[Peer(n)] <= MaxGap
       /\ seq'   = [seq EXCEPT ![n] = id]
       /\ tries' = [tries EXCEPT ![n] = 1]
       /\ out'   = [out EXCEPT ![n] = {m}]
       /\ calls' = [calls EXCEPT ![n] = u]
       /\ ctl'   = [ctl EXCEPT ![n] = "sent"]
       /\ Send(n, Data(id, u, m))
       /\ UNCHANGED <<rxBuf, modem, seen, inp, acked, got, last, resets>>

RetransmitUncounted(n) ==
    /\ ctl[n] = "waiting"
    /\ Running(n)
    /\ tries[n] <= Retries
    /\ ctl' = [ctl EXCEPT ![n] = "sent"]
    /\ \E m \in out[n] : Send(n, Data(seq[n], calls[n], m))
    /\ UNCHANGED <<rxBuf, modem, seq, tries, out, seen, inp, historyVars>>

\* The timeout is exhausted and retries are left.
Retransmit(n) ==
    /\ ctl[n] = "waiting"
    /\ Running(n)
    /\ tries[n] <= Retries
    /\ tries' = [tries EXCEPT ![n] = @ + 1]
    /\ ctl'   = [ctl EXCEPT ![n] = "sent"]
    /\ \E m \in out[n] : Send(n, Data(seq[n], calls[n], m))
    /\ UNCHANGED <<rxBuf, modem, seq, out, seen, inp, historyVars>>

\* The timeout is exhausted and so are the retries: return false.
GiveUp(n) ==
    /\ ctl[n] = "waiting"
    /\ Running(n)
    /\ tries[n] > Retries
    /\ ctl' = [ctl EXCEPT ![n] = "app"]
    /\ out' = [out EXCEPT ![n] = {}]
    /\ UNCHANGED <<radioVars, seq, tries, seen, inp, historyVars>>

\* waitAvailableTimeout() polls and there is nothing.
ListenWait(n) ==
    /\ Sending(n)
    /\ Running(n)
    /\ Listen(n)
    /\ ctl' = [ctl EXCEPT ![n] = "waiting"]
    /\ UNCHANGED <<modem, seq, tries, out, seen, inp, historyVars>>

IsAnyAck(n, p)  == p.ack
IsOurAck(n, p)  == p.ack /\ p.id = seq[n]
IsAnyData(n, p) == ~p.ack
IsSeen(n, p)    == ~p.ack /\ p.id = seen[n]

\* The acknowledgement of this call: return true.
TakeAck(n) ==
    /\ Sending(n)
    /\ Running(n)
    /\ \E p \in rxBuf[n] : IsOurAck(n, p)
    /\ TakeBuffer(n)
    /\ ctl'   = [ctl EXCEPT ![n] = "app"]
    /\ out'   = [out EXCEPT ![n] = {}]
    /\ acked' = [acked EXCEPT ![n] = @ \cup {calls[n]}]
    /\ UNCHANGED <<modem, seq, tries, seen, inp, calls, got, last, resets>>

\* The peer repeats a message that was delivered: acknowledge it again.
ReAck(n) ==
    /\ Sending(n)
    /\ Running(n)
    /\ \E p \in rxBuf[n] : IsSeen(n, p) /\ TakeAndSend(n, AckOf(p))
    /\ ctl' = [ctl EXCEPT ![n] = "waiting"]
    /\ UNCHANGED <<modem, seq, tries, out, seen, inp, historyVars>>

\* Anything else that arrives during the wait is thrown away.
Discard(n) ==
    /\ Sending(n)
    /\ Running(n)
    /\ \E p \in rxBuf[n] : ~IsOurAck(n, p) /\ ~IsSeen(n, p)
    /\ TakeBuffer(n)
    /\ ctl' = [ctl EXCEPT ![n] = "waiting"]
    /\ UNCHANGED <<modem, seq, tries, out, seen, inp, historyVars>>

-----------------------------------------------------------------------------
(* available() and recvfromAck() as the loop of the sketch calls them.     *)

ListenApp(n) ==
    /\ ctl[n] = "app"
    /\ Running(n)
    /\ Listen(n)
    /\ UNCHANGED <<modem, threadVars, historyVars>>

\* recvfromAck() of an acknowledgement returns false.
DropAck(n) ==
    /\ ctl[n] = "app"
    /\ Running(n)
    /\ \E p \in rxBuf[n] : p.ack
    /\ TakeBuffer(n)
    /\ UNCHANGED <<modem, threadVars, historyVars>>

\* recvfromAck() copies a message and acknowledges it before anything else.
Acknowledge(n) ==
    /\ ctl[n] = "app"
    /\ Running(n)
    /\ \E p \in rxBuf[n] :
          /\ ~p.ack
          /\ TakeAndSend(n, AckOf(p))
          /\ inp' = [inp EXCEPT ![n] = {p}]
    /\ ctl' = [ctl EXCEPT ![n] = "recvfromAck"]
    /\ UNCHANGED <<modem, seq, tries, out, seen, historyVars>>

Forget(n, p)   == seen' = seen
Remember(n, p) == seen' = [seen EXCEPT ![n] = p.id]

\* The acknowledgement is out and the message is new: return true.
Deliver(n) ==
    /\ ctl[n] = "recvfromAck"
    /\ Running(n)
    /\ \E p \in inp[n] :
          /\ p.id # seen[n]
          /\ Remember(n, p)
          /\ got'  = [got EXCEPT ![n] = @ \cup {p.uid}]
          /\ last' = [last EXCEPT ![n] = p.uid]
    /\ inp' = [inp EXCEPT ![n] = {}]
    /\ ctl' = [ctl EXCEPT ![n] = "app"]
    /\ UNCHANGED <<radioVars, seq, tries, out, calls, acked, resets>>

\* The acknowledgement is out and the number is that of the last message.
Filter(n) ==
    /\ ctl[n] = "recvfromAck"
    /\ Running(n)
    /\ \E p \in inp[n] : p.id = seen[n]
    /\ inp' = [inp EXCEPT ![n] = {}]
    /\ ctl' = [ctl EXCEPT ![n] = "app"]
    /\ UNCHANGED <<radioVars, seq, tries, out, seen, historyVars>>

-----------------------------------------------------------------------------

\* The sketch writes the modem registers between two calls of the library.
ChangeModem(n, c) ==
    /\ ctl[n] = "app"
    /\ Running(n)
    /\ SetModem(n, c)
    /\ UNCHANGED <<threadVars, historyVars>>

\* Power cycle or reset button: the constructor and setup() run again.
Reset(n) ==
    /\ resets[n] < MaxResets[n]
    /\ RadioReset(n)
    /\ ctl'    = [ctl EXCEPT ![n] = "app"]
    /\ seq'    = [seq EXCEPT ![n] = 0]
    /\ tries'  = [tries EXCEPT ![n] = 0]
    /\ out'    = [out EXCEPT ![n] = {}]
    /\ seen'   = [seen EXCEPT ![n] = 0]
    /\ inp'    = [inp EXCEPT ![n] = {}]
    /\ resets' = [resets EXCEPT ![n] = @ + 1]
    /\ UNCHANGED <<calls, acked, got, last>>

TxDone(n) ==
    /\ TxDoneHeard(n) \/ TxDoneLost(n)
    /\ UNCHANGED <<threadVars, historyVars>>

Poll(n)    == ListenWait(n) \/ TakeAck(n) \/ ReAck(n) \/ Discard(n)
Timeout(n) == Retransmit(n) \/ GiveUp(n)
Receive(n) == ListenApp(n) \/ DropAck(n) \/ Acknowledge(n) \/ Deliver(n) \/ Filter(n)

LinkNext ==
    \E n \in Node :
        \/ \E m \in Msg : SendtoWait(n, m)
        \/ Poll(n)
        \/ Timeout(n)
        \/ Receive(n)
        \/ TxDone(n)
        \/ \E c \in Config : ChangeModem(n, c)
        \/ Reset(n)

LinkSpec == LinkInit /\ [][LinkNext]_linkVars

-----------------------------------------------------------------------------
(* Properties                                                              *)

\* A message recvfromAck() is about to hand to the sketch is later than all
\* that it handed over since power-on: the octet-wide comparison with
\* _seenIds lets no message through twice or out of order, however often the
\* peer repeats it or restarts its own numbering.
InOrderOnce ==
    \A n \in Node : resets[n] = 0 =>
        \A p \in inp[n] : p.id # seen[n] => \A u \in got[n] : u < p.uid

\* What recvfromAck() filters is a repetition of something it delivered:
\* the third reason the header gives for returning false.
FilterOnlyDuplicates ==
    \A n \in Node : \A p \in inp[n] : p.id = seen[n] => p.uid \in got[n]

\* The same, for radios that have not been restarted.
FilterOnlyDuplicatesOnce ==
    (\A n \in Node : resets[n] = 0) => FilterOnlyDuplicates

\* sendtoWait() returning true means that the peer's sketch has the message,
\* or that recvfromAck() holds it and will not filter it: no stale or
\* misnumbered acknowledgement ends a call, whatever is lost or repeated.
AckMeansDelivered ==
    (\A n \in Node : resets[n] = 0) =>
        \A n \in Node : \A u \in acked[n] :
            \/ u \in got[Peer(n)]
            \/ \E p \in inp[Peer(n)] : p.uid = u /\ p.id # seen[Peer(n)]

\* Every sendtoWait() returns, acknowledged or not: two nodes that call it at
\* the same time, each deaf to the other's message, do not wait for ever.
SendReturns == \A n \in Node : Sending(n) ~> ~Sending(n)

-----------------------------------------------------------------------------
(***************************************************************************)
(* The inductive invariant.  n receives, Peer(n) sends.                    *)
(***************************************************************************)

\* A thread that runs has an empty FIFO; one that is inside recvfromAck() is
\* deaf, so nothing can reach the buffer it has just emptied.
Deaf(n) ==
    /\ Running(n) => fifo[n] = {}
    /\ inp[n] # {} => ctl[n] = "recvfromAck" /\ rxBuf[n] = {} /\ mode[n] # "rx"
    /\ \A p, q \in inp[n] : p = q

\* A message in the air is that of the current call.
InFlight(n) ==
    /\ Sending(n) => calls[n] # 0
    /\ \A p \in fifo[n] : ~p.ack =>
          Sending(n) /\ p.uid = calls[n] /\ p.id = seq[n]

\* A message that has reached n is no older than the last one delivered, and
\* no younger than the latest call.
Arrived(n) == \A p \in rxBuf[n] \cup inp[n] : ~p.ack =>
                 /\ p.uid \in (last[n] .. calls[Peer(n)]) \ {0}
                 /\ Sending(Peer(n)) /\ p.uid = calls[Peer(n)]
                       => p.id = seq[Peer(n)]

Delivered(n) ==
    /\ \A p \in inp[n] : ~p.ack
    /\ last[n] <= calls[Peer(n)]
    /\ \A u \in got[n] : u <= last[n]
    /\ last[n] # 0 => last[n] \in got[n]

\* _seenIds is the number of the last message delivered.
Remembers(n) ==
    resets[n] = 0 =>
        /\ \A p \in rxBuf[n] \cup inp[n] :
              ~p.ack /\ p.uid = last[n] => p.id = seen[n]
        /\ Sending(Peer(n)) /\ last[n] = calls[Peer(n)] => seen[n] = seq[Peer(n)]

OrderAt(n) == Deaf(n) /\ InFlight(n) /\ Arrived(n) /\ Delivered(n) /\ Remembers(n)

OrderInv == \A n \in Node : OrderAt(n)

\* n has message u, or holds it and will not filter it.
Secured(n, u) == \/ u \in got[n]
                 \/ \E p \in inp[n] : p.uid = u /\ p.id # seen[n]

\* While neither radio has restarted a number is its call modulo SeqMod, ...
IdOf(u) == u % SeqMod

Numbered(n) ==
    /\ seq[n] = IdOf(calls[n])
    /\ seen[n] = IdOf(last[n])
    /\ calls[Peer(n)] - last[n] <= MaxGap
    /\ \A p \in fifo[n] \cup rxBuf[n] \cup inp[n] : p.id = IdOf(p.uid)

\* ... what n acknowledges it has, and an acknowledgement the peer has yet to
\* read is at most one call older than the gap allows.
Acks(n) ==
    /\ \A p \in fifo[n] : p.ack =>
          Secured(n, p.uid) /\ p.uid \in last[n] .. calls[Peer(n)]
    /\ \A p \in rxBuf[Peer(n)] : p.ack =>
          /\ Secured(n, p.uid)
          /\ p.uid <= calls[Peer(n)]
          /\ calls[Peer(n)] - p.uid <= MaxGap + IF ctl[Peer(n)] = "sent" THEN 1 ELSE 0
    /\ \A u \in acked[Peer(n)] : Secured(n, u)

AckInv == (\A n \in Node : resets[n] = 0) =>
              \A n \in Node : Numbered(n) /\ Acks(n)

LinkInv == LinkTypeOK /\ OrderInv /\ AckInv
=============================================================================
