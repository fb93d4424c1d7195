--------------------------- MODULE RF95Interrupt ----------------------------
(***************************************************************************)
(* The receiving half of RH_RF95 as two actors see it: the thread of the   *)
(* sketch, polling and taking a packet in several steps, and the handler   *)
(* of the RxDone interrupt, which may come between any two of them.        *)
(*                                                                         *)
(* available() puts the radio into receive mode even when a packet is      *)
(* waiting, and then looks at the buffer; the lock in recv() ends before   *)
(* the buffer is cleared, and the headers are read without one.  What      *)
(* holds this together is time: a packet is AirTime steps of the thread in *)
(* the air.                                                                *)
(***************************************************************************)
EXTENDS Naturals, Sequences

CONSTANTS
    Nothing,    \* no packet
    AirTime,    \* steps of the thread from the start of a packet to its end
    MaxPackets  \* bound: packets in the air

\* Steps from the first available() that finds a packet to its last header.
Window == 11

ASSUME AirIsSlow    == AirTime \in Nat /\ AirTime >= Window
ASSUME PacketsBound == MaxPackets \in Nat

VARIABLES
    mode,        \* _mode
    rxBufValid,  \* _rxBufValid
    buf,         \* the packet in _buf
    rxHeader,    \* the packet whose headers are in _rxHeaderTo, From, Id, Flags
    \* the thread
    pc,
    looking,     \* inside available(), in receive mode
    payload,     \* what recv() has copied
    headers,     \* headers read after it
    handed,      \* what recvfrom() has returned last
    \* the air
    air,    \* steps until a packet can end
    count,  \* packets
    taking  \* history: the packet recv() found

radio  == <<mode, rxBufValid, buf, rxHeader>>
thread == <<pc, looking, payload, headers, handed>>
vars   == <<radio, thread, air, count, taking>>

\* For this address, for another one, too short to have headers.
Kind   == {"own", "foreign", "short"}
Packet == [no : Nat, kind : Kind]
Own    == {p \in Packet : p.kind = "own"}

InterruptTypeOK ==
    /\ mode \in {"idle", "rx", "tx"}
    /\ rxBufValid \in BOOLEAN
    /\ buf \in Packet \cup {Nothing}
    /\ rxHeader \in Packet \cup {Nothing}
    /\ pc \in {"work", "again", "recv", "copy", "clear", "headers"}
    /\ looking \in BOOLEAN
    /\ payload \in Packet \cup {Nothing}
    /\ headers \in Seq(Packet \cup {Nothing}) /\ Len(headers) < 4
    /\ air \in 0 .. AirTime
    /\ count \in Nat
    /\ taking \in Packet \cup {Nothing}

Init ==
    /\ mode = "idle"
    /\ rxBufValid = FALSE
    /\ buf = Nothing /\ rxHeader = Nothing
    /\ pc = "work" /\ looking = FALSE
    /\ payload = Nothing /\ headers = <<>>
    /\ handed = [payload |-> Nothing, headers |-> <<>>]
    /\ air = 0 /\ count = 0
    /\ taking = Nothing

-----------------------------------------------------------------------------
(* The interrupt handler                                                   *)

\* The end of a packet of this kind that the radio has heard.
Heard(kind) ==
    /\ mode = "rx"
    /\ air = 0
    /\ count < MaxPackets
    /\ count' = count + 1
    /\ buf' = [no |-> count + 1, kind |-> kind]

KeepListening == mode' = mode /\ air' = AirTime

\* `Got one': once a packet waits the radio is put in standby.
GotOne ==
    /\ mode' = IF rxBufValid' THEN "idle" ELSE mode
    /\ air' = AirTime

\* Its CRC is bad: it is counted.
RxBad ==
    /\ mode = "rx" /\ air = 0
    /\ air' = AirTime
    /\ UNCHANGED <<radio, thread, count, taking>>

\* validateRxBuf(): too short, ...
RxShort ==
    /\ Heard("short")
    /\ UNCHANGED <<rxHeader, rxBufValid>>
    /\ GotOne
    /\ UNCHANGED <<thread, taking>>

\* ... not for this node: the headers are set before the address is looked at, ...
RxForeignValid ==
    /\ Heard("foreign")
    /\ rxHeader' = buf'
    /\ rxBufValid' = TRUE
    /\ GotOne
    /\ UNCHANGED <<thread, taking>>

RxForeign ==
    /\ Heard("foreign")
    /\ rxHeader' = buf'
    /\ UNCHANGED rxBufValid
    /\ GotOne
    /\ UNCHANGED <<thread, taking>>

\* ... or for it.
RxOwn ==
    /\ Heard("own")
    /\ rxHeader' = buf'
    /\ rxBufValid' = TRUE
    /\ GotOne
    /\ UNCHANGED <<thread, taking>>

TxDone ==
    /\ mode = "tx"
    /\ mode' = "idle"
    /\ UNCHANGED <<rxBufValid, buf, rxHeader, thread, air, count, taking>>

-----------------------------------------------------------------------------
(* The thread                                                              *)

Tick == IF air = 0 THEN 0 ELSE air - 1

\* Anything else the sketch does, for as long as it takes.
Work ==
    /\ pc = "work" /\ ~looking
    /\ air' = 0
    /\ UNCHANGED <<radio, thread, count, taking>>

\* send(): waitPacketSent(), then standby, FIFO, transmit.
Transmit ==
    /\ pc = "work" /\ ~looking /\ mode # "tx"
    /\ mode' = "tx"
    /\ UNCHANGED <<rxBufValid, buf, rxHeader, thread, air, count, taking>>

\* available(): receive mode, whether or not a packet waits, ...
Listen ==
    /\ pc \in {"work", "again", "recv"} /\ ~looking
    /\ mode # "tx"
    /\ mode' = "rx"
    /\ air' = IF mode = "rx" THEN Tick ELSE AirTime
    /\ looking' = TRUE
    /\ UNCHANGED <<rxBufValid, buf, rxHeader, pc, payload, headers, handed, count, taking>>

\* ... and whether one does: `then' is where the thread goes if so.
Look(then) ==
    /\ looking
    /\ looking' = FALSE
    /\ pc' = IF rxBufValid THEN then ELSE "work"
    /\ air' = Tick
    /\ UNCHANGED <<radio, payload, headers, handed, count, taking>>

\* In loop(), before recvfromAck(), or in sendtoWait(), before recvfrom().
Poll  == pc = "work"  /\ (Look("again") \/ Look("recv"))
Again == pc = "again" /\ Look("recv")
Recv  == pc = "recv"  /\ Look("copy")

\* The locked part of recv(); sendtoWait() asks for no payload.
Copy ==
    /\ pc = "copy"
    /\ payload' \in {buf, Nothing}
    /\ taking' = buf
    /\ pc' = "clear"
    /\ air' = Tick
    /\ UNCHANGED <<radio, looking, headers, handed, count>>

ClearRxBuf ==
    /\ pc = "clear"
    /\ rxBufValid' = FALSE
    /\ pc' = "headers"
    /\ air' = Tick
    /\ UNCHANGED <<mode, buf, rxHeader, looking, payload, headers, handed, count, taking>>

\* recvfrom(): from, to, id, and flags.
ReadHeader ==
    /\ pc = "headers" /\ Len(headers) < 3
    /\ headers' = Append(headers, rxHeader)
    /\ air' = Tick
    /\ UNCHANGED <<radio, pc, looking, payload, handed, count, taking>>

ReadLastHeader ==
    /\ pc = "headers" /\ Len(headers) = 3
    /\ handed' = [payload |-> payload, headers |-> Append(headers, rxHeader)]
    /\ headers' = <<>>
    /\ pc' = "work"
    /\ air' = Tick
    /\ UNCHANGED <<radio, looking, payload, count, taking>>

-----------------------------------------------------------------------------

Handler == RxBad \/ RxShort \/ RxForeign \/ RxOwn \/ TxDone
Thread  == Work \/ Transmit \/ Listen \/ Poll \/ Again \/ Recv \/ Copy \/ ClearRxBuf
           \/ ReadHeader \/ ReadLastHeader

Spec == Init /\ [][Handler \/ Thread]_vars

-----------------------------------------------------------------------------
(* Properties                                                              *)

\* _rxBufValid says that _buf and the headers are those of one packet, for this
\* node, although the radio listens while it waits to be taken.
ValidIsOwn == rxBufValid => buf \in Own /\ rxHeader = buf

\* What recvfrom() returns is one packet for this node, its payload and all
\* its headers.
HandedIsOnePacket ==
    handed.headers # <<>> =>
        LET p == handed.headers[1]
        IN  /\ p \in Own
            /\ handed.payload \in {p, Nothing}
            /\ handed.headers = <<p, p, p, p>>

\* Seen from the protocol the radio is a buffer of one packet that is taken in
\* one step: RF95.TakeBuffer.  None is overwritten or cleared unread.
Held == IF pc = "headers" THEN {taking} ELSE IF rxBufValid THEN {buf} ELSE {}

Buffer == INSTANCE PacketBuffer WITH held <- Held, handed <- handed,
                                     Packets <- Own, Nothing <- Nothing

TakenInOneStep == Buffer!Spec
=============================================================================
