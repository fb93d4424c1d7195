-------------------------------- MODULE RF95 --------------------------------
(***************************************************************************)
(* The RFM95 LoRa driver (RH_RF95 over RHGenericDriver) of the two radios  *)
(* of the wireless link, the shore client and the AUV server, and the air  *)
(* between them.                                                           *)
(*                                                                         *)
(* The radio is half duplex and has one packet buffer.  A valid packet     *)
(* puts the radio in standby, deaf, until the sketch polls available()     *)
(* again; a transmission takes it out of receive mode.  Nothing is stored  *)
(* in the air: a packet is in the sender's FIFO until its TxDone interrupt *)
(* and at that moment the peer either has it or has lost it.               *)
(*                                                                         *)
(* rxBuf[n] and fifo[n] are sets of at most one packet.  A header field    *)
(* `uid' is history: the number of the sendtoWait() call that the packet   *)
(* carries or acknowledges.  No action reads it.                           *)
(***************************************************************************)
EXTENDS Naturals

CONSTANTS
    Shore, AUV,  \* MY_ADDRESS / REMOTE_ADDRESS, 66 and 69
    Msg,         \* payloads the sketches hand to the link
    Oversize,    \* those longer than RH_RF95_MAX_MESSAGE_LEN
    AckMsg,      \* the one octet payload of an acknowledgement
    Config,      \* values of the modem registers 1D and 1E
    Boot,        \* the values setup() writes
    SeqMod       \* number of values of the one octet header ID, 256

ASSUME TwoRadios   == Shore # AUV
ASSUME Payloads    == Oversize \subseteq Msg /\ AckMsg \notin Oversize
ASSUME BootConfig  == Boot \in Config
ASSUME SeqModBound == SeqMod \in Nat /\ SeqMod >= 3

VARIABLES
    mode,   \* _mode
    rxBuf,  \* {packet in _buf} when _rxBufValid, {} when not
    fifo,   \* {packet being transmitted}
    modem   \* registers 1D and 1E

radioVars == <<mode, rxBuf, fifo, modem>>

Node    == {Shore, AUV}
Peer(n) == IF n = Shore THEN AUV ELSE Shore
Id      == 0 .. (SeqMod - 1)
Mode    == {"idle", "rx", "tx"}

DataPacket == [ack : {FALSE}, id : Id, uid : Nat, msg : Msg]
AckPacket  == [ack : {TRUE}, id : Id, uid : Nat, msg : {AckMsg}]
Packet     == DataPacket \cup AckPacket

RadioTypeOK ==
    /\ mode  \in [Node -> Mode]
    /\ rxBuf \in [Node -> SUBSET Packet]
    /\ fifo  \in [Node -> SUBSET Packet]
    /\ modem \in [Node -> Config]

\* rf95.init() leaves the radio in standby, setup() then configures it.
RadioInit ==
    /\ mode  = [n \in Node |-> "idle"]
    /\ rxBuf = [n \in Node |-> {}]
    /\ fifo  = [n \in Node |-> {}]
    /\ modem = [n \in Node |-> Boot]

-----------------------------------------------------------------------------
(* What the sketch's thread of a radio does to its driver.                 *)

\* The thread is not spinning in waitPacketSent().
Running(n) == mode[n] # "tx"

\* send() of a payload that fits: standby, FIFO, transmit.
StartTx(n, p) ==
    /\ mode' = [mode EXCEPT ![n] = "tx"]
    /\ fifo' = [fifo EXCEPT ![n] = {p}]

\* send(): a payload that is too long is refused before the mode is touched.
Send(n, p) ==
    IF p.msg \in Oversize THEN UNCHANGED <<mode, fifo>> ELSE StartTx(n, p)

\* recv(): the thread is left in receive mode with an empty buffer.
TakeBuffer(n) ==
    /\ rxBuf' = [rxBuf EXCEPT ![n] = {}]
    /\ mode'  = [mode EXCEPT ![n] = "rx"]
    /\ UNCHANGED fifo

\* recv() of a packet that is answered at once, as acknowledge() does.
TakeAndSend(n, p) ==
    /\ rxBuf' = [rxBuf EXCEPT ![n] = {}]
    /\ StartTx(n, p)

\* available() with nothing in the buffer: (back) to receive mode.
Listen(n) ==
    /\ rxBuf[n] = {}
    /\ mode' = [mode EXCEPT ![n] = "rx"]
    /\ UNCHANGED <<rxBuf, fifo>>

\* setModemRegisters(): a write of the registers, whatever the mode.
SetModem(n, c) ==
    /\ modem' = [modem EXCEPT ![n] = c]
    /\ UNCHANGED <<mode, rxBuf, fifo>>

-----------------------------------------------------------------------------
(* The interrupts: TxDone at the sender and, if the peer is receiving on   *)
(* the same settings and the CRC is good, RxDone at the peer.              *)

TxDoneHeard(n) ==
    LET m == Peer(n) IN
    /\ mode[n] = "tx"
    /\ mode[m] = "rx"
    /\ modem[m] = modem[n]
    /\ mode'  = [mode EXCEPT ![n] = "idle", ![m] = "idle"]
    /\ rxBuf' = [rxBuf EXCEPT ![m] = fifo[n]]
    /\ fifo'  = [fifo EXCEPT ![n] = {}]
    /\ UNCHANGED modem

TxDoneLost(n) ==
    /\ mode[n] = "tx"
    /\ mode' = [mode EXCEPT ![n] = "idle"]
    /\ fifo' = [fifo EXCEPT ![n] = {}]
    /\ UNCHANGED <<rxBuf, modem>>

RadioReset(n) ==
    /\ mode'  = [mode EXCEPT ![n] = "idle"]
    /\ rxBuf' = [rxBuf EXCEPT ![n] = {}]
    /\ fifo'  = [fifo EXCEPT ![n] = {}]
    /\ modem' = [modem EXCEPT ![n] = Boot]
=============================================================================
