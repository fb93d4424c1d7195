# wracksweeper in TLA+

The repository holds the software of a student project around an autonomous
underwater vehicle (AUV): a LoRa link that lets a shore team talk to the
surfaced vehicle, a recorder for its side scan sonar, and the boards, logs and
parsers around them. The code with behaviour worth a specification is the
communications stack; the sonar recorder comes second.

## 1. Inventory

Paths are below `src/`; `ino` is
`Comms/Code/Arduino Sketches/AUV_Comms/AUV_Comms.ino`, `RadioHead/` is
`Comms/Code/References/RadioHead/`.

| Component | State | Operations | Correct when |
|---|---|---|---|
| `RH_RF95`, `RHGenericDriver` (`RadioHead/`): driver of the LoRa radio | `_mode`, `_buf`/`_rxBufValid`, FIFO, modem registers 1D and 1E | `available`, `recv`, `send`, `waitPacketSent`, `setModemRegisters`; RxDone and TxDone interrupts | a received packet is kept until taken, a packet sent is not disturbed |
| `RHDatagram`: addresses | own address, header of the last packet | `sendto`, `recvfrom` | - |
| `RHReliableDatagram`: acknowledged datagrams | `_lastSequenceNumber`, `_seenIds[]`, the locals of a call | `sendtoWait`, `recvfromAck`, `acknowledge` | "true" means delivered; delivered once, in order; every call returns |
| `ino`: the sketch of both radios, `SHORE` at the operator's terminal, the other in the vehicle | `set[]`, `msgBuffer`/`newData`, message buffers, hidden `strtok` state, `timer` | `loop`, `receiveLine`, `transmitLine`, `transmit`, `modeChangeLocal`, `modeChangeRemote`, `battCheck`, `setup` | a change of settings keeps both radios on the same ones; lines reach the vehicle; the loop goes on |
| `Comms/Code/Python Scripts/pyTerminal.py` and its systemd service: the vehicle's BeagleBone | output file, `escFlag`, UART input | run a received command, send its output line by line, wait for `...` | what is sent is the output of the last command, and it ends |
| `Sonar/*/RecordData.cpp`: the side scan recorder in three builds (Windows, Linux, "future" Linux with keys) | `sonarSwitches`, `m_nRangeIndex`, `receiveBuf`, `headerBuf`, `dataBuf`, mission file | take settings, request, receive, assemble and write pings, keys | a ping is two whole halves taken together, its header tells how; recording goes on |

Interactions. The operator types lines at the shore sketch; the sketch passes
them to the link, except the commands that start with `-`; the link hands
packets to the driver; the driver's interrupts move packets between the two
radios. On the vehicle the sketch prints a message on its UART, where the
BeagleBone script reads it, unless one of its words is a command for the
radios. A change of settings (`-changemode bw sf`) is a handshake of two
acknowledged messages: the shore's request, and the vehicle's `-received-`,
after which each side writes its registers. The recorder runs on its own: it
asks the sonar over TCP for one channel at a time and stores what comes. Both sketches are single threads;
concurrency comes from the two radios, the interrupts, and the calls that
block: a sketch inside `sendtoWait()` throws away everything but its
acknowledgement and repetitions it has already delivered.

What is hard: packets and acknowledgements are lost and repeated, calls give up
after `RETRIES`+1 transmissions although the message may have arrived, the
number that identifies a message is one octet and is compared with the last one
only, radios restart with their numbering at zero, both radios may be in
`sendtoWait()` at once, and the settings that make them hear each other are
what the handshake changes. On the UART whole lines meet a sketch that is deaf
while it transmits, a line buffer whose index is one octet, and a script that
may be killed anywhere. Inside the driver an interrupt meets a thread that reads
a packet in a dozen steps. The sonar's replies are a stream that may be cut
anywhere. `PROJECT.json` lists these hazards at their lines.

### Not modelled

* RadioHead beyond the four classes above. The library is vendored whole and is
  most of the lines of the tree: the drivers of a dozen other radios, router and
  mesh, encryption, ports and simulators for other boards, generated register
  tables, and large headers that are mostly documentation. No sketch or script of
  the project constructs any of it, so nothing in the repository says how it
  would be used. The share of the tree that the map covers stays small for this
  reason; of the project's own programs that run in the field every operation
  that changes state is modelled.
* `RHReliableDatagram` and the driver where the sketch does not call them:
  `recvfromAckTimeout()`, broadcasts, promiscuous mode, sleep, channel activity
  detection; configuration of power and frequency, RSSI and SNR.
* `keyThreadTest.py` (a trial used by nothing), `uartDaemon.c` (does not compile),
  the sketches `AUV_Comms.ino` grew out of and the range tests.
* `ParseRiptideLog.m` (a pass over a finished log), boards, logs and documents.

## 2. Modules

| Module | Models |
|---|---|
| `RF95` | the driver of the two radios and the air between them |
| `ReliableDatagram` | EXTENDS `RF95`: the calls of `RHReliableDatagram`, with the properties of the link and its inductive invariant |
| `AUVComms` | EXTENDS `ReliableDatagram`: the sketch on both radios; its actions are conjunctions of one action of the link and what the sketch does around it |
| `Channel` | abstract: what an acknowledged link promises in one direction |
| `LinkChannel` | EXTENDS `ReliableDatagram`: the mapping under which it is two channels |
| `LineService` | abstract: what the sketches promise the operator who types a line for the vehicle |
| `AUVLines` | EXTENDS `AUVComms`, `LinkChannel`: the mapping under which the sketches are the line service |
| `PacketBuffer` | abstract: a buffer of one packet that is taken in one step |
| `RF95Interrupt` | the receiving half of the driver, interrupt handler and thread step by step; implements `PacketBuffer` |
| `SerialLine` | `receiveLine()` octet by octet, `msgBuffer` and what lies behind it |
| `Vehicle` | EXTENDS `SerialLine`: `pyTerminal.py`, the UART, and the serial half of the vehicle's sketch |
| `SonarRecord` | the recorder in its three builds, the connection, the sonar, the keys |
| `*_proofs` | the theorems about the module of that name |
| `MCLink`, `MCComms`, `MCVehicle`, `MCSonar`, `MCInterrupt` | values of the constants for TLC |

Four compositions hold the communications stack together. The sketch
(`AUVComms`) uses the link as its specification allows (`SketchUsesLink`); the link
is, for whoever uses it, a pair of channels (`LinkIsChannel`); sketches, link and
radios together are a service that prints the operator's lines at the vehicle
(`SketchIsLineService`); and the driver that
the link uses as one that hands a packet over in a single step (`TakeBuffer` of
`RF95`) is such a driver although an interrupt may come between any two of its
statements (`TakenInOneStep`).

### From code to model

*Driver.* `mode`, `rxBuf`, `fifo` and `modem` are `_mode`, the one packet buffer
(a set of at most one packet, empty when `_rxBufValid` is false), the packet
being transmitted, and the two registers the sketch changes. A valid packet
puts the radio in standby (`handleInterrupt`), so it hears nothing until the
next `available()` with an empty buffer. The interrupt that ends a transmission
and the one that receives it are one action, `TxDoneHeard`; `TxDoneLost` is
every way not to receive: noise, a collision, a peer that is transmitting, has
a full buffer or is on other settings. Reception needs the peer to be in receive
mode when the packet ends; a real radio needs it for the whole packet, so the
model allows more receptions than the radio.

*Link.* A thread is in the sketch (`app`), in the wait loop of `sendtoWait()`
(`sent` until the first poll, then `waiting`), or in `recvfromAck()` while the
acknowledgement it owes is on the air. One action per branch of the code:
`SendtoWait`, `Retransmit`, `GiveUp`, `TakeAck`, `ReAck`, `Discard` and
`ListenWait` for `sendtoWait()`; `ListenApp`, `DropAck`, `Acknowledge`, `Deliver`
and `Filter` for `available()` and `recvfromAck()`. Time is not modelled: the
timeout may come after any poll. The `RETRY` flag has no effect in the default
build (`RH_ENABLE_EXPLICIT_RETRY_DEDUP` is 0) and is left out. A `uid` in each
packet and the variables `calls`, `acked`, `got`, `last`, `resets` are history:
no guard reads them except the bounds.

*Sketch.* A line or a message is the sequence of its words. A settings key of
the look-up tables and the register value it stands for are one constant: the
tables are one-to-one. `at` is where the sketch is; `buf` and `word` are the
message it is going through and how far it has come. The confirmation names the
settings instead of spelling them. `TypeMode` is `transmitLine()` and
`modeChangeLocal(.., true)` up to the call of `sendtoWait()`; `Confirm` is
`modeChangeRemote()` up to its call; `Acknowledged` and `Unacknowledged` are the
returns; `Apply` and `Confirmed` are the register writes. `modeChangeRemote()`
runs `strtok()` to the end of its own copy, so the loop that called it finds no
further word (`WordsRead`). Which of serial input and radio is served
first in `loop()` is left open. `-verb` and `-memmon` lines only change what is
printed and are not among the lines.

*Channel.* A call is a number; the receiver holds a call's message between the
acknowledgement and the return of `recvfromAck()`, then hands it over. Messages are
handed over at most once and in the order of the calls, and `sendtoWait()` returns
true only for one that is held or was handed over. `HeldBy` maps a message in
`recvfromAck()` to `held` unless `Filter` is going to drop it.

*Line service.* A call of the shore may be for a line (one without a keyword) or for
anything else. The vehicle deals with a message (`held`) from the moment `recvfromAck()`
has it to the end of the sketch's loop over its words; then it has come out of the UART, or,
if it was not a line, may have been for the radio. A call succeeds for a line only if that has been
printed or is held.

*Interrupt.* Time is counted in steps of the thread: while it takes a packet each
step is one, anything else it does takes as long as one likes (`Work`). A packet
cannot end before `AirTime` steps after the last one, or after the radio was put in
receive mode. `Listen` and `Look` are the two halves of `available()`; the sketch calls
it up to three times (in `loop()` or the wait, in `recvfromAck()`, in `recv()`) before
the locked copy, the clearing of the buffer, and the four header reads.
`ATOMIC_BLOCK` does disable interrupts on the board (`RHutil/atomic.h`). From the first
`Listen` that finds a packet to the last header are `Window` = 11 further steps, and
`AirTime >= Window` is the assumption that makes it work: microseconds on one side, at
least some ten milliseconds (the preamble alone) on the other. A packet with a bad CRC is only
counted. `recv()` would compute a negative length for a packet of fewer than
four octets; it never sees one, since such a packet is never valid and no
packet ends in the window (`ValidIsOwn`, `HandedIsOnePacket`).

*Serial line.* `msgBuffer` is a function over all values of the index octet: the first
`numChars` are the buffer, the rest is what lies behind it, taken as octets that nothing else
uses (what the linker puts there is not known; in the sketch it is at most one octet). The
index and the branches go on as in the code wherever the index is. `shown` is the line a
terminal would show, `lastLine` the last one that was ended. Both come from the octets alone, and so does
`plain`: the line has no octet 0, takes back nothing that was not typed, and is never longer than
`numChars - 2`. `HandedAsShown` and `InBuffer` are about plain lines, after any others: a
line that is not plain is lost or cut, and the sketch is right again with the next one.
`HandedAsShown` is also about a line after which nothing has been read yet; lines
that are read together are `TransmitsSerialInput`, and a finding.

*Vehicle.* The script writes octets and the sketch prints whole words: a chunk the
script reads may end between any two words, not inside one. `in_waiting < 3` is then
`MayBeFew`: nothing, an end of line, or one word that may be that short. `Receive` to
`Transmitted` are `receiveLine()` and `transmitLine()`, `Convey` a message from the shore,
`BattCheck` the help message, whose only effect here is time. The radio itself is left
out: a transmission lasts from one step to as long as one likes. The file is
empty or one record: the command it belongs to and its lines. `RunCommand` to
`CommandEnds` is the subprocess; `LastLine` is the line the script still sends after
`esc`. The loop of line 72 compares the function `getAck`, not what it returns, with
`...`, so it is a pause (`FiveSeconds`). Exceptions end in line 99, and systemd starts
the script again (`Exit`); `Crash` is any other end. Left out: an overflow of the UART's own
buffers, settings commands written by the script (`AUVComms` has them), and an
empty line, of which `strtok` makes a null pointer that `strcmp` then reads (on this
processor address 0 is readable and the line is transmitted).

*Recorder.* An octet is named by its origin: `<<n, i>>` is octet `i` of the sonar's
reply `n`, so `dataBuf` and the file show what was taken when. A reply has a header,
a channel, and the one octet more that the code copies. A request carries the settings
and the channel at the time of `send()`. `Recv` is one `recv()` with any number of the
octets that are there. The four writes of a ping are one step, the format's
constants, time stamps and the repetition rate are left out, the ping number is the position in `outfile`.
`SIGPIPE` after a lost connection is not modelled: nothing is sent then. `build` selects the
program; the Windows and Linux builds differ in `NextPack` and in where the settings come from, the
future one asks for them and adds `getch()` after every `recv()`. `keys` is what the user has
typed and the program has not read, as character codes: `getch()` takes one and, at
the questions, `cin >>` into a `uint8_t` skips white space and takes one, of which the code is the setting, and
`cin.ignore()` drops the rest of its line (`ReadLine`). So a question waits for a whole line, and is a step of
the program only once there is one; what was typed ahead may be it. `asked` is the history
of what the user meant, the number of the whole line. How curses and `cin` share the
terminal is the libraries' business and taken as one queue; the limit of 256 characters in `ignore()`
and the end of the input are not modelled.

*Undefined behaviour.* `strcat()` into one-octet arrays (ino:471) and the missing
`return` of `modeChangeLocal(.., false)` (ino:445-460) are taken as harmless:
no value they produce is read by anything but debug output.

## 3. Runs

| Run | Specification and instance | Shows |
|---|---|---|
| `link` | `LinkSpec`, 4 IDs, 1 retry, shore 5 calls, AUV 1, a payload that fits and one that does not, one restart of the shore | `LinkTypeOK`, `FilterOnlyDuplicatesOnce`, `AckMeansDelivered`, `InOrderOnce`, `LinkInv` |
| `link_filter` | as `link`, 3 calls of the shore | `FilterOnlyDuplicates` is **violated** (finding) |
| `handshake` | `Spec`, shore: one kind of request and a plain line, 3 typed; AUV: help messages | `AUVNeverAlone`, `SettingsAgreed`, `AppliesWhatWasConfirmed`, `LineConveyed`, `OneChangeInv`; `SketchIsLineService`: the sketches are the abstract line service; `LinkIsChannel`: the link under them is two abstract channels |
| `comms` | `FairSpec`, every kind of line at the shore, a ping or a line the driver refuses as too long typed at the AUV, one restart of the shore | `TypeOK`, `ConveyedOnce`, `ConveyInv`, `SendReturns`, `LoopReturns`, `LinesComeOut` |
| `comms_refusal` | `Spec`, 3 retries as in the sketch | `RefusalIsFinal` is **violated** (finding) |
| `comms_stale` | `Spec`, two different requests | `AppliesWhatWasConfirmed` is **violated** (finding) |
| `vehicle` | `FairSpec`, buffer of 4, index of 5 values, outputs that fit, do not fit, are edited, leave the buffer and are followed by one that just fits, are not ended, one message, one crash | `VehicleTypeOK`, `LineInv`, `HandedAsShown`, `InBuffer`, `OutputIsCurrent`, `OutputEnds` |
| `vehicle_splice` | `PromptSpec`, three short lines, no crash | `TransmitsSerialInput` is **violated** (finding) |
| `sonar` | `FairSpec`, all builds, 1 octet of header, 2 of a channel, 3 pings; the user types 4 times: a key, one answer, or three | `SonarTypeOK`, `HalvesWhole`, `HalvesTogetherInOriginal`, `HeaderAsTaken`, `SettingsHold`, `Recording`, `TildeEnds` |
| `sonar_port` | `Spec`, Linux build | `HalvesTogether` is **violated** (finding) |
| `sonar_typed` | `Spec`, future build, the three questions answered once | `TypedIsTaken` is **violated** (finding) |
| `interrupt` | `Spec`, 4 packets, `AirTime` = `Window` | `ValidIsOwn`, `HandedIsOnePacket`, `TakenInOneStep` |

Bounds. `MaxSend` bounds the calls of each node, `MaxTyped` those after which
nothing is typed any more (an answer may still be sent), `MaxResets` the
restarts; they are guards, so the specifications stay finite without a
constraint, and the systems stop when they are used up: `CHECK_DEADLOCK FALSE`.
Five calls with four IDs go round the ID range once; one retry gives lost,
repeated and late packets and acknowledgements of each; one message of the AUV
gives the crossing of two calls. `MaxGap` is a bound on the environment: fewer
than `SeqMod - 1` calls in a row are lost (255 in the code, each up to 32 s).
Without it the number of a new message can be the remembered one. No operator makes that many
calls in vain, but a vehicle without its main power calls for help every 30 s
(`battCheck`, ino:642) whether or not anybody listens, so after some hours its number can come round to
the one the shore remembers; then one message is acknowledged and filtered, and what is
proved of the link with `MaxGap` does not cover it. In `comms` the last
calls of a sketch must be possible, or it would wait for the bound: three of each node are
enough for one typed line, its answers, and those to a second life of the peer.

A buffer of four octets with an index of five values has every edge of the real
255 and 256: full, one past the end, wrapped, and outputs of several lines reach each of
them. One crash can hit the script at every place. Two octets of a channel show that
it is mirrored; two pings show a stale half, a third one the header after a change. Typing
four times is enough for the first settings, a `+` with its answers all at once or one by one, something typed
ahead, and a `~`. The settings asked for are inside the limits, outside, not in
the range table, and beyond an octet. Four packets let two be taken and others
be heard meanwhile; `AirTime` is the smallest the assumption allows, and with
one less TLC finds a payload with another packet's headers, so the window is exact.
`sonar`, `sonar_port` and `sonar_typed` do not check deadlock: a split reply or a lost connection stops
the exchange for good, and `~` ends the program.

`vehicle_splice` uses `PromptSpec`, where a sketch that can read does so before
anything else happens; an octet takes a millisecond on the wire, the loop
microseconds. Without it the finding would be an artefact of a slow sketch; with
it only the octets that arrive during a transmission pile up.

Fairness. Transmissions end (`TxDone`), a thread that can poll polls (weak), and
the timer of the wait loop, which is read again after every packet the loop
handles, runs out (strong, since answering a packet disables it for a
moment); `FairSpec` of `AUVComms` has these and that the sketch's thread goes on. No fairness is
assumed of operators or losses. In `Vehicle` the
script's process is scheduled while it sends output and its five seconds pass
(weak); nothing is assumed of the radio, the shore or the UART, which is why
`OutputEnds` says that the script never depends on them. In `SonarRecord` a
connected sonar answers what it is asked and the program runs (weak), a question only once
a line has been typed. `Recording` and `TildeEnds` hold while every reply comes in one piece, and say so:
after a split one `recv()` waits for ever and not even `~` is read. `Recording` also asks that
the user, again and again, leaves no question open.

## 4. Proofs

`ReliableDatagram_proofs` proves for all values of the constants:

* `LinkTypeCorrect`, the type invariant;
* `LinkInOrderOnce`, from `OrderInv`: a message in the air is the sender's current
  call, one that has arrived is not older than the last delivered, and `_seenIds`
  is the number of the last delivered (`Deaf` is needed because a radio that is
  inside `recvfromAck()` must not be given another packet);
* `LinkInvariant`, with `AckInv`: while nobody restarts a number is its call modulo
  the ID range; with `MaxGap` two calls that can meet differ by less than the range,
  so equal numbers are equal calls (`SameId`), and what is acknowledged is
  `Secured`: delivered, or held and about to be;
* `LinkAckMeansDelivered` and `LinkFilter`, its consequences.

`InOrderOnce` does not need the gap or a peer that keeps running; the other two do.
The proofs rest on the named assumptions of `RF95` and `ReliableDatagram`, which TLC
evaluates in every run.

`AUVComms_proofs` proves that the sketch implements the link (`SketchUsesLink`:
initial states and steps of `Spec` are those of `LinkSpec`, step by step), so
that the link's theorems hold of the sketch (`SketchLinkInv`).

`SketchTypeCorrect` is the type invariant of link and sketch. It needs `OrderInv`
(what `recvfromAck()` holds is a message, not an acknowledgement), `SetStep` (`set[]`
holds table values, so do the registers written from it) and the assumption
`Sentences` that a message is a finite sequence of words.

Three invariants say what becomes of a message that the link has delivered; together
they are `ConveyInv` (`ConveyInvariant`), inductive with restarts, for every line:

* `ThreadInv`: sketch and library are one thread. The sketch is at a place inside a call exactly
  while the link sends, it goes through one message at a time, and none is left over at the
  top of `loop()`, so nothing that was delivered is overwritten;
* `PlainInv`: what carries the number of a line without a keyword has no keyword, in the call, in
  the air, in the buffers; and while the AUV's sketch goes through it `remoteControl` is down.
  That takes `OrderInv` (a packet of the current call cannot be there before the call,
  `NoneFromTheFuture`) and that `TakeMessage` lowers the flag;
* `UARTInv`: what was printed was delivered, what is in the buffer is newer than all that was
  printed, and a delivered line has been printed or is in the buffer.

`SketchConveysOnce` (`ConveyedOnce`) follows from the last for every AUV that is not restarted,
whatever the shore does; `SketchConveysLines` (`LineConveyed`) adds the link's `AckMeansDelivered`:
acknowledged means delivered or held, and delivered means printed or in the buffer.

`AUVLines_proofs` carries the same over to whole behaviours. `SketchIsChannel` follows from
`SketchUsesLink` and `LinkImplementsChannel`. `SketchImplementsLineService` maps each step of the
sketches to a step of `LineService` or a stutter: a step of the link to the channel's
(`Acknowledge` is `Arrive`, `TakeAck` is `Succeed`, `GiveUp` is `Fail`), `TakeMessage` to a stutter, since the
message only moves from `recvfromAck()` to the sketch, and `EndOfMessage` to `ComeOut` or `Obey`. That
`Obey` never meets a line is `PlainInv`, that `Arrive` is for a message newer than all printed is `UARTInv`.

The next theorems are about an operator who asks for one configuration `c`
(`OneChange(c)`): for `c` and nothing else, without `-changeme`,
and with no command for the settings in any other line, ping answer or help message.
Nothing is assumed of losses, repetitions, timing, or how often the same request is
made; the properties speak of radios that have not restarted. `HandshakeInvariant`
proves the inductive `OneChangeInv`, which holds for each such `c`, in parts on top of `LinkInv` and `ThreadInv`:

* `MessagesInv`: whatever is in a call, in the air, or in a buffer is harmless, the
  shore's request, or the AUV's confirmation of it, the request only once `set[]` of the
  shore is `c`, the confirmation only once both are;
* `CurrentInv`: a packet with the number of the AUV's current call carries the message
  of that call;
* `PlaceInv`: the AUV on its way to the register write has `c` in `set[]`, and so has the
  shore; while it waits, what it sends is the confirmation;
* `ShoreFollows`: the shore has written `c` or holds the confirmation; no step undoes it
  (`PendingStep` for the packet in `recvfromAck()`, `ReadingStep` for the message whose
  words the sketch goes through);
* `RegistersInv`: the shore is on new settings only if the AUV has them in `set[]`; the
  AUV is, or has left `sendtoWait()` for the register
  write, only if the shore follows. This is where the link's theorem is used: the
  acknowledgement that ends the call is that of the call (`OurAckIsOurs`), so the
  confirmation is `Secured` (`Acks`), and by `CurrentInv` what is secured is the
  confirmation (`SecuredIsFollowed`).

From it follow `AUVIsNeverAlone` (`AUVNeverAlone`), `SettingsAreAgreed` (`SettingsAgreed`: neither radio writes
settings that the other one does not hold) and `OneChangeIsApplied`: the settings a radio writes
are those that the confirmation names. The last is what the finding of `comms_stale` breaks
with a second request, so one configuration at a time is what makes the handshake safe.

`LinkChannel_proofs` proves `LinkImplementsChannel`: if nobody restarts, `LinkSpec`
implements both channels. The inductive part is `LinkInv`; each action of the link
is a step or a stutter of each channel (`Deliver` hands over, `Acknowledge` holds unless
the message is a repetition, `TakeAck` returns true, `GiveUp` returns false), and that a
message is newer than every one handed over is `OrderInv`.

`Vehicle_proofs` proves the invariants of the vehicle for every size of buffer and octet and all
outputs. `LineInv` is inductive: while the line being typed is plain `ndx` is its length, with room for the
end, and the buffer up to it is that line; what an earlier, longer line left behind is cut off
by the terminator of `EndLine`, and where an earlier one left the index does not matter, since
every end of line sets it to 0. `HandedAsShown` is a part of it, and `InBuffer` follows from it step by step. `OutputIsCurrent` rests on
`FileInv`: outside of the start-up a file is that of `latest`, and while one is written or sent there is one.

`SonarRecord_proofs` proves the recorder's invariants for all lengths and settings.
`DataInv` says what is in flight (`Outstanding`: at most one reply or request, for the
channel the program expects) and what `dataBuf` holds (`PortStored`: a whole, mirrored reply to an earlier
port request); `HalvesWhole` needs both. `HeaderAsTaken` needs that requests carry the settings of
their moment, that `changes` only grows, that what was asked for since the last change has
the settings there are now (`ChangesInOrder`), and that what is outstanding was asked for after the last
ping was written (`AskedSince`). `SettingsHold` needs how far the limits
have been applied at each question (`Asking`): a range that was set may be cut by the frequency that
follows, and nothing is sent between the two.

`RF95Interrupt_proofs` proves for any number of packets and any `AirTime >= Window` that
the driver implements `PacketBuffer`. `WindowInv` is the argument: whenever the radio
listens although a packet waits, or the headers are being read, the thread has
fewer steps to go (`ToGo`) than the next packet has on the air; so no packet ends
there (`NoneInTheWindow`), and at every other place the buffer is empty or the radio deaf.

The runs `link`, `comms`, `handshake` and `vehicle` check the inductive invariants `LinkInv`,
`ConveyInv`, `OneChangeInv` and `LineInv` on small instances. The instance of `handshake` has a
configuration with `OneChange`, so the theorems about it are not empty; TLC finds the
invariant violated when the link takes any acknowledgement for its own.

Every invariant of a passing run is also a theorem, and so are the four refinements; the types
of `RF95Interrupt` (`InterruptTypeOK`) are proved only. Only
model-checked is what the prover cannot do: liveness
under fairness (`SendReturns`, `LoopReturns`, `LinesComeOut`, `OutputEnds`, `Recording`,
`TildeEnds`) and `ENABLED`. No definition here is
recursive; induction over data would also be out of its reach.

## 5. Plan

1. *done*: `RF95`, `ReliableDatagram`, `AUVComms`, their runs, and their theorems.
2. *done*: `SerialLine` and `Vehicle` (the line buffer with its octet of an index, the
   script with the systemd restart), runs and theorems.
3. *done*: `SonarRecord` in its three builds, runs and theorems.
4. *done*: `Channel` and the proof that the link implements it; `RF95Interrupt` and the
   proof that `RF95` is right to join its steps.
5. *done*: `LineConveyed` and `ConveyedOnce` proved; `LineService`, and the proof that the
   sketches implement it.
6. *open*: an abstract terminal for `Vehicle` (what of a command's output is written, in
   which order) and the proof that script and UART implement it.
