# Verification of the RP2040 PIO USB host

TLA+ models, TLC runs and TLAPS proofs for `embassy-rp-pio-usb-host`: a USB
host for the RP2040 whose PIO blocks drive the wire, with an adapter to the
`embassy-usb-host` traits and a handful of class drivers. Paths below are
relative to the repository.

## 1. The system

### Components, their state and their operations

| Component | Code | State | Operations |
|---|---|---|---|
| Host state | `src/pio_host.rs` | port (connected, speed, two wrapping generations), pending events, `reset_in_progress`, engine mutex, event signal | `reset_and_report_connected`, `report_disconnected[_if_not_resetting]`, `report_overcurrent`, `service_frame` |
| Controller | `src/pio_host.rs` | none of its own (one handle) | `wait_for_device_event`, `bus_reset` |
| Allocator, pipes | `src/pio_host.rs` | target, generations at allocation, DATA toggle, time of the next transaction | `alloc_pipe`, `control_in/out`, `request_in/out`, `reset_data_toggle` |
| Packet engine | `src/pio_host/rp2040.rs` | wire speed, frame number, next frame, bus-ready time, first fault, counters | `bus_reset`, `service_frame`, `control_in/out`, `request_in_once`, `request_out_once` |
| Attach detector | `src/lib.rs` | stable line state, candidate and its sample count | `update` |
| Root-port monitor, application loop | `src/main.rs` | detector, ticker, `connected`; the session and the bus address | tick; wait, enumerate, allocate, wait for removal |
| Packets and descriptors | `src/usb.rs` | none (pure), DATA toggle value | parse, encode, CRC, NRZI, discovery |
| CDC-ACM, FTDI, USBTMC drivers | `src/cdc_acm.rs`, `src/ftdi.rs`, `src/usbtmc.rs` | one buffered packet; status bytes; tag | discovery and allocation, stream `read`/`write`, class requests, framed exchange |
| HID, audio drivers | `src/hid.rs`, `src/audio.rs` | none between calls | discovery and allocation, reports, sample packets, class requests |
| BleuIO example | `examples/bleuio/` | receive buffer, parser of the answer at work; the session and its leased address | `attention`, `set_central`, `gap_scan`; session loop |
| K8055 example | `examples/p8055/` | outputs last set | reports, one session, LED patterns |

### How they interact

The monitor, the controller and every pipe hold the same `&PioHostState`.
Short critical sections (`shared.lock`) guard the port, the mailbox of events
and the reset flag; an async mutex serialises the packet engine; a signal wakes
the controller. The monitor samples the line every millisecond (not during a
reset), debounces it, resets a new device and publishes it; the controller
takes the event; the application enumerates and allocates pipes, which record
the port's generations and compare them before and after every use of the
engine. Nothing revokes a pipe: a stale handle is detected by comparison only.

### What is hard

Every `.await` is a point where the device may be unplugged, replaced or reset,
and where the caller may drop the future. Reports are made from the monitor,
from a failed reset with the engine held, and from any task that sees an
overcurrent. Events are merged when nobody takes them. Generations wrap.
The wire loses packets in both directions, and a lost handshake cannot be told
from a lost packet. `PROJECT.json` lists each hazard at its line.

The properties that make each part correct:

- **Host state**: a stale handle never reaches the wire and never returns Ok;
  what the application is told agrees with the port; a reset neither blocks
  sampling for good nor takes down a connection that is not its own.
- **Monitor and application**: a device is published once, a glitch never
  detaches it, a removal ends the session, a device that stays is served.
- **Transfers**: over a lossy wire every packet is taken once and in order,
  transfers are not joined or cut, an error says what it says, retries and
  polls keep their pace and their limits.
- **Control transfers**: a request is carried out once per call, its data are
  whole, and every call ends, since it holds the engine.
- **Receive path**: the ACK fits the packet whatever the CPU saw of it when.
- **Handshakes and frames**: a handshake is seen as it was sent; markers keep
  off a bus that is in reset, and a delay is never made up for by a burst (a
  marker whose transmission fails is repeated and not counted).
- **USBTMC**: no byte of another response, and framing that stays in step.
- **Byte streams and the client above them**: no byte is lost, repeated or
  reordered unless a call says so; a command takes its own answer; a session
  ends and gives its address back.
- **Pure functions**: a discovery finds the function that its rules choose, and
  nothing where there is none, no pipe exceeds what device, engine or driver can
  bear, encoders and decoders agree and see damage, rates and requests mean to
  the device what they mean to the caller.

## 2. The modules

### What models what

| Module | Models | State and actions in terms of the code |
|---|---|---|
| `PortModel` | `PortState`, `PendingEvents` | operators named after the methods; generations modulo `GenModulus` |
| `HostState` | `PioHostState`, the controller, the pipes' checks | variables are the fields of `SharedState`, the engine mutex, the signal, and per process a program counter and the locals that survive an `.await`; one action per critical section, lock or signal operation |
| `EventContract` | what the controller promises | abstract: the port, what the application knows, the removal it is owed |
| `RootPort` | `main.rs` and `AttachDetector` over `HostState` | `Tick` is a poll of the monitor with its sample; `TakeEvent`, `Enumerated`, `LedTick` are the application's loop; `Plug`, `Unplug` and glitches are the world |
| `PacketRules` | `DataToggle`, `classify_in_data`, packet ranges, delays | pure operators |
| `PipeLoop` | the retry loop `request_in_packet` and `request_out` share | `Due` (wait and checks), `Attempt` (the transaction), and one action per arm of the `match` |
| `InTransfer`, `OutTransfer` | bulk and interrupt `request_in`, `request_out` with a device | a device with its toggle; lost and garbled packets and ACKs, and failures of the engine, are the choices of the transaction |
| `StopAndWait` | what the DATA toggle promises | abstract: packets taken, packets known to be taken, and whether a failed engine has ended the promise |
| `ControlTransfer` | `control_in`, `control_out` of the packet engine | `pc` is the stage; one action per outcome of an attempt in a stage; the device's endpoint zero |
| `ReceivePath` | `receive_data_packet` with the PIO1 decoder and edge detector | the CPU's loop in steps (`Poll`, `Drain`, `Check`, `Terminal`, then classification), between which the decoder pushes bytes and the edge detector raises IRQ 2 |
| `HandshakeReceive` | `out_once`'s receiver, `receive_handshake` | as `ReceivePath`; besides, the two deadlines, and the two state machines that are stopped one after the other |
| `FrameTiming`, `FrameSchedule` | `service_frame`, `advance_frame`, `schedule_frame_after`, `wait_transaction_frame`, `bus_reset` with its guard | the engine's `next_frame`, `bus_ready_at`, `frame_number` and a clock; `pc` is where the one holder of the engine waits, and `Drop` drops it there |
| `Engine` | the receivers and the frame schedule as parts of one engine | `part` is the one a behaviour is of; its properties are the parts' |
| `UsbtmcExchange` | `UsbtmcHost::write`, `read`, `exchange` | `pc` is the transfer in progress; a packet on its way is a stretch of a response: the tag, size and end mark of the response's header, its total length and the place where the packet starts |
| `Descriptors` | the configuration header, the descriptor iterator, interface and endpoint descriptors | pure: a configuration is its list of descriptors; `Walk` is the loop every discovery runs |
| `CdcAcmDiscovery`, `HidDiscovery`, `InterfaceDiscovery` | `CdcAcmFunction::discover`, `HidInterface::discover`, the FTDI, USBTMC and audio discoveries | pure: one step per kind of descriptor, and beside it a definition of what is to be found that does not walk |
| `Allocation` | the drivers' `allocate_*`, `validate_pipe` | pure: from a discovered function to its pipes, or the first error |
| `LineCode` | `EncodedPacket`, `decode_nrzi`, `crc5`, `crc16`, `parse_packet`, the PIO programs for transmitting and receiving | pure, on sequences of bits |
| `FtdiRate` | the divisor search of every FTDI chip | pure, on integers |
| `ClassRequests` | `SetupRequest`, `CdcLineCoding`, the class and vendor requests of all drivers | pure: the eight bytes of a request and its data |
| `ByteStream` | `read` of the CDC-ACM and FTDI drivers, `reset_data_toggles`, `purge_rx`, `reset` | `rx_packet`, `rx_start`, `rx_end`; `reading` is a call that waits; a byte is a word of `Words`, or one of the two FTDI status bytes, with the number of the command it answers |
| `ByteChannel` | what `embedded_io_async::Read` promises | abstract: the bytes sent and not read yet |
| `BleuIo` | `AtResponseAccumulator`, `ScanAccumulator`, `write_command`, `read_response`; the application loop | one action per await; a parser is a step per symbol, and a recursive function takes it over what is buffered |
| `K8055` | reports, one session, LED of the K8055 example | pure |

How they compose:

    PortModel <- HostState <- RootPort          HostState  implements EventContract
                                                RootPort   implements HostState
    PacketRules <- PipeLoop <- InTransfer       InTransfer  implements StopAndWait
                            <- OutTransfer      OutTransfer implements StopAndWait
    PacketRules <- ControlTransfer
    PacketRules <- ReceivePath                  (its Deserved is Disposition, which
                                                 InTransfer and ControlTransfer use
                                                 as one step)
    UsbtmcExchange                              (its failures are those InTransfer
                                                 and OutTransfer allow a pipe)
    FrameTiming <- FrameSchedule
    Descriptors <- CdcAcmDiscovery, HidDiscovery, InterfaceDiscovery <- Allocation
    ByteStream  <- BleuIo                       ByteStream  implements ByteChannel
    ReceivePath, HandshakeReceive, FrameSchedule <- Engine   (EXTENDS, INSTANCE, INSTANCE)
    Allocation, LineCode, ClassRequests (FtdiRate), K8055 <- MC_Library

`RootPort` EXTENDS `HostState` and drives its actions from the two tasks; that
each of its steps is one of `HostState` or leaves it alone is proved, so the
theorems on `HostState` hold of the firmware. `PipeLoop` reduces the engine
lock and the generations of `HostState` to one bit `valid` that a detach or
reset takes away: what that bit stands for is `ValidMeansFresh`.
`Engine` puts the three parts of the engine below a transaction side by
side: a receiver runs with interrupts off within one step of the schedule, and
never with the other, so that a behaviour is one of the three.
`ErrorSparesWholeReads` and `OkMeansTransported` are what `UsbtmcExchange`
relies on when it lets a failed `request_in` take nothing and a failed
`request_out` leave the instrument one message ahead (`confused`).

The engine itself may fail (a transmitter that does not come back, a frame
marker or a receiver that cannot be started): every such error becomes
`PipeError::Timeout` (`map_tx_error`, src/pio_host/rp2040.rs:1210) and leaves the
retry loop at once by `result?`. In `PipeLoop` it is the result `"failed"`, after
which a call times out although its device was not silent; `GivesUpOnSilence` is
about all other timeouts. One such failure does more than end a call: the wait
for the transmitter after the ACK of an IN packet (line 2298) fails before the
packet is copied and the toggle advanced (`HangsAfterAck`). If the device has seen
that ACK, the packet is lost, and so is the next one, which is taken for a
repetition. `skipped` marks this until the endpoint is configured anew. While it is
set, `InStep` and `ErrorSparesWholeReads` say nothing and `StopAndWait` is
`broken`; the other properties are about the packets that the host accepts, and
hold all the same. `UsbtmcExchange`
and `ByteStream` describe what they read from a pipe that is not `skipped`. In
`ControlTransfer` a failing engine would end the call as a stall does, and the
next SETUP starts anew; it is not among its choices.

Operators that a comment calls a *mutated form* are not part of a model: each
is a plausible mistake in the operator that follows it, and `PROJECT.json` names
the property that fails with it.

### Runs

| Run | Instance | What it shows |
|---|---|---|
| `host_state` | one speed, one pipe; two attaches, one report or reset by others, any number of transfers and frames; `GenModulus` 7 | `IInv` (its parts: who owns the wire, the reset flag and the ages of handles, no stale transaction, mailbox and port agree), `OkOnlyWhileFresh`, `FailedResetSparesNewConnection`, `ImplementsContract`; `RemovalIsDelivered`, `StaleTransferEnds`, `ResetEnds` |
| `root_port` | `Required` 2, `MaxGlitches` 1, `GenModulus` 3 | `RootInv`, `DetachIsReal`, `RemovalEndsSession`, `DeviceIsServed`, `FramesKeepComing` |
| `root_port_retry` | the same, without the bus handle's own reset | **violated**: `EveryDeviceIsServed` |
| `bulk_in` | `Mps` 2, buffers of 0, 1, 3, 4 bytes, 3 packets between configurations | `ReadInv`, `ImplementsStopAndWait`, `ErrorSparesWholeReads`, `RepetitionEnds` |
| `bulk_out` | `Mps` 2, buffers of 0 to 4 bytes | `WriteInv`, `ImplementsStopAndWait`, `OkMeansTransported`, `EndsUnlessNaked` |
| `out_success` | buffers of 1 and 2 bytes | **violated**: `SuccessMeansTransported` |
| `control_transfer` | `Mps` 2, requests and replies of 0, 2, 3, 5 bytes, a deadline of 6 frames | `ControlInv`, `OkMeansComplete`, `TransferEnds` |
| `engine` | packets up to 2 bytes, answers up to 7, a FIFO of 2 words; frames of 3 ticks, a reset of 4 and 2 of recovery, 21 ticks | `ReceiveInv`, `ReportsAnswer`, `HandshakeIsSeen`, `FrameInv`, `NoBurst` |
| `usbtmc_exchange` | `Mps` 4, header 2, alignment 2, 4 tags, 6 taken | `Framing`, `OwnBytes` |
| `library` | six sound configurations and all that two edits make of them; strings of up to 4 bytes; packets with up to two damaged bits; 21 baud rates on every chip; every request | `FunctionsAreFound`, `PipesFit`, `PacketsSurvive`, `RatesAreReal`, `RequestsDecode`, `BoardIsDriven` |
| `bleuio` | packets of 4, a buffer of 3, 9 answers; the application, or 2 commands of any caller | `ApplicationInv`, `ImplementsChannel`, `AnswersMatch`, `SessionsEnd` |
| `bleuio_rest` | the same | **violated**: `NothingLeftBehind` |

Properties that a theorem states and that are parts or consequences of an
invariant above are not checked again by a run: `WireExclusive`,
`ValidMeansFresh`, `NoStaleTransaction`, `NoStaleConnection` (of `IInv`),
`SessionIsCurrent`, `NoSecondAttachment` (`RootInv`), `NoMergedTransfers`,
`PollsAreSpaced` (`ReadInv`), `GivesUpOnSilence` (`ReadInv` and `WriteInv`, by
`LoopInv`).
`RemovalIsDelivered` fails when a wakeup is lost.

Bounds, and why they are enough:

- `GenModulus` stands for 2^32. The guard of each step that advances a
  generation (`NoHandleWraps` on the ages of live handles) keeps the counter
  from going once around while a handle that would be fooled is held, which
  2^32 detaches during the life of one pipe would take. With 7 in `host_state`
  that guard is never in the way (`NoWrapAssumption`), so that no step of the
  code is withheld from the liveness properties. That a generation may come
  round to one seen before is shown by the proofs, which are for every modulus,
  and by `root_port` with 3.
- `MaxAttaches` 2 and `MaxOthers` 1 in `host_state`: a device is replaced while
  a transfer waits or while a reset of the controller runs, a reset fails while
  a second is queued, and a removal is superseded. Safety for any number of
  calls is proved.
- One pipe beside the monitor, the controller and another reporter: the engine
  has three users that way. That nothing changes with more pipes, or with more
  than one speed, is proved, for every safety property of `host_state`.
- `Required` 2 stands for `ATTACH_DEBOUNCE_SAMPLES`, and `MaxGlitches` 1, the
  longest run of samples that do not show the device, is the longest that a
  debounce of 2 has to bear. The proofs are for every debounce and every longer
  run below it.
- The transfer runs are of bulk endpoints; that an interrupt endpoint is polled
  once in its interval, and everything else on interrupt endpoints but
  liveness, is proved with the same theorems.
- `RetryLimit` 2 (3 in `out_success`) stands for 128, `NoResponseLimit` 2 for
  16, `BadResponseLimit` 2 for 3: each is reached, reset and passed by.
- `Mps` 2 with buffers to 4 has empty, short, full and several packets, ends
  on and off the packet boundary; a device's `MaxPackets` bounds its packets
  between two configurations and is more than one buffer takes.
- `Deadline` 6 frames lets every stage be reached with and without retries and
  the deadline pass in each of them.
- `Capacity` 2, `MaxLength` 7: answers shorter than a header, as long as the
  request, as long as the endpoint, and longer than both. `FifoDepth` 2 lets
  the decoder be ahead by more than a byte and be stopped by a full FIFO.
- `Ms` 3, `ResetTicks` 4, `RecoveryTicks` 2 and `MaxTime` 21: a marker is late by
  several frames, a reset and its recovery lie across frame deadlines, and there
  is time for two of either. `FrameModulus` 4 makes the number come round. The
  proofs are for every value.
- `MaxEdits` 2 in `library`: an edit inserts a descriptor of the other functions or a
  damaged one anywhere, drops one, exchanges two, or damages the header. Most
  defects a walk can have need one descriptor in the wrong place, some (an
  interface that comes back, a union that names an interface that is not its own)
  two. `MaxBytes` 4 from `SampleBytes` puts six ones at every place of a byte,
  across bytes and at the end; neither `MaxDecodedBytes` 6 nor
  `MaxEncodedBytes` 14 is reached by them, and the proof covers both. The rates
  and times lie on both sides of every limit in the code.
- `PacketSize` 4 and `RxBytes` 3 make a packet longer and shorter than the
  client's buffer, with and without the two FTDI status bytes; `MaxResponse` 8 and
  `MaxLine` 2 are each reached and passed by one of the answers. `MaxCommands` 2
  is enough for an answer that arrives in the next command. `Free`, two
  addresses, lets a leak of one be seen: after a failed enumeration every address
  is given back, otherwise only the device's own (`StillLeased`).
- `TagCount` 4 with 6 tags taken makes tags come round; the guard `Room` keeps
  them from doing so while an answer with one is outstanding.

### Fairness, and why the code justifies it

- `HostState`: weak fairness of the monitor's, the controller's and each
  pipe's own steps, since a task that is ready is polled. Strong fairness of
  each acquisition of the engine: Embassy's mutex wakes every waiter when it is
  released, and the holders release it again and again (a transaction, a reset
  and a frame marker end by their deadlines and budgets). Strong fairness of
  `WaitForDeviceEvent`: the application returns to it after whatever it does.
  Nothing is assumed of devices or of reporters, except that a reporter that
  has pushed an event goes on to its signal.
- `RootPort`: one executor polls both tasks again and again, so each task has
  strong fairness as a whole, and enumeration ends. Glitches and plugs have none.
- `InTransfer`, `OutTransfer`: weak fairness of the call's steps and of time.
  `RepetitionEnds` states its own assumption: callers go on calling and the
  device's repetition comes through again and again.
- `ControlTransfer`: weak fairness of the attempts, each of which ends.
- `BleuIo`: weak fairness of the session's own steps and of `SESSION_TIMEOUT`'s
  timer, since `select` polls both. The device need not answer.
- The other modules state safety only. A run says `CHECK_DEADLOCK FALSE` where
  the system may stop: the functions of `library`, which have nothing left to
  edit, and a `bleuio` caller who issues no more commands.

### What is proved

All proofs are of the specifications above, for every value of the constants
that the named assumptions admit: `GenModulusAssumption`, `EventsAssumption`,
`PipesAssumption` (`HostState`), `SpeedsAssumption`, `DebounceAssumption`,
`ResetsAssumption` (`RootPort`), `EndpointAssumption` (`PipeLoop`),
`BuffersAssumption` (`InTransfer`), `LengthsAssumption` (`OutTransfer`),
`ControlAssumption`, `ReceiveAssumption`, `FrameAssumption`,
`FramingAssumption` (`UsbtmcExchange`), `ByteStreamAssumption`,
`BleuIoAssumption`, `TerminalAssumption` (`BleuIo`), `LibraryAssumption`,
`LineCodeAssumption`, `RxCapacityAssumption` (`Allocation`). Every invariant,
action property and refinement that a passing run of a state machine checks has
a theorem.

- **`RootPortProofs`**, the host state. `IInv` is inductive. `NoStaleTransaction`
  alone is not: that a pipe which has just compared its generations is fresh
  needs the recorded generation to tell how often the port has moved on, which
  `AgesCount` says (a recorded generation is the port's, `age` steps ago,
  modulo `GenModulus`), and that no reset runs meanwhile needs `EngineOwned` and
  `ResetFlagOwned`. `MailboxAgreesWithPort` (draining the mailbox tells the
  application the port's state) gives the refinement of `EventContract`.
- **`RootPortProofs`**, the firmware. Every step is one of `HostState` or leaves
  it alone (`FirmwareUsesHostState`), hence `IInv` holds; with it `RootInv` is
  inductive: the detector's stable state is the published device's, only
  glitches count towards a removal while it stays, and the monitor's `connected`
  follows the port unless a reset has missed the device.
- **`PipeLoopProofs`, `InTransferProofs`, `OutTransferProofs`**. `LoopInv`
  (missing answers are counted as silence, time still to be waited covers what
  the device is owed) is proved once for the shared loop. `ReadInv` and
  `WriteInv` add that the two toggles differ exactly while one side does not
  know what the other has; `WriteInv` adds that the device has the packets of
  this call up to the current one. That the packets make up the buffer follows
  from lemmas on `PacketCount` and `PacketBytes`, for every length and packet
  size. `ReadGivesUpOnSilence` and `WriteGivesUpOnSilence` follow from what
  `LoopInv` says of the count.
- **`ControlTransferProofs`**. `ControlInv` says stage by stage where host and
  device may be; `OkMeansComplete` follows from it at the last step.
- **`EngineProofs`**. Each part is proved alone and then carried over to the
  composition, whose steps are the part's or leave its variables alone
  (`EngineReceives` is that refinement for the data receiver).
  `ReceiveInv` follows the prepared ACK through the polling loop; with the whole
  answer in hand after the terminal drain (`AnswerComplete`), what is returned
  is what the answer deserves (`ReportsAnswer`). That theorem assumes
  `~PrefixCrc`; section 3 says why it has to. `HandshakeIsSeen` needs
  `AnswerInHand`: the end of the packet is never seen before its last byte
  while the decoder runs, so that a call which the end has stopped has all of
  the answer, although the decoder is stopped a step later. `FrameInv` adds to "no
  packet on a bus in reset" what `NoBurst` needs: the frame deadline lies past
  the last marker and a whole frame past the one before (`Spacing`), through
  resets, dropped futures and the fresh start after a refused status stage. The
  history is of markers sent to their end: one whose wait for the end of the
  packet fails (src/pio_host/rp2040.rs:856) may have been on the wire, and is
  repeated at the next service without being counted.
- **`DriverProofs`**, the message exchange. `Framing` is the inductive invariant.
  That no tag is on its way twice (`Numbered`) rests on the age of each tag in tags taken
  since; that a response is read to its end, on `Chained`: the packets on their
  way are runs of whole responses, a full packet being followed by the rest of
  its response and a short one by the start of the next. `MidRead` ties the
  host's counters to the place in the response where the next packet starts,
  which is why a packet knows its `start`. `OwnBytes` follows: a first packet
  with this read's tag has its number, and after it only packets of the same
  response come.
- **`DriverProofs`**, the pure functions, over the inputs `LibrarySpec` generates
  and any of their constants: `InputOK` says what an input is, and each theorem
  rests on a lemma about the function itself.
  - *Line code* (`TheCodersAgree`, the half `CodersAgree` of `PacketsSurvive`).
    `SentInStep`, `Encodes` and `Decodes` relate the loops after every bit, stuffed
    or not: encoder, transmit program and both receivers have the same level and
    the same run of ones, and the bits sent so far. It covers what the run does not reach, strings at
    `MaxDecodedBytes` and at the encoder's limit.
  - *Baud rates* (`EveryRateIsReal`): the division the chip performs undoes the
    packing of divisor and fraction into value and index, and the bounds on the
    divisor are those that let no rate from 200 baud to half of the highest out.
  - *K8055* (`TheBoardIsDriven`): the search for the nearest debounce setting ends
    at the nearest square, and every session's pulses have a beginning.
  - *Discoveries and pipes* (`ThePipesFit`). A walk keeps in its slots only bulk
    endpoints that were parsed and are of a supported size (`Kept`), through every
    step of every discovery; so a function found has a whole pair (`Pair`), also
    as the data interface picked from a union. With it `validate_pipe` and the
    drivers' own limits decide what a pipe may be (`BulkIsLegal`, `HidIsLegal`,
    `AudioIsLegal`), and nothing else does (`LegalIsAccepted`). Of a descriptor it is
    assumed that an endpoint's number has four bits and a union a length; that the
    configurations and all edits of them keep to that is part of `InputOK`
    (`Written`).
  - *Requests* (`EveryCallIsHeard`). `Asked` is the device's side: it reads a call
    out of the eight bytes and the data stage. That every call is read back
    (`Heard`) gives that no two that differ send the same request. The lemmas
    about reports, line codings, line properties, flow control and baud rates hold
    for all arguments, not only those of the run; a rate is read back out of
    divisor and clock, also where the code takes one of its three fixed rates
    (`ClockBitsAreTold`).
- **`BleuIoProofs`**. That the drivers' reads implement `ByteChannel` needs
  little about the state (`StreamOK`: the buffer is empty when a read waits) and
  much about sequences: what is unread, followed by the wire, is shortened at
  the front by exactly what is returned (`ReadOn`), a packet of status bytes and
  the wire's first bytes leaves it as it was (`PacketStandsForWire`), and what a
  failed or discarding call drops is one stretch of it. `ApplicationInv` says
  that neither parser outgrows its buffer and that what one consumes is within
  what it was given, and all of it unless it is at an end: the
  `ContractViolation` exits of `read_response` are not taken. It is a statement
  about a recursive function, proved from the least prefix for which it would be
  false (`Least`, of the library's theorem on well-founded relations).
  `AnswersMatch` needs the history of each answer: `AnswersInTurn` says that until
  something goes wrong nothing that ends an answer is ahead of a command
  (`Quiet`), and that while one is at work the rest of its own answer is
  (`Arrives`), with the line the parser has begun (`Traced`). It assumes
  (`TerminalAssumption`) that after the line that ends it an answer has no word
  that a parser takes for the end of another.

### What is only model-checked

The liveness properties (`RemovalIsDelivered`, `StaleTransferEnds`,
`ResetEnds`, `RemovalEndsSession`, `DeviceIsServed`, `FramesKeepComing`,
`RepetitionEnds`, `EndsUnlessNaked`, `TransferEnds`, `SessionsEnd`), which are
out of the prover's reach; and of the pure functions of `library`:

- `FunctionsAreFound`, which compares five discoveries with definitions that do
  not walk (for FTDI and USBTMC, `IsFirstFtdi` and `IsFirstTmc`: the first
  interface of the class, if it has a bulk pair of its own and no interface the
  walk passes is malformed): that nothing is missed needs for each walk an invariant about every
  descriptor passed so far, many times as long as the discoveries;
- `DamageIsSeen`, the other half of `PacketsSurvive`: that the CRCs see any two
  damaged bits of these packets is a computation over each pair of bits, for
  which the provers have no arithmetic of polynomials.

## 3. Where the code and its documentation disagree

- `root_port_retry`. README.md:124 says the default binary "enumerates any
  descriptor-compliant full-speed CDC-ACM function". A device that leaves
  during the attach reset and is back before the debounce has seen it go makes
  the attach fail, and the monitor never tries again: its detector has settled
  on the level that is there, and reports only changes (`src/main.rs:129`).
- `out_success`. docs/CDC_ACM_HOST_GUIDE.md:477 says "a successful return means
  the complete buffer was transported". A call that ends with a garbled ACK
  leaves the toggle behind the device's; the next write's first packet is taken
  for a repetition, and the write returns Ok (`src/pio_host.rs:1082`).
- `bleuio_rest`. examples/bleuio/protocol.rs:29 says the receive buffer "normally
  contains only bytes received after the terminal line of the preceding
  response", for parsers "consume bytes as they inspect them". A parser's error
  leaves `read_response` before `consume_buffered` (line 207): a `gap_scan` that
  finds no device leaves its terminal line behind, and the next one fails on it.

Facts met while modelling that no run is about:

- The comment at src/pio_host/rp2040.rs:2162 announces a last drain and a new
  look at CRC and length before the full-speed fast path releases the ACK; the
  code releases it at once (line 2173). It matters only if the CRC happens to
  hold over a prefix of the packet, which `PrefixCrc` FALSE excludes.
- src/usbtmc.rs:430 promises "one complete device-dependent response message"; the
  EOM bit of the header is never read, so that a response longer than the buffer
  is returned in parts, each as if it were complete.
- src/ftdi.rs:616 says "Set the closest supported baud rate". The tables at
  src/ftdi.rs:871 that correct the fraction of an AM chip are not those that
  lead to its nearest sub-divisor: 827586 baud becomes 857143, though 800000 is
  nearer. The other chips round the divisor, not the rate. 2.9 MBd is refused,
  though 3 MBd is within the 5 % allowed. `RatesAreReal` therefore says that the
  rate returned is the one the chip runs at, for every chip but the AM, and does
  not say that it is the closest.
- `reset` of the FTDI driver sends index 0 whatever the channel (src/ftdi.rs:586).

## 4. What is not modelled

- **In the modelled parts.** The flag that makes the controller unique,
  diagnostics counters and isochronous transfers of `pio_host.rs`; enumeration
  with its control transfers and the class probe are one step of `RootPort`, and
  address leases are Embassy's; `control_in` with a `wLength` of 0. A caller who
  drops a pipe's future during a transaction is modelled where bytes could be lost
  for it (`ByteStream`, `BleuIo`, `UsbtmcExchange`, `FrameSchedule`), and not in
  `HostState`. The device is assumed to keep to the protocol of endpoint
  zero, a bulk device to that of the DATA toggle, an instrument to USBTMC, with
  commands of one packet.
- **Descriptors** are records of the fields the discoveries look at; the device,
  string and report descriptors, which no driver interprets, are left out, and
  so is the AM chip of `FtdiRate` from `RatesAreReal` (section 3).
- **Timing.** `ReceivePath` assumes that the decoder pushes the last byte before
  the edge detector sees the end of the packet, as the comment at
  src/pio_host/rp2040.rs:2217 says, that the polling budget outlasts a packet,
  and that what a full FIFO does to a packet is one of the answers.
  `HandshakeReceive` has the deadlines; an answer one of them cuts is reported as
  a failure, which its property allows. IRQ 1, which the code tests as a decoder
  error, is raised by no program it loads and is left out.
- **Hardware.** DMA, pins, clocks; interrupts are off while a packet is received.
  Of the PIO programs, those that code and decode bits are in `LineCode`.
- **Components.** `src/host.rs` re-exports traits; `build.rs` copies files;
  `examples/bleuio/legacy_m5i.rs` is an earlier, monolithic implementation kept
  for comparison. The examples' root-port monitors repeat the one of `main.rs`.

## 5. The plan

| Step | Module | What it is to show | Proofs |
|---|---|---|---|
| done | `HostState`, `RootPort`, `EventContract` | freshness, events, reset flag, sessions | safety and refinement |
| done | `InTransfer`, `OutTransfer`, `StopAndWait` | toggles, retries, packets, pacing | safety and refinement |
| done | `ControlTransfer`, `ReceivePath` | stages; the prepared ACK | safety |
| done | `UsbtmcExchange` | tags and framing | safety |
| done | `FrameSchedule` | no burst, no packet in a reset | safety |
| done | `HandshakeReceive`, `Engine` | handshakes seen as sent | safety |
| done | `ByteStream`, `BleuIo` | the stream in order; answers to their commands | safety and the refinement of `ByteChannel` |
| done | `Descriptors`, the discoveries, `Allocation` | what is found is there, and fits | that it fits |
| done | `LineCode`, `FtdiRate`, `ClassRequests`, `K8055` | functions against their references | coders, rates, the board |
| later | isochronous IN (src/pio_host.rs:955), a caller who drops a transfer in `HostState` | deadlines of isochronous packets | - |

The state machines come before the pure functions because the hazards are in
them. No module has a RECURSIVE operator: loops are folds or recursive functions,
and those that are proved about are recursive functions.
