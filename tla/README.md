# EspMidi in TLA+

A verification development of the EspMidi library (`src/src/*.h`): models of its
parts, checked by TLC on small instances, and theorems about them proved by
TLAPS for every instance. Paths below are relative to the repository.

EspMidi sits between the MIDI interfaces of an ESP32. Port adapters (USB host,
USB device, BLE, UART) attach *endpoints* and *ports* to a registry and hand the
messages they receive to a router; the router runs them through routes, filters
and transforms and calls the sinks the adapters registered for their outputs.
Two rules carry the design: everything but `Router::receive()` runs on the
sketch's own task (`loop()`), and a System Exclusive dump, which arrives in
chunks of any size, must reach every output as one unbroken stream.

## 1. Inventory

| Part | State it keeps | Operations | Talks to |
|---|---|---|---|
| Receive queue (`EspMidiRouter.h` 233-311, 538-578) | ring `queue_`, atomics `head_`, `tail_`, a `ready` flag per slot, two atomic counters | `receive()` on any task, the loop of `update()` on the sketch's | called by every adapter and by `AppPort`; calls `dispatch()` |
| Routing and streams (`EspMidiRouter.h` the rest) | `routes_`, `stages_`, `sinks_`, `streams_`, `outStreamOwner_`, `pendingClose_`, counters | `update()`, `addRoute()` and the other configuration calls, `onPortEvent()` | registry (ports, groups, events), sinks of the outputs |
| Application port (`AppPort`) | one endpoint, an input and an output | `begin()`, `end()`, `send()` | registry, router |
| Port registry (`EspMidiPort.h`) | tables of endpoints, ports, groups, listeners | `attachEndpoint()`, `detachEndpoint()`, `attachInPort()`, group edits, `addListener()` | listeners (the router, the sketch) |
| Messages (`EspMidiMessage.h`) | none | classification of bytes, lengths, builders | everybody |
| Parser, serializer (`EspMidiParser.h`) | message in progress, running status, dump flags; `open_` | `parse()`, `reset()`; `serialize()`, `closeStream()`, `reset()` | byte-stream ports |
| UART port (`EspMidiUart.h`) | `started_`, pins, seats, a parser, a serializer | `begin()`, `end()`, `update()`, `send()` | HardwareSerial, router, registry |
| USB packet codec (`EspMidiUsbPacket.h`) | per cable: a parser-like state; packets in progress | decode, encode | USB ports |
| USB host port (`EspMidiEspUsbHost.h`) | slots per device, a ring of packets between two tasks | `update()`, `poll()`, USB callbacks | EspUsbHost, router, registry |
| BLE central (`EspMidiEspBle.h`, `BasicBleHostPort`) | a slot per connection with a dump buffer, a ring of connection events between two tasks, two published atomics per slot | BLE callbacks, `update()`, `begin()`, `end()`, `send()` | EspBle, router, registry |
| BLE peripheral (`EspMidiEspBle.h`, `BasicBleDevicePort`) | `available_`, a dump buffer | `update()`, `begin()`, `end()`, `send()` | BLE stack, router, registry |
| USB device port (`EspMidiEspUsbDevice.h`) | `available_`, a decoder, an encoder per cable | `update()`, `begin()`, `end()`, `send()` | USB stack, router, registry |
| Filters, transforms (`EspMidiFilter.h`) | rule values | `accepts()`, `apply()` | router, `ControlOutput` |
| Controls (`EspMidiControl.h`: `Button`, `Analog`, `Encoder`, `ControlOutput`) | what was believed last and when, filtered reading, position | `update()`, `turn()`, `handle()` | sketch, `AppPort` |
| Clock (`EspMidiControl.h`: `ClockGenerator`, `ClockCounter`) | time of the next tick; ticks, window, measured tempo | `start()`, `stop()`, `update()`; `handle()`, `reset()` | sketch, `AppPort` |

What is hard about each, and what makes it correct:

* **Receive queue.** Any number of tasks swap `tail_` while the sketch moves
  `head_`; tasks are preempted anywhere, for ever if need be; indices wrap at
  2^32; a chunk is split into entries that may be refused one by one. Correct: no
  slot is written by two, nothing accepted is lost, doubled or reordered, the
  result of `receive()` is true, `update()` always returns.
* **Routing and streams.** Dumps from several inputs merge on one output while
  the configuration is edited, the queue or a transport refuses, and either end
  is unplugged and comes back. Correct: nothing gets inside a stream, nobody gets
  the rest of a dump it did not get the start of, the path of a dump is fixed by
  its start, a disconnect closes what it leaves open, a loss is counted.
* **Registry.** Devices come and go with or without a serial number, tables are
  full, ports arrive late. Correct: seats are distinct, found again and never
  inherited; ports follow their endpoint; listeners are not left with a stale
  state.
* **Parser, serializer, UART port.** Buffers end anywhere, real-time bytes come
  anywhere, bytes are lost or wrong, writes are cut short, ports are closed,
  moved and opened again in the middle of a dump. Correct: what the parser emits
  is framed and complete, and one board reads what the other was given.
* **USB codec and host.** A ring between two tasks that may fill up, addresses
  that are given to another device while packets of the old one are queued,
  devices that come back in another order, at another address, into another slot,
  sinks that outlive their device, dumps that fill packets unevenly. Correct: a
  packet is decoded for its sender or not at all, chunks stay framed whatever is
  lost, both directions carry what was sent, an output reaches its own device.
* **BLE.** Identifiers of connections that are used again while events of the old
  connection are queued, a full ring, searches that are refused or fail, a slot that
  one task reads in two loads while another seats or releases it; dumps that are
  collected before they can be sent. Correct: a message goes into the port of its
  sender, every connection that lasts gets its seat, a dump arrives whole or not
  at all.
* **USB device.** The host mounts, unmounts and sends whatever `update()` has seen,
  a FIFO is full in the middle of a message. Correct: what was cut off leaves no
  trace, both directions carry what was accepted, the endpoint follows the host.
* **Filters, transforms.** Values are scaled with rounding, notes moved out of the
  range, releases come in two forms. Correct: maps keep order and ends, and a
  note that was let through is ended.
* **Controls, clock.** Contacts bounce, readings wander, clocks wrap, updates are
  late. Correct: what is still is believed, no turn is lost, ticks keep time and
  a steady clock is followed.

`PROJECT.json` lists the hazards line by line, each with the properties that
watch over it or the reason why none does yet.

## 2. The modules

| Module | Models | Size of a step |
|---|---|---|
| `MessageQueue` | what the queue promises (abstract) | accept or hand out one message |
| `ReceiveQueue` | `receive()`, `enqueue()`, the loop of `update()` | one atomic load, store or compare-and-swap |
| `Router` | routing, stages, streams, disconnects, configuration | one dispatched message, one call |
| `PortRegistry` | endpoints, ports, groups, listeners | one call |
| `MidiBytes` | the classes of MIDI bytes and the lengths of messages | none |
| `Parser` | `Parser` | one byte; the end of a buffer |
| `UartLink` | `Serializer`, two `BasicUartPort`s and the cable | one message sent, one byte parsed, one fault |
| `UsbPacket` | `UsbPacketDecoder`, `UsbPacketEncoder` | none (operators) |
| `UsbHost` | `BasicUsbHostPort`, the USB stack and the devices on its bus | one packet, one message, one device found |
| `BleSysEx` | `BleSysExBuffer`, what `send()` makes of a message | none (operators) |
| `BleHost` | `BasicBleHostPort`, EspBle and the devices | one load or store of a published atomic, one event, one slot, one message |
| `BleDevice` | `BasicBleDevicePort` and the phone | one call |
| `UsbDevice` | `BasicUsbDevicePort`, the stack's FIFOs and the host | one packet, one message, one call |
| `Stage` | `Filter`, `Transform`, `ValueMap`, `runStage()`, `ControlOutput` | one message |
| `Button`, `Analog`, `Encoder` | the classes of these names | one `update()` |
| `ClockGenerator`, `ClockCounter` | the classes of these names | one tick, one call |
| `Controls` | these six parts, each by itself, in one specification | a step of one of them |
| `MC*` | instances for TLC; `MCDevicePorts` puts the two ports of a device side by side | |
| `ReceiveQueueProofs`, `RouterProofs`, `PortRegistryProofs`, `UartLinkProofs`, `ControlProofs`, `UsbProofs`, `BleProofs` | theorems about the module of that name (`Controls`; `UartLink` and `Parser`; `UsbPacket`, `UsbHost` and `UsbDevice`; `BleHost`, `BleSysEx` and `BleDevice`) | |
| `SequenceLemmas` | what `UartLinkProofs`, `UsbProofs` and `BleProofs` need of sequences, of the bytes of messages and of what is done one by one | |

How they fit together: `ReceiveQueue` implements `MessageQueue`
(`ImplementsQueue`, a refinement mapping from ring indices to a sequence), and
`Router` uses that sequence as its queue. `UartLink` extends `Parser`, and
`Parser`'s `EmitsFramed` is what `Router` relies on of its transports
(`Wellformed`, the guard on what arrives), as is `ChunksAreFramed` of `UsbHost`,
which extends `UsbPacket`; `Router`'s `NothingInsideAStream` is
in turn what `UartLink` relies on of its sender (`Accepted`). `PortRegistry`
justifies the one thing `Router` assumes of ports: that an endpoint's ports change
state together (`PortsFollowEndpoint`, a part of `RegistryIsConsistent`). `BleHost`
and `BleDevice` extend `BleSysEx`, `UsbDevice` extends `UsbPacket`; both are handed
streams as `Router` lets them through (`Fits`). `Stage` is what `Router` abstracts to
a rule set: its filter and its transform, message by message.

**ReceiveQueue.** `head`, `tail`, `ready`, `content` are the members of the same
names; `pc`, `reserved`, `piece`, `ok` are a task's place and locals in `receive()`
and `enqueue()`, `upc` and `limit` those of `update()`. `LoadTail`, `NoRoom`/
`Room` (the load of `head_` and the test), `Reserve`/`Retry` (the two outcomes of
the compare-and-swap), `Write`, `Publish` are the lines of `enqueue()` in order;
`BeginUpdate`, `Dispatch`, `Release`, `Advance`, `EndUpdate` those of `update()`.
Indices are natural numbers that the code's arithmetic is applied to modulo
`IndexModulus`. A failed weak compare-and-swap reloads the tail, also spuriously.
`MCReceiveQueue` has a second queue in which tasks call `receive()` for ever: there
`Renumber` moves all indices back by whole turns and forgets what no step looks at.

**Router.** A message is its input and its kind; the bytes and what a transform
writes into them are abstracted, so a filter or a transform is a rule set of what
it rejects and what it drops. `Dispatch` is the whole of `dispatch()`: input
stage, continuation of an open stream, routes in slot order, output stages, rule 3,
the sinks. `framed` is a history variable, what the device at an output sees:
the input whose dump its sink took the start of and has not taken the end. `unended`
has the outputs whose sink was handed that end and refused it: for `deliver()` the
dump is over, for the device it is not (finding 9). `Unplug`
and `Plug` are `onPortEvent()` for all ports of an endpoint. `counted` is the set
of counters the last step raised.

**PortRegistry.** Positions in the tables are the handles. `Attach`, `AttachNew`,
`AttachRefused`, `Detach`, `AddPort`, `ReattachPort`, `PortRefused` are the
outcomes of the calls; `seat` is the handle the adapter keeps; `told` is what each
listener last heard of each port.

**Parser.** One action per branch of `parse()` and `handleByte()`. `run` is the
stretch of dump data seen since `runStart`; it is flushed by `EndOfBuffer`, as the
code does before `parse()` returns. `feeding` records whether the reader of the
messages is inside a dump.

**UsbPacket, UsbHost.** Codec and adapter share `MidiBytes` with the parser.
`slots` is `devices_`; `Poll`, `Skip`, `Refuse`, `Adopt`, `BeginDrain`, `Drain`,
`Discard`, `EndUpdate` are the parts of `update()` in order, between which the bus
may change and `OnMidi` may put a packet into the ring. The ring is a bounded
sequence: `onMidi()` and `drain()` are the algorithm of the router's queue, with one
producer, and `ReceiveQueue` is about that. An endpoint is named by its device
(devices of one identity are `PortRegistry`'s subject), a port by device and cable,
a context by slot and cable, so that `sinks` can lead to a slot which another device
has taken. `Refuse` may happen to any new device, since other ports fill the
registry too, and for the same reason `room` is the number of ports it has left:
`Adopt` attaches the missing inputs and then the missing outputs, lowest cable first,
until there is none, and only an output that is attached has a sink. `Deliver` is one
call of a sink. `sent`, `handed`, `told`, `heard` are histories: what a device sent and
what the router was handed, what an output accepted and the packets its device got.

*Clipped dumps.* `midiSend()` may refuse the transfer of a device that is there; by then
the encoder has moved on, and the packets are lost. A message or a start that is
refused is not sent at all. In the middle of a dump, however, the router goes on with
it: the device gets a dump with a hole, or one without an end, in which it takes what
comes next for data. `clipped` has the outputs this happened to, and the model says
nothing of what their devices read until a dump begins at a device that is not inside
one (`Afresh`) or the device goes. From there on the output is as good as new, and
that is what `OutputIsFaithful` says: nothing of the encoder's pending bytes or of the
refused packets gets into what follows.

**BleHost.** `slots`, `ids` and `ports` are `slots_`, `connectionIds_` and
`inPortValues_`; an endpoint, an output and a published handle are named by their
device. `inbound` is the message the BLE task is in `onBleMessage()` with:
`LoadId` and `LoadPort` are its two loads, and `Withdraw`, `Release`, `Seat` and
`Publish` are the stores of the other task, so that they interleave as the code
allows. `BeginUpdate`, `Ignore`, `AddSlot`, `EndDrain`, `DiscoveryStarts`,
`DiscoveryRefused`, `StepOver`, `Ready`, `EndUpdate` are the rest of `update()` in
order. The ring of events is a bounded sequence, like that of `UsbHost`. `attached` are
the ports of devices that are in the registry and `room` what it has left: `Seat`
attaches the input, then the output, publishes the input if there is one and Nobody if
there is none (`inPort`), and sets a sink only for an output that is attached. `listeners`
counts how often `begin()` has added its callbacks. `lost` records that an event, a
search or a slot was refused, `strayed` that an output sent through the slot of
another device; `told` and `heard` are what an output was handed and a device got.

**BleDevice, UsbDevice.** `available` is `available_`, `connected` is the state of
the endpoint. A dump goes out when its last chunk is there (BLE), or packet by
packet until a FIFO is full (USB). In `UsbDevice`, `impaired` and `broken` record
that the host came back unnoticed, or a message was cut, in the middle of a dump.
`onBleMessage()` of the peripheral changes no state of the adapter and is not an
action. `Begin` succeeds: a `begin()` of the USB device that fails halfway, since the
registry is full, is left out.

**Stage.** A message is its kind, channel and two values; `Passed` is a stage's
filter and transform, `Play` a message from a keyboard through it to a sound module
and a `ControlOutput`. Values are widened to 16 bits, scaled with the code's
rounding and narrowed again. The width of a value is a constant.

**Button, Analog, Encoder.** `update()` in the branches of the code (`FirstContact`,
`NoChange`, `Bounce`, `Believe`; `FirstReading`, `TooLittle`, `Accept`; `FirstLook`,
`SendAbsolute`, `BeginTurn`), with the contact, the knob and the shaft as external
actors. `SendRelative` is one turn of the loop of `turn()`, and `left` what is still to
be sent. `Controls` puts these parts, `Stage` and the two clocks side by side: `part`
says which of them a behaviour runs.
`millis()` is `time` modulo `ClockRange`, `uint16_t` is modulo `RawRange`.

**ClockGenerator, ClockCounter.** `SendTick`, `Resynchronise` and `EndUpdate` are the
loop of `update()`; `instant` is real time and `Owed` the tick that is due by the
tempo, so that a property can say what wrapping must not disturb. The counter gets
ticks from a sender that jitters and pauses.

**UartLink.** One direction of a link; `begin()` and `end()` act on the serializer
of one board and the parser of the other. `Line` is what the calls of `write` of one
`serialize()` make together, and `SendCut` stops with a part of it taken; what that
leaves of the open stream depends on which call was refused (`OpenAfterCut`).
`SenderEnd` and `SenderMoves` (`begin()` on other pins, where the same cable is plugged
in next) write the 0xF7 of `closeStream()`, which the transport may refuse too;
`SenderBeginAgain` is `begin()` on the same pins. `lineOpen` says whether the bytes that
were written leave a dump open, `abandoned` whether that dump has had a write refused or
`begin()` called on the same pins in its middle. `wire` holds bytes with the number of their message (0: no message), so
that a property can say which messages were damaged.

## 3. What the runs check

| Run | Question |
|---|---|
| `queue_tasks` | slots are exclusive, results are true, the ring is a bounded FIFO queue, `IInv` holds, what went in is dispatched, and `update()` returns while tasks go on calling `receive()` for ever or stop for good in the middle of an entry |
| `router_faults` | rule 3, no rest without its start, and a stream marked by a disconnect is closed, under loss, refusal and unplugging; only continuations vanish uncounted |
| `router_paths` | the path of a dump is fixed, claims are backed by streams, under any edits of routes, groups and rules |
| `router_claim` | finding: a refused start leaves its output claimed |
| `registry_seats` | tables and events agree, seats are not shared, not inherited and found again, with every table at its limit |
| `uart_link` | two boards and a cable with faults: fidelity, recovery, framing, and that no dump is left open by a move to other pins or an `end()` |
| `usb_host` | devices that come, go and move: attribution, framing under loss, fidelity of inputs and of outputs with transfers refused anywhere, seats, slots, ports and sinks that agree |
| `usb_sinks` | finding: an output of a device that is gone sends to the next one in its slot |
| `ble_host` | connections that come, go and share identifiers: attribution between two loads, publication, seats, whole dumps, and that lasting connections are seated |
| `device_ports` | the board as a BLE or a USB device: whole dumps, fidelity of both directions, and that the endpoint follows whoever is there |
| `controls` | notes that end, maps that keep order, a bouncing button, a smoothed knob, a fast encoder, both clocks |
| `analog_spike` | finding: a knob at the bottom jumps to the top |

Every property of a passing run has a mutant: a plausible bug in one definition
that makes TLC find that property violated.

### Bounds

* **Queue**: `Entries = 2`, `StartIndex = 14`, `IndexModulus = 16`, so two
  messages into the run the index wraps; three tasks (one of them the sketch),
  each with one call of one or two entries. Two tasks collide on the swap, the
  third is overtaken, and a message of two entries meets a full ring after one of
  them. No symmetry, which is unsound for liveness.
* **Endless queue** (`MCReceiveQueue` has one or the other): two tasks, a ring of two,
  indices modulo 4, and no bound on the calls of a task or on what is dispatched, so that
  the transport can refill every slot that `update()` has released. The calls of
  `dispatch()`'s own callback stay bounded (one), since the callback returns. `Renumber`
  keeps the states finite: no step looks at what it forgets (`received`, `queueFull`,
  `dispatched`, how often a task has called), and indices are compared modulo 4 or with each
  other; one that lies behind `head_`, however far, stands for one, because `enqueue()` sees
  no room for it (`Minus` is then at least the ring's size) and its compare-and-swap fails.
  What a task that sleeps through a whole turn of the 32-bit index would see is left out,
  as everywhere. An `update()` that looks at `tail_` at every turn, instead of once, fails
  the run.
* **Router**: two inputs, two outputs, two routes (one to every output), a queue of
  two (of one in `router_faults`, which checks liveness as well: there entries
  interact through the streams and not in the queue, and what the queue holds
  between a start and its end is the other runs' business; the proofs cover every
  length). Merging needs two inputs; a path needs two outputs to differ; queue
  entries interact in pairs (start and end, end and next start). `MaxChanges = 2`
  edits in `router_paths`: one to change the path after the start, one to change it
  back or to change the second stage.
* **Registry**: five devices (two boards' interfaces, a device with a serial, one
  without, one of no known transport) for two seats, two ports, one group, one
  listener: every table is exceeded.
* **Link**: `RxBytes = 2`, three messages from nine (each length, real-time and
  all kinds of chunk), two faults. A buffer boundary falls inside every message;
  two faults are enough to damage a message and the one next to it. Moving the port,
  ending it and a refused 0xF7 are faults as well.
* **USB**: a device of two cables, one of one cable (which sends on its second all
  the same) and a hub, two addresses, two slots, a ring of two packets (a dump in
  two chunks overflows it), three connections or `end()`s: one device to leave its
  slot, one to take it and one to come back. In one behaviour devices send or the router
  delivers (`OneWay`). Two messages from devices, of
  three: a Clock, which may come in the middle of a dump, and a dump in two chunks, with
  a byte left over between them and its end by itself in a packet; room for five ports,
  which is one less than the boards have, or for all six. Up to five messages to the boards,
  of these and a chunk in the middle of a dump, so that one can be refused between the
  others and a whole dump come after it; room for five, and at most six deliveries and
  changes together. Every other message
  is in the theorems (`InputsArrive`, `OutputsArrive`); the run of the device has a Tune
  Request, whose CIN is also that of an end. Addresses are interchangeable (symmetry).
* **BLE central**: two devices, two identifiers, two slots, a ring of three events,
  three connections, failed searches or `end()`s, one message from a device or two
  to devices: enough for an identifier to be used by the other device while the
  BLE task is between its loads, for the ring to overflow after a second `begin()`,
  and for both slots to be waiting. A buffer of four bytes: dumps that fit, fill it
  and overflow it. Room for all four ports or for one input.
* **Device ports**: a phone that comes twice, a buffer of four bytes and four
  messages; three cables of which two are declared, FIFOs and updates of two
  packets, two mounts, three messages in all (a Tune Request, a Clock and dumps), three
  calls of `begin()` and `end()`.
* **Controls**: the widths are those of MIDI (7 bits, 16 channels) where data is
  small, and scaled down where it is time: a clock of 16 counts, which wraps several
  times, and two of 128, each of which wraps at most once in a behaviour; a debounce time
  of 4, a quarter of 3 ticks. 36 configurations of a knob whose readings are below, at and
  above its range, one end of its output given as 131, of which the code keeps 7 bits; turns of -130 to 64
  detents with steps of 1 and -2; clocks that start at 0 or just before they wrap; updates as late as ten pulses of two or three, with
  a catch-up limit of three, so that the generator resynchronises. The six parts
  do not interact, and each run of the instance is one of them.

Runs with `CHECK_DEADLOCK FALSE` are those of ports and controls: with its messages
sent and its faults or changes used up an instance has nothing left to do, while
the program itself would go on.

### Fairness

The code's scheduling justifies very little: Arduino's `loop()` runs for ever and
calls `update()`, and nothing else has to happen. `ReceiveQueue!FairSpec` (and
`EitherSpec` of `MCReceiveQueue`, for the queue that runs) has weak
fairness of the steps of the sketch's task, with strong fairness of its
compare-and-swap: each attempt fails only because another task's succeeded (or
spuriously, which the hardware does not do for ever). The transport tasks are
not fair; `EnteredIsDispatched` names their being scheduled as a hypothesis
(`TransportFairness`) because an entry that was reserved and never published
holds back everything behind it for ever. `Router!FairSpec` has weak fairness of
`update()`'s steps only. `BleHost!FairSpec` has weak fairness of `update()`, and of the
two loads of the BLE task, which finishes a callback; it has strong fairness of
`DiscoveryStarts` (a search that is asked for at every update is accepted at some
time, since the one it waits for ends) and of `DiscoveryEnds` (a search that is
made again and again comes to its end; a single one may fail, `DiscoveryFails`).
`MCDevicePorts` has weak fairness of the two update loops and `Controls` of the
knob's `update()`. `UartLink`, `UsbHost` and `PortRegistry` state no liveness.

## 4. What is proved

TLAPS proves these for every value of the constants that satisfies the named
assumptions.

**ReceiveQueueProofs** (`TasksAssumption`, `EntriesAssumption`,
`ModulusAssumption`, `BoundsAssumption`): `TypeCorrect`, `Invariant`,
`RingIsBounded`, `SlotsAreExclusive`, `PublishedStays`, `HistoryInvariant`,
`ResultsAreTruthful`, `QueueIsImplemented`. Neither `RingBounded` nor
`SlotsExclusive` is inductive. `IInv` adds where reserved indices lie
(`WritersInRing`, `WritersDistinct`, `WritersUnpublished`), that the room a task saw
is still there if the tail has not moved (`RoomHolds`: only the sketch moves
`head_`, and forward), that a published slot belongs to an index in use, and where
`update()` is. That two indices less than `Entries` apart fall on different slots,
across the 32-bit wrap too, is the arithmetic lemma `SlotsApart`; it is the only
place that needs the ring size to divide 2^32, an assumption the code does not
enforce (`ESPMIDI_QUEUE_ENTRIES` may be redefined). `QueueIsImplemented` is the
refinement `ImplementsQueue`: the abstract queue is the sequence of what the slots
from `head_` to `tail_` hold or are about to hold, a successful compare-and-swap
appends to it, `Dispatch` takes its first, and every other step stutters. It rests on
`HistoryInv`, as does `ResultsAreTruthful`: every index in use is published or being
written, and what is in the queue or has left it is exactly what its task counts as
accepted (`ResultSoFar`).

**RouterProofs** (`PortsAssumption`, `RulesAssumption`): `StreamsAreConsistent`, `RuleThree`,
`NoOrphanChunks`, `NothingElseVanishes`, with loss, refusals, unplugging and editing
all allowed. `NothingElseVanishes` is the action property `OnlyContinuationsVanish`:
that what is offered to an output is taken by a sink or counted is a case analysis of
`deliver()` (`RoutedIsCounted`), and that only `dispatch()` takes a message off the
budget is `BudgetInv`. The other two
properties speak of the message dispatched next; the invariant behind them is
that a frame open at an output is claimed for the same input unless the sink refused
its end (`FramedIsOwned`, `unended`: the exception is finding 9, and by
`NothingInsideAStream` the only way into a dump)
and that an output an open stream goes to and owns was handed its start
(`TargetsAreFramed`).
`ClaimsAreBacked` and `PathsAreFixed` assume `Faultless` (nothing lost, refused or
unplugged: the findings are what happens otherwise) and allow any ports, routes and
rule sets and any editing. Their invariant `PathInv` says that owners, frames and
open streams agree (`ClaimsAgree`), and that each start in the queue is followed by
its end before the next start of the same input (`DumpsInTurn`). Without the latter
a start could find its own input's stream still open and replace its targets, the
old ones keeping their claim. What the queue keeps of it is stated of any sequence
(`TurnsPut`, `TurnsTaken`).

**UartLinkProofs**, of `Parser` (no assumption): `ParserTypes`, `ParserFrames`,
`ParserCompletes`, for any bytes in any buffers with `reset()` at any time. The
invariant relates the parser to the reader: the reader is inside a dump exactly
when the parser is and has emitted the start (`DumpInv`), and a message in
progress has a legal status and still lacks a data byte (`MessageInv`).

Of `UartLink` (`LinkAssumption`): `LinkParses`, `LinkFrames`, `DumpsAreTerminated`,
`FaithfulLink`, `IntactMessagesArrive`. All but `DumpsAreTerminated` suppose that the receiver's `begin()` is not
called again in the middle of a dump (`~BeginsMidDump`, see below), and `LinkAssumption` that the sender's messages are
complete (`IsComplete`: a short message has 7-bit data, as many bytes as its status
calls for, and a chunk has 7-bit data), which `ParserCompletes` shows of a parser's.

* `LinkParses` says that the receiver of a link implements `Parser` (each step of the
  link is one of the parser's or leaves it alone), so `LinkFrames` is `ParserFrames`.
  It needs that a port which is closed has nothing in its buffer (`ClosedInv`).
* `DumpsAreTerminated` is the invariant `DumpIsTerminated`: the port and the cable agree
  on whether a dump is open, through `end()`, a move to other pins and any fault of the
  cable, unless a write of that dump was refused (its 0xF7 included) or `begin()` was
  called on the same pins in its middle. It follows from what the bytes
  of one message leave open on the cable (`LineEnds`) and how a cut leaves the port.
* `FaithfulLink` is the invariant `LinkIsFaithful`. `FaithInv` says where the bytes on
  the wire lead: from where the parser is to where the serializer is (`Leads`: between
  messages, in a dump, or so many data bytes short of a message's end). Any byte that
  may come next on such a way is read for what it says (`Reads`, `AllowedReads`),
  so what was handed on, what the parser holds and what is on the wire make up what was
  sent at any time (`Joins`; `Meets` for System Real-Time, which is never held). `Held` is a
  start not told yet, the run of the buffer or the message in progress. When the wire is
  empty and nothing is held back the way is empty too, the parser is where the serializer
  is, and both histories are equal.
* `IntactMessagesArrive` is the invariant `IntactArrives`, which says nothing of the
  bytes on the wire; `OrderInv` does: the bytes of an intact short message are there as
  they were written, one after the other (`Spelt`: the line from its k-th byte on), and
  if some of them have been read (k > 0), the rest comes first and the parser holds the
  others and nothing else (`Midway`). From wherever a damaged message left the parser, a
  status byte begins the message anew (`ByteGoes`), and its last byte hands it on. What
  happens to another message moves these bytes but leaves them together
  (`SpeltWithout`, `SpeltChanged`, `SpeltMore`), and `KnownInv` keeps the number of a new
  message apart from those on the wire.

**SequenceLemmas** (no assumption): `FlattenSeq` of two sequences, one after the other,
is one result after the other (`FlattenConcat`), and so is mapping each element to
a sequence (`FlatMap`), such as a message to the bytes it says (`EventsOf`, `RealTimeOf`). `FlattenSeq` is a fold of the community modules; the induction over the
length is `SetInduction`: over the set of the lengths that behave, not over an operator.

**PortRegistryProofs** (`IdentitiesAssumption`, `RegistryBoundsAssumption`): `RegistryStaysConsistent`, `Invariant`, `NoSeatIsInherited`,
`SeatsAreKept`, `NoSeatIsShared`. `RegistryIsConsistent` is inductive as it stands,
which the case analysis over all calls shows; what a device's seat says of it needs
the strengthening `SeatIsOwn`: a seat has the device's identity or one that matches
it. `NoSeatIsShared` is an implication of `NoTwins` (no two devices match), which is
exactly what finding 4 violates.

**UsbProofs** (`UsbHostAssumption`, for `UsbDevice` `PortAssumption`: messages are complete
MIDI messages, bounds are numbers): `EncodingRead` of the codec; `Invariance`, `SeatsHold`,
`SendersAreTold`, `ChunksFollow`, `InputsArrive`, `OutputsArrive` of `UsbHost`;
`DeviceStreamsArrive` of `UsbDevice`.

* `UsbInv`. The adapter knows a device by an address that is used again, and
  `UsbInv` says for how long an address means one device: until the poll that follows a
  disconnect (`StillThere`). Up to then each slot (`SlotsApart`) and each find that has no
  slot yet (`FoundInv`) is of the device at its address. A packet stays in the ring
  longer; `RingInv` says that it is of a device whose address cannot be used again yet, or
  is among those this update drains before it seats anything. That is the order of
  `update()` (poll, drain, seat), and the mutants show it is needed. `SeatsAgree`
  takes of it that sinks are set for every attached output of a seated device, all its
  ports being attached unless the registry is full (`SeatsInv`), and
  `ChunksAreFramed` that the decoder of a cable is inside a dump exactly when the router
  is (`StreamInv`), which a decoder thrown away with its slot must leave true.
* The codec. `EncodingRead`: a decoder that is inside a dump exactly if the encoder has
  written the start of one (`Synced`) makes of the packets of a message what the message
  says, after the bytes that the encoder held back before and but for those it holds back
  now. Behind it are the packets of three bytes (`GroupsRead`), the end with the bytes that
  are left (`EndRead`) and the short messages (`ShortRead`), for any data and any encoder.
  `Linked` carries this over a stream: what was handed out, what the packets on their way
  would be read as and what the encoder holds are together what was sent. System Real-Time
  is compared by itself: a Clock between two chunks overtakes the bytes that are held back
  of the first (the properties said otherwise before this proof was tried). A message is sent (`LinkedSends`) and any number of packets are read
  (`LinkedReads`) without breaking it, and when nothing is under way it says that all has
  come through (`LinkedArrives`).
* `InputsArrive` is `InputIsFaithful`. `InputInv` says that for a device without harm its
  encoder, its packets in the transfer and in the ring, the decoder of its slot and the
  router are `Linked`, cable by cable. `UsbInv` is what makes it an invariant: the packets
  of a device meet its own decoder or none, and no slot with an open decoder goes without
  its device being counted as harmed.
* `OutputsArrive` is `OutputIsFaithful`. `OutputInv` says it of an output, the encoder of
  the slot its device is in and the packets the device got, as long as no send has gone
  astray (finding 5) and the output is not `clipped`: a refused transfer is one among the
  steps. Where a dump begins again at a device that is not inside one (`Afresh`), both
  histories begin anew. What an encoder holds of a dump that was not begun through it does not
  count (`EncoderOf`): the next message is a start, which throws it away (`SinkSends`).
* `DeviceStreamsArrive` is `HostStreamsAreFaithful` of `MCDevicePorts` (the instance
  `Device` of `UsbDevice` has variables of its own here, as that of `BleDevice` in
  `BleProofs`). `DeviceInv` has both directions: the packets of a cable among those in a FIFO
  (`Carried`) link its encoder to its decoder, whatever the other cables carry, unless a
  dump was cut off. That this flag can be taken back once nobody is there is `PortSilent`:
  then the FIFOs are empty, decoders between dumps and streams closed, or the flag stays.

**BleProofs** (`BleHostAssumption`, `CapacityAssumption`): `Invariance`,
`SenderIsKept`, `HeardIsPublished`, `TablesAgree`, `DumpsComeWhole` of `BleHost`, and
`PhonesGetWholeDumps` of `BleDevice`. There are four invariants of the central, and one
of the peripheral.

* `BleInv` holds whatever gets lost, and says what `onBleMessage()` may read at any of
  its loads: a pair is published for a seat only (`PublishedInv`), and the device of a
  seat whose connection is ready is the one behind that connection (`SeatedInv`). The
  latter is not inductive without `StaleInv`: where the end of an earlier connection
  with the same identifier is still in the ring, the slot is not seated, and will not be
  before that event is drained. `InboundInv` relates what the BLE task has
  read to what it will read next; an `end()` in between is where it stops to hold
  (finding 7).
* `NothingLost` holds as long as the ring dropped no event and nobody called `end()`. The
  ring then has the connections and ends of each identifier by turns, between what the
  slots say and what the stack's links say (`ByTurns`); a seat is of the device behind
  its connection unless an end is in the ring, and a device that is back is back behind
  that end (`OfItsDevice`); so seats that share a device while the ring is drained are
  all about to go but one (`AvailableInv`).
* `RoomInv` is what `TablesAgree` needs of the ports: a seat without an input is one the
  registry had no room for, and has none for now (`RoomIsLeft`).
* `WholeInv` is about the dumps, as long as no output sends through the slot of another
  device (`strayed`). A slot's buffer holds the bytes of the chunks since the last start in
  the history of its device, or has overflowed because there are too many of them; a buffer
  that is not open means that there was no start, or that the output's stream is closed
  (`Collected`), so the next chunk is a start. Then what `send()` hands on with
  a message is what the longer history promises more (`Said`), and a slot that is released
  or seated begins anew.
* `PhoneInv` says the same of the peripheral's one buffer, from the same lemmas. Its
  specification is an instance in `BleProofs` (`Device`), with variables of its own and
  with `PhoneAssumption` (messages are MIDI messages, bounds are numbers) as a hypothesis
  of the theorem; `SameOperators` says that the instance computes the same. Nobody's
  dump is left over for the next phone because `begin()`, `end()` and the phone that
  leaves close the stream of the output, which makes the next chunk a start.

**ControlProofs** (`StageAssumption`, `ButtonAssumption`, `AnalogAssumption`,
`EncoderAssumption`, `GeneratorAssumption`, `CounterAssumption`): every safety property
of `controls` for `Controls!Spec`, from a specification and an invariant per part
(`EveryPart` says that a behaviour of `Controls` is one of each).

* `NotesEnd`, for any filters, transforms and LEDs. A note sounds because of a key
  that is held *and* let through (`SoundsOfHeld`, `LitByHeld`): only such a key's
  release is sure to come through as well.
* `ValuesAreInOrder`, for every width of values and every range of a map or a knob.
  `ScaledIs` says how the rounded division they share keeps order and ends;
  `ThereAndBack` that a value survives being widened and narrowed, which needs the
  normalised width to be twice the wire's (16 bits and 7).
* `ButtonsAreBelieved`, if the debounce time and the time between updates together fit
  the range of the clock. The invariant compares the wait the code measures with the
  time the contact has been still (`StillWaiting`).
* `TurnsAreSent`, for any steps and turns (of unbounded integers: the 32-bit product is
  not modelled). What the receiver added up and what is left make the whole turn
  (`EncoderInv`).
* `TicksAreInTime`, if a period and the lateness of an update stay below half the range
  of the clock (and, where there is a tempo of 0, the whole run does). The invariant
  places the next tick (`OnSchedule`) and bounds how far the schedule is from the
  present (`NotFarOff`), which is what gives the sign of the difference (`Due`) its
  meaning (`DueIsOwed`).
* `ClocksAreFollowed`, if a quarter fits the range of the clock. Whatever Start, Stop or
  a pause made of the window, it has healed before the ticks still missing of two
  quarters have come (`WindowHeals`).

The theorems are about `Spec`; the runs that also ask about liveness check `FairSpec`,
which implies it. `Messages` of `UsbHost` and `BleHost` is any set of MIDI messages
(`MidiMessages`: a status byte, data bytes and the flags of a chunk).

**Model-checked only.** Every safety property of a passing run is proved, those of
`MCDevicePorts` for the two ports by themselves (`PhonesGetWholeDumps`,
`DeviceStreamsArrive`). The liveness properties (`EveryUpdateReturns`,
`EnteredIsDispatched`, `MarkedStreamIsClosed`, `SeatsConverge`, `EndpointFollows`,
`RestIsHeard`) stay with TLC: the proof system has no rule for ENABLED.

## 5. Findings

1. `enqueue()` (`EspMidiRouter.h:547`) subtracts a `head_` it loads after
   `tail_`. A task overtaken between the loads sees a difference that wraps and
   refuses a message although there is room (`RefusedOnlyWhenFull` as an
   invariant of `MCReceiveQueue` with `MaxPieces = 1`).
2. `deliver()` (`EspMidiRouter.h:737`) claims an output before its sink refuses
   the start; the claim outlives the stream (`router_claim`).
3. `onPortEvent()` (`EspMidiRouter.h:827`) marks only streams that are open
   already; a start still queued opens one nothing closes (`GoneInputLeavesNothingOpen` as an
   invariant of `router_faults`).
4. `findEndpoint()` (`EspMidiPort.h:491`) gives two present devices of one
   identity the same seat (`SeatsAreNotShared` with two devices of one
   identity; `NoSeatIsShared` assumes there are none).
5. `send()` of the USB host (`EspMidiEspUsbHost.h:506`) asks only whether its slot is
   in use: what is routed to the output of a device that is gone goes to the device
   that took the slot (`usb_sinks`). If that one has fewer cables, `sendFrom()` calls
   through a context that has lost its adapter.
6. `Analog::update()` (`EspMidiControl.h:191`) casts -1 to `uint16_t` when it steps
   over the last count at the bottom of the range; the value jumps to the other end
   and slides back (`analog_spike`).
7. `onBleMessage()` (`EspMidiEspBle.h:548`) can hand a message to the port of another
   device that is there, if the port is ended and begun again between its two loads;
   the comment above them says a stale read can only mean a connection that has just
   gone away (`StaleReadIsOfGoneConnection` as an invariant of `MCBleHost` with
   `MaxChanges = 4`, `MaxMessages = 1`, no `Messages`). Without `end()` it is true:
   that is `MessagesFromSender`.
8. `Button` believes the first edge at once and ignores those of the next
   `debounceMs`; its comment says "only after the input has been still for this long".
9. `deliver()` (`EspMidiRouter.h:769`) frees the output of a dump whose end its sink
   refused. Nothing sends that end again, so that the next note goes out inside the dump,
   against the comment at 746: "Nothing but System Real-Time may go
   out between an 0xF0 and its 0xF7" (`NothingInsideADump` as an invariant of
   `router_claim`, with `Refusing = {synth}` and `Unpluggable = {}`).

Met while modelling, with no run of their own:

* `begin()` on an open UART port (`EspMidiUart.h:123`) resets the parser in the
  middle of a dump and tells nobody; with `BeginsMidDump = TRUE` TLC finds
  `EmitsFramed` violated in `uart_link`.
* `UsbPacketEncoder::encode()` returns 0 both for a message it cannot encode and for
  a chunk all of whose bytes stay pending (`EspMidiUsbPacket.h:336`), which the test
  `test_encode_sysex_across_chunks` expects. `send()` (`EspMidiEspUsbHost.h:514`)
  takes both for a refusal, so a dump whose first chunk has at most one byte is not
  sent at all, and its output stays claimed (finding 2).
* If the ring drops the packet with the end of a dump, the next start is taken for a
  continuation and its 0xF0 goes into the payload (`EspMidiUsbPacket.h:183`); the
  comment above it says that "testing the bytes is unambiguous".
* `end()` of the USB host keeps the packets in the ring and does not poll; after
  `begin()` they are decoded for whoever has their address then. `UsbHost` assumes
  that nobody else does (`freed`), which "Enumeration takes far longer than this"
  (`EspMidiEspUsbHost.h:64`) justifies only as long as `update()` is called.
* `refusedDevices()` does not count a device for want of a slot: `getDevices()` is
  asked for no more devices than there are slots, so the test at
  `EspMidiEspUsbHost.h:383` never holds, and a hub in that list takes the place of
  a device.
* `ready()` of EspBle may answer for a connection that is gone, and another device
  have its identifier, before `seat()` asks for the address: that device is seated in
  the slot until the events are drained. An address that cannot be had makes an
  endpoint of no device. A search that times out is never made again, and a
  disconnect that is dropped from the ring leaves its identifier's next connection
  without a seat.
* `begin()` of the BLE central after `end()` adds its listeners again, so that every
  event takes two places in the ring; connections that exist at that time are not
  seated.
* A dump that is too long is refused at its last chunk but `send()` returns true for
  it (`EspMidiEspBle.h:318`, `683` ask `overflowed()` after `reset()`), so that the router
  counts it as delivered; `docs/PORTS.md:154` says "refused and counted". One whose
  first chunk is too long already is refused and never counted.
* `end()` of either device port does not keep the next `update()` from attaching the
  endpoint again; `begin()` on a running port leaves codecs and buffers as they are.
  A host that is unmounted and mounted again between two updates leaves the decoder
  inside the dump it was cut off in.
* `Button` and `Analog` note what they sent although the queue refused it, and do not
  send it again: a release that meets a full queue leaves the note on.
* With smoothing, an upward reading stays up to 2^s - 1 counts (and the hysteresis)
  short: the step over the last count is made only from the accepted reading
  ("the last count is stepped over", `EspMidiControl.h:188`).
* The tempo of a `ClockCounter` is wrong after its first window, which measures one
  period too few, and after a window that spans a Stop.

* Routes run in the order of their slots, and a new route takes the lowest free
  one; `docs/ROUTING.md:85` says in the order the routes were added. The order
  shows only in what transforms write, which the model leaves out.
* A continuation whose stream is not open is dropped without a counter
  (`EspMidiRouter.h:624`); `docs/ROUTING.md:208` says every loss is counted.
  `OnlyContinuationsVanish` checks that it is the only one.
* If the queue refuses the end of a dump and the input starts another, the outputs
  only the first one went to stay claimed (`EspMidiRouter.h:690`). Therefore
  `router_paths` runs without loss.
* If the write of a payload is cut short the serializer forgets the stream
  (`EspMidiParser.h:340`): its 0xF0 is on the cable, and no 0xF7 follows, while
  the comment on `inStream()` says one is still owed. So it does if the write of the
  0xF7 itself is refused (`EspMidiParser.h:369`), and `begin()` on the same pins resets it
  in the middle of a dump. `UartLink` models all three; they set `abandoned`, the
  exception of `DumpIsTerminated`.
* If the port table has no room, `BleHost`'s `seat()` publishes an invalid input and
  `UsbHost`'s `adopt()` goes without the rest of a device's ports; nothing is counted or
  tried again before the device comes back.

## 6. Not modelled

Names, logging and counters other than those a property is about; the builders of
messages and the conversions between tempos and times; examples, tests and tools. A
`dispatch()` is one step although callbacks run inside it: what a callback injects
goes through `receive()` and is covered, what it edits in the middle of the walk
over the routes is not. `AppPort::begin()` and `end()` are calls of the registry. In
`ReceiveQueue` a task that sleeps between its load and its compare-and-swap while 2^32
messages pass is left out. The rings of `UsbHost` and `BleHost` are bounded queues:
their algorithm is that of `ReceiveQueue`. Filters, transforms and the configuration of
controls do not change while a key is held or a knob turned; changing them then
may leave a note sounding. The overflow of the 32-bit products of `Encoder`, which is
undefined, and a clock generator that is not updated for 2^31 microseconds are
outside the bounds. So is `begin()` of `UsbDevice` when the registry refuses its
endpoint or one of its ports (`EspMidiEspUsbDevice.h:93`), which leaves the port half
attached; and what the device at an output reads of a dump with a hole (Clipped dumps,
section 2).

## 7. Plan

*Done*: all components but the umbrella header, examples and tests. What is left, in
order of weight:

1. Composition of `Router` with `PortRegistry`: listener slots taken, listeners
   cleared, groups and events of the real registry; `dispatch()` split at its
   callbacks.
2. A model of the ring of events of `BleHost` load by load, with the interface of
   `ReceiveQueue`.
