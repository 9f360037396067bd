------------------------------ MODULE UsbHost ------------------------------
(***************************************************************************)
(* BasicUsbHostPort: devices on the USB bus get slots and seats, their     *)
(* packets cross from the USB task to update() in a ring, and the sinks of *)
(* their outputs encode what the router delivers.                          *)
(*                                                                         *)
(* The USB stack (external) lists what it has enumerated, calls onMidi()   *)
(* on its own task, and drops what is sent to an address nobody has.       *)
(***************************************************************************)
EXTENDS UsbPacket, FiniteSets

CONSTANTS
    Devices,        \* devices, told apart by their identity
    Hubs,           \* devices that are hubs
    Addresses,      \* bus addresses
    InCables,       \* cables a device declares: device to host ...
    OutCables,      \* ... and host to device
    Cables,         \* cables a device may send on, declared or not
    Messages,       \* messages that are sent, by devices and by the router
    NumSlots,       \* ESPMIDI_MAX_USB_HOST_DEVICES
    RingSize,       \* ESPMIDI_USB_HOST_PACKETS
    Rooms,          \* ports the registry may have left for these devices
    MaxChanges,     \* bound: connections and calls of end()
    MaxSubmitted,   \* bound: messages the devices send ...
    MaxDelivered,   \* ... and the router delivers
    Nobody          \* no device, and no address

ASSUME UsbHostAssumption ==
    /\ Hubs \subseteq Devices /\ Nobody \notin Devices
    /\ InCables \in [Devices -> Nat] /\ OutCables \in [Devices -> Nat]
    /\ Cables \subseteq 0..15 /\ Nobody \notin Addresses
    /\ Messages \subseteq {m \in MidiMessages : IsComplete(m)}
    /\ NumSlots \in Nat \ {0} /\ RingSize \in Nat \ {0}
    /\ Rooms \subseteq Nat
    /\ MaxChanges \in Nat /\ MaxSubmitted \in Nat /\ MaxDelivered \in Nat

VARIABLES
    \* the bus and its devices
    at,             \* the device at each address, as the stack lists it
    claimed,        \* devices whose MIDI interface has been claimed
    freed,          \* addresses given up since the last poll
    encoder,        \* a device's encoders
    transfer,       \* packets the USB task has still to hand to onMidi()
    \* the adapter
    started, ring, slots,
    \* update()
    pc, found, limit,
    \* the registry and the router, as the adapter sees them
    seats,          \* devices that have an endpoint
    available,      \* endpoints that are available
    inPorts,        \* inputs that are attached
    sinks,          \* the context behind the sink of each attached output
    room,           \* ports that can still be attached
    inStream,       \* inputs the router has been handed the start of a dump of
    outStream,      \* outputs that have accepted the start of a dump
    \* history
    sent, handed,   \* messages a device sent, and those update() made of them
    impaired,       \* devices gone, or a packet of which did not get through
    told, heard,    \* messages for an output, and the packets its device got
    clipped,        \* outputs of which the rest of a dump was refused
    strayed,        \* an output sent through the slot of another device
    changes, submitted, delivered

busVars == <<at, claimed, freed>>
deviceVars == <<encoder, sent>>
updateVars == <<pc, found, limit>>
portVars == <<seats, inPorts, sinks, room>>
routerVars == <<available, portVars>>
outVars == <<outStream, told, heard, clipped, strayed>>
messages == <<submitted, delivered>>
vars == <<busVars, deviceVars, transfer, ring, started, slots, updateVars,
          routerVars, outVars, inStream, handed, impaired, messages, changes>>

Slots == 1..NumSlots

(* A DeviceSlot.  Its counts are those of the device; of the contexts of   *)
(* its sinks only those below outPortCount point back to the adapter.      *)
Unused ==
    [device |-> Nobody, address |-> Nobody,
     open |-> [c \in Cables |-> FALSE], encoder |-> [c \in Cables |-> NewEncoder]]
Used(s) == slots[s].device # Nobody
SlotAt(a) == {s \in Slots : Used(s) /\ slots[s].address = a}
Ports(d) == {<<d, c>> : c \in Cables}

Nothing == [c \in Cables |-> << >>]

Init ==
    /\ at = [a \in Addresses |-> Nobody] /\ claimed = {} /\ freed = {}
    /\ encoder = [d \in Devices |-> [c \in Cables |-> NewEncoder]]
    /\ transfer = << >> /\ ring = << >>
    /\ started = TRUE /\ slots = [s \in Slots |-> Unused]
    /\ pc = "idle" /\ found = {} /\ limit = 0
    /\ seats = {} /\ available = {}
    /\ inPorts = {} /\ sinks = << >> /\ room \in Rooms
    /\ inStream = {} /\ outStream = {}
    /\ sent = [d \in Devices |-> Nothing] /\ handed = [d \in Devices |-> Nothing]
    /\ told = [d \in Devices |-> Nothing] /\ heard = [d \in Devices |-> Nothing]
    /\ impaired = {} /\ clipped = {} /\ strayed = FALSE
    /\ changes = 0 /\ submitted = 0 /\ delivered = 0
-----------------------------------------------------------------------------
(* The USB stack.                                                          *)

Plugged(d) == \E a \in Addresses : at[a] = d
Underway(d) == \E i \in DOMAIN ring : ring[i].from = d

(* A device is enumerated.  "Enumeration takes far longer than" the time   *)
(* between two polls: an address that was given up is not given to another *)
(* device before the next poll.                                            *)
Plug(d, a) ==
    /\ changes < MaxChanges /\ changes' = changes + 1
    /\ ~Plugged(d) /\ at[a] = Nobody /\ a \notin freed /\ transfer = << >>
    /\ at' = [at EXCEPT ![a] = d]
    /\ handed' = [handed EXCEPT ![d] = Nothing]
    /\ impaired' = IF Underway(d) THEN impaired ELSE impaired \ {d}
    /\ UNCHANGED <<claimed, freed, deviceVars, transfer, ring, started, slots,
                   updateVars, routerVars, outVars, inStream, messages>>

Claim(d) ==
    /\ Plugged(d) /\ d \notin Hubs /\ d \notin claimed
    /\ claimed' = claimed \cup {d}
    /\ UNCHANGED <<at, freed, deviceVars, transfer, ring, started, slots,
                   updateVars, routerVars, outVars, inStream, handed, impaired,
                   messages, changes>>

Unplug(a) ==
    /\ at[a] # Nobody /\ transfer = << >>
    /\ at' = [at EXCEPT ![a] = Nobody]
    /\ claimed' = claimed \ {at[a]}
    /\ freed' = freed \cup {a}
    /\ impaired' = impaired \cup {at[a]}
    /\ encoder' = [encoder EXCEPT ![at[a]] = [c \in Cables |-> NewEncoder]]
    /\ sent' = [sent EXCEPT ![at[a]] = Nothing]
    /\ handed' = [handed EXCEPT ![at[a]] = Nothing]
    /\ told' = [told EXCEPT ![at[a]] = Nothing]
    /\ heard' = [heard EXCEPT ![at[a]] = Nothing]
    /\ clipped' = clipped \ Ports(at[a])
    /\ UNCHANGED <<transfer, ring, started, slots, updateVars, routerVars,
                   outStream, strayed, inStream, messages, changes>>

(* A device sends a message, in one transfer.                              *)
DeviceSends(a, c, m) ==
    LET d == at[a]
        enc == encoder[d][c] IN
    /\ d \in claimed /\ transfer = << >>
    /\ submitted < MaxSubmitted /\ submitted' = submitted + 1
    /\ Fits(enc.inSysEx, m)
    /\ encoder' = [encoder EXCEPT ![d][c] = EncoderAfter(enc, m)]
    /\ sent' = [sent EXCEPT ![d][c] = Append(@, m)]
    /\ transfer' = [i \in 1..Len(Encode(enc, c, m)) |->
                       [address |-> a, from |-> d, packet |-> Encode(enc, c, m)[i]]]
    /\ UNCHANGED <<busVars, ring, started, slots, updateVars, routerVars, outVars,
                   inStream, handed, impaired, delivered, changes>>

RingHasRoom == Len(ring) < RingSize

(* onMidi() for the next packet: into the ring, or dropped.  That the ring *)
(* is a bounded queue is what ReceiveQueue shows of the same algorithm.    *)
OnMidi ==
    /\ transfer # << >> /\ transfer' = Tail(transfer)
    /\ IF RingHasRoom
       THEN ring' = Append(ring, Head(transfer)) /\ UNCHANGED impaired
       ELSE impaired' = impaired \cup {Head(transfer).from} /\ UNCHANGED ring
    /\ UNCHANGED <<busVars, deviceVars, started, slots, updateVars, routerVars,
                   outVars, inStream, handed, messages, changes>>
-----------------------------------------------------------------------------
(* Devices that come and go, as update() finds them.                       *)

(* Mutant: a slot is kept if its device is there, at whatever address.     *)
Gone_ByIdentity(s, list) == \A i \in list : i.device # slots[s].device

Gone(s, list) == \A i \in list : i.address # slots[s].address

(* Mutant: the router is not told, and leaves the streams of inputs open.  *)
Release_LeavesStreams(gone) ==
    LET devices == {slots[s].device : s \in gone}
        ports == UNION {Ports(d) : d \in devices} IN
    /\ slots' = [s \in Slots |-> IF s \in gone THEN Unused ELSE slots[s]]
    /\ available' = available \ devices
    /\ outStream' = outStream \ ports /\ UNCHANGED inStream
    /\ impaired' = impaired \cup devices

(* release() of a set of slots.  The registry tells the router, which      *)
(* closes the streams of the ports.  The sinks stay.                       *)
Release(gone) ==
    LET devices == {slots[s].device : s \in gone}
        ports == UNION {Ports(d) : d \in devices} IN
    /\ slots' = [s \in Slots |-> IF s \in gone THEN Unused ELSE slots[s]]
    /\ available' = available \ devices
    /\ inStream' = inStream \ ports /\ outStream' = outStream \ ports
    /\ impaired' = impaired \cup devices

(* poll(): what getDevices() lists, at most as many as there are slots;    *)
(* the slots of the others are released, and those without a slot are      *)
(* candidates to be adopted.                                               *)
Listing ==
    LET here == {[address |-> a, device |-> at[a]] : a \in {x \in Addresses : at[x] # Nobody}} IN
    {list \in SUBSET here :
        Cardinality(list) = IF Cardinality(here) < NumSlots THEN Cardinality(here) ELSE NumSlots}

Poll ==
    /\ started /\ pc = "idle" /\ pc' = "polling"
    /\ \E list \in Listing :
           LET gone == {s \in Slots : Used(s) /\ Gone(s, list)} IN
           /\ Release(gone)
           /\ found' = {i \in list : i.device \notin Hubs /\ SlotAt(i.address) \subseteq gone}
    /\ freed' = {}
    /\ UNCHANGED <<at, claimed, deviceVars, transfer, ring, started, limit,
                   portVars, told, heard, clipped, strayed, handed, messages, changes>>

Found(i) == pc = "polling" /\ i \in found /\ found' = found \ {i}

(* getMidiPortInfo() finds nothing: not claimed yet, or gone already.      *)
Skip(i) ==
    /\ Found(i)
    /\ ~(at[i.address] = i.device /\ i.device \in claimed)
    /\ UNCHANGED <<busVars, deviceVars, transfer, ring, started, slots, pc, limit,
                   routerVars, outVars, inStream, handed, impaired, messages, changes>>

(* adopt() finds no slot, or the registry, which has endpoints of other    *)
(* ports too, has no room for a device it does not know.                   *)
Refuse(i) ==
    /\ Found(i)
    /\ at[i.address] = i.device /\ i.device \in claimed
    /\ (\A s \in Slots : Used(s)) \/ i.device \notin seats
    /\ UNCHANGED <<busVars, deviceVars, transfer, ring, started, slots, pc, limit,
                   routerVars, outVars, inStream, handed, impaired, messages, changes>>

(* The ports of a device that are not attached yet, and those of them that *)
(* the registry has room for, which never gives one up: lowest cable first.*)
Missing(d, cables, attached) == {p \in Ports(d) : p[2] < cables[d]} \ attached
Lowest(ports, n) == {p \in ports : Cardinality({q \in ports : q[2] < p[2]}) < n}

(* Mutant: keeps the sink of an output that has one already.               *)
Sinks_FirstOnly(d, s, added) ==
    [p \in DOMAIN sinks \cup added |->
        IF p \in DOMAIN sinks THEN sinks[p] ELSE [slot |-> s, cable |-> p[2]]]

(* setOutputSink() for every output of a device that is attached.          *)
Sinks(d, s, added) ==
    [p \in DOMAIN sinks \cup added |->
        IF p[1] = d THEN [slot |-> s, cable |-> p[2]] ELSE sinks[p]]

(* adopt(): attachInPort() for every input, attachOutPort() for every      *)
(* output; without those that the registry has no room for.                *)
Adopt(i) ==
    LET d == i.device
        free == {s \in Slots : ~Used(s)}
        s == CHOOSE x \in free : \A y \in free : x <= y
        ins == Lowest(Missing(d, InCables, inPorts), room)
        outs == Lowest(Missing(d, OutCables, DOMAIN sinks), room - Cardinality(ins)) IN
    /\ Found(i)
    /\ at[i.address] = d /\ d \in claimed
    /\ free # {}
    /\ seats' = seats \cup {d} /\ available' = available \cup {d}
    /\ slots' = [slots EXCEPT ![s] = [Unused EXCEPT !.device = d, !.address = i.address]]
    /\ inPorts' = inPorts \cup ins /\ sinks' = Sinks(d, s, outs)
    /\ room' = room - Cardinality(ins) - Cardinality(outs)
    /\ told' = [told EXCEPT ![d] = Nothing]
    /\ heard' = [heard EXCEPT ![d] = Nothing]
    /\ clipped' = clipped \ Ports(d)
    /\ UNCHANGED <<busVars, deviceVars, transfer, ring, started, pc, limit, outStream,
                   strayed, inStream, handed, impaired, messages, changes>>
-----------------------------------------------------------------------------
(* drain(): the packets that are there when it begins.                     *)
BeginDrain ==
    /\ \/ started /\ pc = "idle"
       \/ pc = "polling" /\ found = {}
    /\ pc' = "draining" /\ limit' = Len(ring)
    /\ UNCHANGED <<busVars, deviceVars, transfer, ring, started, slots, found,
                   routerVars, outVars, inStream, handed, impaired, messages, changes>>

NextPacket ==
    /\ pc = "draining" /\ limit > 0
    /\ limit' = limit - 1 /\ ring' = Tail(ring)
    /\ UNCHANGED <<busVars, deviceVars, transfer, started, pc, found, routerVars,
                   outVars, messages, changes>>

StreamsAfter(streams, x, got) ==
    (streams \ {y \in {x} : \E i \in DOMAIN got : got[i].chunk /\ got[i].end})
        \cup {y \in {x} : \E i \in DOMAIN got : got[i].chunk /\ ~got[i].end}

(* Of a device that has a slot, on a cable it declared: decoded and handed *)
(* to the router, which takes nothing from an input that is not attached.  *)
Drain ==
    /\ NextPacket
    /\ \E s \in SlotAt(Head(ring).address) :
           LET p == Head(ring).packet
               d == slots[s].device
               got == Decode(slots[s].open[p.cable], p) IN
           /\ p.cable < InCables[d]
           /\ slots' = [slots EXCEPT ![s].open[p.cable] = OpenAfterPacket(@, p)]
           /\ IF <<d, p.cable>> \in inPorts
              THEN /\ handed' = [handed EXCEPT ![d][p.cable] = @ \o got]
                   /\ inStream' = StreamsAfter(inStream, <<d, p.cable>>, got)
                   /\ UNCHANGED impaired
              ELSE impaired' = impaired \cup {d} /\ UNCHANGED <<handed, inStream>>

(* Of an address without a slot, or on a cable that was not declared.      *)
Discard ==
    /\ NextPacket
    /\ \A s \in SlotAt(Head(ring).address) :
           Head(ring).packet.cable >= InCables[slots[s].device]
    /\ impaired' = impaired \cup {Head(ring).from}
    /\ UNCHANGED <<slots, handed, inStream>>

EndUpdate ==
    /\ pc = "draining" /\ limit = 0 /\ pc' = "idle"
    /\ UNCHANGED <<busVars, deviceVars, transfer, ring, started, slots, found, limit,
                   routerVars, outVars, inStream, handed, impaired, messages, changes>>
-----------------------------------------------------------------------------
(* The router calls the sink of an output.                                 *)

(* The slot behind an output, whoever has it now.                          *)
SlotOf(x) == slots[sinks[x].slot]
MakesPackets(x, m) ==
    LET to == SlotOf(x)
        c == sinks[x].cable IN
    Encode(to.encoder[c], c, m)

(* A context beyond the cables of the device in its slot has lost the      *)
(* adapter, and a call through it is undefined; here it does nothing.      *)
Orphaned(x) == SlotOf(x).device # Nobody /\ sinks[x].cable >= OutCables[SlotOf(x).device]

(* The device midiSend() is asked for: none if the slot is not in use, if  *)
(* the message does not make a packet or if nobody has the address.        *)
Addressed(x, m) ==
    LET to == SlotOf(x) IN
    IF to.device = Nobody \/ Orphaned(x) \/ MakesPackets(x, m) = << >>
    THEN Nobody ELSE at[to.address]

Continues(x, m) == x \in outStream /\ m.chunk

(* History: a dump begins at a device that is not in the middle of one, on *)
(* an output of which the rest of a dump was refused before.               *)
Afresh(x, m) ==
    /\ x \in clipped /\ m.chunk /\ m.start
    /\ ~Reading(FALSE, heard[x[1]][sinks[x].cable]).open

(* send(), through sendFrom().  midiSend() may refuse the transfer of a    *)
(* device that is there: then its packets are lost, and the encoder has    *)
(* moved on.  The sink returns false if no device is reached, and a dump   *)
(* that has started goes on all the same.                                  *)
Deliver(x, m) ==
    LET d == x[1]
        c == sinks[x].cable
        Kept(history) == IF Afresh(x, m) THEN << >> ELSE history IN
    /\ pc = "idle"
    /\ delivered < MaxDelivered /\ delivered' = delivered + 1
    /\ Fits(x \in outStream, m)
    /\ strayed' = (strayed \/ SlotOf(x).device \notin {d, Nobody})
    /\ IF Orphaned(x) \/ SlotOf(x).device = Nobody THEN UNCHANGED slots
       ELSE slots' = [slots EXCEPT ![sinks[x].slot].encoder[c] = EncoderAfter(@, m)]
    /\ \E reached \in {Nobody, Addressed(x, m)} :
           /\ heard' = IF reached = Nobody THEN heard
                       ELSE [heard EXCEPT ![reached][c] =
                                Kept(@) \o MakesPackets(x, m)]
           /\ told' = IF Continues(x, m) \/ reached = d
                      THEN [told EXCEPT ![d][c] = Append(Kept(@), m)] ELSE told
           /\ clipped' = IF Continues(x, m) /\ reached # Addressed(x, m)
                         THEN clipped \cup {x}
                         ELSE IF Afresh(x, m) /\ reached = d THEN clipped \ {x} ELSE clipped
           /\ outStream' = IF m.chunk /\ m.end THEN outStream \ {x}
                           ELSE IF m.chunk /\ reached # Nobody THEN outStream \cup {x}
                           ELSE outStream
    /\ UNCHANGED <<busVars, deviceVars, transfer, ring, started, updateVars, routerVars,
                   inStream, handed, impaired, submitted, changes>>
-----------------------------------------------------------------------------
(* The sketch ends the port, and begins it again.  The ring stays.         *)
End ==
    /\ pc = "idle" /\ started /\ started' = FALSE
    /\ changes < MaxChanges /\ changes' = changes + 1
    /\ Release({s \in Slots : Used(s)})
    /\ UNCHANGED <<busVars, deviceVars, transfer, ring, updateVars, portVars,
                   told, heard, clipped, strayed, handed, messages>>

Begin ==
    /\ pc = "idle" /\ ~started /\ started' = TRUE
    /\ UNCHANGED <<busVars, deviceVars, transfer, ring, slots, updateVars, routerVars,
                   outVars, inStream, handed, impaired, messages, changes>>

Next ==
    \/ \E d \in Devices, a \in Addresses : Plug(d, a)
    \/ \E d \in Devices : Claim(d)
    \/ \E a \in Addresses : Unplug(a)
    \/ \E a \in Addresses, c \in Cables, m \in Messages : DeviceSends(a, c, m)
    \/ OnMidi
    \/ Poll
    \/ \E i \in found : Skip(i) \/ Refuse(i) \/ Adopt(i)
    \/ BeginDrain \/ Drain \/ Discard \/ EndUpdate
    \/ \E x \in DOMAIN sinks, m \in Messages : Deliver(x, m)
    \/ End \/ Begin

Spec == Init /\ [][Next]_vars
-----------------------------------------------------------------------------
TypeOK ==
    /\ at \in [Addresses -> Devices \cup {Nobody}]
    /\ claimed \subseteq Devices \ Hubs /\ freed \subseteq Addresses
    /\ Len(ring) <= RingSize /\ limit \in 0..Len(ring)
    /\ pc \in {"idle", "polling", "draining"}
    /\ \A s \in Slots, c \in Cables :
           /\ slots[s].open[c] \in BOOLEAN
           /\ Len(slots[s].encoder[c].pending) <= 2
    /\ available \subseteq seats

(* "Seats are matched on the identity" (docs/PORTS.md): no two slots hold  *)
(* one device or one address, an endpoint is available exactly while its   *)
(* device has a slot, and the attached outputs of a device that has a slot *)
(* send through that slot, whichever slot it had before.                   *)
SeatsAgree ==
    /\ TypeOK
    /\ \A s, t \in Slots : Used(s) /\ Used(t) /\ s # t =>
           slots[s].device # slots[t].device /\ slots[s].address # slots[t].address
    /\ available = {slots[s].device : s \in {t \in Slots : Used(t)}}
    /\ \A s \in Slots : \A x \in DOMAIN sinks :
           slots[s].device = x[1] => sinks[x] = [slot |-> s, cable |-> x[2]]

(* Packets are kept with an address only, and addresses are used again: a  *)
(* packet is decoded for the device that sent it, or not at all.           *)
DecodedForSender ==
    pc = "draining" =>
        \A i \in 1..limit : \A s \in SlotAt(ring[i].address) :
            slots[s].device = ring[i].from

(* "Dropped rather than emitted as a chunk with no beginning": whatever is *)
(* lost, and whenever a device goes and comes back, the chunks of an input *)
(* are starts and the rest of the same stream.                             *)
ChunksAreFramed ==
    [][\A d \in Devices, c \in Cables :
          Len(handed'[d][c]) > Len(handed[d][c]) =>
              LET m == Last(handed'[d][c]) IN
              m.chunk => (m.start <=> <<d, c>> \notin inStream)]_vars

(* As long as every packet of a device gets through, the router is handed  *)
(* what the device sent, in order, however its dumps fall into packets.    *)
InputIsFaithful ==
    \A d \in Devices \ impaired, c \in Cables :
        Arrives(handed[d][c], sent[d][c],
                ring # << >> \/ transfer # << >> \/ encoder[d][c].pending # << >>)

(* As long as no send goes astray, a device gets what its outputs accepted *)
(* and the rest of those dumps, and nothing left over from a transfer that *)
(* was refused, another cable, another connection or another device that   *)
(* had the slot.  A transfer refused in the middle of a dump, which the    *)
(* router does not take back (send()), damages what the output sends up to *)
(* the next dump that the device sees begin, and nothing after that.       *)
OutputIsFaithful ==
    ~strayed =>
        \A d \in Devices, c \in Cables : <<d, c>> \notin clipped =>
            Arrives(Reading(FALSE, heard[d][c]).got, told[d][c],
                    \A s \in Slots : \/ slots[s].device # d
                                     \/ at[slots[s].address] # d
                                     \/ slots[s].encoder[c].pending # << >>)

(* Violated: "Sending to it fails, so it cannot reach whatever device      *)
(* takes that address next" (docs/PORTS.md:123, release()).                *)
SendsReachOwnDevice ==
    [][\A x \in DOMAIN sinks, m \in Messages :
          Deliver(x, m) => Addressed(x, m) \in {x[1], Nobody}]_vars
=============================================================================
