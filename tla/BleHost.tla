------------------------------ MODULE BleHost ------------------------------
(***************************************************************************)
(* BasicBleHostPort: connections get slots, and seats once their MIDI      *)
(* service has been found.  The BLE task leaves connection events in a     *)
(* ring and reads which port a message is for from two atomics per slot;   *)
(* update(), on the sketch's task, drains the ring and makes the seats.    *)
(*                                                                         *)
(* Between any two loads or stores of those atomics the other task may     *)
(* run.  The BLE stack (external) gives an identifier to every connection, *)
(* uses it again once it is free, and runs its callbacks one at a time.    *)
(***************************************************************************)
EXTENDS BleSysEx, FiniteSets

CONSTANTS
    Devices,        \* devices, told apart by their address
    Ids,            \* connection identifiers
    Messages,       \* messages the router sends
    NumSlots,       \* ESPMIDI_MAX_BLE_CONNECTIONS
    RingSize,       \* ESPMIDI_BLE_EVENTS
    Rooms,          \* ports the registry may have left for these devices
    MaxChanges,     \* bound: connections and calls of end()
    MaxMessages,    \* bound: one message from a device, or so many to devices
    Nobody          \* no device, no identifier, no port

ASSUME BleHostAssumption ==
    /\ Nobody \notin Devices /\ Nobody \notin Ids
    /\ Messages \subseteq MidiMessages
    /\ NumSlots \in Nat \ {0} /\ RingSize \in Nat \ {0} /\ Rooms \subseteq Nat
    /\ MaxChanges \in Nat /\ MaxMessages \in Nat

VARIABLES
    \* the BLE stack
    link,           \* the device behind each identifier
    searching,      \* identifiers whose MIDI service is being looked for
    found,          \* identifiers that are ready
    listeners,      \* how often begin() added its listeners
    events,         \* the ring between head_ and tail_
    inbound,        \* the message the BLE task is in onBleMessage() with
    \* the adapter
    started, slots,
    ids, ports,     \* connectionIds_ and inPortValues_
    pc, cursor, limit,
    \* the registry and the router, as the adapter sees them
    seats,          \* devices that have an endpoint
    available,      \* endpoints that are available
    attached,       \* ports that are attached
    room,           \* ports that can still be attached
    sinks,          \* the slot behind the sink of each attached output
    outStream,      \* outputs that have accepted the start of a dump
    \* history
    lost,           \* an event did not fit, a discovery failed or a slot was refused
    strayed,        \* an output sent through the slot of another device
    told, heard, oversized,
    messages, changes

stackVars == <<link, searching, found>>
ringVars == <<listeners, events>>
adapterVars == <<started, slots, ids, ports>>
updateVars == <<pc, cursor, limit>>
seatVars == <<seats, available, attached, room, sinks>>
outVars == <<outStream, told, heard, oversized, strayed>>
vars == <<stackVars, ringVars, inbound, adapterVars, updateVars, seatVars, outVars,
          lost, messages, changes>>

Slots == 1..NumSlots
Unused ==
    [used |-> FALSE, discovering |-> FALSE, seated |-> FALSE, id |-> Nobody,
     device |-> Nobody, inPort |-> Nobody, sysEx |-> NewBuffer]

(* find().                                                                 *)
SlotsOf(id) == {s \in Slots : slots[s].used /\ slots[s].id = id}
Lowest(S) == CHOOSE s \in S : \A t \in S : s <= t

NotReceiving == [at |-> 0, id |-> Nobody, from |-> Nobody, seat |-> 0, ended |-> FALSE]

Init ==
    /\ link = [i \in Ids |-> Nobody] /\ searching = {} /\ found = {}
    /\ listeners = 1 /\ events = << >> /\ inbound = NotReceiving
    /\ started = TRUE /\ slots = [s \in Slots |-> Unused]
    /\ ids = [s \in Slots |-> Nobody] /\ ports = [s \in Slots |-> Nobody]
    /\ pc = "idle" /\ cursor = 1 /\ limit = 0
    /\ seats = {} /\ available = {} /\ attached = {} /\ room \in Rooms
    /\ sinks = << >> /\ outStream = {}
    /\ lost = FALSE /\ strayed = FALSE
    /\ told = [d \in Devices |-> << >>] /\ heard = [d \in Devices |-> << >>]
    /\ oversized = [d \in Devices |-> 0]
    /\ messages = 0 /\ changes = 0
-----------------------------------------------------------------------------
(* The BLE task.                                                           *)

Quiet == inbound = NotReceiving

(* record(), by every listener: into the ring, or dropped.                 *)
Record(kind, id) ==
    LET all == events \o [n \in 1..listeners |-> [kind |-> kind, id |-> id]] IN
    /\ events' = UpTo(RingSize, all)
    /\ lost' = (lost \/ Len(all) > RingSize)

Connect(d, i) ==
    /\ changes < MaxChanges /\ changes' = changes + 1
    /\ Quiet /\ link[i] = Nobody /\ \A j \in Ids : link[j] # d
    /\ link' = [link EXCEPT ![i] = d]
    /\ Record("connected", i)
    /\ UNCHANGED <<searching, found, listeners, inbound, adapterVars, updateVars,
                   seatVars, outVars, messages>>

Disconnect(i) ==
    /\ Quiet /\ link[i] # Nobody
    /\ link' = [link EXCEPT ![i] = Nobody]
    /\ searching' = searching \ {i} /\ found' = found \ {i}
    /\ Record("disconnected", i)
    /\ UNCHANGED <<listeners, inbound, adapterVars, updateVars, seatVars, outVars,
                   messages, changes>>

DiscoveryEnds(i) ==
    /\ Quiet /\ i \in searching /\ searching' = searching \ {i}
    /\ found' = found \cup {i}
    /\ UNCHANGED <<link, ringVars, inbound, adapterVars, updateVars, seatVars, outVars,
                   lost, messages, changes>>

(* The search times out: nothing tells the adapter, which does not start   *)
(* another one.                                                            *)
DiscoveryFails(i) ==
    /\ changes < MaxChanges /\ changes' = changes + 1
    /\ Quiet /\ i \in searching /\ searching' = searching \ {i}
    /\ lost' = TRUE
    /\ UNCHANGED <<link, found, ringVars, inbound, adapterVars, updateVars, seatVars,
                   outVars, messages>>

(* onBleMessage(): a message of a device whose service has been found.     *)
Arrive(i) ==
    /\ messages = 0 /\ messages' = MaxMessages
    /\ Quiet /\ i \in found
    /\ LET published == {s \in Slots : ids[s] = i /\ ports[s] # Nobody} IN
       inbound' = [at |-> 1, id |-> i, from |-> link[i], ended |-> FALSE,
                   seat |-> IF published = {} THEN 0 ELSE Lowest(published)]
    /\ UNCHANGED <<stackVars, ringVars, adapterVars, updateVars, seatVars, outVars, lost, changes>>

Receiving == inbound.at \in Slots
Reading == inbound.at > NumSlots

(* Mutant: takes a slot nobody is published in for the end of the list.    *)
LoadId_StopsAtGap ==
    /\ Receiving
    /\ inbound' = IF ids[inbound.at] = inbound.id
                  THEN [inbound EXCEPT !.at = NumSlots + @]
                  ELSE IF inbound.at < NumSlots /\ ids[inbound.at] # Nobody
                       THEN [inbound EXCEPT !.at = @ + 1]
                  ELSE NotReceiving
    /\ UNCHANGED <<stackVars, ringVars, adapterVars, updateVars, seatVars, outVars,
                   lost, messages, changes>>

(* The load of connectionIds_[at]: if it is another, on to the next slot.  *)
LoadId ==
    /\ Receiving
    /\ inbound' = IF ids[inbound.at] = inbound.id
                  THEN [inbound EXCEPT !.at = NumSlots + @]
                  ELSE IF inbound.at < NumSlots THEN [inbound EXCEPT !.at = @ + 1]
                  ELSE NotReceiving
    /\ UNCHANGED <<stackVars, ringVars, adapterVars, updateVars, seatVars, outVars,
                   lost, messages, changes>>

(* The load of inPortValues_ of the same slot, and Router::receive().      *)
LoadPort ==
    /\ Reading /\ inbound' = NotReceiving
    /\ UNCHANGED <<stackVars, ringVars, adapterVars, updateVars, seatVars, outVars,
                   lost, messages, changes>>
-----------------------------------------------------------------------------
(* update(), on the sketch's task: drainEvents() first.                    *)
BeginUpdate ==
    /\ pc = "idle" /\ started
    /\ pc' = "drain" /\ limit' = Len(events)
    /\ UNCHANGED <<stackVars, ringVars, inbound, adapterVars, cursor, seatVars, outVars,
                   lost, messages, changes>>

(* apply() of an event that changes nothing: a connection that is known,   *)
(* or the end of one that is not.                                          *)
Pop == events' = Tail(events) /\ limit' = limit - 1
NextEvent(kind) == pc = "drain" /\ limit > 0 /\ Head(events).kind = kind

Ignore ==
    /\ \/ NextEvent("connected") /\ SlotsOf(Head(events).id) # {}
       \/ NextEvent("disconnected") /\ SlotsOf(Head(events).id) = {}
    /\ Pop
    /\ UNCHANGED <<stackVars, listeners, inbound, adapterVars, pc, cursor, seatVars,
                   outVars, lost, messages, changes>>

(* A connection gets the first slot that is free, or is refused.           *)
AddSlot ==
    LET free == {s \in Slots : ~slots[s].used} IN
    /\ NextEvent("connected") /\ SlotsOf(Head(events).id) = {}
    /\ Pop
    /\ slots' = IF free = {} THEN slots
                ELSE [slots EXCEPT ![Lowest(free)] =
                         [Unused EXCEPT !.used = TRUE, !.id = Head(events).id]]
    /\ lost' = (lost \/ free = {})
    /\ UNCHANGED <<stackVars, listeners, inbound, started, ids, ports, pc, cursor,
                   seatVars, outVars, messages, changes>>

(* Mutant: the identifier stays published.                                 *)
WithdrawnId_Kept(s) == ids

WithdrawnId(s) == [ids EXCEPT ![s] = Nobody]

(* release(), by the event of a disconnect or by end(): the identifier is  *)
(* withdrawn first ...                                                     *)
Withdraw(s) ==
    /\ slots[s].used
    /\ \/ NextEvent("disconnected") /\ s \in SlotsOf(Head(events).id) /\ pc' = "release"
       \/ pc = "ending" /\ s = Lowest({t \in Slots : slots[t].used}) /\ pc' = "releaseAll"
    /\ cursor' = s
    /\ ids' = WithdrawnId(s)
    /\ inbound' = IF Quiet THEN inbound
                  ELSE [inbound EXCEPT !.seat = IF @ = s THEN 0 ELSE @,
                                       !.ended = @ \/ pc = "ending"]
    /\ UNCHANGED <<stackVars, ringVars, started, slots, ports, limit, seatVars, outVars,
                   lost, messages, changes>>

(* Mutant: the port stays published.                                       *)
Withdrawn_KeepsPort(s) == ports

Withdrawn(s) == [ports EXCEPT ![s] = Nobody]

(* ... then the port and the slot.  The sink of its output stays.          *)
Release ==
    LET d == slots[cursor].device IN
    /\ pc \in {"release", "releaseAll"}
    /\ ports' = Withdrawn(cursor)
    /\ slots' = [slots EXCEPT ![cursor] = Unused]
    /\ available' = available \ {d}
    /\ outStream' = outStream \ {d}
    /\ IF pc = "release" THEN Pop /\ pc' = "drain"
       ELSE pc' = "ending" /\ UNCHANGED <<events, limit>>
    /\ UNCHANGED <<stackVars, listeners, inbound, started, ids, cursor, seats,
                   attached, room, sinks, told, heard, oversized, strayed, lost, messages, changes>>

EndDrain ==
    /\ pc = "drain" /\ limit = 0 /\ pc' = "slots" /\ cursor' = 1
    /\ UNCHANGED <<stackVars, ringVars, inbound, adapterVars, limit, seatVars, outVars,
                   lost, messages, changes>>

(* Then the slots that have no seat yet, one after the other.              *)
AtSlot == pc = "slots" /\ cursor \in Slots
Waiting == AtSlot /\ slots[cursor].used /\ ~slots[cursor].seated

(* discover(): EspBle looks for the MIDI service of the connection ...     *)
DiscoveryStarts ==
    /\ Waiting /\ ~slots[cursor].discovering /\ link[slots[cursor].id] # Nobody
    /\ slots' = [slots EXCEPT ![cursor].discovering = TRUE]
    /\ searching' = searching \cup ({slots[cursor].id} \ found)
    /\ cursor' = cursor + 1
    /\ UNCHANGED <<link, found, ringVars, inbound, started, ids, ports, pc, limit,
                   seatVars, outVars, lost, messages, changes>>

(* Mutant: a search that could not be started counts as started.           *)
DiscoveryRefused_CountsAsStarted ==
    /\ Waiting /\ ~slots[cursor].discovering
    /\ slots' = [slots EXCEPT ![cursor].discovering = TRUE]
    /\ cursor' = cursor + 1
    /\ UNCHANGED <<stackVars, ringVars, inbound, started, ids, ports, pc, limit,
                   seatVars, outVars, lost, messages, changes>>

(* ... or refuses to, for one while it is looking at another device: the   *)
(* next update() asks again.                                               *)
DiscoveryRefused ==
    /\ Waiting /\ ~slots[cursor].discovering
    /\ cursor' = cursor + 1
    /\ UNCHANGED <<stackVars, ringVars, inbound, adapterVars, pc, limit, seatVars,
                   outVars, lost, messages, changes>>

StepOver ==
    /\ AtSlot /\ cursor' = cursor + 1
    /\ slots[cursor].used /\ ~slots[cursor].seated =>
           slots[cursor].discovering /\ slots[cursor].id \notin found
    /\ UNCHANGED <<stackVars, ringVars, inbound, adapterVars, pc, limit, seatVars,
                   outVars, lost, messages, changes>>

(* ready() says yes; the link may be gone before seat() asks for it.       *)
Ready ==
    /\ Waiting /\ slots[cursor].discovering /\ slots[cursor].id \in found
    /\ pc' = "seat"
    /\ UNCHANGED <<stackVars, ringVars, inbound, adapterVars, cursor, limit, seatVars,
                   outVars, lost, messages, changes>>

(* The ports of a device that the registry, which gives none up, can still *)
(* attach: the input first.                                                *)
Attachable(d) ==
    {p \in {<<d, "in">>, <<d, "out">>} \ attached :
        \/ room > 1
        \/ room = 1 /\ (p[2] = "in" \/ <<d, "in">> \in attached)}

(* seat(): the endpoint of the device now behind the identifier (of none,  *)
(* if there is none), those of its ports that can be attached, and the     *)
(* sink, and the port is published, or none if there is no input ...       *)
Seat ==
    LET d == link[slots[cursor].id]
        port == IF <<d, "in">> \in attached' THEN d ELSE Nobody IN
    /\ pc = "seat" /\ pc' = "publish"
    /\ seats' = seats \cup {d} /\ available' = available \cup {d}
    /\ attached' = attached \cup Attachable(d)
    /\ room' = room - Cardinality(Attachable(d))
    /\ slots' = [slots EXCEPT ![cursor].seated = TRUE, ![cursor].device = d,
                              ![cursor].inPort = port]
    /\ sinks' = [x \in DOMAIN sinks \cup {y \in {d} \cap Devices : <<y, "out">> \in attached'} |->
                    IF x = d THEN cursor ELSE sinks[x]]
    /\ ports' = [ports EXCEPT ![cursor] = port]
    /\ told' = [x \in Devices |-> IF x = d THEN << >> ELSE told[x]]
    /\ heard' = [x \in Devices |-> IF x = d THEN << >> ELSE heard[x]]
    /\ oversized' = [x \in Devices |-> IF x = d THEN 0 ELSE oversized[x]]
    /\ UNCHANGED <<stackVars, ringVars, inbound, started, ids, cursor, limit, outStream,
                   strayed, lost, messages, changes>>

(* ... unless the registry has no room for a device it does not know ...   *)
SeatRefused ==
    /\ pc = "seat" /\ pc' = "slots" /\ cursor' = cursor + 1
    /\ link[slots[cursor].id] \notin seats
    /\ slots' = [slots EXCEPT ![cursor].used = FALSE]
    /\ lost' = TRUE
    /\ UNCHANGED <<stackVars, ringVars, inbound, started, ids, ports, limit, seatVars,
                   outVars, messages, changes>>

(* ... and then the identifier.                                            *)
Publish ==
    /\ pc = "publish" /\ pc' = "slots" /\ cursor' = cursor + 1
    /\ ids' = [ids EXCEPT ![cursor] = slots[cursor].id]
    /\ UNCHANGED <<stackVars, ringVars, inbound, started, slots, ports, limit, seatVars,
                   outVars, lost, messages, changes>>

EndUpdate ==
    /\ pc = "slots" /\ cursor > NumSlots /\ pc' = "idle"
    /\ UNCHANGED <<stackVars, ringVars, inbound, adapterVars, cursor, limit, seatVars,
                   outVars, lost, messages, changes>>
-----------------------------------------------------------------------------
(* The router calls the sink of the output of device d.                    *)

Open(s) == slots[s].used /\ slots[s].seated

(* send(), through sendFrom(): EspBle refuses what is for a connection it  *)
(* does not have, or has not found the service of.                         *)
Deliver(d, m) ==
    LET s == sinks[d]
        b == slots[s].sysEx
        reached == IF slots[s].id \in found THEN link[slots[s].id] ELSE Nobody
        result == Open(s) /\ Result(b, m, reached # Nobody) IN
    /\ pc = "idle"
    /\ messages < MaxMessages /\ messages' = messages + 1
    /\ Fits(d \in outStream, m)
    /\ strayed' = (strayed \/ slots[s].device \notin {d, Nobody})
    /\ slots' = IF Open(s) THEN [slots EXCEPT ![s].sysEx = BufferAfter(b, m)] ELSE slots
    /\ heard' = IF Open(s) /\ reached # Nobody
                THEN [heard EXCEPT ![reached] = @ \o Sent(b, m)] ELSE heard
    /\ oversized' = IF Open(s) /\ Oversized(b, m) THEN [oversized EXCEPT ![d] = @ + 1]
                    ELSE oversized
    /\ told' = [told EXCEPT ![d] = Append(@, [m |-> m, result |-> result])]
    /\ outStream' = IF m.chunk /\ m.end THEN outStream \ {d}
                    ELSE IF m.chunk /\ result THEN outStream \cup {d} ELSE outStream
    /\ UNCHANGED <<stackVars, ringVars, inbound, started, ids, ports, updateVars,
                   seatVars, lost, changes>>
-----------------------------------------------------------------------------
(* The sketch ends the port, and begins it again, which adds the listeners *)
(* once more.                                                              *)
End ==
    /\ pc = "idle" /\ started /\ pc' = "ending"
    /\ changes < MaxChanges /\ changes' = changes + 1
    /\ lost' = TRUE
    /\ UNCHANGED <<stackVars, ringVars, inbound, adapterVars, cursor, limit, seatVars,
                   outVars, messages>>

Ended ==
    /\ pc = "ending" /\ \A s \in Slots : ~slots[s].used
    /\ pc' = "idle" /\ started' = FALSE
    /\ UNCHANGED <<stackVars, ringVars, inbound, slots, ids, ports, cursor, limit,
                   seatVars, outVars, lost, messages, changes>>

Begin ==
    /\ pc = "idle" /\ ~started /\ started' = TRUE
    /\ listeners' = listeners + 1
    /\ UNCHANGED <<stackVars, events, inbound, slots, ids, ports, updateVars, seatVars,
                   outVars, lost, messages, changes>>

Stack ==
    \/ \E d \in Devices, i \in Ids : Connect(d, i)
    \/ \E i \in Ids : Disconnect(i) \/ DiscoveryEnds(i) \/ DiscoveryFails(i) \/ Arrive(i)
    \/ LoadId \/ LoadPort

Update ==
    \/ BeginUpdate \/ Ignore \/ AddSlot \/ Release \/ EndDrain
    \/ \E s \in Slots : Withdraw(s)
    \/ DiscoveryStarts \/ DiscoveryRefused \/ StepOver \/ Ready \/ Seat \/ SeatRefused \/ Publish \/ EndUpdate \/ Ended

Next ==
    \/ Stack \/ Update
    \/ \E d \in DOMAIN sinks, m \in Messages : Deliver(d, m)
    \/ End \/ Begin

Spec == Init /\ [][Next]_vars

(* loop() runs, a search ends one way or the other, the BLE task comes out *)
(* of its callback, and a search that is asked for again and again is      *)
(* started in the end.                                                     *)
Fairness ==
    /\ WF_vars(Update) /\ WF_vars(LoadId \/ LoadPort)
    /\ SF_vars(DiscoveryStarts)
    /\ SF_vars(\E i \in Ids : DiscoveryEnds(i))

FairSpec == Spec /\ Fairness
-----------------------------------------------------------------------------
TypeOK ==
    /\ link \in [Ids -> Devices \cup {Nobody}]
    /\ found \subseteq Ids /\ searching \subseteq Ids \ found
    /\ Len(events) <= RingSize /\ limit \in 0..Len(events)
    /\ cursor \in 1 .. NumSlots + 1
    /\ ids \in [Slots -> Ids \cup {Nobody}] /\ ports \in [Slots -> Devices \cup {Nobody}]
    /\ \A s \in Slots : Len(slots[s].sysEx.bytes) <= Capacity

(* Whatever update() does between the two loads of onBleMessage(), and     *)
(* however identifiers are used again, a message goes into the port of the *)
(* device that sent it, or into none - unless end() took the port down     *)
(* while the BLE task was at it.                                           *)
MessagesFromSender ==
    Reading /\ ~inbound.ended =>
        ports[inbound.at - NumSlots] \in {inbound.from, Nobody}

(* "A stale read can only mean a message for a connection that has just    *)
(* gone away": with end() and begin() between the two loads, and four      *)
(* changes, it can also mean the port of another device.                   *)
StaleReadIsOfGoneConnection ==
    Reading => ports[inbound.at - NumSlots] \in {inbound.from, Nobody}

(* The port of a device that is published when its message arrives, and    *)
(* stays published, is the one the message goes into: no entry left behind *)
(* by another connection is met first.                                     *)
PublishedIsHeard ==
    [][inbound.seat # 0 /\ inbound' = NotReceiving =>
           /\ inbound.at = NumSlots + inbound.seat
           /\ ports[inbound.seat] = inbound.from]_vars

(* Between two updates with no event left in the ring: slots and published *)
(* pairs are of different connections, a pair is published exactly for the *)
(* seats, with the input of the device unless there was no room for it,    *)
(* and an endpoint is available exactly while its device is seated; as     *)
(* long as nothing was lost, those devices are the ones behind them.       *)
SeatsAgree ==
    TypeOK /\ (pc = "idle" =>
        /\ \A s, t \in Slots : s # t /\ slots[s].used /\ slots[t].used => slots[s].id # slots[t].id
        /\ \A s \in Slots :
               /\ ids[s] = (IF Open(s) THEN slots[s].id ELSE Nobody)
               /\ ports[s] = (IF Open(s) THEN slots[s].inPort ELSE Nobody)
               /\ Open(s) => \/ slots[s].inPort = slots[s].device
                             \/ slots[s].inPort = Nobody /\ room = 0
        /\ ~lost => available = {slots[s].device : s \in {t \in Slots : Open(t)}}
        /\ ~lost /\ events = << >> =>
               \A s \in Slots : Open(s) => slots[s].device = link[slots[s].id])

(* A device gets the short messages and the whole dumps its output         *)
(* accepted, in the order they were completed; a dump that does not fit is *)
(* "refused and counted rather than truncated".                            *)
DumpsArriveWhole ==
    ~strayed =>
        \A d \in DOMAIN sinks : slots[sinks[d]].device = d =>
            /\ heard[d] = Promised(told[d])
            /\ oversized[d] = TooLong(told[d])

(* Unless an event was dropped, a search failed or a table was full, every *)
(* connection that lasts gets its seat, and a seat whose connection is     *)
(* gone is given up.                                                       *)
SeatsConverge ==
    <>[](~lost => available = {link[i] : i \in Ids} \ {Nobody})
=============================================================================
