---------------------------- MODULE PortRegistry ----------------------------
(***************************************************************************)
(* PortRegistry: the seats of endpoints and ports, their states, and what  *)
(* its listeners are told.  Handles (EndpointId, PortId) are positions in  *)
(* the two tables; position 0 stands for an invalid handle.                *)
(*                                                                         *)
(* Devices are what the port adapters attach: boards' own interfaces and   *)
(* what is plugged in or connects.  An adapter keeps the handle its last   *)
(* attachEndpoint() returned, which is seat.                               *)
(*                                                                         *)
(* Names are left out.  A vendor id, a product id and a serial string are  *)
(* one value, serial, which is NoSerial for a device that has no string.   *)
(* Every call runs to its end on one task, so it is one step.              *)
(***************************************************************************)
EXTENDS Naturals, Sequences

CONSTANTS
    Devices,
    Identity,        \* Identity[d]: the EndpointIdentity d is attached with
    Indices,         \* the coordinates ports are attached with
    NoSerial,
    Listeners,       \* callbacks: the router's and the sketch's
    MaxEndpoints,    \* ESPMIDI_MAX_ENDPOINTS
    MaxPorts,        \* ESPMIDI_MAX_PORTS
    MaxPortsPerEndpoint,
    MaxGroups,       \* ESPMIDI_MAX_PORT_GROUPS
    MaxListeners     \* ESPMIDI_MAX_PORT_LISTENERS

Static == {"uart", "usbDevice", "bleDevice", "application"}
Discovered == {"usbHost", "bleHost"}
Transports == Static \cup Discovered \cup {"unknown"}
Directions == {"in", "out"}
States == {"unconnected", "available", "disconnected"}
Invalid == 0
Untold == "untold"

ASSUME IdentitiesAssumption ==
    \A d \in Devices : Identity[d].transport \in Transports
ASSUME RegistryBoundsAssumption ==
    /\ Indices \subseteq Nat
    /\ MaxEndpoints \in Nat /\ MaxPorts \in Nat /\ MaxGroups \in Nat
    /\ MaxPortsPerEndpoint \in Nat /\ MaxListeners \in Nat

VARIABLES
    endpoints,       \* endpoints_[0 .. endpointCount_ - 1]
    ports,           \* ports_[0 .. portCount_ - 1]
    groups,          \* groups_[0 .. groupCount_ - 1]
    listeners,       \* listeners_[0 .. listenerCount_ - 1]
    told,            \* told[l][p]: what listener l was last told of port p
    seat,            \* seat[d]: the handle the adapter of d has
    connected        \* devices that are there

seatVars == <<endpoints, ports, told>>
deviceVars == <<seat, connected>>
vars == <<seatVars, groups, listeners, deviceVars>>

EndpointIds == 1..Len(endpoints)
PortIds == 1..Len(ports)
GroupIds == 1..Len(groups)

Init ==
    /\ endpoints = << >> /\ ports = << >> /\ groups = << >>
    /\ listeners = << >> /\ told = [l \in Listeners |-> << >>]
    /\ seat = [d \in Devices |-> Invalid] /\ connected = {}
-----------------------------------------------------------------------------
(* EndpointIdentity.                                                       *)
IsStatic(id) == id.transport \in Static
HasSerial(id) == id.serial # NoSerial
Identifiable(id) == id.transport # "unknown" /\ (IsStatic(id) \/ HasSerial(id))

(* Mutant: does not look at the index of a board's own interfaces.         *)
Matches_AnyIndex(a, b) ==
    /\ a.transport = b.transport
    /\ IsStatic(a) \/ (HasSerial(a) /\ HasSerial(b) /\ a.serial = b.serial)

Matches(a, b) ==
    /\ a.transport = b.transport /\ a.index = b.index
    /\ IsStatic(a) \/ (HasSerial(a) /\ HasSerial(b) /\ a.serial = b.serial)

(* Mutant: takes a seat only while it is free.                             *)
Found_FreeOnly(id) ==
    {e \in EndpointIds : /\ Identifiable(id) /\ Matches(endpoints[e].identity, id)
                         /\ endpoints[e].state = "disconnected"}

(* findEndpoint(): the seats of this identity, if it has any.              *)
Found(id) ==
    {e \in EndpointIds : Identifiable(id) /\ Matches(endpoints[e].identity, id)}

First(s) == CHOOSE e \in s : \A f \in s : e <= f
-----------------------------------------------------------------------------
Listening(l) == \E i \in 1..Len(listeners) : listeners[i] = l

(* notify(), of the new state of some ports; a port added since a listener *)
(* was last told anything is new to it.                                    *)
Notify(changed, state) ==
    told' = [l \in Listeners |->
        [p \in 1..Len(ports') |->
            IF Listening(l) /\ p \in changed THEN state
            ELSE IF p \in DOMAIN told[l] THEN told[l][p]
            ELSE Untold]]

(* Mutant: ports that are attached later keep the endpoint's old state.    *)
SetEndpointState_FirstPort(e, state) ==
    /\ endpoints' = [endpoints EXCEPT ![e].state = state]
    /\ LET changed == {p \in PortIds : /\ ports[p].endpoint = e /\ p = 1
                                       /\ ports[p].state # state} IN
       /\ ports' = [p \in PortIds |->
              IF p \in changed THEN [ports[p] EXCEPT !.state = state] ELSE ports[p]]
       /\ Notify(changed, state)

(* setEndpointState(), with setPortState() of every port of the endpoint.  *)
SetEndpointState(e, state) ==
    /\ endpoints' = [endpoints EXCEPT ![e].state = state]
    /\ LET changed == {p \in PortIds : /\ endpoints[e].state # state
                                       /\ ports[p].endpoint = e
                                       /\ ports[p].state # state} IN
       /\ ports' = [p \in PortIds |->
              IF p \in changed THEN [ports[p] EXCEPT !.state = state] ELSE ports[p]]
       /\ Notify(changed, state)

(* attachEndpoint() of a device that has a seat already: a reconnect.      *)
Reattach(d) ==
    /\ Identity[d].transport # "unknown" /\ Found(Identity[d]) # {}
    /\ SetEndpointState(First(Found(Identity[d])), "available")
    /\ seat' = [seat EXCEPT ![d] = First(Found(Identity[d]))]
    /\ connected' = connected \cup {d}
    /\ UNCHANGED <<groups, listeners>>

(* attachEndpoint() of a new one: allocateEndpoint(), then Available.      *)
AttachNew(d) ==
    /\ Identity[d].transport # "unknown" /\ Found(Identity[d]) = {}
    /\ Len(endpoints) < MaxEndpoints
    /\ endpoints' = Append(endpoints, [identity |-> Identity[d], state |-> "available"])
    /\ seat' = [seat EXCEPT ![d] = Len(endpoints) + 1]
    /\ connected' = connected \cup {d}
    /\ UNCHANGED <<ports, told, groups, listeners>>

(* Mutant: gives a device that finds no room the first free seat.          *)
AttachRefused_Recycles(d) ==
    /\ Identity[d].transport # "unknown"
    /\ Found(Identity[d]) = {} /\ Len(endpoints) >= MaxEndpoints
    /\ \E e \in EndpointIds :
           /\ endpoints[e].state = "disconnected"
           /\ SetEndpointState(e, "available")
           /\ seat' = [seat EXCEPT ![d] = e]
    /\ connected' = connected \cup {d}
    /\ UNCHANGED <<groups, listeners>>

(* attachEndpoint() of an unknown transport, or with every seat taken.     *)
AttachRefused(d) ==
    /\ \/ Identity[d].transport = "unknown"
       \/ Found(Identity[d]) = {} /\ Len(endpoints) >= MaxEndpoints
    /\ seat' = [seat EXCEPT ![d] = Invalid]
    /\ connected' = connected \cup {d}
    /\ UNCHANGED <<seatVars, groups, listeners>>

(* An interface of the board may be attached again while it is there       *)
(* (begin() called twice); another device attaches when it appears.        *)
MayAttach(d) == d \notin connected \/ IsStatic(Identity[d])

(* The device went away: detachEndpoint() of its seat, if it has one.      *)
Detach(d) ==
    /\ d \in connected
    /\ connected' = connected \ {d}
    /\ IF seat[d] = Invalid THEN UNCHANGED seatVars
                            ELSE SetEndpointState(seat[d], "disconnected")
    /\ UNCHANGED <<seat, groups, listeners>>
-----------------------------------------------------------------------------
(* attachPort(), for a device that was attached.                           *)
Seats(e, direction, index) ==
    {p \in PortIds : /\ ports[p].endpoint = e /\ ports[p].direction = direction
                     /\ ports[p].index = index}

(* The seat exists: setPortState() to the endpoint's.                      *)
ReattachPort(e, direction, index) ==
    /\ index < MaxPortsPerEndpoint /\ Seats(e, direction, index) # {}
    /\ LET p == First(Seats(e, direction, index))
           state == endpoints[e].state IN
       /\ ports' = [ports EXCEPT ![p].state = state]
       /\ Notify({p} \ {q \in {p} : ports[q].state = state}, state)
    /\ UNCHANGED <<endpoints, groups, listeners, deviceVars>>

(* A new seat: PortAdded tells its state.                                  *)
AddPort(e, direction, index) ==
    /\ index < MaxPortsPerEndpoint /\ Seats(e, direction, index) = {}
    /\ Len(ports) < MaxPorts
    /\ ports' = Append(ports, [endpoint |-> e, direction |-> direction,
                               index |-> index, state |-> endpoints[e].state])
    /\ Notify({Len(ports) + 1}, endpoints[e].state)
    /\ UNCHANGED <<endpoints, groups, listeners, deviceVars>>

PortRefused(e, direction, index) ==
    /\ \/ index >= MaxPortsPerEndpoint
       \/ Seats(e, direction, index) = {} /\ Len(ports) >= MaxPorts
    /\ UNCHANGED vars
-----------------------------------------------------------------------------
(* Groups.                                                                 *)
AddGroup(direction) ==
    /\ Len(groups) < MaxGroups
    /\ groups' = Append(groups, [direction |-> direction, members |-> {}])
    /\ UNCHANGED <<seatVars, listeners, deviceVars>>

(* addMember(): a port of the group's direction only.                      *)
AddMember(g, p) ==
    /\ ports[p].direction = groups[g].direction
    /\ groups' = [groups EXCEPT ![g].members = @ \cup {p}]
    /\ UNCHANGED <<seatVars, listeners, deviceVars>>

RemoveMember(g, p) ==
    /\ groups' = [groups EXCEPT ![g].members = @ \ {p}]
    /\ UNCHANGED <<seatVars, listeners, deviceVars>>

(* Listeners.                                                              *)
AddListener(l) ==
    /\ Len(listeners) < MaxListeners
    /\ listeners' = Append(listeners, l)
    /\ told' = [told EXCEPT ![l] = IF Listening(l) THEN @ ELSE << >>]
    /\ UNCHANGED <<endpoints, ports, groups, deviceVars>>

ClearListeners ==
    /\ listeners' = << >>
    /\ UNCHANGED <<seatVars, groups, deviceVars>>

Attach(d) == MayAttach(d) /\ (Reattach(d) \/ AttachNew(d) \/ AttachRefused(d))

AttachPort ==
    \E e \in EndpointIds, direction \in Directions, index \in Indices :
        \/ ReattachPort(e, direction, index)
        \/ AddPort(e, direction, index)
        \/ PortRefused(e, direction, index)

EditGroups ==
    \/ \E direction \in Directions : AddGroup(direction)
    \/ \E g \in GroupIds, p \in PortIds : AddMember(g, p) \/ RemoveMember(g, p)

Next ==
    \/ \E d \in Devices : Attach(d) \/ Detach(d)
    \/ AttachPort
    \/ EditGroups
    \/ \E l \in Listeners : AddListener(l)
    \/ ClearListeners

Spec == Init /\ [][Next]_vars
-----------------------------------------------------------------------------
EndpointSeat == [identity : {Identity[d] : d \in Devices}, state : States]
PortSeat == [endpoint : Nat \ {0}, direction : Directions, index : Indices, state : States]
Group == [direction : Directions, members : SUBSET (Nat \ {0})]

TypeOK ==
    /\ endpoints \in Seq(EndpointSeat) /\ Len(endpoints) <= MaxEndpoints
    /\ ports \in Seq(PortSeat) /\ Len(ports) <= MaxPorts
    /\ \A p \in PortIds : ports[p].endpoint \in EndpointIds
    /\ groups \in Seq(Group) /\ Len(groups) <= MaxGroups
    /\ listeners \in Seq(Listeners) /\ Len(listeners) <= MaxListeners
    /\ told \in [Listeners -> Seq(States \cup {Untold})]
    /\ seat \in [Devices -> {Invalid} \cup EndpointIds]
    /\ connected \subseteq Devices

(* "Every port of an endpoint follows it" (setEndpointState()): a port is  *)
(* Available exactly while its endpoint is, through disconnects,           *)
(* reconnects and ports that are attached late.                            *)
PortsFollowEndpoint ==
    \A p \in PortIds : ports[p].state = endpoints[ports[p].endpoint].state

(* Two seats are never the same port, or the same recognisable device: a   *)
(* route to one would miss what goes through the other.                    *)
SeatsAreDistinct ==
    /\ \A e, f \in EndpointIds :
           e # f => ~Matches(endpoints[e].identity, endpoints[f].identity)
    /\ \A p, q \in PortIds :
           p # q => <<ports[p].endpoint, ports[p].direction, ports[p].index>>
                        # <<ports[q].endpoint, ports[q].direction, ports[q].index>>

(* A seat is available exactly while the device it stands for is there.    *)
AvailableIsConnected ==
    \A e \in EndpointIds :
        endpoints[e].state = "available" <=> \E d \in connected : seat[d] = e

(* "Two indistinguishable devices get two seats rather than fighting over  *)
(* one" (EndpointIdentity): no two devices that are there share a seat,    *)
(* and a seat is available exactly while its device is there.  This is for *)
(* devices that can be told apart: two that say they are the same one are  *)
(* given the same seat.                                                    *)
SeatsAreNotShared ==
    /\ AvailableIsConnected
    /\ \A d, f \in connected :
           d # f /\ seat[d] # Invalid => seat[d] # seat[f]

(* A seat is never inherited: a device that was not there before never     *)
(* gets the seat, and with it the routing, of a device of another identity *)
(* or of one that cannot be recognised again.                              *)
SeatIsNotInherited ==
    [][\A d \in Devices :
         seat'[d] # Invalid /\ seat'[d] # seat[d] =>
             \A f \in Devices \ {d} :
                 seat[f] = seat'[d] =>
                     /\ Identifiable(Identity[d])
                     /\ Matches(Identity[f], Identity[d])]_vars

(* "Returns the device to the routing it had before" (attachEndpoint()): a *)
(* device that can be recognised never changes its seat once it has one.   *)
ReconnectsToItsSeat ==
    [][\A d \in Devices :
         Identifiable(Identity[d]) /\ seat[d] # Invalid => seat'[d] = seat[d]]_vars

(* Whoever follows the events is never wrong about the state of a port it  *)
(* has heard of.                                                           *)
ListenersKnow ==
    \A l \in Listeners : Listening(l) =>
        \A p \in PortIds \cap DOMAIN told[l] :
            told[l][p] \in {Untold, ports[p].state}

(* The tables and what is told of them agree, after any calls in any       *)
(* order and with every table full: the inductive invariant.               *)
RegistryIsConsistent ==
    TypeOK /\ PortsFollowEndpoint /\ SeatsAreDistinct /\ ListenersKnow
=============================================================================
