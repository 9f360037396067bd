-------------------------- MODULE PortRegistryProofs --------------------------
(***************************************************************************)
(* Proofs about PortRegistry for any devices, identities, listeners and    *)
(* table sizes.                                                            *)
(*                                                                         *)
(* RegistryIsConsistent is inductive.  What a device's seat says of it,    *)
(* SeatIsOwn, is the strengthening the properties of a reconnect need: the *)
(* seat was made for that device or for one that matches it.               *)
(***************************************************************************)
EXTENDS PortRegistry, TLAPS

(* A device has the seat it was given first, or, if it can be recognised,  *)
(* one whose identity matches its own.                                     *)
SeatIsOwn ==
    \A d \in Devices : seat[d] # Invalid =>
        \/ endpoints[seat[d]].identity = Identity[d]
        \/ /\ Identifiable(Identity[d])
           /\ Matches(endpoints[seat[d]].identity, Identity[d])

IInv == RegistryIsConsistent /\ SeatIsOwn
-----------------------------------------------------------------------------
(* Sequences.                                                              *)
LEMMA SeqOf ==
    ASSUME NEW S, NEW n \in Nat, NEW f \in [1..n -> S]
    PROVE  f \in Seq(S) /\ Len(f) = n
  OBVIOUS

LEMMA Singleton ==
    ASSUME NEW s \in SUBSET Nat, NEW e \in s, \A f \in s : f = e
    PROVE  First(s) = e
  <1>1. e \in Nat /\ \A f \in s : e <= f
    OBVIOUS
  <1>2. \E x \in s : \A f \in s : x <= f
    BY <1>1
  <1>3. First(s) \in s
    BY <1>2, Zenon DEF First
  <1> QED
    BY <1>3

(* Matching identities are interchangeable.                                *)
LEMMA MatchesSymmetric ==
    ASSUME NEW a, NEW b, Matches(a, b) PROVE Matches(b, a)
  BY DEF Matches, IsStatic, HasSerial

LEMMA MatchesSame ==
    ASSUME NEW a, NEW b, NEW c, Matches(a, c), Matches(b, c) PROVE Matches(a, b)
  BY DEF Matches, IsStatic, HasSerial

(* An identity of a known transport that matches another is identifiable.  *)
LEMMA MatchIsIdentifiable ==
    ASSUME NEW a, NEW b, Matches(a, b), b.transport # "unknown"
    PROVE  Identifiable(b)
  BY DEF Matches, Identifiable, IsStatic, HasSerial
-----------------------------------------------------------------------------
(* There is at most one seat to find, so it does not matter which is first.*)
LEMMA FoundIsOne ==
    ASSUME SeatsAreDistinct, NEW id, NEW e \in Found(id)
    PROVE  First(Found(id)) = e
  <1>1. \A f \in Found(id) : f = e
    <2> SUFFICES ASSUME NEW f \in Found(id), f # e PROVE FALSE
      OBVIOUS
    <2>1. Matches(endpoints[e].identity, endpoints[f].identity)
      BY MatchesSame DEF Found
    <2> QED
      BY <2>1 DEF SeatsAreDistinct, Found
  <1>2. Found(id) \in SUBSET Nat
    BY DEF Found, EndpointIds
  <1> QED
    BY <1>1, <1>2, Singleton

LEMMA SeatIsOne ==
    ASSUME SeatsAreDistinct, NEW e, NEW direction, NEW index,
           NEW p \in Seats(e, direction, index)
    PROVE  First(Seats(e, direction, index)) = p
  <1>1. \A q \in Seats(e, direction, index) : q = p
    BY DEF SeatsAreDistinct, Seats
  <1>2. Seats(e, direction, index) \in SUBSET Nat
    BY DEF Seats, PortIds
  <1> QED
    BY <1>1, <1>2, Singleton
-----------------------------------------------------------------------------
(* setEndpointState() keeps the tables in shape; every port of the         *)
(* endpoint ends in its state, and the others keep theirs.                 *)
LEMMA SetEndpointStateEffect ==
    ASSUME TypeOK, PortsFollowEndpoint, NEW e \in EndpointIds, NEW state \in States,
           SetEndpointState(e, state)
    PROVE  /\ endpoints' \in Seq(EndpointSeat) /\ Len(endpoints') = Len(endpoints)
           /\ \A f \in EndpointIds :
                  /\ endpoints'[f].identity = endpoints[f].identity
                  /\ endpoints'[f].state = IF f = e THEN state ELSE endpoints[f].state
           /\ ports' \in Seq(PortSeat) /\ Len(ports') = Len(ports)
           /\ \A p \in PortIds :
                  /\ ports'[p].endpoint = ports[p].endpoint
                  /\ ports'[p].direction = ports[p].direction
                  /\ ports'[p].index = ports[p].index
                  /\ ports'[p].state = IF ports[p].endpoint = e THEN state
                                                               ELSE ports[p].state
           /\ told' \in [Listeners -> Seq(States \cup {Untold})]
  <1> DEFINE changed == {p \in PortIds : /\ endpoints[e].state # state
                                        /\ ports[p].endpoint = e
                                        /\ ports[p].state # state}
  <1>1. endpoints[e] \in EndpointSeat
    BY DEF TypeOK, EndpointIds
  <1>2. /\ endpoints' \in Seq(EndpointSeat) /\ Len(endpoints') = Len(endpoints)
        /\ \A f \in EndpointIds :
               /\ endpoints'[f].identity = endpoints[f].identity
               /\ endpoints'[f].state = IF f = e THEN state ELSE endpoints[f].state
    <2> DEFINE seated == [identity |-> endpoints[e].identity, state |-> state]
    <2>1. [endpoints[e] EXCEPT !.state = state] = seated /\ seated \in EndpointSeat
      BY <1>1 DEF EndpointSeat
    <2>2. endpoints' = [endpoints EXCEPT ![e] = seated]
      BY <2>1 DEF SetEndpointState
    <2>3. endpoints \in [EndpointIds -> EndpointSeat] /\ Len(endpoints) \in Nat
      BY DEF TypeOK, EndpointIds
    <2>4. endpoints' \in [EndpointIds -> EndpointSeat]
      BY <2>1, <2>2, <2>3
    <2>5. endpoints' \in Seq(EndpointSeat) /\ Len(endpoints') = Len(endpoints)
      BY <2>3, <2>4, SeqOf DEF EndpointIds
    <2>6. ASSUME NEW f \in EndpointIds
          PROVE  /\ endpoints'[f].identity = endpoints[f].identity
                 /\ endpoints'[f].state = IF f = e THEN state ELSE endpoints[f].state
      <3>1. endpoints[f] \in EndpointSeat
        BY <2>3
      <3>2. endpoints'[f] = IF f = e THEN seated ELSE endpoints[f]
        BY <2>2, <2>3
      <3> QED
        BY <3>1, <3>2 DEF EndpointSeat
    <2> QED
      BY <2>5, <2>6
  <1>3. ports' = [p \in 1..Len(ports) |->
                    IF p \in changed THEN [ports[p] EXCEPT !.state = state] ELSE ports[p]]
    BY DEF SetEndpointState, PortIds
  <1>4. \A p \in PortIds : ports[p] \in PortSeat
    BY DEF TypeOK, PortIds
  <1>5. /\ ports' \in Seq(PortSeat) /\ Len(ports') = Len(ports)
    <2>1. Len(ports) \in Nat
      BY DEF TypeOK
    <2>2. ports' \in [1..Len(ports) -> PortSeat]
      BY <1>3, <1>4 DEF PortSeat, PortIds
    <2> QED
      BY <2>1, <2>2, SeqOf
  <1>6. \A p \in PortIds :
           /\ ports'[p].endpoint = ports[p].endpoint
           /\ ports'[p].direction = ports[p].direction
           /\ ports'[p].index = ports[p].index
           /\ ports'[p].state = IF ports[p].endpoint = e THEN state ELSE ports[p].state
    <2> SUFFICES ASSUME NEW p \in PortIds
                 PROVE  /\ ports'[p].endpoint = ports[p].endpoint
                        /\ ports'[p].direction = ports[p].direction
                        /\ ports'[p].index = ports[p].index
                        /\ ports'[p].state = IF ports[p].endpoint = e THEN state
                                                                     ELSE ports[p].state
      OBVIOUS
    <2>1. ports[p] \in PortSeat /\ ports[p].state = endpoints[ports[p].endpoint].state
      BY <1>4 DEF PortsFollowEndpoint
    <2>2. ports'[p] = IF p \in changed THEN [ports[p] EXCEPT !.state = state] ELSE ports[p]
      BY <1>3 DEF PortIds
    <2> QED
      BY <2>1, <2>2 DEF PortSeat
  <1>7. told' \in [Listeners -> Seq(States \cup {Untold})]
    <2>1. told' = [l \in Listeners |-> [p \in 1..Len(ports') |->
                     IF Listening(l) /\ p \in changed THEN state
                     ELSE IF p \in DOMAIN told[l] THEN told[l][p] ELSE Untold]]
      BY DEF SetEndpointState, Notify
    <2> SUFFICES ASSUME NEW l \in Listeners PROVE told'[l] \in Seq(States \cup {Untold})
      BY <2>1
    <2>2. told'[l] \in [1..Len(ports') -> States \cup {Untold}]
      BY <2>1 DEF TypeOK
    <2>3. Len(ports') \in Nat
      BY <1>5
    <2> QED
      BY <2>2, <2>3, SeqOf
  <1> QED
    BY <1>2, <1>5, <1>6, <1>7

(* What a listener was told of the ports is kept in a table as long as the *)
(* ports', and the listeners are told of the changed ones.                 *)
LEMMA NotifyEffect ==
    ASSUME TypeOK, NEW changed, NEW state \in States, Notify(changed, state),
           ports' \in Seq(PortSeat)
    PROVE  /\ told' \in [Listeners -> Seq(States \cup {Untold})]
           /\ \A l \in Listeners : \A p \in 1..Len(ports') :
                  told'[l][p] = IF Listening(l) /\ p \in changed THEN state
                                ELSE IF p \in DOMAIN told[l] THEN told[l][p]
                                ELSE Untold
           /\ \A l \in Listeners : DOMAIN told'[l] = 1..Len(ports')
  <1>1. told' = [l \in Listeners |-> [p \in 1..Len(ports') |->
                   IF Listening(l) /\ p \in changed THEN state
                   ELSE IF p \in DOMAIN told[l] THEN told[l][p] ELSE Untold]]
    BY DEF Notify
  <1>2. ASSUME NEW l \in Listeners PROVE told'[l] \in Seq(States \cup {Untold})
    <2>1. told'[l] \in [1..Len(ports') -> States \cup {Untold}]
      BY <1>1 DEF TypeOK
    <2>2. Len(ports') \in Nat
      OBVIOUS
    <2> QED
      BY <2>1, <2>2, SeqOf
  <1> QED
    BY <1>1, <1>2

(* Whatever else a step does, a state set for an endpoint and its ports    *)
(* leaves the tables consistent.                                           *)
LEMMA SetEndpointStateKeeps ==
    ASSUME RegistryIsConsistent, NEW e \in EndpointIds, NEW state \in States,
           SetEndpointState(e, state), UNCHANGED <<groups, listeners>>,
           seat' \in [Devices -> {Invalid} \cup EndpointIds],
           connected' \subseteq Devices
    PROVE  RegistryIsConsistent'
  <1>1. TypeOK /\ PortsFollowEndpoint /\ SeatsAreDistinct /\ ListenersKnow
    BY DEF RegistryIsConsistent
  <1>2. /\ endpoints' \in Seq(EndpointSeat) /\ Len(endpoints') = Len(endpoints)
        /\ ports' \in Seq(PortSeat) /\ Len(ports') = Len(ports)
        /\ told' \in [Listeners -> Seq(States \cup {Untold})]
    BY <1>1, SetEndpointStateEffect
  <1>3. \A f \in EndpointIds :
           /\ endpoints'[f].identity = endpoints[f].identity
           /\ endpoints'[f].state = IF f = e THEN state ELSE endpoints[f].state
    BY <1>1, SetEndpointStateEffect
  <1>4. \A p \in PortIds :
           /\ ports'[p].endpoint = ports[p].endpoint
           /\ ports'[p].direction = ports[p].direction
           /\ ports'[p].index = ports[p].index
           /\ ports'[p].state = IF ports[p].endpoint = e THEN state ELSE ports[p].state
    BY <1>1, SetEndpointStateEffect
  <1>5. EndpointIds' = EndpointIds /\ PortIds' = PortIds
    BY <1>2 DEF EndpointIds, PortIds
  <1>6. TypeOK'
    BY <1>1, <1>2, <1>4, <1>5 DEF TypeOK
  <1>7. PortsFollowEndpoint'
    BY <1>1, <1>3, <1>4, <1>5 DEF PortsFollowEndpoint, TypeOK
  <1>8. SeatsAreDistinct'
    BY <1>1, <1>3, <1>4, <1>5 DEF SeatsAreDistinct
  <1>9. ListenersKnow'
    <2> SUFFICES ASSUME NEW l \in Listeners, Listening(l), NEW p \in PortIds
                 PROVE  told'[l][p] \in {Untold, ports'[p].state}
      BY <1>5 DEF ListenersKnow, Listening
    <2> DEFINE changed == {q \in PortIds : /\ endpoints[e].state # state
                                          /\ ports[q].endpoint = e
                                          /\ ports[q].state # state}
    <2>1. Notify(changed, state)
      BY DEF SetEndpointState
    <2>2. told'[l][p] = IF p \in changed THEN state
                        ELSE IF p \in DOMAIN told[l] THEN told[l][p] ELSE Untold
      BY <1>1, <1>2, <2>1, NotifyEffect DEF PortIds
    <2>3. p \in DOMAIN told[l] => told[l][p] \in {Untold, ports[p].state}
      BY <1>1 DEF ListenersKnow
    <2>4. ports[p].state = endpoints[ports[p].endpoint].state
      BY <1>1 DEF PortsFollowEndpoint
    <2>5. CASE p \in changed
      BY <2>2, <2>5, <1>4
    <2>6. CASE p \notin changed
      BY <2>2, <2>3, <2>4, <2>6, <1>4
    <2> QED
      BY <2>5, <2>6
  <1> QED
    BY <1>6, <1>7, <1>8, <1>9 DEF RegistryIsConsistent
-----------------------------------------------------------------------------
(* Before the first device the tables are empty.                           *)
LEMMA InvInit == Init => IInv
  <1> SUFFICES ASSUME Init PROVE IInv
    OBVIOUS
  <1>1. TypeOK
    BY RegistryBoundsAssumption
       DEF Init, TypeOK, EndpointIds, PortIds, EndpointSeat, PortSeat, Group
  <1>2. PortsFollowEndpoint /\ SeatsAreDistinct /\ ListenersKnow
    BY DEF Init, PortsFollowEndpoint, SeatsAreDistinct, ListenersKnow,
           EndpointIds, PortIds
  <1>3. SeatIsOwn
    BY DEF Init, SeatIsOwn
  <1> QED
    BY <1>1, <1>2, <1>3 DEF IInv, RegistryIsConsistent

(* A reconnect finds one seat, and it matches the device.                  *)
LEMMA ReattachEffect ==
    ASSUME RegistryIsConsistent, NEW d \in Devices, Reattach(d)
    PROVE  \E e \in Found(Identity[d]) :
               /\ SetEndpointState(e, "available") /\ e \in EndpointIds
               /\ seat' = [seat EXCEPT ![d] = e]
               /\ Identifiable(Identity[d])
               /\ Matches(endpoints[e].identity, Identity[d])
  <1>1. PICK e \in Found(Identity[d]) : TRUE
    BY DEF Reattach
  <1>2. First(Found(Identity[d])) = e
    BY FoundIsOne DEF RegistryIsConsistent
  <1> QED
    BY <1>2 DEF Reattach, Found

LEMMA InvReattach == ASSUME IInv, NEW d \in Devices, Reattach(d) PROVE IInv'
  <1>1. RegistryIsConsistent /\ TypeOK /\ PortsFollowEndpoint
    BY DEF IInv, RegistryIsConsistent
  <1>2. PICK e \in EndpointIds :
           /\ SetEndpointState(e, "available")
           /\ seat' = [seat EXCEPT ![d] = e]
           /\ Identifiable(Identity[d])
           /\ Matches(endpoints[e].identity, Identity[d])
    BY <1>1, ReattachEffect
  <1>3. RegistryIsConsistent'
    <2>1. /\ seat' \in [Devices -> {Invalid} \cup EndpointIds]
          /\ connected' \subseteq Devices /\ UNCHANGED <<groups, listeners>>
      BY <1>1, <1>2 DEF TypeOK, Reattach
    <2> QED
      BY <1>1, <1>2, <2>1, SetEndpointStateKeeps DEF States
  <1>4. \A f \in EndpointIds : endpoints'[f].identity = endpoints[f].identity
    BY <1>1, <1>2, SetEndpointStateEffect DEF States
  <1>5. SeatIsOwn'
    BY <1>1, <1>2, <1>4 DEF SeatIsOwn, IInv, TypeOK
  <1> QED
    BY <1>3, <1>5 DEF IInv

(* A new seat is at the end of the table, and matches no other.            *)
LEMMA AttachNewEffect ==
    ASSUME TypeOK, NEW d \in Devices, AttachNew(d)
    PROVE  /\ endpoints' \in Seq(EndpointSeat) /\ Len(endpoints') = Len(endpoints) + 1
           /\ \A e \in EndpointIds : endpoints'[e] = endpoints[e]
           /\ endpoints'[Len(endpoints) + 1] = [identity |-> Identity[d],
                                               state |-> "available"]
           /\ EndpointIds' = EndpointIds \cup {Len(endpoints) + 1}
           /\ Len(endpoints) + 1 \notin EndpointIds /\ Len(endpoints) \in Nat
  <1>1. [identity |-> Identity[d], state |-> "available"] \in EndpointSeat
    BY DEF EndpointSeat, States
  <1>2. endpoints' = Append(endpoints, [identity |-> Identity[d], state |-> "available"])
    BY DEF AttachNew
  <1>3. endpoints \in Seq(EndpointSeat) /\ Len(endpoints) \in Nat
    BY DEF TypeOK
  <1> QED
    BY <1>1, <1>2, <1>3 DEF EndpointIds

LEMMA InvAttachNew == ASSUME IInv, NEW d \in Devices, AttachNew(d) PROVE IInv'
  <1>1. /\ TypeOK /\ PortsFollowEndpoint /\ SeatsAreDistinct /\ ListenersKnow
        /\ SeatIsOwn
    BY DEF IInv, RegistryIsConsistent
  <1> DEFINE new == Len(endpoints) + 1
  <1>2. /\ endpoints' \in Seq(EndpointSeat) /\ Len(endpoints') = new
        /\ \A e \in EndpointIds : endpoints'[e] = endpoints[e]
        /\ endpoints'[new].identity = Identity[d]
        /\ EndpointIds' = EndpointIds \cup {new}
        /\ new \notin EndpointIds /\ new \in Nat \ {0}
    <2>1. endpoints'[new] = [identity |-> Identity[d], state |-> "available"]
      BY <1>1, AttachNewEffect
    <2>2. endpoints'[new].identity = Identity[d]
      BY <2>1
    <2>3. /\ endpoints' \in Seq(EndpointSeat) /\ Len(endpoints') = new
          /\ \A e \in EndpointIds : endpoints'[e] = endpoints[e]
          /\ EndpointIds' = EndpointIds \cup {new}
          /\ new \notin EndpointIds
      BY <1>1, AttachNewEffect
    <2>4. Len(endpoints) \in Nat
      BY <1>1 DEF TypeOK
    <2> QED
      BY <2>2, <2>3, <2>4
  <1>3. /\ UNCHANGED <<ports, told, groups, listeners>>
        /\ seat' = [seat EXCEPT ![d] = new] /\ connected' = connected \cup {d}
        /\ Len(endpoints) < MaxEndpoints
    BY DEF AttachNew
  <1>4. TypeOK'
    <2>1. Len(endpoints') <= MaxEndpoints
      BY <1>1, <1>2, <1>3, RegistryBoundsAssumption DEF TypeOK
    <2>2. seat' \in [Devices -> {Invalid} \cup EndpointIds']
      BY <1>1, <1>2, <1>3 DEF TypeOK
    <2> QED
      BY <1>1, <1>2, <1>3, <2>1, <2>2 DEF TypeOK, PortIds
  <1>5. PortsFollowEndpoint'
    BY <1>1, <1>2, <1>3 DEF PortsFollowEndpoint, PortIds, TypeOK
  <1>6. SeatsAreDistinct'
    <2>1. ASSUME NEW e \in EndpointIds, Matches(endpoints[e].identity, Identity[d])
          PROVE  FALSE
      BY <2>1, MatchIsIdentifiable DEF AttachNew, Found
    <2>2. ASSUME NEW e \in EndpointIds', NEW f \in EndpointIds', e # f,
                 Matches(endpoints'[e].identity, endpoints'[f].identity)
          PROVE  FALSE
      <3>1. CASE e = new
        BY <1>2, <2>1, <2>2, <3>1, MatchesSymmetric
      <3>2. CASE f = new
        BY <1>2, <2>1, <2>2, <3>2
      <3>3. CASE e # new /\ f # new
        BY <1>1, <1>2, <2>2, <3>3 DEF SeatsAreDistinct
      <3> QED
        BY <3>1, <3>2, <3>3
    <2> QED
      BY <1>1, <1>3, <2>2 DEF SeatsAreDistinct, PortIds
  <1>7. ListenersKnow'
    BY <1>1, <1>3 DEF ListenersKnow, Listening, PortIds
  <1>8. SeatIsOwn'
    BY <1>1, <1>2, <1>3 DEF SeatIsOwn, TypeOK
  <1> QED
    BY <1>4, <1>5, <1>6, <1>7, <1>8 DEF IInv, RegistryIsConsistent

(* A refused device is left without a seat.                                *)
LEMMA InvAttachRefused == ASSUME IInv, NEW d \in Devices, AttachRefused(d) PROVE IInv'
  <1>1. TypeOK' /\ SeatIsOwn'
    BY DEF IInv, RegistryIsConsistent, AttachRefused, TypeOK, SeatIsOwn, seatVars,
           EndpointIds, PortIds
  <1>2. PortsFollowEndpoint' /\ SeatsAreDistinct' /\ ListenersKnow'
    BY DEF IInv, RegistryIsConsistent, AttachRefused, seatVars, PortsFollowEndpoint,
           SeatsAreDistinct, ListenersKnow, Listening, EndpointIds, PortIds
  <1> QED
    BY <1>1, <1>2 DEF IInv, RegistryIsConsistent

(* The seat of a device that went away is kept.                            *)
LEMMA InvDetach == ASSUME IInv, NEW d \in Devices, Detach(d) PROVE IInv'
  <1>1. /\ TypeOK /\ PortsFollowEndpoint /\ RegistryIsConsistent /\ SeatIsOwn
    BY DEF IInv, RegistryIsConsistent
  <1>2. /\ connected' \subseteq Devices /\ UNCHANGED <<seat, groups, listeners>>
        /\ seat \in [Devices -> {Invalid} \cup EndpointIds]
    BY <1>1 DEF Detach, TypeOK
  <1>3. CASE seat[d] = Invalid
    <2>1. UNCHANGED seatVars
      BY <1>3 DEF Detach
    <2>2. TypeOK' /\ SeatIsOwn'
      BY <1>1, <1>2, <2>1 DEF TypeOK, SeatIsOwn, seatVars, EndpointIds, PortIds
    <2>3. PortsFollowEndpoint' /\ SeatsAreDistinct' /\ ListenersKnow'
      BY <1>1, <1>2, <2>1
         DEF RegistryIsConsistent, seatVars, PortsFollowEndpoint, SeatsAreDistinct,
             ListenersKnow, Listening, EndpointIds, PortIds
    <2> QED
      BY <2>2, <2>3 DEF IInv, RegistryIsConsistent
  <1>4. CASE seat[d] # Invalid
    <2>1. seat[d] \in EndpointIds /\ SetEndpointState(seat[d], "disconnected")
      BY <1>2, <1>4 DEF Detach
    <2>2. RegistryIsConsistent'
      BY <1>1, <1>2, <2>1, SetEndpointStateKeeps DEF States
    <2>3. \A f \in EndpointIds : endpoints'[f].identity = endpoints[f].identity
      BY <1>1, <2>1, SetEndpointStateEffect DEF States
    <2>4. SeatIsOwn'
      BY <1>1, <1>2, <2>3 DEF SeatIsOwn
    <2> QED
      BY <2>2, <2>4 DEF IInv
  <1> QED
    BY <1>3, <1>4
-----------------------------------------------------------------------------
(* A port that follows its endpoint is not changed by attaching it again.  *)
LEMMA InvReattachPort ==
    ASSUME IInv, NEW e \in EndpointIds, NEW direction, NEW index,
           ReattachPort(e, direction, index)
    PROVE  IInv'
  <1>1. /\ TypeOK /\ PortsFollowEndpoint /\ SeatsAreDistinct /\ ListenersKnow
        /\ SeatIsOwn
    BY DEF IInv, RegistryIsConsistent
  <1>2. PICK p \in Seats(e, direction, index) : TRUE
    BY DEF ReattachPort
  <1>3. First(Seats(e, direction, index)) = p
    BY <1>1, SeatIsOne
  <1>4. p \in PortIds /\ ports[p].state = endpoints[e].state /\ ports[p] \in PortSeat
    BY <1>1, <1>2 DEF Seats, PortsFollowEndpoint, TypeOK, PortIds
  <1>5. ports' = ports
    <2>1. [ports[p] EXCEPT !.state = endpoints[e].state] = ports[p]
      BY <1>4 DEF PortSeat
    <2>2. ports' = [ports EXCEPT ![p] = ports[p]]
      BY <1>3, <2>1 DEF ReattachPort
    <2>3. ports \in [PortIds -> PortSeat]
      BY <1>1 DEF TypeOK, PortIds
    <2> QED
      BY <1>4, <2>2, <2>3
  <1> DEFINE changed == {p} \ {q \in {p} : ports[q].state = endpoints[e].state}
  <1>6. changed = {} /\ endpoints[e].state \in States
    BY <1>1, <1>4 DEF TypeOK, EndpointIds, EndpointSeat, PortSeat
  <1>7. Notify({}, endpoints[e].state)
    BY <1>3, <1>6 DEF ReattachPort
  <1>8. /\ told' \in [Listeners -> Seq(States \cup {Untold})]
        /\ \A l \in Listeners : \A q \in PortIds :
               told'[l][q] = IF q \in DOMAIN told[l] THEN told[l][q] ELSE Untold
    BY <1>1, <1>5, <1>6, <1>7, NotifyEffect DEF TypeOK, PortIds
  <1>9. UNCHANGED <<endpoints, groups, listeners, seat, connected>>
    BY DEF ReattachPort, deviceVars
  <1>10. TypeOK' /\ SeatIsOwn'
    BY <1>1, <1>5, <1>8, <1>9 DEF TypeOK, SeatIsOwn, EndpointIds, PortIds
  <1>11. PortsFollowEndpoint' /\ SeatsAreDistinct'
    BY <1>1, <1>5, <1>9 DEF PortsFollowEndpoint, SeatsAreDistinct, EndpointIds, PortIds
  <1>12. ListenersKnow'
    BY <1>1, <1>5, <1>8, <1>9 DEF ListenersKnow, Listening, PortIds
  <1> QED
    BY <1>10, <1>11, <1>12 DEF IInv, RegistryIsConsistent

(* A new port takes the state its endpoint has, and PortAdded tells it.    *)
LEMMA InvAddPort ==
    ASSUME IInv, NEW e \in EndpointIds, NEW direction \in Directions,
           NEW index \in Indices, AddPort(e, direction, index)
    PROVE  IInv'
  <1>1. /\ TypeOK /\ PortsFollowEndpoint /\ SeatsAreDistinct /\ ListenersKnow
        /\ SeatIsOwn
    BY DEF IInv, RegistryIsConsistent
  <1> DEFINE new == Len(ports) + 1
             seated == [endpoint |-> e, direction |-> direction, index |-> index,
                        state |-> endpoints[e].state]
  <1>2. UNCHANGED <<endpoints, groups, listeners, seat, connected>>
    BY DEF AddPort, deviceVars
  <1>3. endpoints[e].state \in States /\ e \in Nat \ {0} /\ EndpointIds' = EndpointIds
    <2>1. endpoints[e] \in EndpointSeat
      BY <1>1 DEF TypeOK, EndpointIds
    <2>2. endpoints[e].state \in States
      BY <2>1 DEF EndpointSeat
    <2> QED
      BY <1>2, <2>2 DEF EndpointIds
  <1>4. seated \in PortSeat
    BY <1>3 DEF PortSeat
  <1>5. ports \in Seq(PortSeat) /\ Len(ports) \in Nat /\ ports' = Append(ports, seated)
    BY <1>1 DEF TypeOK, AddPort
  <1>6. /\ ports' \in Seq(PortSeat) /\ Len(ports') = new /\ ports'[new] = seated
        /\ \A p \in PortIds : ports'[p] = ports[p]
        /\ PortIds' = PortIds \cup {new} /\ new \notin PortIds
    BY <1>4, <1>5 DEF PortIds
  <1>7. /\ told' \in [Listeners -> Seq(States \cup {Untold})]
        /\ \A l \in Listeners : \A p \in PortIds' :
               told'[l][p] = IF Listening(l) /\ p = new THEN endpoints[e].state
                             ELSE IF p \in DOMAIN told[l] THEN told[l][p] ELSE Untold
    BY <1>1, <1>3, <1>6, NotifyEffect DEF AddPort, PortIds
  <1>8. TypeOK'
    <2>1. Len(ports') <= MaxPorts
      BY <1>5, <1>6, RegistryBoundsAssumption DEF AddPort
    <2>2. ports'[new].endpoint = e
      BY <1>6
    <2>3. \A p \in PortIds' : ports'[p].endpoint \in EndpointIds'
      BY <1>1, <1>3, <1>6, <2>2 DEF TypeOK
    <2> QED
      BY <1>1, <1>2, <1>3, <1>6, <1>7, <2>1, <2>3 DEF TypeOK
  <1>9. PortsFollowEndpoint'
    <2>1. /\ ports'[new].endpoint = e /\ ports'[new].state = endpoints[e].state
      BY <1>6
    <2> QED
      BY <1>1, <1>2, <1>6, <2>1 DEF PortsFollowEndpoint
  <1>10. SeatsAreDistinct'
    <2>1. /\ ports'[new].endpoint = e /\ ports'[new].direction = direction
          /\ ports'[new].index = index
      BY <1>6
    <2>2. \A p \in PortIds :
             ~(ports[p].endpoint = e /\ ports[p].direction = direction
                 /\ ports[p].index = index)
      BY DEF AddPort, Seats
    <2>3. ASSUME NEW p \in PortIds', NEW q \in PortIds', p # q,
                 ports'[p].endpoint = ports'[q].endpoint,
                 ports'[p].direction = ports'[q].direction,
                 ports'[p].index = ports'[q].index
          PROVE  FALSE
      <3>1. CASE p = new
        BY <1>6, <2>1, <2>2, <2>3, <3>1
      <3>2. CASE q = new
        BY <1>6, <2>1, <2>2, <2>3, <3>2
      <3>3. CASE p # new /\ q # new
        BY <1>1, <1>6, <2>3, <3>3 DEF SeatsAreDistinct
      <3> QED
        BY <3>1, <3>2, <3>3
    <2> QED
      BY <1>1, <1>2, <1>3, <2>3 DEF SeatsAreDistinct
  <1>11. ListenersKnow'
    <2> SUFFICES ASSUME NEW l \in Listeners, Listening(l), NEW p \in PortIds'
                 PROVE  told'[l][p] \in {Untold, ports'[p].state}
      BY <1>2 DEF ListenersKnow, Listening
    <2>1. CASE p = new
      BY <1>6, <1>7, <2>1
    <2>2. CASE p \in PortIds
      BY <1>1, <1>6, <1>7, <2>2 DEF ListenersKnow
    <2> QED
      BY <1>6, <2>1, <2>2
  <1>12. SeatIsOwn'
    BY <1>1, <1>2 DEF SeatIsOwn
  <1> QED
    BY <1>8, <1>9, <1>10, <1>11, <1>12 DEF IInv, RegistryIsConsistent

(* Groups and listeners do not touch the seats.                            *)
LEMMA InvGroups == ASSUME IInv, EditGroups PROVE IInv'
  <1>1. UNCHANGED <<endpoints, ports, told, listeners, seat, connected>>
    BY DEF EditGroups, AddGroup, AddMember, RemoveMember, seatVars, deviceVars
  <1>2. TypeOK /\ PortsFollowEndpoint /\ SeatsAreDistinct /\ ListenersKnow /\ SeatIsOwn
    BY DEF IInv, RegistryIsConsistent
  <1>3. groups' \in Seq(Group) /\ Len(groups') <= MaxGroups
    <2>1. groups \in Seq(Group) /\ Len(groups) <= MaxGroups /\ MaxGroups \in Nat
      BY <1>2, RegistryBoundsAssumption DEF TypeOK
    <2>2. ASSUME NEW direction \in Directions, AddGroup(direction)
          PROVE  groups' \in Seq(Group) /\ Len(groups') <= MaxGroups
      <3>1. [direction |-> direction, members |-> {}] \in Group
        BY DEF Group
      <3> QED
        BY <2>1, <2>2, <3>1 DEF AddGroup
    <2>3. ASSUME NEW g \in GroupIds, NEW members \in SUBSET (Nat \ {0}),
                 groups' = [groups EXCEPT ![g].members = members]
          PROVE  groups' \in Seq(Group) /\ Len(groups') <= MaxGroups
      <3>1. groups \in [1..Len(groups) -> Group] /\ Len(groups) \in Nat
        BY <2>1
      <3>2. groups[g] \in Group
        BY <3>1 DEF GroupIds
      <3>3. [groups[g] EXCEPT !.members = members] \in Group
        BY <3>2 DEF Group
      <3>4. groups' \in [1..Len(groups) -> Group]
        BY <2>3, <3>1, <3>3
      <3> QED
        BY <2>1, <3>1, <3>4, SeqOf
    <2>4. ASSUME NEW g \in GroupIds, NEW p \in PortIds, AddMember(g, p) \/ RemoveMember(g, p)
          PROVE  groups' \in Seq(Group) /\ Len(groups') <= MaxGroups
      <3>1. groups[g] \in Group
        BY <2>1 DEF GroupIds
      <3>2. /\ groups[g].members \cup {p} \in SUBSET (Nat \ {0})
            /\ groups[g].members \ {p} \in SUBSET (Nat \ {0})
        BY <3>1 DEF Group, PortIds
      <3>3. \/ groups' = [groups EXCEPT ![g].members = groups[g].members \cup {p}]
            \/ groups' = [groups EXCEPT ![g].members = groups[g].members \ {p}]
        BY <2>4, Zenon DEF AddMember, RemoveMember
      <3> QED
        BY <2>3, <3>2, <3>3
    <2> QED
      BY <2>2, <2>4 DEF EditGroups
  <1>4. TypeOK'
    BY <1>1, <1>2, <1>3 DEF TypeOK, EndpointIds, PortIds
  <1>5. PortsFollowEndpoint' /\ SeatsAreDistinct' /\ ListenersKnow' /\ SeatIsOwn'
    BY <1>1, <1>2 DEF PortsFollowEndpoint, SeatsAreDistinct, ListenersKnow, Listening,
                      SeatIsOwn, EndpointIds, PortIds
  <1> QED
    BY <1>4, <1>5 DEF IInv, RegistryIsConsistent

(* A listener is told of what happens from now on.                         *)
LEMMA InvAddListener == ASSUME IInv, NEW l \in Listeners, AddListener(l) PROVE IInv'
  <1>1. UNCHANGED <<endpoints, ports, groups, seat, connected>>
    BY DEF AddListener, deviceVars
  <1>2. TypeOK /\ PortsFollowEndpoint /\ SeatsAreDistinct /\ ListenersKnow /\ SeatIsOwn
    BY DEF IInv, RegistryIsConsistent
  <1>3. listeners' = Append(listeners, l) /\ listeners \in Seq(Listeners)
    BY <1>2 DEF AddListener, TypeOK
  <1>4. \A k \in Listeners : Listening(k)' <=> (Listening(k) \/ k = l)
    BY <1>3 DEF Listening
  <1>5. told' = [told EXCEPT ![l] = IF Listening(l) THEN told[l] ELSE << >>]
    BY DEF AddListener
  <1>6. << >> \in Seq(States \cup {Untold}) /\ DOMAIN << >> = {}
    OBVIOUS
  <1>7. TypeOK'
    <2>1. told' \in [Listeners -> Seq(States \cup {Untold})]
      BY <1>2, <1>5, <1>6 DEF TypeOK
    <2>2. listeners' \in Seq(Listeners) /\ Len(listeners') <= MaxListeners
      BY <1>3, RegistryBoundsAssumption DEF AddListener
    <2> QED
      BY <1>1, <1>2, <2>1, <2>2 DEF TypeOK, EndpointIds, PortIds
  <1>8. ListenersKnow'
    <2> SUFFICES ASSUME NEW k \in Listeners, Listening(k)',
                        NEW p \in PortIds, p \in DOMAIN told'[k]
                 PROVE  told'[k][p] \in {Untold, ports[p].state}
      BY <1>1 DEF ListenersKnow, PortIds
    <2>1. Listening(k) /\ told'[k] = told[k]
      BY <1>2, <1>4, <1>5, <1>6 DEF TypeOK
    <2> QED
      BY <1>2, <2>1 DEF ListenersKnow
  <1>9. PortsFollowEndpoint' /\ SeatsAreDistinct' /\ SeatIsOwn'
    BY <1>1, <1>2 DEF PortsFollowEndpoint, SeatsAreDistinct, SeatIsOwn,
                      EndpointIds, PortIds
  <1> QED
    BY <1>7, <1>8, <1>9 DEF IInv, RegistryIsConsistent

LEMMA InvClearListeners == ASSUME IInv, ClearListeners PROVE IInv'
  <1>1. /\ UNCHANGED <<endpoints, ports, told, groups, seat, connected>>
        /\ listeners' = << >>
    BY DEF ClearListeners, seatVars, deviceVars
  <1>2. TypeOK /\ PortsFollowEndpoint /\ SeatsAreDistinct /\ ListenersKnow /\ SeatIsOwn
    BY DEF IInv, RegistryIsConsistent
  <1>3. TypeOK'
    BY <1>1, <1>2, RegistryBoundsAssumption DEF TypeOK, EndpointIds, PortIds
  <1>4. ListenersKnow'
    BY <1>1 DEF ListenersKnow, Listening
  <1>5. PortsFollowEndpoint' /\ SeatsAreDistinct' /\ SeatIsOwn'
    BY <1>1, <1>2 DEF PortsFollowEndpoint, SeatsAreDistinct, SeatIsOwn,
                      EndpointIds, PortIds
  <1> QED
    BY <1>3, <1>4, <1>5 DEF IInv, RegistryIsConsistent

LEMMA InvUnchanged == ASSUME IInv, UNCHANGED vars PROVE IInv'
  <1>1. TypeOK' /\ SeatIsOwn'
    BY DEF IInv, RegistryIsConsistent, TypeOK, SeatIsOwn, vars, seatVars, deviceVars,
           EndpointIds, PortIds
  <1>2. PortsFollowEndpoint' /\ SeatsAreDistinct' /\ ListenersKnow'
    BY DEF IInv, RegistryIsConsistent, vars, seatVars, deviceVars, PortsFollowEndpoint,
           SeatsAreDistinct, ListenersKnow, Listening, EndpointIds, PortIds
  <1> QED
    BY <1>1, <1>2 DEF IInv, RegistryIsConsistent

LEMMA InvNext == IInv /\ [Next]_vars => IInv'
  <1> SUFFICES ASSUME IInv, [Next]_vars PROVE IInv'
    OBVIOUS
  <1>1. ASSUME NEW d \in Devices, Attach(d) PROVE IInv'
    BY <1>1, InvReattach, InvAttachNew, InvAttachRefused DEF Attach
  <1>2. ASSUME NEW d \in Devices, Detach(d) PROVE IInv'
    BY <1>2, InvDetach
  <1>3. CASE AttachPort
    <2>1. ASSUME NEW e \in EndpointIds, NEW direction \in Directions,
                 NEW index \in Indices, PortRefused(e, direction, index)
          PROVE  IInv'
      BY <2>1, InvUnchanged DEF PortRefused
    <2> QED
      BY <1>3, <2>1, InvReattachPort, InvAddPort DEF AttachPort
  <1>4. CASE EditGroups
    BY <1>4, InvGroups
  <1>5. ASSUME NEW l \in Listeners, AddListener(l) PROVE IInv'
    BY <1>5, InvAddListener
  <1>6. CASE ClearListeners
    BY <1>6, InvClearListeners
  <1>7. CASE UNCHANGED vars
    BY <1>7, InvUnchanged
  <1> QED
    BY <1>1, <1>2, <1>3, <1>4, <1>5, <1>6, <1>7 DEF Next

(* The tables, and what is told of them, agree after any calls: ports      *)
(* follow their endpoints, no two seats stand for one device or one port,  *)
(* and no listener is wrong about a port it was told of.                   *)
THEOREM RegistryStaysConsistent == Spec => []RegistryIsConsistent
  <1>1. IInv => RegistryIsConsistent
    BY DEF IInv
  <1> QED
    BY <1>1, InvInit, InvNext, PTL DEF Spec

(* The seat a device holds is its own, whatever was attached in between.   *)
THEOREM Invariant == Spec => []IInv
  BY InvInit, InvNext, PTL DEF Spec
-----------------------------------------------------------------------------
(* A step gives another seat to the device that attaches alone.            *)
LEMMA SeatChanges ==
    ASSUME [Next]_vars, TypeOK, NEW d \in Devices, seat'[d] # seat[d]
    PROVE  Reattach(d) \/ AttachNew(d) \/ AttachRefused(d)
  <1>1. ASSUME NEW f \in Devices, Attach(f) PROVE f = d
    <2>1. \E e : seat' = [seat EXCEPT ![f] = e]
      BY <1>1 DEF Attach, Reattach, AttachNew, AttachRefused
    <2> QED
      BY <2>1 DEF TypeOK
  <1>2. ASSUME NEW f \in Devices, Detach(f) PROVE FALSE
    BY <1>2 DEF Detach
  <1>3. CASE AttachPort
    BY <1>3 DEF AttachPort, ReattachPort, AddPort, PortRefused, vars, deviceVars
  <1>4. CASE EditGroups
    BY <1>4 DEF EditGroups, AddGroup, AddMember, RemoveMember, deviceVars
  <1>5. ASSUME NEW l \in Listeners, AddListener(l) PROVE FALSE
    BY <1>5 DEF AddListener, deviceVars
  <1>6. CASE ClearListeners
    BY <1>6 DEF ClearListeners, deviceVars
  <1>7. CASE UNCHANGED vars
    BY <1>7 DEF vars, deviceVars
  <1> QED
    BY <1>1, <1>2, <1>3, <1>4, <1>5, <1>6, <1>7 DEF Next, Attach

(* A seat held by another device is handed on only to a device that        *)
(* matches it.                                                             *)
LEMMA NotInherited ==
    ASSUME IInv, [Next]_vars, NEW d \in Devices, NEW f \in Devices \ {d},
           seat'[d] # Invalid, seat'[d] # seat[d], seat[f] = seat'[d]
    PROVE  Identifiable(Identity[d]) /\ Matches(Identity[f], Identity[d])
  <1>1. TypeOK /\ RegistryIsConsistent /\ SeatIsOwn
    BY DEF IInv, RegistryIsConsistent
  <1>2. CASE Reattach(d)
    <2>1. PICK e \in EndpointIds :
             /\ seat' = [seat EXCEPT ![d] = e]
             /\ Identifiable(Identity[d])
             /\ Matches(endpoints[e].identity, Identity[d])
      BY <1>1, <1>2, ReattachEffect
    <2>2. seat[f] = e
      BY <1>1, <2>1 DEF TypeOK
    <2>3. CASE endpoints[e].identity = Identity[f]
      BY <2>1, <2>3
    <2>4. CASE Matches(endpoints[e].identity, Identity[f])
      BY <2>1, <2>4, MatchesSymmetric, MatchesSame
    <2> QED
      BY <1>1, <2>2, <2>3, <2>4 DEF SeatIsOwn
  <1>3. CASE AttachNew(d)
    <2>1. seat'[d] = Len(endpoints) + 1 /\ seat[f] \in {Invalid} \cup EndpointIds
      BY <1>1, <1>3 DEF AttachNew, TypeOK
    <2>2. Len(endpoints) + 1 \notin EndpointIds
      BY <1>1, <1>3, AttachNewEffect
    <2> QED
      BY <2>1, <2>2
  <1>4. CASE AttachRefused(d)
    BY <1>1, <1>4 DEF AttachRefused, TypeOK
  <1> QED
    BY <1>1, <1>2, <1>3, <1>4, SeatChanges

(* The seat of a device, and the routing with it, passes to no device that *)
(* cannot be recognised or has another identity (attachEndpoint()).        *)
THEOREM NoSeatIsInherited == Spec => SeatIsNotInherited
  <1>1. IInv /\ [Next]_vars =>
           [\A d \in Devices :
              seat'[d] # Invalid /\ seat'[d] # seat[d] =>
                  \A f \in Devices \ {d} :
                      seat[f] = seat'[d] =>
                          /\ Identifiable(Identity[d])
                          /\ Matches(Identity[f], Identity[d])]_vars
    BY NotInherited
  <1> QED
    BY <1>1, Invariant, PTL DEF Spec, SeatIsNotInherited
-----------------------------------------------------------------------------
(* A device that can be recognised, once seated, keeps its seat.           *)
LEMMA KeepsItsSeat ==
    ASSUME IInv, [Next]_vars, NEW d \in Devices,
           Identifiable(Identity[d]), seat[d] # Invalid
    PROVE  seat'[d] = seat[d]
  <1> SUFFICES ASSUME seat'[d] # seat[d] PROVE FALSE
    OBVIOUS
  <1>1. TypeOK /\ RegistryIsConsistent /\ SeatsAreDistinct /\ SeatIsOwn
    BY DEF IInv, RegistryIsConsistent
  <1>2. seat[d] \in EndpointIds
    BY <1>1 DEF TypeOK
  <1>3. Matches(endpoints[seat[d]].identity, Identity[d])
    BY <1>1 DEF SeatIsOwn, Matches, Identifiable
  <1>4. seat[d] \in Found(Identity[d]) /\ Identity[d].transport # "unknown"
    BY <1>2, <1>3 DEF Found, Identifiable
  <1>5. CASE Reattach(d)
    BY <1>1, <1>4, <1>5, FoundIsOne DEF Reattach, TypeOK
  <1>6. CASE AttachNew(d) \/ AttachRefused(d)
    BY <1>4, <1>6 DEF AttachNew, AttachRefused
  <1> QED
    BY <1>1, <1>5, <1>6, SeatChanges

(* "Returns the device to the routing it had before" (attachEndpoint()).   *)
THEOREM SeatsAreKept == Spec => ReconnectsToItsSeat
  <1>1. IInv /\ [Next]_vars =>
           [\A d \in Devices :
              Identifiable(Identity[d]) /\ seat[d] # Invalid => seat'[d] = seat[d]]_vars
    BY KeepsItsSeat
  <1> QED
    BY <1>1, Invariant, PTL DEF Spec, ReconnectsToItsSeat
-----------------------------------------------------------------------------
(* No two devices say that they are the same one.                          *)
NoTwins ==
    \A d, f \in Devices :
        d # f /\ Identifiable(Identity[d]) => ~Matches(Identity[d], Identity[f])

(* Another device at a seat that matches d would be its twin.              *)
LEMMA SeatIsAlone ==
    ASSUME NoTwins, IInv, NEW d \in Devices, NEW f \in Devices \ {d},
           Identifiable(Identity[d]), seat[f] # Invalid,
           Matches(endpoints[seat[f]].identity, Identity[d])
    PROVE  FALSE
  <1>1. Matches(Identity[f], Identity[d])
    BY MatchesSymmetric, MatchesSame DEF IInv, SeatIsOwn
  <1> QED
    BY <1>1, MatchesSymmetric DEF NoTwins

(* setEndpointState() makes its own seat available or not, and no other.   *)
LEMMA NotSharedNext ==
    ASSUME NoTwins, IInv, SeatsAreNotShared, [Next]_vars
    PROVE  SeatsAreNotShared'
  <1>1. TypeOK /\ RegistryIsConsistent /\ PortsFollowEndpoint
    BY DEF IInv, RegistryIsConsistent
  <1>2. AvailableIsConnected
    BY DEF SeatsAreNotShared
  <1>3. ASSUME NEW d \in Devices, MayAttach(d), Reattach(d) PROVE SeatsAreNotShared'
    <2>1. PICK e \in EndpointIds :
             /\ SetEndpointState(e, "available")
             /\ seat' = [seat EXCEPT ![d] = e]
             /\ Identifiable(Identity[d])
             /\ Matches(endpoints[e].identity, Identity[d])
      BY <1>1, <1>3, ReattachEffect
    <2>2. /\ EndpointIds' = EndpointIds
          /\ \A f \in EndpointIds :
                endpoints'[f].state = IF f = e THEN "available" ELSE endpoints[f].state
      BY <1>1, <2>1, SetEndpointStateEffect DEF States, EndpointIds
    <2>3. \A f \in Devices \ {d} : seat[f] # e
      BY <2>1, SeatIsAlone DEF EndpointIds, Invalid
    <2>4. connected' = connected \cup {d}
      BY <1>3 DEF Reattach
    <2>5. seat'[d] = e /\ \A f \in Devices \ {d} : seat'[f] = seat[f]
      BY <1>1, <2>1 DEF TypeOK
    <2>6. d \in connected /\ seat[d] # Invalid => seat[d] = e
      BY <1>3, <2>1, <2>5, KeepsItsSeat
    <2>7. AvailableIsConnected'
      <3> SUFFICES ASSUME NEW g \in EndpointIds
                   PROVE  endpoints'[g].state = "available"
                              <=> \E f \in connected' : seat'[f] = g
        BY <2>2 DEF AvailableIsConnected
      <3>1. CASE g = e
        BY <2>2, <2>4, <2>5, <3>1
      <3>2. CASE g # e
        <4>1. endpoints'[g].state = endpoints[g].state /\ g # Invalid
          BY <2>2, <3>2 DEF EndpointIds, Invalid
        <4>2. \A f \in connected \cup {d} : seat'[f] = g => f # d /\ seat[f] = g
          BY <1>1, <2>5, <3>2 DEF TypeOK
        <4>3. \A f \in connected : seat[f] = g => f # d /\ seat'[f] = g
          BY <1>1, <2>5, <2>6, <3>2, <4>1 DEF TypeOK
        <4> QED
          BY <1>2, <2>4, <4>1, <4>2, <4>3 DEF AvailableIsConnected
      <3> QED
        BY <3>1, <3>2
    <2> QED
      BY <1>1, <2>3, <2>4, <2>5, <2>7 DEF SeatsAreNotShared, TypeOK
  <1>4. ASSUME NEW d \in Devices, MayAttach(d), AttachNew(d) PROVE SeatsAreNotShared'
    <2> DEFINE new == Len(endpoints) + 1
    <2>1. /\ \A e \in EndpointIds : endpoints'[e] = endpoints[e]
          /\ EndpointIds' = EndpointIds \cup {new} /\ new \notin EndpointIds
      BY <1>1, <1>4, AttachNewEffect
    <2>2. endpoints'[new].state = "available"
      <3>1. endpoints'[new] = [identity |-> Identity[d], state |-> "available"]
        BY <1>1, <1>4, AttachNewEffect
      <3> QED
        BY <3>1
    <2>3. /\ connected' = connected \cup {d} /\ seat'[d] = new
          /\ \A f \in Devices \ {d} : seat'[f] = seat[f]
      BY <1>1, <1>4 DEF AttachNew, TypeOK
    <2>4. \A f \in Devices : seat[f] # new
      <3>1. new # Invalid
        BY <1>1 DEF TypeOK, Invalid
      <3> QED
        BY <1>1, <2>1, <3>1 DEF TypeOK
    <2>5. d \in connected => seat[d] = Invalid
      BY <1>4, <2>3, <2>4, KeepsItsSeat
         DEF MayAttach, Identifiable, AttachNew
    <2>6. AvailableIsConnected'
      <3> SUFFICES ASSUME NEW g \in EndpointIds'
                   PROVE  endpoints'[g].state = "available"
                              <=> \E f \in connected' : seat'[f] = g
        BY DEF AvailableIsConnected
      <3>1. CASE g = new
        BY <2>2, <2>3, <3>1
      <3>2. CASE g \in EndpointIds
        <4>1. endpoints'[g].state = endpoints[g].state /\ g # new /\ g # Invalid
          BY <2>1, <3>2 DEF EndpointIds, Invalid
        <4> QED
          BY <1>1, <1>2, <2>3, <2>5, <3>2, <4>1 DEF AvailableIsConnected, TypeOK
      <3> QED
        BY <2>1, <3>1, <3>2
    <2> QED
      BY <1>1, <2>3, <2>4, <2>6 DEF SeatsAreNotShared, TypeOK
  <1>5. ASSUME NEW d \in Devices, MayAttach(d), AttachRefused(d) PROVE SeatsAreNotShared'
    <2>1. /\ connected' = connected \cup {d} /\ seat'[d] = Invalid
          /\ UNCHANGED <<endpoints, ports>>
          /\ \A f \in Devices \ {d} : seat'[f] = seat[f]
      BY <1>1, <1>5 DEF AttachRefused, TypeOK, seatVars
    <2>2. d \in connected => seat[d] = Invalid
      BY <1>5, <2>1, KeepsItsSeat DEF MayAttach, Identifiable, IsStatic, Static
    <2>3. \A g \in EndpointIds :
             (\E f \in connected' : seat'[f] = g) <=> (\E f \in connected : seat[f] = g)
      <3> SUFFICES ASSUME NEW g \in EndpointIds
                   PROVE  (\E f \in connected' : seat'[f] = g)
                              <=> (\E f \in connected : seat[f] = g)
        OBVIOUS
      <3>1. g # Invalid /\ connected \subseteq Devices
        BY <1>1 DEF TypeOK, EndpointIds, Invalid
      <3>2. seat'[d] # g /\ (d \in connected => seat[d] # g)
        BY <2>1, <2>2, <3>1
      <3>3. \A f \in connected \ {d} : seat'[f] = seat[f]
        BY <2>1, <3>1
      <3> QED
        BY <2>1, <3>2, <3>3
    <2>4. AvailableIsConnected'
      BY <1>2, <2>1, <2>3 DEF AvailableIsConnected, EndpointIds
    <2> QED
      BY <1>1, <2>1, <2>4 DEF SeatsAreNotShared, TypeOK
  <1>6. ASSUME NEW d \in Devices, Detach(d) PROVE SeatsAreNotShared'
    <2>1. connected' = connected \ {d} /\ UNCHANGED seat /\ d \in connected
      BY <1>6 DEF Detach
    <2>2. AvailableIsConnected'
      <3>1. CASE seat[d] = Invalid
        BY <1>1, <1>2, <1>6, <2>1, <3>1
           DEF Detach, AvailableIsConnected, EndpointIds, Invalid, seatVars
      <3>2. CASE seat[d] # Invalid
        <4>1. seat[d] \in EndpointIds /\ SetEndpointState(seat[d], "disconnected")
          BY <1>1, <1>6, <3>2 DEF Detach, TypeOK
        <4>2. /\ EndpointIds' = EndpointIds
              /\ \A g \in EndpointIds : endpoints'[g].state =
                     IF g = seat[d] THEN "disconnected" ELSE endpoints[g].state
          BY <1>1, <4>1, SetEndpointStateEffect DEF States, EndpointIds
        <4>3. \A f \in connected \ {d} : seat[f] # seat[d]
          BY <2>1, <3>2 DEF SeatsAreNotShared
        <4>4. ASSUME NEW g \in EndpointIds
              PROVE  endpoints'[g].state = "available"
                         <=> \E f \in connected \ {d} : seat[f] = g
          BY <1>2, <4>2, <4>3 DEF AvailableIsConnected
        <4> QED
          BY <2>1, <4>2, <4>4 DEF AvailableIsConnected
      <3> QED
        BY <3>1, <3>2
    <2> QED
      BY <2>1, <2>2 DEF SeatsAreNotShared
  <1>7. ASSUME UNCHANGED <<endpoints, seat, connected>> PROVE SeatsAreNotShared'
    BY <1>7 DEF SeatsAreNotShared, AvailableIsConnected, EndpointIds
  <1>8. CASE AttachPort
    BY <1>7, <1>8 DEF AttachPort, ReattachPort, AddPort, PortRefused, vars, seatVars,
                      deviceVars
  <1>9. CASE EditGroups
    BY <1>7, <1>9 DEF EditGroups, AddGroup, AddMember, RemoveMember, seatVars, deviceVars
  <1>10. ASSUME NEW l \in Listeners, AddListener(l) PROVE SeatsAreNotShared'
    BY <1>7, <1>10 DEF AddListener, deviceVars
  <1>11. CASE ClearListeners \/ UNCHANGED vars
    BY <1>7, <1>11 DEF ClearListeners, vars, seatVars, deviceVars
  <1> QED
    BY <1>3, <1>4, <1>5, <1>6, <1>8, <1>9, <1>10, <1>11 DEF Next, Attach

(* Devices that can be told apart never share a seat, and a seat is        *)
(* available exactly while its device is there ("two seats rather than     *)
(* fighting over one", EndpointIdentity).                                  *)
THEOREM NoSeatIsShared == NoTwins => (Spec => []SeatsAreNotShared)
  <1> SUFFICES ASSUME NoTwins PROVE Spec => []SeatsAreNotShared
    OBVIOUS
  <1>1. Init => SeatsAreNotShared
    BY DEF Init, SeatsAreNotShared, AvailableIsConnected, EndpointIds
  <1>2. IInv /\ SeatsAreNotShared /\ [Next]_vars => SeatsAreNotShared'
    BY NotSharedNext
  <1> QED
    BY <1>1, <1>2, Invariant, PTL DEF Spec
=============================================================================
