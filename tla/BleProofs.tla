------------------------------ MODULE BleProofs ------------------------------
(***************************************************************************)
(* Proofs about BleHost for any devices, identifiers, connections, slots,  *)
(* messages and any size of the ring of events, and about the sending half *)
(* it shares with BleDevice, for that port too.                            *)
(*                                                                         *)
(* BleInv holds whatever gets lost.  It is about what the other task may   *)
(* read at any moment: a pair is published only for a seat, and a seat     *)
(* whose connection is ready is of the device behind that connection.  The *)
(* second half rests on StaleInv: an identifier that is used again gets no *)
(* seat before the end of its last connection is out of the ring.          *)
(*                                                                         *)
(* NothingLost is about what drainEvents() will make of the ring as long   *)
(* as no event was dropped: connections and ends come by turns (ByTurns),  *)
(* so seats and connections agree once they have all been applied          *)
(* (OfItsDevice), and so does what is available (AvailableInv).            *)
(*                                                                         *)
(* WholeInv is about the dumps: a slot holds what the history of its       *)
(* device has of the dump in progress (Collected), and that device heard   *)
(* what the history promises.                                              *)
(***************************************************************************)
EXTENDS BleHost, SequenceLemmas, FiniteSetTheorems

Buffers ==
    {b \in [bytes : Seq(Bytes), open : BOOLEAN, overflowed : BOOLEAN] :
        Len(b.bytes) <= Capacity}
SlotStates ==
    [used : BOOLEAN, discovering : BOOLEAN, seated : BOOLEAN, id : Ids \cup {Nobody},
     device : Devices \cup {Nobody}, inPort : Devices \cup {Nobody}, sysEx : Buffers]
ConnectionEvents == [kind : {"connected", "disconnected"}, id : Ids]

StackTypes ==
    /\ link \in [Ids -> Devices \cup {Nobody}]
    /\ searching \in SUBSET Ids /\ found \in SUBSET Ids
    /\ listeners \in Nat /\ events \in Seq(ConnectionEvents) /\ Len(events) <= RingSize
    /\ lost \in BOOLEAN

AdapterTypes ==
    /\ slots \in [Slots -> SlotStates]
    /\ ids \in [Slots -> Ids \cup {Nobody}] /\ ports \in [Slots -> Devices \cup {Nobody}]
    /\ cursor \in 1 .. NumSlots + 1 /\ limit \in 0..Len(events)
    /\ pc \in {"idle", "drain", "release", "slots", "seat", "publish", "ending", "releaseAll"}
    /\ \A d \in DOMAIN sinks : sinks[d] \in Slots

Types == StackTypes /\ AdapterTypes

(* Only a connection is searched; no device has two.                       *)
LinkInv ==
    /\ \A i \in searching : i \notin found
    /\ \A i \in searching \cup found : link[i] # Nobody
    /\ \A i, j \in Ids : link[i] # Nobody /\ link[i] = link[j] => i = j

(* Where update() is.                                                      *)
PlaceInv ==
    /\ pc \in {"seat", "publish", "release", "releaseAll"} =>
           cursor \in Slots /\ slots[cursor].used /\ ids[cursor] = Nobody
    /\ pc = "seat" => /\ slots[cursor].discovering /\ ~slots[cursor].seated
                      /\ slots[cursor].id \notin searching
    /\ pc = "publish" => slots[cursor].seated
    /\ pc = "release" => /\ limit > 0 /\ events[1].kind = "disconnected"
                         /\ events[1].id = slots[cursor].id

SlotInv ==
    /\ \A s \in Slots : slots[s].used => slots[s].id \in Ids
    /\ \A s \in Slots : slots[s].seated => slots[s].used /\ slots[s].discovering
    /\ \A s \in Slots : slots[s].used /\ ~slots[s].seated => slots[s].device = Nobody
    /\ \A s, t \in Slots : slots[s].used /\ slots[t].used /\ slots[s].id = slots[t].id => s = t

(* What is published, and by which slot.                                   *)
InTransit(s) == pc \in {"publish", "release", "releaseAll"} /\ cursor = s
PublishedInv ==
    \A s \in Slots :
        /\ ids[s] # Nobody => Open(s) /\ ids[s] = slots[s].id
        /\ Open(s) /\ ~InTransit(s) => ids[s] = slots[s].id
        /\ ports[s] = (IF Open(s) THEN slots[s].inPort ELSE Nobody)
        /\ Open(s) => slots[s].inPort \in {slots[s].device, Nobody}

(* A connection that is ready is the one its slot was seated for.          *)
SeatedInv ==
    \A s \in Slots : Open(s) =>
        /\ slots[s].id \notin searching
        /\ slots[s].id \in found => slots[s].device = link[slots[s].id]

(* The end of a connection that is still in the ring when the next one     *)
(* with the same identifier is searched is out of it before that gets a    *)
(* seat.                                                                   *)
StaleInv ==
    \A k \in 1..Len(events), s \in Slots :
        /\ events[k].kind = "disconnected" /\ events[k].id = slots[s].id
        /\ slots[s].used /\ slots[s].discovering /\ slots[s].id \in searching \cup found
        => /\ ~slots[s].seated
           /\ pc \in {"slots", "seat", "publish"} => s < cursor
           /\ pc \in {"drain", "release"} => k <= limit

InboundInv ==
    Quiet \/
        /\ inbound \in [at : 1 .. NumSlots + NumSlots, id : found, from : Devices,
                        seat : 0..NumSlots, ended : BOOLEAN]
        /\ inbound.from = link[inbound.id]
        /\ inbound.seat # 0 =>
               /\ ids[inbound.seat] = inbound.id /\ ports[inbound.seat] # Nobody
               /\ inbound.at <= inbound.seat \/ inbound.at = NumSlots + inbound.seat
        /\ Reading /\ ~inbound.ended => ids[inbound.at - NumSlots] = inbound.id

BleInv ==
    Types /\ LinkInv /\ PlaceInv /\ SlotInv /\ PublishedInv /\ SeatedInv /\ StaleInv /\ InboundInv
-----------------------------------------------------------------------------
(* As long as nothing is lost, the ring has the connections and the ends   *)
(* of every identifier by turns, between what the slots and what the links *)
(* say.                                                                    *)
IsFirst(k) == \A m \in 1 .. k - 1 : events[m].id # events[k].id
IsLast(k) == \A m \in k + 1 .. Len(events) : events[m].id # events[k].id
Pending(i) == \E k \in 1..Len(events) : events[k].id = i

ByTurns ==
    /\ \A k, l \in 1..Len(events) :
           /\ k < l /\ events[k].id = events[l].id
           /\ \A m \in k + 1 .. l - 1 : events[m].id # events[k].id
           => events[k].kind # events[l].kind
    /\ \A i \in Ids, k \in 1..Len(events) :
           /\ events[k].id = i /\ IsFirst(k) =>
                  (events[k].kind = "connected" <=> SlotsOf(i) = {})
           /\ events[k].id = i /\ IsLast(k) =>
                  (events[k].kind = "connected" <=> link[i] # Nobody)
    /\ \A i \in Ids : ~Pending(i) => (SlotsOf(i) # {} <=> link[i] # Nobody)

(* A seat is of the device behind its connection, or that connection has   *)
(* ended; and a device that is back is back behind that end.               *)
OfItsDevice ==
    \A s \in Slots, i \in Ids : Open(s) /\ slots[s].id = i =>
        /\ ~Pending(i) => slots[s].device = link[i]
        /\ \A k \in 1..Len(events), j \in Ids :
               /\ events[k].id = i /\ IsFirst(k)
               /\ link[j] # Nobody /\ link[j] = slots[s].device
               => \E l \in k + 1 .. Len(events) : events[l] = [kind |-> "connected", id |-> j]

Doomed(s) ==
    \E k \in 1..limit : events[k] = [kind |-> "disconnected", id |-> slots[s].id]
OpenSlots == {s \in Slots : Open(s)}

(* Seats that share a device, or are of none, all end before the next one  *)
(* is made.                                                                *)
AvailableInv ==
    /\ available \subseteq {slots[s].device : s \in OpenSlots}
    /\ \A s \in OpenSlots :
           slots[s].device \in available \/ (pc \in {"drain", "release"} /\ Doomed(s))
    /\ pc \in {"drain", "release"} =>
           /\ \A s, t \in OpenSlots : s # t /\ slots[s].device = slots[t].device => Doomed(s)
           /\ \A s \in OpenSlots : slots[s].device = Nobody => Doomed(s)

Undisturbed == started /\ listeners = 1 /\ pc \notin {"ending", "releaseAll"}

NothingLost == ~lost => Undisturbed /\ ByTurns /\ OfItsDevice /\ AvailableInv
-----------------------------------------------------------------------------
(* Numbers and sequences.                                                  *)
LEMMA LeastExists ==
    ASSUME NEW T \in SUBSET Nat, T # {}
    PROVE  \E x \in T : \A y \in T : x <= y
  <1> DEFINE R == OpToRel(<, Nat)
  <1>1. \E x \in T : \A y \in T : ~(<<y, x>> \in R)
    <2>1. IsWellFoundedOn(R, Nat)
      BY NatLessThanWellFounded, Zenon
    <2> HIDE DEF R
    <2> QED
      BY <2>1, WFMin, Zenon
  <1>2. \A x, y \in Nat : y < x => <<y, x>> \in R
    BY Zenon DEF OpToRel
  <1> HIDE DEF R
  <1>3. PICK x \in T : \A y \in T : ~(<<y, x>> \in R)
    BY <1>1
  <1>4. \A y \in T : ~(y < x) /\ y \in Nat /\ x \in Nat
    BY <1>2, <1>3
  <1> QED
    BY <1>4

LEMMA LowestIs ==
    ASSUME NEW T \in SUBSET Slots, T # {}
    PROVE  Lowest(T) \in T
  <1>1. T \in SUBSET Nat
    BY BleHostAssumption DEF Slots
  <1>2. \E x \in T : \A y \in T : x <= y
    BY <1>1, LeastExists
  <1> QED
    BY <1>2 DEF Lowest

LEMMA UpToIs ==
    ASSUME NEW S, NEW seq \in Seq(S), NEW n \in Nat
    PROVE  /\ UpTo(n, seq) \in Seq(S)
           /\ Len(UpTo(n, seq)) <= n /\ Len(UpTo(n, seq)) <= Len(seq)
           /\ Len(UpTo(n, seq)) \in Nat
           /\ \A k \in 1..Len(UpTo(n, seq)) : UpTo(n, seq)[k] = seq[k]
           /\ Len(seq) <= n => Len(UpTo(n, seq)) = Len(seq)
           /\ Len(seq) > n => Len(UpTo(n, seq)) = n
  <1> DEFINE l == Len(seq)
             least == Min({n, l})
  <1>1. l \in Nat /\ \A j \in 1..l : seq[j] \in S
    BY LenProperties, ElementOfSeq
  <1>2. least \in {n, l} /\ least <= n /\ least <= l
    <2>1. \E x \in {n, l} : \A y \in {n, l} : x <= y
      BY <1>1
    <2> QED
      BY <2>1 DEF Min
  <1> HIDE DEF l, least
  <1>3. least \in Nat /\ \A j \in 1..least : seq[j] \in S
    BY <1>1, <1>2
  <1>4. /\ SubSeq(seq, 1, least) \in Seq(S) /\ Len(SubSeq(seq, 1, least)) = least
        /\ \A k \in 1..least : SubSeq(seq, 1, least)[k] = seq[k]
    BY <1>3, SubSeqProperties
  <1>5. UpTo(n, seq) = SubSeq(seq, 1, least)
    BY DEF UpTo, least, l
  <1> QED
    BY <1>1, <1>2, <1>3, <1>4, <1>5 DEF l

(* The buffer of a sink never holds more than it has room for.             *)
LEMMA BufferType ==
    ASSUME NEW b \in Buffers, NEW m \in MidiMessages
    PROVE  BufferAfter(b, m) \in Buffers
  <1>1. NewBuffer \in Buffers /\ Capacity \in Nat
    BY EmptySeq, CapacityAssumption DEF NewBuffer, Buffers
  <1>2. Opened(b, m) \in Buffers
    <2>1. NewBuffer \in [bytes : {<< >>}, open : BOOLEAN, overflowed : BOOLEAN]
      BY DEF NewBuffer
    <2>2. [NewBuffer EXCEPT !.open = TRUE] \in
              [bytes : {<< >>}, open : BOOLEAN, overflowed : BOOLEAN]
      BY <2>1
    <2>3. << >> \in Seq(Bytes) /\ Len(<< >>) <= Capacity
      BY EmptySeq, CapacityAssumption
    <2>4. [NewBuffer EXCEPT !.open = TRUE] \in Buffers
      BY <2>2, <2>3 DEF Buffers
    <2> QED
      BY <2>4 DEF Opened
  <1>3. Line(m) \in Seq(Bytes)
    <2>1. /\ m.data \in Seq(Bytes) /\ <<SysExStart>> \in Seq(Bytes)
          /\ <<SysExEnd>> \in Seq(Bytes) /\ << >> \in Seq(Bytes)
      BY EmptySeq DEF MidiMessages, SysExStart, SysExEnd, Bytes
    <2> QED
      BY <2>1, ConcatProperties DEF Line
  <1>4. ASSUME NEW c \in Buffers, NEW line \in Seq(Bytes), NEW o \in BOOLEAN
        PROVE  [Pushed(c, line) EXCEPT !.open = o] \in Buffers
    <2>1. c.bytes \in Seq(Bytes) /\ c.bytes \o line \in Seq(Bytes)
      BY ConcatProperties DEF Buffers
    <2>2. UpTo(Capacity, c.bytes \o line) \in Seq(Bytes)
          /\ Len(UpTo(Capacity, c.bytes \o line)) <= Capacity
      BY <1>1, <2>1, UpToIs
    <2>3. c \in [bytes : Seq(Bytes), open : BOOLEAN, overflowed : BOOLEAN]
      BY DEF Buffers
    <2> DEFINE over == c.overflowed \/ Len(c.bytes) + Len(line) > Capacity
               kept == UpTo(Capacity, c.bytes \o line)
    <2>4. Pushed(c, line) = [c EXCEPT !.bytes = kept, !.overflowed = over]
      BY DEF Pushed
    <2>5. over \in BOOLEAN
      BY <2>3
    <2> HIDE DEF over, kept
    <2>6. [Pushed(c, line) EXCEPT !.open = o] \in
              [bytes : {kept}, open : BOOLEAN, overflowed : BOOLEAN]
      BY <2>3, <2>4, <2>5
    <2> QED
      BY <2>2, <2>6 DEF Buffers, kept
  <1>5. Added(b, m) \in Buffers
    <2>1. (~m.end) \in BOOLEAN
      BY DEF MidiMessages
    <2> QED
      BY <1>2, <1>3, <1>4, <2>1 DEF Added
  <1> QED
    BY <1>1, <1>5 DEF BufferAfter

(* record() leaves what is in the ring where it is.                        *)
LEMMA RecordIs ==
    ASSUME Types, NEW kind \in {"connected", "disconnected"}, NEW i \in Ids, Record(kind, i)
    PROVE  /\ events' \in Seq(ConnectionEvents) /\ Len(events') <= RingSize
           /\ Len(events) \in Nat /\ Len(events') \in Nat /\ Len(events) <= Len(events')
           /\ lost' \in BOOLEAN
           /\ \A k \in 1..Len(events) : events'[k] = events[k]
           /\ \A k \in Len(events) + 1 .. Len(events') :
                  events'[k] = [kind |-> kind, id |-> i]
           /\ ~lost' => ~lost
           /\ ~lost' /\ listeners = 1 => Len(events') = Len(events) + 1
  <1> DEFINE e == [kind |-> kind, id |-> i]
             new == [n \in 1..listeners |-> e]
             all == events \o new
  <1>1. /\ events \in Seq(ConnectionEvents) /\ Len(events) \in Nat
        /\ Len(events) <= RingSize /\ RingSize \in Nat /\ listeners \in Nat
        /\ lost \in BOOLEAN
    BY BleHostAssumption, LenProperties DEF Types, StackTypes
  <1>2. e \in ConnectionEvents
    BY DEF ConnectionEvents
  <1> HIDE DEF e
  <1>3. new \in Seq(ConnectionEvents) /\ Len(new) = listeners
        /\ \A n \in 1..listeners : new[n] = e
    BY <1>1, <1>2
  <1> HIDE DEF new
  <1>4. /\ all \in Seq(ConnectionEvents) /\ Len(all) = Len(events) + listeners
        /\ \A k \in 1..Len(events) : all[k] = events[k]
        /\ \A n \in 1..listeners : all[Len(events) + n] = new[n]
    <2>1. /\ all \in Seq(ConnectionEvents) /\ Len(all) = Len(events) + Len(new)
          /\ \A k \in 1 .. Len(events) + Len(new) :
                 all[k] = IF k <= Len(events) THEN events[k] ELSE new[k - Len(events)]
      BY <1>1, <1>3, ConcatProperties
    <2> HIDE DEF all
    <2>2. \A k \in 1..Len(events) : k \in 1 .. Len(events) + Len(new) /\ k <= Len(events)
      BY <1>1, <1>3
    <2>3. \A n \in 1..listeners :
              /\ Len(events) + n \in 1 .. Len(events) + Len(new)
              /\ ~(Len(events) + n <= Len(events)) /\ (Len(events) + n) - Len(events) = n
      BY <1>1, <1>3
    <2> QED
      BY <1>3, <2>1, <2>2, <2>3
  <1>5. events' = UpTo(RingSize, all) /\ lost' = (lost \/ Len(all) > RingSize)
    BY DEF Record, new, e
  <1> HIDE DEF all
  <1>6. /\ events' \in Seq(ConnectionEvents) /\ Len(events') <= RingSize
        /\ Len(events') \in Nat /\ Len(events') <= Len(all)
        /\ \A k \in 1..Len(events') : events'[k] = all[k]
        /\ Len(all) <= RingSize => Len(events') = Len(all)
        /\ Len(all) > RingSize => Len(events') = RingSize
    BY <1>1, <1>4, <1>5, UpToIs
  <1>7. Len(events) <= Len(events')
    BY <1>1, <1>4, <1>6
  <1>8. \A k \in 1..Len(events) : events'[k] = events[k]
    BY <1>1, <1>4, <1>6, <1>7
  <1>9. ASSUME NEW k \in Len(events) + 1 .. Len(events')
        PROVE  events'[k] = e
    <2>1. k \in 1..Len(events') /\ k - Len(events) \in 1..listeners
      BY <1>1, <1>4, <1>6
    <2>2. all[Len(events) + (k - Len(events))] = e
      BY <1>3, <1>4, <2>1
    <2>3. Len(events) + (k - Len(events)) = k
      BY <1>1
    <2> QED
      BY <1>6, <2>1, <2>2, <2>3
  <1>10. /\ ~lost' => ~lost
         /\ ~lost' /\ listeners = 1 => Len(events') = Len(events) + 1
    <2>1. ~lost' => ~lost /\ ~(Len(all) > RingSize)
      BY <1>5, Zenon
    <2>2. ~(Len(all) > RingSize) => Len(events') = Len(events) + listeners
      BY <1>1, <1>4, <1>6
    <2> QED
      BY <2>1, <2>2
  <1>11. lost' \in BOOLEAN
    BY <1>5, Zenon
  <1> QED
    BY <1>1, <1>6, <1>7, <1>8, <1>9, <1>10, <1>11 DEF e

(* apply() takes the first event.                                          *)
LEMMA PopIs ==
    ASSUME Types, limit > 0, Pop
    PROVE  /\ Len(events) \in Nat /\ Len(events) >= 1
           /\ events' \in Seq(ConnectionEvents) /\ Len(events') = Len(events) - 1
           /\ \A k \in 1..Len(events') : events'[k] = events[k + 1]
           /\ Head(events) = events[1] /\ events[1] \in ConnectionEvents
           /\ limit' = limit - 1 /\ limit' \in 0..Len(events') /\ Len(events') <= RingSize
  <1>1. /\ events \in Seq(ConnectionEvents) /\ Len(events) \in Nat /\ limit \in 1..Len(events)
        /\ Len(events) <= RingSize /\ RingSize \in Nat
    BY BleHostAssumption, LenProperties DEF Types, StackTypes, AdapterTypes
  <1>2. events # << >>
    BY <1>1, EmptySeq
  <1>3. /\ Tail(events) \in Seq(ConnectionEvents) /\ Len(Tail(events)) = Len(events) - 1
        /\ \A k \in 1..Len(Tail(events)) : Tail(events)[k] = events[k + 1]
        /\ Head(events) = events[1] /\ events[1] \in ConnectionEvents
    BY <1>1, <1>2, HeadTailProperties
  <1> QED
    BY <1>1, <1>3 DEF Pop

LEMMA FirstExists ==
    ASSUME Types, NEW k \in 1..Len(events)
    PROVE  \E f \in 1..k : events[f].id = events[k].id /\ IsFirst(f)
  <1> DEFINE T == {n \in 1..k : events[n].id = events[k].id}
  <1>1. Len(events) \in Nat /\ k \in Nat
    BY LenProperties DEF Types, StackTypes
  <1>2. T \in SUBSET Nat /\ T # {}
    BY <1>1
  <1>3. PICK f \in T : \A n \in T : f <= n
    <2> HIDE DEF T
    <2> QED
      BY <1>2, LeastExists
  <1>4. \A m \in 1 .. f - 1 : m \in 1..k /\ m \notin T
    BY <1>1, <1>3
  <1> QED
    BY <1>3, <1>4 DEF IsFirst

LEMMA LastExists ==
    ASSUME Types, NEW k \in 1..Len(events)
    PROVE  \E l \in k..Len(events) : events[l].id = events[k].id /\ IsLast(l)
  <1> DEFINE n == Len(events)
             T == {d \in 0 .. n - k : events[n - d].id = events[k].id}
  <1>1. n \in Nat /\ k \in 1..n
    BY LenProperties DEF Types, StackTypes
  <1> HIDE DEF n
  <1>2. n - k \in T
    <2>1. n - k \in 0 .. n - k /\ n - (n - k) = k
      BY <1>1
    <2> QED
      BY <2>1
  <1>3. T \in SUBSET Nat /\ T # {} /\ \A x \in T : x \in 0 .. n - k
    <2>1. \A x \in T : x \in 0 .. n - k
      OBVIOUS
    <2> HIDE DEF T
    <2> QED
      BY <1>1, <1>2, <2>1
  <1>4. PICK d \in T : \A x \in T : d <= x
    <2> HIDE DEF T
    <2> QED
      BY <1>3, LeastExists
  <1>5. n - d \in k..n /\ events[n - d].id = events[k].id
    BY <1>1, <1>3, <1>4
  <1>6. ASSUME NEW m \in (n - d) + 1 .. n PROVE events[m].id # events[k].id
    <2>1. n - m \in 0 .. n - k /\ ~(d <= n - m) /\ n - (n - m) = m
      BY <1>1, <1>3, <1>4, <1>5
    <2>2. n - m \notin T
      <3> HIDE DEF T
      <3> QED
        BY <1>4, <2>1
    <2> QED
      BY <2>1, <2>2
  <1> QED
    BY <1>5, <1>6 DEF IsLast, n
-----------------------------------------------------------------------------
SlotsAlike ==
    /\ slots' \in [Slots -> SlotStates]
    /\ \A s \in Slots :
           /\ slots'[s].used = slots[s].used /\ slots'[s].discovering = slots[s].discovering
           /\ slots'[s].seated = slots[s].seated /\ slots'[s].id = slots[s].id
           /\ slots'[s].device = slots[s].device /\ slots'[s].inPort = slots[s].inPort

(* The same slots with the same seats.                                     *)
SeatsAlike ==
    \A s \in Slots :
        /\ slots'[s].used = slots[s].used /\ slots'[s].seated = slots[s].seated
        /\ slots'[s].id = slots[s].id /\ slots'[s].device = slots[s].device
        /\ slots'[s].inPort = slots[s].inPort

LEMMA UnusedIs ==
    /\ Unused \in SlotStates /\ ~Unused.used /\ ~Unused.discovering /\ ~Unused.seated
    /\ Unused.id = Nobody /\ Unused.device = Nobody /\ Unused.inPort = Nobody
  <1>1. << >> \in Seq(Bytes) /\ Len(<< >>) <= Capacity
    BY EmptySeq, CapacityAssumption
  <1>2. NewBuffer \in Buffers
    BY <1>1 DEF NewBuffer, Buffers
  <1> QED
    BY <1>2 DEF Unused, SlotStates

LEMMA SlotIs ==
    ASSUME Types, NEW s \in Slots
    PROVE  /\ slots[s] \in SlotStates
           /\ slots[s].used \in BOOLEAN /\ slots[s].discovering \in BOOLEAN
           /\ slots[s].seated \in BOOLEAN /\ slots[s].id \in Ids \cup {Nobody}
           /\ slots[s].device \in Devices \cup {Nobody}
           /\ slots[s].inPort \in Devices \cup {Nobody} /\ slots[s].sysEx \in Buffers
  BY DEF Types, AdapterTypes, SlotStates

LEMMA SeatsAlikeIs ==
    ASSUME SeatsAlike
    PROVE  /\ \A s \in Slots : Open(s)' <=> Open(s)
           /\ \A i : SlotsOf(i)' = SlotsOf(i)
           /\ OpenSlots' = OpenSlots /\ \A s \in OpenSlots : s \in Slots
  <1>1. \A s \in Slots : Open(s)' <=> Open(s)
    BY DEF SeatsAlike, Open
  <1>2. \A i : SlotsOf(i)' = SlotsOf(i)
    BY DEF SeatsAlike, SlotsOf
  <1> QED
    BY <1>1, <1>2 DEF OpenSlots

LEMMA AlikeIs ==
    ASSUME SlotsAlike
    PROVE  /\ \A s \in Slots : Open(s)' <=> Open(s)
           /\ \A i : SlotsOf(i)' = SlotsOf(i)
           /\ OpenSlots' = OpenSlots /\ \A s \in OpenSlots : s \in Slots
  <1>1. SeatsAlike
    BY DEF SlotsAlike, SeatsAlike
  <1> QED
    BY <1>1, SeatsAlikeIs

LEMMA AlikeKeeps ==
    ASSUME BleInv, SlotsAlike, UNCHANGED <<link, searching, found>>
    PROVE  LinkInv' /\ SlotInv' /\ SeatedInv'
  <1>1. \A s \in Slots : Open(s)' <=> Open(s)
    BY AlikeIs
  <1>2. LinkInv'
    BY DEF BleInv, LinkInv
  <1>3. SlotInv'
    BY DEF BleInv, SlotInv, SlotsAlike
  <1>4. SeatedInv'
    BY <1>1 DEF BleInv, SeatedInv, SlotsAlike
  <1> QED
    BY <1>2, <1>3, <1>4

LEMMA SeatsTrace ==
    ASSUME SeatsAlike, ByTurns, OfItsDevice, UNCHANGED <<link, events>>
    PROVE  ByTurns' /\ OfItsDevice'
  <1>1. \A s \in Slots : Open(s)' <=> Open(s)
    BY SeatsAlikeIs
  <1>2. \A i : SlotsOf(i)' = SlotsOf(i)
    BY SeatsAlikeIs
  <1>3. \A k : (IsFirst(k)' <=> IsFirst(k)) /\ (IsLast(k)' <=> IsLast(k))
    BY DEF IsFirst, IsLast
  <1>4. \A i : Pending(i)' <=> Pending(i)
    BY DEF Pending
  <1>5. ByTurns'
    <2>1. \A i \in Ids, k \in 1..Len(events') :
              /\ events'[k].id = i /\ IsFirst(k)' =>
                     (events'[k].kind = "connected" <=> SlotsOf(i)' = {})
              /\ events'[k].id = i /\ IsLast(k)' =>
                     (events'[k].kind = "connected" <=> link'[i] # Nobody)
      BY <1>2, <1>3 DEF ByTurns
    <2>2. \A i \in Ids : ~Pending(i)' => (SlotsOf(i)' # {} <=> link'[i] # Nobody)
      BY <1>2, <1>4 DEF ByTurns
    <2> QED
      BY <2>1, <2>2 DEF ByTurns
  <1>6. OfItsDevice'
    <2> SUFFICES ASSUME NEW s \in Slots, NEW i \in Ids, Open(s), slots[s].id = i
                 PROVE  /\ ~Pending(i)' => slots'[s].device = link'[i]
                        /\ \A k \in 1..Len(events'), j \in Ids :
                               /\ events'[k].id = i /\ IsFirst(k)'
                               /\ link'[j] # Nobody /\ link'[j] = slots'[s].device
                               => \E l \in k + 1 .. Len(events') :
                                      events'[l] = [kind |-> "connected", id |-> j]
      BY <1>1 DEF OfItsDevice, SeatsAlike
    <2>1. slots'[s].device = slots[s].device
      BY DEF SeatsAlike
    <2> QED
      BY <1>3, <1>4, <2>1 DEF OfItsDevice
  <1> QED
    BY <1>5, <1>6

LEMMA AlikeTrace ==
    ASSUME SlotsAlike, ByTurns, OfItsDevice, UNCHANGED <<link, events>>
    PROVE  ByTurns' /\ OfItsDevice'
  <1>1. SeatsAlike
    BY DEF SlotsAlike, SeatsAlike
  <1> QED
    BY <1>1, SeatsTrace

(* A step that moves update() on, or nothing.                              *)
LEMMA InPlace ==
    ASSUME BleInv, NothingLost, SlotsAlike,
           UNCHANGED <<link, searching, found, events, ids, ports, inbound>>,
           Types', PlaceInv', StaleInv',
           pc \notin {"publish", "release", "releaseAll"},
           pc' \notin {"publish", "release", "releaseAll"},
           ~lost' => ~lost /\ Undisturbed' /\ AvailableInv'
    PROVE  BleInv' /\ NothingLost'
  <1>1. \A s \in Slots : Open(s)' <=> Open(s)
    BY AlikeIs
  <1>2. LinkInv' /\ SlotInv' /\ SeatedInv'
    BY AlikeKeeps
  <1>3. PublishedInv'
    <2>1. \A s \in Slots : ~InTransit(s) /\ ~InTransit(s)'
      BY DEF InTransit
    <2> QED
      BY <1>1, <2>1 DEF BleInv, PublishedInv, SlotsAlike
  <1>4. InboundInv'
    BY DEF BleInv, InboundInv, Quiet, Reading
  <1>5. NothingLost'
    BY AlikeTrace DEF NothingLost
  <1> QED
    BY <1>2, <1>3, <1>4, <1>5 DEF BleInv

(* The first event of an identifier that has a slot is an end.             *)
LEMMA EndIsPending ==
    ASSUME Types, ByTurns, NEW x \in Ids, Pending(x), SlotsOf(x) # {}
    PROVE  \E k \in 1..Len(events) :
               /\ events[k] = [kind |-> "disconnected", id |-> x] /\ IsFirst(k)
  <1>1. PICK n \in 1..Len(events) : events[n].id = x
    BY DEF Pending
  <1>2. PICK k \in 1..n : events[k].id = x /\ IsFirst(k)
    BY <1>1, FirstExists
  <1>3. k \in 1..Len(events)
    BY <1>1, <1>2, LenProperties DEF Types, StackTypes
  <1>4. events[k] \in ConnectionEvents /\ events[k].kind # "connected"
    BY <1>2, <1>3, ElementOfSeq DEF ByTurns, Types, StackTypes
  <1>5. events[k] = [kind |-> "disconnected", id |-> x]
    BY <1>2, <1>4 DEF ConnectionEvents
  <1> QED
    BY <1>2, <1>3, <1>5

(* When update() begins, of two seats of one device neither is of the      *)
(* connection the device has.                                              *)
LEMMA TwinsAreDoomed ==
    ASSUME BleInv, ByTurns, OfItsDevice, NEW s \in Slots, NEW t \in Slots, Open(s), Open(t),
           s # t, slots[s].device = slots[t].device
    PROVE  \E k \in 1..Len(events) :
               events[k] = [kind |-> "disconnected", id |-> slots[s].id]
  <1> DEFINE i == slots[s].id
             j == slots[t].id
             d == slots[s].device
  <1>1. /\ i \in Ids /\ j \in Ids /\ i # j
        /\ i \in Ids /\ slots[s].used /\ slots[t].used
    BY DEF BleInv, SlotInv, Open
  <1>2. SlotsOf(i) # {} /\ SlotsOf(j) # {}
    BY <1>1 DEF SlotsOf
  <1>3. Types
    BY DEF BleInv
  <1>5. CASE Pending(i)
    BY <1>1, <1>2, <1>3, <1>5, EndIsPending
  <1>6. CASE ~Pending(i)
    <2>1. d = link[i] /\ link[i] # Nobody
      BY <1>1, <1>2, <1>6 DEF OfItsDevice, ByTurns
    <2>2. CASE ~Pending(j)
      <3>1. d = link[j]
        BY <1>1, <2>2 DEF OfItsDevice
      <3> QED
        BY <1>1, <2>1, <3>1 DEF BleInv, LinkInv
    <2>3. CASE Pending(j)
      <3>1. PICK k \in 1..Len(events) :
                events[k] = [kind |-> "disconnected", id |-> j] /\ IsFirst(k)
        BY <1>1, <1>2, <1>3, <2>3, EndIsPending
      <3>2. events[k].id = slots[t].id /\ link[i] = slots[t].device
        BY <2>1, <3>1
      <3>3. \E l \in k + 1 .. Len(events) : events[l] = [kind |-> "connected", id |-> i]
        BY <1>1, <2>1, <3>1, <3>2 DEF OfItsDevice
      <3>4. k \in Nat /\ Len(events) \in Nat
        BY <1>3, LenProperties DEF Types, StackTypes
      <3>5. Pending(i)
        BY <3>3, <3>4 DEF Pending
      <3> QED
        BY <1>6, <3>5
    <2> QED
      BY <2>2, <2>3
  <1> QED
    BY <1>5, <1>6

(* Nor has a seat of no device a connection that lasts.                    *)
LEMMA StrayIsDoomed ==
    ASSUME BleInv, ByTurns, OfItsDevice, NEW s \in Slots, Open(s), slots[s].device = Nobody
    PROVE  \E k \in 1..Len(events) :
               events[k] = [kind |-> "disconnected", id |-> slots[s].id]
  <1> DEFINE i == slots[s].id
  <1>1. i \in Ids /\ SlotsOf(i) # {} /\ Types
    BY DEF BleInv, SlotInv, Open, SlotsOf
  <1>2. Pending(i)
    BY <1>1 DEF ByTurns, OfItsDevice
  <1> QED
    BY <1>1, <1>2, EndIsPending

LEMMA InvBeginUpdate == ASSUME BleInv, NothingLost, BeginUpdate PROVE BleInv' /\ NothingLost'
  <1>1. /\ pc = "idle" /\ pc' = "drain" /\ limit' = Len(events)
        /\ UNCHANGED <<link, searching, found, events, ids, ports, inbound>>
        /\ UNCHANGED <<slots, cursor, sinks, available, lost, started, listeners>>
    BY Zenon DEF BeginUpdate, stackVars, ringVars, adapterVars, seatVars, outVars
  <1>2. SlotsAlike
    BY <1>1 DEF SlotsAlike, BleInv, Types, AdapterTypes
  <1>3. Len(events) \in Nat /\ Types'
    BY <1>1, LenProperties DEF BleInv, Types, StackTypes, AdapterTypes
  <1>4. PlaceInv'
    BY <1>1 DEF PlaceInv
  <1>5. StaleInv'
    BY <1>1, <1>3 DEF BleInv, StaleInv
  <1>6. ASSUME ~lost'
        PROVE  ~lost /\ Undisturbed' /\ AvailableInv'
    <2>1. ~lost /\ Undisturbed /\ ByTurns /\ OfItsDevice /\ AvailableInv
      BY <1>1, <1>6 DEF NothingLost
    <2>2. Undisturbed'
      BY <1>1, <2>1 DEF Undisturbed
    <2>3. OpenSlots' = OpenSlots
      BY <1>2, AlikeIs
    <2>4. \A s \in OpenSlots : s \in Slots /\ Open(s)
      BY DEF OpenSlots
    <2>5. /\ \A s, t \in OpenSlots : s # t /\ slots[s].device = slots[t].device => Doomed(s)'
          /\ \A s \in OpenSlots : slots[s].device = Nobody => Doomed(s)'
      BY <1>1, <2>1, <2>4, TwinsAreDoomed, StrayIsDoomed DEF Doomed
    <2>6. available \subseteq {slots[s].device : s \in OpenSlots}
          /\ \A s \in OpenSlots : slots[s].device \in available
      BY <1>1, <2>1 DEF AvailableInv
    <2> QED
      BY <1>1, <2>1, <2>2, <2>3, <2>5, <2>6 DEF AvailableInv
  <1> QED
    BY <1>1, <1>2, <1>3, <1>4, <1>5, <1>6, InPlace

LEMMA InvEndDrain == ASSUME BleInv, NothingLost, EndDrain PROVE BleInv' /\ NothingLost'
  <1>1. /\ pc = "drain" /\ pc' = "slots" /\ limit = 0 /\ cursor' = 1
        /\ UNCHANGED <<link, searching, found, events, ids, ports, inbound>>
        /\ UNCHANGED <<slots, limit, sinks, available, lost, started, listeners>>
    BY Zenon DEF EndDrain, stackVars, ringVars, adapterVars, seatVars, outVars
  <1>2. SlotsAlike
    BY <1>1 DEF SlotsAlike, BleInv, Types, AdapterTypes
  <1>3. Len(events) \in Nat /\ Types'
    BY <1>1, BleHostAssumption, LenProperties DEF BleInv, Types, StackTypes, AdapterTypes
  <1>4. PlaceInv'
    BY <1>1 DEF PlaceInv
  <1>5. StaleInv'
    BY <1>1, <1>3 DEF BleInv, StaleInv
  <1>6. ASSUME ~lost'
        PROVE  ~lost /\ Undisturbed' /\ AvailableInv'
    <2>1. ~lost /\ Undisturbed /\ AvailableInv
      BY <1>1, <1>6 DEF NothingLost
    <2>2. Undisturbed'
      BY <1>1, <2>1 DEF Undisturbed
    <2>3. OpenSlots' = OpenSlots
      BY <1>2, AlikeIs
    <2>4. \A s : ~Doomed(s)
      BY <1>1 DEF Doomed
    <2> QED
      BY <1>1, <2>1, <2>2, <2>3, <2>4 DEF AvailableInv
  <1> QED
    BY <1>1, <1>2, <1>3, <1>4, <1>5, <1>6, InPlace

(* The walk over the slots, and everything that only moves update().       *)
LEMMA InvMoveOn ==
    ASSUME BleInv, NothingLost,
           StepOver \/ DiscoveryRefused \/ Ready \/ EndUpdate \/ End \/ Ended \/ Begin
    PROVE  BleInv' /\ NothingLost'
  <1>1. /\ UNCHANGED <<link, searching, found, events, ids, ports, inbound>>
        /\ UNCHANGED <<slots, sinks, available, limit>>
        /\ \/ pc = "slots" /\ cursor \in Slots /\ cursor' = cursor + 1
              /\ UNCHANGED <<pc, lost, started, listeners>>
           \/ Waiting /\ slots[cursor].discovering /\ slots[cursor].id \in found
              /\ pc = "slots" /\ pc' = "seat" /\ UNCHANGED <<cursor, lost, started, listeners>>
           \/ pc = "slots" /\ pc' = "idle" /\ UNCHANGED <<cursor, lost, started, listeners>>
           \/ pc = "idle" /\ pc' = "ending" /\ lost' = TRUE
              /\ UNCHANGED <<cursor, started, listeners>>
           \/ pc = "ending" /\ pc' = "idle" /\ UNCHANGED <<cursor, lost, listeners>>
           \/ pc = "idle" /\ pc' = "idle" /\ ~started /\ listeners' = listeners + 1
              /\ UNCHANGED <<cursor, lost>>
    BY DEF StepOver, DiscoveryRefused, Ready, EndUpdate, End, Ended, Begin, Waiting, AtSlot,
           stackVars, ringVars, adapterVars, seatVars, outVars, updateVars
  <1>2. SlotsAlike
    BY <1>1 DEF SlotsAlike, BleInv, Types, AdapterTypes
  <1>3. NumSlots \in Nat /\ cursor \in 1 .. NumSlots + 1 /\ Types'
    <2>1. NumSlots \in Nat /\ cursor \in 1 .. NumSlots + 1
      BY BleHostAssumption DEF BleInv, Types, AdapterTypes
    <2>2. listeners \in Nat /\ lost \in BOOLEAN
      BY DEF BleInv, Types, StackTypes
    <2>3. lost' \in BOOLEAN
      BY <1>1, <2>2
    <2>4. listeners' \in Nat
      BY <1>1, <2>2
    <2>5. cursor' \in 1 .. NumSlots + 1
      BY <1>1, <2>1 DEF Slots
    <2>6. pc' \in {"slots", "seat", "idle", "ending"}
      BY <1>1
    <2> QED
      BY <1>1, <2>1, <2>3, <2>4, <2>5, <2>6 DEF BleInv, Types, StackTypes, AdapterTypes
  <1>4. PlaceInv'
    <2>1. ASSUME pc' = "seat"
          PROVE  /\ cursor' \in Slots /\ slots'[cursor'].used /\ ids'[cursor'] = Nobody
                 /\ slots'[cursor'].discovering /\ ~slots'[cursor'].seated
                 /\ slots'[cursor'].id \notin searching'
      <3>1. /\ Waiting /\ slots[cursor].discovering /\ slots[cursor].id \in found
            /\ UNCHANGED cursor
        BY <1>1, <2>1
      <3>2. cursor \in Slots /\ slots[cursor].used /\ ~slots[cursor].seated
        BY <3>1 DEF Waiting, AtSlot
      <3>3. ids[cursor] = Nobody /\ slots[cursor].id \notin searching
        BY <3>1, <3>2 DEF BleInv, PublishedInv, Open, LinkInv
      <3> QED
        BY <1>1, <3>1, <3>2, <3>3
    <2>2. pc' \notin {"publish", "release", "releaseAll"}
      BY <1>1
    <2> QED
      BY <2>1, <2>2 DEF PlaceInv
  <1>5. StaleInv'
    <2> SUFFICES ASSUME NEW k \in 1..Len(events), NEW s \in Slots,
                        events[k].kind = "disconnected", events[k].id = slots[s].id,
                        slots[s].used, slots[s].discovering, slots[s].id \in searching \cup found
                 PROVE  /\ ~slots[s].seated
                        /\ pc' \in {"slots", "seat", "publish"} => s < cursor'
                        /\ pc' \in {"drain", "release"} => k <= limit
      BY <1>1 DEF StaleInv
    <2>1. /\ ~slots[s].seated
          /\ pc \in {"slots", "seat", "publish"} => s < cursor
      BY DEF BleInv, StaleInv
    <2>2. s \in Int
      BY <1>3 DEF Slots
    <2>3. pc' \in {"slots", "seat", "publish"} => pc = "slots" /\ cursor' \in {cursor, cursor + 1}
      BY <1>1
    <2>4. pc' \in {"slots", "seat", "publish"} => s < cursor'
      BY <1>3, <2>1, <2>2, <2>3
    <2>5. pc' \notin {"drain", "release"}
      BY <1>1
    <2> QED
      BY <2>1, <2>4, <2>5
  <1>6. ASSUME ~lost'
        PROVE  ~lost /\ Undisturbed' /\ AvailableInv'
    <2>1. ~lost
      BY <1>1, <1>6
    <2>2. Undisturbed /\ AvailableInv
      BY <2>1 DEF NothingLost
    <2>3. /\ pc \notin {"drain", "release", "ending"} /\ pc' \notin {"drain", "release", "ending"}
          /\ pc' # "releaseAll" /\ UNCHANGED <<started, listeners>>
      BY <1>1, <1>6, <2>2 DEF Undisturbed
    <2>4. Undisturbed'
      BY <2>2, <2>3 DEF Undisturbed
    <2>5. OpenSlots' = OpenSlots
      BY <1>2, AlikeIs
    <2> QED
      BY <1>1, <2>1, <2>2, <2>3, <2>4, <2>5 DEF AvailableInv
  <1>7. /\ pc \notin {"publish", "release", "releaseAll"}
        /\ pc' \notin {"publish", "release", "releaseAll"}
    BY <1>1
  <1> QED
    BY <1>1, <1>2, <1>3, <1>4, <1>5, <1>6, <1>7, InPlace

LEMMA InvDeliver ==
    ASSUME BleInv, NothingLost, NEW d \in DOMAIN sinks, NEW m \in Messages, Deliver(d, m)
    PROVE  BleInv' /\ NothingLost'
  <1> DEFINE s == sinks[d]
             b == slots[s].sysEx
  <1>1. /\ pc = "idle"
        /\ UNCHANGED <<link, searching, found, events, ids, ports, inbound>>
        /\ UNCHANGED <<sinks, available, limit, pc, cursor, lost, started, listeners>>
        /\ \/ slots' = slots
           \/ slots' = [slots EXCEPT ![s].sysEx = BufferAfter(b, m)]
    BY Zenon DEF Deliver, stackVars, ringVars, updateVars, seatVars
  <1>2. SlotsAlike
    <2>1. slots \in [Slots -> SlotStates] /\ s \in Slots /\ m \in MidiMessages
      BY BleHostAssumption DEF BleInv, Types, AdapterTypes
    <2>2. CASE slots' = slots
      BY <2>1, <2>2 DEF SlotsAlike
    <2>3. CASE slots' = [slots EXCEPT ![s].sysEx = BufferAfter(b, m)]
      <3>1. slots[s] \in SlotStates /\ b \in Buffers
        BY <2>1 DEF SlotStates
      <3>2. BufferAfter(b, m) \in Buffers
        BY <2>1, <3>1, BufferType
      <3> DEFINE after == BufferAfter(b, m)
      <3> HIDE DEF s, b, after
      <3>3. slots'[s] = [slots[s] EXCEPT !.sysEx = after]
            /\ \A t \in Slots : t # s => slots'[t] = slots[t]
        BY <2>1, <2>3 DEF after
      <3>4. slots'[s] \in [used : {slots[s].used}, discovering : {slots[s].discovering},
                           seated : {slots[s].seated}, id : {slots[s].id},
                           device : {slots[s].device}, inPort : {slots[s].inPort},
                           sysEx : Buffers]
        BY <3>1, <3>2, <3>3 DEF SlotStates, after
      <3>5. slots'[s] \in SlotStates
        BY <3>1, <3>4 DEF SlotStates
      <3>6. slots' = [t \in Slots |-> slots'[t]]
        BY <2>1, <2>3
      <3>7. slots' \in [Slots -> SlotStates]
        BY <2>1, <3>3, <3>5, <3>6
      <3> QED
        BY <2>1, <3>3, <3>4, <3>7 DEF SlotsAlike
    <2> QED
      BY <1>1, <2>2, <2>3
  <1>3. Types'
    BY <1>1, <1>2 DEF BleInv, Types, StackTypes, AdapterTypes, SlotsAlike
  <1>4. PlaceInv'
    BY <1>1 DEF PlaceInv
  <1>5. StaleInv'
    BY <1>1, <1>2 DEF BleInv, StaleInv, SlotsAlike
  <1>6. ASSUME ~lost'
        PROVE  ~lost /\ Undisturbed' /\ AvailableInv'
    <2>1. ~lost /\ Undisturbed /\ AvailableInv
      BY <1>1, <1>6 DEF NothingLost
    <2>2. Undisturbed'
      BY <1>1, <2>1 DEF Undisturbed
    <2>3. /\ OpenSlots' = OpenSlots
          /\ \A t \in OpenSlots : slots'[t].device = slots[t].device
      BY <1>2, AlikeIs DEF SlotsAlike
    <2> QED
      BY <1>1, <2>1, <2>2, <2>3 DEF AvailableInv
  <1> QED
    BY <1>1, <1>2, <1>3, <1>4, <1>5, <1>6, InPlace
-----------------------------------------------------------------------------
(* onBleMessage().                                                         *)
LEMMA OnlyInbound ==
    ASSUME BleInv, NothingLost, InboundInv',
           UNCHANGED <<stackVars, ringVars, adapterVars, updateVars, seatVars, lost>>
    PROVE  BleInv' /\ NothingLost'
  <1>1. /\ UNCHANGED <<link, searching, found, listeners, events, started, slots, ids, ports>>
        /\ UNCHANGED <<pc, cursor, limit, available, sinks, lost>>
    BY Zenon DEF stackVars, ringVars, adapterVars, updateVars, seatVars
  <1>2. SlotsAlike
    BY <1>1 DEF SlotsAlike, BleInv, Types, AdapterTypes
  <1>3. Types'
    BY <1>1 DEF BleInv, Types, StackTypes, AdapterTypes
  <1>4. PlaceInv'
    BY <1>1 DEF BleInv, PlaceInv
  <1>5. StaleInv'
    BY <1>1 DEF BleInv, StaleInv
  <1>6. LinkInv' /\ SlotInv' /\ SeatedInv'
    BY <1>1, <1>2, AlikeKeeps
  <1>7. PublishedInv'
    BY <1>1, <1>2, AlikeIs DEF BleInv, PublishedInv, InTransit
  <1>8. NothingLost'
    <2> SUFFICES ASSUME ~lost PROVE Undisturbed' /\ ByTurns' /\ OfItsDevice' /\ AvailableInv'
      BY <1>1 DEF NothingLost
    <2>1. Undisturbed /\ ByTurns /\ OfItsDevice /\ AvailableInv
      BY DEF NothingLost
    <2>2. Undisturbed'
      BY <1>1, <2>1 DEF Undisturbed
    <2>3. ByTurns' /\ OfItsDevice'
      BY <1>1, <1>2, <2>1, AlikeTrace
    <2>4. AvailableInv'
      BY <1>1, <1>2, <2>1, AlikeIs DEF AvailableInv, Doomed
    <2> QED
      BY <2>2, <2>3, <2>4
  <1> QED
    BY <1>3, <1>4, <1>5, <1>6, <1>7, <1>8 DEF BleInv

(* A connection is published by one slot.                                  *)
LEMMA PublishedOnce ==
    ASSUME BleInv, NEW s \in Slots, NEW t \in Slots, ids[s] = ids[t], ids[s] # Nobody
    PROVE  s = t
  BY DEF BleInv, PublishedInv, SlotInv, Open

(* The message on its way is not at a slot that is not published.          *)
LEMMA HeardElsewhere ==
    ASSUME BleInv, NEW c \in Slots, ids[c] = Nobody, UNCHANGED <<link, found, inbound, ids>>,
           \A s \in Slots : s # c => ports'[s] = ports[s]
    PROVE  InboundInv'
  <1>1. CASE Quiet
    BY <1>1 DEF InboundInv, Quiet
  <1>2. CASE ~Quiet
    <2>1. /\ inbound \in [at : 1 .. NumSlots + NumSlots, id : found, from : Devices,
                          seat : 0..NumSlots, ended : BOOLEAN]
          /\ inbound.from = link[inbound.id]
          /\ inbound.seat # 0 =>
                 /\ ids[inbound.seat] = inbound.id /\ ports[inbound.seat] # Nobody
                 /\ inbound.at <= inbound.seat \/ inbound.at = NumSlots + inbound.seat
          /\ Reading /\ ~inbound.ended => ids[inbound.at - NumSlots] = inbound.id
      BY <1>2 DEF BleInv, InboundInv
    <2>2. inbound.id # Nobody
      BY <2>1, BleHostAssumption DEF BleInv, Types, StackTypes
    <2>3. inbound.seat # 0 => inbound.seat \in Slots /\ inbound.seat # c
      BY <2>1, <2>2, BleHostAssumption DEF Slots
    <2> QED
      BY <2>1, <2>3 DEF InboundInv, Reading
  <1> QED
    BY <1>1, <1>2

LEMMA InvArrive ==
    ASSUME BleInv, NothingLost, NEW i \in Ids, Arrive(i)
    PROVE  BleInv' /\ NothingLost'
  <1> DEFINE published == {s \in Slots : ids[s] = i /\ ports[s] # Nobody}
             seat == IF published = {} THEN 0 ELSE Lowest(published)
  <1>1. /\ i \in found
        /\ inbound' = [at |-> 1, id |-> i, from |-> link[i], ended |-> FALSE, seat |-> seat]
        /\ UNCHANGED <<stackVars, ringVars, adapterVars, updateVars, seatVars, lost>>
    BY DEF Arrive
  <1>2. UNCHANGED <<link, found, ids, ports>>
    BY <1>1 DEF stackVars, adapterVars
  <1>3. NumSlots \in Nat \ {0} /\ Slots = 1..NumSlots
    BY BleHostAssumption DEF Slots
  <1>4. seat = 0 \/ (seat \in Slots /\ ids[seat] = i /\ ports[seat] # Nobody)
    BY LowestIs
  <1> HIDE DEF seat
  <1>5. link[i] \in Devices
    BY <1>1 DEF BleInv, Types, StackTypes, LinkInv
  <1>6. InboundInv'
    <2>1. inbound' \in [at : 1 .. NumSlots + NumSlots, id : found', from : Devices,
                        seat : 0..NumSlots, ended : BOOLEAN]
      BY <1>1, <1>2, <1>3, <1>4, <1>5
    <2>2. inbound'.at = 1 /\ inbound'.id = i /\ inbound'.from = link[i] /\ inbound'.seat = seat
      BY <1>1
    <2> QED
      BY <1>2, <1>3, <1>4, <2>1, <2>2 DEF InboundInv, Reading
  <1> QED
    BY <1>1, <1>6, OnlyInbound

LEMMA InvLoad ==
    ASSUME BleInv, NothingLost, LoadId \/ LoadPort
    PROVE  BleInv' /\ NothingLost'
  <1>1. UNCHANGED <<stackVars, ringVars, adapterVars, updateVars, seatVars, lost>>
    BY DEF LoadId, LoadPort
  <1>2. UNCHANGED <<link, found, ids, ports>>
    BY <1>1 DEF stackVars, adapterVars
  <1>3. NumSlots \in Nat \ {0} /\ Slots = 1..NumSlots
    BY BleHostAssumption DEF Slots
  <1>4. CASE inbound' = NotReceiving
    <2>1. InboundInv'
      BY <1>4 DEF InboundInv, Quiet
    <2> QED
      BY <1>1, <2>1, OnlyInbound
  <1>5. CASE inbound' # NotReceiving
    <2> DEFINE a == inbound.at
    <2>1. /\ a \in Slots
          /\ \/ ids[a] = inbound.id /\ inbound' = [inbound EXCEPT !.at = NumSlots + a]
             \/ ids[a] # inbound.id /\ a < NumSlots /\ inbound' = [inbound EXCEPT !.at = a + 1]
      BY <1>5 DEF LoadId, LoadPort, Receiving
    <2>2. inbound # NotReceiving
      BY <1>3, <2>1 DEF NotReceiving
    <2>3. /\ inbound \in [at : 1 .. NumSlots + NumSlots, id : found, from : Devices,
                          seat : 0..NumSlots, ended : BOOLEAN]
          /\ inbound.from = link[inbound.id]
          /\ inbound.seat # 0 =>
                 /\ ids[inbound.seat] = inbound.id /\ ports[inbound.seat] # Nobody
                 /\ a <= inbound.seat \/ a = NumSlots + inbound.seat
      BY <2>2 DEF BleInv, InboundInv, Quiet
    <2>4. inbound.id # Nobody /\ inbound.seat \in 0..NumSlots /\ a \in 1..NumSlots
      BY <1>3, <2>1, <2>3, BleHostAssumption DEF BleInv, Types, StackTypes
    <2>5. inbound.seat # 0 => inbound.seat \in Slots /\ a <= inbound.seat
      BY <1>3, <2>3, <2>4
    <2> DEFINE moved(n) == [inbound EXCEPT !.at = n]
    <2>6. ASSUME NEW n \in 1 .. NumSlots + NumSlots
          PROVE  /\ moved(n) \in [at : 1 .. NumSlots + NumSlots, id : found, from : Devices,
                                  seat : 0..NumSlots, ended : BOOLEAN]
                 /\ moved(n).at = n /\ moved(n).id = inbound.id
                 /\ moved(n).from = inbound.from /\ moved(n).seat = inbound.seat
      BY <2>3
    <2> HIDE DEF moved
    <2>7. CASE ids[a] = inbound.id /\ inbound' = moved(NumSlots + a)
      <3>1. inbound.seat # 0 => inbound.seat = a
        BY <2>1, <2>3, <2>4, <2>5, <2>7, PublishedOnce
      <3>2. NumSlots + a \in 1 .. NumSlots + NumSlots /\ (NumSlots + a) - NumSlots = a
        BY <1>3, <2>4
      <3>3. InboundInv'
        BY <1>2, <2>3, <2>6, <2>7, <3>1, <3>2 DEF InboundInv, Reading
      <3> QED
        BY <1>1, <3>3, OnlyInbound
    <2>8. CASE ids[a] # inbound.id /\ a < NumSlots /\ inbound' = moved(a + 1)
      <3>1. a + 1 \in 1 .. NumSlots + NumSlots /\ ~(a + 1 > NumSlots)
        BY <1>3, <2>4, <2>8
      <3>2. inbound.seat # 0 => a + 1 <= inbound.seat
        <4>1. inbound.seat # 0 => a # inbound.seat
          BY <2>3, <2>8
        <4> QED
          BY <2>4, <2>5, <4>1
      <3>3. InboundInv'
        BY <1>2, <2>3, <2>5, <2>6, <2>8, <3>1, <3>2 DEF InboundInv, Reading
      <3> QED
        BY <1>1, <3>3, OnlyInbound
    <2> QED
      BY <2>1, <2>7, <2>8 DEF moved
  <1> QED
    BY <1>4, <1>5
-----------------------------------------------------------------------------
(* The BLE stack: searches end, connections come and go.                   *)
LEMMA InvDiscovery ==
    ASSUME BleInv, NothingLost, NEW i \in Ids, DiscoveryEnds(i) \/ DiscoveryFails(i)
    PROVE  BleInv' /\ NothingLost'
  <1>1. /\ Quiet /\ i \in searching /\ searching' = searching \ {i}
        /\ UNCHANGED <<link, listeners, events, started, slots, ids, ports, inbound>>
        /\ UNCHANGED <<pc, cursor, limit, available, sinks>>
        /\ \/ found' = found \cup {i} /\ lost' = lost
           \/ found' = found /\ lost' = TRUE
    BY Zenon DEF DiscoveryEnds, DiscoveryFails, ringVars, adapterVars, updateVars, seatVars
  <1>2. SlotsAlike
    BY <1>1 DEF SlotsAlike, BleInv, Types, AdapterTypes
  <1>3. Types'
    <2>1. lost \in BOOLEAN
      BY DEF BleInv, Types, StackTypes
    <2>2. lost' \in BOOLEAN
      BY <1>1, <2>1
    <2> QED
      BY <1>1, <2>2 DEF BleInv, Types, StackTypes, AdapterTypes
  <1>4. LinkInv'
    BY <1>1 DEF BleInv, LinkInv
  <1>5. PlaceInv'
    BY <1>1 DEF BleInv, PlaceInv
  <1>6. SlotInv'
    BY <1>1 DEF BleInv, SlotInv
  <1>7. PublishedInv'
    BY <1>1, <1>2, AlikeIs DEF BleInv, PublishedInv, InTransit
  <1>8. SeatedInv'
    BY <1>1, <1>2, AlikeIs DEF BleInv, SeatedInv
  <1>9. searching' \cup found' \subseteq searching \cup found
    BY <1>1
  <1>10. StaleInv'
    BY <1>1, <1>9 DEF BleInv, StaleInv
  <1>11. InboundInv'
    BY <1>1 DEF InboundInv, Quiet
  <1>12. NothingLost'
    <2> SUFFICES ASSUME ~lost' PROVE Undisturbed' /\ ByTurns' /\ OfItsDevice' /\ AvailableInv'
      BY DEF NothingLost
    <2>1. Undisturbed /\ ByTurns /\ OfItsDevice /\ AvailableInv
      BY <1>1 DEF NothingLost
    <2>2. Undisturbed'
      BY <1>1, <2>1 DEF Undisturbed
    <2>3. ByTurns' /\ OfItsDevice'
      BY <1>1, <1>2, <2>1, AlikeTrace
    <2>4. AvailableInv'
      BY <1>1, <1>2, <2>1, AlikeIs DEF AvailableInv, Doomed
    <2> QED
      BY <2>2, <2>3, <2>4
  <1> QED
    BY <1>3, <1>4, <1>5, <1>6, <1>7, <1>8, <1>10, <1>11, <1>12 DEF BleInv

(* The turns go on when a connection of i is made, or ends.                *)
LEMMA TurnsGoOn ==
    ASSUME BleInv, ByTurns, OfItsDevice, NEW n, n = Len(events),
           NEW i \in Ids, NEW d \in Devices \cup {Nobody},
           link' = [link EXCEPT ![i] = d], d = Nobody <=> link[i] # Nobody,
           \A j \in Ids : d # Nobody => link[j] # d,
           UNCHANGED slots,
           Len(events') = n + 1,
           \A k \in 1..n : events'[k] = events[k],
           events'[n + 1] =
               [kind |-> IF d = Nobody THEN "disconnected" ELSE "connected", id |-> i]
    PROVE  ByTurns' /\ OfItsDevice'
  <1> DEFINE e == [kind |-> IF d = Nobody THEN "disconnected" ELSE "connected", id |-> i]
  <1>1. /\ Types /\ n \in Nat /\ 1..n + 1 = (1..n) \cup {n + 1}
        /\ \A k \in 1..n : events[k].id \in Ids
        /\ \A k \in 1..n : events[k].kind \in {"connected", "disconnected"}
    <2>1. events \in Seq(ConnectionEvents) /\ n \in Nat
      BY LenProperties DEF BleInv, Types, StackTypes
    <2>2. \A k \in 1..n : events[k] \in ConnectionEvents
      BY <2>1, ElementOfSeq
    <2> QED
      BY <2>1, <2>2 DEF BleInv, ConnectionEvents
  <1>2. Len(events') = n + 1 /\ events'[n + 1] = e /\ \A k \in 1..n : events'[k] = events[k]
    OBVIOUS
  <1>3. e.id = i /\ (e.kind = "connected" <=> d # Nobody) /\ (e.kind = "disconnected" <=> d = Nobody)
    OBVIOUS
  <1> HIDE DEF e
  <1>4. link \in [Ids -> Devices \cup {Nobody}]
    BY DEF BleInv, Types, StackTypes
  <1>5. link'[i] = d /\ \A j \in Ids : j # i => link'[j] = link[j]
    BY <1>4
  <1>6. \A s \in Slots : Open(s)' <=> Open(s)
    BY DEF Open
  <1>7. \A x : SlotsOf(x)' = SlotsOf(x)
    BY DEF SlotsOf
  <1>8. ASSUME NEW k \in 1..n PROVE IsFirst(k)' <=> IsFirst(k)
    <2>1. k \in 1..n /\ \A m \in 1 .. k - 1 : m \in 1..n
      BY <1>1
    <2> QED
      BY <1>2, <2>1 DEF IsFirst
  <1>9. ASSUME NEW k, k = n + 1, IsFirst(k)'
        PROVE  ~Pending(i)
    <2>1. \A m \in 1..n : m \in 1 .. k - 1
      BY <1>1, <1>9
    <2>2. \A m \in 1..n : events'[m].id # events'[k].id
      BY <1>9, <2>1 DEF IsFirst
    <2> QED
      BY <1>2, <1>3, <1>9, <2>2 DEF Pending
  <1>10. ASSUME NEW k \in 1..n, IsLast(k)'
         PROVE  IsLast(k) /\ events[k].id # i
    <2>1. n + 1 \in k + 1 .. n + 1 /\ \A m \in k + 1 .. n : m \in k + 1 .. n + 1 /\ m \in 1..n
      BY <1>1
    <2>2. \A m \in k + 1 .. n + 1 : events'[m].id # events'[k].id
      BY <1>2, <1>10 DEF IsLast
    <2> QED
      BY <1>2, <1>3, <2>1, <2>2 DEF IsLast
  <1>11. ASSUME NEW x, ~Pending(x)'
         PROVE  ~Pending(x) /\ x # i
    <2>1. 1..n \subseteq 1 .. n + 1 /\ n + 1 \in 1 .. n + 1
      BY <1>1
    <2>2. \A k \in 1 .. n + 1 : events'[k].id # x
      BY <1>2, <1>11 DEF Pending
    <2> QED
      BY <1>2, <1>3, <2>1, <2>2 DEF Pending
  <1>12. ByTurns'
    <2>1. ASSUME NEW k \in 1 .. n + 1, NEW l \in 1 .. n + 1, k < l, events'[k].id = events'[l].id,
                 \A m \in k + 1 .. l - 1 : events'[m].id # events'[k].id
          PROVE  events'[k].kind # events'[l].kind
      <3>1. k \in 1..n /\ \A m \in k + 1 .. l - 1 : m \in 1..n
        BY <1>1, <2>1
      <3>2. CASE l \in 1..n
        <4>1. \A m \in k + 1 .. l - 1 : events[m].id # events[k].id
          BY <1>2, <2>1, <3>1
        <4> QED
          BY <1>2, <2>1, <3>1, <3>2, <4>1 DEF ByTurns
      <3>3. CASE l = n + 1
        <4>1. events[k].id = i
          BY <1>2, <1>3, <2>1, <3>1, <3>3
        <4>2. \A m \in k + 1 .. n : m \in k + 1 .. l - 1
          BY <1>1, <3>3
        <4>3. IsLast(k)
          BY <1>2, <2>1, <3>1, <4>2 DEF IsLast
        <4>4. events[k].kind = "connected" <=> link[i] # Nobody
          BY <3>1, <4>1, <4>3 DEF ByTurns
        <4> QED
          BY <1>1, <1>2, <1>3, <3>1, <3>3, <4>4
      <3> QED
        BY <1>1, <3>2, <3>3
    <2>2. ASSUME NEW x \in Ids, NEW k \in 1 .. n + 1, events'[k].id = x, IsFirst(k)'
          PROVE  events'[k].kind = "connected" <=> SlotsOf(x)' = {}
      <3>1. CASE k \in 1..n
        BY <1>2, <1>7, <1>8, <2>2, <3>1 DEF ByTurns
      <3>2. CASE k = n + 1
        <4>1. x = i /\ ~Pending(i)
          BY <1>2, <1>3, <1>9, <2>2, <3>2
        <4>2. SlotsOf(i) # {} <=> link[i] # Nobody
          BY <4>1 DEF ByTurns
        <4> QED
          BY <1>2, <1>3, <1>7, <3>2, <4>1, <4>2
      <3> QED
        BY <1>1, <3>1, <3>2
    <2>3. ASSUME NEW x \in Ids, NEW k \in 1 .. n + 1, events'[k].id = x, IsLast(k)'
          PROVE  events'[k].kind = "connected" <=> link'[x] # Nobody
      <3>1. CASE k \in 1..n
        <4>1. IsLast(k) /\ events[k].id = x /\ x # i
          BY <1>2, <1>10, <2>3, <3>1
        <4>2. events[k].kind = "connected" <=> link[x] # Nobody
          BY <3>1, <4>1 DEF ByTurns
        <4> QED
          BY <1>2, <1>5, <3>1, <4>1, <4>2
      <3>2. CASE k = n + 1
        BY <1>2, <1>3, <1>5, <2>3, <3>2
      <3> QED
        BY <1>1, <3>1, <3>2
    <2>4. \A x \in Ids : ~Pending(x)' => (SlotsOf(x)' # {} <=> link'[x] # Nobody)
      BY <1>5, <1>7, <1>11 DEF ByTurns
    <2> QED
      BY <1>2, <2>1, <2>2, <2>3, <2>4 DEF ByTurns
  <1>13. OfItsDevice'
    <2> SUFFICES ASSUME NEW s \in Slots, NEW x \in Ids, Open(s), slots[s].id = x
                 PROVE  /\ ~Pending(x)' => slots[s].device = link'[x]
                        /\ \A k \in 1 .. n + 1, j \in Ids :
                               /\ events'[k].id = x /\ IsFirst(k)'
                               /\ link'[j] # Nobody /\ link'[j] = slots[s].device
                               => \E l \in k + 1 .. n + 1 :
                                      events'[l] = [kind |-> "connected", id |-> j]
      BY <1>2, <1>6 DEF OfItsDevice
    <2>1. ~Pending(x)' => slots[s].device = link'[x]
      BY <1>5, <1>11 DEF OfItsDevice
    <2>2. SlotsOf(x) # {}
      BY DEF SlotsOf, Open
    <2>3. ASSUME NEW k \in 1 .. n + 1, NEW j \in Ids, events'[k].id = x, IsFirst(k)',
                 link'[j] # Nobody, link'[j] = slots[s].device
          PROVE  \E l \in k + 1 .. n + 1 : events'[l] = [kind |-> "connected", id |-> j]
      <3>1. CASE k = n + 1
        <4>1. x = i /\ ~Pending(i)
          BY <1>2, <1>3, <1>9, <2>3, <3>1
        <4>2. link[i] # Nobody /\ slots[s].device = link[i]
          BY <2>2, <4>1 DEF ByTurns, OfItsDevice
        <4>3. d = Nobody /\ j # i /\ link[j] = link[i]
          BY <1>5, <2>3, <4>2
        <4> QED
          BY <4>2, <4>3 DEF BleInv, LinkInv
      <3>2. CASE k \in 1..n /\ j = i
        <4>1. d # Nobody /\ e = [kind |-> "connected", id |-> i]
          BY <1>5, <2>3, <3>2 DEF e
        <4>2. n + 1 \in k + 1 .. n + 1
          BY <1>1, <3>2
        <4> QED
          BY <1>2, <3>2, <4>1, <4>2
      <3>3. CASE k \in 1..n /\ j # i
        <4>1. events[k].id = x /\ IsFirst(k) /\ link[j] # Nobody /\ link[j] = slots[s].device
          BY <1>2, <1>5, <1>8, <2>3, <3>3
        <4>2. PICK l \in k + 1 .. n : events[l] = [kind |-> "connected", id |-> j]
          BY <3>3, <4>1 DEF OfItsDevice
        <4>3. l \in 1..n /\ l \in k + 1 .. n + 1
          BY <1>1, <3>3
        <4> QED
          BY <1>2, <4>2, <4>3
      <3> QED
        BY <1>1, <3>1, <3>2, <3>3
    <2> QED
      BY <2>1, <2>3
  <1> QED
    BY <1>12, <1>13

LEMMA InvRecord ==
    ASSUME BleInv, NothingLost, NEW i \in Ids, NEW d \in Devices \cup {Nobody},
           Quiet, Record(IF d = Nobody THEN "disconnected" ELSE "connected", i),
           link' = [link EXCEPT ![i] = d], d = Nobody <=> link[i] # Nobody,
           \A j \in Ids : d # Nobody => link[j] # d,
           searching' = searching \ {i}, found' = found \ {i},
           UNCHANGED <<listeners, inbound, started, slots, ids, ports>>,
           UNCHANGED <<pc, cursor, limit, available, sinks>>
    PROVE  BleInv' /\ NothingLost'
  <1> DEFINE n == Len(events)
             kind == IF d = Nobody THEN "disconnected" ELSE "connected"
  <1>1. /\ events' \in Seq(ConnectionEvents) /\ Len(events') <= RingSize
        /\ n \in Nat /\ Len(events') \in Nat /\ n <= Len(events')
        /\ lost' \in BOOLEAN
        /\ \A k \in 1..n : events'[k] = events[k]
        /\ \A k \in n + 1 .. Len(events') : events'[k] = [kind |-> kind, id |-> i]
        /\ ~lost' => ~lost
        /\ ~lost' /\ listeners = 1 => Len(events') = n + 1
    BY RecordIs DEF BleInv
  <1>2. link \in [Ids -> Devices \cup {Nobody}] /\ limit \in 0..n
    BY DEF BleInv, Types, StackTypes, AdapterTypes
  <1> HIDE DEF n, kind
  <1>3. link'[i] = d /\ \A j \in Ids : j # i => link'[j] = link[j]
    BY <1>2
  <1>4. SlotsAlike
    BY DEF SlotsAlike, BleInv, Types, AdapterTypes
  <1>5. Types'
    <2>1. limit' \in 0..Len(events')
      BY <1>1, <1>2
    <2> QED
      BY <1>1, <2>1 DEF BleInv, Types, StackTypes, AdapterTypes
  <1>6. LinkInv'
    BY <1>2, <1>3 DEF BleInv, LinkInv
  <1>7. PlaceInv'
    <2>1. limit > 0 => 1 \in 1..n
      BY <1>1, <1>2
    <2>2. limit > 0 => events'[1] = events[1]
      BY <1>1, <2>1
    <2> QED
      BY <2>2 DEF BleInv, PlaceInv
  <1>8. SlotInv'
    BY DEF BleInv, SlotInv
  <1>9. PublishedInv'
    BY <1>4, AlikeIs DEF BleInv, PublishedInv, InTransit
  <1>10. SeatedInv'
    BY <1>3, <1>4, AlikeIs DEF BleInv, SeatedInv, SlotInv, Open
  <1>11. StaleInv'
    <2> SUFFICES ASSUME NEW k \in 1..Len(events'), NEW s \in Slots,
                        events'[k].kind = "disconnected", events'[k].id = slots[s].id,
                        slots[s].used, slots[s].discovering, slots[s].id \in searching' \cup found'
                 PROVE  /\ ~slots[s].seated
                        /\ pc \in {"slots", "seat", "publish"} => s < cursor
                        /\ pc \in {"drain", "release"} => k <= limit
      BY DEF StaleInv
    <2>1. slots[s].id # i /\ slots[s].id \in searching \cup found
      OBVIOUS
    <2>2. k \in 1..n
      <3>1. CASE k \in n + 1 .. Len(events')
        BY <1>1, <2>1, <3>1
      <3>2. k \in 1..n \/ k \in n + 1 .. Len(events')
        BY <1>1
      <3> QED
        BY <3>1, <3>2
    <2>3. events'[k] = events[k]
      BY <1>1, <2>2
    <2> QED
      BY <2>1, <2>2, <2>3 DEF BleInv, StaleInv, n
  <1>12. InboundInv'
    BY DEF InboundInv, Quiet
  <1>13. NothingLost'
    <2> SUFFICES ASSUME ~lost' PROVE Undisturbed' /\ ByTurns' /\ OfItsDevice' /\ AvailableInv'
      BY DEF NothingLost
    <2>1. Undisturbed /\ ByTurns /\ OfItsDevice /\ AvailableInv
      BY <1>1 DEF NothingLost
    <2>2. Undisturbed'
      BY <2>1 DEF Undisturbed
    <2>3. Len(events') = n + 1
      BY <1>1, <2>1 DEF Undisturbed
    <2>4. events'[n + 1] = [kind |-> kind, id |-> i]
      <3>1. n + 1 \in n + 1 .. Len(events')
        BY <1>1, <2>3
      <3> QED
        BY <1>1, <3>1
    <2>5. ByTurns' /\ OfItsDevice'
      BY <1>1, <2>1, <2>3, <2>4, TurnsGoOn DEF n, kind
    <2>6. AvailableInv'
      <3>1. \A k \in 1..limit : k \in 1..n
        BY <1>1, <1>2
      <3>2. \A s : Doomed(s)' <=> Doomed(s)
        BY <1>1, <3>1 DEF Doomed
      <3>3. OpenSlots' = OpenSlots
        BY <1>4, AlikeIs
      <3> QED
        BY <2>1, <3>2, <3>3 DEF AvailableInv
    <2> QED
      BY <2>2, <2>5, <2>6
  <1> QED
    BY <1>5, <1>6, <1>7, <1>8, <1>9, <1>10, <1>11, <1>12, <1>13 DEF BleInv

LEMMA InvConnect ==
    ASSUME BleInv, NothingLost, NEW d \in Devices, NEW i \in Ids, Connect(d, i)
    PROVE  BleInv' /\ NothingLost'
  <1>1. /\ Quiet /\ link[i] = Nobody /\ \A j \in Ids : link[j] # d
        /\ link' = [link EXCEPT ![i] = d] /\ Record("connected", i)
        /\ UNCHANGED <<searching, found, listeners, inbound, started, slots, ids, ports>>
        /\ UNCHANGED <<pc, cursor, limit, available, sinks>>
    BY DEF Connect, adapterVars, updateVars, seatVars
  <1>2. d # Nobody
    BY BleHostAssumption
  <1>3. searching' = searching \ {i} /\ found' = found \ {i}
    BY <1>1 DEF BleInv, LinkInv
  <1>4. Record(IF d = Nobody THEN "disconnected" ELSE "connected", i)
    BY <1>1, <1>2, Zenon
  <1> QED
    BY <1>1, <1>2, <1>3, <1>4, InvRecord

LEMMA InvDisconnect ==
    ASSUME BleInv, NothingLost, NEW i \in Ids, Disconnect(i)
    PROVE  BleInv' /\ NothingLost'
  <1>1. /\ Quiet /\ link[i] # Nobody /\ link' = [link EXCEPT ![i] = Nobody]
        /\ searching' = searching \ {i} /\ found' = found \ {i}
        /\ Record("disconnected", i)
        /\ UNCHANGED <<listeners, inbound, started, slots, ids, ports>>
        /\ UNCHANGED <<pc, cursor, limit, available, sinks>>
    BY DEF Disconnect, adapterVars, updateVars, seatVars
  <1>2. Record(IF Nobody = Nobody THEN "disconnected" ELSE "connected", i)
    BY <1>1, Zenon
  <1> QED
    BY <1>1, <1>2, InvRecord
-----------------------------------------------------------------------------
(* drainEvents(): the ring without its first event, the slots after it.    *)
LEMMA PoppedStale ==
    ASSUME BleInv, limit > 0, Pop, pc \in {"drain", "release"}, pc' = "drain",
           NEW s \in Slots, slots'[s] = slots[s], UNCHANGED <<searching, found>>,
           NEW k \in 1..Len(events'),
           events'[k].kind = "disconnected" /\ events'[k].id = slots[s].id,
           slots[s].used /\ slots[s].discovering /\ slots[s].id \in searching \cup found
    PROVE  ~slots[s].seated /\ k <= limit'
  <1>1. /\ Len(events) \in Nat /\ Len(events') = Len(events) - 1 /\ events'[k] = events[k + 1]
        /\ limit' = limit - 1 /\ limit \in Nat
    BY PopIs DEF BleInv, Types, AdapterTypes
  <1>2. k + 1 \in 1..Len(events)
    BY <1>1
  <1>3. ~slots[s].seated /\ k + 1 <= limit
    BY <1>1, <1>2 DEF BleInv, StaleInv
  <1> QED
    BY <1>1, <1>3

LEMMA TurnsPopped ==
    ASSUME BleInv, ByTurns, limit > 0, Pop, UNCHANGED link,
           NEW i \in Ids, events[1].id = i,
           \A x \in Ids : x # i => SlotsOf(x)' = SlotsOf(x),
           SlotsOf(i)' = {} <=> SlotsOf(i) # {}
    PROVE  ByTurns'
  <1> DEFINE n == Len(events)
  <1>1. /\ n \in Nat /\ n >= 1 /\ Len(events') = n - 1
        /\ \A k \in 1 .. n - 1 : events'[k] = events[k + 1]
    BY PopIs DEF BleInv
  <1>2. \A k \in 1..n : events[k].id \in Ids /\ events[k].kind \in {"connected", "disconnected"}
    <2>1. \A k \in 1..n : events[k] \in ConnectionEvents
      BY ElementOfSeq DEF BleInv, Types, StackTypes
    <2> QED
      BY <2>1 DEF ConnectionEvents
  <1>3. ASSUME NEW k \in 1 .. n - 1, IsFirst(k)', events[k + 1].id # i
        PROVE  k + 1 \in 1..n /\ IsFirst(k + 1)
    <2>1. k + 1 \in 1..n
      BY <1>1
    <2>2. ASSUME NEW m \in 1..k PROVE events[m].id # events[k + 1].id
      <3>1. CASE m = 1
        BY <1>3, <3>1
      <3>2. CASE m # 1
        <4>1. m - 1 \in 1 .. k - 1 /\ m - 1 \in 1 .. n - 1 /\ (m - 1) + 1 = m
          BY <1>1, <3>2
        <4>2. events'[m - 1].id # events'[k].id
          BY <1>3, <4>1 DEF IsFirst
        <4> QED
          BY <1>1, <4>1, <4>2
      <3> QED
        BY <3>1, <3>2
    <2>3. (k + 1) - 1 = k
      BY <1>1
    <2> QED
      BY <2>1, <2>2, <2>3 DEF IsFirst
  <1>4. ASSUME NEW k \in 1 .. n - 1, IsFirst(k)', events[k + 1].id = i
        PROVE  k + 1 \in 1..n /\ events[k + 1].kind # events[1].kind
    <2>1. k + 1 \in 1..n /\ 1 \in 1..n /\ 1 < k + 1
      BY <1>1
    <2>2. ASSUME NEW m \in 2 .. k PROVE events[m].id # i
      <3>1. m - 1 \in 1 .. k - 1 /\ m - 1 \in 1 .. n - 1 /\ (m - 1) + 1 = m
        BY <1>1
      <3>2. events'[m - 1].id # events'[k].id
        BY <1>4, <3>1 DEF IsFirst
      <3> QED
        BY <1>1, <1>4, <3>1, <3>2
    <2>3. \A m \in 1 + 1 .. (k + 1) - 1 : m \in 2 .. k
      BY <1>1
    <2> QED
      BY <1>4, <2>1, <2>2, <2>3 DEF ByTurns
  <1>5. ASSUME NEW k \in 1 .. n - 1, IsLast(k)'
        PROVE  k + 1 \in 1..n /\ IsLast(k + 1)
    <2>1. k + 1 \in 1..n
      BY <1>1
    <2>2. ASSUME NEW m \in (k + 1) + 1 .. n PROVE events[m].id # events[k + 1].id
      <3>1. m - 1 \in k + 1 .. n - 1 /\ m - 1 \in 1 .. n - 1 /\ (m - 1) + 1 = m
        BY <1>1
      <3>2. events'[m - 1].id # events'[k].id
        BY <1>1, <1>5, <3>1 DEF IsLast
      <3> QED
        BY <1>1, <3>1, <3>2
    <2> QED
      BY <2>1, <2>2 DEF IsLast
  <1>6. ASSUME NEW x \in Ids, ~Pending(x)'
        PROVE  \A k \in 2..n : events[k].id # x
    <2> SUFFICES ASSUME NEW k \in 2..n PROVE events[k].id # x
      OBVIOUS
    <2>1. k - 1 \in 1 .. n - 1 /\ (k - 1) + 1 = k
      BY <1>1
    <2> QED
      BY <1>1, <1>6, <2>1 DEF Pending
  <1>7. /\ 1 \in 1..n /\ IsFirst(1)
        /\ events[1].kind = "connected" <=> SlotsOf(i) = {}
    <2>1. 1 \in 1..n /\ \A m : m \notin 1 .. 1 - 1
      BY <1>1
    <2>2. IsFirst(1)
      BY <2>1 DEF IsFirst
    <2> QED
      BY <2>1, <2>2 DEF ByTurns
  <1>8. ASSUME NEW k \in 1 .. n - 1, NEW l \in 1 .. n - 1, k < l, events'[k].id = events'[l].id,
               \A m \in k + 1 .. l - 1 : events'[m].id # events'[k].id
        PROVE  events'[k].kind # events'[l].kind
    <2>1. k + 1 \in 1..n /\ l + 1 \in 1..n /\ k + 1 < l + 1
      BY <1>1, <1>8
    <2>2. ASSUME NEW m \in (k + 1) + 1 .. (l + 1) - 1 PROVE events[m].id # events[k + 1].id
      <3>1. m - 1 \in k + 1 .. l - 1 /\ m - 1 \in 1 .. n - 1 /\ (m - 1) + 1 = m
        BY <1>1
      <3>2. events'[m - 1].id # events'[k].id
        BY <1>8, <3>1
      <3> QED
        BY <1>1, <3>1, <3>2
    <2>3. events[k + 1].id = events[l + 1].id
      BY <1>1, <1>8
    <2>4. events[k + 1].kind # events[l + 1].kind
      BY <2>1, <2>2, <2>3 DEF ByTurns
    <2> QED
      BY <1>1, <2>4
  <1>9. ASSUME NEW x \in Ids, NEW k \in 1 .. n - 1, events'[k].id = x, IsFirst(k)'
        PROVE  events'[k].kind = "connected" <=> SlotsOf(x)' = {}
    <2>1. events'[k] = events[k + 1] /\ events[k + 1].id = x
      BY <1>1, <1>9
    <2>2. CASE x = i
      <3>1. k + 1 \in 1..n /\ events[k + 1].kind # events[1].kind
        BY <1>4, <1>9, <2>1, <2>2
      <3>2. events[k + 1].kind \in {"connected", "disconnected"}
            /\ events[1].kind \in {"connected", "disconnected"}
        BY <1>2, <1>7, <3>1
      <3> QED
        BY <1>7, <2>1, <2>2, <3>1, <3>2
    <2>3. CASE x # i
      <3>1. k + 1 \in 1..n /\ IsFirst(k + 1)
        BY <1>3, <1>9, <2>1, <2>3
      <3> QED
        BY <2>1, <2>3, <3>1 DEF ByTurns
    <2> QED
      BY <2>2, <2>3
  <1>10. ASSUME NEW x \in Ids, NEW k \in 1 .. n - 1, events'[k].id = x, IsLast(k)'
         PROVE  events'[k].kind = "connected" <=> link'[x] # Nobody
    <2>1. events'[k] = events[k + 1] /\ events[k + 1].id = x
      BY <1>1, <1>10
    <2>2. k + 1 \in 1..n /\ IsLast(k + 1)
      BY <1>5, <1>10
    <2> QED
      BY <2>1, <2>2 DEF ByTurns
  <1>11. ASSUME NEW x \in Ids, ~Pending(x)'
         PROVE  SlotsOf(x)' # {} <=> link'[x] # Nobody
    <2>1. \A k \in 2..n : events[k].id # x
      BY <1>6, <1>11
    <2>2. CASE x = i
      <3>1. IsLast(1)
        <4>1. \A m \in 1 + 1 .. n : m \in 2..n
          BY <1>1
        <4> QED
          BY <2>1, <2>2, <4>1 DEF IsLast
      <3>2. events[1].kind = "connected" <=> link[i] # Nobody
        BY <1>7, <3>1 DEF ByTurns
      <3> QED
        BY <1>7, <2>2, <3>2
    <2>3. CASE x # i
      <3>1. ~Pending(x)
        <4>1. \A k \in 1..n : k = 1 \/ k \in 2..n
          BY <1>1
        <4> QED
          BY <2>1, <2>3, <4>1 DEF Pending
      <3> QED
        BY <2>3, <3>1 DEF ByTurns
    <2> QED
      BY <2>2, <2>3
  <1> HIDE DEF n
  <1>12. \A x \in Ids, k \in 1..Len(events') :
             /\ events'[k].id = x /\ IsFirst(k)' =>
                    (events'[k].kind = "connected" <=> SlotsOf(x)' = {})
             /\ events'[k].id = x /\ IsLast(k)' =>
                    (events'[k].kind = "connected" <=> link'[x] # Nobody)
    BY <1>1, <1>9, <1>10
  <1>13. \A k, l \in 1..Len(events') :
             /\ k < l /\ events'[k].id = events'[l].id
             /\ \A m \in k + 1 .. l - 1 : events'[m].id # events'[k].id
             => events'[k].kind # events'[l].kind
    BY <1>1, <1>8
  <1>14. \A x \in Ids : ~Pending(x)' => (SlotsOf(x)' # {} <=> link'[x] # Nobody)
    BY <1>11
  <1> QED
    BY <1>12, <1>13, <1>14 DEF ByTurns

(* The seats that stay are those of other identifiers.                     *)
LEMMA DevicesPopped ==
    ASSUME BleInv, OfItsDevice, limit > 0, Pop, UNCHANGED link,
           NEW i \in Ids, events[1].id = i,
           \A s \in Slots : Open(s)' => /\ Open(s) /\ slots'[s].device = slots[s].device
                                        /\ slots'[s].id = slots[s].id /\ slots[s].id # i
    PROVE  OfItsDevice'
  <1> DEFINE n == Len(events)
  <1>1. /\ n \in Nat /\ n >= 1 /\ Len(events') = n - 1
        /\ \A k \in 1 .. n - 1 : events'[k] = events[k + 1]
    BY PopIs DEF BleInv
  <1> SUFFICES ASSUME NEW s \in Slots, NEW x \in Ids, Open(s), slots[s].id = x, x # i
               PROVE  /\ ~Pending(x)' => slots[s].device = link[x]
                      /\ \A k \in 1 .. n - 1, j \in Ids :
                             /\ events'[k].id = x /\ IsFirst(k)'
                             /\ link[j] # Nobody /\ link[j] = slots[s].device
                             => \E l \in k + 1 .. n - 1 :
                                    events'[l] = [kind |-> "connected", id |-> j]
    BY <1>1 DEF OfItsDevice
  <1>2. ~Pending(x)' => slots[s].device = link[x]
    <2> SUFFICES ASSUME ~Pending(x)' PROVE ~Pending(x)
      BY DEF OfItsDevice
    <2> SUFFICES ASSUME NEW k \in 1..n PROVE events[k].id # x
      BY DEF Pending
    <2>1. CASE k = 1
      BY <2>1
    <2>2. CASE k # 1
      <3>1. k - 1 \in 1 .. n - 1 /\ (k - 1) + 1 = k
        BY <1>1, <2>2
      <3> QED
        BY <1>1, <3>1 DEF Pending
    <2> QED
      BY <2>1, <2>2
  <1>3. ASSUME NEW k \in 1 .. n - 1, NEW j \in Ids, events'[k].id = x, IsFirst(k)',
               link[j] # Nobody, link[j] = slots[s].device
        PROVE  \E l \in k + 1 .. n - 1 : events'[l] = [kind |-> "connected", id |-> j]
    <2>1. k + 1 \in 1..n /\ events[k + 1].id = x /\ (k + 1) - 1 = k
      BY <1>1, <1>3
    <2>2. ASSUME NEW m \in 1..k PROVE events[m].id # events[k + 1].id
      <3>1. CASE m = 1
        BY <2>1, <3>1
      <3>2. CASE m # 1
        <4>1. m - 1 \in 1 .. k - 1 /\ m - 1 \in 1 .. n - 1 /\ (m - 1) + 1 = m
          BY <1>1, <3>2
        <4>2. events'[m - 1].id # events'[k].id
          BY <1>3, <4>1 DEF IsFirst
        <4> QED
          BY <1>1, <4>1, <4>2
      <3> QED
        BY <3>1, <3>2
    <2>3. IsFirst(k + 1)
      BY <2>1, <2>2 DEF IsFirst
    <2>4. PICK l \in (k + 1) + 1 .. n : events[l] = [kind |-> "connected", id |-> j]
      BY <1>3, <2>1, <2>3 DEF OfItsDevice
    <2>5. l - 1 \in k + 1 .. n - 1 /\ l - 1 \in 1 .. n - 1 /\ (l - 1) + 1 = l
      BY <1>1
    <2>6. events'[l - 1] = [kind |-> "connected", id |-> j]
      BY <1>1, <2>4, <2>5
    <2> QED
      BY <2>5, <2>6
  <1> QED
    BY <1>2, <1>3

LEMMA DoomedPopped ==
    ASSUME BleInv, limit > 0, Pop, NEW s \in Slots, slots'[s].id = slots[s].id,
           slots[s].id # events[1].id, Doomed(s)
    PROVE  Doomed(s)'
  <1>1. /\ Len(events) \in Nat /\ Len(events') = Len(events) - 1
        /\ \A k \in 1..Len(events') : events'[k] = events[k + 1]
        /\ limit' = limit - 1 /\ limit \in 0..Len(events)
    BY PopIs DEF BleInv, Types, AdapterTypes
  <1>2. PICK k \in 1..limit : events[k] = [kind |-> "disconnected", id |-> slots[s].id]
    BY DEF Doomed
  <1>3. k # 1
    BY <1>2
  <1>4. k - 1 \in 1..limit' /\ k - 1 \in 1..Len(events') /\ (k - 1) + 1 = k
    BY <1>1, <1>3
  <1>5. events'[k - 1] = [kind |-> "disconnected", id |-> slots[s].id]
    BY <1>1, <1>2, <1>4
  <1> QED
    BY <1>4, <1>5 DEF Doomed

(* While nothing is lost, no event changes nothing.                        *)
LEMMA InvIgnore == ASSUME BleInv, NothingLost, Ignore PROVE BleInv' /\ NothingLost'
  <1>1. /\ pc = "drain" /\ limit > 0 /\ Pop
        /\ \/ Head(events).kind = "connected" /\ SlotsOf(Head(events).id) # {}
           \/ Head(events).kind = "disconnected" /\ SlotsOf(Head(events).id) = {}
        /\ UNCHANGED <<link, searching, found, listeners, inbound, started, slots, ids, ports>>
        /\ UNCHANGED <<pc, cursor, sinks, available, lost>>
    BY DEF Ignore, NextEvent, stackVars, adapterVars, seatVars
  <1>2. /\ Len(events) \in Nat /\ Len(events) >= 1 /\ events' \in Seq(ConnectionEvents)
        /\ Head(events) = events[1] /\ events[1] \in ConnectionEvents
        /\ limit' \in 0..Len(events') /\ Len(events') <= RingSize
    BY <1>1, PopIs DEF BleInv
  <1>3. SlotsAlike
    BY <1>1 DEF SlotsAlike, BleInv, Types, AdapterTypes
  <1>4. LinkInv' /\ SlotInv' /\ SeatedInv'
    BY <1>1, <1>3, AlikeKeeps
  <1>5. Types'
    BY <1>1, <1>2 DEF BleInv, Types, StackTypes, AdapterTypes
  <1>6. PlaceInv'
    BY <1>1 DEF PlaceInv
  <1>7. PublishedInv'
    BY <1>1, <1>3, AlikeIs DEF BleInv, PublishedInv, InTransit
  <1>8. StaleInv'
    BY <1>1, PoppedStale DEF StaleInv
  <1>9. InboundInv'
    BY <1>1 DEF BleInv, InboundInv, Quiet, Reading
  <1>10. lost
    <2> SUFFICES ASSUME ~lost PROVE FALSE
      OBVIOUS
    <2>1. 1 \in 1..Len(events) /\ \A m : m \notin 1 .. 1 - 1
      BY <1>2
    <2>2. IsFirst(1)
      BY <2>1 DEF IsFirst
    <2>3. events[1].id \in Ids
      BY <1>2 DEF ConnectionEvents
    <2>4. events[1].kind = "connected" <=> SlotsOf(events[1].id) = {}
      BY <2>1, <2>2, <2>3 DEF NothingLost, ByTurns
    <2> QED
      BY <1>1, <1>2, <2>4
  <1>11. NothingLost'
    BY <1>1, <1>10 DEF NothingLost
  <1> QED
    BY <1>4, <1>5, <1>6, <1>7, <1>8, <1>9, <1>11 DEF BleInv

LEMMA InvAddSlot == ASSUME BleInv, NothingLost, AddSlot PROVE BleInv' /\ NothingLost'
  <1> DEFINE free == {s \in Slots : ~slots[s].used}
             new(i) == [Unused EXCEPT !.used = TRUE, !.id = i]
  <1>1. /\ pc = "drain" /\ limit > 0 /\ Pop /\ Head(events).kind = "connected"
        /\ SlotsOf(Head(events).id) = {}
        /\ slots' = IF free = {} THEN slots
                    ELSE [slots EXCEPT ![Lowest(free)] = new(Head(events).id)]
        /\ lost' = (lost \/ free = {})
        /\ UNCHANGED <<link, searching, found, listeners, inbound, started, ids, ports>>
        /\ UNCHANGED <<pc, cursor, sinks, available>>
    BY Zenon DEF AddSlot, NextEvent, stackVars, seatVars
  <1>2. PICK i \in Ids : i = Head(events).id /\ i = events[1].id
    BY <1>1, PopIs DEF BleInv, ConnectionEvents
  <1>3. /\ events' \in Seq(ConnectionEvents)
        /\ limit' \in 0..Len(events') /\ Len(events') <= RingSize
    BY <1>1, PopIs DEF BleInv
  <1>4. PICK t : t = Lowest(free)
    OBVIOUS
  <1>5. free # {} => t \in Slots /\ ~slots[t].used
    BY <1>4, LowestIs
  <1>6. slots \in [Slots -> SlotStates]
    BY DEF BleInv, Types, AdapterTypes
  <1>7. /\ new(i) \in [used : {TRUE}, discovering : {FALSE}, seated : {FALSE}, id : {i},
                       device : {Nobody}, inPort : {Nobody}, sysEx : Buffers]
    BY UnusedIs DEF Unused, SlotStates
  <1>8. new(i) \in SlotStates
    BY <1>7 DEF SlotStates
  <1> HIDE DEF free, new
  <1>9. /\ free = {} => slots' = slots
        /\ free # {} => slots' = [slots EXCEPT ![t] = new(i)]
    BY <1>1, <1>2, <1>4, Zenon
  <1>10. slots' \in [Slots -> SlotStates]
    BY <1>5, <1>6, <1>8, <1>9
  <1>11. \A s \in Slots : s # t \/ free = {} => slots'[s] = slots[s]
    BY <1>6, <1>9
  <1>12. free # {} => /\ slots'[t].used /\ ~slots'[t].discovering /\ ~slots'[t].seated
                      /\ slots'[t].id = i /\ slots'[t].device = Nobody
    BY <1>5, <1>6, <1>7, <1>9
  <1>13. \A s \in Slots : slots[s].used => slots[s].id # i
    BY <1>1, <1>2 DEF SlotsOf
  <1>14. \A s \in Slots : /\ Open(s)' <=> Open(s)
                          /\ slots[s].used => slots'[s] = slots[s]
    <2> SUFFICES ASSUME NEW s \in Slots
                 PROVE  (Open(s)' <=> Open(s)) /\ (slots[s].used => slots'[s] = slots[s])
      OBVIOUS
    <2>1. CASE s # t \/ free = {}
      BY <1>11, <2>1 DEF Open
    <2>2. CASE s = t /\ free # {}
      BY <1>5, <1>12, <2>2 DEF Open
    <2> QED
      BY <2>1, <2>2
  <1>15. Types'
    <2>1. lost' \in BOOLEAN
      BY <1>1, Zenon
    <2> QED
      BY <1>1, <1>3, <1>10, <2>1 DEF BleInv, Types, StackTypes, AdapterTypes
  <1>16. LinkInv'
    BY <1>1 DEF BleInv, LinkInv
  <1>17. PlaceInv'
    BY <1>1 DEF PlaceInv
  <1>18. SlotInv'
    BY <1>11, <1>12, <1>13 DEF BleInv, SlotInv
  <1>19. PublishedInv'
    <2> SUFFICES ASSUME NEW s \in Slots
                 PROVE  /\ ids'[s] # Nobody => Open(s)' /\ ids'[s] = slots'[s].id
                        /\ Open(s)' /\ ~InTransit(s)' => ids'[s] = slots'[s].id
                        /\ ports'[s] = (IF Open(s)' THEN slots'[s].inPort ELSE Nobody)
                        /\ Open(s)' => slots'[s].inPort \in {slots'[s].device, Nobody}
      BY DEF PublishedInv
    <2>1. ~InTransit(s)
      BY <1>1 DEF InTransit
    <2>2. CASE Open(s)
      <3>1. slots'[s] = slots[s] /\ Open(s)'
        BY <1>14, <2>2 DEF Open
      <3> QED
        BY <1>1, <2>1, <2>2, <3>1 DEF BleInv, PublishedInv
    <2>3. CASE ~Open(s)
      BY <1>1, <1>14, <2>3 DEF BleInv, PublishedInv
    <2> QED
      BY <2>2, <2>3
  <1>20. SeatedInv'
    <2> SUFFICES ASSUME NEW s \in Slots, Open(s)'
                 PROVE  /\ slots'[s].id \notin searching
                        /\ slots'[s].id \in found => slots'[s].device = link[slots'[s].id]
      BY <1>1 DEF SeatedInv
    <2>1. Open(s) /\ slots'[s] = slots[s]
      BY <1>14 DEF Open
    <2> QED
      BY <2>1 DEF BleInv, SeatedInv
  <1>21. StaleInv'
    <2> SUFFICES ASSUME NEW k \in 1..Len(events'), NEW s \in Slots,
                        events'[k].kind = "disconnected", events'[k].id = slots'[s].id,
                        slots'[s].used, slots'[s].discovering,
                        slots'[s].id \in searching \cup found
                 PROVE  ~slots'[s].seated /\ k <= limit'
      BY <1>1 DEF StaleInv
    <2>1. slots'[s] = slots[s]
      BY <1>11, <1>12
    <2> QED
      BY <1>1, <2>1, PoppedStale
  <1>22. InboundInv'
    BY <1>1 DEF BleInv, InboundInv, Quiet, Reading
  <1>23. ASSUME ~lost' PROVE Undisturbed' /\ ByTurns' /\ OfItsDevice' /\ AvailableInv'
    <2>1. ~lost /\ free # {}
      BY <1>1, <1>23, Zenon
    <2>2. Undisturbed /\ ByTurns /\ OfItsDevice /\ AvailableInv
      BY <2>1 DEF NothingLost
    <2>3. Undisturbed'
      BY <1>1, <2>2 DEF Undisturbed
    <2>4. ASSUME NEW x \in Ids, x # i PROVE SlotsOf(x)' = SlotsOf(x)
      <3>1. \A s \in Slots : slots'[s].used /\ slots'[s].id = x <=> slots[s].used /\ slots[s].id = x
        <4> SUFFICES ASSUME NEW s \in Slots
                     PROVE  slots'[s].used /\ slots'[s].id = x <=> slots[s].used /\ slots[s].id = x
          OBVIOUS
        <4>1. CASE s # t
          BY <1>11, <4>1
        <4>2. CASE s = t
          BY <1>5, <1>12, <2>1, <2>4, <4>2
        <4> QED
          BY <4>1, <4>2
      <3> QED
        BY <3>1 DEF SlotsOf
    <2>5. SlotsOf(i)' # {} /\ SlotsOf(i) = {}
      BY <1>1, <1>2, <1>5, <1>12, <2>1 DEF SlotsOf
    <2>6. ByTurns'
      BY <1>1, <1>2, <2>2, <2>4, <2>5, TurnsPopped
    <2>7. \A s \in Slots : Open(s)' => /\ Open(s) /\ slots'[s] = slots[s] /\ slots[s].id # i
      BY <1>13, <1>14 DEF Open
    <2>8. OfItsDevice'
      BY <1>1, <1>2, <2>2, <2>7, DevicesPopped
    <2>9. AvailableInv'
      <3>1. OpenSlots' = OpenSlots /\ \A s \in OpenSlots : s \in Slots /\ Open(s)'
        BY <1>14 DEF OpenSlots
      <3>2. \A s \in OpenSlots : slots'[s].device = slots[s].device
        BY <2>7, <3>1
      <3>3. \A s \in OpenSlots : Doomed(s) => Doomed(s)'
        BY <1>1, <1>2, <2>7, <3>1, DoomedPopped
      <3> QED
        BY <1>1, <2>2, <3>1, <3>2, <3>3 DEF AvailableInv
    <2> QED
      BY <2>3, <2>6, <2>8, <2>9
  <1>24. NothingLost'
    BY <1>23 DEF NothingLost
  <1> QED
    BY <1>15, <1>16, <1>17, <1>18, <1>19, <1>20, <1>21, <1>22, <1>24 DEF BleInv

LEMMA InvWithdraw ==
    ASSUME BleInv, NothingLost, NEW s \in Slots, Withdraw(s)
    PROVE  BleInv' /\ NothingLost'
  <1>1. /\ slots[s].used /\ cursor' = s /\ ids' = [ids EXCEPT ![s] = Nobody]
        /\ \/ /\ pc = "drain" /\ pc' = "release" /\ limit > 0
              /\ Head(events).kind = "disconnected" /\ s \in SlotsOf(Head(events).id)
           \/ pc = "ending" /\ pc' = "releaseAll"
        /\ inbound' = IF Quiet THEN inbound
                      ELSE [inbound EXCEPT !.seat = IF @ = s THEN 0 ELSE @,
                                           !.ended = @ \/ pc = "ending"]
        /\ UNCHANGED <<link, searching, found, listeners, events, started, slots, ports>>
        /\ UNCHANGED <<limit, sinks, available, lost>>
    BY DEF Withdraw, WithdrawnId, NextEvent, stackVars, ringVars, seatVars
  <1>2. SlotsAlike
    BY <1>1 DEF SlotsAlike, BleInv, Types, AdapterTypes
  <1>3. LinkInv' /\ SlotInv' /\ SeatedInv'
    BY <1>1, <1>2, AlikeKeeps
  <1>4. /\ ids \in [Slots -> Ids \cup {Nobody}] /\ NumSlots \in Nat /\ Len(events) \in Nat
        /\ limit \in 0..Len(events) /\ Nobody \notin Ids
    BY BleHostAssumption, LenProperties DEF BleInv, Types, StackTypes, AdapterTypes
  <1>5. ids'[s] = Nobody /\ \A t \in Slots : t # s => ids'[t] = ids[t]
    BY <1>1, <1>4
  <1>6. pc = "drain" => /\ events[1].kind = "disconnected" /\ events[1].id = slots[s].id
                        /\ 1 \in 1..Len(events)
    <2> SUFFICES ASSUME pc = "drain"
                 PROVE  /\ events[1].kind = "disconnected" /\ events[1].id = slots[s].id
                        /\ 1 \in 1..Len(events)
      OBVIOUS
    <2>1. /\ limit > 0 /\ Head(events).kind = "disconnected" /\ Head(events).id = slots[s].id
      BY <1>1 DEF SlotsOf
    <2>2. 1 \in 1..Len(events) /\ events # << >>
      BY <1>4, <2>1, EmptySeq
    <2>3. Head(events) = events[1]
      BY <2>2, HeadTailProperties DEF BleInv, Types, StackTypes
    <2> QED
      BY <2>1, <2>2, <2>3
  <1>7. Types'
    <2>1. cursor' \in 1 .. NumSlots + 1
      BY <1>1, <1>4 DEF Slots
    <2>2. ids' \in [Slots -> Ids \cup {Nobody}] /\ pc' \in {"release", "releaseAll"}
      BY <1>1, <1>4
    <2> QED
      BY <1>1, <2>1, <2>2 DEF BleInv, Types, StackTypes, AdapterTypes
  <1>8. PlaceInv'
    <2>1. pc' = "release" => pc = "drain" /\ limit > 0
      BY <1>1
    <2>2. pc' \in {"release", "releaseAll"}
      BY <1>1
    <2> QED
      BY <1>1, <1>5, <1>6, <2>1, <2>2 DEF PlaceInv
  <1>9. PublishedInv'
    <2> SUFFICES ASSUME NEW t \in Slots
                 PROVE  /\ ids'[t] # Nobody => Open(t) /\ ids'[t] = slots[t].id
                        /\ Open(t) /\ ~InTransit(t)' => ids'[t] = slots[t].id
                        /\ ports[t] = (IF Open(t) THEN slots[t].inPort ELSE Nobody)
                        /\ Open(t) => slots[t].inPort \in {slots[t].device, Nobody}
      BY <1>1, <1>2, AlikeIs DEF PublishedInv
    <2>1. ~InTransit(t) /\ InTransit(s)'
      BY <1>1 DEF InTransit
    <2> QED
      BY <1>5, <2>1 DEF BleInv, PublishedInv
  <1>10. StaleInv'
    <2>1. pc' \notin {"slots", "seat", "publish"} /\ (pc' \in {"drain", "release"} => pc = "drain")
      BY <1>1
    <2> QED
      BY <1>1, <2>1 DEF BleInv, StaleInv
  <1>11. InboundInv'
    <2>1. CASE Quiet
      BY <1>1, <2>1 DEF InboundInv, Quiet
    <2>2. CASE ~Quiet
      <3>1. /\ inbound \in [at : 1 .. NumSlots + NumSlots, id : found, from : Devices,
                            seat : 0..NumSlots, ended : BOOLEAN]
            /\ inbound.from = link[inbound.id]
            /\ inbound.seat # 0 =>
                   /\ ids[inbound.seat] = inbound.id /\ ports[inbound.seat] # Nobody
                   /\ inbound.at <= inbound.seat \/ inbound.at = NumSlots + inbound.seat
            /\ Reading /\ ~inbound.ended => ids[inbound.at - NumSlots] = inbound.id
        BY <2>2 DEF BleInv, InboundInv
      <3> DEFINE seat == IF inbound.seat = s THEN 0 ELSE inbound.seat
                 ended == inbound.ended \/ pc = "ending"
      <3>2. inbound' = [inbound EXCEPT !.seat = seat, !.ended = ended]
        BY <1>1, <2>2
      <3>3. seat \in 0..NumSlots /\ (seat # 0 => seat = inbound.seat /\ seat # s)
        BY <1>4, <3>1
      <3>4. ended \in BOOLEAN /\ (~ended => ~inbound.ended /\ pc # "ending")
        BY <3>1
      <3> HIDE DEF seat, ended
      <3>5. inbound' \in [at : {inbound.at}, id : {inbound.id}, from : {inbound.from},
                          seat : {seat}, ended : {ended}]
        BY <3>1, <3>2
      <3>6. inbound' \in [at : 1 .. NumSlots + NumSlots, id : found, from : Devices,
                          seat : 0..NumSlots, ended : BOOLEAN]
        BY <3>1, <3>3, <3>4, <3>5
      <3>7. seat # 0 => ids'[seat] = inbound.id
        <4> SUFFICES ASSUME seat # 0 PROVE ids'[seat] = inbound.id
          OBVIOUS
        <4>1. seat \in Slots
          BY <1>4, <3>3 DEF Slots
        <4> QED
          BY <1>5, <3>1, <3>3, <4>1
      <3>8. ASSUME Reading, ~ended PROVE ids'[inbound.at - NumSlots] = inbound.id
        <4> DEFINE r == inbound.at - NumSlots
        <4>1. r \in Slots
          BY <1>4, <3>1, <3>8 DEF Reading, Slots
        <4>2. ids[r] = inbound.id /\ inbound.id \in found /\ inbound.id # Nobody
          BY <1>4, <3>1, <3>4, <3>8 DEF BleInv, Types, StackTypes
        <4>3. Open(r) /\ slots[r].id = inbound.id
          BY <4>1, <4>2 DEF BleInv, PublishedInv
        <4>4. pc = "drain"
          BY <1>1, <3>4, <3>8
        <4>5. r # s
          <5> SUFFICES ASSUME r = s PROVE FALSE
            OBVIOUS
          <5> HIDE DEF r
          <5>1. slots[s].used /\ slots[s].seated /\ slots[s].id \in found
            BY <4>2, <4>3 DEF Open
          <5>2. slots[s].discovering
            BY <5>1 DEF BleInv, SlotInv
          <5> QED
            BY <1>6, <4>4, <5>1, <5>2 DEF BleInv, StaleInv
        <4> QED
          BY <1>5, <4>1, <4>2, <4>5
      <3>9. /\ inbound'.at = inbound.at /\ inbound'.id = inbound.id /\ inbound'.seat = seat
            /\ inbound'.from = inbound.from /\ inbound'.ended = ended
        BY <3>5
      <3>10. seat # 0 => inbound.at <= seat \/ inbound.at = NumSlots + seat
        BY <3>1, <3>3
      <3> QED
        BY <1>1, <3>1, <3>6, <3>7, <3>8, <3>9, <3>10 DEF InboundInv, Reading
    <2> QED
      BY <2>1, <2>2
  <1>12. ASSUME ~lost' PROVE Undisturbed' /\ ByTurns' /\ OfItsDevice' /\ AvailableInv'
    <2>1. ~lost /\ Undisturbed /\ ByTurns /\ OfItsDevice /\ AvailableInv
      BY <1>1, <1>12 DEF NothingLost
    <2>2. pc = "drain" /\ pc' = "release"
      BY <1>1, <2>1 DEF Undisturbed
    <2>3. Undisturbed'
      BY <1>1, <2>1, <2>2 DEF Undisturbed
    <2>4. ByTurns' /\ OfItsDevice'
      BY <1>1, <1>2, <2>1, AlikeTrace
    <2>5. OpenSlots' = OpenSlots
      BY <1>2, AlikeIs
    <2>6. \A t : Doomed(t)' <=> Doomed(t)
      BY <1>1 DEF Doomed
    <2> QED
      BY <1>1, <2>1, <2>2, <2>3, <2>4, <2>5, <2>6 DEF AvailableInv
  <1>13. NothingLost'
    BY <1>12 DEF NothingLost
  <1> QED
    BY <1>3, <1>7, <1>8, <1>9, <1>10, <1>11, <1>13 DEF BleInv

LEMMA InvRelease == ASSUME BleInv, NothingLost, Release PROVE BleInv' /\ NothingLost'
  <1>1. PICK c : c = cursor
    OBVIOUS
  <1>2. /\ pc \in {"release", "releaseAll"} /\ ports' = [ports EXCEPT ![c] = Nobody]
        /\ slots' = [slots EXCEPT ![c] = Unused] /\ available' = available \ {slots[c].device}
        /\ \/ pc = "release" /\ Pop /\ pc' = "drain"
           \/ pc = "releaseAll" /\ pc' = "ending" /\ UNCHANGED <<events, limit>>
        /\ UNCHANGED <<link, searching, found, listeners, inbound, started, ids>>
        /\ UNCHANGED <<cursor, sinks, lost>>
    BY <1>1 DEF Release, Withdrawn, stackVars
  <1>3. /\ c \in Slots /\ slots[c].used /\ ids[c] = Nobody
        /\ pc = "release" => /\ limit > 0 /\ events[1].kind = "disconnected"
                             /\ events[1].id = slots[c].id
    BY <1>1, <1>2 DEF BleInv, PlaceInv
  <1>4. slots \in [Slots -> SlotStates] /\ ports \in [Slots -> Devices \cup {Nobody}]
    BY DEF BleInv, Types, AdapterTypes
  <1>5. /\ slots' \in [Slots -> SlotStates] /\ ports' \in [Slots -> Devices \cup {Nobody}]
        /\ slots'[c] = Unused /\ ports'[c] = Nobody
        /\ \A s \in Slots : s # c => slots'[s] = slots[s] /\ ports'[s] = ports[s]
    BY <1>2, <1>3, <1>4, UnusedIs
  <1>6. /\ events' \in Seq(ConnectionEvents) /\ limit' \in 0..Len(events')
        /\ Len(events') <= RingSize
    BY <1>2, <1>3, PopIs DEF BleInv, Types, StackTypes, AdapterTypes
  <1>7. ~Open(c)' /\ \A s \in Slots : s # c => (Open(s)' <=> Open(s))
    BY <1>3, <1>5, UnusedIs DEF Open
  <1>8. Types'
    <2>1. pc' \in {"drain", "ending"}
      BY <1>2
    <2> QED
      BY <1>2, <1>5, <1>6, <2>1 DEF BleInv, Types, StackTypes, AdapterTypes
  <1>9. LinkInv'
    BY <1>2 DEF BleInv, LinkInv
  <1>10. PlaceInv'
    BY <1>2 DEF PlaceInv
  <1>11. SlotInv'
    BY <1>5, UnusedIs DEF BleInv, SlotInv
  <1>12. PublishedInv'
    <2> SUFFICES ASSUME NEW s \in Slots
                 PROVE  /\ ids'[s] # Nobody => Open(s)' /\ ids'[s] = slots'[s].id
                        /\ Open(s)' /\ ~InTransit(s)' => ids'[s] = slots'[s].id
                        /\ ports'[s] = (IF Open(s)' THEN slots'[s].inPort ELSE Nobody)
                        /\ Open(s)' => slots'[s].inPort \in {slots'[s].device, Nobody}
      BY DEF PublishedInv
    <2>1. CASE s = c
      BY <1>2, <1>3, <1>5, <1>7, <2>1
    <2>2. CASE s # c
      <3>1. ~InTransit(s)
        BY <1>1, <2>2 DEF InTransit
      <3> QED
        BY <1>2, <1>5, <1>7, <2>2, <3>1 DEF BleInv, PublishedInv
    <2> QED
      BY <2>1, <2>2
  <1>13. SeatedInv'
    <2> SUFFICES ASSUME NEW s \in Slots, Open(s)'
                 PROVE  /\ slots'[s].id \notin searching
                        /\ slots'[s].id \in found => slots'[s].device = link[slots'[s].id]
      BY <1>2 DEF SeatedInv
    <2> QED
      BY <1>5, <1>7 DEF BleInv, SeatedInv
  <1>14. StaleInv'
    <2> SUFFICES ASSUME NEW k \in 1..Len(events'), NEW s \in Slots,
                        events'[k].kind = "disconnected", events'[k].id = slots'[s].id,
                        slots'[s].used, slots'[s].discovering,
                        slots'[s].id \in searching \cup found
                 PROVE  ~slots'[s].seated /\ (pc' = "drain" => k <= limit')
      BY <1>2 DEF StaleInv
    <2>1. s # c /\ slots'[s] = slots[s]
      BY <1>5, UnusedIs
    <2>2. CASE pc = "release"
      BY <1>2, <1>3, <2>1, <2>2, PoppedStale
    <2>3. CASE pc = "releaseAll"
      BY <1>2, <2>1, <2>3 DEF BleInv, StaleInv
    <2> QED
      BY <1>2, <2>2, <2>3
  <1>15. InboundInv'
    BY <1>2, <1>3, <1>5, HeardElsewhere
  <1>16. ASSUME ~lost' PROVE Undisturbed' /\ ByTurns' /\ OfItsDevice' /\ AvailableInv'
    <2>1. ~lost /\ Undisturbed /\ ByTurns /\ OfItsDevice /\ AvailableInv
      BY <1>2, <1>16 DEF NothingLost
    <2>2. pc = "release" /\ pc' = "drain" /\ Pop
      BY <1>2, <2>1 DEF Undisturbed
    <2>3. Undisturbed'
      BY <1>2, <2>1, <2>2 DEF Undisturbed
    <2>4. PICK i \in Ids : i = events[1].id /\ i = slots[c].id
      BY <1>3, <2>2 DEF BleInv, SlotInv
    <2>5. \A s \in Slots : s # c /\ slots[s].used => slots[s].id # i
      BY <1>3, <2>4 DEF BleInv, SlotInv
    <2>6. ASSUME NEW x \in Ids, x # i PROVE SlotsOf(x)' = SlotsOf(x)
      <3>1. c \notin SlotsOf(x) /\ c \notin SlotsOf(x)'
        BY <1>5, <2>4, <2>6, UnusedIs DEF SlotsOf
      <3> QED
        BY <1>5, <3>1 DEF SlotsOf
    <2>7. SlotsOf(i)' = {} /\ SlotsOf(i) # {}
      <3>1. \A s \in Slots : ~(slots'[s].used /\ slots'[s].id = i)
        BY <1>5, <2>5, UnusedIs
      <3>2. SlotsOf(i)' = {}
        BY <3>1 DEF SlotsOf
      <3> QED
        BY <1>3, <2>4, <3>2 DEF SlotsOf
    <2>8. ByTurns'
      BY <1>2, <1>3, <2>1, <2>2, <2>4, <2>6, <2>7, TurnsPopped
    <2>9. \A s \in Slots : Open(s)' => /\ s # c /\ Open(s) /\ slots'[s] = slots[s]
                                       /\ slots[s].id # i
      <3> SUFFICES ASSUME NEW s \in Slots, Open(s)'
                   PROVE  s # c /\ Open(s) /\ slots'[s] = slots[s] /\ slots[s].id # i
        OBVIOUS
      <3>1. s # c
        BY <1>7
      <3>2. Open(s) /\ slots'[s] = slots[s]
        BY <1>5, <1>7, <3>1
      <3> QED
        BY <2>5, <3>1, <3>2 DEF Open
    <2>10. OfItsDevice'
      BY <1>2, <1>3, <2>1, <2>2, <2>4, <2>9, DevicesPopped
    <2>11. AvailableInv'
      <3>1. \A s : s \in OpenSlots' <=> s \in OpenSlots /\ s # c
        BY <1>7 DEF OpenSlots
      <3>2. \A s \in OpenSlots' : /\ s \in Slots /\ slots'[s] = slots[s] /\ slots[s].id # i
                                  /\ Doomed(s) => Doomed(s)'
        <4> SUFFICES ASSUME NEW s \in OpenSlots'
                     PROVE  /\ s \in Slots /\ slots'[s] = slots[s] /\ slots[s].id # i
                            /\ Doomed(s) => Doomed(s)'
          OBVIOUS
        <4>1. s \in Slots /\ slots'[s] = slots[s] /\ slots[s].id # i
          BY <2>9 DEF OpenSlots
        <4> QED
          BY <1>3, <2>2, <2>4, <4>1, DoomedPopped
      <3>3. c \in OpenSlots \/ slots[c].device = Nobody
        BY <1>3 DEF BleInv, SlotInv, OpenSlots, Open
      <3>4. ASSUME NEW s \in OpenSlots', slots[s].device = slots[c].device
            PROVE  Doomed(s)
        BY <2>1, <2>2, <3>1, <3>3, <3>4 DEF AvailableInv
      <3>5. available' \subseteq {slots'[s].device : s \in OpenSlots'}
        <4> SUFFICES ASSUME NEW a \in available, a # slots[c].device
                     PROVE  \E s \in OpenSlots' : slots'[s].device = a
          BY <1>2
        <4>1. PICK s \in OpenSlots : slots[s].device = a
          BY <2>1 DEF AvailableInv
        <4> QED
          BY <3>1, <3>2, <4>1
      <3>6. \A s \in OpenSlots' : slots'[s].device \in available' \/ Doomed(s)'
        <4> SUFFICES ASSUME NEW s \in OpenSlots'
                     PROVE  slots[s].device \in available' \/ Doomed(s)'
          BY <3>2
        <4>1. CASE slots[s].device = slots[c].device
          BY <3>2, <3>4, <4>1
        <4>2. CASE slots[s].device # slots[c].device
          <5>1. slots[s].device \in available \/ Doomed(s)
            BY <2>1, <3>1 DEF AvailableInv
          <5> QED
            BY <1>2, <3>2, <4>2, <5>1
        <4> QED
          BY <4>1, <4>2
      <3>7. /\ \A s, t \in OpenSlots' :
                   s # t /\ slots'[s].device = slots'[t].device => Doomed(s)'
            /\ \A s \in OpenSlots' : slots'[s].device = Nobody => Doomed(s)'
        BY <2>1, <2>2, <3>1, <3>2 DEF AvailableInv
      <3> QED
        BY <2>2, <3>5, <3>6, <3>7 DEF AvailableInv
    <2> QED
      BY <2>3, <2>8, <2>10, <2>11
  <1>17. NothingLost'
    BY <1>16 DEF NothingLost
  <1> QED
    BY <1>8, <1>9, <1>10, <1>11, <1>12, <1>13, <1>14, <1>15, <1>17 DEF BleInv
-----------------------------------------------------------------------------
(* The slots that have no seat yet.                                        *)
LEMMA InvDiscoveryStarts ==
    ASSUME BleInv, NothingLost, DiscoveryStarts
    PROVE  BleInv' /\ NothingLost'
  <1>1. PICK c : c = cursor
    OBVIOUS
  <1>2. PICK i : i = slots[c].id
    OBVIOUS
  <1>3. /\ pc = "slots" /\ c \in Slots /\ slots[c].used /\ ~slots[c].seated
        /\ ~slots[c].discovering /\ link[i] # Nobody
        /\ slots' = [slots EXCEPT ![c].discovering = TRUE]
        /\ searching' = searching \cup ({i} \ found) /\ cursor' = c + 1
        /\ UNCHANGED <<link, found, listeners, events, inbound, started, ids, ports>>
        /\ UNCHANGED <<pc, limit, sinks, available, lost>>
    BY <1>1, <1>2 DEF DiscoveryStarts, Waiting, AtSlot, ringVars, seatVars
  <1>4. i \in Ids /\ NumSlots \in Nat /\ cursor \in 1 .. NumSlots + 1
    BY <1>2, <1>3, BleHostAssumption DEF BleInv, SlotInv, Types, AdapterTypes
  <1>5. slots \in [Slots -> SlotStates]
    BY DEF BleInv, Types, AdapterTypes
  <1>6. slots[c] \in SlotStates
    BY <1>3, <1>5
  <1>7. slots'[c] \in [used : {slots[c].used}, discovering : {TRUE}, seated : {slots[c].seated},
                       id : {i}, device : {slots[c].device}, inPort : {slots[c].inPort},
                       sysEx : {slots[c].sysEx}]
    BY <1>2, <1>3, <1>5, <1>6 DEF SlotStates
  <1>8. slots'[c] \in SlotStates
    BY <1>2, <1>6, <1>7 DEF SlotStates
  <1>9. slots' \in [Slots -> SlotStates] /\ \A s \in Slots : s # c => slots'[s] = slots[s]
    <2>1. slots' = [s \in Slots |-> slots'[s]] /\ \A s \in Slots : s # c => slots'[s] = slots[s]
      BY <1>3, <1>5
    <2> QED
      BY <1>5, <1>8, <2>1
  <1>10. SeatsAlike
    <2> SUFFICES ASSUME NEW s \in Slots
                 PROVE  /\ slots'[s].used = slots[s].used /\ slots'[s].seated = slots[s].seated
                        /\ slots'[s].id = slots[s].id /\ slots'[s].device = slots[s].device
                        /\ slots'[s].inPort = slots[s].inPort
      BY DEF SeatsAlike
    <2>1. CASE s = c
      BY <1>2, <1>7, <2>1
    <2>2. CASE s # c
      BY <1>9, <2>2
    <2> QED
      BY <2>1, <2>2
  <1>11. \A s \in Slots : slots[s].used /\ s # c => slots[s].id # i
    BY <1>2, <1>3 DEF BleInv, SlotInv
  <1>12. Types'
    <2>1. cursor' \in 1 .. NumSlots + 1
      BY <1>1, <1>3, <1>4 DEF Slots
    <2>2. searching' \in SUBSET Ids
      BY <1>3, <1>4 DEF BleInv, Types, StackTypes
    <2> QED
      BY <1>3, <1>9, <2>1, <2>2 DEF BleInv, Types, StackTypes, AdapterTypes
  <1>13. LinkInv'
    BY <1>3 DEF BleInv, LinkInv
  <1>14. PlaceInv'
    BY <1>3 DEF PlaceInv
  <1>15. SlotInv'
    <2> SUFFICES ASSUME NEW s \in Slots
                 PROVE  /\ slots'[s].used => slots'[s].id \in Ids
                        /\ slots'[s].seated => slots'[s].used /\ slots'[s].discovering
                        /\ slots'[s].used /\ ~slots'[s].seated => slots'[s].device = Nobody
                        /\ \A t \in Slots : slots'[s].used /\ slots'[t].used
                                            /\ slots'[s].id = slots'[t].id => s = t
      BY DEF SlotInv
    <2>1. slots'[s].seated => slots'[s].used /\ slots'[s].discovering
      <3>1. CASE s = c
        BY <1>3, <1>7, <3>1
      <3>2. CASE s # c
        BY <1>9, <3>2 DEF BleInv, SlotInv
      <3> QED
        BY <3>1, <3>2
    <2> QED
      BY <1>10, <2>1 DEF BleInv, SlotInv, SeatsAlike
  <1>16. PublishedInv'
    BY <1>3, <1>10, SeatsAlikeIs DEF BleInv, PublishedInv, InTransit, SeatsAlike
  <1>17. SeatedInv'
    <2> SUFFICES ASSUME NEW s \in Slots, Open(s)
                 PROVE  /\ slots[s].id \notin searching'
                        /\ slots[s].id \in found => slots[s].device = link[slots[s].id]
      BY <1>3, <1>10, SeatsAlikeIs DEF SeatedInv, SeatsAlike
    <2>1. slots[s].id # i
      BY <1>3, <1>11 DEF Open
    <2> QED
      BY <1>3, <2>1 DEF BleInv, SeatedInv
  <1>18. StaleInv'
    <2> SUFFICES ASSUME NEW k \in 1..Len(events), NEW s \in Slots,
                        events[k].kind = "disconnected", events[k].id = slots'[s].id,
                        slots'[s].used, slots'[s].discovering,
                        slots'[s].id \in searching' \cup found
                 PROVE  ~slots'[s].seated /\ s < c + 1
      BY <1>3 DEF StaleInv
    <2>1. CASE s = c
      BY <1>3, <1>4, <1>7, <2>1 DEF Slots
    <2>2. CASE s # c
      <3>1. slots'[s] = slots[s] /\ slots[s].id \in searching \cup found
        BY <1>3, <1>9, <1>11, <2>2
      <3>2. ~slots[s].seated /\ s < c
        BY <1>1, <1>3, <3>1 DEF BleInv, StaleInv
      <3> QED
        BY <1>3, <1>4, <3>1, <3>2 DEF Slots
    <2> QED
      BY <2>1, <2>2
  <1>19. InboundInv'
    BY <1>3 DEF BleInv, InboundInv, Quiet, Reading
  <1>20. ASSUME ~lost' PROVE Undisturbed' /\ ByTurns' /\ OfItsDevice' /\ AvailableInv'
    <2>1. ~lost /\ Undisturbed /\ ByTurns /\ OfItsDevice /\ AvailableInv
      BY <1>3, <1>20 DEF NothingLost
    <2>2. Undisturbed'
      BY <1>3, <2>1 DEF Undisturbed
    <2>3. ByTurns' /\ OfItsDevice'
      BY <1>3, <1>10, <2>1, SeatsTrace
    <2>4. /\ OpenSlots' = OpenSlots /\ \A s \in OpenSlots : s \in Slots
          /\ \A s \in OpenSlots : slots'[s].device = slots[s].device
      BY <1>10, SeatsAlikeIs DEF SeatsAlike
    <2> QED
      BY <1>3, <2>1, <2>2, <2>3, <2>4 DEF AvailableInv
  <1>21. NothingLost'
    BY <1>20 DEF NothingLost
  <1> QED
    BY <1>12, <1>13, <1>14, <1>15, <1>16, <1>17, <1>18, <1>19, <1>21 DEF BleInv

LEMMA InvSeat == ASSUME BleInv, NothingLost, Seat PROVE BleInv' /\ NothingLost'
  <1>1. PICK c : c = cursor
    OBVIOUS
  <1>2. PICK i : i = slots[c].id
    OBVIOUS
  <1>3. PICK d : d = link[i]
    OBVIOUS
  <1> DEFINE port == IF <<d, "in">> \in attached' THEN d ELSE Nobody
  <1>4. /\ pc = "seat" /\ pc' = "publish" /\ available' = available \cup {d}
        /\ slots' = [slots EXCEPT ![c].seated = TRUE, ![c].device = d, ![c].inPort = port]
        /\ sinks' = [x \in DOMAIN sinks \cup {y \in {d} \cap Devices : <<y, "out">> \in attached'} |->
                        IF x = d THEN c ELSE sinks[x]]
        /\ ports' = [ports EXCEPT ![c] = port]
        /\ UNCHANGED <<link, searching, found, listeners, events, inbound, started, ids>>
        /\ UNCHANGED <<cursor, limit, lost>>
    BY <1>1, <1>2, <1>3 DEF Seat, stackVars, ringVars
  <1> port \in {d, Nobody}
    OBVIOUS
  <1> HIDE DEF port
  <1>5. /\ c \in Slots /\ slots[c].used /\ ids[c] = Nobody /\ slots[c].discovering
        /\ ~slots[c].seated /\ i \notin searching /\ i \in Ids
    BY <1>1, <1>2, <1>4 DEF BleInv, PlaceInv, SlotInv
  <1>6. d \in Devices \cup {Nobody}
    BY <1>3, <1>5 DEF BleInv, Types, StackTypes
  <1>7. /\ slots \in [Slots -> SlotStates] /\ ports \in [Slots -> Devices \cup {Nobody}]
        /\ slots[c] \in SlotStates
    BY <1>5 DEF BleInv, Types, AdapterTypes
  <1>8. slots'[c] \in [used : {TRUE}, discovering : {TRUE}, seated : {TRUE}, id : {i},
                       device : {d}, inPort : {port}, sysEx : {slots[c].sysEx}]
    BY <1>2, <1>4, <1>5, <1>7 DEF SlotStates
  <1>9. slots'[c] \in SlotStates
    BY <1>5, <1>6, <1>7, <1>8 DEF SlotStates
  <1>10. slots' \in [Slots -> SlotStates] /\ \A s \in Slots : s # c => slots'[s] = slots[s]
    <2>1. slots' = [s \in Slots |-> slots'[s]] /\ \A s \in Slots : s # c => slots'[s] = slots[s]
      BY <1>4, <1>7
    <2> QED
      BY <1>7, <1>9, <2>1
  <1>11. /\ ports' \in [Slots -> Devices \cup {Nobody}] /\ ports'[c] = port
         /\ \A s \in Slots : s # c => ports'[s] = ports[s]
    BY <1>4, <1>5, <1>6, <1>7
  <1>12. Open(c)' /\ ~Open(c) /\ \A s \in Slots : s # c => (Open(s)' <=> Open(s))
    BY <1>5, <1>8, <1>10 DEF Open
  <1>13. \A s \in Slots : slots[s].used /\ s # c => slots[s].id # i
    BY <1>2, <1>5 DEF BleInv, SlotInv
  <1>14. Types'
    <2>1. \A x \in DOMAIN sinks' : sinks'[x] \in Slots
      BY <1>4, <1>5 DEF BleInv, Types, AdapterTypes
    <2> QED
      BY <1>4, <1>10, <1>11, <2>1 DEF BleInv, Types, StackTypes, AdapterTypes
  <1>15. LinkInv'
    BY <1>4 DEF BleInv, LinkInv
  <1>16. PlaceInv'
    BY <1>1, <1>4, <1>5, <1>8 DEF PlaceInv
  <1>17. SlotInv'
    <2> SUFFICES ASSUME NEW s \in Slots
                 PROVE  /\ slots'[s].used => slots'[s].id \in Ids
                        /\ slots'[s].seated => slots'[s].used /\ slots'[s].discovering
                        /\ slots'[s].used /\ ~slots'[s].seated => slots'[s].device = Nobody
                        /\ \A t \in Slots : slots'[s].used /\ slots'[t].used
                                            /\ slots'[s].id = slots'[t].id => s = t
      BY DEF SlotInv
    <2>1. CASE s = c
      BY <1>5, <1>8, <1>10, <1>13, <2>1
    <2>2. CASE s # c
      <3>1. slots'[s] = slots[s]
        BY <1>10, <2>2
      <3>2. \A t \in Slots : slots'[s].used /\ slots'[t].used
                             /\ slots'[s].id = slots'[t].id => s = t
        <4> SUFFICES ASSUME NEW t \in Slots, slots'[s].used, slots'[t].used,
                            slots'[s].id = slots'[t].id
                     PROVE  s = t
          OBVIOUS
        <4>1. t # c
          BY <1>8, <1>13, <2>2, <3>1
        <4> QED
          BY <1>10, <3>1, <4>1 DEF BleInv, SlotInv
      <3> QED
        BY <3>1, <3>2 DEF BleInv, SlotInv
    <2> QED
      BY <2>1, <2>2
  <1>18. PublishedInv'
    <2> SUFFICES ASSUME NEW s \in Slots
                 PROVE  /\ ids[s] # Nobody => Open(s)' /\ ids[s] = slots'[s].id
                        /\ Open(s)' /\ ~InTransit(s)' => ids[s] = slots'[s].id
                        /\ ports'[s] = (IF Open(s)' THEN slots'[s].inPort ELSE Nobody)
                        /\ Open(s)' => slots'[s].inPort \in {slots'[s].device, Nobody}
      BY <1>4 DEF PublishedInv
    <2>1. CASE s = c
      <3>1. InTransit(s)'
        BY <1>1, <1>4, <2>1 DEF InTransit
      <3> QED
        BY <1>5, <1>8, <1>11, <1>12, <2>1, <3>1
    <2>2. CASE s # c
      <3>1. ~InTransit(s)
        BY <1>4 DEF InTransit
      <3> QED
        BY <1>10, <1>11, <1>12, <2>2, <3>1 DEF BleInv, PublishedInv
    <2> QED
      BY <2>1, <2>2
  <1>19. SeatedInv'
    <2> SUFFICES ASSUME NEW s \in Slots, Open(s)'
                 PROVE  /\ slots'[s].id \notin searching
                        /\ slots'[s].id \in found => slots'[s].device = link[slots'[s].id]
      BY <1>4 DEF SeatedInv
    <2>1. CASE s = c
      BY <1>3, <1>5, <1>8, <2>1
    <2>2. CASE s # c
      BY <1>10, <1>12, <2>2 DEF BleInv, SeatedInv
    <2> QED
      BY <2>1, <2>2
  <1>20. StaleInv'
    <2> SUFFICES ASSUME NEW k \in 1..Len(events), NEW s \in Slots,
                        events[k].kind = "disconnected", events[k].id = slots'[s].id,
                        slots'[s].used, slots'[s].discovering,
                        slots'[s].id \in searching \cup found
                 PROVE  ~slots'[s].seated /\ s < c
      BY <1>1, <1>4 DEF StaleInv
    <2>1. s # c
      <3> SUFFICES ASSUME s = c PROVE FALSE
        OBVIOUS
      <3>1. slots[c].id \in searching \cup found /\ events[k].id = slots[c].id
        BY <1>2, <1>8
      <3>2. c < c
        BY <1>1, <1>4, <1>5, <3>1 DEF BleInv, StaleInv
      <3>3. c \in Int
        BY <1>5 DEF Slots
      <3> QED
        BY <3>2, <3>3
    <2>2. slots'[s] = slots[s]
      BY <1>10, <2>1
    <2> QED
      BY <1>1, <1>4, <2>2 DEF BleInv, StaleInv
  <1>21. InboundInv'
    BY <1>4, <1>5, <1>11, HeardElsewhere
  <1>22. ASSUME ~lost' PROVE Undisturbed' /\ ByTurns' /\ OfItsDevice' /\ AvailableInv'
    <2>1. ~lost /\ Undisturbed /\ ByTurns /\ OfItsDevice /\ AvailableInv
      BY <1>4, <1>22 DEF NothingLost
    <2>2. Undisturbed'
      BY <1>4, <2>1 DEF Undisturbed
    <2>3. \A x : SlotsOf(x)' = SlotsOf(x)
      <3>1. \A s \in Slots : slots'[s].used = slots[s].used /\ slots'[s].id = slots[s].id
        <4> SUFFICES ASSUME NEW s \in Slots
                     PROVE  slots'[s].used = slots[s].used /\ slots'[s].id = slots[s].id
          OBVIOUS
        <4>1. CASE s = c
          <5>1. slots[c].used = TRUE
            BY <1>5, <1>7 DEF SlotStates
          <5> QED
            BY <1>2, <1>8, <4>1, <5>1
        <4>2. CASE s # c
          BY <1>10, <4>2
        <4> QED
          BY <4>1, <4>2
      <3> QED
        BY <3>1 DEF SlotsOf
    <2>4. \A k : (IsFirst(k)' <=> IsFirst(k)) /\ (IsLast(k)' <=> IsLast(k))
      BY <1>4 DEF IsFirst, IsLast
    <2>5. \A x : Pending(x)' <=> Pending(x)
      BY <1>4 DEF Pending
    <2>6. ByTurns'
      <3>1. \A x \in Ids, k \in 1..Len(events) :
                /\ events[k].id = x /\ IsFirst(k)' =>
                       (events[k].kind = "connected" <=> SlotsOf(x)' = {})
                /\ events[k].id = x /\ IsLast(k)' =>
                       (events[k].kind = "connected" <=> link[x] # Nobody)
        BY <2>1, <2>3, <2>4 DEF ByTurns
      <3>2. \A x \in Ids : ~Pending(x)' => (SlotsOf(x)' # {} <=> link[x] # Nobody)
        BY <2>1, <2>3, <2>5 DEF ByTurns
      <3> QED
        BY <1>4, <2>1, <3>1, <3>2 DEF ByTurns
    <2>7. OfItsDevice'
      <3>0. UNCHANGED <<link, events>>
        BY <1>4
      <3> SUFFICES ASSUME NEW s \in Slots, NEW x \in Ids, Open(s)', slots'[s].id = x
                   PROVE  /\ ~Pending(x)' => slots'[s].device = link[x]
                          /\ \A k \in 1..Len(events), j \in Ids :
                                 /\ events[k].id = x /\ IsFirst(k)'
                                 /\ link[j] # Nobody /\ link[j] = slots'[s].device
                                 => \E l \in k + 1 .. Len(events) :
                                        events[l] = [kind |-> "connected", id |-> j]
        BY <3>0 DEF OfItsDevice
      <3>1. CASE s # c
        <4>1. Open(s) /\ slots'[s] = slots[s]
          BY <1>10, <1>12, <3>1
        <4> QED
          BY <2>1, <2>4, <2>5, <4>1 DEF OfItsDevice
      <3>2. CASE s = c
        <4>1. x = i /\ slots'[s].device = link[i]
          BY <1>3, <1>8, <3>2
        <4>2. ASSUME NEW k \in 1..Len(events), NEW j \in Ids, events[k].id = x, IsFirst(k),
                     link[j] # Nobody, link[j] = slots'[s].device
              PROVE  \E l \in k + 1 .. Len(events) :
                         events[l] = [kind |-> "connected", id |-> j]
          <5>1. j = i
            BY <1>5, <4>1, <4>2 DEF BleInv, LinkInv
          <5>2. SlotsOf(i) # {}
            BY <1>2, <1>5 DEF SlotsOf
          <5>3. events[k].kind # "connected"
            BY <1>5, <2>1, <4>1, <4>2, <5>2 DEF ByTurns
          <5>4. PICK l \in k..Len(events) : events[l].id = events[k].id /\ IsLast(l)
            BY LastExists DEF BleInv
          <5>5. Len(events) \in Nat /\ l \in 1..Len(events)
            BY LenProperties DEF BleInv, Types, StackTypes
          <5>6. events[l].kind = "connected" /\ events[l].id = i
            BY <1>5, <2>1, <4>1, <4>2, <5>1, <5>4, <5>5 DEF ByTurns
          <5>7. l \in k + 1 .. Len(events)
            BY <5>3, <5>4, <5>5, <5>6
          <5>8. events[l] \in ConnectionEvents
            BY <5>5, ElementOfSeq DEF BleInv, Types, StackTypes
          <5>9. events[l] = [kind |-> "connected", id |-> j]
            BY <5>1, <5>6, <5>8 DEF ConnectionEvents
          <5> QED
            BY <5>7, <5>9
        <4> QED
          BY <2>4, <4>1, <4>2
      <3> QED
        BY <3>1, <3>2
    <2>8. AvailableInv'
      <3>1. \A s : s \in OpenSlots' <=> s = c \/ s \in OpenSlots
        BY <1>5, <1>12 DEF OpenSlots
      <3>2. slots'[c].device = d
        BY <1>8
      <3>3. \A s \in OpenSlots : s # c /\ slots'[s] = slots[s] /\ slots[s].device \in available
        BY <1>4, <1>10, <1>12, <2>1 DEF OpenSlots, AvailableInv
      <3>4. available' \subseteq {slots'[s].device : s \in OpenSlots'}
        <4> SUFFICES ASSUME NEW a \in available'
                     PROVE  \E s \in OpenSlots' : slots'[s].device = a
          OBVIOUS
        <4>1. CASE a = d
          BY <3>1, <3>2, <4>1
        <4>2. CASE a \in available
          <5>1. PICK s \in OpenSlots : slots[s].device = a
            BY <2>1, <4>2 DEF AvailableInv
          <5> QED
            BY <3>1, <3>3, <5>1
        <4> QED
          BY <1>4, <4>1, <4>2
      <3>5. available' = available \cup {d}
        BY <1>4
      <3>6. ASSUME NEW s \in OpenSlots' PROVE slots'[s].device \in available'
        BY <3>1, <3>2, <3>3, <3>5
      <3> QED
        BY <1>4, <3>4, <3>6 DEF AvailableInv
    <2> QED
      BY <2>2, <2>6, <2>7, <2>8
  <1>23. NothingLost'
    BY <1>22 DEF NothingLost
  <1> QED
    BY <1>14, <1>15, <1>16, <1>17, <1>18, <1>19, <1>20, <1>21, <1>23 DEF BleInv

LEMMA InvSeatRefused == ASSUME BleInv, NothingLost, SeatRefused PROVE BleInv' /\ NothingLost'
  <1>1. PICK c : c = cursor
    OBVIOUS
  <1>2. /\ pc = "seat" /\ pc' = "slots" /\ cursor' = c + 1
        /\ slots' = [slots EXCEPT ![c].used = FALSE] /\ lost' = TRUE
        /\ UNCHANGED <<link, searching, found, listeners, events, inbound, started, ids>>
        /\ UNCHANGED <<ports, limit, sinks, available>>
    BY <1>1 DEF SeatRefused, stackVars, ringVars, seatVars
  <1>3. /\ c \in Slots /\ slots[c].used /\ ids[c] = Nobody /\ slots[c].discovering
        /\ ~slots[c].seated
    BY <1>1, <1>2 DEF BleInv, PlaceInv
  <1>4. /\ slots \in [Slots -> SlotStates] /\ slots[c] \in SlotStates /\ NumSlots \in Nat
    BY <1>3, BleHostAssumption DEF BleInv, Types, AdapterTypes
  <1>5. slots'[c] \in [used : {FALSE}, discovering : {TRUE}, seated : {FALSE},
                       id : {slots[c].id}, device : {slots[c].device},
                       inPort : {slots[c].inPort}, sysEx : {slots[c].sysEx}]
    BY <1>2, <1>3, <1>4 DEF SlotStates
  <1>6. slots'[c] \in SlotStates
    BY <1>4, <1>5 DEF SlotStates
  <1>7. slots' \in [Slots -> SlotStates] /\ \A s \in Slots : s # c => slots'[s] = slots[s]
    <2>1. slots' = [s \in Slots |-> slots'[s]] /\ \A s \in Slots : s # c => slots'[s] = slots[s]
      BY <1>2, <1>4
    <2> QED
      BY <1>4, <1>6, <2>1
  <1>8. \A s \in Slots : Open(s)' <=> Open(s)
    <2> SUFFICES ASSUME NEW s \in Slots PROVE Open(s)' <=> Open(s)
      OBVIOUS
    <2>1. CASE s = c
      BY <1>3, <1>5, <2>1 DEF Open
    <2>2. CASE s # c
      BY <1>7, <2>2 DEF Open
    <2> QED
      BY <2>1, <2>2
  <1>9. \A s \in Slots : Open(s) => slots'[s] = slots[s]
    BY <1>3, <1>7 DEF Open
  <1>10. Types'
    <2>1. cursor' \in 1 .. NumSlots + 1
      BY <1>2, <1>3, <1>4 DEF Slots
    <2> QED
      BY <1>2, <1>7, <2>1 DEF BleInv, Types, StackTypes, AdapterTypes
  <1>11. LinkInv'
    BY <1>2 DEF BleInv, LinkInv
  <1>12. PlaceInv'
    BY <1>2 DEF PlaceInv
  <1>13. SlotInv'
    BY <1>5, <1>7 DEF BleInv, SlotInv
  <1>14. PublishedInv'
    <2>1. \A s \in Slots : ~InTransit(s)
      BY <1>2 DEF InTransit
    <2> QED
      BY <1>2, <1>8, <1>9, <2>1 DEF BleInv, PublishedInv
  <1>15. SeatedInv'
    BY <1>2, <1>8, <1>9 DEF BleInv, SeatedInv
  <1>16. StaleInv'
    <2> SUFFICES ASSUME NEW k \in 1..Len(events), NEW s \in Slots,
                        events[k].kind = "disconnected", events[k].id = slots'[s].id,
                        slots'[s].used, slots'[s].discovering,
                        slots'[s].id \in searching \cup found
                 PROVE  ~slots'[s].seated /\ s < c + 1
      BY <1>2 DEF StaleInv
    <2>1. s # c /\ slots'[s] = slots[s]
      BY <1>5, <1>7
    <2>2. ~slots[s].seated /\ s < c
      BY <1>1, <1>2, <2>1 DEF BleInv, StaleInv
    <2> QED
      BY <1>3, <1>4, <2>1, <2>2 DEF Slots
  <1>17. InboundInv'
    BY <1>2 DEF BleInv, InboundInv, Quiet, Reading
  <1>18. NothingLost'
    BY <1>2 DEF NothingLost
  <1> QED
    BY <1>10, <1>11, <1>12, <1>13, <1>14, <1>15, <1>16, <1>17, <1>18 DEF BleInv

LEMMA InvPublish == ASSUME BleInv, NothingLost, Publish PROVE BleInv' /\ NothingLost'
  <1>1. PICK c : c = cursor
    OBVIOUS
  <1>2. /\ pc = "publish" /\ pc' = "slots" /\ cursor' = c + 1
        /\ ids' = [ids EXCEPT ![c] = slots[c].id]
        /\ UNCHANGED <<link, searching, found, listeners, events, inbound, started, slots>>
        /\ UNCHANGED <<ports, limit, sinks, available, lost>>
    BY <1>1 DEF Publish, stackVars, ringVars, seatVars
  <1>3. c \in Slots /\ slots[c].used /\ ids[c] = Nobody /\ slots[c].seated
    BY <1>1, <1>2 DEF BleInv, PlaceInv
  <1>4. /\ ids \in [Slots -> Ids \cup {Nobody}] /\ slots[c].id \in Ids /\ Nobody \notin Ids
        /\ NumSlots \in Nat
    BY <1>3, BleHostAssumption DEF BleInv, Types, AdapterTypes, SlotInv
  <1>5. ids'[c] = slots[c].id /\ \A s \in Slots : s # c => ids'[s] = ids[s]
    BY <1>2, <1>3, <1>4
  <1>6. SlotsAlike
    BY <1>2 DEF SlotsAlike, BleInv, Types, AdapterTypes
  <1>7. LinkInv' /\ SlotInv' /\ SeatedInv'
    BY <1>2, <1>6, AlikeKeeps
  <1>8. Types'
    <2>1. cursor' \in 1 .. NumSlots + 1
      BY <1>2, <1>3, <1>4 DEF Slots
    <2>2. ids' \in [Slots -> Ids \cup {Nobody}]
      BY <1>2, <1>4
    <2> QED
      BY <1>2, <2>1, <2>2 DEF BleInv, Types, StackTypes, AdapterTypes
  <1>9. PlaceInv'
    BY <1>2 DEF PlaceInv
  <1>10. PublishedInv'
    <2> SUFFICES ASSUME NEW s \in Slots
                 PROVE  /\ ids'[s] # Nobody => Open(s) /\ ids'[s] = slots[s].id
                        /\ Open(s) => ids'[s] = slots[s].id
                        /\ ports[s] = (IF Open(s) THEN slots[s].inPort ELSE Nobody)
                        /\ Open(s) => slots[s].inPort \in {slots[s].device, Nobody}
      BY <1>2, <1>6, AlikeIs DEF PublishedInv
    <2>1. CASE s = c
      BY <1>3, <1>5, <2>1 DEF BleInv, PublishedInv, Open
    <2>2. CASE s # c
      <3>1. ~InTransit(s)
        BY <1>1, <2>2 DEF InTransit
      <3> QED
        BY <1>5, <2>2, <3>1 DEF BleInv, PublishedInv
    <2> QED
      BY <2>1, <2>2
  <1>11. StaleInv'
    <2> SUFFICES ASSUME NEW k \in 1..Len(events), NEW s \in Slots,
                        events[k].kind = "disconnected", events[k].id = slots[s].id,
                        slots[s].used, slots[s].discovering,
                        slots[s].id \in searching \cup found
                 PROVE  ~slots[s].seated /\ s < c + 1
      BY <1>2 DEF StaleInv
    <2>1. ~slots[s].seated /\ s < c
      BY <1>1, <1>2 DEF BleInv, StaleInv
    <2> QED
      BY <1>3, <1>4, <2>1 DEF Slots
  <1>12. InboundInv'
    <2>1. CASE Quiet
      BY <1>2, <2>1 DEF InboundInv, Quiet
    <2>2. CASE ~Quiet
      <3>1. /\ inbound \in [at : 1 .. NumSlots + NumSlots, id : found, from : Devices,
                            seat : 0..NumSlots, ended : BOOLEAN]
            /\ inbound.from = link[inbound.id]
            /\ inbound.seat # 0 =>
                   /\ ids[inbound.seat] = inbound.id /\ ports[inbound.seat] # Nobody
                   /\ inbound.at <= inbound.seat \/ inbound.at = NumSlots + inbound.seat
            /\ Reading /\ ~inbound.ended => ids[inbound.at - NumSlots] = inbound.id
        BY <2>2 DEF BleInv, InboundInv
      <3>2. \A s \in Slots : ids[s] = inbound.id => ids'[s] = inbound.id
        BY <1>3, <1>4, <1>5, <3>1 DEF BleInv, Types, StackTypes
      <3>3. inbound.seat # 0 => inbound.seat \in Slots
        BY <1>4, <3>1 DEF Slots
      <3>4. Reading => inbound.at - NumSlots \in Slots
        BY <1>4, <3>1 DEF Reading, Slots
      <3> QED
        BY <1>2, <3>1, <3>2, <3>3, <3>4 DEF InboundInv, Reading
    <2> QED
      BY <2>1, <2>2
  <1>13. ASSUME ~lost' PROVE Undisturbed' /\ ByTurns' /\ OfItsDevice' /\ AvailableInv'
    <2>1. ~lost /\ Undisturbed /\ ByTurns /\ OfItsDevice /\ AvailableInv
      BY <1>2, <1>13 DEF NothingLost
    <2>2. Undisturbed'
      BY <1>2, <2>1 DEF Undisturbed
    <2>3. ByTurns' /\ OfItsDevice'
      BY <1>2, <1>6, <2>1, AlikeTrace
    <2>4. OpenSlots' = OpenSlots
      BY <1>6, AlikeIs
    <2> QED
      BY <1>2, <2>1, <2>2, <2>3, <2>4 DEF AvailableInv
  <1>14. NothingLost'
    BY <1>13 DEF NothingLost
  <1> QED
    BY <1>7, <1>8, <1>9, <1>10, <1>11, <1>12, <1>14 DEF BleInv
-----------------------------------------------------------------------------
LEMMA InvInit == Init => BleInv /\ NothingLost
  <1> SUFFICES ASSUME Init PROVE BleInv /\ NothingLost
    OBVIOUS
  <1>1. /\ link = [i \in Ids |-> Nobody] /\ searching = {} /\ found = {}
        /\ listeners = 1 /\ events = << >> /\ inbound = NotReceiving
        /\ started = TRUE /\ slots = [s \in Slots |-> Unused]
        /\ ids = [s \in Slots |-> Nobody] /\ ports = [s \in Slots |-> Nobody]
        /\ pc = "idle" /\ cursor = 1 /\ limit = 0
        /\ available = {} /\ sinks = << >> /\ lost = FALSE
    BY DEF Init
  <1>2. Len(events) = 0 /\ events \in Seq(ConnectionEvents) /\ 1..Len(events) = {}
    BY <1>1, EmptySeq
  <1>3. NumSlots \in Nat \ {0} /\ RingSize \in Nat
    BY BleHostAssumption
  <1>4. \A s \in Slots : /\ slots[s] = Unused /\ ~slots[s].used /\ ~slots[s].seated
                         /\ ids[s] = Nobody /\ ports[s] = Nobody
    BY <1>1, UnusedIs
  <1>5. \A s \in Slots : ~Open(s)
    BY <1>4 DEF Open
  <1>6. Types
    <2>1. DOMAIN sinks = {}
      BY <1>1, EmptySeq
    <2>2. slots \in [Slots -> SlotStates]
      BY <1>1, UnusedIs
    <2>3. /\ ids \in [Slots -> Ids \cup {Nobody}] /\ ports \in [Slots -> Devices \cup {Nobody}]
          /\ link \in [Ids -> Devices \cup {Nobody}]
      BY <1>1
    <2>4. cursor \in 1 .. NumSlots + 1 /\ limit \in 0..Len(events) /\ Len(events) <= RingSize
      BY <1>1, <1>2, <1>3
    <2>5. StackTypes
      BY <1>1, <1>2, <2>3, <2>4 DEF StackTypes
    <2>6. AdapterTypes
      BY <1>1, <2>1, <2>2, <2>3, <2>4 DEF AdapterTypes
    <2> QED
      BY <2>5, <2>6 DEF Types
  <1>7. LinkInv /\ PlaceInv
    BY <1>1 DEF LinkInv, PlaceInv
  <1>8. SlotInv /\ PublishedInv /\ SeatedInv
    BY <1>4, <1>5 DEF SlotInv, PublishedInv, SeatedInv
  <1>9. StaleInv /\ InboundInv
    BY <1>1, <1>2 DEF StaleInv, InboundInv, Quiet
  <1>10. \A i : SlotsOf(i) = {}
    BY <1>4 DEF SlotsOf
  <1>11. ByTurns
    BY <1>1, <1>2, <1>10 DEF ByTurns
  <1>12. OfItsDevice
    BY <1>5 DEF OfItsDevice
  <1>13. OpenSlots = {}
    BY <1>5 DEF OpenSlots
  <1>14. AvailableInv /\ Undisturbed
    BY <1>1, <1>13 DEF AvailableInv, Undisturbed
  <1> QED
    BY <1>6, <1>7, <1>8, <1>9, <1>11, <1>12, <1>14 DEF BleInv, NothingLost

LEMMA InvStutter == ASSUME BleInv, NothingLost, UNCHANGED vars PROVE BleInv' /\ NothingLost'
  <1>1. UNCHANGED <<stackVars, ringVars, adapterVars, updateVars, seatVars, lost, inbound>>
    BY DEF vars
  <1>2. UNCHANGED <<link, found, ids, ports>>
    BY <1>1 DEF stackVars, adapterVars
  <1>3. InboundInv'
    BY <1>1, <1>2 DEF BleInv, InboundInv, Quiet, Reading
  <1> QED
    BY <1>1, <1>3, OnlyInbound

LEMMA InvNext == ASSUME BleInv, NothingLost, [Next]_vars PROVE BleInv' /\ NothingLost'
  <1>1. ASSUME Stack PROVE BleInv' /\ NothingLost'
    BY <1>1, InvConnect, InvDisconnect, InvDiscovery, InvArrive, InvLoad DEF Stack
  <1>2. ASSUME Update PROVE BleInv' /\ NothingLost'
    <2>1. CASE BeginUpdate \/ Ignore \/ AddSlot \/ Release \/ EndDrain
      BY <2>1, InvBeginUpdate, InvIgnore, InvAddSlot, InvRelease, InvEndDrain
    <2>2. CASE \E s \in Slots : Withdraw(s)
      BY <2>2, InvWithdraw
    <2>3. CASE DiscoveryStarts \/ Seat \/ SeatRefused \/ Publish
      BY <2>3, InvDiscoveryStarts, InvSeat, InvSeatRefused, InvPublish
    <2>4. CASE DiscoveryRefused \/ StepOver \/ Ready \/ EndUpdate \/ Ended
      BY <2>4, InvMoveOn
    <2> QED
      BY <1>2, <2>1, <2>2, <2>3, <2>4 DEF Update
  <1>3. CASE \E d \in DOMAIN sinks, m \in Messages : Deliver(d, m)
    BY <1>3, InvDeliver
  <1>4. CASE End \/ Begin
    BY <1>4, InvMoveOn
  <1>5. CASE UNCHANGED vars
    BY <1>5, InvStutter
  <1> QED
    BY <1>1, <1>2, <1>3, <1>4, <1>5 DEF Next

(* Both hold in every reachable state: what the links, the slots, the      *)
(* published pairs and the message on its way have to do with each other,  *)
(* and, as long as nothing is lost, what the ring will make of them.       *)
THEOREM Invariance == Spec => [](BleInv /\ NothingLost)
  <1>1. Init => BleInv /\ NothingLost
    BY InvInit
  <1>2. BleInv /\ NothingLost /\ [Next]_vars => (BleInv /\ NothingLost)'
    BY InvNext
  <1> QED
    BY <1>1, <1>2, PTL DEF Spec
-----------------------------------------------------------------------------
(* A seat in the published slot of a connection is of the device behind    *)
(* it, or of none.                                                         *)
LEMMA PublishedIsOfSender ==
    ASSUME BleInv, ~Quiet, NEW s \in Slots, ids[s] = inbound.id
    PROVE  ports[s] \in {inbound.from, Nobody}
  <1>1. inbound.id \in found /\ inbound.from = link[inbound.id]
    BY DEF BleInv, InboundInv
  <1>2. inbound.id # Nobody
    BY <1>1, BleHostAssumption DEF BleInv, Types, StackTypes
  <1>3. /\ Open(s) /\ slots[s].id = inbound.id
        /\ ports[s] \in {slots[s].device, Nobody}
    BY <1>2 DEF BleInv, PublishedInv
  <1> QED
    BY <1>1, <1>3 DEF BleInv, SeatedInv

LEMMA ReadIsOfSender ==
    ASSUME BleInv, Reading, ~inbound.ended
    PROVE  ports[inbound.at - NumSlots] \in {inbound.from, Nobody}
  <1>1. NumSlots \in Nat
    BY BleHostAssumption
  <1>2. ~Quiet
    BY <1>1 DEF Reading, Quiet, NotReceiving
  <1>3. inbound.at \in 1 .. NumSlots + NumSlots /\ ids[inbound.at - NumSlots] = inbound.id
    BY <1>2 DEF BleInv, InboundInv
  <1>4. inbound.at - NumSlots \in Slots
    BY <1>1, <1>3 DEF Reading, Slots
  <1> QED
    BY <1>2, <1>3, <1>4, PublishedIsOfSender

(* onBleMessage() reads the identifier, then the port, of a slot update()  *)
(* may release and seat again in between; whatever it is at, the message   *)
(* goes into the port of the device that sent it, or nowhere.              *)
THEOREM SenderIsKept == Spec => []MessagesFromSender
  <1>1. BleInv => MessagesFromSender
    BY ReadIsOfSender DEF MessagesFromSender
  <1> QED
    BY <1>1, Invariance, PTL

(* A message of a device that is published when it arrives, and stays so,  *)
(* is found where the device is: gaps between the seats and entries of     *)
(* other connections do not stop or catch the loop over the slots.         *)
THEOREM HeardIsPublished == Spec => PublishedIsHeard
  <1>1. ASSUME BleInv, BleInv', NothingLost, [Next]_vars, inbound.seat # 0, inbound' = NotReceiving
        PROVE  /\ inbound.at = NumSlots + inbound.seat
               /\ ports[inbound.seat] = inbound.from
    <2>1. /\ NumSlots \in Nat \ {0}
      BY BleHostAssumption
    <2>2. ~Quiet
      BY <1>1 DEF Quiet, NotReceiving
    <2>3. /\ inbound \in [at : 1 .. NumSlots + NumSlots, id : found, from : Devices,
                          seat : 0..NumSlots, ended : BOOLEAN]
          /\ ids[inbound.seat] = inbound.id /\ ports[inbound.seat] # Nobody
          /\ inbound.at <= inbound.seat \/ inbound.at = NumSlots + inbound.seat
      BY <1>1, <2>2 DEF BleInv, InboundInv
    <2>4. inbound.seat \in Slots
      BY <1>1, <2>1, <2>3 DEF Slots
    <2>5. ports[inbound.seat] = inbound.from
      BY <2>2, <2>3, <2>4, PublishedIsOfSender, <1>1
    <2>6. LoadId \/ LoadPort
      <3>1. inbound' # inbound
        BY <1>1, <2>2 DEF Quiet
      <3>2. ASSUME NEW s \in Slots, Withdraw(s) PROVE FALSE
        <4>1. inbound' = [inbound EXCEPT !.seat = IF @ = s THEN 0 ELSE @,
                                         !.ended = @ \/ pc = "ending"]
          BY <2>2, <3>2 DEF Withdraw
        <4>2. inbound'.at = inbound.at
          BY <2>3, <4>1
        <4>3. inbound.at # 0 /\ NotReceiving.at = 0
          BY <2>1, <2>3 DEF NotReceiving
        <4> QED
          BY <1>1, <4>2, <4>3
      <3>3. ASSUME NEW i \in Ids, Arrive(i) PROVE FALSE
        BY <2>2, <3>3 DEF Arrive
      <3>4. ASSUME NEW d, NEW m, Deliver(d, m) PROVE FALSE
        BY <3>1, <3>4, Zenon DEF Deliver
      <3>5. ASSUME NEW i \in Ids, NEW d \in Devices,
                   Connect(d, i) \/ Disconnect(i) \/ DiscoveryEnds(i) \/ DiscoveryFails(i)
            PROVE  FALSE
        BY <3>1, <3>5 DEF Connect, Disconnect, DiscoveryEnds, DiscoveryFails
      <3>6. ASSUME BeginUpdate \/ Ignore \/ AddSlot \/ Release \/ EndDrain PROVE FALSE
        BY <3>1, <3>6, Zenon DEF BeginUpdate, Ignore, AddSlot, Release, EndDrain
      <3>7. ASSUME \/ DiscoveryStarts \/ DiscoveryRefused \/ StepOver \/ Ready
                   \/ Seat \/ SeatRefused \/ Publish \/ EndUpdate \/ Ended \/ End \/ Begin
            PROVE  FALSE
        BY <3>1, <3>7, Zenon DEF DiscoveryStarts, DiscoveryRefused, StepOver, Ready, Seat,
           SeatRefused, Publish, EndUpdate, Ended, End, Begin
      <3>8. Next
        BY <1>1, <3>1 DEF vars
      <3>9. ASSUME NEW i \in Ids PROVE ~(Disconnect(i) \/ DiscoveryEnds(i) \/ DiscoveryFails(i))
        BY <3>1 DEF Disconnect, DiscoveryEnds, DiscoveryFails
      <3> QED
        BY <3>2, <3>3, <3>4, <3>5, <3>6, <3>7, <3>8, <3>9, Zenon DEF Next, Stack, Update
    <2>7. inbound.at = NumSlots + inbound.seat
      <3> SUFFICES ASSUME inbound.at <= inbound.seat PROVE FALSE
        BY <2>3
      <3>1. inbound.at \in Slots /\ ~(inbound.at > NumSlots)
        BY <2>1, <2>3, <2>4 DEF Slots
      <3>2. LoadId /\ ids[inbound.at] # inbound.id /\ ~(inbound.at < NumSlots)
        <4>1. LoadId
          BY <2>6, <3>1 DEF LoadPort, Reading
        <4>2. ASSUME NEW n \in Nat, n # 0, inbound' = [inbound EXCEPT !.at = n] PROVE FALSE
          <5>1. inbound'.at = n
            BY <2>3, <4>2
          <5> QED
            BY <1>1, <4>2, <5>1 DEF NotReceiving
        <4>3. NumSlots + inbound.at \in Nat \ {0} /\ inbound.at + 1 \in Nat \ {0}
          BY <2>1, <2>3
        <4>4. ids[inbound.at] # inbound.id
          BY <4>1, <4>2, <4>3 DEF LoadId
        <4>5. ~(inbound.at < NumSlots)
          BY <4>1, <4>2, <4>3, <4>4 DEF LoadId
        <4> QED
          BY <4>1, <4>4, <4>5
      <3>3. inbound.at = inbound.seat
        BY <2>1, <2>4, <3>1, <3>2 DEF Slots
      <3> QED
        BY <2>3, <3>2, <3>3
    <2> QED
      BY <2>5, <2>7
  <1>2. BleInv /\ NothingLost /\ [Next]_vars
        => [inbound.seat # 0 /\ inbound' = NotReceiving =>
                /\ inbound.at = NumSlots + inbound.seat
                /\ ports[inbound.seat] = inbound.from]_vars
    BY <1>1, InvNext
  <1> QED
    BY <1>2, Invariance, PTL DEF Spec, PublishedIsHeard

(* A seat goes without an input only once there is room for no more ports. *)
RoomInv ==
    /\ room \in Nat
    /\ \A s \in Slots :
           Open(s) /\ slots[s].device # Nobody /\ slots[s].inPort = Nobody => room = 0

(* What seat() attaches there is room for, and the input is among it as    *)
(* long as there is any.                                                   *)
LEMMA AttachableFits ==
    ASSUME NEW d, room \in Nat
    PROVE  /\ Cardinality(Attachable(d)) \in 0..room
           /\ room = 0 => Cardinality(Attachable(d)) = 0
           /\ room # 0 => <<d, "in">> \in attached \cup Attachable(d)
  <1> DEFINE A == Attachable(d)
             in == <<d, "in">>
             out == <<d, "out">>
  <1>1. /\ \A p \in A : p \in {in, out} /\ p \notin attached /\ room # 0
        /\ room = 1 /\ in \notin attached => out \notin A
        /\ room # 0 /\ in \notin attached => in \in A
    BY DEF Attachable
  <1>3. CASE room = 0
    <2>1. A = {}
      BY <1>1, <1>3
    <2> QED
      BY <1>3, <2>1, FS_EmptySet
  <1>4. CASE room = 1
    <2>1. A \subseteq {in} \/ A \subseteq {out}
      BY <1>1, <1>4
    <2>2. A = {} \/ A = {in} \/ A = {out}
      BY <2>1
    <2>3. Cardinality(A) \in {0, 1}
      BY <2>2, FS_EmptySet, FS_Singleton
    <2>4. in \in attached \cup A
      BY <1>1, <1>4
    <2> QED
      BY <1>4, <2>3, <2>4
  <1>5. CASE room > 1
    <2>1. A \subseteq {in, out}
      BY <1>1
    <2> HIDE DEF A
    <2>2. /\ IsFiniteSet({in}) /\ Cardinality({in}) = 1
      BY FS_Singleton
    <2>3. /\ IsFiniteSet({in} \cup {out})
          /\ Cardinality({in} \cup {out}) \in {1, 2}
      BY <2>2, FS_AddElement
    <2>4. {in} \cup {out} = {in, out}
      OBVIOUS
    <2>5. IsFiniteSet({in, out}) /\ Cardinality({in, out}) \in {1, 2}
      BY <2>3, <2>4
    <2>6. IsFiniteSet(A) /\ Cardinality(A) <= Cardinality({in, out})
      BY <2>1, <2>5, FS_Subset
    <2>7. Cardinality(A) \in Nat
      BY <2>6, FS_CardinalityType
    <2>8. in \in attached \cup A
      BY <1>1, <1>5
    <2> QED
      BY <1>5, <2>5, <2>6, <2>7, <2>8 DEF A
  <1> QED
    BY <1>3, <1>4, <1>5

LEMMA RoomKept ==
    ASSUME RoomInv, room' = room,
           \A s \in Slots : Open(s)' => /\ Open(s) /\ slots'[s].device = slots[s].device
                                       /\ slots'[s].inPort = slots[s].inPort
    PROVE  RoomInv'
  BY DEF RoomInv

LEMMA RoomChanges ==
    ASSUME BleInv, RoomInv, AddSlot \/ Release \/ DiscoveryStarts \/ SeatRefused
    PROVE  RoomInv'
  <1> DEFINE new == [Unused EXCEPT !.used = TRUE, !.id = Head(events).id]
  <1>1. slots \in [Slots -> SlotStates] /\ ~new.seated
    BY DEF BleInv, Types, AdapterTypes, Unused
  <1> HIDE DEF new
  <1>2. room' = room
    BY Zenon DEF AddSlot, Release, DiscoveryStarts, SeatRefused, seatVars
  <1>3. PICK c : \/ slots' = slots
                 \/ slots' = [slots EXCEPT ![c] = new]
                 \/ slots' = [slots EXCEPT ![c] = Unused]
                 \/ slots' = [slots EXCEPT ![c].discovering = TRUE]
                 \/ slots' = [slots EXCEPT ![c].used = FALSE]
    BY Zenon DEF AddSlot, Release, DiscoveryStarts, SeatRefused, new
  <1>4. \A s \in Slots : s # c => slots'[s] = slots[s]
    BY <1>1, <1>3
  <1>5. ASSUME c \in Slots, Open(c)'
        PROVE  /\ Open(c) /\ slots'[c].device = slots[c].device
               /\ slots'[c].inPort = slots[c].inPort
    <2>1. slots[c] \in SlotStates
      BY <1>1, <1>5
    <2>2. CASE slots'[c] = new \/ slots'[c] = Unused
      BY <1>1, <1>5, <2>2, UnusedIs DEF Open
    <2>3. CASE slots'[c] = slots[c]
      BY <1>5, <2>3 DEF Open
    <2>4. CASE slots'[c] = [slots[c] EXCEPT !.discovering = TRUE]
      BY <1>5, <2>1, <2>4 DEF Open, SlotStates
    <2>5. CASE slots'[c] = [slots[c] EXCEPT !.used = FALSE]
      BY <1>5, <2>1, <2>5 DEF Open, SlotStates
    <2> QED
      BY <1>1, <1>3, <1>5, <2>2, <2>3, <2>4, <2>5
  <1> QED
    BY <1>2, <1>4, <1>5, RoomKept DEF Open

LEMMA RoomSeat == ASSUME BleInv, RoomInv, Seat PROVE RoomInv'
  <1>1. PICK d : d = link[slots[cursor].id]
    OBVIOUS
  <1> DEFINE port == IF <<d, "in">> \in attached' THEN d ELSE Nobody
  <1>2. /\ slots' = [slots EXCEPT ![cursor].seated = TRUE, ![cursor].device = d,
                                  ![cursor].inPort = port]
        /\ attached' = attached \cup Attachable(d)
        /\ room' = room - Cardinality(Attachable(d))
        /\ cursor \in Slots
    BY <1>1 DEF Seat, BleInv, PlaceInv
  <1>3. slots \in [Slots -> SlotStates] /\ slots[cursor] \in SlotStates
    BY <1>2 DEF BleInv, Types, AdapterTypes
  <1>4. /\ room \in Nat /\ Cardinality(Attachable(d)) \in 0..room
        /\ room = 0 => Cardinality(Attachable(d)) = 0
        /\ room # 0 => <<d, "in">> \in attached'
    BY <1>2, AttachableFits DEF RoomInv
  <1>5. room' \in Nat /\ (room = 0 => room' = 0)
    BY <1>2, <1>4
  <1>6. d # Nobody /\ port = Nobody => room' = 0
    BY <1>4, <1>5
  <1> HIDE DEF port
  <1>7. slots'[cursor].device = d /\ slots'[cursor].inPort = port
    BY <1>2, <1>3 DEF SlotStates
  <1>8. \A s \in Slots : s # cursor => slots'[s] = slots[s]
    BY <1>2, <1>3
  <1>9. ASSUME NEW s \in Slots, Open(s)', slots'[s].device # Nobody, slots'[s].inPort = Nobody
        PROVE  room' = 0
    <2>1. CASE s = cursor
      BY <1>6, <1>7, <1>9, <2>1
    <2>2. CASE s # cursor
      BY <1>5, <1>8, <1>9, <2>2 DEF RoomInv, Open
    <2> QED
      BY <2>1, <2>2
  <1> QED
    BY <1>5, <1>9 DEF RoomInv

LEMMA RoomDeliver ==
    ASSUME BleInv, RoomInv, NEW d \in DOMAIN sinks, NEW m \in Messages, Deliver(d, m)
    PROVE  RoomInv'
  <1> DEFINE s == sinks[d]
             after == BufferAfter(slots[s].sysEx, m)
  <1>1. room' = room
    BY Zenon DEF Deliver, seatVars
  <1>2. slots' = slots \/ slots' = [slots EXCEPT ![s].sysEx = after]
    BY Zenon DEF Deliver
  <1>3. slots \in [Slots -> SlotStates] /\ s \in Slots
    BY DEF BleInv, Types, AdapterTypes
  <1> HIDE DEF s, after
  <1>4. slots[s] \in SlotStates
    BY <1>3
  <1>5. /\ slots'[s].used = slots[s].used /\ slots'[s].seated = slots[s].seated
        /\ slots'[s].device = slots[s].device /\ slots'[s].inPort = slots[s].inPort
    BY <1>2, <1>3, <1>4 DEF SlotStates
  <1>6. \A t \in Slots : t # s => slots'[t] = slots[t]
    BY <1>2, <1>3
  <1> QED
    BY <1>1, <1>5, <1>6, RoomKept DEF Open

LEMMA RoomNext == ASSUME BleInv, RoomInv, [Next]_vars PROVE RoomInv'
  <1>1. ASSUME UNCHANGED <<slots, room>> PROVE RoomInv'
    BY <1>1 DEF RoomInv, Open
  <1> USE DEF stackVars, ringVars, adapterVars, updateVars, seatVars, outVars
  <1>2. ASSUME Stack PROVE UNCHANGED <<slots, room>>
    BY <1>2 DEF Stack, Connect, Disconnect, DiscoveryEnds, DiscoveryFails, Arrive, LoadId,
                LoadPort
  <1>3. ASSUME Update PROVE RoomInv'
    <2>1. CASE AddSlot \/ Release \/ DiscoveryStarts \/ SeatRefused
      BY <2>1, RoomChanges
    <2>2. CASE Seat
      BY <2>2, RoomSeat
    <2>3. CASE \/ BeginUpdate \/ Ignore \/ EndDrain \/ DiscoveryRefused \/ StepOver \/ Ready
               \/ Publish \/ EndUpdate \/ Ended
      <3>1. UNCHANGED <<slots, room>>
        BY <2>3 DEF BeginUpdate, Ignore, EndDrain, DiscoveryRefused, StepOver, Ready, Publish,
                    EndUpdate, Ended
      <3> QED
        BY <1>1, <3>1
    <2>4. CASE \E s \in Slots : Withdraw(s)
      <3>1. UNCHANGED <<slots, room>>
        BY <2>4 DEF Withdraw
      <3> QED
        BY <1>1, <3>1
    <2> QED
      BY <1>3, <2>1, <2>2, <2>3, <2>4 DEF Update
  <1>4. CASE \E d \in DOMAIN sinks, m \in Messages : Deliver(d, m)
    BY <1>4, RoomDeliver
  <1>5. CASE End \/ Begin \/ UNCHANGED vars
    <2>1. UNCHANGED <<slots, room>>
      BY <1>5 DEF End, Begin, vars
    <2> QED
      BY <1>1, <2>1
  <1> QED
    BY <1>1, <1>2, <1>3, <1>4, <1>5 DEF Next

THEOREM RoomIsLeft == Spec => []RoomInv
  <1>1. Init => RoomInv
    <2> SUFFICES ASSUME Init PROVE RoomInv
      OBVIOUS
    <2>1. room \in Nat /\ slots = [s \in Slots |-> Unused]
      BY BleHostAssumption DEF Init
    <2> QED
      BY <2>1, UnusedIs DEF RoomInv, Open
  <1>2. BleInv /\ RoomInv /\ [Next]_vars => RoomInv'
    BY RoomNext
  <1> QED
    BY <1>1, <1>2, Invariance, PTL DEF Spec

(* Between two updates the tables agree: one slot per connection, a pair   *)
(* published for every seat and for nothing else, with the input of the    *)
(* device as long as there is room for ports, and, while no event and no   *)
(* search was lost, an endpoint available for every seat - that of the     *)
(* device behind it, as soon as the ring is empty.                         *)
THEOREM TablesAgree == Spec => []SeatsAgree
  <1>1. ASSUME BleInv PROVE TypeOK
    BY <1>1, SlotIs DEF BleInv, Types, StackTypes, AdapterTypes, LinkInv, TypeOK, Buffers
  <1>2. ASSUME BleInv, NothingLost, RoomInv, pc = "idle"
        PROVE  /\ \A s, t \in Slots : s # t /\ slots[s].used /\ slots[t].used => slots[s].id # slots[t].id
               /\ \A s \in Slots :
                      /\ ids[s] = (IF Open(s) THEN slots[s].id ELSE Nobody)
                      /\ ports[s] = (IF Open(s) THEN slots[s].inPort ELSE Nobody)
                      /\ Open(s) => \/ slots[s].inPort = slots[s].device
                                    \/ slots[s].inPort = Nobody /\ room = 0
               /\ ~lost => available = {slots[s].device : s \in {t \in Slots : Open(t)}}
               /\ ~lost /\ events = << >> =>
                      \A s \in Slots : Open(s) => slots[s].device = link[slots[s].id]
    <2>1. \A s, t \in Slots : s # t /\ slots[s].used /\ slots[t].used => slots[s].id # slots[t].id
      BY <1>2 DEF BleInv, SlotInv
    <2>2. \A s \in Slots : /\ ids[s] = (IF Open(s) THEN slots[s].id ELSE Nobody)
                           /\ ports[s] = (IF Open(s) THEN slots[s].inPort ELSE Nobody)
                           /\ Open(s) => \/ slots[s].inPort = slots[s].device
                                         \/ slots[s].inPort = Nobody /\ room = 0
      BY <1>2 DEF BleInv, PublishedInv, InTransit, RoomInv
    <2>3. ~lost => available = {slots[s].device : s \in {t \in Slots : Open(t)}}
      BY <1>2 DEF NothingLost, AvailableInv, OpenSlots
    <2>4. ASSUME ~lost, events = << >>, NEW s \in Slots, Open(s)
          PROVE  slots[s].device = link[slots[s].id]
      <3>1. slots[s].id \in Ids
        BY <1>2, <2>4 DEF BleInv, SlotInv, Open
      <3>2. ~Pending(slots[s].id)
        BY <2>4, EmptySeq DEF Pending
      <3> QED
        BY <1>2, <2>4, <3>1, <3>2 DEF NothingLost, OfItsDevice
    <2> QED
      BY <2>1, <2>2, <2>3, <2>4
  <1>3. BleInv /\ NothingLost /\ RoomInv => SeatsAgree
    BY <1>1, <1>2, Zenon DEF SeatsAgree
  <1> QED
    BY <1>3, Invariance, RoomIsLeft, PTL
-----------------------------------------------------------------------------
(* What a history promises, message by message.                            *)
Sayings == [m : MidiMessages, result : BOOLEAN]
IsStart(e) == e.m.chunk /\ e.m.start
PartOf(t, from, k) == IF k >= from /\ t[k].m.chunk THEN Line(t[k].m) ELSE << >>
PromiseOf(t, i) ==
    IF ~t[i].result THEN << >>
    ELSE IF ~t[i].m.chunk THEN << <<t[i].m.status>> \o t[i].m.data >>
    ELSE IF EndsDump(t, i) /\ Len(Whole(t, i)) <= Capacity THEN <<Whole(t, i)>>
    ELSE << >>
Exceeds(t, i) == EndsDump(t, i) /\ Len(Whole(t, i)) > Capacity

LEMMA MaxIs ==
    ASSUME NEW n \in Nat, NEW T \in SUBSET (0..n), T # {}
    PROVE  Max(T) \in T /\ \A x \in T : x <= Max(T)
  <1> DEFINE D == {n - x : x \in T}
  <1>1. D \in SUBSET Nat /\ D # {}
    <2>1. \A x \in T : n - x \in Nat
      OBVIOUS
    <2>2. PICK x : x \in T
      OBVIOUS
    <2>3. n - x \in D
      BY <2>2
    <2> QED
      BY <2>1, <2>3
  <1>2. PICK y \in D : \A z \in D : y <= z
    BY <1>1, LeastIn
  <1>3. PICK x \in T : y = n - x
    BY <1>2
  <1>4. \A z \in T : x >= z
    <2> TAKE z \in T
    <2>1. n - x <= n - z
      BY <1>2, <1>3
    <2> QED
      BY <2>1
  <1>5. \E w \in T : \A z \in T : w >= z
    BY <1>4
  <1>6. Max(T) \in T /\ \A z \in T : Max(T) >= z
    BY <1>5 DEF Max
  <1> QED
    BY <1>6

LEMMA StartOfIs ==
    ASSUME NEW t, NEW i \in Nat
    PROVE  /\ StartOf(t, i) \in 0..i
           /\ StartOf(t, i) # 0 => IsStart(t[StartOf(t, i)])
           /\ \A k \in 1..i : IsStart(t[k]) => k <= StartOf(t, i)
  <1> DEFINE T == {0} \cup {k \in 1..i : t[k].m.chunk /\ t[k].m.start}
  <1>1. T \in SUBSET (0..i) /\ T # {}
    OBVIOUS
  <1>2. StartOf(t, i) = Max(T)
    BY DEF StartOf
  <1> HIDE DEF T
  <1>3. Max(T) \in T /\ \A x \in T : x <= Max(T)
    BY <1>1, MaxIs
  <1> DEFINE c == StartOf(t, i)
  <1>4. c \in T /\ \A x \in T : x <= c
    BY <1>2, <1>3
  <1> HIDE DEF c
  <1>5. c \in 0..i /\ (c # 0 => IsStart(t[c]))
    BY <1>4 DEF T, IsStart
  <1>6. \A k \in 1..i : IsStart(t[k]) => k \in T
    BY DEF T, IsStart
  <1> QED
    BY <1>4, <1>5, <1>6 DEF c

LEMMA StartUnique ==
    ASSUME NEW t, NEW i \in Nat, NEW k \in 0..i, k # 0 => IsStart(t[k]),
           \A j \in 1..i : IsStart(t[j]) => j <= k
    PROVE  StartOf(t, i) = k
  <1>1. /\ StartOf(t, i) \in 0..i
        /\ StartOf(t, i) # 0 => IsStart(t[StartOf(t, i)])
        /\ \A j \in 1..i : IsStart(t[j]) => j <= StartOf(t, i)
    BY StartOfIs
  <1>2. StartOf(t, i) <= k
    BY <1>1
  <1>3. k <= StartOf(t, i)
    BY <1>1
  <1> QED
    BY <1>1, <1>2, <1>3

LEMMA SaidIs ==
    ASSUME NEW t \in Seq(Sayings), NEW e \in Sayings
    PROVE  LET u == Append(t, e)
               n == Len(t)
           IN /\ n \in Nat /\ u \in Seq(Sayings) /\ Len(u) = n + 1 /\ u[n + 1] = e
              /\ \A k \in 1..n : u[k] = t[k]
              /\ \A k \in 1..n : t[k] \in Sayings
  BY AppendProperties, LenProperties, ElementOfSeq

LEMMA StartOfMore ==
    ASSUME NEW t \in Seq(Sayings), NEW e \in Sayings
    PROVE  LET u == Append(t, e)
               n == Len(t)
           IN /\ \A i \in 0..n : StartOf(u, i) = StartOf(t, i)
              /\ StartOf(u, n + 1) = IF IsStart(e) THEN n + 1 ELSE StartOf(t, n)
  <1> DEFINE u == Append(t, e)
             n == Len(t)
  <1>1. /\ n \in Nat /\ Len(u) = n + 1 /\ u[n + 1] = e
        /\ \A k \in 1..n : u[k] = t[k]
    BY SaidIs
  <1> HIDE DEF u, n
  <1>2. ASSUME NEW i \in 0..n PROVE StartOf(u, i) = StartOf(t, i)
    <2>1. /\ StartOf(t, i) \in 0..i
          /\ StartOf(t, i) # 0 => IsStart(t[StartOf(t, i)])
          /\ \A k \in 1..i : IsStart(t[k]) => k <= StartOf(t, i)
      BY <1>1, StartOfIs
    <2>2. i \in Nat /\ \A k \in 1..i : u[k] = t[k]
      BY <1>1
    <2>3. StartOf(t, i) # 0 => IsStart(u[StartOf(t, i)])
      BY <2>1, <2>2
    <2>4. \A k \in 1..i : IsStart(u[k]) => k <= StartOf(t, i)
      BY <2>1, <2>2
    <2> QED
      BY <2>1, <2>2, <2>3, <2>4, StartUnique
  <1>3. CASE IsStart(e)
    <2>1. n + 1 \in Nat /\ n + 1 \in 0 .. n + 1 /\ IsStart(u[n + 1])
      BY <1>1, <1>3
    <2>2. \A k \in 1 .. n + 1 : k <= n + 1
      BY <1>1
    <2>3. StartOf(u, n + 1) = n + 1
      BY <2>1, <2>2, StartUnique
    <2> QED
      BY <1>2, <1>3, <2>3 DEF u, n
  <1>4. CASE ~IsStart(e)
    <2>1. /\ StartOf(t, n) \in 0..n
          /\ StartOf(t, n) # 0 => IsStart(t[StartOf(t, n)])
          /\ \A k \in 1..n : IsStart(t[k]) => k <= StartOf(t, n)
      BY <1>1, StartOfIs
    <2>2. n + 1 \in Nat /\ StartOf(t, n) \in 0 .. n + 1
      BY <1>1, <2>1
    <2>3. StartOf(t, n) # 0 => IsStart(u[StartOf(t, n)])
      BY <1>1, <2>1
    <2>4. \A k \in 1 .. n + 1 : IsStart(u[k]) => k <= StartOf(t, n)
      <3> SUFFICES ASSUME NEW k \in 1 .. n + 1, IsStart(u[k]) PROVE k <= StartOf(t, n)
        OBVIOUS
      <3>1. k # n + 1
        BY <1>1, <1>4
      <3>2. k \in 1..n
        BY <1>1, <3>1
      <3> QED
        BY <1>1, <2>1, <3>2
    <2>5. StartOf(u, n + 1) = StartOf(t, n)
      BY <2>2, <2>3, <2>4, StartUnique
    <2> QED
      BY <1>2, <1>4, <2>5 DEF u, n
  <1> QED
    BY <1>3, <1>4

LEMMA LineType ==
    ASSUME NEW m \in MidiMessages
    PROVE  Line(m) \in Seq(Bytes) /\ Len(Line(m)) \in Nat
  <1>1. /\ m.data \in Seq(Bytes) /\ <<SysExStart>> \in Seq(Bytes)
        /\ <<SysExEnd>> \in Seq(Bytes) /\ << >> \in Seq(Bytes)
    BY EmptySeq DEF MidiMessages, SysExStart, SysExEnd, Bytes
  <1>2. Line(m) \in Seq(Bytes)
    BY <1>1, ConcatProperties DEF Line
  <1> QED
    BY <1>2, LenProperties

LEMMA PartsAre ==
    ASSUME NEW t \in Seq(Sayings), NEW i \in 0..Len(t), NEW from
    PROVE  LET parts == [k \in 1..i |-> PartOf(t, from, k)] IN
           /\ parts \in Seq(Seq(Bytes)) /\ Len(parts) = i
           /\ \A k \in 1..i : parts[k] = PartOf(t, from, k) /\ parts[k] \in Seq(Bytes)
  <1>1. i \in Nat /\ \A k \in 1..i : t[k] \in Sayings
    BY LenProperties, ElementOfSeq
  <1>2. \A k \in 1..i : PartOf(t, from, k) \in Seq(Bytes)
    BY <1>1, LineType, EmptySeq DEF PartOf, Sayings
  <1> DEFINE parts == [k \in 1..i |-> PartOf(t, from, k)]
  <1>3. parts \in [1..i -> Seq(Bytes)]
    BY <1>2
  <1>4. \A k \in 1..i : parts[k] = PartOf(t, from, k)
    OBVIOUS
  <1> HIDE DEF parts
  <1>5. parts \in Seq(Seq(Bytes)) /\ Len(parts) = i
    BY <1>1, <1>3
  <1> QED
    BY <1>2, <1>4, <1>5 DEF parts

LEMMA WholeIs ==
    ASSUME NEW t, NEW i
    PROVE  Whole(t, i) = FlattenSeq([k \in 1..i |-> PartOf(t, StartOf(t, i), k)])
  BY DEF Whole, PartOf

LEMMA WholeType ==
    ASSUME NEW t \in Seq(Sayings), NEW i \in 0..Len(t)
    PROVE  Whole(t, i) \in Seq(Bytes) /\ Len(Whole(t, i)) \in Nat
  <1> DEFINE parts == [k \in 1..i |-> PartOf(t, StartOf(t, i), k)]
  <1>1. parts \in Seq(Seq(Bytes))
    BY PartsAre
  <1>2. Whole(t, i) = FlattenSeq(parts)
    BY WholeIs
  <1> HIDE DEF parts
  <1>3. Whole(t, i) \in Seq(Bytes)
    BY <1>1, <1>2, FlattenIsSeq
  <1> QED
    BY <1>3, LenProperties
-----------------------------------------------------------------------------
LEMMA FlattenNone ==
    ASSUME NEW S, NEW p \in Seq(Seq(S)), \A i \in 1..Len(p) : p[i] = << >>
    PROVE  FlattenSeq(p) = << >>
  <1> DEFINE D == Seq(S)
             f == [x \in D |-> x]
  <1>1. Maps(f, D, Seq(S)) /\ p \in Seq(D)
    BY DEF Maps
  <1>2. \A i \in 1..Len(p) : p[i] \in D
    BY ElementOfSeq
  <1>3. \A i \in 1..Len(p) : f[p[i]] = << >> /\ f[p[i]] = p[i]
    BY <1>2
  <1> HIDE DEF D, f
  <1>4. Mapped(f, p) \in Seq(Seq(S)) /\ Len(Mapped(f, p)) = Len(p)
        /\ \A i \in 1..Len(p) : Mapped(f, p)[i] = f[p[i]]
    BY <1>1, MappedIsSeq
  <1>5. FlatMap(f, p) = << >>
    BY <1>1, <1>3, FlatMapNone
  <1>6. Mapped(f, p) = p
    <2>1. \A i \in 1..Len(p) : Mapped(f, p)[i] = p[i]
      BY <1>3, <1>4
    <2> QED
      BY <1>4, <2>1, SeqEqual
  <1> QED
    BY <1>5, <1>6 DEF FlatMap

LEMMA GrownIs ==
    ASSUME NEW S, NEW p \in Seq(S), NEW x \in S, NEW q \in Seq(S), Len(q) = Len(p) + 1,
           \A i \in 1..Len(p) : q[i] = p[i], q[Len(p) + 1] = x
    PROVE  q = Append(p, x)
  <1>1. /\ Append(p, x) \in Seq(S) /\ Len(Append(p, x)) = Len(p) + 1 /\ Len(p) \in Nat
        /\ \A i \in 1..Len(p) : Append(p, x)[i] = p[i]
        /\ Append(p, x)[Len(p) + 1] = x
    BY AppendProperties, LenProperties
  <1>2. \A i \in 1 .. Len(p) + 1 : q[i] = Append(p, x)[i]
    <2> TAKE i \in 1 .. Len(p) + 1
    <2>1. i \in 1..Len(p) \/ i = Len(p) + 1
      BY <1>1
    <2> QED
      BY <1>1, <2>1
  <1> QED
    BY <1>1, <1>2, SeqEqual

(* How the bytes of the dump in progress grow.                             *)
LEMMA WholeMore ==
    ASSUME NEW t \in Seq(Sayings), NEW e \in Sayings
    PROVE  LET u == Append(t, e)
               n == Len(t)
           IN /\ \A i \in 0..n : Whole(u, i) = Whole(t, i)
              /\ IsStart(e) => Whole(u, n + 1) = Line(e.m)
              /\ ~IsStart(e) => Whole(u, n + 1) =
                     Whole(t, n) \o (IF e.m.chunk THEN Line(e.m) ELSE << >>)
  <1> DEFINE u == Append(t, e)
             n == Len(t)
  <1>1. /\ n \in Nat /\ u \in Seq(Sayings) /\ Len(u) = n + 1 /\ u[n + 1] = e
        /\ \A k \in 1..n : u[k] = t[k]
    BY SaidIs
  <1>2. /\ \A i \in 0..n : StartOf(u, i) = StartOf(t, i)
        /\ StartOf(u, n + 1) = IF IsStart(e) THEN n + 1 ELSE StartOf(t, n)
    BY StartOfMore
  <1>3. /\ n = Len(t) /\ n \in 0..Len(t) /\ n + 1 \in 0..Len(u) /\ n + 1 \in 1 .. n + 1
        /\ \A i \in 1 .. n + 1 : i = n + 1 \/ i \in 1..n
    BY <1>1
  <1> HIDE DEF u, n
  <1>4. \A i \in 0..n : Whole(u, i) = Whole(t, i)
    <2> TAKE i \in 0..n
    <2>1. \A k \in 1..i : u[k] = t[k]
      BY <1>1
    <2>2. \A k \in 1..i : PartOf(u, StartOf(t, i), k) = PartOf(t, StartOf(t, i), k)
      BY <2>1 DEF PartOf
    <2>3. StartOf(u, i) = StartOf(t, i)
      BY <1>2
    <2>4. [k \in 1..i |-> PartOf(u, StartOf(u, i), k)] = [k \in 1..i |-> PartOf(t, StartOf(t, i), k)]
      BY <2>2, <2>3
    <2> QED
      BY <2>4, WholeIs
  <1> DEFINE from == StartOf(u, n + 1)
             x == PartOf(u, from, n + 1)
             p == [k \in 1..n |-> PartOf(t, from, k)]
             q == [k \in 1 .. n + 1 |-> PartOf(u, from, k)]
  <1>5. /\ p \in Seq(Seq(Bytes)) /\ Len(p) = n /\ \A k \in 1..n : p[k] = PartOf(t, from, k)
    BY <1>3, PartsAre
  <1>6. /\ q \in Seq(Seq(Bytes)) /\ Len(q) = n + 1
        /\ \A k \in 1 .. n + 1 : q[k] = PartOf(u, from, k) /\ q[k] \in Seq(Bytes)
    BY <1>1, <1>3, PartsAre
  <1>7. Whole(u, n + 1) = FlattenSeq(q)
    BY WholeIs
  <1>8. \A k \in 1..n : PartOf(u, from, k) = PartOf(t, from, k)
    BY <1>1 DEF PartOf
  <1>9. x \in Seq(Bytes) /\ q[n + 1] = x
    BY <1>3, <1>6
  <1>10. from \in 0 .. n + 1
    BY <1>1, StartOfIs
  <1>11. x = IF e.m.chunk THEN Line(e.m) ELSE << >>
    <2>1. n + 1 >= from
      BY <1>1, <1>10
    <2> QED
      BY <1>1, <2>1 DEF PartOf
  <1>12. from = IF IsStart(e) THEN n + 1 ELSE StartOf(t, n)
    BY <1>2
  <1>13. ~IsStart(e) => Whole(t, n) = FlattenSeq(p)
    BY <1>12, WholeIs
  <1>14. IsStart(e) => \A k \in 1..n : p[k] = << >>
    <2> SUFFICES ASSUME IsStart(e), NEW k \in 1..n PROVE p[k] = << >>
      OBVIOUS
    <2>1. ~(k >= from)
      BY <1>1, <1>12
    <2> QED
      BY <1>5, <2>1 DEF PartOf
  <1> HIDE DEF x, p, q, from
  <1>15. q = Append(p, x)
    <2>1. Len(q) = Len(p) + 1 /\ \A k \in 1..Len(p) : q[k] = p[k]
      BY <1>1, <1>5, <1>6, <1>8
    <2>2. q[Len(p) + 1] = x
      BY <1>5, <1>9
    <2> QED
      BY <1>5, <1>6, <1>9, <2>1, <2>2, GrownIs
  <1>16. FlattenSeq(q) = FlattenSeq(p) \o x
    BY <1>5, <1>9, <1>15, FlattenAppend
  <1>17. IsStart(e) => Whole(u, n + 1) = Line(e.m)
    <2> SUFFICES ASSUME IsStart(e) PROVE Whole(u, n + 1) = Line(e.m)
      OBVIOUS
    <2>1. FlattenSeq(p) = << >>
      BY <1>5, <1>14, FlattenNone
    <2>2. x = Line(e.m)
      BY <1>11 DEF IsStart
    <2>3. << >> \o x = x
      BY <1>9, ConcatEmptySeq
    <2> QED
      BY <1>7, <1>16, <2>1, <2>2, <2>3
  <1> QED
    BY <1>4, <1>7, <1>11, <1>13, <1>16, <1>17 DEF u, n
-----------------------------------------------------------------------------
LEMMA EndsMore ==
    ASSUME NEW t \in Seq(Sayings), NEW e \in Sayings
    PROVE  LET u == Append(t, e)
               n == Len(t)
           IN /\ \A i \in 1..n : /\ EndsDump(u, i) = EndsDump(t, i) /\ Exceeds(u, i) = Exceeds(t, i)
                                 /\ PromiseOf(u, i) = PromiseOf(t, i)
              /\ EndsDump(u, n + 1) = (e.m.chunk /\ e.m.end /\ (e.m.start \/ StartOf(t, n) # 0))
  <1> DEFINE u == Append(t, e)
             n == Len(t)
  <1>1. /\ n \in Nat /\ Len(u) = n + 1 /\ u[n + 1] = e /\ \A k \in 1..n : u[k] = t[k]
    BY SaidIs
  <1>2. /\ \A i \in 0..n : StartOf(u, i) = StartOf(t, i)
        /\ StartOf(u, n + 1) = IF IsStart(e) THEN n + 1 ELSE StartOf(t, n)
    BY StartOfMore
  <1>3. \A i \in 0..n : Whole(u, i) = Whole(t, i)
    BY WholeMore
  <1> HIDE DEF u, n
  <1>4. ASSUME NEW i \in 1..n
        PROVE  /\ EndsDump(u, i) = EndsDump(t, i) /\ Exceeds(u, i) = Exceeds(t, i)
               /\ PromiseOf(u, i) = PromiseOf(t, i)
    <2>1. u[i] = t[i] /\ StartOf(u, i) = StartOf(t, i) /\ Whole(u, i) = Whole(t, i)
      BY <1>1, <1>2, <1>3
    <2>2. EndsDump(u, i) = EndsDump(t, i)
      BY <2>1 DEF EndsDump
    <2> QED
      BY <2>1, <2>2, Zenon DEF PromiseOf, Exceeds
  <1>5. EndsDump(u, n + 1) = (e.m.chunk /\ e.m.end /\ (e.m.start \/ StartOf(t, n) # 0))
    <2>1. n + 1 # 0
      BY <1>1
    <2>2. StartOf(u, n + 1) # 0 <=> IsStart(e) \/ StartOf(t, n) # 0
      BY <1>2, <2>1
    <2>3. e.m.chunk \in BOOLEAN /\ e.m.end \in BOOLEAN /\ e.m.start \in BOOLEAN
      BY DEF Sayings, MidiMessages
    <2>4. EndsDump(u, n + 1) = (e.m.chunk /\ e.m.end /\ StartOf(u, n + 1) # 0)
      BY <1>1 DEF EndsDump
    <2> QED
      BY <2>2, <2>3, <2>4 DEF IsStart
  <1> QED
    BY <1>4, <1>5 DEF u, n

LEMMA PromiseType ==
    ASSUME NEW t \in Seq(Sayings), NEW i \in 1..Len(t)
    PROVE  PromiseOf(t, i) \in Seq(Seq(Bytes))
  <1>1. t[i] \in Sayings /\ i \in 0..Len(t)
    BY ElementOfSeq, LenProperties
  <1>2. /\ t[i].m.status \in Bytes /\ t[i].m.data \in Seq(Bytes)
    BY <1>1 DEF Sayings, MidiMessages
  <1>3. <<t[i].m.status>> \in Seq(Bytes)
    BY <1>2
  <1>4. <<t[i].m.status>> \o t[i].m.data \in Seq(Bytes)
    BY <1>2, <1>3, ConcatProperties
  <1>5. Whole(t, i) \in Seq(Bytes)
    BY <1>1, WholeType
  <1>6. << >> \in Seq(Seq(Bytes)) /\ \A x \in Seq(Bytes) : <<x>> \in Seq(Seq(Bytes))
    OBVIOUS
  <1> QED
    BY <1>4, <1>5, <1>6 DEF PromiseOf

LEMMA PromisedIs ==
    ASSUME NEW t \in Seq(Sayings)
    PROVE  LET p == [i \in 1..Len(t) |-> PromiseOf(t, i)] IN
           /\ Promised(t) = FlattenSeq(p) /\ p \in Seq(Seq(Seq(Bytes))) /\ Len(p) = Len(t)
           /\ \A i \in 1..Len(t) : p[i] = PromiseOf(t, i)
           /\ Promised(t) \in Seq(Seq(Bytes))
  <1> DEFINE n == Len(t)
             p == [i \in 1..n |-> PromiseOf(t, i)]
  <1>1. n \in Nat /\ \A i \in 1..n : PromiseOf(t, i) \in Seq(Seq(Bytes))
    BY PromiseType, LenProperties
  <1>2. \A i \in 1..n : p[i] = PromiseOf(t, i)
    OBVIOUS
  <1>3. p \in [1..n -> Seq(Seq(Bytes))]
    BY <1>1
  <1>4. Promised(t) = FlattenSeq(p)
    BY DEF Promised, PromiseOf
  <1>5. n = Len(t)
    OBVIOUS
  <1> HIDE DEF p, n
  <1>6. p \in Seq(Seq(Seq(Bytes))) /\ Len(p) = n
    BY <1>1, <1>3
  <1>7. FlattenSeq(p) \in Seq(Seq(Bytes))
    BY <1>6, FlattenIsSeq
  <1> QED
    BY <1>2, <1>4, <1>5, <1>6, <1>7 DEF p, n

LEMMA PromisedMore ==
    ASSUME NEW t \in Seq(Sayings), NEW e \in Sayings
    PROVE  Promised(Append(t, e)) = Promised(t) \o PromiseOf(Append(t, e), Len(t) + 1)
  <1> DEFINE u == Append(t, e)
             n == Len(t)
             p == [i \in 1..Len(t) |-> PromiseOf(t, i)]
             q == [i \in 1..Len(u) |-> PromiseOf(u, i)]
             x == PromiseOf(u, n + 1)
  <1>1. n \in Nat /\ u \in Seq(Sayings) /\ Len(u) = n + 1 /\ n + 1 \in 1 .. n + 1
    BY SaidIs
  <1>2. \A i \in 1..n : PromiseOf(u, i) = PromiseOf(t, i)
    BY EndsMore
  <1>3. /\ Promised(t) = FlattenSeq(p) /\ p \in Seq(Seq(Seq(Bytes))) /\ Len(p) = n
        /\ \A i \in 1..n : p[i] = PromiseOf(t, i)
    BY PromisedIs
  <1>4. n + 1 \in 1..Len(u)
    BY <1>1
  <1> HIDE DEF u
  <1>5. /\ Promised(u) = FlattenSeq(q) /\ q \in Seq(Seq(Seq(Bytes))) /\ Len(q) = Len(u)
        /\ \A i \in 1..Len(u) : q[i] = PromiseOf(u, i)
    BY <1>1, PromisedIs
  <1>6. x \in Seq(Seq(Bytes))
    BY <1>1, <1>4, PromiseType
  <1> HIDE DEF n, p, q, x
  <1>7. q = Append(p, x)
    <2>1. Len(q) = Len(p) + 1
      BY <1>1, <1>3, <1>5
    <2>2. \A i \in 1..Len(p) : q[i] = p[i]
      BY <1>1, <1>2, <1>3, <1>5
    <2>3. q[Len(p) + 1] = x
      BY <1>1, <1>3, <1>5 DEF x
    <2> QED
      BY <1>3, <1>5, <1>6, <2>1, <2>2, <2>3, GrownIs
  <1>8. FlattenSeq(q) = FlattenSeq(p) \o x
    BY <1>3, <1>6, <1>7, FlattenAppend
  <1> QED
    BY <1>3, <1>5, <1>8 DEF u, n, x

LEMMA TooLongMore ==
    ASSUME NEW t \in Seq(Sayings), NEW e \in Sayings
    PROVE  /\ TooLong(t) \in Nat
           /\ TooLong(Append(t, e)) =
                  TooLong(t) + (IF Exceeds(Append(t, e), Len(t) + 1) THEN 1 ELSE 0)
  <1> DEFINE u == Append(t, e)
             n == Len(t)
             A == {i \in 1..n : Exceeds(t, i)}
             B == {i \in 1 .. n + 1 : Exceeds(u, i)}
  <1>1. n \in Nat /\ Len(u) = n + 1
    BY SaidIs
  <1>2. \A i \in 1..n : Exceeds(u, i) = Exceeds(t, i)
    BY EndsMore
  <1>3. TooLong(t) = Cardinality(A) /\ TooLong(u) = Cardinality(B)
    BY <1>1 DEF TooLong, Exceeds
  <1>4. IsFiniteSet(A) /\ Cardinality(A) \in Nat
    <2>1. IsFiniteSet(1..n)
      BY <1>1, FS_Interval
    <2>2. A \in SUBSET (1..n)
      OBVIOUS
    <2>3. IsFiniteSet(A)
      BY <2>1, <2>2, FS_Subset
    <2> QED
      BY <2>3, FS_CardinalityType
  <1>5. n + 1 \notin A
    BY <1>1
  <1>6. CASE Exceeds(u, n + 1)
    <2>1. B = A \cup {n + 1}
      <3>1. \A i : i \in 1 .. n + 1 <=> i \in 1..n \/ i = n + 1
        BY <1>1
      <3> QED
        BY <1>2, <1>6, <3>1
    <2> HIDE DEF A, B, u, n
    <2>2. Cardinality(B) = Cardinality(A) + 1
      BY <1>4, <1>5, <2>1, FS_AddElement
    <2> QED
      BY <1>3, <1>4, <1>6, <2>2 DEF u, n
  <1>7. CASE ~Exceeds(u, n + 1)
    <2>1. B = A
      <3>1. \A i : i \in 1 .. n + 1 <=> i \in 1..n \/ i = n + 1
        BY <1>1
      <3> QED
        BY <1>2, <1>7, <3>1
    <2> HIDE DEF A, B, u, n
    <2> QED
      BY <1>3, <1>4, <1>7, <2>1 DEF u, n
  <1> QED
    BY <1>6, <1>7
-----------------------------------------------------------------------------
(* A buffer against the bytes of the dump it collects, and against a       *)
(* history; the output of the sink is in a stream or not.                  *)
Holds(b, w) ==
    /\ b.overflowed <=> Len(w) > Capacity
    /\ ~b.overflowed => b.bytes = w
Collected(b, t, o) ==
    IF b.open THEN StartOf(t, Len(t)) # 0 /\ Holds(b, Whole(t, Len(t)))
    ELSE ~b.overflowed /\ (StartOf(t, Len(t)) = 0 \/ ~o)

LEMMA NewIs ==
    /\ NewBuffer \in Buffers /\ ~NewBuffer.open /\ ~NewBuffer.overflowed
    /\ [NewBuffer EXCEPT !.open = TRUE] \in Buffers /\ [NewBuffer EXCEPT !.open = TRUE].open
    /\ Holds([NewBuffer EXCEPT !.open = TRUE], << >>)
  <1>1. << >> \in Seq(Bytes) /\ Len(<< >>) = 0 /\ Capacity \in Nat /\ Len(<< >>) <= Capacity
    BY CapacityAssumption
  <1>2. NewBuffer \in [bytes : {<< >>}, open : {FALSE}, overflowed : {FALSE}]
    BY DEF NewBuffer
  <1>3. [NewBuffer EXCEPT !.open = TRUE] \in [bytes : {<< >>}, open : {TRUE}, overflowed : {FALSE}]
    BY <1>2
  <1> DEFINE x == [NewBuffer EXCEPT !.open = TRUE]
  <1> HIDE DEF x
  <1>4. NewBuffer \in Buffers /\ ~NewBuffer.open /\ ~NewBuffer.overflowed
    <2>1. NewBuffer \in [bytes : {<< >>}, open : BOOLEAN, overflowed : BOOLEAN]
      BY <1>2
    <2> QED
      BY <1>1, <1>2, <2>1 DEF Buffers
  <1>5. /\ x \in [bytes : {<< >>}, open : {TRUE}, overflowed : {FALSE}]
        /\ x.open /\ ~x.overflowed /\ x.bytes = << >>
    BY <1>3 DEF x
  <1>6. x \in Buffers
    <2>1. x \in [bytes : {<< >>}, open : BOOLEAN, overflowed : BOOLEAN]
      BY <1>5
    <2> QED
      BY <1>1, <2>1 DEF Buffers
  <1>7. Holds(x, << >>)
    BY <1>1, <1>5 DEF Holds
  <1> QED
    BY <1>4, <1>5, <1>6, <1>7 DEF x

LEMMA FittingIs ==
    ASSUME NEW w \in Seq(Bytes), Len(w) <= Capacity
    PROVE  UpTo(Capacity, w) = w
  <1>1. /\ UpTo(Capacity, w) \in Seq(Bytes) /\ Len(UpTo(Capacity, w)) = Len(w)
        /\ \A k \in 1..Len(UpTo(Capacity, w)) : UpTo(Capacity, w)[k] = w[k]
    BY UpToIs, CapacityAssumption
  <1> QED
    BY <1>1, SeqEqual

LEMMA PushedHolds ==
    ASSUME NEW b \in Buffers, NEW w \in Seq(Bytes), NEW line \in Seq(Bytes), Holds(b, w),
           NEW o \in BOOLEAN
    PROVE  LET c == [Pushed(b, line) EXCEPT !.open = o] IN
           c.open = o /\ Holds(c, w \o line)
  <1> DEFINE over == b.overflowed \/ Len(b.bytes) + Len(line) > Capacity
             kept == UpTo(Capacity, b.bytes \o line)
             c == [Pushed(b, line) EXCEPT !.open = o]
  <1>1. b \in [bytes : Seq(Bytes), open : BOOLEAN, overflowed : BOOLEAN] /\ b.bytes \in Seq(Bytes)
    BY DEF Buffers
  <1>2. Pushed(b, line) = [b EXCEPT !.bytes = kept, !.overflowed = over]
    BY DEF Pushed
  <1>3. over \in BOOLEAN
    BY <1>1
  <1>4. /\ Len(w \o line) = Len(w) + Len(line) /\ Len(w) \in Nat /\ Len(line) \in Nat
        /\ w \o line \in Seq(Bytes) /\ Capacity \in Nat
    BY ConcatProperties, LenProperties, CapacityAssumption
  <1>5. (b.overflowed <=> Len(w) > Capacity) /\ (~b.overflowed => b.bytes = w)
    BY DEF Holds
  <1>6. over <=> Len(w \o line) > Capacity
    BY <1>4, <1>5
  <1>7. ~over => kept = w \o line
    <2> SUFFICES ASSUME ~over PROVE kept = w \o line
      OBVIOUS
    <2>1. Len(w \o line) <= Capacity
      BY <1>4, <1>6
    <2>2. b.bytes = w
      BY <1>5
    <2> QED
      BY <1>4, <2>1, <2>2, FittingIs
  <1> HIDE DEF over, kept
  <1>8. c.open = o /\ c.overflowed = over /\ c.bytes = kept
    BY <1>1, <1>2
  <1> HIDE DEF c
  <1>9. Holds(c, w \o line)
    BY <1>6, <1>7, <1>8 DEF Holds
  <1> QED
    BY <1>8, <1>9 DEF c

(* add(), of a chunk the router lets through.                              *)
LEMMA AddedIs ==
    ASSUME NEW b \in Buffers, NEW t \in Seq(Sayings), NEW o \in BOOLEAN, NEW e \in Sayings,
           e.m.chunk, Fits(o, e.m), Collected(b, t, o)
    PROVE  LET u == Append(t, e)
               n == Len(t)
               a == Added(b, e.m)
           IN IF Opened(b, e.m).open
              THEN /\ a.open = ~e.m.end /\ Holds(a, Whole(u, n + 1))
                   /\ EndsDump(u, n + 1) = e.m.end /\ StartOf(u, n + 1) # 0
              ELSE /\ a = b /\ ~b.open /\ ~b.overflowed /\ ~e.m.start
                   /\ EndsDump(u, n + 1) = FALSE /\ StartOf(u, n + 1) = 0
  <1> DEFINE u == Append(t, e)
             n == Len(t)
             c == Opened(b, e.m)
             w == IF e.m.start THEN << >> ELSE Whole(t, n)
  <1>1. /\ e.m \in MidiMessages /\ e.m.start \in BOOLEAN /\ e.m.end \in BOOLEAN
        /\ e.m.chunk \in BOOLEAN /\ b.open \in BOOLEAN /\ (~e.m.end) \in BOOLEAN
        /\ Line(e.m) \in Seq(Bytes)
    BY LineType DEF Sayings, MidiMessages, Buffers
  <1>2. n \in Nat /\ n \in 0..Len(t) /\ n + 1 # 0
    BY LenProperties
  <1>3. Whole(t, n) \in Seq(Bytes)
    BY <1>2, WholeType
  <1>4. /\ IsStart(e) => Whole(u, n + 1) = Line(e.m)
        /\ ~IsStart(e) => Whole(u, n + 1) = Whole(t, n) \o (IF e.m.chunk THEN Line(e.m) ELSE << >>)
    BY WholeMore
  <1>5. StartOf(u, n + 1) = IF IsStart(e) THEN n + 1 ELSE StartOf(t, n)
    BY StartOfMore
  <1>6. EndsDump(u, n + 1) = (e.m.chunk /\ e.m.end /\ (e.m.start \/ StartOf(t, n) # 0))
    BY EndsMore
  <1>7. IsStart(e) <=> e.m.start
    BY DEF IsStart
  <1>8. CASE c.open
    <2>1. c \in Buffers /\ Holds(c, w) /\ (e.m.start \/ StartOf(t, n) # 0)
      <3>1. CASE e.m.start
        BY <3>1, NewIs DEF Opened
      <3>2. CASE ~e.m.start
        <4>1. c = b
          BY <3>2 DEF Opened
        <4> QED
          BY <1>8, <3>2, <4>1 DEF Collected
      <3> QED
        BY <3>1, <3>2
    <2>2. w \in Seq(Bytes) /\ w \o Line(e.m) = Whole(u, n + 1)
      <3>1. << >> \in Seq(Bytes) /\ << >> \o Line(e.m) = Line(e.m)
        BY <1>1, ConcatEmptySeq
      <3> QED
        BY <1>3, <1>4, <1>7, <3>1
    <2>3. Added(b, e.m) = [Pushed(c, Line(e.m)) EXCEPT !.open = ~e.m.end]
      BY <1>8 DEF Added
    <2> HIDE DEF c, w
    <2>4. LET x == [Pushed(c, Line(e.m)) EXCEPT !.open = ~e.m.end] IN
              x.open = (~e.m.end) /\ Holds(x, w \o Line(e.m))
      <3>1. \A y, l, p : y \in Seq(Bytes) /\ l \in Seq(Bytes) /\ p \in BOOLEAN /\ Holds(c, y) =>
                LET x == [Pushed(c, l) EXCEPT !.open = p] IN x.open = p /\ Holds(x, y \o l)
        BY <2>1, PushedHolds
      <3> QED
        BY <1>1, <2>1, <2>2, <3>1, Zenon
    <2>5. Added(b, e.m).open = (~e.m.end) /\ Holds(Added(b, e.m), Whole(u, n + 1))
      BY <2>2, <2>3, <2>4
    <2>6. EndsDump(u, n + 1) = e.m.end
      BY <1>1, <1>6, <2>1
    <2>7. StartOf(u, n + 1) # 0
      BY <1>2, <1>5, <1>7, <2>1
    <2> QED
      BY <1>8, <2>5, <2>6, <2>7 DEF c
  <1>9. CASE ~c.open
    <2>1. ~e.m.start
      BY <1>9, NewIs DEF Opened
    <2>2. c = b /\ ~b.open /\ Added(b, e.m) = b
      BY <1>9, <2>1 DEF Opened, Added
    <2>3. o
      BY <1>1, <2>1 DEF Fits
    <2>4. ~b.overflowed /\ StartOf(t, n) = 0
      BY <2>2, <2>3 DEF Collected
    <2> QED
      BY <1>1, <1>5, <1>6, <1>7, <1>9, <2>1, <2>2, <2>4 DEF c
  <1> QED
    BY <1>8, <1>9
-----------------------------------------------------------------------------
(* send(): what EspBle is handed is what the history promises, and what is *)
(* counted is what was too long.                                           *)
LEMMA ShortIsSaid ==
    ASSUME NEW b \in Buffers, NEW t \in Seq(Sayings), NEW o \in BOOLEAN, NEW e \in Sayings,
           NEW answer \in BOOLEAN, ~e.m.chunk, e.result = Result(b, e.m, answer),
           Collected(b, t, o)
    PROVE  LET u == Append(t, e) IN
           /\ Collected(BufferAfter(b, e.m), u, o)
           /\ PromiseOf(u, Len(t) + 1) = IF answer THEN Sent(b, e.m) ELSE << >>
           /\ ~Exceeds(u, Len(t) + 1) /\ ~Oversized(b, e.m)
  <1> DEFINE u == Append(t, e)
             n == Len(t)
  <1>1. /\ n \in Nat /\ Len(u) = n + 1 /\ u[n + 1] = e /\ n \in 0..Len(t)
    BY SaidIs
  <1>2. ~IsStart(e) /\ e.m.data \in Seq(Bytes)
    BY DEF IsStart, Sayings, MidiMessages
  <1>3. Whole(u, n + 1) = Whole(t, n)
    <2>1. Whole(u, n + 1) = Whole(t, n) \o << >>
      BY <1>2, WholeMore
    <2>2. Whole(t, n) \in Seq(Bytes)
      BY <1>1, WholeType
    <2> QED
      BY <2>1, <2>2, ConcatEmptySeq
  <1>4. StartOf(u, n + 1) = StartOf(t, n)
    BY <1>2, StartOfMore
  <1>5. BufferAfter(b, e.m) = b /\ ~Oversized(b, e.m) /\ Sent(b, e.m) = Serialized(e.m)
    BY DEF BufferAfter, Oversized, Sent
  <1>6. EndsDump(u, n + 1) = FALSE
    BY <1>1 DEF EndsDump
  <1> DEFINE bytes == <<e.m.status>> \o e.m.data
  <1>7. PromiseOf(u, n + 1) = IF e.result THEN <<bytes>> ELSE << >>
    BY <1>1 DEF PromiseOf
  <1>8. Serialized(e.m) = IF HasFixedLength(e.m.status) THEN <<bytes>> ELSE << >>
    BY DEF Serialized
  <1> HIDE DEF u, n, bytes
  <1>9. Collected(b, u, o)
    BY <1>1, <1>3, <1>4 DEF Collected, n
  <1>10. PromiseOf(u, n + 1) = IF answer THEN Sent(b, e.m) ELSE << >>
    <2>1. <<bytes>> # << >>
      OBVIOUS
    <2>2. CASE HasFixedLength(e.m.status)
      <3>1. Sent(b, e.m) = <<bytes>>
        BY <1>5, <1>8, <2>2
      <3>2. e.result = answer
        BY <2>1, <3>1 DEF Result
      <3> QED
        BY <1>7, <3>1, <3>2
    <2>3. CASE ~HasFixedLength(e.m.status)
      <3>1. Sent(b, e.m) = << >>
        BY <1>5, <1>8, <2>3
      <3>2. e.result = FALSE
        BY <3>1 DEF Result
      <3> QED
        BY <1>7, <3>1, <3>2
    <2> QED
      BY <2>2, <2>3
  <1> QED
    BY <1>5, <1>6, <1>9, <1>10 DEF Exceeds, u, n

LEMMA ChunkIsSaid ==
    ASSUME NEW b \in Buffers, NEW t \in Seq(Sayings), NEW o \in BOOLEAN, NEW e \in Sayings,
           NEW answer \in BOOLEAN, e.m.chunk, e.result = Result(b, e.m, answer),
           Fits(o, e.m), Collected(b, t, o), NEW p \in BOOLEAN, e.m.end => ~p
    PROVE  LET u == Append(t, e) IN
           /\ Collected(BufferAfter(b, e.m), u, p)
           /\ PromiseOf(u, Len(t) + 1) = IF answer THEN Sent(b, e.m) ELSE << >>
           /\ Exceeds(u, Len(t) + 1) <=> Oversized(b, e.m)
  <1> DEFINE u == Append(t, e)
             n == Len(t)
             a == Added(b, e.m)
             w == Whole(u, n + 1)
  <1>1. /\ n \in Nat /\ Len(u) = n + 1 /\ u[n + 1] = e
    BY SaidIs
  <1>2. IF Opened(b, e.m).open
        THEN /\ a.open = ~e.m.end /\ Holds(a, w)
             /\ EndsDump(u, n + 1) = e.m.end /\ StartOf(u, n + 1) # 0
        ELSE /\ a = b /\ ~b.open /\ ~b.overflowed /\ ~e.m.start
             /\ EndsDump(u, n + 1) = FALSE /\ StartOf(u, n + 1) = 0
    BY AddedIs
  <1>3. e.m.end \in BOOLEAN
    BY DEF Sayings, MidiMessages
  <1>4. /\ Oversized(b, e.m) <=> e.m.end /\ a.overflowed
        /\ BufferAfter(b, e.m) = IF Oversized(b, e.m) THEN NewBuffer ELSE a
        /\ Completes(b, e.m) <=> Opened(b, e.m).open /\ e.m.end /\ ~a.overflowed
        /\ Sent(b, e.m) = IF Completes(b, e.m) THEN <<a.bytes>> ELSE << >>
    BY DEF Oversized, BufferAfter, Completes, Sent
  <1>5. PromiseOf(u, n + 1) = IF e.result /\ EndsDump(u, n + 1) /\ Len(w) <= Capacity
                              THEN <<w>> ELSE << >>
    BY <1>1 DEF PromiseOf
  <1>6. Exceeds(u, n + 1) <=> EndsDump(u, n + 1) /\ Len(w) > Capacity
    BY DEF Exceeds
  <1>7. Len(w) \in Nat /\ Capacity \in Nat
    <2>1. u \in Seq(Sayings) /\ n + 1 \in 0..Len(u)
      BY <1>1, SaidIs
    <2> HIDE DEF u
    <2> QED
      BY <2>1, WholeType, CapacityAssumption
  <1>8. e.result = Result(b, e.m, answer)
    OBVIOUS
  <1>9. Collected(BufferAfter(b, e.m), u, p) <=>
            LET c == BufferAfter(b, e.m) IN
            IF c.open THEN StartOf(u, n + 1) # 0 /\ Holds(c, w)
            ELSE ~c.overflowed /\ (StartOf(u, n + 1) = 0 \/ ~p)
    BY <1>1 DEF Collected
  <1> HIDE DEF u, n, a, w
  <1>10. CASE Opened(b, e.m).open
    <2>1. /\ a.open = ~e.m.end /\ (a.overflowed <=> Len(w) > Capacity)
          /\ (~a.overflowed => a.bytes = w) /\ Holds(a, w)
          /\ EndsDump(u, n + 1) = e.m.end /\ StartOf(u, n + 1) # 0
      BY <1>2, <1>10 DEF Holds
    <2>2. Exceeds(u, n + 1) <=> Oversized(b, e.m)
      BY <1>4, <1>6, <2>1
    <2>3. Completes(b, e.m) <=> EndsDump(u, n + 1) /\ Len(w) <= Capacity
      BY <1>4, <1>7, <1>10, <2>1
    <2>4. PromiseOf(u, n + 1) = IF answer THEN Sent(b, e.m) ELSE << >>
      <3>1. CASE Completes(b, e.m)
        <4>1. Sent(b, e.m) = <<w>>
          BY <1>4, <2>1, <3>1
        <4>2. e.result = answer
          <5>1. Sent(b, e.m) # << >>
            BY <4>1
          <5> QED
            BY <1>8, <5>1 DEF Result
        <4> QED
          BY <1>5, <2>3, <3>1, <4>1, <4>2
      <3>2. CASE ~Completes(b, e.m)
        BY <1>4, <1>5, <2>3, <3>2
      <3> QED
        BY <3>1, <3>2
    <2>5. Collected(BufferAfter(b, e.m), u, p)
      <3>1. CASE Oversized(b, e.m)
        BY <1>4, <1>9, <3>1, NewIs
      <3>2. CASE ~Oversized(b, e.m)
        BY <1>3, <1>4, <1>9, <2>1, <3>2
      <3> QED
        BY <3>1, <3>2
    <2> QED
      BY <2>2, <2>4, <2>5 DEF u, n
  <1>11. CASE ~Opened(b, e.m).open
    <2>1. /\ a = b /\ ~b.open /\ ~b.overflowed
          /\ EndsDump(u, n + 1) = FALSE /\ StartOf(u, n + 1) = 0
      BY <1>2, <1>11
    <2>2. ~Oversized(b, e.m) /\ BufferAfter(b, e.m) = b /\ Sent(b, e.m) = << >>
      BY <1>4, <1>11, <2>1
    <2>3. ~Exceeds(u, n + 1) /\ PromiseOf(u, n + 1) = << >>
      BY <1>5, <1>6, <2>1
    <2>4. Collected(BufferAfter(b, e.m), u, p)
      BY <1>9, <2>1, <2>2
    <2> QED
      BY <2>2, <2>3, <2>4 DEF u, n
  <1> QED
    BY <1>10, <1>11

LEMMA Said ==
    ASSUME NEW b \in Buffers, NEW t \in Seq(Sayings), NEW o \in BOOLEAN, NEW e \in Sayings,
           NEW answer \in BOOLEAN, e.result = Result(b, e.m, answer),
           Fits(o, e.m), Collected(b, t, o)
    PROVE  LET u == Append(t, e) IN
           /\ Collected(BufferAfter(b, e.m), u,
                        IF e.m.chunk THEN ~e.m.end /\ (o \/ e.result) ELSE o)
           /\ Promised(u) = Promised(t) \o (IF answer THEN Sent(b, e.m) ELSE << >>)
           /\ TooLong(u) = TooLong(t) + (IF Oversized(b, e.m) THEN 1 ELSE 0)
  <1> DEFINE u == Append(t, e)
             p == IF e.m.chunk THEN ~e.m.end /\ (o \/ e.result) ELSE o
  <1>1. p \in BOOLEAN /\ (e.m.chunk /\ e.m.end => ~p)
    OBVIOUS
  <1>2. /\ Promised(u) = Promised(t) \o PromiseOf(u, Len(t) + 1)
        /\ TooLong(u) = TooLong(t) + (IF Exceeds(u, Len(t) + 1) THEN 1 ELSE 0)
    BY PromisedMore, TooLongMore
  <1>3. /\ Collected(BufferAfter(b, e.m), u, p)
        /\ PromiseOf(u, Len(t) + 1) = IF answer THEN Sent(b, e.m) ELSE << >>
        /\ Exceeds(u, Len(t) + 1) <=> Oversized(b, e.m)
    <2>1. CASE e.m.chunk
      <3> HIDE DEF p
      <3>1. e.m.end => ~p
        BY <1>1, <2>1
      <3> QED
        BY <1>1, <2>1, <3>1, ChunkIsSaid
    <2>2. CASE ~e.m.chunk
      BY <2>2, ShortIsSaid
    <2> QED
      BY <2>1, <2>2
  <1> HIDE DEF u, p
  <1>4. Promised(u) = Promised(t) \o (IF answer THEN Sent(b, e.m) ELSE << >>)
    BY <1>2, <1>3
  <1>5. TooLong(u) = TooLong(t) + (IF Oversized(b, e.m) THEN 1 ELSE 0)
    BY <1>2, <1>3, Zenon
  <1> QED
    BY <1>3, <1>4, <1>5 DEF u, p
-----------------------------------------------------------------------------
(* As long as no output sends through the slot of another device, what a   *)
(* device heard is what its history promises, and its slot holds what that *)
(* has of the dump in progress.                                            *)
Faithful(d) ==
    /\ heard[d] = Promised(told[d]) /\ oversized[d] = TooLong(told[d])
    /\ Collected(slots[sinks[d]].sysEx, told[d], d \in outStream)
HistoryTypes ==
    /\ told \in [Devices -> Seq(Sayings)] /\ heard \in [Devices -> Seq(Seq(Bytes))]
    /\ oversized \in [Devices -> Nat] /\ DOMAIN sinks \subseteq Devices
EmptyInv == \A s \in Slots : ~Open(s) => slots[s].device = Nobody /\ slots[s].sysEx = NewBuffer
WholeInv ==
    /\ HistoryTypes /\ EmptyInv
    /\ ~strayed => \A d \in DOMAIN sinks : slots[sinks[d]].device = d => Faithful(d)

LEMMA WholeKept ==
    ASSUME BleInv, WholeInv, UNCHANGED <<told, heard, oversized, sinks, strayed>>,
           outStream' \subseteq outStream, EmptyInv',
           \A s \in Slots :
               \/ slots'[s].device = slots[s].device /\ slots'[s].sysEx = slots[s].sysEx
               \/ slots'[s].device = Nobody
    PROVE  WholeInv'
  <1>1. HistoryTypes'
    BY DEF WholeInv, HistoryTypes
  <1>2. ASSUME ~strayed', NEW d \in DOMAIN sinks', slots'[sinks'[d]].device = d
        PROVE  Faithful(d)'
    <2>1. d \in Devices /\ d # Nobody /\ sinks[d] \in Slots /\ d \in DOMAIN sinks
      BY BleHostAssumption DEF WholeInv, HistoryTypes, BleInv, Types, AdapterTypes
    <2>2. slots'[sinks[d]].device = slots[sinks[d]].device
          /\ slots'[sinks[d]].sysEx = slots[sinks[d]].sysEx
      BY <1>2, <2>1
    <2>3. Faithful(d)
      BY <1>2, <2>1, <2>2 DEF WholeInv
    <2>4. d \in outStream' => d \in outStream
      OBVIOUS
    <2>5. Collected(slots[sinks[d]].sysEx, told[d], d \in outStream')
      <3>1. Collected(slots[sinks[d]].sysEx, told[d], d \in outStream)
        BY <2>3 DEF Faithful
      <3> QED
        BY <2>4, <3>1 DEF Collected
    <2> QED
      BY <2>2, <2>3, <2>5 DEF Faithful
  <1> QED
    BY <1>1, <1>2 DEF WholeInv

LEMMA WholeSame ==
    ASSUME BleInv, WholeInv, UNCHANGED <<told, heard, oversized, sinks, strayed, outStream, slots>>
    PROVE  WholeInv'
  BY DEF WholeInv, HistoryTypes, EmptyInv, Open, Faithful

LEMMA WholeInit == Init => WholeInv
  <1> SUFFICES ASSUME Init PROVE WholeInv
    OBVIOUS
  <1>1. /\ told = [d \in Devices |-> << >>] /\ heard = [d \in Devices |-> << >>]
        /\ oversized = [d \in Devices |-> 0] /\ sinks = << >>
        /\ slots = [s \in Slots |-> Unused]
    BY DEF Init
  <1>2. DOMAIN sinks = {}
    BY <1>1
  <1>3. HistoryTypes
    BY <1>1, <1>2 DEF HistoryTypes
  <1>4. EmptyInv
    BY <1>1 DEF EmptyInv, Open, Unused
  <1> QED
    BY <1>2, <1>3, <1>4 DEF WholeInv

LEMMA WholeAddSlot == ASSUME BleInv, WholeInv, AddSlot PROVE WholeInv'
  <1> DEFINE free == {s \in Slots : ~slots[s].used}
             new == [Unused EXCEPT !.used = TRUE, !.id = Head(events).id]
             f == Lowest(free)
  <1>1. /\ UNCHANGED <<told, heard, oversized, sinks, strayed, outStream>>
        /\ slots' = IF free = {} THEN slots ELSE [slots EXCEPT ![f] = new]
    BY DEF AddSlot, seatVars, outVars
  <1>2. slots \in [Slots -> SlotStates] /\ EmptyInv
    BY DEF BleInv, Types, AdapterTypes, WholeInv
  <1>3. new.device = Nobody /\ new.sysEx = NewBuffer
    BY DEF Unused
  <1>4. free # {} => f \in Slots
    BY LowestIs
  <1> HIDE DEF new, f, free
  <1>5. \A s \in Slots : slots'[s] = slots[s] \/ slots'[s] = new
    BY <1>1, <1>2, <1>4
  <1>6. EmptyInv'
    BY <1>2, <1>3, <1>5 DEF EmptyInv, Open
  <1>7. \A s \in Slots :
            \/ slots'[s].device = slots[s].device /\ slots'[s].sysEx = slots[s].sysEx
            \/ slots'[s].device = Nobody
    BY <1>3, <1>5
  <1> QED
    BY <1>1, <1>6, <1>7, WholeKept

LEMMA WholeRelease == ASSUME BleInv, WholeInv, Release PROVE WholeInv'
  <1>1. /\ UNCHANGED <<told, heard, oversized, sinks, strayed>>
        /\ outStream' = outStream \ {slots[cursor].device}
        /\ slots' = [slots EXCEPT ![cursor] = Unused]
    BY DEF Release
  <1>2. slots \in [Slots -> SlotStates] /\ EmptyInv
    BY DEF BleInv, Types, AdapterTypes, WholeInv
  <1>3. \A s \in Slots : slots'[s] = slots[s] \/ slots'[s] = Unused
    BY <1>1, <1>2
  <1>4. Unused.device = Nobody /\ Unused.sysEx = NewBuffer
    BY DEF Unused
  <1>5. EmptyInv'
    BY <1>2, <1>3, <1>4 DEF EmptyInv, Open
  <1>6. \A s \in Slots :
            \/ slots'[s].device = slots[s].device /\ slots'[s].sysEx = slots[s].sysEx
            \/ slots'[s].device = Nobody
    BY <1>3, <1>4
  <1>7. outStream' \subseteq outStream
    BY <1>1
  <1> QED
    BY <1>1, <1>5, <1>6, <1>7, WholeKept

LEMMA WholeWaiting ==
    ASSUME BleInv, WholeInv, DiscoveryStarts \/ SeatRefused
    PROVE  WholeInv'
  <1>1. /\ UNCHANGED <<told, heard, oversized, sinks, strayed, outStream>>
        /\ cursor \in Slots /\ ~Open(cursor)
        /\ \/ slots' = [slots EXCEPT ![cursor].discovering = TRUE]
           \/ slots' = [slots EXCEPT ![cursor].used = FALSE]
    BY DEF DiscoveryStarts, SeatRefused, seatVars, outVars, Waiting, AtSlot, Open, BleInv, PlaceInv
  <1>2. slots \in [Slots -> SlotStates] /\ EmptyInv
    BY DEF BleInv, Types, AdapterTypes, WholeInv
  <1>3. \A s \in Slots : s # cursor => slots'[s] = slots[s]
    BY <1>1, <1>2
  <1>4. slots[cursor] \in SlotStates
    BY <1>1, <1>2
  <1>5. slots'[cursor].device = slots[cursor].device /\ slots'[cursor].sysEx = slots[cursor].sysEx
    BY <1>1, <1>2, <1>4 DEF SlotStates
  <1>6. slots[cursor].device = Nobody /\ slots[cursor].sysEx = NewBuffer
    BY <1>1, <1>2 DEF EmptyInv
  <1>7. EmptyInv'
    <2> SUFFICES ASSUME NEW s \in Slots, ~Open(s)'
                 PROVE  slots'[s].device = Nobody /\ slots'[s].sysEx = NewBuffer
      BY DEF EmptyInv
    <2>1. CASE s = cursor
      BY <1>5, <1>6, <2>1
    <2>2. CASE s # cursor
      BY <1>2, <1>3, <2>2 DEF EmptyInv, Open
    <2> QED
      BY <2>1, <2>2
  <1>8. \A s \in Slots :
            slots'[s].device = slots[s].device /\ slots'[s].sysEx = slots[s].sysEx
    BY <1>3, <1>5
  <1> QED
    BY <1>1, <1>7, <1>8, WholeKept

LEMMA NothingIsPromised ==
    /\ Promised(<< >>) = << >> /\ TooLong(<< >>) = 0
    /\ \A o : Collected(NewBuffer, << >>, o)
  <1>1. << >> \in Seq(Sayings) /\ Len(<< >>) = 0
    OBVIOUS
  <1>2. Promised(<< >>) = << >>
    <2>1. Promised(<< >>) = FlattenSeq([i \in 1..Len(<< >>) |-> PromiseOf(<< >>, i)])
      BY <1>1, PromisedIs
    <2>2. [i \in 1..Len(<< >>) |-> PromiseOf(<< >>, i)] = << >>
      BY <1>1
    <2> QED
      BY <2>1, <2>2, FlattenEmpty
  <1>3. TooLong(<< >>) = 0
    <2>1. {i \in 1..Len(<< >>) : EndsDump(<< >>, i) /\ Len(Whole(<< >>, i)) > Capacity} = {}
      BY <1>1
    <2> QED
      BY <2>1, FS_EmptySet DEF TooLong
  <1>4. StartOf(<< >>, 0) = 0
    <2>1. 0 \in Nat /\ 0..0 = {0}
      OBVIOUS
    <2> QED
      BY <2>1, StartOfIs
  <1>5. \A o : Collected(NewBuffer, << >>, o)
    BY <1>1, <1>4, NewIs DEF Collected
  <1> QED
    BY <1>2, <1>3, <1>5

(* A device that gets a seat starts with an empty buffer and history.      *)
LEMMA WholeSeat == ASSUME BleInv, WholeInv, Seat PROVE WholeInv'
  <1> DEFINE d == link[slots[cursor].id]
             port == IF <<d, "in">> \in attached' THEN d ELSE Nobody
             more == {y \in {d} \cap Devices : <<y, "out">> \in attached'}
  <1>1. /\ slots' = [slots EXCEPT ![cursor].seated = TRUE, ![cursor].device = d,
                                  ![cursor].inPort = port]
        /\ sinks' = [x \in DOMAIN sinks \cup more |-> IF x = d THEN cursor ELSE sinks[x]]
        /\ told' = [x \in Devices |-> IF x = d THEN << >> ELSE told[x]]
        /\ heard' = [x \in Devices |-> IF x = d THEN << >> ELSE heard[x]]
        /\ oversized' = [x \in Devices |-> IF x = d THEN 0 ELSE oversized[x]]
        /\ outStream' = outStream /\ strayed' = strayed
    BY DEF Seat
  <1>2. /\ slots \in [Slots -> SlotStates] /\ EmptyInv /\ HistoryTypes
        /\ \A e \in DOMAIN sinks : sinks[e] \in Slots
        /\ link \in [Ids -> Devices \cup {Nobody}]
    BY DEF BleInv, Types, StackTypes, AdapterTypes, WholeInv
  <1>3. /\ cursor \in Slots /\ slots[cursor].used /\ ~slots[cursor].seated
        /\ slots[cursor].id \in Ids
    BY DEF Seat, BleInv, PlaceInv, SlotInv
  <1>4. d \in Devices \cup {Nobody} /\ Nobody \notin Devices
    BY <1>2, <1>3, BleHostAssumption
  <1>5. ~Open(cursor) /\ slots[cursor].sysEx = NewBuffer
    BY <1>2, <1>3 DEF EmptyInv, Open
  <1> more \subseteq {d} \cap Devices
    OBVIOUS
  <1> HIDE DEF d, port, more
  <1>6. slots[cursor] \in SlotStates /\ \A s \in Slots : s # cursor => slots'[s] = slots[s]
    BY <1>1, <1>2, <1>3
  <1>7. slots'[cursor] = [slots[cursor] EXCEPT !.seated = TRUE, !.device = d, !.inPort = port]
    BY <1>1, <1>2, <1>3
  <1>8. /\ slots'[cursor].device = d /\ slots'[cursor].sysEx = NewBuffer
        /\ slots'[cursor].used /\ slots'[cursor].seated
    BY <1>3, <1>5, <1>6, <1>7 DEF SlotStates
  <1>9. EmptyInv'
    <2> SUFFICES ASSUME NEW s \in Slots, ~Open(s)'
                 PROVE  slots'[s].device = Nobody /\ slots'[s].sysEx = NewBuffer
      BY DEF EmptyInv
    <2>1. s # cursor
      BY <1>8 DEF Open
    <2> QED
      BY <1>2, <1>6, <2>1 DEF EmptyInv, Open
  <1>10. /\ DOMAIN sinks' = DOMAIN sinks \cup more
         /\ \A x \in DOMAIN sinks' : sinks'[x] = IF x = d THEN cursor ELSE sinks[x]
    BY <1>1
  <1>11. HistoryTypes'
    <2>1. << >> \in Seq(Sayings) /\ << >> \in Seq(Seq(Bytes)) /\ 0 \in Nat
      OBVIOUS
    <2>2. told' \in [Devices -> Seq(Sayings)]
      BY <1>1, <1>2, <2>1 DEF HistoryTypes
    <2>3. heard' \in [Devices -> Seq(Seq(Bytes))]
      BY <1>1, <1>2, <2>1 DEF HistoryTypes
    <2>4. oversized' \in [Devices -> Nat]
      BY <1>1, <1>2, <2>1 DEF HistoryTypes
    <2>5. DOMAIN sinks' \subseteq Devices
      BY <1>2, <1>4, <1>10 DEF HistoryTypes
    <2> QED
      BY <2>2, <2>3, <2>4, <2>5 DEF HistoryTypes
  <1>12. ASSUME ~strayed', NEW e \in DOMAIN sinks', slots'[sinks'[e]].device = e
         PROVE  Faithful(e)'
    <2>1. e \in Devices /\ e # Nobody
      BY <1>4, <1>11 DEF HistoryTypes
    <2>2. CASE e = d
      <3>1. told'[e] = << >> /\ heard'[e] = << >> /\ oversized'[e] = 0 /\ sinks'[e] = cursor
        BY <1>1, <1>10, <2>1, <2>2
      <3>2. slots'[sinks'[e]].sysEx = NewBuffer
        BY <1>8, <3>1
      <3> QED
        BY <3>1, <3>2, NothingIsPromised DEF Faithful
    <2>3. CASE e # d
      <3>1. /\ e \in DOMAIN sinks /\ sinks'[e] = sinks[e] /\ sinks[e] \in Slots
            /\ told'[e] = told[e] /\ heard'[e] = heard[e] /\ oversized'[e] = oversized[e]
        BY <1>1, <1>2, <1>10, <2>1, <2>3
      <3>2. sinks[e] # cursor
        BY <1>8, <1>12, <2>3, <3>1
      <3>3. slots'[sinks[e]] = slots[sinks[e]]
        BY <1>6, <3>1, <3>2
      <3>4. Faithful(e)
        BY <1>1, <1>12, <3>1, <3>3 DEF WholeInv
      <3> QED
        BY <1>1, <3>1, <3>3, <3>4 DEF Faithful
    <2> QED
      BY <2>2, <2>3
  <1> QED
    BY <1>9, <1>11, <1>12 DEF WholeInv
-----------------------------------------------------------------------------
LEMMA SentType ==
    ASSUME NEW b \in Buffers, NEW m \in MidiMessages, NEW answer \in BOOLEAN
    PROVE  /\ Sent(b, m) \in Seq(Seq(Bytes)) /\ Result(b, m, answer) \in BOOLEAN
           /\ BufferAfter(b, m) \in Buffers
  <1>1. BufferAfter(b, m) \in Buffers
    BY BufferType
  <1>2. /\ m.chunk \in BOOLEAN /\ m.status \in Bytes /\ m.data \in Seq(Bytes)
        /\ BufferAfter(b, m).overflowed \in BOOLEAN
    BY <1>1 DEF MidiMessages, Buffers
  <1>3. CASE ~m.chunk
    <2>1. <<m.status>> \o m.data \in Seq(Bytes)
      BY <1>2
    <2> DEFINE bytes == <<m.status>> \o m.data
    <2>2. Sent(b, m) = IF HasFixedLength(m.status) THEN <<bytes>> ELSE << >>
      BY <1>3 DEF Sent, Serialized
    <2>3. bytes \in Seq(Bytes)
      BY <2>1
    <2> HIDE DEF bytes
    <2>4. <<bytes>> \in Seq(Seq(Bytes)) /\ << >> \in Seq(Seq(Bytes))
      BY <2>3
    <2> QED
      BY <1>1, <1>2, <1>3, <2>2, <2>4 DEF Result
  <1>4. CASE m.chunk
    <2>1. Sent(b, m) = IF Completes(b, m) THEN <<Added(b, m).bytes>> ELSE << >>
      BY <1>4 DEF Sent
    <2>2. Completes(b, m) => Added(b, m).bytes \in Seq(Bytes)
      <3>1. Completes(b, m) => BufferAfter(b, m) = Added(b, m)
        BY <1>4 DEF Completes, BufferAfter, Oversized
      <3> QED
        BY <1>1, <3>1 DEF Buffers
    <2> DEFINE bytes == Added(b, m).bytes
    <2>3. Completes(b, m) => bytes \in Seq(Bytes)
      BY <2>2
    <2> HIDE DEF bytes
    <2>4. (bytes \in Seq(Bytes) => <<bytes>> \in Seq(Seq(Bytes))) /\ << >> \in Seq(Seq(Bytes))
      OBVIOUS
    <2>5. Sent(b, m) = IF Completes(b, m) THEN <<bytes>> ELSE << >>
      BY <2>1 DEF bytes
    <2> QED
      BY <1>1, <1>2, <2>3, <2>4, <2>5 DEF Result
  <1> QED
    BY <1>3, <1>4

(* A message into a slot of the device it is for, or of none.              *)
LEMMA WholeDeliver ==
    ASSUME BleInv, WholeInv, NEW d \in DOMAIN sinks, NEW m \in Messages, Deliver(d, m)
    PROVE  WholeInv'
  <1> DEFINE s == sinks[d]
             b == slots[s].sysEx
             reached == IF slots[s].id \in found THEN link[slots[s].id] ELSE Nobody
             answer == reached # Nobody
             result == Open(s) /\ Result(b, m, answer)
             e == [m |-> m, result |-> result]
             sent == Sent(b, m)
             after == BufferAfter(b, m)
  <1>1. /\ Fits(d \in outStream, m)
        /\ strayed' = (strayed \/ slots[s].device \notin {d, Nobody})
        /\ slots' = IF Open(s) THEN [slots EXCEPT ![s].sysEx = after] ELSE slots
        /\ heard' = IF Open(s) /\ answer
                    THEN [heard EXCEPT ![reached] = @ \o sent] ELSE heard
        /\ oversized' = IF Open(s) /\ Oversized(b, m) THEN [oversized EXCEPT ![d] = @ + 1]
                        ELSE oversized
        /\ told' = [told EXCEPT ![d] = Append(@, e)]
        /\ outStream' = IF m.chunk /\ m.end THEN outStream \ {d}
                        ELSE IF m.chunk /\ result THEN outStream \cup {d} ELSE outStream
        /\ sinks' = sinks
    BY DEF Deliver, seatVars
  <1>2. /\ slots \in [Slots -> SlotStates] /\ EmptyInv /\ HistoryTypes
        /\ \A x \in DOMAIN sinks : sinks[x] \in Slots
        /\ link \in [Ids -> Devices \cup {Nobody}] /\ found \in SUBSET Ids
        /\ SeatedInv
    BY DEF BleInv, Types, StackTypes, AdapterTypes, WholeInv
  <1>3. s \in Slots /\ d \in Devices /\ Nobody \notin Devices /\ m \in MidiMessages
    BY <1>2, BleHostAssumption DEF HistoryTypes
  <1>4. slots[s] \in SlotStates /\ b \in Buffers
    BY <1>2, <1>3 DEF SlotStates
  <1>5. answer \in BOOLEAN /\ (answer => reached \in Devices)
    BY <1>2
  <1>6. sent \in Seq(Seq(Bytes)) /\ Result(b, m, answer) \in BOOLEAN /\ after \in Buffers
    <2>1. b \in Buffers /\ m \in MidiMessages /\ answer \in BOOLEAN
      BY <1>3, <1>4
    <2> HIDE DEF b, answer
    <2> QED
      BY <2>1, SentType
  <1>7. e.m = m /\ e.result = result /\ e \in Sayings
    BY <1>3, <1>6 DEF Sayings
  <1>8. Open(s) /\ answer => reached = slots[s].device
    BY <1>2, <1>3 DEF SeatedInv
  <1> HIDE DEF s, b, reached, answer, result, e, sent, after
  <1>9. \A t \in Slots : t # s => slots'[t] = slots[t]
    BY <1>1, <1>2, <1>3
  <1>10. Open(s) => slots'[s] = [slots[s] EXCEPT !.sysEx = after]
    BY <1>1, <1>2, <1>3
  <1>11. /\ Open(s) => slots'[s].sysEx = after
         /\ slots'[s].device = slots[s].device /\ slots'[s].used = slots[s].used
         /\ slots'[s].seated = slots[s].seated
    <2>1. CASE Open(s)
      BY <1>4, <1>10, <2>1 DEF SlotStates
    <2>2. CASE ~Open(s)
      BY <1>1, <2>2
    <2> QED
      BY <2>1, <2>2
  <1>12. EmptyInv'
    <2> SUFFICES ASSUME NEW t \in Slots, ~Open(t)'
                 PROVE  slots'[t].device = Nobody /\ slots'[t].sysEx = NewBuffer
      BY DEF EmptyInv
    <2>1. ~Open(t)
      BY <1>9, <1>11 DEF Open
    <2>2. slots'[t] = slots[t]
      BY <1>1, <1>9, <2>1
    <2> QED
      BY <1>2, <2>1, <2>2 DEF EmptyInv
  <1>13. /\ told \in [Devices -> Seq(Sayings)] /\ heard \in [Devices -> Seq(Seq(Bytes))]
         /\ oversized \in [Devices -> Nat] /\ DOMAIN sinks \subseteq Devices
    BY <1>2 DEF HistoryTypes
  <1>14. HistoryTypes'
    <2>1. told' \in [Devices -> Seq(Sayings)]
      <3>1. Append(told[d], e) \in Seq(Sayings)
        BY <1>3, <1>7, <1>13, SaidIs
      <3> QED
        BY <1>1, <1>13, <3>1
    <2>2. heard' \in [Devices -> Seq(Seq(Bytes))]
      <3>1. CASE Open(s) /\ answer
        <4>1. heard[reached] \in Seq(Seq(Bytes))
          BY <1>5, <1>13, <3>1
        <4>2. heard[reached] \o sent \in Seq(Seq(Bytes))
          BY <1>6, <4>1, ConcatProperties
        <4> QED
          BY <1>1, <1>13, <3>1, <4>2
      <3> QED
        BY <1>1, <1>13, <3>1
    <2>3. oversized' \in [Devices -> Nat]
      BY <1>1, <1>3, <1>13
    <2> QED
      BY <1>1, <1>13, <2>1, <2>2, <2>3 DEF HistoryTypes
  <1>15. ASSUME ~strayed', NEW x \in DOMAIN sinks', slots'[sinks'[x]].device = x
         PROVE  Faithful(x)'
    <2>1. /\ x \in Devices /\ x # Nobody /\ x \in DOMAIN sinks /\ sinks'[x] = sinks[x]
          /\ sinks[x] \in Slots /\ ~strayed /\ slots[s].device \in {d, Nobody}
      BY <1>1, <1>2, <1>3, <1>13, <1>15
    <2>2. CASE x = d
      <3>1. slots[s].device = d /\ Open(s) /\ sinks'[x] = s
        BY <1>2, <1>3, <1>11, <1>15, <2>1, <2>2 DEF EmptyInv, s
      <3>2. Faithful(d)
        BY <2>1, <2>2, <3>1 DEF WholeInv, s
      <3>3. /\ heard[d] = Promised(told[d]) /\ oversized[d] = TooLong(told[d])
            /\ Collected(b, told[d], d \in outStream)
        BY <3>2 DEF Faithful, b, s
      <3>4. e.result = Result(b, e.m, answer) /\ Fits(d \in outStream, e.m)
        <4>1. result = Result(b, m, answer)
          BY <1>6, <3>1 DEF result
        <4> QED
          BY <1>1, <1>7, <4>1, Zenon
      <3>5. told[d] \in Seq(Sayings)
        BY <1>3, <1>13
      <3> DEFINE o == d \in outStream
                 u == Append(told[d], e)
                 p == IF m.chunk THEN ~m.end /\ (o \/ result) ELSE o
      <3>6. /\ Collected(after, u, p)
            /\ Promised(u) = Promised(told[d]) \o (IF answer THEN sent ELSE << >>)
            /\ TooLong(u) = TooLong(told[d]) + (IF Oversized(b, m) THEN 1 ELSE 0)
        <4>1. o \in BOOLEAN /\ Fits(o, e.m) /\ Collected(b, told[d], o)
          BY <3>3, <3>4
        <4> HIDE DEF o
        <4>2. b \in Buffers /\ answer \in BOOLEAN
          BY <1>4, <1>5
        <4>3. \A t \in Seq(Sayings), f \in Sayings :
                 f.result = Result(b, f.m, answer) /\ Fits(o, f.m) /\ Collected(b, t, o)
                 => /\ Collected(BufferAfter(b, f.m), Append(t, f),
                                 IF f.m.chunk THEN ~f.m.end /\ (o \/ f.result) ELSE o)
                    /\ Promised(Append(t, f)) =
                           Promised(t) \o (IF answer THEN Sent(b, f.m) ELSE << >>)
                    /\ TooLong(Append(t, f)) =
                           TooLong(t) + (IF Oversized(b, f.m) THEN 1 ELSE 0)
          <5> TAKE t \in Seq(Sayings), f \in Sayings
          <5> HAVE f.result = Result(b, f.m, answer) /\ Fits(o, f.m) /\ Collected(b, t, o)
          <5> QED
            BY <4>1, <4>2, Said
        <4> QED
          BY <1>7, <3>4, <3>5, <4>1, <4>3, Zenon DEF after, sent
      <3>7. told'[d] = u
        BY <1>1, <1>3, <1>13
      <3>8. heard'[d] = heard[d] \o (IF answer THEN sent ELSE << >>)
        <4>1. CASE answer
          BY <1>1, <1>3, <1>8, <1>13, <3>1, <4>1
        <4>2. CASE ~answer
          <5>1. heard[d] \in Seq(Seq(Bytes))
            BY <1>3, <1>13
          <5> QED
            BY <1>1, <4>2, <5>1, ConcatEmptySeq
        <4> QED
          BY <4>1, <4>2
      <3>9. oversized'[d] = oversized[d] + (IF Oversized(b, m) THEN 1 ELSE 0)
        <4>1. oversized[d] \in Nat
          BY <1>3, <1>13
        <4>2. CASE Oversized(b, m)
          BY <1>1, <1>3, <1>13, <3>1, <4>2
        <4>3. CASE ~Oversized(b, m)
          BY <1>1, <4>1, <4>3
        <4> QED
          BY <4>2, <4>3
      <3>10. (d \in outStream') = p
        <4>1. m.chunk \in BOOLEAN /\ m.end \in BOOLEAN /\ result \in BOOLEAN
          BY <1>3, <1>6 DEF MidiMessages, result
        <4> QED
          BY <1>1, <4>1
      <3>11. slots'[s].sysEx = after
        BY <1>11, <3>1
      <3> HIDE DEF u, p, o
      <3>12. Collected(slots'[s].sysEx, told'[d], d \in outStream')
        BY <3>6, <3>7, <3>10, <3>11, Zenon
      <3>13. heard'[d] = Promised(told'[d]) /\ oversized'[d] = TooLong(told'[d])
        BY <3>3, <3>6, <3>7, <3>8, <3>9
      <3> QED
        BY <2>2, <3>1, <3>12, <3>13, Zenon DEF Faithful
    <2>3. CASE x # d
      <3>1. sinks[x] # s
        BY <1>11, <1>15, <2>1, <2>3
      <3>2. slots'[sinks[x]] = slots[sinks[x]]
        BY <1>9, <2>1, <3>1
      <3>3. Faithful(x)
        BY <1>15, <2>1, <3>2 DEF WholeInv
      <3>4. told'[x] = told[x] /\ oversized'[x] = oversized[x]
        BY <1>1, <1>13, <2>1, <2>3
      <3>5. heard'[x] = heard[x]
        <4>1. Open(s) /\ answer => reached # x
          BY <1>8, <2>1, <2>3
        <4> QED
          BY <1>1, <1>13, <2>1, <4>1
      <3>6. (x \in outStream') = (x \in outStream)
        BY <1>1, <2>3
      <3> QED
        BY <2>1, <3>2, <3>3, <3>4, <3>5, <3>6 DEF Faithful
    <2> QED
      BY <2>2, <2>3
  <1> QED
    BY <1>12, <1>14, <1>15 DEF WholeInv

LEMMA WholeNext == ASSUME BleInv, WholeInv, [Next]_vars PROVE WholeInv'
  <1> USE DEF stackVars, ringVars, adapterVars, updateVars, seatVars, outVars
  <1>1. ASSUME NEW d \in Devices, NEW i \in Ids, Connect(d, i) PROVE WholeInv'
    BY <1>1, WholeSame DEF Connect
  <1>2. ASSUME NEW i \in Ids, Disconnect(i) \/ DiscoveryEnds(i) \/ DiscoveryFails(i) \/ Arrive(i)
        PROVE  WholeInv'
    BY <1>2, WholeSame DEF Disconnect, DiscoveryEnds, DiscoveryFails, Arrive
  <1>3. CASE LoadId \/ LoadPort
    BY <1>3, WholeSame DEF LoadId, LoadPort
  <1>4. CASE BeginUpdate \/ Ignore \/ EndDrain \/ DiscoveryRefused \/ StepOver \/ Ready
    BY <1>4, WholeSame DEF BeginUpdate, Ignore, EndDrain, DiscoveryRefused, StepOver, Ready
  <1>5. CASE Publish \/ EndUpdate \/ Ended \/ End \/ Begin
    BY <1>5, WholeSame DEF Publish, EndUpdate, Ended, End, Begin
  <1>6. ASSUME NEW s \in Slots, Withdraw(s) PROVE WholeInv'
    BY <1>6, WholeSame DEF Withdraw
  <1>7. CASE UNCHANGED vars
    BY <1>7, WholeSame DEF vars
  <1> QED
    BY <1>1, <1>2, <1>3, <1>4, <1>5, <1>6, <1>7, WholeAddSlot, WholeRelease, WholeWaiting,
       WholeSeat, WholeDeliver DEF Next, Stack, Update

(* As long as no output sends through the slot of another device, every    *)
(* device hears the short messages and the whole dumps that were accepted  *)
(* for it, in their order, and a dump that does not fit is counted - for   *)
(* any capacity and any division of the dumps into chunks.                 *)
THEOREM DumpsComeWhole == Spec => []DumpsArriveWhole
  <1>1. Init => BleInv /\ NothingLost /\ WholeInv
    BY InvInit, WholeInit
  <1>2. BleInv /\ NothingLost /\ WholeInv /\ [Next]_vars => BleInv' /\ NothingLost' /\ WholeInv'
    BY InvNext, WholeNext
  <1>3. WholeInv => DumpsArriveWhole
    BY DEF WholeInv, DumpsArriveWhole, Faithful
  <1> QED
    BY <1>1, <1>2, <1>3, PTL DEF Spec
-----------------------------------------------------------------------------
(* The other BLE port sends with the same buffer and one sink.  Its        *)
(* constants and variables have names of their own here.                   *)
CONSTANTS PhoneMessages, MaxPhones, MaxCalls, MaxSent
VARIABLES phone, begun, phoneKnown, connected, buffer, stream, toldPhone, heardPhone,
          tooLong, phones, calls

Device ==
    INSTANCE BleDevice WITH available <- phoneKnown, told <- toldPhone,
                            heard <- heardPhone, oversized <- tooLong

PhoneAssumption ==
    PhoneMessages \subseteq MidiMessages /\ MaxPhones \in Nat /\ MaxCalls \in Nat

PhoneTypes ==
    /\ phone \in BOOLEAN /\ begun \in BOOLEAN /\ connected \in BOOLEAN /\ stream \in BOOLEAN
    /\ phoneKnown = connected /\ buffer \in Buffers
    /\ phones \in 0..MaxPhones /\ calls \in 0..MaxCalls
    /\ toldPhone \in Seq(Sayings) /\ tooLong \in Nat

PhoneInv ==
    /\ PhoneTypes
    /\ heardPhone = Promised(toldPhone) /\ tooLong = TooLong(toldPhone)
    /\ Collected(buffer, toldPhone, stream)

LEMMA SameOperators ==
    /\ Device!NewBuffer = NewBuffer
    /\ \A o, m : Device!Fits(o, m) = Fits(o, m)
    /\ \A b, m : Device!Sent(b, m) = Sent(b, m)
    /\ \A b, m : Device!Oversized(b, m) = Oversized(b, m)
    /\ \A b, m : Device!BufferAfter(b, m) = BufferAfter(b, m)
    /\ \A b, m, a : Device!Result(b, m, a) = Result(b, m, a)
    /\ \A t : Device!Promised(t) = Promised(t) /\ Device!TooLong(t) = TooLong(t)
  <1>1. Device!NewBuffer = NewBuffer
    BY DEF Device!NewBuffer, NewBuffer
  <1>2. \A o, m : Device!Fits(o, m) = Fits(o, m)
    BY Zenon DEF Device!Fits, Fits, Device!IsSystemRealTime, IsSystemRealTime
  <1>3. \A m : Device!Line(m) = Line(m) /\ Device!Serialized(m) = Serialized(m)
    BY Zenon DEF Device!Line, Line, Device!Serialized, Serialized, Device!SysExStart, SysExStart,
       Device!SysExEnd, SysExEnd, Device!HasFixedLength, HasFixedLength,
       Device!IsUndefined, IsUndefined, Device!IsStatusByte, IsStatusByte
  <1>4. \A b, m : Device!Opened(b, m) = Opened(b, m)
    BY <1>1, Zenon DEF Device!Opened, Opened
  <1>5. \A n, s : Device!UpTo(n, s) = UpTo(n, s)
    BY Zenon DEF Device!UpTo, UpTo, Device!Min, Min
  <1>6. \A b, l : Device!Pushed(b, l) = Pushed(b, l)
    BY <1>5, Zenon DEF Device!Pushed, Pushed
  <1>7. \A b, m : Device!Added(b, m) = Added(b, m)
    BY <1>3, <1>4, <1>6, Zenon DEF Device!Added, Added
  <1>8. \A b, m : Device!Completes(b, m) = Completes(b, m)
    BY <1>4, <1>7, Zenon DEF Device!Completes, Completes
  <1>9. \A b, m : Device!Sent(b, m) = Sent(b, m)
    BY <1>3, <1>7, <1>8, Zenon DEF Device!Sent, Sent
  <1>10. \A b, m : Device!Oversized(b, m) = Oversized(b, m)
    BY <1>7, Zenon DEF Device!Oversized, Oversized
  <1>11. \A b, m : Device!BufferAfter(b, m) = BufferAfter(b, m)
    BY <1>1, <1>7, <1>10, Zenon DEF Device!BufferAfter, BufferAfter
  <1>12. \A b, m, a : Device!Result(b, m, a) = Result(b, m, a)
    BY <1>9, <1>11, Zenon DEF Device!Result, Result
  <1>13. \A s : Device!FlattenSeq(s) = FlattenSeq(s)
    BY Zenon DEF Device!FlattenSeq, FlattenSeq
  <1>14. \A t, i : Device!StartOf(t, i) = StartOf(t, i)
    BY Zenon DEF Device!StartOf, StartOf, Device!Max, Max
  <1>15. \A t, i : Device!Whole(t, i) = Whole(t, i)
    BY <1>3, <1>13, <1>14, Zenon DEF Device!Whole, Whole
  <1>16. \A t, i : Device!EndsDump(t, i) = EndsDump(t, i)
    BY <1>14, Zenon DEF Device!EndsDump, EndsDump
  <1>17. \A t : Device!Promised(t) = Promised(t)
    BY <1>13, <1>15, <1>16, Zenon DEF Device!Promised, Promised
  <1>18. \A t : Device!TooLong(t) = TooLong(t)
    BY <1>15, <1>16, Zenon DEF Device!TooLong, TooLong, Device!Cardinality, Cardinality
  <1> QED
    BY <1>1, <1>2, <1>9, <1>10, <1>11, <1>12, <1>17, <1>18
LEMMA PhoneInit == PhoneAssumption /\ Device!Init => PhoneInv
  <1> SUFFICES ASSUME PhoneAssumption, Device!Init PROVE PhoneInv
    OBVIOUS
  <1>1. /\ phone = FALSE /\ begun = FALSE /\ phoneKnown = FALSE /\ connected = FALSE
        /\ buffer = NewBuffer /\ stream = FALSE
        /\ toldPhone = << >> /\ heardPhone = << >> /\ tooLong = 0
        /\ phones = 0 /\ calls = 0
    BY SameOperators DEF Device!Init
  <1>2. PhoneTypes
    <2>1. << >> \in Seq(Sayings)
      OBVIOUS
    <2>2. 0 \in 0..MaxPhones /\ 0 \in 0..MaxCalls
      BY DEF PhoneAssumption
    <2> QED
      BY <1>1, <2>1, <2>2, NewIs, Zenon DEF PhoneTypes
  <1> QED
    BY <1>1, <1>2, NothingIsPromised DEF PhoneInv

(* Only what leaves the buffer alone or empties it.                        *)
LEMMA PhoneKept ==
    ASSUME PhoneInv, PhoneTypes', UNCHANGED <<toldPhone, heardPhone, tooLong>>,
           \/ buffer' = buffer /\ (stream' => stream)
           \/ buffer' = NewBuffer /\ ~stream'
    PROVE  PhoneInv'
  <1>1. stream \in BOOLEAN /\ stream' \in BOOLEAN
    BY DEF PhoneInv, PhoneTypes
  <1>2. Collected(buffer, toldPhone, stream)
    BY DEF PhoneInv
  <1>3. Collected(buffer', toldPhone, stream')
    BY <1>1, <1>2, NewIs DEF Collected
  <1> QED
    BY <1>3 DEF PhoneInv

LEMMA PhoneMoves ==
    ASSUME PhoneAssumption, PhoneInv,
           Device!Subscribe \/ Device!Leave \/ Device!Begin \/ Device!End \/ Device!Update
    PROVE  PhoneInv'
  <1>1. /\ UNCHANGED <<toldPhone, heardPhone, tooLong>>
        /\ \/ buffer' = buffer /\ (stream' = stream \/ stream' = FALSE)
           \/ buffer' = NewBuffer /\ stream' = FALSE
        /\ phoneKnown' = connected' /\ connected' \in BOOLEAN
        /\ phone' \in BOOLEAN /\ begun' \in BOOLEAN
        /\ phones' = phones \/ (phones < MaxPhones /\ phones' = phones + 1)
        /\ calls' = calls \/ (calls < MaxCalls /\ calls' = calls + 1)
    <2> USE DEF PhoneInv, PhoneTypes, Device!historyVars, Device!Detach
    <2>1. CASE Device!Subscribe
      BY <2>1 DEF Device!Subscribe
    <2>2. CASE Device!Leave
      BY <2>2 DEF Device!Leave
    <2>3. CASE Device!Begin
      BY <2>3 DEF Device!Begin
    <2>4. CASE Device!End
      BY <2>4, SameOperators DEF Device!End
    <2>5. CASE Device!Update
      BY <2>5, SameOperators DEF Device!Update
    <2> QED
      BY <2>1, <2>2, <2>3, <2>4, <2>5
  <1>2. NewBuffer \in Buffers
    BY NewIs
  <1>3. phones' \in 0..MaxPhones /\ calls' \in 0..MaxCalls
    BY <1>1 DEF PhoneInv, PhoneTypes, PhoneAssumption
  <1>4. PhoneTypes'
    BY <1>1, <1>2, <1>3 DEF PhoneInv, PhoneTypes
  <1> QED
    BY <1>1, <1>4, PhoneKept

LEMMA PhoneSends ==
    ASSUME PhoneAssumption, PhoneInv, NEW m \in PhoneMessages, Device!Send(m)
    PROVE  PhoneInv'
  <1>1. PICK answer \in BOOLEAN :
          LET result == phoneKnown /\ Device!Result(buffer, m, answer) IN
          /\ answer => phone
          /\ toldPhone' = IF phoneKnown THEN Append(toldPhone, [m |-> m, result |-> result])
                          ELSE toldPhone
          /\ heardPhone' = IF phoneKnown /\ answer THEN heardPhone \o Device!Sent(buffer, m)
                           ELSE heardPhone
          /\ stream' = IF m.chunk THEN ~m.end /\ (stream \/ result) ELSE stream
    BY Zenon DEF Device!Send
  <1>2. /\ Device!Fits(stream, m)
        /\ buffer' = IF phoneKnown THEN Device!BufferAfter(buffer, m) ELSE buffer
        /\ tooLong' = IF phoneKnown /\ Device!Oversized(buffer, m) THEN tooLong + 1 ELSE tooLong
        /\ UNCHANGED <<phone, begun, phoneKnown, connected, phones, calls>>
    BY DEF Device!Send
  <1>3. m \in MidiMessages /\ buffer \in Buffers /\ stream \in BOOLEAN /\ phoneKnown \in BOOLEAN
    BY DEF PhoneAssumption, PhoneInv, PhoneTypes
  <1>4. toldPhone \in Seq(Sayings) /\ tooLong \in Nat
    BY DEF PhoneInv, PhoneTypes
  <1>5. m.chunk \in BOOLEAN /\ m.end \in BOOLEAN
    BY <1>3 DEF MidiMessages
  <1>6. CASE ~phoneKnown
    <2>1. UNCHANGED <<toldPhone, heardPhone, tooLong, buffer>>
      BY <1>1, <1>2, <1>6
    <2>2. stream' \in BOOLEAN /\ (stream' => stream)
      BY <1>1, <1>3, <1>5, <1>6
    <2>3. PhoneTypes'
      BY <1>2, <2>1, <2>2 DEF PhoneInv, PhoneTypes
    <2> QED
      BY <2>1, <2>2, <2>3, PhoneKept
  <1>7. CASE phoneKnown
    <2> DEFINE result == Result(buffer, m, answer)
               e == [m |-> m, result |-> result]
               p == IF e.m.chunk THEN ~e.m.end /\ (stream \/ e.result) ELSE stream
    <2>1. result \in BOOLEAN
      BY <1>3, SentType
    <2>2. e \in Sayings /\ e.m = m /\ e.result = Result(buffer, e.m, answer)
      BY <1>3, <2>1 DEF Sayings
    <2>3. /\ Collected(BufferAfter(buffer, e.m), Append(toldPhone, e), p)
          /\ Promised(Append(toldPhone, e)) =
                 Promised(toldPhone) \o (IF answer THEN Sent(buffer, e.m) ELSE << >>)
          /\ TooLong(Append(toldPhone, e)) =
                 TooLong(toldPhone) + (IF Oversized(buffer, e.m) THEN 1 ELSE 0)
      <3>1. Fits(stream, e.m) /\ Collected(buffer, toldPhone, stream)
        BY <1>2, <2>2, SameOperators, Zenon DEF PhoneInv
      <3> HIDE DEF e
      <3> QED
        BY <1>3, <1>4, <2>2, <3>1, Said
    <2>4. /\ toldPhone' = Append(toldPhone, e)
          /\ heardPhone' = IF answer THEN heardPhone \o Sent(buffer, m) ELSE heardPhone
      <3>1. /\ Device!Result(buffer, m, answer) = result
            /\ Device!Sent(buffer, m) = Sent(buffer, m)
        BY SameOperators, Zenon
      <3> HIDE DEF result
      <3>2. (phoneKnown /\ Device!Result(buffer, m, answer)) = result
        BY <1>3, <1>7, <2>1, <3>1
      <3>3. toldPhone' = Append(toldPhone, e)
        BY <1>1, <1>7, <3>2, Zenon
      <3>4. heardPhone' = IF answer THEN heardPhone \o Sent(buffer, m) ELSE heardPhone
        BY <1>1, <1>7, <3>1, Zenon
      <3> QED
        BY <3>3, <3>4
    <2>5. buffer' = BufferAfter(buffer, m)
      BY <1>2, <1>7, SameOperators, Zenon
    <2>6. tooLong' = IF Oversized(buffer, m) THEN tooLong + 1 ELSE tooLong
      <3>1. Device!Oversized(buffer, m) = Oversized(buffer, m)
        BY SameOperators, Zenon
      <3> QED
        BY <1>2, <1>7, <3>1, Zenon
    <2>7. stream' = p
      BY <1>1, <1>7, SameOperators
    <2>8. p \in BOOLEAN
      BY <1>3, <1>5, <2>1
    <2>9. BufferAfter(buffer, m) \in Buffers
      BY <1>3, SentType
    <2> HIDE DEF e, p, result
    <2>10. Append(toldPhone, e) \in Seq(Sayings)
      BY <1>4, <2>2, SaidIs
    <2>11. PhoneTypes'
      BY <1>2, <1>4, <2>4, <2>5, <2>6, <2>7, <2>8, <2>9, <2>10 DEF PhoneInv, PhoneTypes
    <2>12. heardPhone' = Promised(toldPhone')
      <3>1. Promised(toldPhone) \in Seq(Seq(Bytes)) /\ heardPhone = Promised(toldPhone)
        BY <1>4, PromisedIs DEF PhoneInv
      <3> QED
        BY <2>2, <2>3, <2>4, <3>1, ConcatEmptySeq
    <2>13. tooLong' = TooLong(toldPhone')
      BY <1>4, <2>2, <2>3, <2>4, <2>6 DEF PhoneInv
    <2>14. Collected(buffer', toldPhone', stream')
      BY <2>2, <2>3, <2>4, <2>5, <2>7, Zenon
    <2> QED
      BY <2>11, <2>12, <2>13, <2>14 DEF PhoneInv
  <1> QED
    BY <1>6, <1>7

(* A phone hears the short messages and the whole dumps that the output    *)
(* accepted, in their order, however phones come and go and the port is    *)
(* begun and ended in the middle of a dump, for any capacity and any       *)
(* division into chunks.                                                   *)
THEOREM PhonesGetWholeDumps ==
    PhoneAssumption /\ Device!Spec => [](Device!TypeOK /\ Device!PhoneGetsWholeDumps)
  <1>1. PhoneAssumption /\ Device!Init => PhoneAssumption /\ PhoneInv
    BY PhoneInit
  <1>2. PhoneAssumption /\ PhoneInv /\ [Device!Next]_(Device!bleDeviceVars)
        => PhoneAssumption' /\ PhoneInv'
    <2> SUFFICES ASSUME PhoneAssumption, PhoneInv, [Device!Next]_(Device!bleDeviceVars)
                 PROVE  PhoneInv'
      BY DEF PhoneAssumption
    <2>1. CASE UNCHANGED Device!bleDeviceVars
      <3>1. UNCHANGED <<phone, begun, phoneKnown, connected, buffer, stream, phones, calls,
                        toldPhone, heardPhone, tooLong>>
        BY <2>1 DEF Device!bleDeviceVars, Device!historyVars
      <3> QED
        BY <3>1 DEF PhoneInv, PhoneTypes
    <2> QED
      BY <2>1, PhoneMoves, PhoneSends DEF Device!Next
  <1>3. PhoneInv => Device!TypeOK /\ Device!PhoneGetsWholeDumps
    <2> SUFFICES ASSUME PhoneInv PROVE Device!TypeOK /\ Device!PhoneGetsWholeDumps
      OBVIOUS
    <2>1. Device!PhoneGetsWholeDumps
      BY SameOperators DEF PhoneInv, PhoneTypes, Device!PhoneGetsWholeDumps
    <2>2. /\ buffer.open \in BOOLEAN /\ buffer.overflowed \in BOOLEAN
          /\ Len(buffer.bytes) <= Capacity
      BY DEF PhoneInv, PhoneTypes, Buffers
    <2>3. Device!TypeOK
      BY <2>2 DEF PhoneInv, PhoneTypes, Device!TypeOK
    <2> QED
      BY <2>1, <2>3
  <1> QED
    BY <1>1, <1>2, <1>3, PTL DEF Device!Spec
=============================================================================
