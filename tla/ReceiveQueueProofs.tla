------------------------- MODULE ReceiveQueueProofs -------------------------
(***************************************************************************)
(* Proofs about ReceiveQueue for any number of tasks, any ring size that   *)
(* divides the index modulus, and chunks of any length.                    *)
(*                                                                         *)
(* SlotsExclusive and RingBounded are not inductive: IInv (ReceiveQueue)   *)
(* adds where the reserved indices lie, that a published slot belongs to   *)
(* an index in use, and that a task about to swap tail_ still has the room *)
(* it saw.  That the ring implements MessageQueue, and that the results    *)
(* are true, takes the history as well (HistoryInv): every index in use is *)
(* published or being written, and what went in of a message is what its   *)
(* task is past.                                                           *)
(***************************************************************************)
EXTENDS ReceiveQueue, SequenceTheorems, TLAPS

-----------------------------------------------------------------------------
(* Arithmetic of the free-running index.                                   *)

(* Euclidean division, as the facts the provers know it by.                *)
LEMMA Division ==
    ASSUME NEW n \in Nat \ {0}, NEW i \in Nat
    PROVE  /\ i \div n \in Nat
           /\ i % n \in 0 .. n - 1
           /\ i = n * (i \div n) + (i % n)
  BY SMT

(* Two multiples of n are not closer than n.                               *)
LEMMA MultiplesApart ==
    ASSUME NEW n \in Nat \ {0}, NEW a \in Int, NEW b \in Int, NEW d \in Int,
           0 < d, d < n, a * n = b * n + d
    PROVE  FALSE
  BY SMT

(* A multiple of a multiple of n, regrouped as one multiple of n.          *)
LEMMA Regroup ==
    ASSUME NEW n \in Nat, NEW k \in Nat, NEW q \in Nat, NEW c \in Nat, NEW s \in Nat
    PROVE  (n * k) * q + (n * c + s) = n * (k * q + c) + s
  BY SMT

(* A slot is an index of queue_[].                                         *)
LEMMA SlotType == ASSUME NEW i \in Nat PROVE Slot(i) \in SlotIds
  <1>1. IndexModulus \in Nat \ {0} /\ Entries \in Nat \ {0}
    BY EntriesAssumption, ModulusAssumption
  <1>2. i % IndexModulus \in Nat
    BY <1>1, Division
  <1> QED
    BY <1>1, <1>2, Division DEF Slot, SlotIds

(* Indices of one span of Entries fall on different slots, across the wrap *)
(* of the 32-bit index too.                                                *)
LEMMA SlotsApart ==
    ASSUME NEW i \in Nat, NEW j \in Nat, i < j, j < i + Entries
    PROVE  Slot(i) # Slot(j)
  <1> SUFFICES ASSUME Slot(i) = Slot(j) PROVE FALSE
    OBVIOUS
  <1>1. PICK k \in Nat : k > 1 /\ IndexModulus = Entries * k
    BY ModulusAssumption
  <1>2. IndexModulus \in Nat \ {0} /\ Entries \in Nat \ {0}
    BY EntriesAssumption, ModulusAssumption
  <1>3. PICK qi \in Nat : i = IndexModulus * qi + (i % IndexModulus)
    BY <1>2, Division
  <1>4. PICK qj \in Nat : j = IndexModulus * qj + (j % IndexModulus)
    BY <1>2, Division
  <1>r. (i % IndexModulus) \in Nat /\ (j % IndexModulus) \in Nat
    BY <1>2, Division
  <1>5. PICK ri \in Nat : ri = i % IndexModulus
    BY <1>r
  <1>6. PICK rj \in Nat : rj = j % IndexModulus
    BY <1>r
  <1>7. PICK si \in Nat : ri = Entries * si + (ri % Entries)
    BY <1>2, Division
  <1>8. PICK sj \in Nat : rj = Entries * sj + (rj % Entries)
    BY <1>2, Division
  <1>s. (ri % Entries) \in Nat
    BY <1>2, Division
  <1>9. PICK s \in Nat : s = ri % Entries /\ s = rj % Entries
    BY <1>s, <1>5, <1>6 DEF Slot
  <1>10. /\ i = (Entries * k) * qi + (Entries * si + s)
         /\ j = (Entries * k) * qj + (Entries * sj + s)
    BY <1>1, <1>3, <1>4, <1>5, <1>6, <1>7, <1>8, <1>9
  <1>11. /\ i = Entries * (k * qi + si) + s
         /\ j = Entries * (k * qj + sj) + s
    BY <1>2, <1>10, Regroup
  <1>12. PICK b \in Nat : b = k * qi + si
    OBVIOUS
  <1>13. PICK a \in Nat : a = k * qj + sj
    OBVIOUS
  <1>14. a * Entries = b * Entries + (j - i) /\ j - i \in Int
    BY <1>2, <1>11, <1>12, <1>13
  <1> QED
    BY <1>2, <1>14, MultiplesApart

(* The 32-bit subtraction of two indices less than 2^32 apart is exact.    *)
LEMMA MinusExact ==
    ASSUME NEW i \in Nat, NEW j \in Nat, i <= j, j <= i + Entries
    PROVE  Minus(j, i) = j - i
  <1>1. IndexModulus \in Nat /\ Entries < IndexModulus
    BY EntriesAssumption, ModulusAssumption
  <1>2. j - i \in Nat /\ j - i < IndexModulus
    BY <1>1, EntriesAssumption
  <1> QED
    BY <1>1, <1>2 DEF Minus
-----------------------------------------------------------------------------
(* Every variable keeps its type.                                          *)
LEMMA TypeInit == Init => TypeOK
  <1> SUFFICES ASSUME Init PROVE TypeOK
    OBVIOUS
  <1>1. Nothing \in Message
    BY TasksAssumption, BoundsAssumption DEF Nothing, Message
  <1> QED
    BY <1>1, BoundsAssumption DEF Init, TypeOK

(* The end of an entry leaves piece within the message and touches no      *)
(* other task.                                                             *)
LEMMA PieceDoneType ==
    ASSUME TypeOK, NEW t \in Tasks, PieceDone(t)
    PROVE  /\ piece' \in [Tasks -> 0..MaxPieces]
           /\ pc' \in [Tasks -> {"idle", "loadTail", "loadHead", "exchange",
                                 "write", "publish"}]
           /\ pc'[t] \in {"idle", "loadTail"}
           /\ \A u \in Tasks \ {t} : pc'[u] = pc[u]
  <1>1. CASE piece[t] < pieces[t]
    <2>1. piece[t] + 1 \in 0..MaxPieces
      BY <1>1, BoundsAssumption DEF TypeOK
    <2> QED
      BY <1>1, <2>1 DEF PieceDone, TypeOK
  <1>2. CASE ~(piece[t] < pieces[t])
    BY <1>2 DEF PieceDone, TypeOK
  <1> QED
    BY <1>1, <1>2

(* Every action of a task or of update() keeps the types.                  *)
LEMMA TypeNext == TypeOK /\ [Next]_vars => TypeOK'
  <1> SUFFICES ASSUME TypeOK, [Next]_vars PROVE TypeOK'
    OBVIOUS
  <1> USE DEF TypeOK, queueVars, counterVars, taskVars, updateVars
  <1>1. ASSUME NEW t \in Tasks, NEW n \in 1..MaxPieces, Receive(t, n)
        PROVE  TypeOK'
    BY <1>1, BoundsAssumption DEF Receive
  <1>2. ASSUME NEW t \in Tasks, ReceiveInvalid(t) PROVE TypeOK'
    BY <1>2, BoundsAssumption DEF ReceiveInvalid
  <1>3. ASSUME NEW t \in Tasks, LoadTail(t) PROVE TypeOK'
    BY <1>3 DEF LoadTail
  <1>4. ASSUME NEW t \in Tasks, Room(t) PROVE TypeOK'
    BY <1>4 DEF Room
  <1>5. ASSUME NEW t \in Tasks, Refuse(t) PROVE TypeOK'
    BY <1>5, PieceDoneType DEF Refuse
  <1>6. ASSUME NEW t \in Tasks, Reserve(t) PROVE TypeOK'
    BY <1>6 DEF Reserve
  <1>7. ASSUME NEW t \in Tasks, Retry(t) PROVE TypeOK'
    BY <1>7 DEF Retry
  <1>8. ASSUME NEW t \in Tasks, Write(t) PROVE TypeOK'
    <2>1. Current(t) \in Message
      BY DEF Current, Message
    <2> QED
      BY <1>8, <2>1 DEF Write
  <1>9. ASSUME NEW t \in Tasks, Publish(t) PROVE TypeOK'
    BY <1>9, PieceDoneType, SlotType DEF Publish
  <1>10. CASE BeginUpdate
    BY <1>10 DEF BeginUpdate
  <1>11. CASE EndUpdate
    BY <1>11 DEF EndUpdate, AllSeen
  <1>12. CASE Dispatch
    <2>1. content[Slot(head)] \in Message
      BY SlotType
    <2> QED
      BY <1>12, <2>1 DEF Dispatch, AllSeen
  <1>13. CASE Release
    BY <1>13 DEF Release
  <1>14. CASE Advance
    BY <1>14 DEF Advance
  <1>15. CASE UNCHANGED vars
    BY <1>15 DEF vars
  <1> QED
    BY <1>1, <1>2, <1>3, <1>4, <1>5, <1>6, <1>7, <1>8, <1>9, <1>10, <1>11,
       <1>12, <1>13, <1>14, <1>15
    DEF Next, UpdateStep, TaskStep, EnqueueStep

(* TypeOK holds in every reachable state.                                  *)
THEOREM TypeCorrect == Spec => []TypeOK
  BY TypeInit, TypeNext, PTL DEF Spec
-----------------------------------------------------------------------------
(* Two indices in use never fall on the same slot.                         *)
LEMMA RingSlotsApart ==
    ASSUME TypeOK, RingBounded,
           NEW i \in Nat, NEW j \in Nat,
           head <= i, i < tail, head <= j, j < tail, i # j
    PROVE  Slot(i) # Slot(j)
  <1>1. Entries \in Nat
    BY EntriesAssumption
  <1>2. CASE i < j
    BY <1>1, <1>2, SlotsApart DEF RingBounded, TypeOK
  <1>3. CASE j < i
    BY <1>1, <1>3, SlotsApart DEF RingBounded, TypeOK
  <1> QED
    BY <1>2, <1>3

(* The empty queue satisfies the invariant.                                *)
LEMMA InvInit == Init => IInv
  <1> SUFFICES ASSUME Init PROVE IInv
    OBVIOUS
  <1>1. TypeOK
    BY TypeInit
  <1>2. \A t \in Tasks : ~Writing(t)
    BY DEF Init, Writing
  <1>3. RingBounded /\ RoomHolds
    BY EntriesAssumption, BoundsAssumption DEF Init, RingBounded, RoomHolds
  <1>4. WritersInRing /\ WritersDistinct /\ WritersUnpublished
    BY <1>2 DEF WritersInRing, WritersDistinct, WritersUnpublished
  <1>5. ReservedBehindTail /\ PublishedInRing /\ ConsumerInRing
    BY BoundsAssumption DEF Init, ReservedBehindTail, PublishedInRing, ConsumerInRing
  <1> QED
    BY <1>1, <1>3, <1>4, <1>5 DEF IInv

(* The steps of a task that touch neither the ring nor a writing task.     *)
LEMMA LocalSteps ==
    ASSUME IInv, TypeOK',
           UNCHANGED <<head, tail, ready, upc, limit>>,
           NEW t \in Tasks,
           ~Writing(t), ~Writing(t)',
           \A u \in Tasks \ {t} : pc'[u] = pc[u] /\ reserved'[u] = reserved[u],
           reserved'[t] <= tail,
           pc'[t] = "exchange" /\ reserved'[t] = tail => tail < head + Entries
    PROVE  IInv'
  <1>1. \A u \in Tasks : Writing(u)' => u # t /\ Writing(u) /\ reserved'[u] = reserved[u]
    BY DEF Writing
  <1>2. \A i : Slot(i)' = Slot(i)
    BY DEF Slot
  <1>3. RingBounded' /\ PublishedInRing'
    BY <1>2 DEF IInv, RingBounded, PublishedInRing
  <1>4. WritersInRing' /\ WritersDistinct' /\ WritersUnpublished'
    BY <1>1, <1>2 DEF IInv, WritersInRing, WritersDistinct, WritersUnpublished
  <1>5. ReservedBehindTail' /\ RoomHolds'
    BY DEF IInv, ReservedBehindTail, RoomHolds
  <1>6. ConsumerInRing'
    BY <1>1, <1>2 DEF IInv, ConsumerInRing
  <1> QED
    BY <1>3, <1>4, <1>5, <1>6 DEF IInv

(* Each step of a task keeps the invariant.                                *)
LEMMA InvTask ==
    ASSUME IInv, TypeOK', NEW t \in Tasks, TaskStep(t)
    PROVE  IInv'
  <1> USE DEF queueVars, counterVars, taskVars, updateVars
  <1>1. TypeOK
    BY DEF IInv
  <1>2. ASSUME NEW n \in 1..MaxPieces, Receive(t, n) PROVE IInv'
    <2>1. /\ UNCHANGED <<head, tail, ready, upc, limit>>
          /\ ~Writing(t) /\ ~Writing(t)'
          /\ \A u \in Tasks \ {t} : pc'[u] = pc[u] /\ reserved'[u] = reserved[u]
          /\ pc'[t] # "exchange" /\ reserved'[t] = reserved[t]
      BY <1>1, <1>2 DEF Receive, Writing, TypeOK
    <2> QED
      BY <2>1, LocalSteps DEF IInv, ReservedBehindTail
  <1>3. CASE ReceiveInvalid(t)
    <2>1. /\ UNCHANGED <<head, tail, ready, upc, limit>>
          /\ ~Writing(t) /\ ~Writing(t)'
          /\ \A u \in Tasks \ {t} : pc'[u] = pc[u] /\ reserved'[u] = reserved[u]
          /\ pc'[t] # "exchange" /\ reserved'[t] = reserved[t]
      BY <1>1, <1>3 DEF ReceiveInvalid, Writing, TypeOK
    <2> QED
      BY <2>1, LocalSteps DEF IInv, ReservedBehindTail
  <1>4. CASE LoadTail(t) \/ Retry(t)
    <2>1. /\ UNCHANGED <<head, tail, ready, upc, limit>>
          /\ ~Writing(t) /\ ~Writing(t)'
          /\ \A u \in Tasks \ {t} : pc'[u] = pc[u] /\ reserved'[u] = reserved[u]
          /\ pc'[t] # "exchange" /\ reserved'[t] = tail
      BY <1>1, <1>4 DEF LoadTail, Retry, Writing, TypeOK
    <2>2. reserved'[t] <= tail
      BY <1>1, <2>1 DEF TypeOK
    <2> QED
      BY <2>1, <2>2, LocalSteps
  <1>5. CASE Room(t)
    <2>1. /\ UNCHANGED <<head, tail, ready, upc, limit>>
          /\ ~Writing(t) /\ ~Writing(t)'
          /\ \A u \in Tasks \ {t} : pc'[u] = pc[u] /\ reserved'[u] = reserved[u]
          /\ reserved'[t] = reserved[t]
      BY <1>1, <1>5 DEF Room, Writing, TypeOK
    <2>2. ASSUME reserved[t] = tail PROVE tail < head + Entries
      <3>1. Minus(tail, head) = tail - head
        BY <1>1, MinusExact DEF IInv, RingBounded, TypeOK
      <3>2. ~(Minus(tail, head) >= Entries)
        BY <1>5, <2>2 DEF Room, NoRoom
      <3> QED
        BY <1>1, <3>1, <3>2, EntriesAssumption DEF TypeOK
    <2> QED
      BY <2>1, <2>2, LocalSteps DEF IInv, ReservedBehindTail
  <1>6. CASE Refuse(t)
    <2>1. /\ UNCHANGED <<head, tail, ready, upc, limit>>
          /\ ~Writing(t) /\ ~Writing(t)'
          /\ \A u \in Tasks \ {t} : pc'[u] = pc[u] /\ reserved'[u] = reserved[u]
          /\ pc'[t] # "exchange" /\ reserved'[t] = reserved[t]
      BY <1>1, <1>6, PieceDoneType DEF Refuse, Writing
    <2> QED
      BY <2>1, LocalSteps DEF IInv, ReservedBehindTail
  <1>7. CASE Reserve(t)
    <2>1. /\ tail' = tail + 1 /\ reserved[t] = tail /\ tail < head + Entries
          /\ UNCHANGED <<head, ready, reserved, upc, limit>>
          /\ ~Writing(t)
          /\ \A u \in Tasks \ {t} : pc'[u] = pc[u]
          /\ pc'[t] = "write"
      BY <1>1, <1>7 DEF Reserve, Writing, IInv, RoomHolds, TypeOK
    <2>2. ~ready[Slot(tail)]
      <3> SUFFICES ASSUME ready[Slot(tail)] PROVE FALSE
        OBVIOUS
      <3>1. PICK i \in head .. tail - 1 : Slot(i) = Slot(tail)
        BY <1>1, SlotType DEF IInv, PublishedInRing, TypeOK
      <3>2. i \in Nat /\ i < tail /\ tail < i + Entries
        BY <1>1, <2>1, <3>1, EntriesAssumption DEF TypeOK
      <3> QED
        BY <1>1, <3>1, <3>2, SlotsApart DEF TypeOK
    <2>3. \A u \in Tasks : Writing(u)' => u = t \/ Writing(u)
      BY <2>1 DEF Writing
    <2>4. RingBounded'
      BY <1>1, <2>1, EntriesAssumption DEF IInv, RingBounded, TypeOK
    <2>a. \A u \in Tasks : reserved[u] \in Nat /\ reserved[u] <= tail
      BY <1>1 DEF IInv, ReservedBehindTail, TypeOK
    <2>b. \A u \in Tasks : Writing(u) => head <= reserved[u] /\ reserved[u] < tail
      BY DEF IInv, WritersInRing
    <2>c. head \in Nat /\ tail \in Nat /\ head <= tail
      BY <1>1 DEF IInv, RingBounded, TypeOK
    <2>5. WritersInRing'
      <3> SUFFICES ASSUME NEW u \in Tasks, Writing(u)'
                   PROVE  head <= reserved[u] /\ reserved[u] < tail + 1
        BY <2>1 DEF WritersInRing
      <3> QED
        BY <2>1, <2>3, <2>a, <2>b, <2>c
    <2>6. WritersDistinct'
      <3> SUFFICES ASSUME NEW u \in Tasks, NEW v \in Tasks,
                          Writing(u)', Writing(v)', u # v
                   PROVE  reserved[u] # reserved[v]
        BY <2>1 DEF WritersDistinct
      <3>1. CASE u # t /\ v # t
        BY <2>3, <3>1 DEF IInv, WritersDistinct
      <3>2. CASE u = t
        BY <2>1, <2>3, <2>a, <2>b, <2>c, <3>2
      <3>3. CASE v = t
        BY <2>1, <2>3, <2>a, <2>b, <2>c, <3>3
      <3> QED
        BY <3>1, <3>2, <3>3
    <2>7. WritersUnpublished'
      BY <2>1, <2>2, <2>3 DEF IInv, WritersUnpublished, Slot
    <2>8. ReservedBehindTail'
      <3> SUFFICES ASSUME NEW u \in Tasks PROVE reserved[u] <= tail + 1
        BY <2>1 DEF ReservedBehindTail
      <3> QED
        BY <2>a, <2>c
    <2>9. RoomHolds'
      BY <1>1, <2>1 DEF IInv, ReservedBehindTail, RoomHolds, TypeOK
    <2>10. PublishedInRing'
      BY <1>1, <2>1 DEF IInv, PublishedInRing, Slot, TypeOK
    <2>11. ConsumerInRing'
      BY <1>1, <2>1, <2>3 DEF IInv, ConsumerInRing, Slot, TypeOK
    <2> QED
      BY <2>4, <2>5, <2>6, <2>7, <2>8, <2>9, <2>10, <2>11 DEF IInv
  <1>8. CASE Write(t)
    <2>1. /\ UNCHANGED <<head, tail, ready, reserved, upc, limit>>
          /\ \A u \in Tasks : Writing(u)' <=> Writing(u)
          /\ \A u \in Tasks : pc'[u] = "exchange" => pc[u] = "exchange"
      BY <1>1, <1>8 DEF Write, Writing, TypeOK
    <2>2. RingBounded' /\ PublishedInRing'
      BY <2>1 DEF IInv, RingBounded, PublishedInRing, Slot
    <2>3. WritersInRing' /\ WritersDistinct' /\ WritersUnpublished'
      BY <2>1 DEF IInv, WritersInRing, WritersDistinct, WritersUnpublished, Slot
    <2>4. ReservedBehindTail' /\ RoomHolds' /\ ConsumerInRing'
      BY <2>1 DEF IInv, ReservedBehindTail, RoomHolds, ConsumerInRing, Slot
    <2> QED
      BY <2>2, <2>3, <2>4 DEF IInv
  <1>9. CASE Publish(t)
    <2>1. /\ UNCHANGED <<head, tail, reserved, upc, limit>>
          /\ ready' = [ready EXCEPT ![Slot(reserved[t])] = TRUE]
          /\ Writing(t) /\ ~Writing(t)'
          /\ pc'[t] # "exchange"
          /\ \A u \in Tasks \ {t} : pc'[u] = pc[u]
      BY <1>1, <1>9, PieceDoneType DEF Publish, Writing
    <2>2. /\ reserved[t] \in Nat /\ head <= reserved[t] /\ reserved[t] < tail
          /\ Slot(reserved[t]) \in SlotIds
      BY <1>1, <2>1, SlotType DEF IInv, WritersInRing, TypeOK
    <2>3. \A u \in Tasks : Writing(u)' => u # t /\ Writing(u)
      BY <2>1 DEF Writing
    <2>4. RingBounded' /\ WritersInRing' /\ WritersDistinct'
      BY <2>1, <2>3 DEF IInv, RingBounded, WritersInRing, WritersDistinct
    <2>5. WritersUnpublished'
      <3> SUFFICES ASSUME NEW u \in Tasks, Writing(u)'
                   PROVE  ~ready'[Slot(reserved[u])]
        BY <2>1 DEF WritersUnpublished, Slot
      <3>1. u # t /\ Writing(u)
        BY <2>3
      <3>2. Slot(reserved[u]) # Slot(reserved[t])
        BY <1>1, <2>1, <2>2, <3>1, RingSlotsApart
        DEF IInv, WritersInRing, WritersDistinct, TypeOK
      <3>3. ~ready[Slot(reserved[u])] /\ ready \in [SlotIds -> BOOLEAN]
        BY <1>1, <3>1 DEF IInv, WritersUnpublished, TypeOK
      <3> QED
        BY <2>1, <3>2, <3>3
    <2>6. ReservedBehindTail' /\ RoomHolds'
      BY <2>1 DEF IInv, ReservedBehindTail, RoomHolds
    <2>7. PublishedInRing'
      <3> SUFFICES ASSUME NEW s \in SlotIds, ready'[s]
                   PROVE  \E i \in head .. tail - 1 : Slot(i) = s
        BY <2>1 DEF PublishedInRing, Slot
      <3>1. CASE s = Slot(reserved[t])
        BY <1>1, <2>2, <3>1 DEF TypeOK
      <3>2. CASE s # Slot(reserved[t])
        BY <1>1, <2>1, <3>2 DEF IInv, PublishedInRing, TypeOK
      <3> QED
        BY <3>1, <3>2
    <2>8. ConsumerInRing'
      <3>1. ASSUME upc = "advance" PROVE Slot(reserved[t]) # Slot(head)
        <4>1. head < limit /\ limit <= tail /\ reserved[t] # head
          BY <2>1, <3>1 DEF IInv, ConsumerInRing
        <4>2. head \in Nat /\ head < tail /\ head <= head
          BY <1>1, <4>1 DEF TypeOK
        <4> QED
          BY <1>1, <2>2, <4>1, <4>2, RingSlotsApart DEF IInv
      <3>2. upc = "dispatch" => ready'[Slot(head)]
        BY <1>1, <2>1, SlotType DEF IInv, ConsumerInRing, TypeOK
      <3>3. upc = "advance" => ~ready'[Slot(head)]
        BY <1>1, <2>1, <3>1, SlotType DEF IInv, ConsumerInRing, TypeOK
      <3> QED
        BY <2>1, <2>3, <3>2, <3>3 DEF IInv, ConsumerInRing, Slot
    <2> QED
      BY <2>4, <2>5, <2>6, <2>7, <2>8 DEF IInv
  <1> QED
    BY <1>2, <1>3, <1>4, <1>5, <1>6, <1>7, <1>8, <1>9 DEF TaskStep, EnqueueStep

(* Each step of update() keeps the invariant.                              *)
LEMMA InvUpdate ==
    ASSUME IInv, TypeOK', UpdateStep
    PROVE  IInv'
  <1> USE DEF queueVars, counterVars, taskVars, updateVars
  <1>1. TypeOK
    BY DEF IInv
  <1>2. ASSUME UNCHANGED <<head, tail, ready, pc, reserved>>
        PROVE  /\ RingBounded' /\ WritersInRing' /\ WritersDistinct'
               /\ WritersUnpublished' /\ ReservedBehindTail' /\ RoomHolds'
               /\ PublishedInRing'
    BY <1>2 DEF IInv, RingBounded, WritersInRing, WritersDistinct, Writing, Slot,
                WritersUnpublished, ReservedBehindTail, RoomHolds, PublishedInRing
  <1>3. CASE BeginUpdate
    <2>1. ConsumerInRing'
      BY <1>1, <1>3 DEF BeginUpdate, IInv, ConsumerInRing, RingBounded, TypeOK
    <2> QED
      BY <1>2, <1>3, <2>1 DEF BeginUpdate, IInv
  <1>4. CASE EndUpdate
    <2>1. ConsumerInRing'
      BY <1>4 DEF EndUpdate, AllSeen, ConsumerInRing
    <2> QED
      BY <1>2, <1>4, <2>1 DEF EndUpdate, AllSeen, IInv
  <1>5. CASE Dispatch
    <2>1. head < limit
      BY <1>1, <1>5 DEF Dispatch, AllSeen, IInv, ConsumerInRing, TypeOK
    <2>2. ConsumerInRing'
      BY <1>5, <2>1 DEF Dispatch, AllSeen, IInv, ConsumerInRing, Slot
    <2> QED
      BY <1>2, <1>5, <2>2 DEF Dispatch, AllSeen, IInv
  <1>6. CASE Release
    <2>1. /\ UNCHANGED <<head, tail, pc, reserved, limit>>
          /\ upc = "dispatch" /\ upc' = "advance"
          /\ ready' = [ready EXCEPT ![Slot(head)] = FALSE]
      BY <1>6 DEF Release
    <2>2. /\ \A s \in SlotIds : ready'[s] => ready[s]
          /\ ~ready'[Slot(head)]
      BY <1>1, <2>1, SlotType DEF TypeOK
    <2>3. \A u \in Tasks : Writing(u)' <=> Writing(u)
      BY <2>1 DEF Writing
    <2>4. RingBounded' /\ WritersInRing' /\ WritersDistinct' /\ ReservedBehindTail'
              /\ RoomHolds'
      BY <2>1, <2>3 DEF IInv, RingBounded, WritersInRing, WritersDistinct,
                        ReservedBehindTail, RoomHolds
    <2>5. WritersUnpublished'
      <3> SUFFICES ASSUME NEW u \in Tasks, Writing(u)
                   PROVE  ~ready'[Slot(reserved[u])]
        BY <2>1, <2>3 DEF WritersUnpublished, Slot
      <3> QED
        BY <1>1, <2>2, SlotType DEF IInv, WritersUnpublished, TypeOK
    <2>6. PublishedInRing'
      BY <2>1, <2>2 DEF IInv, PublishedInRing, Slot
    <2>7. \A u \in Tasks : Writing(u) => reserved[u] # head
      BY <2>1 DEF IInv, WritersUnpublished, ConsumerInRing
    <2>8. ConsumerInRing'
      BY <2>1, <2>2, <2>3, <2>7 DEF IInv, ConsumerInRing, Slot
    <2> QED
      BY <2>4, <2>5, <2>6, <2>8 DEF IInv
  <1>7. CASE Advance
    <2>1. /\ UNCHANGED <<tail, ready, pc, reserved, limit>>
          /\ upc = "advance" /\ upc' = "loop" /\ head' = head + 1
      BY <1>7 DEF Advance
    <2>2. /\ head \in Nat /\ tail \in Nat /\ limit \in Nat
          /\ head < limit /\ limit <= tail /\ tail <= head + Entries
          /\ ~ready[Slot(head)]
          /\ \A u \in Tasks : Writing(u) => reserved[u] # head
      BY <1>1, <2>1 DEF IInv, RingBounded, ConsumerInRing, TypeOK
    <2>3. \A u \in Tasks : Writing(u)' <=> Writing(u)
      BY <2>1 DEF Writing
    <2>4. RingBounded'
      BY <2>1, <2>2, EntriesAssumption DEF RingBounded
    <2>5. WritersInRing'
      <3> SUFFICES ASSUME NEW u \in Tasks, Writing(u)
                   PROVE  head + 1 <= reserved[u] /\ reserved[u] < tail
        BY <2>1, <2>3 DEF WritersInRing
      <3>1. reserved[u] \in Nat /\ head <= reserved[u] /\ reserved[u] < tail
        BY <1>1 DEF IInv, WritersInRing, TypeOK
      <3> QED
        BY <2>2, <3>1
    <2>6. WritersDistinct' /\ WritersUnpublished' /\ ReservedBehindTail'
      BY <2>1, <2>3 DEF IInv, WritersDistinct, WritersUnpublished,
                        ReservedBehindTail, Slot
    <2>7. RoomHolds'
      BY <2>1, <2>2, EntriesAssumption DEF IInv, RoomHolds
    <2>8. PublishedInRing'
      <3> SUFFICES ASSUME NEW s \in SlotIds, ready[s]
                   PROVE  \E i \in head + 1 .. tail - 1 : Slot(i) = s
        BY <2>1 DEF PublishedInRing, Slot
      <3>1. PICK i \in head .. tail - 1 : Slot(i) = s
        BY DEF IInv, PublishedInRing
      <3>2. i # head
        BY <2>2, <3>1
      <3> QED
        BY <2>2, <3>1, <3>2
    <2>9. ConsumerInRing'
      BY <2>1, <2>2 DEF ConsumerInRing
    <2> QED
      BY <2>4, <2>5, <2>6, <2>7, <2>8, <2>9 DEF IInv
  <1> QED
    BY <1>3, <1>4, <1>5, <1>6, <1>7 DEF UpdateStep

(* The invariant is inductive.                                             *)
LEMMA InvNext == IInv /\ [Next]_vars => IInv'
  <1> SUFFICES ASSUME IInv, [Next]_vars PROVE IInv'
    OBVIOUS
  <1>1. TypeOK'
    BY TypeNext DEF IInv
  <1>2. CASE UpdateStep
    BY <1>1, <1>2, InvUpdate
  <1>3. ASSUME NEW t \in Tasks, TaskStep(t) PROVE IInv'
    BY <1>1, <1>3, InvTask
  <1>4. CASE UNCHANGED vars
    BY <1>4 DEF vars, queueVars, counterVars, taskVars, updateVars, IInv, TypeOK,
        RingBounded, WritersInRing, WritersDistinct, WritersUnpublished, Writing,
        ReservedBehindTail, RoomHolds, PublishedInRing, ConsumerInRing, Slot
  <1> QED
    BY <1>2, <1>3, <1>4 DEF Next

(* The inductive invariant holds in every reachable state.                 *)
THEOREM Invariant == Spec => []IInv
  BY InvInit, InvNext, PTL DEF Spec
-----------------------------------------------------------------------------
(* head_ and tail_ never span more than the ring.                          *)
THEOREM RingIsBounded == Spec => []RingBounded
  <1>1. IInv => RingBounded
    BY DEF IInv
  <1> QED
    BY <1>1, Invariant, PTL

(* Two tasks that may write hold different indices, so different slots.    *)
LEMMA InvExclusive == IInv => SlotsExclusive
  <1> SUFFICES ASSUME IInv, NEW t \in Tasks, Writing(t)
               PROVE  /\ ~ready[Slot(reserved[t])]
                      /\ upc = "dispatch" => Slot(reserved[t]) # Slot(head)
                      /\ \A u \in Tasks \ {t} :
                             Writing(u) => Slot(reserved[u]) # Slot(reserved[t])
    BY DEF SlotsExclusive
  <1>1. ~ready[Slot(reserved[t])]
    BY DEF IInv, WritersUnpublished
  <1>2. upc = "dispatch" => Slot(reserved[t]) # Slot(head)
    BY <1>1 DEF IInv, ConsumerInRing
  <1>3. ASSUME NEW u \in Tasks \ {t}, Writing(u)
        PROVE  Slot(reserved[u]) # Slot(reserved[t])
    <2>1. /\ reserved[t] \in Nat /\ head <= reserved[t] /\ reserved[t] < tail
          /\ reserved[u] \in Nat /\ head <= reserved[u] /\ reserved[u] < tail
          /\ reserved[u] # reserved[t]
      BY <1>3 DEF IInv, WritersInRing, WritersDistinct, TypeOK
    <2> QED
      BY <2>1, RingSlotsApart DEF IInv
  <1> QED
    BY <1>1, <1>2, <1>3

(* No task ever writes a slot that is published, being read by dispatch()  *)
(* or being written by another task.                                       *)
THEOREM SlotsAreExclusive == Spec => []SlotsExclusive
  BY Invariant, InvExclusive, PTL

(* A published entry keeps its contents until update() releases it.        *)
THEOREM PublishedStays == Spec => PublishedIsStable
  <1> DEFINE Stable == \A s \in SlotIds : ready[s] => content'[s] = content[s]
  <1>1. IInv /\ [Next]_vars => [Stable]_vars
    <2> SUFFICES ASSUME IInv, Next PROVE Stable
      OBVIOUS
    <2>1. ASSUME NEW t \in Tasks, Write(t) PROVE Stable
      <3>1. ~ready[Slot(reserved[t])]
        BY <2>1 DEF Write, Writing, IInv, WritersUnpublished
      <3> QED
        BY <2>1, <3>1 DEF Write, IInv, TypeOK
    <2>2. ASSUME UNCHANGED content PROVE Stable
      BY <2>2
    <2> QED
      BY <2>1, <2>2
      DEF Next, UpdateStep, TaskStep, EnqueueStep, BeginUpdate, EndUpdate,
          Dispatch, AllSeen, Release, Advance, LoadTail, Room, Refuse, Reserve, Retry,
          Publish, Receive, ReceiveInvalid, queueVars
  <1> QED
    BY <1>1, Invariant, PTL DEF Spec, PublishedIsStable
-----------------------------------------------------------------------------
(* The refinement.  What MessageQueue sees of the ring is rebuilt from the *)
(* slots: an index in use is published, or some task is writing it.        *)

Covered ==
    \A i \in NextIndex .. tail - 1 :
        ready[Slot(i)] \/ \E t \in Tasks : Writing(t) /\ reserved[t] = i

WrittenFirst ==
    \A t \in Tasks : pc[t] = "publish" => content[Slot(reserved[t])] = Current(t)

(* A task inside receive() is at one of the entries of its message.        *)
Calling ==
    \A t \in Tasks : pc[t] # "idle" =>
        call[t] > 0 /\ piece[t] > 0 /\ piece[t] <= pieces[t]

Accepted ==
    {dispatched[i] : i \in 1..Len(dispatched)} \cup {Pending[i] : i \in 1..Len(Pending)}

(* The entry m comes before the one its task is at, or is that one and has *)
(* its index already.                                                      *)
Behind(m) ==
    \/ m.call < call[m.task]
    \/ m.call = call[m.task] /\ m.piece < piece[m.task]
    \/ m = Current(m.task) /\ pc[m.task] \in {"idle", "write", "publish"}

Offered == [task : Tasks, call : 1..MaxCalls, piece : 1..MaxPieces]
AcceptedBehind == \A m \in Accepted : m \in Offered /\ Behind(m)

Entry(t, k) == [task |-> t, call |-> call[t], piece |-> k]

(* ok is true as long as every entry before the present one went in.       *)
ResultSoFar ==
    \A t \in Tasks :
        /\ pc[t] # "idle" =>
               (ok[t] <=> \A k \in 1 .. piece[t] - 1 : Entry(t, k) \in Accepted)
        /\ pc[t] = "idle" /\ call[t] > 0 =>
               (ok[t] <=> pieces[t] > 0 /\ \A k \in 1 .. pieces[t] : Entry(t, k) \in Accepted)

HistoryInv == Covered /\ WrittenFirst /\ Calling /\ AcceptedBehind /\ ResultSoFar

(* Pending, slot by slot.                                                  *)
PendingIs ==
    /\ Pending \in Seq(Message)
    /\ Len(Pending) = tail - NextIndex
    /\ \A i \in NextIndex .. tail - 1 :
           /\ ready[Slot(i)] => Pending[i - NextIndex + 1] = content[Slot(i)]
           /\ \A t \in Tasks : Writing(t) /\ reserved[t] = i =>
                  Pending[i - NextIndex + 1] = Current(t)

LEMMA NextIndexInRing == IInv => NextIndex \in Nat /\ head <= NextIndex /\ NextIndex <= tail
  BY DEF IInv, TypeOK, NextIndex, RingBounded, ConsumerInRing

LEMMA InvPendingIs == IInv /\ Covered => PendingIs
  <1> SUFFICES ASSUME IInv, Covered PROVE PendingIs
    OBVIOUS
  <1> DEFINE n == NextIndex
  <1>1. n \in Nat /\ head <= n /\ n <= tail /\ tail \in Nat /\ head \in Nat
    BY NextIndexInRing DEF IInv, TypeOK
  <1> HIDE DEF n
  <1>2. ASSUME NEW i \in Nat, NEW t \in Tasks, Writing(t), reserved[t] = i
        PROVE  ~ready[Slot(i)] /\ MessageAt(i) = Current(t)
    <2>1. ~ready[Slot(i)]
      BY <1>2 DEF IInv, WritersUnpublished
    <2>2. (CHOOSE u \in Tasks : Writing(u) /\ reserved[u] = i) = t
      BY <1>2 DEF IInv, WritersDistinct
    <2> QED
      BY <2>1, <2>2 DEF MessageAt
  <1>3. ASSUME NEW i \in Nat, ready[Slot(i)] PROVE MessageAt(i) = content[Slot(i)]
    BY <1>3 DEF MessageAt
  <1>4. \A t \in Tasks : Current(t) \in Message
    BY DEF IInv, TypeOK, Current, Message
  <1>5. ASSUME NEW i \in n .. tail - 1 PROVE MessageAt(i) \in Message
    <2>1. i \in Nat
      BY <1>1
    <2>2. CASE ready[Slot(i)]
      BY <1>3, <2>1, <2>2, SlotType DEF IInv, TypeOK
    <2>3. CASE ~ready[Slot(i)]
      BY <1>2, <1>4, <2>1, <2>3 DEF Covered, n
    <2> QED
      BY <2>2, <2>3
  <1>6. Pending = [j \in 1 .. tail - n |-> MessageAt(n + j - 1)]
    BY DEF Pending, n
  <1>7. \A j \in 1 .. tail - n : n + j - 1 \in n .. tail - 1
    BY <1>1
  <1>8. Pending \in [1 .. tail - n -> Message]
    BY <1>5, <1>6, <1>7
  <1>9. Pending \in Seq(Message) /\ Len(Pending) = tail - n
    BY <1>1, <1>8
  <1>10. ASSUME NEW i \in n .. tail - 1
         PROVE  i \in Nat /\ Pending[i - n + 1] = MessageAt(i)
    <2>1. i - n + 1 \in 1 .. tail - n /\ n + (i - n + 1) - 1 = i
      BY <1>1
    <2> QED
      BY <1>1, <1>6, <2>1
  <1> QED
    BY <1>2, <1>3, <1>9, <1>10 DEF PendingIs, n
-----------------------------------------------------------------------------
(* Pending' from Pending, for the steps that touch neither end of it: what *)
(* is published stays, and who is writing goes on or publishes.            *)
Kept ==
    /\ tail' = tail /\ NextIndex' = NextIndex
    /\ \A i \in NextIndex .. tail - 1 :
           ready[Slot(i)] => ready'[Slot(i)] /\ content'[Slot(i)] = content[Slot(i)]
    /\ \A t \in Tasks : Writing(t) =>
           \/ Writing(t)' /\ reserved'[t] = reserved[t] /\ Current(t)' = Current(t)
           \/ ready'[Slot(reserved[t])] /\ content'[Slot(reserved[t])] = Current(t)

LEMMA KeptMeans ==
    ASSUME IInv, IInv', Covered, Kept
    PROVE  Covered' /\ Pending' = Pending
  <1>1. NextIndex \in Nat /\ tail \in Nat /\ NextIndex <= tail
    BY NextIndexInRing DEF IInv, TypeOK
  <1>2. \A i : Slot(i)' = Slot(i)
    BY DEF Slot
  <1>3. Covered'
    BY <1>2 DEF Covered, Kept
  <1>4. PendingIs
    BY InvPendingIs
  <1>5. PendingIs'
    BY <1>3, InvPendingIs, PTL
  <1>6. /\ Pending \in Seq(Message) /\ Pending' \in Seq(Message)
        /\ Len(Pending) = tail - NextIndex /\ Len(Pending') = tail - NextIndex
    BY <1>4, <1>5 DEF PendingIs, Kept, Message
  <1>7. ASSUME NEW i \in NextIndex .. tail - 1
        PROVE  Pending'[i - NextIndex + 1] = Pending[i - NextIndex + 1]
    <2>1. CASE ready[Slot(i)]
      BY <1>2, <1>4, <1>5, <2>1 DEF PendingIs, Kept
    <2>2. ASSUME NEW t \in Tasks, Writing(t), reserved[t] = i
          PROVE  Pending'[i - NextIndex + 1] = Pending[i - NextIndex + 1]
      <3>1. Pending[i - NextIndex + 1] = Current(t)
        BY <1>4, <2>2 DEF PendingIs
      <3>2. CASE Writing(t)' /\ reserved'[t] = reserved[t] /\ Current(t)' = Current(t)
        BY <1>5, <2>2, <3>1, <3>2 DEF PendingIs, Kept
      <3>3. CASE ready'[Slot(i)] /\ content'[Slot(i)] = Current(t)
        BY <1>2, <1>5, <3>1, <3>3 DEF PendingIs, Kept
      <3> QED
        BY <2>2, <3>2, <3>3 DEF Kept
    <2> QED
      BY <2>1, <2>2 DEF Covered
  <1>8. ASSUME NEW j \in 1..Len(Pending) PROVE Pending[j] = Pending'[j]
    <2>1. NextIndex + j - 1 \in NextIndex .. tail - 1 /\ (NextIndex + j - 1) - NextIndex + 1 = j
      BY <1>1, <1>6
    <2> QED
      BY <1>7, <2>1
  <1> QED
    BY <1>3, <1>6, <1>8, SeqEqual

(* A task that stays or becomes a writer is the only one of them to touch  *)
(* its slot, and what is in use has slots of its own.                      *)
LEMMA TasksKeep ==
    ASSUME IInv, IInv', WrittenFirst, NEW t \in Tasks, TaskStep(t), ~Reserve(t)
    PROVE  Kept /\ dispatched' = dispatched
  <1> USE DEF queueVars, counterVars, taskVars, updateVars
  <1>1. TypeOK
    BY DEF IInv
  <1>2. /\ UNCHANGED <<head, tail, upc, dispatched>>
        /\ \A u \in Tasks \ {t} : /\ pc'[u] = pc[u] /\ reserved'[u] = reserved[u]
                                  /\ call'[u] = call[u] /\ piece'[u] = piece[u]
    BY <1>1, PieceDoneType DEF TaskStep, EnqueueStep, LoadTail, Room, Refuse, Retry, Write,
          Publish, ReceiveInvalid, Receive, TypeOK, PieceDone
  <1>3. NextIndex' = NextIndex
    BY <1>2 DEF NextIndex
  <1>4. \A u \in Tasks \ {t} : Writing(u) =>
            Writing(u)' /\ reserved'[u] = reserved[u] /\ Current(u)' = Current(u)
    BY <1>2 DEF Writing, Current
  <1>5. CASE Write(t)
    <2>1. Writing(t) /\ Writing(t)' /\ reserved' = reserved /\ Current(t)' = Current(t)
      BY <1>1, <1>5 DEF Write, Writing, Current, TypeOK
    <2>2. ASSUME NEW s \in SlotIds, ready[s] PROVE ready'[s] /\ content'[s] = content[s]
      BY <1>1, <1>5, <2>1, <2>2 DEF Write, IInv, WritersUnpublished, TypeOK
    <2>3. \A i \in NextIndex .. tail - 1 : Slot(i) \in SlotIds
      BY <1>1, NextIndexInRing, SlotType DEF TypeOK
    <2> QED
      BY <1>2, <1>3, <1>4, <2>1, <2>2, <2>3 DEF Kept
  <1>6. CASE Publish(t)
    <2>1. /\ content' = content /\ reserved' = reserved
          /\ ready' = [ready EXCEPT ![Slot(reserved[t])] = TRUE]
          /\ content[Slot(reserved[t])] = Current(t)
      BY <1>6 DEF Publish, WrittenFirst
    <2>2. Slot(reserved[t]) \in SlotIds /\ ready \in [SlotIds -> BOOLEAN]
      BY <1>1, SlotType DEF TypeOK
    <2>3. \A i \in NextIndex .. tail - 1 : Slot(i) \in SlotIds
      BY <1>1, NextIndexInRing, SlotType DEF TypeOK
    <2> QED
      BY <1>2, <1>3, <1>4, <2>1, <2>2, <2>3 DEF Kept
  <1>7. CASE ~Write(t) /\ ~Publish(t)
    <2>1. ~Writing(t) /\ UNCHANGED <<ready, content>>
      BY <1>1, <1>7 DEF TaskStep, EnqueueStep, LoadTail, Room, Refuse, Retry, Receive,
                        ReceiveInvalid, Writing, TypeOK
    <2> QED
      BY <1>2, <1>3, <1>4, <2>1 DEF Kept
  <1> QED
    BY <1>5, <1>6, <1>7

LEMMA UpdateKeeps ==
    ASSUME IInv, IInv', UpdateStep, ~Dispatch
    PROVE  Kept /\ UNCHANGED <<dispatched, taskVars>>
  <1> USE DEF queueVars, counterVars, updateVars
  <1>1. TypeOK
    BY DEF IInv
  <1>2. UNCHANGED <<tail, content, dispatched, taskVars>>
    BY DEF UpdateStep, BeginUpdate, EndUpdate, AllSeen, Release, Advance
  <1>3. NextIndex' = NextIndex
    BY DEF UpdateStep, BeginUpdate, EndUpdate, AllSeen, Release, Advance, NextIndex
  <1>4. \A t \in Tasks : Writing(t) =>
            Writing(t)' /\ reserved'[t] = reserved[t] /\ Current(t)' = Current(t)
    BY <1>2 DEF Writing, Current, taskVars
  <1>5. CASE Release
    <2>1. head \in Nat /\ head < tail /\ NextIndex = head + 1
      BY <1>1, <1>5 DEF Release, IInv, ConsumerInRing, NextIndex, TypeOK
    <2>2. ASSUME NEW i \in NextIndex .. tail - 1, ready[Slot(i)] PROVE ready'[Slot(i)]
      <3>1. i \in Nat /\ head <= i /\ i < tail /\ i # head
        BY <1>1, <2>1 DEF TypeOK
      <3>2. Slot(i) # Slot(head) /\ Slot(i) \in SlotIds
        BY <1>1, <2>1, <3>1, RingSlotsApart, SlotType DEF IInv
      <3> QED
        BY <1>1, <1>5, <2>2, <3>2 DEF Release, TypeOK
    <2> QED
      BY <1>2, <1>3, <1>4, <2>2 DEF Kept
  <1>6. CASE ~Release
    <2>1. ready' = ready
      BY <1>6 DEF UpdateStep, BeginUpdate, EndUpdate, AllSeen, Advance
    <2> QED
      BY <1>2, <1>3, <1>4, <2>1 DEF Kept
  <1> QED
    BY <1>5, <1>6

(* A successful swap of tail_ puts the message at the end of Pending,      *)
(* before it is even written ...                                           *)
LEMMA ReserveAccepts ==
    ASSUME IInv, IInv', Covered, NEW t \in Tasks, Reserve(t)
    PROVE  /\ Covered' /\ Pending' = Append(Pending, Current(t))
           /\ Len(Pending) < Entries /\ dispatched' = dispatched
  <1> USE DEF queueVars, counterVars, taskVars, updateVars
  <1>1. TypeOK
    BY DEF IInv
  <1>2. /\ UNCHANGED <<head, upc, dispatched, ready, content, reserved, call, piece>>
        /\ tail' = tail + 1 /\ reserved[t] = tail
        /\ pc' = [pc EXCEPT ![t] = "write"] /\ ~Writing(t)
    BY DEF Reserve, Writing
  <1>3. NextIndex' = NextIndex /\ \A u : Current(u)' = Current(u)
    BY <1>2 DEF NextIndex, Current
  <1>4. /\ NextIndex \in Nat /\ tail \in Nat /\ NextIndex <= tail /\ head <= NextIndex
        /\ tail < head + Entries /\ head \in Nat
    BY <1>1, NextIndexInRing DEF IInv, TypeOK, RoomHolds, Reserve
  <1>5. Writing(t)' /\ \A u \in Tasks : Writing(u) => Writing(u)'
    BY <1>1, <1>2 DEF Writing, TypeOK
  <1>6. \A i : Slot(i)' = Slot(i)
    BY DEF Slot
  <1>7. Covered'
    <2> SUFFICES ASSUME NEW i \in NextIndex .. tail
                 PROVE  ready[Slot(i)] \/ \E u \in Tasks : Writing(u)' /\ reserved[u] = i
      BY <1>2, <1>3, <1>4, <1>6 DEF Covered
    <2>1. CASE i = tail
      BY <1>2, <1>5, <2>1
    <2>2. CASE i \in NextIndex .. tail - 1
      BY <1>5, <2>2 DEF Covered
    <2> QED
      BY <1>4, <2>1, <2>2
  <1>8. PendingIs
    BY InvPendingIs
  <1>9. PendingIs'
    BY <1>7, InvPendingIs, PTL
  <1> DEFINE n == tail - NextIndex
  <1>10. /\ Pending \in Seq(Message) /\ Pending' \in Seq(Message)
         /\ Len(Pending) = n /\ Len(Pending') = n + 1 /\ n \in Nat
    BY <1>2, <1>3, <1>4, <1>8, <1>9 DEF PendingIs, Message
  <1>11. Current(t) \in Message
    BY <1>1 DEF TypeOK, Current, Message
  <1>12. /\ Append(Pending, Current(t)) \in Seq(Message)
         /\ Len(Append(Pending, Current(t))) = n + 1
         /\ Append(Pending, Current(t))[n + 1] = Current(t)
         /\ \A j \in 1..n : Append(Pending, Current(t))[j] = Pending[j]
    BY <1>10, <1>11
  <1>13. Pending'[n + 1] = Current(t)
    BY <1>2, <1>3, <1>4, <1>5, <1>9 DEF PendingIs
  <1>14. ASSUME NEW j \in 1..n PROVE Pending'[j] = Pending[j]
    <2> DEFINE i == NextIndex + j - 1
    <2>1. i \in NextIndex .. tail - 1 /\ i \in NextIndex' .. tail' - 1 /\ i - NextIndex + 1 = j
      BY <1>2, <1>3, <1>4
    <2>2. CASE ready[Slot(i)]
      <3>1. Pending[i - NextIndex + 1] = content[Slot(i)]
        BY <1>8, <2>1, <2>2 DEF PendingIs
      <3>2. Pending'[i - NextIndex + 1] = content[Slot(i)]
        BY <1>2, <1>3, <1>6, <1>9, <2>1, <2>2 DEF PendingIs
      <3> QED
        BY <2>1, <3>1, <3>2
    <2>3. ASSUME NEW u \in Tasks, Writing(u), reserved[u] = i PROVE Pending'[j] = Pending[j]
      <3>1. Pending[i - NextIndex + 1] = Current(u)
        BY <1>8, <2>1, <2>3 DEF PendingIs
      <3>2. Pending'[i - NextIndex + 1] = Current(u)
        BY <1>2, <1>3, <1>5, <1>9, <2>1, <2>3 DEF PendingIs
      <3> QED
        BY <2>1, <3>1, <3>2
    <2> QED
      BY <2>1, <2>2, <2>3 DEF Covered
  <1>15. \A j \in 1..n + 1 : Pending'[j] = Append(Pending, Current(t))[j]
    BY <1>10, <1>12, <1>13, <1>14
  <1>16. Pending' = Append(Pending, Current(t))
    BY <1>10, <1>12, <1>15, SeqEqual
  <1>17. n < Entries
    BY <1>4, EntriesAssumption
  <1> QED
    BY <1>2, <1>7, <1>10, <1>16, <1>17

(* ... and dispatch() is handed the first of it.                           *)
LEMMA DispatchDelivers ==
    ASSUME IInv, IInv', Covered, Dispatch
    PROVE  /\ Covered' /\ Pending # << >> /\ Pending' = Tail(Pending)
           /\ dispatched' = Append(dispatched, Head(Pending))
  <1> USE DEF queueVars, counterVars, taskVars, updateVars
  <1>1. TypeOK
    BY DEF IInv
  <1>2. /\ UNCHANGED <<head, tail, ready, content, pc, reserved, call, piece>>
        /\ NextIndex = head /\ NextIndex' = head + 1 /\ ready[Slot(head)]
        /\ dispatched' = Append(dispatched, content[Slot(head)])
    BY DEF Dispatch, AllSeen, NextIndex
  <1>3. head \in Nat /\ tail \in Nat /\ head < tail
    BY <1>1 DEF IInv, ConsumerInRing, Dispatch, AllSeen, TypeOK
  <1>4. \A i : Slot(i)' = Slot(i)
    BY DEF Slot
  <1>5. \A t \in Tasks : (Writing(t)' <=> Writing(t)) /\ Current(t)' = Current(t)
    BY <1>2 DEF Writing, Current
  <1>6. Covered'
    BY <1>2, <1>3, <1>4, <1>5 DEF Covered
  <1>7. PendingIs
    BY InvPendingIs
  <1>8. PendingIs'
    BY <1>6, InvPendingIs, PTL
  <1> DEFINE n == tail - head
  <1>9. /\ Pending \in Seq(Message) /\ Pending' \in Seq(Message)
        /\ Len(Pending) = n /\ Len(Pending') = n - 1 /\ n \in Nat \ {0}
    BY <1>2, <1>3, <1>7, <1>8 DEF PendingIs, Message
  <1>10. Pending[1] = content[Slot(head)]
    BY <1>2, <1>3, <1>7 DEF PendingIs
  <1>11. /\ Pending # << >> /\ Head(Pending) = content[Slot(head)]
         /\ Tail(Pending) \in Seq(Message) /\ Len(Tail(Pending)) = n - 1
         /\ \A j \in 1 .. n - 1 : Tail(Pending)[j] = Pending[j + 1]
    BY <1>9, <1>10
  <1>12. ASSUME NEW j \in 1 .. n - 1 PROVE Pending'[j] = Pending[j + 1]
    <2> DEFINE i == head + j
    <2>1. /\ i \in NextIndex .. tail - 1 /\ i \in NextIndex' .. tail' - 1
          /\ i - NextIndex + 1 = j + 1 /\ i - NextIndex' + 1 = j
      BY <1>2, <1>3
    <2>2. CASE ready[Slot(i)]
      <3>1. Pending[i - NextIndex + 1] = content[Slot(i)]
        BY <1>7, <2>1, <2>2 DEF PendingIs
      <3>2. Pending'[i - NextIndex' + 1] = content[Slot(i)]
        BY <1>2, <1>4, <1>8, <2>1, <2>2 DEF PendingIs
      <3> QED
        BY <2>1, <3>1, <3>2
    <2>3. ASSUME NEW u \in Tasks, Writing(u), reserved[u] = i PROVE Pending'[j] = Pending[j + 1]
      <3>1. Pending[i - NextIndex + 1] = Current(u)
        BY <1>7, <2>1, <2>3 DEF PendingIs
      <3>2. Pending'[i - NextIndex' + 1] = Current(u)
        BY <1>2, <1>5, <1>8, <2>1, <2>3 DEF PendingIs
      <3> QED
        BY <2>1, <3>1, <3>2
    <2> QED
      BY <2>1, <2>2, <2>3 DEF Covered
  <1>13. Pending' = Tail(Pending)
    BY <1>9, <1>11, <1>12, SeqEqual
  <1> QED
    BY <1>2, <1>6, <1>11, <1>13
-----------------------------------------------------------------------------
(* What was accepted stays so, and only Reserve accepts.                   *)
LEMMA AcceptedStep ==
    ASSUME IInv, IInv', HistoryInv, [Next]_vars
    PROVE  /\ Covered'
           /\ \/ UNCHANGED <<Pending, dispatched>> /\ Accepted' = Accepted
              \/ /\ Dispatch /\ Pending # << >> /\ Pending' = Tail(Pending)
                 /\ dispatched' = Append(dispatched, Head(Pending))
                 /\ Accepted' = Accepted
              \/ \E t \in Tasks :
                     /\ Reserve(t) /\ Len(Pending) < Entries
                     /\ Pending' = Append(Pending, Current(t)) /\ dispatched' = dispatched
                     /\ Accepted' = Accepted \cup {Current(t)}
  <1>1. Covered /\ WrittenFirst /\ TypeOK /\ PendingIs
    BY InvPendingIs DEF HistoryInv, IInv
  <1>2. Pending \in Seq(Message) /\ dispatched \in Seq(Message)
    BY <1>1 DEF PendingIs, TypeOK
  <1>3. ASSUME Kept, dispatched' = dispatched
        PROVE  Covered' /\ UNCHANGED <<Pending, dispatched>> /\ Accepted' = Accepted
    BY <1>1, <1>3, KeptMeans DEF Accepted
  <1>4. ASSUME NEW t \in Tasks, TaskStep(t), ~Reserve(t) PROVE Kept /\ dispatched' = dispatched
    BY <1>1, <1>4, TasksKeep
  <1>5. ASSUME NEW t \in Tasks, Reserve(t)
        PROVE  /\ Covered' /\ Len(Pending) < Entries
               /\ Pending' = Append(Pending, Current(t)) /\ dispatched' = dispatched
               /\ Accepted' = Accepted \cup {Current(t)}
    <2>1. /\ Covered' /\ Pending' = Append(Pending, Current(t))
          /\ Len(Pending) < Entries /\ dispatched' = dispatched
      BY <1>1, <1>5, ReserveAccepts
    <2> DEFINE n == Len(Pending)
    <2>2. /\ n \in Nat /\ Len(Pending') = n + 1 /\ Pending'[n + 1] = Current(t)
          /\ \A i \in 1..n : Pending'[i] = Pending[i]
      BY <1>1, <1>2, <2>1 DEF TypeOK, Current, Message
    <2> HIDE DEF n
    <2>3. {Pending'[i] : i \in 1 .. n + 1} = {Pending[i] : i \in 1..n} \cup {Current(t)}
      BY <2>2
    <2> QED
      BY <2>1, <2>2, <2>3 DEF Accepted, n
  <1>6. CASE Dispatch
    <2>1. /\ Covered' /\ Pending # << >> /\ Pending' = Tail(Pending)
          /\ dispatched' = Append(dispatched, Head(Pending))
      BY <1>1, <1>6, DispatchDelivers
    <2> DEFINE n == Len(Pending)
               d == Len(dispatched)
    <2>2. /\ n \in Nat \ {0} /\ Len(Pending') = n - 1
          /\ \A i \in 1 .. n - 1 : Pending'[i] = Pending[i + 1]
          /\ d \in Nat /\ Len(dispatched') = d + 1 /\ dispatched'[d + 1] = Pending[1]
          /\ \A i \in 1..d : dispatched'[i] = dispatched[i]
      BY <1>2, <2>1
    <2> HIDE DEF n, d
    <2>3. {Pending[i] : i \in 1..n} = {Pending[i + 1] : i \in 1 .. n - 1} \cup {Pending[1]}
      <3>1. \A i \in 1..n : i = 1 \/ (i - 1 \in 1 .. n - 1 /\ Pending[(i - 1) + 1] = Pending[i])
        BY <2>2
      <3>2. \A i \in 1 .. n - 1 : i + 1 \in 1..n
        BY <2>2
      <3>3. 1 \in 1..n
        BY <2>2
      <3> HIDE <2>2
      <3> QED
        BY <3>1, <3>2, <3>3
    <2>4. {Pending'[i] : i \in 1 .. n - 1} = {Pending[i + 1] : i \in 1 .. n - 1}
      <3>1. \A i \in 1 .. n - 1 : Pending'[i] = Pending[i + 1]
        BY <2>2
      <3> QED
        BY <3>1
    <2>5. {dispatched'[i] : i \in 1 .. d + 1} = {dispatched[i] : i \in 1..d} \cup {Pending[1]}
      BY <2>2
    <2> QED
      BY <1>6, <2>1, <2>2, <2>3, <2>4, <2>5 DEF Accepted, n, d
  <1>7. CASE UpdateStep /\ ~Dispatch
    BY <1>3, <1>7, UpdateKeeps
  <1>8. CASE UNCHANGED vars
    <2>1. Kept /\ dispatched' = dispatched
      BY <1>8 DEF Kept, vars, queueVars, taskVars, updateVars, NextIndex, Writing, Current
    <2> QED
      BY <1>3, <2>1
  <1> QED
    BY <1>3, <1>4, <1>5, <1>6, <1>7, <1>8 DEF Next

(* The steps of receive() keep to the entries of the message.              *)
LEMMA CallingNext == TypeOK /\ Calling /\ [Next]_vars => Calling'
  <1> SUFFICES ASSUME TypeOK, Calling, [Next]_vars PROVE Calling'
    OBVIOUS
  <1> USE DEF TypeOK, Calling, queueVars, counterVars, taskVars, updateVars
  <1>1. ASSUME NEW t \in Tasks, PieceDone(t), pc[t] # "idle", UNCHANGED <<call, pieces>>
        PROVE  Calling'
    <2>1. ASSUME NEW u \in Tasks \ {t} PROVE pc'[u] = pc[u] /\ piece'[u] = piece[u]
      BY <1>1 DEF PieceDone
    <2>2. CASE piece[t] < pieces[t]
      <3>1. piece'[t] = piece[t] + 1 /\ call'[t] > 0 /\ pieces'[t] = pieces[t]
        BY <1>1, <2>2 DEF PieceDone
      <3>2. piece'[t] > 0 /\ piece'[t] <= pieces'[t]
        BY <2>2, <3>1
      <3> QED
        BY <1>1, <2>1, <3>1, <3>2
    <2>3. CASE ~(piece[t] < pieces[t])
      <3>1. pc'[t] = "idle"
        BY <1>1, <2>3 DEF PieceDone
      <3> QED
        BY <1>1, <2>1, <3>1
    <2> QED
      BY <2>2, <2>3
  <1>2. ASSUME NEW t \in Tasks, NEW n \in 1..MaxPieces, Receive(t, n) PROVE Calling'
    BY <1>2, BoundsAssumption DEF Receive
  <1>3. ASSUME NEW t \in Tasks, ReceiveInvalid(t) PROVE Calling'
    BY <1>3, BoundsAssumption DEF ReceiveInvalid
  <1>4. ASSUME NEW t \in Tasks, LoadTail(t) \/ Room(t) \/ Reserve(t) \/ Retry(t) \/ Write(t)
        PROVE  Calling'
    BY <1>4 DEF LoadTail, Room, Reserve, Retry, Write
  <1>5. ASSUME NEW t \in Tasks, Refuse(t) \/ Publish(t) PROVE Calling'
    BY <1>1, <1>5 DEF Refuse, Publish
  <1>6. CASE UpdateStep \/ UNCHANGED vars
    <2>1. UNCHANGED <<pc, call, piece, pieces>>
      BY <1>6 DEF UpdateStep, BeginUpdate, EndUpdate, AllSeen, Dispatch, Release, Advance, vars
    <2> QED
      BY <2>1
  <1> QED
    BY <1>2, <1>3, <1>4, <1>5, <1>6 DEF Next, TaskStep, EnqueueStep

(* What is in a slot when it is published is what its writer wrote: no     *)
(* other task writes there in between.                                     *)
LEMMA WrittenNext == IInv /\ WrittenFirst /\ [Next]_vars => WrittenFirst'
  <1> SUFFICES ASSUME IInv, WrittenFirst, [Next]_vars,
                      NEW t \in Tasks, pc'[t] = "publish"
               PROVE  content'[Slot(reserved'[t])] = Current(t)'
    BY DEF WrittenFirst, Slot
  <1> USE DEF queueVars, counterVars, taskVars, updateVars
  <1>1. TypeOK
    BY DEF IInv
  <1>2. \A u \in Tasks : reserved[u] \in Nat /\ Slot(reserved[u]) \in SlotIds
    BY <1>1, SlotType DEF TypeOK
  <1>3. CASE Write(t)
    BY <1>1, <1>2, <1>3 DEF Write, Current, TypeOK
  <1>4. CASE pc[t] = "publish" /\ UNCHANGED <<call, piece, reserved, content>>
    BY <1>4 DEF WrittenFirst, Current
  <1>5. ASSUME NEW u \in Tasks \ {t}, Write(u)
        PROVE  content'[Slot(reserved'[t])] = Current(t)'
    <2>1. pc[t] = "publish" /\ UNCHANGED <<call, piece, reserved>>
      BY <1>1, <1>5 DEF Write, TypeOK
    <2>2. Slot(reserved[u]) # Slot(reserved[t])
      BY <1>5, <2>1, InvExclusive DEF SlotsExclusive, Writing, Write
    <2> QED
      BY <1>1, <1>2, <1>5, <2>1, <2>2 DEF WrittenFirst, Write, Current, TypeOK
  <1>6. ASSUME NEW u \in Tasks, TaskStep(u), ~Write(u)
        PROVE  /\ content' = content /\ u # t
               /\ \A v \in Tasks \ {u} : /\ pc'[v] = pc[v] /\ reserved'[v] = reserved[v]
                                         /\ call'[v] = call[v] /\ piece'[v] = piece[v]
    <2>1. /\ content' = content /\ pc'[u] # "publish"
      BY <1>1, <1>6, PieceDoneType DEF TaskStep, EnqueueStep, LoadTail, Room, Refuse, Reserve,
              Retry, Publish, Receive, ReceiveInvalid, TypeOK
    <2>2. \A v \in Tasks \ {u} : /\ pc'[v] = pc[v] /\ reserved'[v] = reserved[v]
                                 /\ call'[v] = call[v] /\ piece'[v] = piece[v]
      BY <1>1, <1>6, PieceDoneType DEF TaskStep, EnqueueStep, LoadTail, Room, Refuse, Reserve,
              Retry, Publish, Receive, ReceiveInvalid, PieceDone, TypeOK
    <2> QED
      BY <2>1, <2>2
  <1>7. ASSUME NEW u \in Tasks, TaskStep(u), ~Write(u)
        PROVE  content'[Slot(reserved'[t])] = Current(t)'
    BY <1>6, <1>7 DEF WrittenFirst, Current
  <1>8. CASE UpdateStep \/ UNCHANGED vars
    BY <1>4, <1>8 DEF UpdateStep, BeginUpdate, EndUpdate, AllSeen, Dispatch, Release, Advance, vars
  <1> QED
    BY <1>3, <1>5, <1>7, <1>8 DEF Next

(* Everything that went in of a task is behind it: the next entry it puts  *)
(* in is none of those, and follows them all.                              *)
LEMMA BehindNext ==
    ASSUME IInv, IInv', HistoryInv, [Next]_vars
    PROVE  AcceptedBehind'
  <1> USE DEF queueVars, counterVars, taskVars, updateVars
  <1>1. TypeOK /\ Calling /\ AcceptedBehind
    BY DEF IInv, HistoryInv
  <1>2. ASSUME NEW m \in Offered, Behind(m) PROVE Behind(m)'
    <2> DEFINE t == m.task
    <2>1. t \in Tasks /\ m.call \in Int /\ m.piece \in Int
      BY DEF Offered
    <2> HIDE DEF t
    <2>2. CASE UNCHANGED <<pc, call, piece>>
      BY <1>2, <2>2 DEF Behind, Current
    <2>3. ASSUME NEW u \in Tasks, PieceDone(u), UNCHANGED call PROVE Behind(m)'
      BY <1>1, <1>2, <2>1, <2>3 DEF PieceDone, Behind, Current, TypeOK, Offered, t
    <2>4. ASSUME NEW u \in Tasks, NEW n \in 1..MaxPieces, Receive(u, n) PROVE Behind(m)'
      BY <1>1, <1>2, <2>1, <2>4 DEF Receive, Behind, Current, TypeOK, Offered, t
    <2>5. ASSUME NEW u \in Tasks, ReceiveInvalid(u) PROVE Behind(m)'
      BY <1>1, <1>2, <2>1, <2>5 DEF ReceiveInvalid, Behind, Current, TypeOK, Offered, t
    <2>6. ASSUME NEW u \in Tasks, LoadTail(u) \/ Room(u) \/ Reserve(u) \/ Retry(u) \/ Write(u)
          PROVE  Behind(m)'
      BY <1>1, <1>2, <2>1, <2>6 DEF LoadTail, Room, Reserve, Retry, Write, Behind, Current,
              TypeOK, Offered, t
    <2> QED
      BY <2>2, <2>3, <2>4, <2>5, <2>6
      DEF Next, TaskStep, EnqueueStep, Refuse, Publish, UpdateStep, BeginUpdate, EndUpdate,
          Dispatch, AllSeen, Release, Advance, vars
  <1>3. ASSUME NEW t \in Tasks, Reserve(t)
        PROVE  Current(t) \in Offered /\ Behind(Current(t))'
    <2>1. Current(t) \in Offered
      <3>1. call[t] \in 1..MaxCalls /\ piece[t] \in 1..MaxPieces
        <4>1. call[t] \in 0..MaxCalls /\ piece[t] \in 0..MaxPieces /\ pc[t] = "exchange"
          BY <1>1, <1>3 DEF Reserve, TypeOK
        <4>2. call[t] > 0 /\ piece[t] > 0
          BY <1>1, <4>1 DEF Calling
        <4> QED
          BY <4>1, <4>2, BoundsAssumption
      <3> QED
        BY <3>1 DEF Current, Offered
    <2>2. /\ Current(t)' = Current(t) /\ pc'[t] = "write"
          /\ Current(t).task = t
      BY <1>1, <1>3 DEF Reserve, Current, TypeOK
    <2> QED
      BY <2>1, <2>2 DEF Behind, Current
  <1>4. \A m \in Accepted' : m \in Accepted \/ \E t \in Tasks : Reserve(t) /\ m = Current(t)
    BY AcceptedStep
  <1>5. ASSUME NEW m \in Accepted' PROVE m \in Offered /\ Behind(m)'
    <2>1. CASE m \in Accepted
      <3>1. m \in Offered /\ Behind(m)
        BY <1>1, <2>1 DEF AcceptedBehind
      <3> QED
        BY <1>2, <3>1
    <2>2. ASSUME NEW t \in Tasks, Reserve(t), m = Current(t)
          PROVE  m \in Offered /\ Behind(m)'
      <3>1. Current(t)' = Current(t)
        BY <2>2 DEF Reserve, Current
      <3> QED
        BY <1>3, <2>2, <3>1 DEF Behind
    <2> QED
      BY <1>4, <2>1, <2>2
  <1> QED
    BY <1>5 DEF AcceptedBehind, Offered

(* An entry whose index is taken has gone in; one that is not has not.     *)
LEMMA WriterAccepted ==
    ASSUME IInv, HistoryInv, NEW t \in Tasks, Writing(t)
    PROVE  Current(t) \in Accepted
  <1> DEFINE i == reserved[t]
  <1>1. i \in Nat /\ head \in Nat /\ tail \in Nat /\ head <= i /\ i < tail /\ ~ready[Slot(i)]
    BY DEF IInv, TypeOK, WritersInRing, WritersUnpublished
  <1>2. i # head \/ upc \notin {"dispatch", "advance"}
    BY <1>1 DEF IInv, ConsumerInRing
  <1>3. i \in NextIndex .. tail - 1 /\ NextIndex \in Nat
    BY <1>1, <1>2 DEF NextIndex
  <1>4. PendingIs
    BY InvPendingIs DEF HistoryInv
  <1>5. Pending[i - NextIndex + 1] = Current(t)
    BY <1>3, <1>4 DEF PendingIs
  <1>6. i - NextIndex + 1 \in 1..Len(Pending)
    BY <1>1, <1>3, <1>4 DEF PendingIs
  <1> QED
    BY <1>5, <1>6 DEF Accepted

LEMMA WaitingNotAccepted ==
    ASSUME IInv, HistoryInv, NEW t \in Tasks, pc[t] \in {"loadTail", "loadHead", "exchange"}
    PROVE  Current(t) \notin Accepted
  <1>1. ~Behind(Current(t))
    BY DEF Behind, Current, IInv, TypeOK
  <1> QED
    BY <1>1 DEF HistoryInv, AcceptedBehind

(* ok goes on saying whether every entry so far went in.                   *)
LEMMA ResultNext ==
    ASSUME IInv, IInv', HistoryInv, [Next]_vars
    PROVE  ResultSoFar'
  <1> USE DEF queueVars, counterVars, taskVars, updateVars
  <1>1. TypeOK /\ Calling /\ ResultSoFar
    BY DEF IInv, HistoryInv
  <1> DEFINE Holds(t) ==
                 /\ pc[t] # "idle" =>
                        (ok[t] <=> \A k \in 1 .. piece[t] - 1 : Entry(t, k) \in Accepted)
                 /\ pc[t] = "idle" /\ call[t] > 0 =>
                        (ok[t] <=> pieces[t] > 0
                                   /\ \A k \in 1 .. pieces[t] : Entry(t, k) \in Accepted)
  <1>2. SUFFICES ASSUME NEW t \in Tasks PROVE Holds(t)'
    BY DEF ResultSoFar
  <1>3. Holds(t)
    BY <1>1 DEF ResultSoFar
  <1>4. /\ piece[t] \in Nat /\ pieces[t] \in Nat /\ call[t] \in Nat
        /\ Current(t) = Entry(t, piece[t])
    BY <1>1 DEF TypeOK, Current, Entry
  (* Only Reserve(t) adds an entry of t, and it adds the present one.      *)
  <1>5. /\ Accepted \subseteq Accepted'
        /\ \A m \in Accepted' : m.task = t => m \in Accepted \/ (Reserve(t) /\ m = Current(t))
    <2>1. \/ Accepted' = Accepted
          \/ \E u \in Tasks : Reserve(u) /\ Accepted' = Accepted \cup {Current(u)}
      BY AcceptedStep
    <2>2. \A u : Current(u).task = u
      BY DEF Current
    <2> QED
      BY <2>1, <2>2
  <1>6. \A k : Entry(t, k).task = t /\ (Entry(t, k) = Current(t) => k = piece[t])
    BY DEF Entry, Current
  <1>7. ASSUME UNCHANGED <<pc[t], call[t], piece[t], pieces[t], ok[t]>>, ~Reserve(t)
        PROVE  Holds(t)'
    <2>1. \A k : Entry(t, k)' = Entry(t, k) /\ (Entry(t, k) \in Accepted' <=> Entry(t, k) \in Accepted)
      BY <1>5, <1>6, <1>7 DEF Entry
    <2> QED
      BY <1>3, <1>7, <2>1
  <1>8. CASE Reserve(t)
    <2>1. /\ UNCHANGED <<call, piece, pieces, ok>> /\ pc'[t] = "write" /\ pc[t] = "exchange"
      BY <1>1, <1>8 DEF Reserve, TypeOK
    <2>2. \A k \in 1 .. piece[t] - 1 :
              Entry(t, k)' = Entry(t, k) /\ (Entry(t, k) \in Accepted' <=> Entry(t, k) \in Accepted)
      BY <1>4, <1>5, <1>6, <2>1 DEF Entry
    <2> QED
      BY <1>3, <2>1, <2>2
  <1>9. ASSUME NEW n \in 1..MaxPieces, Receive(t, n) PROVE Holds(t)'
    <2>1. pc'[t] # "idle" /\ ok'[t] = TRUE /\ piece'[t] = 1
      BY <1>1, <1>9 DEF Receive, TypeOK
    <2> QED
      BY <2>1
  <1>10. CASE ReceiveInvalid(t)
    <2>1. pc'[t] = "idle" /\ ok'[t] = FALSE /\ pieces'[t] = 0
      BY <1>1, <1>10 DEF ReceiveInvalid, TypeOK
    <2> QED
      BY <2>1
  <1>11. CASE LoadTail(t) \/ Room(t) \/ Retry(t) \/ Write(t)
    <2>1. /\ UNCHANGED <<call, piece, pieces, ok>> /\ pc[t] # "idle" /\ pc'[t] # "idle"
          /\ ~Reserve(t)
      BY <1>1, <1>11 DEF LoadTail, Room, Retry, Write, Reserve, TypeOK
    <2>2. \A k : Entry(t, k)' = Entry(t, k) /\ (Entry(t, k) \in Accepted' <=> Entry(t, k) \in Accepted)
      BY <1>5, <1>6, <2>1 DEF Entry
    <2> QED
      BY <1>3, <2>1, <2>2
  <1>12. CASE Refuse(t) \/ Publish(t)
    <2>1. /\ UNCHANGED <<call, pieces>> /\ pc[t] # "idle" /\ ~Reserve(t) /\ PieceDone(t)
          /\ piece[t] > 0 /\ piece[t] <= pieces[t]
      BY <1>1, <1>12 DEF Refuse, Publish, Reserve, Calling
    <2>2. \A k : Entry(t, k)' = Entry(t, k) /\ (Entry(t, k) \in Accepted' <=> Entry(t, k) \in Accepted)
      BY <1>5, <1>6, <2>1 DEF Entry
    <2>3. ok'[t] <=> \A k \in 1 .. piece[t] : Entry(t, k) \in Accepted
      <3>1. CASE Refuse(t)
        <4>1. ~ok'[t] /\ Entry(t, piece[t]) \notin Accepted
          BY <1>1, <1>4, <3>1, WaitingNotAccepted DEF Refuse, TypeOK
        <4>2. piece[t] \in 1 .. piece[t]
          BY <1>4, <2>1
        <4> QED
          BY <4>1, <4>2
      <3>2. CASE Publish(t)
        <4>1. ok' = ok /\ Entry(t, piece[t]) \in Accepted
          BY <1>4, <3>2, WriterAccepted DEF Publish, Writing
        <4>2. \A k \in 1 .. piece[t] : k = piece[t] \/ k \in 1 .. piece[t] - 1
          BY <1>4
        <4>3. \A k \in 1 .. piece[t] - 1 : k \in 1 .. piece[t]
          BY <1>4
        <4> QED
          BY <1>3, <2>1, <4>1, <4>2, <4>3
      <3> QED
        BY <1>12, <3>1, <3>2
    <2>4. CASE piece[t] < pieces[t]
      <3>1. piece'[t] = piece[t] + 1 /\ pc'[t] = "loadTail" /\ piece'[t] - 1 = piece[t]
        BY <1>1, <1>4, <2>1, <2>4 DEF PieceDone, TypeOK
      <3> QED
        BY <2>2, <2>3, <3>1
    <2>5. CASE ~(piece[t] < pieces[t])
      <3>1. pieces'[t] = piece[t] /\ pc'[t] = "idle" /\ piece[t] > 0
        BY <1>1, <1>4, <2>1, <2>5 DEF PieceDone, TypeOK
      <3> QED
        BY <2>2, <2>3, <3>1
    <2> QED
      BY <2>4, <2>5
  <1>13. CASE \A n \in 1..MaxPieces : ~Receive(t, n) /\ ~EnqueueStep(t) /\ ~ReceiveInvalid(t)
    <2>1. UNCHANGED <<pc[t], call[t], piece[t], pieces[t], ok[t]>>
      <3>1. ASSUME NEW u \in Tasks \ {t}, TaskStep(u)
            PROVE  UNCHANGED <<pc[t], call[t], piece[t], pieces[t], ok[t]>>
        <4>1. CASE Refuse(u) \/ Publish(u)
          BY <1>1, <4>1, PieceDoneType DEF Refuse, Publish, PieceDone, TypeOK
        <4>2. ASSUME NEW n \in 1..MaxPieces, Receive(u, n)
              PROVE  UNCHANGED <<pc[t], call[t], piece[t], pieces[t], ok[t]>>
          BY <1>1, <4>2 DEF Receive, TypeOK
        <4>3. CASE ReceiveInvalid(u)
          BY <1>1, <4>3 DEF ReceiveInvalid, TypeOK
        <4>4. CASE LoadTail(u) \/ Room(u) \/ Reserve(u) \/ Retry(u) \/ Write(u)
          BY <1>1, <4>4 DEF LoadTail, Room, Reserve, Retry, Write, TypeOK
        <4> QED
          BY <3>1, <4>1, <4>2, <4>3, <4>4 DEF TaskStep, EnqueueStep
      <3>2. 1 \in 1..MaxPieces
        BY BoundsAssumption
      <3>3. ~TaskStep(t)
        BY <1>13, <3>2 DEF TaskStep
      <3>4. CASE UpdateStep \/ UNCHANGED vars
        BY <3>4 DEF UpdateStep, BeginUpdate, EndUpdate, AllSeen, Dispatch, Release, Advance, vars
      <3> QED
        BY <3>1, <3>3, <3>4 DEF Next
    <2>2. ~Reserve(t)
      <3>1. 1 \in 1..MaxPieces
        BY BoundsAssumption
      <3> QED
        BY <1>13, <3>1 DEF EnqueueStep
    <2> QED
      BY <1>7, <2>1, <2>2
  <1> QED
    BY <1>8, <1>9, <1>10, <1>11, <1>12, <1>13 DEF EnqueueStep

LEMMA HistoryInit == Init => HistoryInv
  <1> SUFFICES ASSUME Init PROVE HistoryInv
    OBVIOUS
  <1>1. IInv /\ NextIndex = tail /\ tail \in Nat
    BY InvInit, BoundsAssumption DEF Init, NextIndex
  <1>2. Covered
    BY <1>1 DEF Covered
  <1>3. Len(Pending) = 0
    BY <1>1, <1>2, InvPendingIs DEF PendingIs
  <1>4. Accepted = {}
    BY <1>3 DEF Init, Accepted
  <1> QED
    BY <1>2, <1>4 DEF Init, HistoryInv, WrittenFirst, Calling, AcceptedBehind, ResultSoFar

LEMMA HistoryNext == IInv /\ IInv' /\ HistoryInv /\ [Next]_vars => HistoryInv'
  <1> SUFFICES ASSUME IInv, IInv', HistoryInv, [Next]_vars PROVE HistoryInv'
    OBVIOUS
  <1>1. WrittenFirst'
    BY WrittenNext DEF HistoryInv
  <1>2. Calling'
    BY CallingNext DEF HistoryInv, IInv
  <1> QED
    BY <1>1, <1>2, AcceptedStep, BehindNext, ResultNext DEF HistoryInv

(* What receive() has put in so far is what it believes it has.            *)
THEOREM HistoryInvariant == Spec => []HistoryInv
  BY Invariant, HistoryInit, HistoryNext, PTL DEF Spec

LEMMA InvTruthful == HistoryInv => ResultIsTruthful
  <1>1. \A m : Entered(m) <=> m \in Accepted
    BY DEF Entered, Accepted
  <1> QED
    BY <1>1 DEF HistoryInv, ResultSoFar, ResultIsTruthful, Entry

(* receive() returns true exactly when every entry of the message went in. *)
THEOREM ResultsAreTruthful == Spec => []ResultIsTruthful
  BY HistoryInvariant, InvTruthful, PTL

(* A step of receive() or update() is a step of the bounded queue, or none *)
(* that can be seen of it.                                                 *)
LEMMA StepRefines ==
    IInv /\ IInv' /\ HistoryInv /\ [Next]_vars => [Queue!Next]_<<Pending, dispatched>>
  <1> SUFFICES ASSUME IInv, IInv', HistoryInv, [Next]_vars,
                      ~UNCHANGED <<Pending, dispatched>>
               PROVE  Queue!Next
    OBVIOUS
  <1>1. CASE Dispatch /\ Pending # << >> /\ Pending' = Tail(Pending)
             /\ dispatched' = Append(dispatched, Head(Pending))
    BY <1>1 DEF Queue!Next, Queue!Deliver
  <1>2. ASSUME NEW t \in Tasks, Reserve(t), Len(Pending) < Entries,
               Pending' = Append(Pending, Current(t)), dispatched' = dispatched
        PROVE  Queue!Next
    <2>1. PendingIs
      BY InvPendingIs DEF HistoryInv
    <2>2. /\ Pending \in Seq(Message) /\ dispatched \in Seq(Message)
      BY <2>1 DEF PendingIs, IInv, TypeOK
    <2>3. ASSUME NEW i \in 1..Len(Queue!History) PROVE Queue!History[i] \in Accepted
      <3>1. /\ Len(dispatched) \in Nat /\ Len(Pending) \in Nat
            /\ Len(Queue!History) = Len(dispatched) + Len(Pending)
            /\ Queue!History[i] = IF i <= Len(dispatched) THEN dispatched[i]
                                  ELSE Pending[i - Len(dispatched)]
        BY <2>2, <2>3 DEF Queue!History
      <3>2. i \in 1..Len(dispatched) \/ i - Len(dispatched) \in 1..Len(Pending)
        BY <2>3, <3>1
      <3> QED
        BY <3>1, <3>2 DEF Accepted
    <2>4. pc[t] = "exchange"
      BY <1>2 DEF Reserve
    <2>5. ASSUME NEW m \in Accepted
          PROVE  /\ Current(t) # m
                 /\ ~(/\ Current(t).task = m.task
                      /\ \/ Current(t).call < m.call
                         \/ Current(t).call = m.call /\ Current(t).piece < m.piece)
      <3>1. m \in Offered /\ Behind(m)
        BY DEF HistoryInv, AcceptedBehind
      <3>2. call[t] \in Int /\ piece[t] \in Int /\ m.call \in Int /\ m.piece \in Int
        BY <3>1 DEF IInv, TypeOK, Offered
      <3> QED
        BY <2>4, <3>1, <3>2 DEF Behind, Current
    <2>6. Queue!InOrder(Current(t))
      BY <2>3, <2>5 DEF Queue!InOrder
    <2>7. Current(t) \in Offered
      <3>1. call[t] \in 0..MaxCalls /\ piece[t] \in 0..MaxPieces
        BY DEF IInv, TypeOK
      <3>2. call[t] > 0 /\ piece[t] > 0
        BY <2>4 DEF HistoryInv, Calling
      <3> QED
        BY <3>1, <3>2, BoundsAssumption DEF Current, Offered
    <2>8. Queue!Accept(Current(t))
      BY <1>2, <2>6 DEF Queue!Accept
    <2> QED
      BY <2>7, <2>8 DEF Queue!Next, Offered
  <1> QED
    BY <1>1, <1>2, AcceptedStep

LEMMA InitRefines == Init => Queue!Init
  <1> SUFFICES ASSUME Init PROVE Queue!Init
    OBVIOUS
  <1>1. NextIndex = StartIndex /\ tail = StartIndex
    BY DEF Init, NextIndex
  <1>2. Pending = << >>
    BY <1>1, BoundsAssumption DEF Pending
  <1> QED
    BY <1>2 DEF Queue!Init, Init

(* receive() and update(), run by any number of tasks, implement a bounded *)
(* FIFO queue: nothing accepted is lost, duplicated or overtaken.          *)
THEOREM QueueIsImplemented == Spec => ImplementsQueue
  BY InitRefines, StepRefines, Invariant, HistoryInvariant, PTL
  DEF Spec, ImplementsQueue, Queue!Spec, Queue!vars
=============================================================================
