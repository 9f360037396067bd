---------------------------- MODULE ReceiveQueue ----------------------------
(***************************************************************************)
(* Router::receive(), Router::enqueue() and the loop of Router::update():  *)
(* the one place of the library several tasks run through at once.         *)
(*                                                                         *)
(* A transport task reserves an index by compare-and-swap on tail_, writes *)
(* the slot the index falls on and publishes it with the slot's ready      *)
(* flag.  The sketch's task walks from head_ to the tail it saw on entry,  *)
(* dispatches each published slot, clears its flag and moves head_.        *)
(*                                                                         *)
(* Every load, store and compare-and-swap of an atomic is a step of its    *)
(* own.  Indices are natural numbers here and free-running 32-bit numbers  *)
(* in the code: Minus and Slot take them modulo IndexModulus (2^32), as    *)
(* the code's subtraction and its indexing of queue_[] do.  What this      *)
(* leaves out is a task that sleeps between its load and its               *)
(* compare-and-swap while 2^32 messages pass.                              *)
(***************************************************************************)
EXTENDS Integers, Sequences

CONSTANTS
    Tasks,          \* tasks that call receive()
    Sketch,         \* the one of them that also runs update()
    Entries,        \* ESPMIDI_QUEUE_ENTRIES
    IndexModulus,   \* 2^32: head_ and tail_ are uint32_t
    StartIndex,     \* messages carried before the behaviour starts
    MaxPieces,      \* entries the longest chunk is split into
    MaxCalls        \* bound: calls of receive() per task

ASSUME TasksAssumption == Sketch \in Tasks
ASSUME EntriesAssumption == Entries \in Nat \ {0}
(* 32 entries divide 2^32: an ESPMIDI_QUEUE_ENTRIES that is not a power of   *)
(* two would make the slots jump when the index wraps.                       *)
ASSUME ModulusAssumption ==
    /\ IndexModulus \in Nat
    /\ \E k \in 2..IndexModulus : IndexModulus = Entries * k
ASSUME BoundsAssumption ==
    StartIndex \in Nat /\ MaxPieces \in Nat \ {0} /\ MaxCalls \in Nat

VARIABLES
    head, tail,     \* head_, tail_
    ready,          \* ready[s]: queue_[s].ready
    content,        \* content[s]: the message in queue_[s]
    received,       \* received_
    queueFull,      \* queueFull_
    pc,             \* pc[t]: where task t is in receive()
    reserved,       \* reserved[t]: the local of enqueue()
    call,           \* call[t]: calls of receive() by t so far
    piece, pieces,  \* which entry of the message t is writing, of how many
    ok,             \* ok[t]: the local of receive(), its result in the end
    upc,            \* where the sketch is in update()
    limit,          \* the tail update() saw on entry
    dispatched      \* history: the messages handed to dispatch()

queueVars == <<head, tail, ready, content>>
counterVars == <<received, queueFull>>
taskVars == <<pc, reserved, call, piece, pieces, ok>>
updateVars == <<upc, limit, dispatched>>
vars == <<queueVars, counterVars, taskVars, updateVars>>

SlotIds == 0 .. Entries - 1
Message == [task : Tasks, call : 0..MaxCalls, piece : 0..MaxPieces]
Nothing == [task |-> Sketch, call |-> 0, piece |-> 0]

(* uint32_t subtraction and the slot of a free-running index.              *)
Minus(a, b) == (a - b) % IndexModulus
Slot(i) == (i % IndexModulus) % Entries

Current(t) == [task |-> t, call |-> call[t], piece |-> piece[t]]

(* The sketch calls receive() from loop(), between two update()s, or from  *)
(* a callback that dispatch() runs; update() then waits for it to return.  *)
MayCall(t) == t = Sketch => upc \in {"idle", "dispatch"}
SketchReturned == pc[Sketch] = "idle"

Init ==
    /\ head = StartIndex /\ tail = StartIndex
    /\ ready = [s \in SlotIds |-> FALSE]
    /\ content = [s \in SlotIds |-> Nothing]
    /\ received = 0 /\ queueFull = 0
    /\ pc = [t \in Tasks |-> "idle"]
    /\ reserved = [t \in Tasks |-> StartIndex]
    /\ call = [t \in Tasks |-> 0]
    /\ piece = [t \in Tasks |-> 0]
    /\ pieces = [t \in Tasks |-> 0]
    /\ ok = [t \in Tasks |-> TRUE]
    /\ upc = "idle" /\ limit = StartIndex /\ dispatched = << >>
-----------------------------------------------------------------------------
(* receive(): the message is for a valid port, and is n entries long.      *)
Receive(t, n) ==
    /\ pc[t] = "idle" /\ MayCall(t) /\ call[t] < MaxCalls
    /\ received' = received + 1
    /\ call' = [call EXCEPT ![t] = @ + 1]
    /\ pieces' = [pieces EXCEPT ![t] = n]
    /\ piece' = [piece EXCEPT ![t] = 1]
    /\ ok' = [ok EXCEPT ![t] = TRUE]
    /\ pc' = [pc EXCEPT ![t] = "loadTail"]
    /\ UNCHANGED <<queueVars, queueFull, reserved, updateVars>>

(* receive() of a message whose port is not valid: counted, nothing else.  *)
ReceiveInvalid(t) ==
    /\ pc[t] = "idle" /\ MayCall(t) /\ call[t] < MaxCalls
    /\ received' = received + 1
    /\ call' = [call EXCEPT ![t] = @ + 1]
    /\ pieces' = [pieces EXCEPT ![t] = 0]
    /\ ok' = [ok EXCEPT ![t] = FALSE]
    /\ UNCHANGED <<queueVars, queueFull, pc, reserved, piece, updateVars>>

(* The do-while of receive(): the next entry of the chunk, or return.      *)
PieceDone(t) ==
    IF piece[t] < pieces[t]
    THEN /\ piece' = [piece EXCEPT ![t] = @ + 1]
         /\ pc' = [pc EXCEPT ![t] = "loadTail"]
    ELSE /\ pc' = [pc EXCEPT ![t] = "idle"]
         /\ UNCHANGED piece

LoadTail(t) ==
    /\ pc[t] = "loadTail"
    /\ reserved' = [reserved EXCEPT ![t] = tail]
    /\ pc' = [pc EXCEPT ![t] = "loadHead"]
    /\ UNCHANGED <<queueVars, counterVars, call, piece, pieces, ok, updateVars>>

NoRoom(t) == Minus(reserved[t], head) >= Entries

Room(t) ==
    /\ pc[t] = "loadHead" /\ ~NoRoom(t)
    /\ pc' = [pc EXCEPT ![t] = "exchange"]
    /\ UNCHANGED <<queueVars, counterVars, reserved, call, piece, pieces, ok,
                   updateVars>>

(* The entry is refused and counted; the other entries are still tried.    *)
Refuse(t) ==
    /\ pc[t] = "loadHead" /\ NoRoom(t)
    /\ queueFull' = queueFull + 1
    /\ ok' = [ok EXCEPT ![t] = FALSE]
    /\ PieceDone(t)
    /\ UNCHANGED <<queueVars, received, reserved, call, pieces, updateVars>>

(* Mutant: stores tail_ without comparing it.                              *)
Reserve_PlainStore(t) ==
    /\ pc[t] = "exchange"
    /\ tail' = reserved[t] + 1
    /\ pc' = [pc EXCEPT ![t] = "write"]
    /\ UNCHANGED <<head, ready, content, counterVars, reserved, call, piece,
                   pieces, ok, updateVars>>

(* compare_exchange_weak succeeds ...                                      *)
Reserve(t) ==
    /\ pc[t] = "exchange" /\ tail = reserved[t]
    /\ tail' = tail + 1
    /\ pc' = [pc EXCEPT ![t] = "write"]
    /\ UNCHANGED <<head, ready, content, counterVars, reserved, call, piece,
                   pieces, ok, updateVars>>

(* Mutant: takes the tail it saw for room that was checked.                *)
Retry_KeepsReserved(t) ==
    /\ pc[t] = "exchange"
    /\ reserved' = [reserved EXCEPT ![t] = tail]
    /\ UNCHANGED <<queueVars, counterVars, pc, call, piece, pieces, ok, updateVars>>

(* ... or fails, spuriously even, and leaves the tail it saw in reserved.  *)
Retry(t) ==
    /\ pc[t] = "exchange"
    /\ reserved' = [reserved EXCEPT ![t] = tail]
    /\ pc' = [pc EXCEPT ![t] = "loadHead"]
    /\ UNCHANGED <<queueVars, counterVars, call, piece, pieces, ok, updateVars>>

Write(t) ==
    /\ pc[t] = "write"
    /\ content' = [content EXCEPT ![Slot(reserved[t])] = Current(t)]
    /\ pc' = [pc EXCEPT ![t] = "publish"]
    /\ UNCHANGED <<head, tail, ready, counterVars, reserved, call, piece,
                   pieces, ok, updateVars>>

(* Mutant: "ok = enqueue(...)" without "&& ok".                            *)
Publish_ForgetsRefusal(t) ==
    /\ pc[t] = "publish"
    /\ ready' = [ready EXCEPT ![Slot(reserved[t])] = TRUE]
    /\ ok' = [ok EXCEPT ![t] = TRUE]
    /\ PieceDone(t)
    /\ UNCHANGED <<head, tail, content, counterVars, reserved, call, pieces,
                   updateVars>>

Publish(t) ==
    /\ pc[t] = "publish"
    /\ ready' = [ready EXCEPT ![Slot(reserved[t])] = TRUE]
    /\ PieceDone(t)
    /\ UNCHANGED <<head, tail, content, counterVars, reserved, call, pieces,
                   ok, updateVars>>
-----------------------------------------------------------------------------
(* Mutant: the entry put in last is left for a later update().             *)
BeginUpdate_OneShort ==
    /\ upc = "idle" /\ SketchReturned
    /\ limit' = IF tail = head THEN tail ELSE tail - 1
    /\ upc' = "loop"
    /\ UNCHANGED <<queueVars, counterVars, taskVars, dispatched>>

(* update(): the tail is read once, on entry.                              *)
BeginUpdate ==
    /\ upc = "idle" /\ SketchReturned
    /\ limit' = tail
    /\ upc' = "loop"
    /\ UNCHANGED <<queueVars, counterVars, taskVars, dispatched>>

(* Mutant: reads tail_ again before each turn of the loop.                 *)
AllSeen_ReadsTail == head = tail

(* The loop of update() runs up to the tail it saw on entry.               *)
AllSeen == head = limit

(* Everything seen on entry is done, or the next slot is not published.    *)
EndUpdate ==
    /\ upc = "loop"
    /\ AllSeen \/ ~ready[Slot(head)]
    /\ upc' = "idle"
    /\ UNCHANGED <<queueVars, counterVars, taskVars, limit, dispatched>>

Dispatch ==
    /\ upc = "loop" /\ ~AllSeen /\ ready[Slot(head)]
    /\ dispatched' = Append(dispatched, content[Slot(head)])
    /\ upc' = "dispatch"
    /\ UNCHANGED <<queueVars, counterVars, taskVars, limit>>

(* Mutant: leaves the ready flag set.                                      *)
Release_KeepsFlag ==
    /\ upc = "dispatch" /\ SketchReturned
    /\ upc' = "advance"
    /\ UNCHANGED <<queueVars, counterVars, taskVars, limit, dispatched>>

Release ==
    /\ upc = "dispatch" /\ SketchReturned
    /\ ready' = [ready EXCEPT ![Slot(head)] = FALSE]
    /\ upc' = "advance"
    /\ UNCHANGED <<head, tail, content, counterVars, taskVars, limit, dispatched>>

Advance ==
    /\ upc = "advance"
    /\ head' = head + 1
    /\ upc' = "loop"
    /\ UNCHANGED <<tail, ready, content, counterVars, taskVars, limit, dispatched>>

UpdateStep == BeginUpdate \/ EndUpdate \/ Dispatch \/ Release \/ Advance

(* The steps of enqueue() that a task takes without waiting for anything.  *)
EnqueueStep(t) ==
    LoadTail(t) \/ Room(t) \/ Refuse(t) \/ Reserve(t) \/ Retry(t) \/ Write(t)
        \/ Publish(t)

TaskStep(t) ==
    EnqueueStep(t) \/ ReceiveInvalid(t) \/ \E n \in 1..MaxPieces : Receive(t, n)

Next == UpdateStep \/ \E t \in Tasks : TaskStep(t)

Spec == Init /\ [][Next]_vars

(* Only the sketch is scheduled fairly: loop() runs for ever and calls     *)
(* update(); a transport task may be preempted anywhere and for good.      *)
SketchFairness ==
    /\ WF_vars(UpdateStep)
    /\ WF_vars(EnqueueStep(Sketch))
    /\ SF_vars(Reserve(Sketch))

(* Every task that is inside receive() is eventually scheduled, and a weak *)
(* compare-and-swap does not fail for ever.                                *)
TransportFairness ==
    \A t \in Tasks : WF_vars(EnqueueStep(t)) /\ SF_vars(Reserve(t))

FairSpec == Spec /\ SketchFairness
-----------------------------------------------------------------------------
Writing(t) == pc[t] \in {"write", "publish"}

(* The contents of index i, which its writer may not have written yet.     *)
MessageAt(i) ==
    IF ready[Slot(i)]
    THEN content[Slot(i)]
    ELSE Current(CHOOSE t \in Tasks : Writing(t) /\ reserved[t] = i)

(* The first index whose message has not been handed to dispatch().        *)
NextIndex == IF upc \in {"dispatch", "advance"} THEN head + 1 ELSE head

(* The messages reserved and not yet dispatched, oldest first.             *)
Pending == [i \in 1 .. tail - NextIndex |-> MessageAt(NextIndex + i - 1)]

Entered(m) ==
    \/ \E i \in 1..Len(dispatched) : dispatched[i] = m
    \/ \E i \in 1..Len(Pending) : Pending[i] = m

TypeOK ==
    /\ head \in Nat /\ tail \in Nat
    /\ ready \in [SlotIds -> BOOLEAN]
    /\ content \in [SlotIds -> Message]
    /\ received \in Nat /\ queueFull \in Nat
    /\ pc \in [Tasks -> {"idle", "loadTail", "loadHead", "exchange", "write",
                         "publish"}]
    /\ reserved \in [Tasks -> Nat]
    /\ call \in [Tasks -> 0..MaxCalls]
    /\ piece \in [Tasks -> 0..MaxPieces]
    /\ pieces \in [Tasks -> 0..MaxPieces]
    /\ ok \in [Tasks -> BOOLEAN]
    /\ upc \in {"idle", "loop", "dispatch", "advance"}
    /\ limit \in Nat /\ dispatched \in Seq(Message)

(* The indices in use never span more than the ring: head_ <= tail_ and at *)
(* most ESPMIDI_QUEUE_ENTRIES apart, whatever the order in which enqueue() *)
(* reads tail_, reads head_ and swaps.                                     *)
RingBounded == head <= tail /\ tail <= head + Entries

(* "A slot can never be overwritten while it is being read" (update()):    *)
(* the slot a task writes is published by nobody, written by no other task *)
(* and not the one dispatch() is reading.                                  *)
SlotsExclusive ==
    \A t \in Tasks : Writing(t) =>
        /\ ~ready[Slot(reserved[t])]
        /\ upc = "dispatch" => Slot(reserved[t]) # Slot(head)
        /\ \A u \in Tasks \ {t} :
               Writing(u) => Slot(reserved[u]) # Slot(reserved[t])

(* An entry that was published keeps its contents until update() has       *)
(* released its slot.                                                      *)
PublishedIsStable ==
    [][\A s \in SlotIds : ready[s] => content'[s] = content[s]]_vars

(* receive() returns true exactly when every entry of the message went in, *)
(* also when only one of the entries a chunk was split into was refused.   *)
ResultIsTruthful ==
    \A t \in Tasks : pc[t] = "idle" /\ call[t] > 0 =>
        (ok[t] <=> /\ pieces[t] > 0
                   /\ \A k \in 1..pieces[t] :
                          Entered([task |-> t, call |-> call[t], piece |-> k]))

(* "Returns false when the queue is full" (receive()): a message is        *)
(* refused only while every entry is in use.                               *)
RefusedOnlyWhenFull ==
    [][queueFull' # queueFull => tail - head = Entries]_vars

(* update() never waits: it returns even if a transport task stops forever *)
(* between reserving a slot and publishing it, or calls receive() again and *)
(* again for ever, and whatever the callbacks it runs inject.              *)
UpdateReturns == (upc # "idle") ~> (upc = "idle")

(* Everything that went in is dispatched, if the tasks that were writing    *)
(* are scheduled again: again and again nothing is left behind.            *)
EnteredIsDispatched == TransportFairness => []<>(Pending = << >>)

(* receive() and update() together are a bounded FIFO queue that loses,    *)
(* duplicates and reorders nothing it accepted, with the order in which    *)
(* tasks swap tail_ as the order of the messages.                          *)
Queue == INSTANCE MessageQueue WITH
    Messages <- [task : Tasks, call : 1..MaxCalls, piece : 1..MaxPieces],
    Capacity <- Entries,
    Precedes <- LAMBDA m, n : /\ m.task = n.task
                              /\ \/ m.call < n.call
                                 \/ m.call = n.call /\ m.piece < n.piece,
    pending <- Pending,
    delivered <- dispatched

ImplementsQueue == Queue!Spec
-----------------------------------------------------------------------------
WritersInRing ==
    \A t \in Tasks : Writing(t) => head <= reserved[t] /\ reserved[t] < tail

WritersDistinct ==
    \A t, u \in Tasks :
        Writing(t) /\ Writing(u) /\ t # u => reserved[t] # reserved[u]

WritersUnpublished ==
    \A t \in Tasks : Writing(t) => ~ready[Slot(reserved[t])]

ReservedBehindTail == \A t \in Tasks : reserved[t] <= tail

(* The room enqueue() saw is still there if nobody has moved tail_ since:  *)
(* head_ can only have moved forward.                                      *)
RoomHolds ==
    \A t \in Tasks : pc[t] = "exchange" /\ reserved[t] = tail => tail < head + Entries

PublishedInRing ==
    \A s \in SlotIds : ready[s] => \E i \in head .. tail - 1 : Slot(i) = s

ConsumerInRing ==
    /\ upc # "idle" => head <= limit /\ limit <= tail
    /\ upc \in {"dispatch", "advance"} => head < limit
    /\ upc = "dispatch" => ready[Slot(head)]
    /\ upc = "advance" =>
           /\ ~ready[Slot(head)]
           /\ \A t \in Tasks : Writing(t) => reserved[t] # head

(* The inductive invariant the safety properties above follow from: who    *)
(* may be writing where, what a published slot stands for, and where       *)
(* update() is between the two ends of the ring.                           *)
IInv ==
    /\ TypeOK
    /\ RingBounded
    /\ WritersInRing
    /\ WritersDistinct
    /\ WritersUnpublished
    /\ ReservedBehindTail
    /\ RoomHolds
    /\ PublishedInRing
    /\ ConsumerInRing
=============================================================================
