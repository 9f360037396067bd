---------------------------- MODULE MessageQueue ----------------------------
(***************************************************************************)
(* What the queue between the transports and Router::update() promises:    *)
(* a bounded queue that many tasks put into and one task takes from.       *)
(* Nothing is duplicated, nothing that was accepted is lost, what a task   *)
(* puts in comes out in the order the task put it, and no more than        *)
(* Capacity messages are ever held.  A message may be refused at any time. *)
(***************************************************************************)
EXTENDS Naturals, Sequences

CONSTANTS
    Messages,          \* everything that can be put in
    Capacity,          \* messages held at once
    Precedes(_, _)     \* the order in which one task offers two messages

VARIABLES
    pending,           \* accepted, not yet handed out, oldest first
    delivered          \* handed out, oldest first

vars == <<pending, delivered>>

History == delivered \o pending

(* A message may be accepted once, after everything its task offered before. *)
InOrder(m) ==
    \A i \in 1..Len(History) : m # History[i] /\ ~Precedes(m, History[i])

Init ==
    /\ pending = << >>
    /\ delivered = << >>

Accept(m) ==
    /\ Len(pending) < Capacity
    /\ InOrder(m)
    /\ pending' = Append(pending, m)
    /\ UNCHANGED delivered

Deliver ==
    /\ pending # << >>
    /\ delivered' = Append(delivered, Head(pending))
    /\ pending' = Tail(pending)

Next == Deliver \/ \E m \in Messages : Accept(m)

Spec == Init /\ [][Next]_vars
=============================================================================
