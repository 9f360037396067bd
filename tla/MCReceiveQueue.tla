--------------------------- MODULE MCReceiveQueue ---------------------------
(* ReceiveQueue with an index that is about to wrap: Start messages have   *)
(* been carried already, and the index is taken modulo a small number.     *)
(* Either each task calls receive() a few times ("counted"), or two of     *)
(* them go on for ever ("endless"): then what arrives while update() runs  *)
(* is unlimited.  The endless queue has variables of its own.              *)
EXTENDS ReceiveQueue

CONSTANTS sketch, usb, ble      \* the tasks of an instance

VARIABLES
    queue,
    eHead, eTail, eReady, eContent, eReceived, eQueueFull, ePc, eReserved, eCall,
    ePiece, ePieces, eOk, eUpc, eLimit, eDispatched

eForgotten == <<eReceived, eQueueFull, eDispatched>>
eKept == <<eReady, eContent, ePc, ePiece, ePieces, eOk, eUpc>>
eVars == <<eHead, eTail, eLimit, eReserved, eCall, eForgotten, eKept>>

Endless == INSTANCE ReceiveQueue WITH
    Tasks <- {sketch, usb}, IndexModulus <- 2 * Entries, StartIndex <- 2 * Entries,
    MaxPieces <- 1, MaxCalls <- 1,
    head <- eHead, tail <- eTail, ready <- eReady, content <- eContent,
    received <- eReceived, queueFull <- eQueueFull, pc <- ePc, reserved <- eReserved,
    call <- eCall, piece <- ePiece, pieces <- ePieces, ok <- eOk, upc <- eUpc,
    limit <- eLimit, dispatched <- eDispatched
-----------------------------------------------------------------------------
(* MaxCalls bounds the calls of a task.  Renumber takes that bound away    *)
(* and keeps the states finite: it forgets what no step looks at (how many *)
(* calls there were, what was dispatched, the counters) and moves all      *)
(* indices back by whole turns, which Minus and Slot do not see.  It goes  *)
(* before every step of the code, so that states that differ only in what  *)
(* is forgotten are one.                                                   *)

(* The whole turns of the index head has behind it, but one.               *)
Turns == ((eHead \div (2 * Entries)) - 1) * 2 * Entries

(* An index behind head, however far, stands for one: enqueue() sees no    *)
(* room for it, and it is not the tail again.                              *)
Renumbered(i) == (IF i < eHead THEN eHead - 1 ELSE i) - Turns

(* The calls of a callback of update() stay bounded: the callback returns. *)
Callback == {t \in {Sketch} : eUpc = "dispatch"}

Renumbering ==
    [head |-> eHead - Turns,
     tail |-> eTail - Turns,
     limit |-> Renumbered(eLimit),
     reserved |-> [t \in DOMAIN eReserved |-> Renumbered(eReserved[t])],
     call |-> [t \in DOMAIN eCall |-> IF t \in Callback THEN eCall[t] ELSE 0]]

Renumberable ==
    \/ Renumbering # [head |-> eHead, tail |-> eTail, limit |-> eLimit,
                      reserved |-> eReserved, call |-> eCall]
    \/ eForgotten # <<0, 0, << >>>>

Renumber ==
    /\ Renumberable
    /\ eHead' = Renumbering.head
    /\ eTail' = Renumbering.tail
    /\ eLimit' = Renumbering.limit
    /\ eReserved' = Renumbering.reserved
    /\ eCall' = Renumbering.call
    /\ eReceived' = 0 /\ eQueueFull' = 0 /\ eDispatched' = << >>
    /\ UNCHANGED eKept
-----------------------------------------------------------------------------
EitherInit == queue \in {"counted", "endless"} /\ Init /\ Endless!Init

EitherNext ==
    /\ UNCHANGED queue
    /\ \/ queue = "counted" /\ Next /\ UNCHANGED eVars
       \/ queue = "endless" /\ UNCHANGED vars
          /\ (Renumber \/ (~Renumberable /\ Endless!Next))

(* SketchFairness, of the queue that runs.                                 *)
Either(counted, endless) ==
    /\ UNCHANGED queue
    /\ \/ queue = "counted" /\ counted /\ UNCHANGED eVars
       \/ queue = "endless" /\ endless /\ UNCHANGED vars

eitherVars == <<queue, vars, eVars>>

EitherSpec ==
    /\ EitherInit /\ [][EitherNext]_eitherVars
    /\ WF_eitherVars(Either(UpdateStep, Endless!UpdateStep))
    /\ WF_eitherVars(Either(EnqueueStep(Sketch), Endless!EnqueueStep(Sketch)))
    /\ SF_eitherVars(Either(Reserve(Sketch), Endless!Reserve(Sketch)))
-----------------------------------------------------------------------------
(* update() comes to an end while the transports go on calling receive()   *)
(* for ever and refill each slot it releases, and also when one of them    *)
(* stops for good in the middle of an entry (docs/ROUTING.md:109: it does  *)
(* what was queued when it began).                                         *)
EveryUpdateReturns == UpdateReturns /\ Endless!UpdateReturns
=============================================================================
