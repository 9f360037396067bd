---------------------------- MODULE RouterProofs ----------------------------
(***************************************************************************)
(* Proofs about Router for any ports, routes, groups and rule sets, first  *)
(* with the queue, the transports and the seats failing in every way the   *)
(* model lets them, then, for rule 1 and the claims, with none of that.    *)
(*                                                                         *)
(* NothingInsideAStream and NoRestWithoutStart speak of the message that   *)
(* is dispatched next; they follow from what holds of the streams between  *)
(* any two steps, FramedIsOwned and TargetsAreFramed.                      *)
(* OnlyContinuationsVanish speaks of the step of dispatch(): that a sink   *)
(* or a counter knows of the message follows by cases from what is         *)
(* offered (RoutedIsCounted), and that nothing else takes entries off the  *)
(* budget from BudgetInv.                                                  *)
(***************************************************************************)
EXTENDS Router, SequenceTheorems, TLAPS

StreamInv == FramedIsOwned /\ TargetsAreFramed

StreamType ==
    /\ queue \in Seq(Messages)
    /\ open \subseteq InPorts
    /\ targets \in [InPorts -> SUBSET OutPorts]
    /\ owner \in [OutPorts -> InPorts \cup {NoPort}]
    /\ framed \in [OutPorts -> InPorts \cup {NoPort}]

IInv == StreamType /\ StreamInv
-----------------------------------------------------------------------------
(* NoPort, the owner of an unclaimed output, is no input.                  *)
LEMMA PortsDiffer == NoPort \notin InPorts
  BY PortsAssumption DEF Ports

(* What dispatch() may deliver to is an output.  TypeOK says as much of    *)
(* the route table; this is all the streams need of it.                    *)
LEMMA OutputsOnly ==
    ASSUME NEW r \in RouteIds, NEW p
    PROVE  RouteTargets(r, p) \subseteq OutPorts
  BY DEF RouteTargets, PortsOf

(* Before the first message no stream and no frame is open.                *)
LEMMA InvInit == Init => IInv
  <1> SUFFICES ASSUME Init PROVE IInv
    OBVIOUS
  <1> QED
    BY DEF Init, IInv, StreamInv, StreamType, FramedIsOwned, TargetsAreFramed

(* A message is put in; the streams are left alone.                        *)
LEMMA InvReceive ==
    ASSUME IInv, NEW p \in InPorts, NEW kind \in Kinds,
           Receive(p, kind) \/ ReceiveRefused(p, kind)
    PROVE  IInv'
  <1>1. UNCHANGED streamVars
    BY DEF Receive, ReceiveRefused
  <1>2. [port |-> p, kind |-> kind] \in Messages
    BY DEF Messages
  <1>3. queue' \in Seq(Messages)
    BY <1>2 DEF Receive, ReceiveRefused, queueVars, IInv, StreamType
  <1> QED
    BY <1>1, <1>3 DEF IInv, StreamInv, StreamType, FramedIsOwned,
                      TargetsAreFramed, streamVars

(* update() closes for the inputs that went away, between two messages.    *)
LEMMA InvBeginUpdate == IInv /\ BeginUpdate => IInv'
  <1> SUFFICES ASSUME IInv, BeginUpdate PROVE IInv'
    OBVIOUS
  <1>1. StreamType'
    BY DEF BeginUpdate, IInv, StreamType
  <1>2. PICK taken \in SinkOutcomes(Closing) :
            /\ framed' = [out \in OutPorts |-> IF out \in taken THEN NoPort ELSE framed[out]]
            /\ unended' = (unended \cup Closing) \ taken
    BY DEF BeginUpdate
  <1>3. taken \subseteq Closing
    BY DEF SinkOutcomes
  <1>4. FramedIsOwned'
    <2> SUFFICES ASSUME NEW out \in OutPorts, framed'[out] # NoPort, out \notin unended'
                 PROVE  owner'[out] = framed'[out]
      BY DEF FramedIsOwned
    <2>1. out \notin taken /\ out \notin Closing /\ out \notin unended
      BY <1>2
    <2>2. framed'[out] = framed[out] /\ owner'[out] = owner[out]
      BY <1>2, <2>1 DEF BeginUpdate
    <2> QED
      BY <2>1, <2>2 DEF IInv, StreamInv, FramedIsOwned
  <1>5. TargetsAreFramed'
    <2> SUFFICES ASSUME NEW p \in open', NEW out \in targets'[p], owner'[out] = p
                 PROVE  framed'[out] = p
      BY DEF TargetsAreFramed
    <2>1. p \in open /\ p \in InPorts /\ p \notin pendingClose
      BY DEF BeginUpdate, IInv, StreamType
    <2>2. out \in targets[p] /\ out \in OutPorts
      BY <2>1 DEF BeginUpdate, IInv, StreamType
    <2>3. out \notin Closing /\ owner[out] = p
      BY <2>1, <2>2, PortsDiffer DEF BeginUpdate
    <2>4. framed[out] = p
      BY <2>1, <2>2, <2>3 DEF IInv, StreamInv, TargetsAreFramed
    <2> QED
      BY <1>2, <1>3, <2>2, <2>3, <2>4
  <1> QED
    BY <1>1, <1>4, <1>5 DEF IInv, StreamInv

(* The rest of a dump goes out, or its end.                                *)
LEMMA InvContinue ==
    ASSUME IInv, NEW m \in Messages, Continue(m)
    PROVE  IInv'
  <1>1. m.port \in InPorts /\ m.kind \in {"middle", "end"}
    BY DEF Continue, Continues, Chunk, Starts, Messages
  <1> DEFINE offered == Offered(m, targets[m.port])
  <1>2. PICK taken \in SinkOutcomes(offered) :
            Claim(m, offered) /\ Frame(m, offered, taken)
    BY DEF Continue
  <1>3. \A out \in offered : out \in OutPorts /\ owner[out] = m.port
    BY <1>1 DEF Offered, Exclusive, Continues, Chunk, Starts, IInv, StreamType
  <1>4. queue' \in Seq(Messages)
    BY DEF Continue, Take, IInv, StreamType
  <1> HIDE DEF offered
  <1>5. CASE m.kind = "middle"
    <2>1. UNCHANGED <<owner, framed, open, targets>> /\ unended \subseteq unended'
      BY <1>1, <1>2, <1>5 DEF Continue, Claim, Frame, Starts, Ends, IInv, StreamType
    <2> QED
      BY <1>4, <2>1 DEF IInv, StreamInv, StreamType, FramedIsOwned, TargetsAreFramed
  <1>6. CASE m.kind = "end"
    <2>1. /\ owner' = [out \in OutPorts |-> IF out \in offered THEN NoPort ELSE owner[out]]
          /\ framed' = [out \in OutPorts |-> IF out \in taken THEN NoPort ELSE framed[out]]
          /\ unended' = (unended \cup offered) \ taken
          /\ open' = open \ {m.port}
          /\ targets' = [targets EXCEPT ![m.port] = {}]
          /\ taken \subseteq offered
      BY <1>1, <1>2, <1>6 DEF Continue, Claim, Frame, Starts, Ends, SinkOutcomes
    <2>2. StreamType'
      BY <1>1, <1>4, <2>1 DEF IInv, StreamType
    <2>3. FramedIsOwned'
      <3> SUFFICES ASSUME NEW out \in OutPorts, framed'[out] # NoPort, out \notin unended'
                   PROVE  owner'[out] = framed'[out]
        BY DEF FramedIsOwned
      <3>1. out \notin offered /\ out \notin unended
        BY <2>1
      <3> QED
        BY <2>1, <3>1 DEF IInv, StreamInv, FramedIsOwned
    <2>4. TargetsAreFramed'
      <3> SUFFICES ASSUME NEW p \in open', NEW out \in targets'[p], owner'[out] = p
                   PROVE  framed'[out] = p
        BY DEF TargetsAreFramed
      <3>1. p \in open /\ p \in InPorts /\ p # m.port
        BY <2>1 DEF IInv, StreamType
      <3>2. out \in targets[p] /\ out \in OutPorts
        BY <2>1, <3>1 DEF IInv, StreamType
      <3>3. out \notin offered /\ owner[out] = p
        BY <2>1, <3>1, <3>2, PortsDiffer
      <3>4. framed[out] = p
        BY <3>1, <3>2, <3>3 DEF IInv, StreamInv, TargetsAreFramed
      <3> QED
        BY <2>1, <3>2, <3>3, <3>4
    <2> QED
      BY <2>2, <2>3, <2>4 DEF IInv, StreamInv
  <1> QED
    BY <1>1, <1>5, <1>6

(* A start claims the outputs that are free; the stream goes to those that *)
(* took it.                                                                *)
LEMMA InvRouteOn ==
    ASSUME IInv, NEW m \in Messages, RouteOn(m)
    PROVE  IInv'
  <1>1. m.port \in InPorts /\ m.kind \in {"short", "realtime", "whole", "start"}
    BY DEF RouteOn, Continues, Chunk, Starts, Messages, Kinds
  <1> DEFINE offered == Offered(m, Reached(m))
  <1>2. PICK taken \in SinkOutcomes(offered) :
            /\ Claim(m, offered) /\ Frame(m, offered, taken)
            /\ IF m.kind = "start"
               THEN /\ open' = IF taken # {} THEN open \cup {m.port}
                                             ELSE open \ {m.port}
                    /\ targets' = [targets EXCEPT ![m.port] = taken]
               ELSE UNCHANGED <<open, targets>>
    BY DEF RouteOn
  <1>3. queue' \in Seq(Messages)
    BY DEF RouteOn, Take, IInv, StreamType
  <1>4. taken \subseteq offered
    BY DEF SinkOutcomes
  <1>5. m.kind = "start" => \A out \in offered : owner[out] = NoPort
    BY DEF Offered, Exclusive, Continues, Chunk, Starts
  <1> HIDE DEF offered
  <1>6. CASE m.kind # "start"
    <2>1. UNCHANGED <<owner, open, targets>>
      BY <1>1, <1>2, <1>6 DEF Claim, IInv, StreamType
    <2>2. StreamType'
      BY <1>1, <1>2, <1>3, <2>1 DEF Frame, IInv, StreamType
    <2>3. FramedIsOwned'
      <3> SUFFICES ASSUME NEW out \in OutPorts, framed'[out] # NoPort, out \notin unended'
                   PROVE  owner'[out] = framed'[out]
        BY DEF FramedIsOwned
      <3>1. framed'[out] = framed[out] /\ out \notin unended
        BY <1>1, <1>2, <1>6 DEF Frame, Starts, Ends
      <3> QED
        BY <2>1, <3>1 DEF IInv, StreamInv, FramedIsOwned
    <2>4. TargetsAreFramed'
      <3> SUFFICES ASSUME NEW p \in open, NEW out \in targets[p], owner[out] = p
                   PROVE  framed'[out] = p
        BY <2>1 DEF TargetsAreFramed
      <3>1. out \in OutPorts /\ p \in InPorts /\ framed[out] = p
        BY DEF IInv, StreamInv, StreamType, TargetsAreFramed
      <3>2. ~(Ends(m) /\ out \in taken)
        BY <1>1, <1>4, <3>1, PortsDiffer
        DEF offered, Offered, Exclusive, Continues, Chunk, Starts, Ends
      <3> QED
        BY <1>2, <1>6, <3>1, <3>2 DEF Frame
    <2> QED
      BY <2>2, <2>3, <2>4 DEF IInv, StreamInv
  <1>7. CASE m.kind = "start"
    <2>1. /\ owner' = [out \in OutPorts |-> IF out \in offered THEN m.port ELSE owner[out]]
          /\ framed' = [out \in OutPorts |-> IF out \in taken THEN m.port ELSE framed[out]]
          /\ unended' = unended \ taken
          /\ open' \subseteq open \cup {m.port}
          /\ targets' = [targets EXCEPT ![m.port] = taken]
      BY <1>2, <1>7 DEF Claim, Frame, Starts, Ends
    <2>2. taken \subseteq OutPorts
      <3>1. offered \subseteq Reached(m)
        BY DEF offered, Offered
      <3>2. \A r \in RouteIds : RouteTargets(r, m.port) \subseteq OutPorts
        BY OutputsOnly
      <3> QED
        BY <1>4, <3>1, <3>2 DEF Reached, Passing, RoutesFrom
    <2>3. StreamType'
      BY <1>1, <1>3, <2>1, <2>2 DEF IInv, StreamType
    <2>4. FramedIsOwned'
      <3> SUFFICES ASSUME NEW out \in OutPorts, framed'[out] # NoPort, out \notin unended'
                   PROVE  owner'[out] = framed'[out]
        BY DEF FramedIsOwned
      <3>1. CASE out \in taken
        BY <1>4, <2>1, <3>1
      <3>2. CASE out \notin taken
        <4>1. framed[out] # NoPort /\ owner[out] = framed[out]
          BY <2>1, <3>2 DEF IInv, StreamInv, FramedIsOwned
        <4> QED
          BY <1>5, <1>7, <2>1, <3>2, <4>1
      <3> QED
        BY <3>1, <3>2
    <2>5. TargetsAreFramed'
      <3> SUFFICES ASSUME NEW p \in open', NEW out \in targets'[p], owner'[out] = p
                   PROVE  framed'[out] = p
        BY DEF TargetsAreFramed
      <3>1. p \in InPorts
        BY <2>3 DEF StreamType
      <3>2. CASE p = m.port
        BY <1>1, <2>1, <2>2, <3>2 DEF IInv, StreamType
      <3>3. CASE p # m.port
        <4>1. p \in open /\ out \in targets[p] /\ out \in OutPorts
          BY <2>1, <3>1, <3>3 DEF IInv, StreamType
        <4>2. out \notin offered /\ owner[out] = p
          BY <2>1, <3>3, <4>1
        <4>3. framed[out] = p
          BY <4>1, <4>2 DEF IInv, StreamInv, TargetsAreFramed
        <4> QED
          BY <1>4, <2>1, <4>1, <4>2, <4>3
      <3> QED
        BY <3>2, <3>3
    <2> QED
      BY <2>3, <2>4, <2>5 DEF IInv, StreamInv
  <1> QED
    BY <1>6, <1>7

(* A disconnect closes the frames of its outputs and only marks its inputs.*)
LEMMA InvUnplug == ASSUME IInv, NEW e \in Endpoints, Unplug(e) PROVE IInv'
  <1>1. StreamType'
    BY DEF Unplug, queueVars, IInv, StreamType
  <1>2. FramedIsOwned'
    BY DEF Unplug, IInv, StreamInv, FramedIsOwned
  <1>3. TargetsAreFramed'
    <2> SUFFICES ASSUME NEW p \in open', NEW out \in targets'[p], owner'[out] = p
                 PROVE  framed'[out] = p
      BY DEF TargetsAreFramed
    <2>1. p \in open /\ p \in InPorts /\ out \in targets[p] /\ out \in OutPorts
      BY DEF Unplug, IInv, StreamType
    <2>2. out \notin OutsOf(e) /\ owner[out] = p
      BY <2>1, PortsDiffer DEF Unplug
    <2>3. framed[out] = p
      BY <2>1, <2>2 DEF IInv, StreamInv, TargetsAreFramed
    <2> QED
      BY <2>1, <2>2, <2>3 DEF Unplug
  <1> QED
    BY <1>1, <1>2, <1>3 DEF IInv, StreamInv

(* Every other step leaves the streams alone.                              *)
LEMMA InvOther ==
    ASSUME IInv, UNCHANGED <<open, targets, owner, framed, unended>>, queue' \in Seq(Messages)
    PROVE  IInv'
  BY DEF IInv, StreamInv, StreamType, FramedIsOwned, TargetsAreFramed

(* The invariant is inductive.                                             *)
LEMMA InvNext == IInv /\ [Next]_vars => IInv'
  <1> SUFFICES ASSUME IInv, [Next]_vars PROVE IInv'
    OBVIOUS
  <1>1. CASE Transport
    BY <1>1, InvReceive DEF Transport
  <1>2. CASE BeginUpdate
    BY <1>2, InvBeginUpdate
  <1>3. CASE DispatchNext
    <2>1. PICK m \in Messages : queue # << >> /\ m = Head(queue) /\ Dispatch(m)
      BY <1>3 DEF DispatchNext, IInv, StreamType
    <2>2. CASE Continue(m)
      BY <2>2, InvContinue
    <2>3. CASE RouteOn(m)
      BY <2>3, InvRouteOn
    <2>4. CASE DropAtInput(m) \/ DropContinuation(m) \/ NoRoute(m)
      <3>1. UNCHANGED <<open, targets, owner, framed, unended>>
        BY <2>4 DEF DropAtInput, DropContinuation, NoRoute, streamVars
      <3>2. queue' = Tail(queue)
        BY <2>4 DEF DropAtInput, DropContinuation, NoRoute, Take
      <3>3. queue' \in Seq(Messages)
        BY <2>1, <3>2 DEF IInv, StreamType
      <3> QED
        BY <3>1, <3>3, InvOther
    <2> QED
      BY <2>1, <2>2, <2>3, <2>4 DEF Dispatch
  <1>4. CASE EndUpdate
    BY <1>4, InvOther DEF EndUpdate, streamVars, IInv, StreamType
  <1>5. ASSUME NEW e \in Unpluggable, Unplug(e) \/ Plug(e) PROVE IInv'
    <2>1. e \in Endpoints
      BY RouterBoundsAssumption
    <2>2. CASE Unplug(e)
      BY <2>1, <2>2, InvUnplug
    <2>3. CASE Plug(e)
      BY <2>3, InvOther DEF Plug, streamVars, queueVars, IInv, StreamType
    <2> QED
      BY <1>5, <2>2, <2>3
  <1>6. CASE Configure
    <2>1. Change
      BY <1>6 DEF Configure, AddRoute, RemoveRoute, SetRouteEnabled,
          SetRouteAllowSameEndpoint, SetRouteRules, SetPortRules, AddMember,
          RemoveMember
    <2> QED
      BY <2>1, InvOther DEF Change, streamVars, queueVars, IInv, StreamType
  <1>7. CASE UNCHANGED vars
    BY <1>7, InvOther DEF vars, streamVars, queueVars, IInv, StreamType
  <1> QED
    BY <1>1, <1>2, <1>3, <1>4, <1>5, <1>6, <1>7 DEF Next, UpdateStep

(* The streams are consistent in every reachable state.                    *)
THEOREM StreamsAreConsistent == Spec => []IInv
  BY InvInit, InvNext, PTL DEF Spec
-----------------------------------------------------------------------------
(* The invariant implies rule 3.                                           *)
LEMMA InvNothingInside == IInv => NothingInsideAStream
  <1> SUFFICES ASSUME IInv, queue # << >>,
                      NEW m \in Messages, m = Head(queue),
                      NEW out \in Sinks(m), framed[out] # NoPort, out \notin unended
               PROVE  m.kind = "realtime" \/ (Continues(m) /\ m.port = framed[out])
    BY DEF NothingInsideAStream, IInv, StreamType
  <1>1. out \in OutPorts /\ Exclusive(m, out)
    <2>1. CASE Continues(m)
      BY <2>1 DEF Sinks, Offered, IInv, StreamType, Messages
    <2>2. CASE ~Continues(m)
      <3>1. out \in Reached(m) /\ Exclusive(m, out)
        BY <2>2 DEF Sinks, Offered
      <3> QED
        BY <3>1, OutputsOnly DEF Reached, Passing, RoutesFrom
    <2> QED
      BY <2>1, <2>2
  <1>2. owner[out] = framed[out] /\ owner[out] # NoPort
    BY <1>1 DEF IInv, StreamInv, FramedIsOwned
  <1> QED
    BY <1>1, <1>2 DEF Exclusive

(* Rule 3: nothing but System Real-Time and the rest of the same dump goes *)
(* to an output whose device is in the middle of a dump, unless its sink   *)
(* refused the end of that dump.                                           *)
THEOREM RuleThree == Spec => []NothingInsideAStream
  BY StreamsAreConsistent, InvNothingInside, PTL

(* The invariant implies that nobody gets the rest alone.                  *)
LEMMA InvNoRest == IInv => NoRestWithoutStart
  <1> SUFFICES ASSUME IInv, queue # << >>,
                      NEW m \in Messages, m = Head(queue), Continues(m),
                      NEW out \in Sinks(m)
               PROVE  framed[out] = m.port
    BY DEF NoRestWithoutStart, IInv, StreamType
  <1>1. m.port \in open /\ out \in Offered(m, targets[m.port])
    BY DEF Sinks
  <1>2. out \in targets[m.port] /\ owner[out] = m.port
    BY <1>1 DEF Offered, Exclusive, Continues, Starts, Chunk
  <1> QED
    BY <1>1, <1>2 DEF IInv, StreamInv, TargetsAreFramed

(* An output never gets the rest of a dump whose start it did not take.    *)
THEOREM NoOrphanChunks == Spec => []NoRestWithoutStart
  BY StreamsAreConsistent, InvNoRest, PTL

(* Only update() has messages left to dispatch.                            *)
BudgetInv == budget \in Nat /\ (~updating => budget = 0)

LEMMA BudgetInit == Init => BudgetInv
  BY DEF Init, BudgetInv

LEMMA DispatchTakes ==
    ASSUME NEW m, Dispatch(m)
    PROVE  Take(m)
  BY DEF Dispatch, DropAtInput, DropContinuation, Continue, NoRoute, RouteOn

LEMMA BudgetNext == IInv /\ BudgetInv /\ [Next]_vars => BudgetInv'
  <1> SUFFICES ASSUME IInv, BudgetInv, [Next]_vars PROVE BudgetInv'
    OBVIOUS
  <1>1. CASE Transport \/ (\E e \in Unpluggable : Unplug(e) \/ Plug(e)) \/ Configure
    BY <1>1 DEF BudgetInv, Transport, Receive, ReceiveRefused, Unplug, Plug, Configure, Change,
                AddRoute, RemoveRoute, SetRouteEnabled, SetRouteAllowSameEndpoint,
                SetRouteRules, SetPortRules, AddMember, RemoveMember, queueVars
  <1>2. CASE BeginUpdate
    BY <1>2, LenProperties DEF BeginUpdate, BudgetInv, IInv, StreamType
  <1>3. CASE DispatchNext
    BY <1>3, DispatchTakes DEF DispatchNext, Take, BudgetInv
  <1>4. CASE EndUpdate
    BY <1>4 DEF EndUpdate, BudgetInv
  <1>5. CASE UNCHANGED vars
    BY <1>5 DEF BudgetInv, vars, queueVars
  <1> QED
    BY <1>1, <1>2, <1>3, <1>4, <1>5 DEF Next, UpdateStep

(* A message that is no rest of a dump and is routed somewhere is taken or *)
(* refused by a sink, stopped at the output, or held back by a stream.     *)
LEMMA RoutedIsCounted ==
    ASSUME NEW m \in Messages, ~Continues(m), NEW outs, outs # {},
           DeliverCounters(m, outs) = {},
           NEW taken \in SinkOutcomes(Offered(m, outs))
    PROVE  SinkCounters(Offered(m, outs), taken) # {}
  <1>1. PICK out \in outs : TRUE
    OBVIOUS
  <1>2. Passes(portRules[out], m)
    <2>1. Stopped(portRules[out], m) \subseteq DeliverCounters(m, outs)
      BY DEF DeliverCounters
    <2> QED
      BY <2>1 DEF Passes
  <1>3. ~RejectsStart(m, outs) /\ ~HoldsBack(m, outs)
    <2> DEFINE rejected == IF RejectsStart(m, outs) THEN {"sysExRejected"} ELSE {}
               held == IF HoldsBack(m, outs) THEN {"blockedBySysEx"} ELSE {}
    <2>1. /\ RejectsStart(m, outs) => rejected = {"sysExRejected"}
          /\ HoldsBack(m, outs) => held = {"blockedBySysEx"}
      BY Zenon
    <2> DEFINE stopped == UNION {Stopped(portRules[o], m) : o \in outs}
    <2>2. DeliverCounters(m, outs) = stopped \cup rejected \cup held
      BY Zenon DEF DeliverCounters
    <2> HIDE DEF stopped, rejected, held
    <2>3. rejected = {} /\ held = {}
      BY <2>2
    <2> QED
      BY <2>1, <2>3
  <1>4. (Starts(m) \/ m.kind = "short") => owner[out] = NoPort
    BY <1>1, <1>2, <1>3 DEF RejectsStart, HoldsBack
  <1>5. Starts(m) \/ m.kind \in {"short", "realtime"}
    BY DEF Messages, Kinds, Continues, Chunk, Starts
  <1>6. out \in Offered(m, outs)
    BY <1>1, <1>2, <1>4, <1>5 DEF Offered, Exclusive
  <1>7. CASE taken = {}
    <2>1. Offered(m, outs) # taken
      BY <1>6, <1>7
    <2> QED
      BY <2>1 DEF SinkCounters
  <1>8. CASE taken # {}
    BY <1>8 DEF SinkCounters
  <1> QED
    BY <1>7, <1>8

(* "A message that was not delivered is always counted somewhere": of what *)
(* update() takes from the queue, nothing but the rest of a dump leaves    *)
(* every counter as it was, whatever is lost, refused or unplugged.        *)
THEOREM NothingElseVanishes == Spec => OnlyContinuationsVanish
  <1>1. ASSUME IInv, BudgetInv, [Next]_vars, budget' < budget, updating', counted' = {}
        PROVE  Continues(Head(queue))
    <2>1. DispatchNext
      <3>1. budget \in Nat /\ budget' # budget
        BY <1>1, BudgetNext DEF BudgetInv
      <3>2. CASE Transport \/ (\E e \in Unpluggable : Unplug(e) \/ Plug(e)) \/ Configure
        BY <3>1, <3>2 DEF Transport, Receive, ReceiveRefused, Unplug, Plug, Configure, Change,
                    AddRoute, RemoveRoute, SetRouteEnabled, SetRouteAllowSameEndpoint,
                    SetRouteRules, SetPortRules, AddMember, RemoveMember, queueVars
      <3>3. ~BeginUpdate
        <4>1. budget' \in Nat
          BY <1>1, BudgetNext DEF BudgetInv
        <4> QED
          BY <1>1, <4>1 DEF BeginUpdate, BudgetInv
      <3>4. ~EndUpdate
        BY <1>1 DEF EndUpdate
      <3>5. ~UNCHANGED vars
        BY <3>1 DEF vars, queueVars
      <3> QED
        BY <1>1, <3>2, <3>3, <3>4, <3>5 DEF Next, UpdateStep
    <2>2. PICK m \in Messages : m = Head(queue) /\ queue # << >> /\ Dispatch(m)
      BY <1>1, <2>1, HeadTailProperties DEF DispatchNext, IInv, StreamType
    <2>3. CASE DropAtInput(m)
      BY <1>1, <2>3 DEF DropAtInput, Passes
    <2>4. CASE DropContinuation(m) \/ Continue(m)
      BY <2>2, <2>4 DEF DropContinuation, Continue
    <2>5. CASE NoRoute(m)
      BY <1>1, <2>5 DEF NoRoute
    <2>6. CASE RouteOn(m)
      <3>1. ~Continues(m) /\ Reached(m) # {}
        BY <2>6 DEF RouteOn
      <3>2. PICK taken \in SinkOutcomes(Offered(m, Reached(m))) :
                counted' = RouteCounters(m) \cup DeliverCounters(m, Reached(m))
                               \cup SinkCounters(Offered(m, Reached(m)), taken)
        BY <2>6, Zenon DEF RouteOn
      <3>3. /\ DeliverCounters(m, Reached(m)) = {}
            /\ SinkCounters(Offered(m, Reached(m)), taken) = {}
        BY <1>1, <3>2
      <3> QED
        BY <3>1, <3>3, RoutedIsCounted
    <2> QED
      BY <2>2, <2>3, <2>4, <2>5, <2>6 DEF Dispatch
  <1>2. IInv /\ BudgetInv /\ [Next]_vars
        => [budget' < budget /\ updating' /\ counted' = {} => Continues(Head(queue))]_vars
    BY <1>1
  <1>3. IInv /\ [Next]_vars => IInv'
    BY InvNext
  <1> QED
    BY InvInit, BudgetInit, BudgetNext, <1>2, <1>3, PTL DEF Spec, OnlyContinuationsVanish
-----------------------------------------------------------------------------
(* Rule 1 and the claims, while nothing is lost, refused or unplugged: two *)
(* findings show that they do not hold otherwise.                          *)
Faultless == Lossy = FALSE /\ Refusing = {} /\ Unpluggable = {}

Undisturbed ==
    /\ StreamType
    /\ \A e \in Endpoints : available[e]
    /\ pendingClose = {}
    /\ portRules \in [Ports -> Rules]

(* Every output an open stream goes to is claimed for it, and nothing else *)
(* is; what an output is claimed for is what it has been handed.           *)
ClaimsAgree ==
    /\ framed = owner
    /\ ClaimedByAStream
    /\ \A p \in open : \A out \in targets[p] : owner[out] = p

(* Between two starts of an input in a queue s, the one of the stream that *)
(* is open (in o) counted first, there is an end; and an end is queued     *)
(* behind each of them if the transport is not in the middle of a dump (in *)
(* f).                                                                     *)
Begun(s, o, p, i) == IF i = 0 THEN p \in o ELSE s[i] = [port |-> p, kind |-> "start"]
EndAt(s, p, j) == s[j] = [port |-> p, kind |-> "end"]

InTurn(s, o, f) ==
    \A p \in InPorts : \A i \in 0..Len(s) : Begun(s, o, p, i) =>
        /\ \A k \in i + 1 .. Len(s) :
               Begun(s, o, p, k) => \E j \in i + 1 .. k - 1 : EndAt(s, p, j)
        /\ p \notin f => \E j \in i + 1 .. Len(s) : EndAt(s, p, j)

DumpsInTurn == InTurn(queue, open, feeding)

PathInv == Undisturbed /\ ClaimsAgree /\ DumpsInTurn

LEMMA PathImplies == PathInv => IInv
  BY DEF PathInv, Undisturbed, ClaimsAgree, IInv, StreamInv, StreamType,
         FramedIsOwned, TargetsAreFramed

(* No rule set stops the rest of a dump, and no sink refuses anything.     *)
LEMMA RestPasses ==
    ASSUME Undisturbed, NEW m \in Messages, Continues(m), NEW p \in Ports
    PROVE  Passes(portRules[p], m)
  <1>1. portRules[p].drops \subseteq {"short", "realtime"}
    BY RulesAssumption DEF Undisturbed
  <1>2. Class(m) = "chunk"
    BY DEF Continues, Class
  <1> QED
    BY <1>1, <1>2 DEF Passes, Stopped

LEMMA AllIsTaken ==
    ASSUME Faultless, Undisturbed, NEW outs, outs \subseteq OutPorts,
           NEW taken \in SinkOutcomes(outs)
    PROVE  taken = outs
  <1>1. \A out \in outs : available[Endpoint[out]]
    BY PortsAssumption DEF Undisturbed, Ports
  <1> QED
    BY <1>1 DEF SinkOutcomes, Faultless
-----------------------------------------------------------------------------
(* What is put in keeps the turns, as a transport begins a dump only when  *)
(* it has ended the one before.                                            *)
LEMMA TurnsPut ==
    ASSUME NEW s \in Seq(Messages), NEW o, NEW f, NEW g, NEW p \in InPorts,
           NEW kind \in Kinds, InTurn(s, o, f),
           kind = "start" => p \notin f /\ p \in g,
           \A q \in InPorts : q \notin g => q \notin f \/ (q = p /\ kind = "end")
    PROVE  InTurn(Append(s, [port |-> p, kind |-> kind]), o, g)
  <1> DEFINE n == Len(s)
             x == [port |-> p, kind |-> kind]
             t == Append(s, x)
  <1>1. x \in Messages
    BY DEF Messages
  <1>2. /\ n \in Nat /\ Len(t) = n + 1 /\ t[n + 1] = x
        /\ \A i \in 1..n : t[i] = s[i]
    BY <1>1
  <1> HIDE DEF n, t
  <1>3. \A q \in InPorts : /\ \A i \in 0..n : Begun(t, o, q, i) <=> Begun(s, o, q, i)
                           /\ \A j \in 1..n : EndAt(t, q, j) <=> EndAt(s, q, j)
    <2>1. \A i \in 0..n : i = 0 \/ t[i] = s[i]
      BY <1>2
    <2>2. ASSUME NEW q \in InPorts, NEW i \in 0..n
          PROVE  Begun(t, o, q, i) <=> Begun(s, o, q, i)
      BY <2>1 DEF Begun
    <2>3. ASSUME NEW q \in InPorts, NEW j \in 1..n
          PROVE  EndAt(t, q, j) <=> EndAt(s, q, j)
      BY <1>2 DEF EndAt
    <2> QED
      BY <2>2, <2>3
  <1>4. \A q \in InPorts : Begun(t, o, q, n + 1) => q = p /\ kind = "start"
    BY <1>2 DEF Begun
  <1> SUFFICES ASSUME NEW q \in InPorts, NEW i \in 0 .. n + 1, Begun(t, o, q, i)
               PROVE  /\ \A k \in i + 1 .. n + 1 :
                             Begun(t, o, q, k) => \E j \in i + 1 .. k - 1 : EndAt(t, q, j)
                      /\ q \notin g => \E j \in i + 1 .. n + 1 : EndAt(t, q, j)
    BY <1>2 DEF InTurn, t
  <1>5. CASE i = n + 1
    <2>1. q \in g
      BY <1>4, <1>5
    <2> QED
      BY <1>2, <1>5, <2>1
  <1>6. CASE i \in 0..n
    <2>1. /\ \A k \in i + 1 .. n : Begun(s, o, q, k) => \E j \in i + 1 .. k - 1 : EndAt(s, q, j)
          /\ q \notin f => \E j \in i + 1 .. n : EndAt(s, q, j)
      BY <1>3, <1>6 DEF InTurn, n
    <2>2. \A j \in i + 1 .. n : j \in 1..n /\ j \in i + 1 .. n + 1
      BY <1>2, <1>6
    <2>3. ASSUME NEW k \in i + 1 .. n + 1, Begun(t, o, q, k)
          PROVE  \E j \in i + 1 .. k - 1 : EndAt(t, q, j)
      <3>1. CASE k = n + 1
        <4>1. q \notin f
          BY <1>4, <2>3, <3>1
        <4>2. PICK j \in i + 1 .. n : EndAt(s, q, j)
          BY <2>1, <4>1
        <4>3. j \in i + 1 .. k - 1 /\ EndAt(t, q, j)
          BY <1>2, <1>3, <2>2, <3>1, <4>2
        <4> QED
          BY <4>3
      <3>2. CASE k \in i + 1 .. n
        <4>1. Begun(s, o, q, k)
          BY <1>2, <1>3, <1>6, <2>3, <3>2
        <4>2. PICK j \in i + 1 .. k - 1 : EndAt(s, q, j)
          BY <2>1, <3>2, <4>1
        <4>3. j \in 1..n
          BY <1>2, <1>6, <3>2
        <4> QED
          BY <1>3, <4>2, <4>3
      <3> QED
        BY <1>2, <1>6, <3>1, <3>2
    <2>4. ASSUME q \notin g PROVE \E j \in i + 1 .. n + 1 : EndAt(t, q, j)
      <3>1. CASE q = p /\ kind = "end"
        <4>1. EndAt(t, q, n + 1) /\ n + 1 \in i + 1 .. n + 1
          BY <1>2, <1>6, <3>1 DEF EndAt
        <4> QED
          BY <4>1
      <3>2. CASE q \notin f
        BY <1>3, <2>1, <2>2, <3>2
      <3> QED
        BY <2>4, <3>1, <3>2
    <2> QED
      BY <2>3, <2>4
  <1> QED
    BY <1>2, <1>5, <1>6

(* What is taken out keeps the turns, if an end closes its stream and only *)
(* a start opens one.                                                      *)
LEMMA TurnsTaken ==
    ASSUME NEW s \in Seq(Messages), s # << >>, NEW o, NEW f, NEW u \in SUBSET InPorts,
           InTurn(s, o, f),
           \A q \in u : q \in o \/ Head(s) = [port |-> q, kind |-> "start"],
           \A q \in u : Head(s) # [port |-> q, kind |-> "end"]
    PROVE  InTurn(Tail(s), u, f)
  <1> DEFINE t == Tail(s)
             n == Len(t)
  <1>1. /\ n \in Nat /\ Len(s) = n + 1 /\ s[1] = Head(s)
        /\ \A i \in 1..n : t[i] = s[i + 1]
    OBVIOUS
  <1> HIDE DEF n, t
  <1>2. \A q \in InPorts : \A i \in 1..n :
            /\ Begun(t, u, q, i) <=> Begun(s, o, q, i + 1)
            /\ EndAt(t, q, i) <=> EndAt(s, q, i + 1)
    BY <1>1 DEF Begun, EndAt
  <1> SUFFICES ASSUME NEW q \in InPorts, NEW i \in 0..n, Begun(t, u, q, i)
               PROVE  /\ \A k \in i + 1 .. n :
                             Begun(t, u, q, k) => \E j \in i + 1 .. k - 1 : EndAt(t, q, j)
                      /\ q \notin f => \E j \in i + 1 .. n : EndAt(t, q, j)
    BY DEF InTurn, n, t
  <1>3. PICK h \in {0, i + 1} : Begun(s, o, q, h) /\ (h = 0 => i = 0 /\ ~EndAt(s, q, 1))
    <2>1. CASE i # 0
      <3>1. i \in 1..n
        BY <1>1, <2>1
      <3> QED
        BY <1>1, <1>2, <3>1
    <2>2. CASE i = 0
      <3>1. q \in u
        BY <2>2 DEF Begun
      <3>2. CASE Head(s) = [port |-> q, kind |-> "start"]
        BY <1>1, <2>2, <3>2 DEF Begun
      <3>3. CASE q \in o
        BY <1>1, <2>2, <3>1, <3>3 DEF Begun, EndAt
      <3> QED
        BY <3>1, <3>2, <3>3
    <2> QED
      BY <2>1, <2>2
  <1>4. h \in 0 .. n + 1 /\ h <= i + 1
    BY <1>1, <1>3
  <1>5. /\ \A k \in h + 1 .. n + 1 :
               Begun(s, o, q, k) => \E j \in h + 1 .. k - 1 : EndAt(s, q, j)
        /\ q \notin f => \E j \in h + 1 .. n + 1 : EndAt(s, q, j)
    BY <1>1, <1>3, <1>4 DEF InTurn
  <1>6. ASSUME NEW j \in h + 1 .. n + 1, EndAt(s, q, j)
        PROVE  j - 1 \in i + 1 .. n /\ EndAt(t, q, j - 1)
    <2>1. j # 1 \/ h # 0
      BY <1>3, <1>6
    <2>2. j - 1 \in i + 1 .. n
      BY <1>1, <1>3, <1>4, <2>1
    <2>3. j - 1 \in 1..n /\ (j - 1) + 1 = j
      BY <1>1, <2>2
    <2> QED
      BY <1>2, <1>6, <2>2, <2>3
  <1>7. ASSUME NEW k \in i + 1 .. n, Begun(t, u, q, k)
        PROVE  \E j \in i + 1 .. k - 1 : EndAt(t, q, j)
    <2>1. k \in 1..n /\ k + 1 \in h + 1 .. n + 1
      BY <1>1, <1>4
    <2>2. Begun(s, o, q, k + 1)
      BY <1>2, <1>7, <2>1
    <2>3. PICK j \in h + 1 .. (k + 1) - 1 : EndAt(s, q, j)
      BY <1>5, <2>1, <2>2
    <2>4. j \in h + 1 .. n + 1 /\ j <= k
      BY <1>1, <1>4, <2>1
    <2>5. j - 1 \in i + 1 .. n /\ EndAt(t, q, j - 1)
      BY <1>6, <2>3, <2>4
    <2>6. j - 1 \in i + 1 .. k - 1
      BY <2>1, <2>4, <2>5
    <2> QED
      BY <2>5, <2>6
  <1>8. ASSUME q \notin f PROVE \E j \in i + 1 .. n : EndAt(t, q, j)
    BY <1>5, <1>6, <1>8
  <1> QED
    BY <1>7, <1>8

(* The same of the steps that put a message in and take one out.           *)
LEMMA ReceivedInTurn ==
    ASSUME StreamType, DumpsInTurn, NEW p \in InPorts, NEW kind \in Kinds,
           Receive(p, kind)
    PROVE  DumpsInTurn'
  <1>1. queue' = Append(queue, [port |-> p, kind |-> kind]) /\ open' = open
    BY DEF Receive, streamVars
  <1>2. queue \in Seq(Messages) /\ InTurn(queue, open, feeding)
    BY DEF StreamType, DumpsInTurn
  <1>3. kind = "start" => p \notin feeding /\ p \in feeding'
    BY DEF Receive, Wellformed, Feed
  <1>4. \A q \in InPorts : q \notin feeding' => q \notin feeding \/ (q = p /\ kind = "end")
    BY DEF Receive, Feed
  <1>5. InTurn(Append(queue, [port |-> p, kind |-> kind]), open, feeding')
    BY <1>2, <1>3, <1>4, TurnsPut
  <1> QED
    BY <1>1, <1>5 DEF DumpsInTurn

LEMMA TakenInTurn ==
    ASSUME StreamType, DumpsInTurn, NEW m \in Messages, Take(m), open' \in SUBSET InPorts,
           \A q \in open' : q \in open \/ m = [port |-> q, kind |-> "start"],
           m.kind = "end" => m.port \notin open'
    PROVE  DumpsInTurn'
  <1>1. queue # << >> /\ m = Head(queue) /\ queue' = Tail(queue) /\ feeding' = feeding
    BY DEF Take
  <1>2. queue \in Seq(Messages) /\ InTurn(queue, open, feeding)
    BY DEF StreamType, DumpsInTurn
  <1>3. \A q \in open' : m # [port |-> q, kind |-> "end"]
    OBVIOUS
  <1>4. InTurn(Tail(queue), open', feeding)
    BY <1>1, <1>2, <1>3, TurnsTaken
  <1> QED
    BY <1>1, <1>4 DEF DumpsInTurn
-----------------------------------------------------------------------------
LEMMA UndisturbedNext == Faultless /\ PathInv /\ [Next]_vars => Undisturbed'
  <1> SUFFICES ASSUME Faultless, PathInv, [Next]_vars PROVE Undisturbed'
    OBVIOUS
  <1>1. StreamType'
    BY PathImplies, InvNext DEF IInv
  <1>2. UNCHANGED available
    BY DEF Next, Faultless, Transport, Receive, ReceiveRefused, UpdateStep, BeginUpdate,
           EndUpdate, DispatchNext, Dispatch, DropAtInput, DropContinuation, Continue,
           NoRoute, RouteOn, Take, Configure, AddRoute, RemoveRoute, SetRouteEnabled,
           SetRouteAllowSameEndpoint, SetRouteRules, SetPortRules, AddMember,
           RemoveMember, Change, vars
  <1>3. pendingClose' = {}
    BY DEF PathInv, Undisturbed, Next, Faultless, Transport, Receive, ReceiveRefused,
           UpdateStep, BeginUpdate,
           EndUpdate, DispatchNext, Dispatch, DropAtInput, DropContinuation, Continue,
           NoRoute, RouteOn, Configure, AddRoute, RemoveRoute, SetRouteEnabled,
           SetRouteAllowSameEndpoint, SetRouteRules, SetPortRules, AddMember,
           RemoveMember, Change, vars, streamVars
  <1>4. portRules' \in [Ports -> Rules]
    <2>1. CASE UNCHANGED portRules
      BY <2>1 DEF PathInv, Undisturbed
    <2>2. ASSUME NEW p \in Ports, NEW rules \in Rules, SetPortRules(p, rules)
          PROVE  portRules' \in [Ports -> Rules]
      BY <2>2 DEF SetPortRules, PathInv, Undisturbed
    <2>3. UNCHANGED portRules \/ \E p \in Ports, rules \in Rules : SetPortRules(p, rules)
      BY DEF Next, Faultless, Transport, Receive, ReceiveRefused, UpdateStep,
             BeginUpdate, EndUpdate, DispatchNext, Dispatch, DropAtInput,
             DropContinuation, Continue, NoRoute, RouteOn, Take, Configure, AddRoute,
             RemoveRoute, SetRouteEnabled, SetRouteAllowSameEndpoint, SetRouteRules,
             AddMember, RemoveMember, vars, configVars
    <2> QED
      BY <2>1, <2>2, <2>3
  <1> QED
    BY <1>1, <1>2, <1>3, <1>4 DEF PathInv, Undisturbed

(* The rest of a dump goes to all of the stream's targets.                 *)
LEMMA PathContinue ==
    ASSUME Faultless, PathInv, NEW m \in Messages, Continue(m)
    PROVE  ClaimsAgree' /\ DumpsInTurn'
  <1> USE DEF PathInv, Undisturbed
  <1>1. m.port \in InPorts /\ m.kind \in {"middle", "end"} /\ m.port \in open
    BY DEF Continue, Continues, Chunk, Starts, Messages
  <1>2. Continues(m) /\ Take(m)
    BY DEF Continue
  <1>3. Offered(m, targets[m.port]) = targets[m.port]
    <2>1. ASSUME NEW out \in targets[m.port]
          PROVE  Passes(portRules[out], m) /\ Exclusive(m, out)
      <3>1. out \in Ports /\ owner[out] = m.port
        BY <1>1 DEF StreamType, Ports, ClaimsAgree
      <3> QED
        BY <1>2, <3>1, RestPasses DEF Exclusive
    <2> QED
      BY <2>1 DEF Offered
  <1>4. PICK taken \in SinkOutcomes(targets[m.port]) :
            Claim(m, targets[m.port]) /\ Frame(m, targets[m.port], taken)
    BY <1>3 DEF Continue
  <1>5. CASE m.kind = "middle"
    <2>1. UNCHANGED <<owner, framed, open, targets>>
      BY <1>1, <1>4, <1>5 DEF Continue, Claim, Frame, Starts, Ends, StreamType
    <2>2. ClaimsAgree'
      BY <2>1 DEF ClaimsAgree, ClaimedByAStream
    <2> QED
      BY <1>2, <1>5, <2>1, <2>2, TakenInTurn DEF StreamType
  <1>6. CASE m.kind = "end"
    <2>1. /\ owner' = [out \in OutPorts |-> IF out \in targets[m.port] THEN NoPort ELSE owner[out]]
          /\ framed' = [out \in OutPorts |-> IF out \in targets[m.port] THEN NoPort ELSE framed[out]]
          /\ open' = open \ {m.port}
          /\ targets' = [targets EXCEPT ![m.port] = {}]
      <3>1. taken = targets[m.port]
        BY <1>1, <1>4, AllIsTaken DEF StreamType
      <3> QED
        BY <1>1, <1>4, <1>6, <3>1 DEF Continue, Claim, Frame, Ends
    <2>2. ClaimedByAStream'
      <3> SUFFICES ASSUME NEW out \in OutPorts, owner'[out] # NoPort
                   PROVE  owner'[out] \in open' /\ out \in targets'[owner'[out]]
        BY DEF ClaimedByAStream
      <3>1. owner'[out] = owner[out] /\ out \notin targets[m.port]
        BY <2>1
      <3>2. /\ owner[out] \in open /\ owner[out] \in InPorts
            /\ out \in targets[owner[out]]
        BY <3>1 DEF ClaimsAgree, ClaimedByAStream, StreamType
      <3> QED
        BY <2>1, <3>1, <3>2 DEF StreamType
    <2>3. \A p \in open' : \A out \in targets'[p] : owner'[out] = p
      <3> SUFFICES ASSUME NEW p \in open', NEW out \in targets'[p] PROVE owner'[out] = p
        OBVIOUS
      <3>1. p \in open /\ p # m.port /\ out \in targets[p] /\ out \in OutPorts
        BY <2>1 DEF StreamType
      <3>2. owner[out] = p /\ out \notin targets[m.port]
        BY <1>1, <3>1 DEF ClaimsAgree
      <3> QED
        BY <2>1, <3>1, <3>2
    <2>4. ClaimsAgree'
      BY <2>1, <2>2, <2>3 DEF ClaimsAgree
    <2> QED
      BY <1>2, <1>6, <2>1, <2>4, TakenInTurn DEF StreamType
  <1> QED
    BY <1>1, <1>5, <1>6

(* A start opens a stream on the outputs that are free, whose input has no *)
(* other open.                                                             *)
LEMMA PathRouteOn ==
    ASSUME Faultless, PathInv, NEW m \in Messages, RouteOn(m)
    PROVE  ClaimsAgree' /\ DumpsInTurn'
  <1> USE DEF PathInv, Undisturbed
  <1>1. m.port \in InPorts /\ m.kind \in {"short", "realtime", "whole", "start"} /\ Take(m)
    BY DEF RouteOn, Continues, Chunk, Starts, Messages, Kinds
  <1> DEFINE offered == Offered(m, Reached(m))
  <1>2. PICK taken \in SinkOutcomes(offered) :
            /\ Claim(m, offered) /\ Frame(m, offered, taken)
            /\ IF m.kind = "start"
               THEN /\ open' = IF taken # {} THEN open \cup {m.port}
                                             ELSE open \ {m.port}
                    /\ targets' = [targets EXCEPT ![m.port] = taken]
               ELSE UNCHANGED <<open, targets>>
    BY DEF RouteOn
  <1>3. CASE m.kind # "start"
    <2>1. UNCHANGED <<owner, framed, open, targets>>
      <3>1. UNCHANGED <<owner, open, targets>>
        BY <1>1, <1>2, <1>3 DEF Claim, StreamType
      <3>2. ASSUME NEW out \in OutPorts, Ends(m), out \in taken PROVE framed[out] = NoPort
        <4>1. taken \subseteq offered
          BY <1>2 DEF SinkOutcomes
        <4>2. owner[out] = NoPort
          BY <1>1, <3>2, <4>1
          DEF offered, Offered, Exclusive, Continues, Chunk, Starts, Ends
        <4> QED
          BY <4>2 DEF ClaimsAgree
      <3>3. framed' = [out \in OutPorts |-> framed[out]]
        BY <1>2, <1>3, <3>2, Zenon DEF Frame
      <3> QED
        BY <3>1, <3>3 DEF StreamType
    <2>2. ClaimsAgree'
      BY <2>1 DEF ClaimsAgree, ClaimedByAStream
    <2> QED
      BY <1>1, <2>1, <2>2, TakenInTurn DEF StreamType
  <1>4. CASE m.kind = "start"
    <2>1. m.port \notin open
      <3>1. queue \in Seq(Messages) /\ queue # << >> /\ m = Head(queue)
        BY <1>1 DEF Take, StreamType
      <3>2. Len(queue) \in Nat /\ 1 \in 0 + 1 .. Len(queue) /\ 0 \in 0..Len(queue)
            /\ queue[1] = m
        BY <3>1
      <3>3. m = [port |-> m.port, kind |-> "start"]
        BY <1>4 DEF Messages
      <3>4. Begun(queue, open, m.port, 1)
        BY <3>2, <3>3 DEF Begun
      <3>5. Begun(queue, open, m.port, 0) =>
                \E j \in 0 + 1 .. 1 - 1 : EndAt(queue, m.port, j)
        BY <1>1, <3>2, <3>4 DEF DumpsInTurn, InTurn
      <3> QED
        BY <3>5 DEF Begun
    <2>2. offered \subseteq OutPorts /\ \A out \in offered : owner[out] = NoPort
      <3>1. offered \subseteq Reached(m) /\ \A out \in offered : owner[out] = NoPort
        BY <1>4 DEF Offered, Exclusive, Continues, Chunk, Starts
      <3>2. Passing(m) \subseteq RouteIds
        BY DEF Passing, RoutesFrom
      <3>3. \A r \in Passing(m) : RouteTargets(r, m.port) \subseteq OutPorts
        BY <3>2, OutputsOnly
      <3>4. Reached(m) \subseteq OutPorts
        BY <3>3 DEF Reached
      <3> QED
        BY <3>1, <3>4
    <2>3. taken = offered
      BY <2>2, AllIsTaken
    <2> HIDE DEF offered
    <2>4. /\ owner' = [out \in OutPorts |-> IF out \in offered THEN m.port ELSE owner[out]]
          /\ framed' = [out \in OutPorts |-> IF out \in offered THEN m.port ELSE framed[out]]
          /\ open' = IF offered # {} THEN open \cup {m.port} ELSE open
          /\ targets' = [targets EXCEPT ![m.port] = offered]
      BY <1>2, <1>4, <2>1, <2>3 DEF Claim, Frame, Ends
    <2>5. ClaimedByAStream'
      <3> SUFFICES ASSUME NEW out \in OutPorts, owner'[out] # NoPort
                   PROVE  owner'[out] \in open' /\ out \in targets'[owner'[out]]
        BY DEF ClaimedByAStream
      <3>1. CASE out \in offered
        BY <1>1, <2>4, <3>1 DEF StreamType
      <3>2. CASE out \notin offered
        <4>1. owner'[out] = owner[out]
          BY <2>4, <3>2
        <4>2. owner[out] \in open /\ owner[out] \in InPorts /\ out \in targets[owner[out]]
          BY <4>1 DEF ClaimsAgree, ClaimedByAStream, StreamType
        <4> QED
          BY <2>1, <2>4, <4>1, <4>2 DEF StreamType
      <3> QED
        BY <3>1, <3>2
    <2>6. \A p \in open' : \A out \in targets'[p] : owner'[out] = p
      <3> SUFFICES ASSUME NEW p \in open', NEW out \in targets'[p] PROVE owner'[out] = p
        OBVIOUS
      <3>1. CASE p = m.port
        BY <1>1, <2>2, <2>4, <3>1 DEF StreamType
      <3>2. CASE p # m.port
        <4>1. p \in open /\ p \in InPorts /\ out \in targets[p] /\ out \in OutPorts
          BY <2>4, <3>2 DEF StreamType
        <4>2. owner[out] = p /\ out \notin offered
          BY <2>2, <4>1, PortsDiffer DEF ClaimsAgree
        <4> QED
          BY <2>4, <4>1, <4>2
      <3> QED
        BY <3>1, <3>2
    <2>7. ClaimsAgree'
      BY <2>4, <2>5, <2>6 DEF ClaimsAgree
    <2>8. \A p \in open' : p \in open \/ m = [port |-> p, kind |-> "start"]
      BY <1>1, <1>4, <2>4 DEF Messages
    <2>9. open' \in SUBSET InPorts
      BY <1>1, <2>4 DEF StreamType
    <2> QED
      BY <1>1, <1>4, <2>7, <2>8, <2>9, TakenInTurn
  <1> QED
    BY <1>3, <1>4

LEMMA PathNext == Faultless /\ PathInv /\ [Next]_vars => PathInv'
  <1> SUFFICES ASSUME Faultless, PathInv, [Next]_vars PROVE ClaimsAgree' /\ DumpsInTurn'
    BY UndisturbedNext DEF PathInv
  <1> USE DEF PathInv, Undisturbed
  <1>1. ASSUME UNCHANGED <<owner, framed, open, targets>> PROVE ClaimsAgree'
    BY <1>1 DEF ClaimsAgree, ClaimedByAStream
  <1>2. ASSUME UNCHANGED <<queue, feeding, open>> PROVE DumpsInTurn'
    BY <1>2 DEF DumpsInTurn
  <1>3. ASSUME NEW p \in InPorts, NEW kind \in Kinds, Receive(p, kind)
        PROVE  ClaimsAgree' /\ DumpsInTurn'
    BY <1>1, <1>3, ReceivedInTurn DEF Receive, streamVars
  <1>4. CASE BeginUpdate
    <2>1. Closing = {}
      BY DEF Closing
    <2>2. UNCHANGED <<owner, framed, open, targets, queue, feeding>>
      BY <1>4, <2>1 DEF BeginUpdate, SinkOutcomes, StreamType
    <2> QED
      BY <1>1, <1>2, <2>2
  <1>5. CASE DispatchNext
    <2>1. PICK m \in Messages : queue # << >> /\ m = Head(queue) /\ Dispatch(m)
      BY <1>5 DEF DispatchNext, StreamType
    <2>2. CASE Continue(m)
      BY <2>2, PathContinue
    <2>3. CASE RouteOn(m)
      BY <2>3, PathRouteOn
    <2>4. CASE DropAtInput(m) \/ DropContinuation(m) \/ NoRoute(m)
      <3>1. UNCHANGED <<owner, framed, open, targets>> /\ Take(m)
        BY <2>4 DEF DropAtInput, DropContinuation, NoRoute, streamVars
      <3>2. m.kind = "end" => m.port \notin open
        <4> SUFFICES ASSUME m.kind = "end" PROVE m.port \notin open
          OBVIOUS
        <4>1. Continues(m) /\ m.port \in Ports
          BY DEF Continues, Chunk, Starts, Messages, Ports
        <4>2. Passes(portRules[m.port], m)
          BY <4>1, RestPasses
        <4> QED
          BY <2>4, <4>1, <4>2 DEF DropAtInput, DropContinuation, NoRoute
      <3> QED
        BY <1>1, <3>1, <3>2, TakenInTurn DEF StreamType
    <2> QED
      BY <2>1, <2>2, <2>3, <2>4 DEF Dispatch
  <1>6. CASE EndUpdate
    BY <1>1, <1>2, <1>6 DEF EndUpdate, streamVars
  <1>7. CASE Configure
    <2>1. Change
      BY <1>7 DEF Configure, AddRoute, RemoveRoute, SetRouteEnabled,
          SetRouteAllowSameEndpoint, SetRouteRules, SetPortRules, AddMember,
          RemoveMember
    <2> QED
      BY <1>1, <1>2, <2>1 DEF Change, streamVars, queueVars
  <1>8. CASE UNCHANGED vars
    BY <1>1, <1>2, <1>8 DEF vars, streamVars, queueVars
  <1> QED
    BY <1>3, <1>4, <1>5, <1>6, <1>7, <1>8
    DEF Next, UpdateStep, Transport, ReceiveRefused, Faultless

LEMMA PathInit == Init => PathInv
  <1> SUFFICES ASSUME Init PROVE PathInv
    OBVIOUS
  <1>1. Undisturbed
    BY InvInit, RulesAssumption DEF Init, IInv, Undisturbed
  <1>2. ClaimsAgree
    BY DEF Init, ClaimsAgree, ClaimedByAStream
  <1>3. DumpsInTurn
    BY DEF Init, DumpsInTurn, InTurn, Begun
  <1> QED
    BY <1>1, <1>2, <1>3 DEF PathInv

(* While nothing is lost, refused or unplugged, an output is claimed only  *)
(* by an open stream that goes to it, for any ports, routes and rules.     *)
THEOREM ClaimsAreBacked == Faultless => (Spec => []ClaimedByAStream)
  <1> SUFFICES ASSUME Faultless PROVE Spec => []ClaimedByAStream
    OBVIOUS
  <1>1. PathInv /\ [Next]_vars => PathInv'
    BY PathNext
  <1>2. PathInv => ClaimedByAStream
    BY DEF PathInv, ClaimsAgree
  <1> QED
    BY PathInit, <1>1, <1>2, PTL DEF Spec

(* ... and then the rest of a dump goes where its start went.              *)
LEMMA InvPathIsFixed == PathInv => PathIsFixed
  <1> SUFFICES ASSUME PathInv, queue # << >>,
                      NEW m \in Messages, m = Head(queue), Continues(m)
               PROVE  Sinks(m) = {out \in OutPorts : framed[out] = m.port}
    BY DEF PathIsFixed, PathInv, Undisturbed, StreamType
  <1> USE DEF PathInv, Undisturbed
  <1>1. m.port \in InPorts /\ m.port \in Ports /\ m.port # NoPort
    BY PortsDiffer DEF Messages, Ports
  <1>2. Sinks(m) = IF m.port \in open THEN Offered(m, targets[m.port]) ELSE {}
    BY <1>1, RestPasses DEF Sinks
  <1>3. \A out \in OutPorts : framed[out] = m.port <=> m.port \in open /\ out \in targets[m.port]
    BY <1>1 DEF ClaimsAgree, ClaimedByAStream
  <1>4. CASE m.port \in open
    <2>1. \A out \in targets[m.port] : out \in OutPorts /\ out \in Ports /\ owner[out] = m.port
      BY <1>1, <1>4 DEF StreamType, Ports, ClaimsAgree
    <2>2. Offered(m, targets[m.port]) = targets[m.port]
      BY <2>1, RestPasses DEF Offered, Exclusive
    <2> QED
      BY <1>2, <1>3, <1>4, <2>1, <2>2
  <1>5. CASE m.port \notin open
    BY <1>2, <1>3, <1>5
  <1> QED
    BY <1>4, <1>5

(* While nothing is lost, refused or unplugged, the rest of a dump goes to *)
(* exactly the outputs its start went to, whatever is edited in between.   *)
THEOREM PathsAreFixed == Faultless => (Spec => []PathIsFixed)
  <1> SUFFICES ASSUME Faultless PROVE Spec => []PathIsFixed
    OBVIOUS
  <1>1. PathInv /\ [Next]_vars => PathInv'
    BY PathNext
  <1> QED
    BY PathInit, <1>1, InvPathIsFixed, PTL DEF Spec
=============================================================================
