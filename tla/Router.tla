------------------------------- MODULE Router -------------------------------
(***************************************************************************)
(* Router: the routes, the three stages and the SysEx stream rules, driven *)
(* by update() on the sketch's task while transports put messages in the   *)
(* queue.                                                                  *)
(*                                                                         *)
(* A message is short, System Real-Time ("realtime") or a chunk: the first *)
(* of a dump ("start"), the last ("end"), one between ("middle") or the    *)
(* only one ("whole").  Its bytes, and what a transform writes into them,  *)
(* are left out; a rule set is what it rejects and what it drops.          *)
(*                                                                         *)
(* The queue is the sequence of ReceiveQueue's refinement, MessageQueue:   *)
(* bounded, in order, and with refusals.  Ports are those the registry has *)
(* handed out; an endpoint's ports change state together.                  *)
(***************************************************************************)
EXTENDS Naturals, Sequences

CONSTANTS
    InPorts, OutPorts,   \* the ports that have a seat
    NoPort,              \* PortId()
    Endpoints,
    Endpoint,            \* Endpoint[p]: the endpoint of port p
    InGroups, OutGroups, \* the groups the sketch made
    All,                 \* InGroup::AllValue / OutGroup::AllValue
    MaxRoutes,           \* ESPMIDI_MAX_ROUTES
    InitialRoutes,       \* sequence of [source, dest] routed by setup()
    Entries,             \* ESPMIDI_QUEUE_ENTRIES
    Rules,               \* the rule sets the sketch gives to a stage
    MaxChanges,          \* bound: configuration calls after setup()
    Unpluggable,         \* endpoints that come and go
    Refusing,            \* outputs whose transport may refuse a message
    Lossy                \* whether the queue ever refuses a message

Ports == InPorts \cup OutPorts
Groups == InGroups \cup OutGroups
Sources == InPorts \cup InGroups \cup {All}
Dests == OutPorts \cup OutGroups \cup {All}

Transparent == [rejects |-> {}, drops |-> {}]

ASSUME PortsAssumption ==
    /\ InPorts \cap OutPorts = {} /\ NoPort \notin Ports
    /\ Endpoint \in [Ports -> Endpoints]
    /\ Groups \cap (Ports \cup {All, NoPort}) = {} /\ All \notin Ports
    /\ InGroups \cap OutGroups = {}
ASSUME RulesAssumption ==
    /\ Transparent \in Rules
    /\ \A r \in Rules : /\ r.rejects \subseteq {"short", "realtime", "chunk"}
                        /\ r.drops \subseteq {"short", "realtime"}
ASSUME RouterBoundsAssumption ==
    /\ MaxRoutes \in Nat /\ Entries \in Nat \ {0} /\ MaxChanges \in Nat
    /\ InitialRoutes \in Seq([source : Sources, dest : Dests])
    /\ Len(InitialRoutes) <= MaxRoutes /\ Lossy \in BOOLEAN
    /\ Unpluggable \subseteq Endpoints /\ Refusing \subseteq OutPorts

VARIABLES
    available,      \* available[e]: the ports of e are Available
    feeding,        \* inputs whose transport is in the middle of a dump
    queue,          \* queue_[head_] to queue_[tail_ - 1]
    updating,       \* the sketch is inside update()
    budget,         \* entries update() still has to dispatch
    routes,         \* routes_
    members,        \* groups_[g].members
    portRules,      \* stages_
    open,           \* inputs with streams_[in].open
    targets,        \* streams_[in].targets
    owner,          \* outStreamOwner_
    pendingClose,   \* pendingClose_
    framed,         \* history: whose dump the device at an output is in the
                    \* middle of: its sink took the start, and no end since
    unended,        \* history: outputs whose sink was handed the end of that
                    \* dump and refused it
    counted,        \* the counters the last step raised
    changes         \* configuration calls so far

configVars == <<routes, members, portRules, changes>>
streamVars == <<open, targets, owner, pendingClose, framed, unended>>
queueVars == <<queue, updating, budget>>
vars == <<available, feeding, queueVars, configVars, streamVars, counted>>

RouteIds == 1..MaxRoutes
Kinds == {"short", "realtime", "whole", "start", "middle", "end"}
Messages == [port : InPorts, kind : Kinds]

Chunk(m) == m.kind \in {"whole", "start", "middle", "end"}
Starts(m) == m.kind \in {"whole", "start"}            \* chunkStart
Ends(m) == m.kind \in {"whole", "end"}                \* chunkEnd
Continues(m) == Chunk(m) /\ ~Starts(m)
Class(m) == IF Chunk(m) THEN "chunk" ELSE m.kind

Unused == [used |-> FALSE, enabled |-> TRUE, same |-> FALSE, source |-> NoPort,
           dest |-> NoPort, rules |-> Transparent]
NewRoute(src, dst) == [Unused EXCEPT !.used = TRUE, !.source = src, !.dest = dst]

Init ==
    /\ available = [e \in Endpoints |-> TRUE]
    /\ feeding = {}
    /\ queue = << >> /\ updating = FALSE /\ budget = 0
    /\ routes = [r \in RouteIds |->
           IF r <= Len(InitialRoutes)
           THEN NewRoute(InitialRoutes[r].source, InitialRoutes[r].dest)
           ELSE Unused]
    /\ members = [g \in Groups |-> {}]
    /\ portRules = [p \in Ports |-> Transparent]
    /\ open = {} /\ targets = [p \in InPorts |-> {}]
    /\ owner = [out \in OutPorts |-> NoPort]
    /\ pendingClose = {}
    /\ framed = [out \in OutPorts |-> NoPort] /\ unended = {}
    /\ counted = {} /\ changes = 0
-----------------------------------------------------------------------------
(* receive(), called by a transport.                                       *)

(* What a transport's codec hands over next: a dump is a start, middles    *)
(* and an end.  A short message may come in between: the USB decoder lost  *)
(* the end of the dump, or the device has no manners.                      *)
Wellformed(p, kind) ==
    kind \in {"realtime", "short"} \/ (p \in feeding <=> kind \in {"middle", "end"})

Feed(p, kind) ==
    feeding' = CASE kind = "start" -> feeding \cup {p}
                 [] kind = "end" -> feeding \ {p}
                 [] OTHER -> feeding

Receive(p, kind) ==
    /\ available[Endpoint[p]] /\ Wellformed(p, kind)
    /\ Len(queue) < Entries
    /\ queue' = Append(queue, [port |-> p, kind |-> kind])
    /\ Feed(p, kind)
    /\ counted' = {"received"}
    /\ UNCHANGED <<available, updating, budget, configVars, streamVars>>

(* The queue refuses: it is full, or looked full to a task that was        *)
(* overtaken (ReceiveQueue).  The transport goes on with its dump.         *)
ReceiveRefused(p, kind) ==
    /\ Lossy
    /\ available[Endpoint[p]] /\ Wellformed(p, kind)
    /\ Feed(p, kind)
    /\ counted' = {"received", "queueFull"}
    /\ UNCHANGED <<available, queueVars, configVars, streamVars>>
-----------------------------------------------------------------------------
(* The stages.                                                             *)

(* Mutant: decides again at every chunk of a dump.                         *)
Stopped_EveryChunk(rules, m) ==
    IF Class(m) \in rules.rejects THEN {"droppedByFilter"}
    ELSE IF Class(m) \in rules.drops THEN {"droppedByStage"}
    ELSE {}

(* runStage(): what a rule set counts when it stops a message.  A filter   *)
(* looks at the start of a dump only, the other rules at no chunk.         *)
Stopped(rules, m) ==
    IF ~Continues(m) /\ Class(m) \in rules.rejects THEN {"droppedByFilter"}
    ELSE IF Class(m) \in rules.drops THEN {"droppedByStage"}
    ELSE {}

Passes(rules, m) == Stopped(rules, m) = {}

(* PortRegistry::contains() for the direction of a route's end.            *)
PortsOf(end, direction) ==
    direction \cap
        CASE end = All -> direction
          [] end \in Groups -> members[end]
          [] OTHER -> {end}

(* The enabled routes whose source has this port.                          *)
RoutesFrom(p) ==
    {r \in RouteIds : /\ routes[r].used /\ routes[r].enabled
                      /\ p \in PortsOf(routes[r].source, InPorts)}

(* Where a route leads, the default loop rule included.                    *)
RouteTargets(r, p) ==
    {out \in PortsOf(routes[r].dest, OutPorts) :
        routes[r].same \/ Endpoint[out] # Endpoint[p]}

Passing(m) == {r \in RoutesFrom(m.port) : Passes(routes[r].rules, m)}
Reached(m) == UNION {RouteTargets(r, m.port) : r \in Passing(m)}

(* Mutant: does not hold ordinary messages back.                           *)
Exclusive_ShortPasses(m, out) ==
    \/ Starts(m) /\ owner[out] = NoPort
    \/ Continues(m) /\ owner[out] = m.port
    \/ m.kind = "short" \/ m.kind = "realtime"

(* Mutant: trusts the stream's targets for a continuation.                 *)
Exclusive_TrustsTargets(m, out) ==
    \/ Starts(m) /\ owner[out] = NoPort
    \/ Continues(m)
    \/ m.kind = "short" /\ owner[out] = NoPort
    \/ m.kind = "realtime"

(* deliver(): rule 3, one stream at a time per output, and nothing but     *)
(* System Real-Time inside it.                                             *)
Exclusive(m, out) ==
    \/ Starts(m) /\ owner[out] = NoPort
    \/ Continues(m) /\ owner[out] = m.port
    \/ m.kind = "short" /\ owner[out] = NoPort
    \/ m.kind = "realtime"

(* The outputs, of those given, whose sink is called with m.               *)
Offered(m, outs) ==
    {out \in outs : Passes(portRules[out], m) /\ Exclusive(m, out)}

(* A transport takes what it is offered while its link is up; some may     *)
(* refuse then, too.                                                       *)
SinkOutcomes(outs) ==
    {taken \in SUBSET outs :
        /\ \A out \in taken : available[Endpoint[out]]
        /\ \A out \in outs \ taken : out \in Refusing \/ ~available[Endpoint[out]]}

SinkCounters(outs, taken) ==
    (IF taken # {} THEN {"delivered"} ELSE {})
        \cup (IF outs # taken THEN {"sendFailed"} ELSE {})

(* Mutant: does not count what a busy output refuses.                      *)
DeliverCounters_StageOnly(m, outs) ==
    UNION {Stopped(portRules[out], m) : out \in outs}

(* Of the outputs a message is to go to, one has a stream already ...      *)
HoldsBack(m, outs) ==
    \E out \in outs : Passes(portRules[out], m) /\ m.kind = "short" /\ owner[out] # NoPort

(* ... which a start cannot share.  One that reaches an output by two      *)
(* routes finds it claimed by its own first copy.                          *)
RejectsStart(m, outs) ==
    \E out \in outs :
        /\ Passes(portRules[out], m) /\ Starts(m)
        /\ \/ owner[out] # NoPort
           \/ /\ m.kind = "start"
              /\ \E r, s \in Passing(m) :
                    /\ r # s
                    /\ out \in RouteTargets(r, m.port) \cap RouteTargets(s, m.port)

(* Counted by deliver() before a sink is called.                           *)
DeliverCounters(m, outs) ==
    (UNION {Stopped(portRules[out], m) : out \in outs})
        \cup (IF RejectsStart(m, outs) THEN {"sysExRejected"} ELSE {})
        \cup (IF HoldsBack(m, outs) THEN {"blockedBySysEx"} ELSE {})

(* Mutant: a dump of one chunk keeps the output.                           *)
Claim_WholeKeeps(m, offered) ==
    owner' = [out \in OutPorts |->
        IF out \notin offered THEN owner[out]
        ELSE CASE m.kind \in {"start", "whole"} -> m.port
               [] m.kind = "end" -> NoPort
               [] OTHER -> owner[out]]

(* The output's owner after deliver(), whether or not its sink took m.     *)
Claim(m, offered) ==
    owner' = [out \in OutPorts |->
        IF out \notin offered THEN owner[out]
        ELSE CASE m.kind = "start" -> m.port
               [] m.kind = "end" -> NoPort
               [] OTHER -> owner[out]]

(* What the device behind an output is left in the middle of: what its     *)
(* sink did not take it has not seen.                                      *)
Frame(m, offered, taken) ==
    /\ framed' = [out \in OutPorts |->
           CASE m.kind = "start" /\ out \in taken -> m.port
             [] Ends(m) /\ out \in taken -> NoPort
             [] OTHER -> framed[out]]
    /\ unended' = (unended \cup (IF m.kind = "end" THEN offered ELSE {}))
                      \ (IF Starts(m) \/ Ends(m) THEN taken ELSE {})
-----------------------------------------------------------------------------
(* update().                                                               *)

(* Mutant: does not close for an input that is back already.               *)
Closing_OnlyIfGone ==
    {out \in OutPorts : /\ owner[out] \in pendingClose \cap open
                        /\ ~available[Endpoint[owner[out]]]
                        /\ out \in targets[owner[out]]}

(* closePendingStreams(), then the tail is read.  Each output still owned  *)
(* by an input that went away mid-stream is handed an end for it.          *)
Closing ==
    {out \in OutPorts : /\ owner[out] \in pendingClose \cap open
                        /\ out \in targets[owner[out]]}

BeginUpdate ==
    /\ ~updating
    /\ \E taken \in SinkOutcomes(Closing) :
           /\ counted' = SinkCounters(Closing, taken)
           /\ framed' = [out \in OutPorts |->
                  IF out \in taken THEN NoPort ELSE framed[out]]
           /\ unended' = (unended \cup Closing) \ taken
    /\ owner' = [out \in OutPorts |-> IF out \in Closing THEN NoPort ELSE owner[out]]
    /\ open' = open \ pendingClose
    /\ targets' = [p \in InPorts |->
           IF p \in pendingClose \cap open THEN {} ELSE targets[p]]
    /\ pendingClose' = {}
    /\ updating' = TRUE /\ budget' = Len(queue)
    /\ UNCHANGED <<available, feeding, queue, configVars>>

(* Everything that was queued on entry is done, or the next entry is       *)
(* reserved and not written yet (ReceiveQueue).                            *)
EndUpdate ==
    /\ updating
    /\ updating' = FALSE /\ budget' = 0
    /\ counted' = {}
    /\ UNCHANGED <<available, feeding, queue, configVars, streamVars>>

Take(m) ==
    /\ updating /\ budget > 0 /\ queue # << >> /\ m = Head(queue)
    /\ queue' = Tail(queue) /\ budget' = budget - 1
    /\ UNCHANGED <<available, feeding, updating, configVars>>

(* dispatch(): stopped by the rules of the input port.                     *)
DropAtInput(m) ==
    /\ Take(m)
    /\ ~Passes(portRules[m.port], m)
    /\ counted' = Stopped(portRules[m.port], m)
    /\ UNCHANGED streamVars

(* A continuation of a stream that is not open: returns, counting nothing. *)
DropContinuation(m) ==
    /\ Take(m)
    /\ Passes(portRules[m.port], m) /\ Continues(m) /\ m.port \notin open
    /\ counted' = {}
    /\ UNCHANGED streamVars

(* Rule 1: a continuation goes where the start went.                       *)
Continue(m) ==
    /\ Take(m)
    /\ Passes(portRules[m.port], m) /\ Continues(m) /\ m.port \in open
    /\ LET offered == Offered(m, targets[m.port]) IN
       \E taken \in SinkOutcomes(offered) :
           /\ Claim(m, offered) /\ Frame(m, offered, taken)
           /\ counted' = SinkCounters(offered, taken)
    /\ open' = IF Ends(m) THEN open \ {m.port} ELSE open
    /\ targets' = [targets EXCEPT ![m.port] = IF Ends(m) THEN {} ELSE @]
    /\ UNCHANGED pendingClose

RouteCounters(m) ==
    UNION {Stopped(routes[r].rules, m) : r \in RoutesFrom(m.port)}

NoRoute(m) ==
    /\ Take(m)
    /\ Passes(portRules[m.port], m) /\ ~Continues(m) /\ Reached(m) = {}
    /\ counted' = RouteCounters(m) \cup {"noRoute"}
    /\ UNCHANGED streamVars

(* Through every route, to every output of each.  A dump's stream is open  *)
(* on the outputs that took its start, and is closed if none did.          *)
RouteOn(m) ==
    /\ Take(m)
    /\ Passes(portRules[m.port], m) /\ ~Continues(m) /\ Reached(m) # {}
    /\ LET offered == Offered(m, Reached(m)) IN
       \E taken \in SinkOutcomes(offered) :
           /\ Claim(m, offered) /\ Frame(m, offered, taken)
           /\ counted' = RouteCounters(m) \cup DeliverCounters(m, Reached(m))
                             \cup SinkCounters(offered, taken)
           /\ IF m.kind = "start"
              THEN /\ open' = IF taken # {} THEN open \cup {m.port}
                                            ELSE open \ {m.port}
                   /\ targets' = [targets EXCEPT ![m.port] = taken]
              ELSE UNCHANGED <<open, targets>>
    /\ UNCHANGED pendingClose

Dispatch(m) ==
    DropAtInput(m) \/ DropContinuation(m) \/ Continue(m) \/ NoRoute(m) \/ RouteOn(m)

DispatchNext == queue # << >> /\ Dispatch(Head(queue))
-----------------------------------------------------------------------------
(* Seats that come and go, between two update()s: the registry tells the   *)
(* router (onPortEvent), and the transport forgets what it was in the      *)
(* middle of, on both sides.                                               *)
InsOf(e) == {p \in InPorts : Endpoint[p] = e}
OutsOf(e) == {out \in OutPorts : Endpoint[out] = e}

Unplug(e) ==
    /\ ~updating /\ available[e]
    /\ available' = [available EXCEPT ![e] = FALSE]
    /\ feeding' = feeding \ InsOf(e)
    /\ pendingClose' = pendingClose \cup (InsOf(e) \cap open)
    /\ owner' = [out \in OutPorts |-> IF out \in OutsOf(e) THEN NoPort ELSE owner[out]]
    /\ framed' = [out \in OutPorts |-> IF out \in OutsOf(e) THEN NoPort ELSE framed[out]]
    /\ unended' = unended \ OutsOf(e)
    /\ counted' = {}
    /\ UNCHANGED <<queueVars, configVars, open, targets>>

Plug(e) ==
    /\ ~updating /\ ~available[e]
    /\ available' = [available EXCEPT ![e] = TRUE]
    /\ counted' = {}
    /\ UNCHANGED <<feeding, queueVars, configVars, streamVars>>
-----------------------------------------------------------------------------
(* The sketch's configuration calls.                                       *)
Change ==
    /\ ~updating /\ changes < MaxChanges
    /\ changes' = changes + 1
    /\ counted' = {}
    /\ UNCHANGED <<available, feeding, queueVars, streamVars>>

(* add(): the first slot that is not used.                                 *)
AddRoute(src, dst) ==
    /\ Change
    /\ \E r \in RouteIds :
           /\ ~routes[r].used
           /\ \A s \in RouteIds : s < r => routes[s].used
           /\ routes' = [routes EXCEPT ![r] = NewRoute(src, dst)]
    /\ UNCHANGED <<members, portRules>>

RemoveRoute(r) ==
    /\ Change /\ routes[r].used
    /\ routes' = [routes EXCEPT ![r].used = FALSE]
    /\ UNCHANGED <<members, portRules>>

SetRouteEnabled(r, enabled) ==
    /\ Change /\ routes[r].used
    /\ routes' = [routes EXCEPT ![r].enabled = enabled]
    /\ UNCHANGED <<members, portRules>>

SetRouteAllowSameEndpoint(r, allow) ==
    /\ Change /\ routes[r].used
    /\ routes' = [routes EXCEPT ![r].same = allow]
    /\ UNCHANGED <<members, portRules>>

SetRouteRules(r, rules) ==
    /\ Change /\ routes[r].used
    /\ routes' = [routes EXCEPT ![r].rules = rules]
    /\ UNCHANGED <<members, portRules>>

SetPortRules(p, rules) ==
    /\ Change
    /\ portRules' = [portRules EXCEPT ![p] = rules]
    /\ UNCHANGED <<routes, members>>

AddMember(g, p) ==
    /\ Change
    /\ p \in IF g \in InGroups THEN InPorts ELSE OutPorts
    /\ members' = [members EXCEPT ![g] = @ \cup {p}]
    /\ UNCHANGED <<routes, portRules>>

RemoveMember(g, p) ==
    /\ Change
    /\ members' = [members EXCEPT ![g] = @ \ {p}]
    /\ UNCHANGED <<routes, portRules>>

Configure ==
    \/ \E src \in Sources, dst \in Dests : AddRoute(src, dst)
    \/ \E r \in RouteIds :
           \/ RemoveRoute(r)
           \/ \E b \in BOOLEAN : SetRouteEnabled(r, b) \/ SetRouteAllowSameEndpoint(r, b)
           \/ \E rules \in Rules : SetRouteRules(r, rules)
    \/ \E p \in Ports, rules \in Rules : SetPortRules(p, rules)
    \/ \E g \in Groups, p \in Ports : AddMember(g, p) \/ RemoveMember(g, p)

Transport ==
    \E p \in InPorts, kind \in Kinds : Receive(p, kind) \/ ReceiveRefused(p, kind)

UpdateStep == BeginUpdate \/ DispatchNext \/ EndUpdate

Next ==
    \/ Transport
    \/ UpdateStep
    \/ \E e \in Unpluggable : Unplug(e) \/ Plug(e)
    \/ Configure

Spec == Init /\ [][Next]_vars

(* loop() runs for ever and calls update(); nothing else has to happen.    *)
FairSpec == Spec /\ WF_vars(UpdateStep)
-----------------------------------------------------------------------------
CounterNames == {"received", "queueFull", "delivered", "sendFailed",
                 "droppedByFilter", "droppedByStage", "sysExRejected",
                 "blockedBySysEx", "noRoute"}

TypeOK ==
    /\ available \in [Endpoints -> BOOLEAN]
    /\ feeding \subseteq InPorts
    /\ queue \in Seq(Messages) /\ updating \in BOOLEAN /\ budget \in 0..Len(queue)
    /\ routes \in [RouteIds ->
           [used : BOOLEAN, enabled : BOOLEAN, same : BOOLEAN,
            source : Sources \cup {NoPort}, dest : Dests \cup {NoPort},
            rules : Rules]]
    /\ members \in [Groups -> SUBSET Ports]
    /\ portRules \in [Ports -> Rules]
    /\ open \subseteq InPorts
    /\ targets \in [InPorts -> SUBSET OutPorts]
    /\ owner \in [OutPorts -> InPorts \cup {NoPort}]
    /\ pendingClose \subseteq InPorts
    /\ framed \in [OutPorts -> InPorts \cup {NoPort}]
    /\ unended \subseteq OutPorts
    /\ counted \subseteq CounterNames /\ changes \in 0..MaxChanges

(* The sinks that are called when m is dispatched.                         *)
Sinks(m) ==
    IF ~Passes(portRules[m.port], m) THEN {}
    ELSE IF ~Continues(m) THEN Offered(m, Reached(m))
    ELSE IF m.port \in open THEN Offered(m, targets[m.port])
    ELSE {}

(* What holds of the streams at any time: an output whose device is in the *)
(* middle of a dump is claimed by that dump, unless its sink refused the   *)
(* end, and an output that an open stream goes to and owns took its start. *)
FramedIsOwned ==
    \A out \in OutPorts :
        framed[out] # NoPort /\ out \notin unended => owner[out] = framed[out]

TargetsAreFramed ==
    \A p \in open : \A out \in targets[p] : owner[out] = p => framed[out] = p

(* Rule 3, what it is for: while the device at an output is in the middle  *)
(* of a dump, nothing else goes to it than System Real-Time and the rest   *)
(* of that stream - whatever is lost or unplugged on the way, and whatever *)
(* is refused but the end of the dump: deliver() frees the output all the  *)
(* same (NothingInsideADump).                                              *)
NothingInsideAStream ==
    queue # << >> =>
        LET m == Head(queue) IN
        \A out \in Sinks(m) : framed[out] # NoPort /\ out \notin unended =>
            m.kind = "realtime" \/ (Continues(m) /\ m.port = framed[out])

(* "Nothing but System Real-Time may go out between an 0xF0 and its 0xF7"  *)
(* (deliver()): no ordinary message is handed to the sink of an output     *)
(* whose device is in the middle of a dump.                                *)
NothingInsideADump ==
    queue # << >> /\ Head(queue).kind = "short" =>
        \A out \in Sinks(Head(queue)) : framed[out] = NoPort

(* An output never gets the rest of a dump whose start it did not take,    *)
(* even after it was unplugged and plugged in again in the middle.         *)
NoRestWithoutStart ==
    queue # << >> /\ Continues(Head(queue)) =>
        \A out \in Sinks(Head(queue)) : framed[out] = Head(queue).port

(* Rule 1: while every message gets through, a continuation goes to        *)
(* exactly the outputs its start went to, however the routes, groups and   *)
(* rules have changed since.                                               *)
PathIsFixed ==
    queue # << >> /\ Continues(Head(queue)) =>
        Sinks(Head(queue)) = {out \in OutPorts : framed[out] = Head(queue).port}

(* "Claiming it would leave the output blocked by a stream that is not     *)
(* being sent" (ROUTING.md): an output is claimed only by an open stream   *)
(* that is going to it.                                                    *)
ClaimedByAStream ==
    \A out \in OutPorts : owner[out] # NoPort =>
        owner[out] \in open /\ out \in targets[owner[out]]

(* Rule 2, "a disconnect closes the stream": when an input is gone, its    *)
(* messages are dispatched and update() has run, no output is left waiting *)
(* for the rest of a dump from it.                                         *)
GoneInputLeavesNothingOpen ==
    \A p \in InPorts :
        /\ ~available[Endpoint[p]] /\ p \notin pendingClose
        /\ \A i \in 1..Len(queue) : queue[i].port # p
        => \A out \in OutPorts \ unended : framed[out] # p

(* Rule 2, for a dump whose stream was open when its input went away: each *)
(* output the stream is going to is handed an end by a later update(),     *)
(* taken or refused, also when the input is back by then.                  *)
MarkedStreamIsClosed ==
    \A p \in InPorts : \A out \in OutPorts :
        (p \in pendingClose /\ out \in targets[p] /\ framed[out] = p)
            ~> framed[out] # p \/ out \in unended

(* "A message that was not delivered is always counted somewhere"          *)
(* (ROUTING.md, Diagnostic counters), of every message but the rest of a   *)
(* dump: that is dropped silently when its stream is not open.             *)
OnlyContinuationsVanish ==
    [][budget' < budget /\ updating' /\ counted' = {} => Continues(Head(queue))]_vars
=============================================================================
