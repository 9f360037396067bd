---------------------------- MODULE ClockCounter ----------------------------
(***************************************************************************)
(* ClockCounter: from the ticks and the transport messages of a sender it  *)
(* works out where the beat is and how fast it goes.  The sender (external)*)
(* ticks once a period, up to "Jitter" late, and may leave ticks out; the  *)
(* clock of microseconds wraps.                                            *)
(***************************************************************************)
EXTENDS Integers

CONSTANTS
    CountRange,     \* 2^32
    Quarter,        \* MidiClockTicksPerQuarter, which is AverageTicks
    Period,         \* microseconds per tick of the sender
    Jitter,         \* how much later than that a tick may be: a period at most
    MaxPeriods,     \* bound: periods, that end before CountRange
    MaxTransport    \* bound: Start, Continue and Stop, and calls of reset()

ASSUME CounterAssumption ==
    /\ CountRange \in Nat \ {0} /\ Quarter \in Nat \ {0}
    /\ Period \in Nat \ {0} /\ Jitter \in 0..Period
    /\ Quarter * Period + Jitter < CountRange
    /\ MaxPeriods \in Nat /\ MaxTransport \in Nat

VARIABLES
    running, tick, quarters, counted, windowStart, microsPerTick,
    \* the sender
    arrival,        \* what the clock shows: it wraps in the first period
    periods,        \* periods so far
    ticking,        \* whether there was a tick in this one
    steady,         \* periods with a tick, and no transport message since
    ticks,          \* ticks since Start
    transports

counterVars == <<running, tick, quarters, counted, windowStart, microsPerTick, arrival,
                 periods, ticking, steady, ticks, transports>>
senderVars == <<arrival, periods, ticking>>

Wrapped(t) == t % CountRange

CounterInit ==
    /\ running = FALSE /\ tick = 0 /\ quarters = 0 /\ counted = 0
    /\ windowStart = 0 /\ microsPerTick = 0
    /\ arrival = CountRange - Period /\ periods = 0 /\ ticking = FALSE
    /\ steady = 0 /\ ticks = 0 /\ transports = 0

(* The next period, of which the tick comes soon or late.                  *)
NextPeriod ==
    /\ periods < MaxPeriods /\ periods' = periods + 1
    /\ \E late \in 0..Jitter : arrival' = Wrapped(periods' * Period - Period + late)
    /\ ticking' = FALSE
    /\ steady' = IF ticking THEN steady ELSE 0
    /\ UNCHANGED <<running, tick, quarters, counted, windowStart, microsPerTick, ticks,
                   transports>>

(* "Some senders never send Start, so the first tick starts the count."    *)
WindowStart == IF running THEN windowStart ELSE arrival

(* Mutant: the next window begins where this one did.                      *)
WindowAfter_Same == WindowStart

WindowAfter == arrival

(* 0xF8: the beat, and the average over a window of ticks.                 *)
Tick ==
    /\ ~ticking /\ ticking' = TRUE
    /\ running' = TRUE
    /\ tick' = (tick + 1) % Quarter
    /\ quarters' = IF tick + 1 >= Quarter THEN quarters + 1 ELSE quarters
    /\ IF counted + 1 >= Quarter
       THEN /\ microsPerTick' = Wrapped(arrival - WindowStart) \div (counted + 1)
            /\ counted' = 0 /\ windowStart' = WindowAfter
       ELSE /\ counted' = counted + 1 /\ windowStart' = WindowStart
            /\ UNCHANGED microsPerTick
    /\ steady' = steady + 1 /\ ticks' = ticks + 1
    /\ UNCHANGED <<arrival, periods, transports>>

Transport ==
    /\ transports < MaxTransport /\ transports' = transports + 1
    /\ steady' = 0
    /\ UNCHANGED senderVars

(* 0xFA.                                                                   *)
Start ==
    /\ Transport
    /\ running' = TRUE /\ tick' = 0 /\ quarters' = 0 /\ counted' = 0
    /\ windowStart' = arrival /\ ticks' = 0
    /\ UNCHANGED microsPerTick

(* 0xFB.                                                                   *)
Continue ==
    /\ Transport
    /\ running' = TRUE /\ counted' = 0 /\ windowStart' = arrival
    /\ UNCHANGED <<tick, quarters, microsPerTick, ticks>>

(* 0xFC: what was counted of the window stays.                             *)
Stop ==
    /\ Transport
    /\ running' = FALSE
    /\ UNCHANGED <<tick, quarters, counted, windowStart, microsPerTick, ticks>>

Reset ==
    /\ Transport
    /\ running' = FALSE /\ tick' = 0 /\ quarters' = 0 /\ microsPerTick' = 0
    /\ counted' = 0 /\ ticks' = 0
    /\ UNCHANGED windowStart

CounterNext == NextPeriod \/ Tick \/ Start \/ Continue \/ Stop \/ Reset

CounterSpec == CounterInit /\ [][CounterNext]_counterVars
-----------------------------------------------------------------------------
CounterTypeOK ==
    /\ {running, ticking} \subseteq BOOLEAN
    /\ tick \in 0 .. Quarter - 1 /\ counted \in 0 .. Quarter - 1
    /\ {quarters, steady, ticks, microsPerTick} \subseteq Nat
    /\ windowStart \in 0 .. CountRange - 1 /\ arrival \in 0 .. CountRange - 1
    /\ periods \in 0..MaxPeriods /\ transports \in 0..MaxTransport

(* The beat is where the ticks since the last Start put it; and of a       *)
(* sender that has been steady for two quarters the tempo is right, to     *)
(* within the jitter over one, whatever window Start, Stop or Continue     *)
(* left half full, and wherever the clock wraps.                           *)
BeatAndTempo ==
    /\ quarters * Quarter + tick = ticks
    /\ steady >= 2 * Quarter =>
           microsPerTick \in (Quarter * Period - Jitter) \div Quarter
                                 .. (Quarter * Period + Jitter) \div Quarter
=============================================================================
