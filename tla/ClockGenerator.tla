--------------------------- MODULE ClockGenerator ---------------------------
(***************************************************************************)
(* ClockGenerator: at every update() it sends the ticks of MIDI Clock that *)
(* are due by a clock of microseconds, which wraps; the sketch starts,     *)
(* resumes, stops and sets it, and is late at times.                       *)
(***************************************************************************)
EXTENDS Integers

CONSTANTS
    MicrosRange,    \* 2^32
    MaxCatchUp,     \* MaxCatchUpTicks
    Periods,        \* microseconds per tick it may be set to; 0 is no tempo
    BootMicros,     \* what the clock may show at first
    MaxLate,        \* bound: microseconds between two updates
    MaxMicros,      \* bound: microseconds in all
    MaxCommands     \* bound: start(), resume(), stop() and setTempo()

(* Ticks are told early from late by the sign of a difference, so neither  *)
(* a period and the lateness of an update together, nor the time that      *)
(* passes with no tempo set, may come near half the clock's range.         *)
ASSUME GeneratorAssumption ==
    /\ MicrosRange \in Nat \ {0} /\ MaxCatchUp \in Nat
    /\ BootMicros \subseteq 0 .. MicrosRange - 1 /\ Periods \subseteq Nat /\ MaxLate \in Nat
    /\ MaxMicros \in Nat /\ MaxCommands \in Nat
    /\ \A p \in Periods : /\ p + MaxLate < MicrosRange \div 2
                          /\ 0 \in Periods => p + MaxMicros < MicrosRange \div 2

VARIABLES
    micros, nextTick, going,    \* microsPerTick_, nextTickMicros_, running_
    catching,       \* ticks sent in this update(); -1 outside it
    \* what is really the case
    boot, instant,  \* what the clock showed at instant 0, and the instant
    started,        \* when the schedule began: at a start, or one period before
                    \* the next tick when it was set or resynchronised
    ticked,         \* ticks since then
    commands

generatorVars == <<micros, nextTick, going, catching, boot, instant, started, ticked,
                   commands>>

Idle == catching = -1
Now == (boot + instant) % MicrosRange

GeneratorInit ==
    /\ micros \in Periods
    /\ nextTick = 0 /\ going = FALSE /\ catching = -1
    /\ boot \in BootMicros /\ instant = 0
    /\ started = 0 /\ ticked = 0 /\ commands = 0

Command == Idle /\ commands < MaxCommands /\ commands' = commands + 1

(* start() and resume(): "the first tick is due immediately".              *)
StartSending ==
    /\ Command
    /\ going' = TRUE /\ nextTick' = Now
    /\ started' = instant /\ ticked' = 0
    /\ UNCHANGED <<micros, catching, boot, instant>>

StopSending ==
    /\ Command /\ going' = FALSE
    /\ UNCHANGED <<micros, nextTick, catching, boot, instant, started, ticked>>

(* When the next tick is owed.                                             *)
Owed == started + ticked * micros

(* setTempo(): the tick that is next stays where it is, and the others     *)
(* follow it in the new tempo.                                             *)
SetTempo(p) ==
    /\ Command /\ micros' = p
    /\ IF ticked > 0 THEN started' = Owed - p /\ ticked' = 1
                     ELSE UNCHANGED <<started, ticked>>
    /\ UNCHANGED <<nextTick, going, catching, boot, instant>>

(* update(), the sketch's clock having moved on.                           *)
BeginUpdate ==
    /\ Idle
    /\ \E late \in 1..MaxLate : instant' = instant + late
    /\ instant' <= MaxMicros
    /\ catching' = IF going /\ micros # 0 THEN 0 ELSE -1
    /\ UNCHANGED <<micros, nextTick, going, boot, started, ticked, commands>>

Due == (Now - nextTick) % MicrosRange < MicrosRange \div 2

(* Mutant: the tick after this one counts from now.                        *)
NextTick_FromNow == Now + micros

NextTick == nextTick + micros

SendTick ==
    /\ ~Idle /\ Due /\ catching < MaxCatchUp
    /\ nextTick' = NextTick % MicrosRange
    /\ catching' = catching + 1 /\ ticked' = ticked + 1
    /\ UNCHANGED <<micros, going, boot, instant, started, commands>>

(* "Catching up completely would send a burst that means nothing           *)
(* musically, so the schedule is resynchronised instead."                  *)
Resynchronise ==
    /\ ~Idle /\ Due /\ catching >= MaxCatchUp
    /\ nextTick' = (Now + micros) % MicrosRange
    /\ catching' = -1
    /\ started' = instant /\ ticked' = 1
    /\ UNCHANGED <<micros, going, boot, instant, commands>>

EndUpdate ==
    /\ ~Idle /\ ~Due /\ catching' = -1
    /\ UNCHANGED <<micros, nextTick, going, boot, instant, started, ticked, commands>>

GeneratorNext ==
    \/ StartSending \/ StopSending \/ BeginUpdate \/ SendTick \/ Resynchronise \/ EndUpdate
    \/ \E p \in Periods : SetTempo(p)

GeneratorSpec == GeneratorInit /\ [][GeneratorNext]_generatorVars
-----------------------------------------------------------------------------
GeneratorTypeOK ==
    /\ micros \in Periods /\ going \in BOOLEAN /\ catching \in -1..MaxCatchUp
    /\ nextTick \in 0 .. MicrosRange - 1 /\ boot \in 0 .. MicrosRange - 1
    /\ instant \in 0..MaxMicros /\ started \in Int /\ ticked \in Nat
    /\ commands \in 0..MaxCommands

(* However late the updates are, whatever the tempo is changed to and      *)
(* wherever the clock wraps, an update leaves the generator with every     *)
(* tick sent that was owed by then, and none that was not; and what it     *)
(* will send next is when the schedule has it, so it does not drift.       *)
TicksKeepTime ==
    [][~Idle /\ Idle' =>
          /\ nextTick' = (boot + Owed') % MicrosRange
          /\ instant < Owed'
          /\ ticked' > 1 => Owed' - micros <= instant]_generatorVars
=============================================================================
