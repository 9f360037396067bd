------------------------------- MODULE Button -------------------------------
(***************************************************************************)
(* Button: a contact that bounces, read by the sketch whenever it comes to *)
(* it, and believed if the last change was long enough ago by a clock of   *)
(* milliseconds that wraps.                                                *)
(***************************************************************************)
EXTENDS Integers

CONSTANTS
    ClockRange,     \* 2^32
    DebounceMs,     \* debounceMs
    BootMs,         \* what the clock may show at first
    MaxGap,         \* bound: milliseconds between two updates
    MaxTime         \* bound: milliseconds in all

ASSUME ButtonAssumption ==
    /\ ClockRange \in Nat \ {0} /\ DebounceMs \in Nat
    /\ BootMs \subseteq 0 .. ClockRange - 1 /\ MaxGap \in Nat /\ MaxTime \in Nat
    /\ DebounceMs + MaxGap <= ClockRange

VARIABLES
    latch,          \* config_.latch
    seen, pressed, on, changedMs,
    \* what is really the case
    bootMs,         \* what the clock showed at time 0
    time,           \* of the last update, counted on where the clock wraps
    reading, since, \* the last reading, and the first update that found it so
    sent, sentAt    \* what was sent last (nothing is "off"), and when

buttonVars == <<latch, seen, pressed, on, changedMs, bootMs, time, reading, since,
                sent, sentAt>>

ButtonInit ==
    /\ latch \in BOOLEAN
    /\ seen = FALSE /\ pressed = FALSE /\ on = FALSE /\ changedMs = 0
    /\ bootMs \in BootMs
    /\ time = 0 /\ reading = FALSE /\ since = 0
    /\ sent = FALSE /\ sentAt = 0

NowMs(t) == (bootMs + t) % ClockRange

(* Mutant: compares the times instead of taking their difference.          *)
Settled_ByTime(t) == NowMs(t) >= changedMs + DebounceMs

Settled(t) == (NowMs(t) - changedMs) % ClockRange >= DebounceMs

Reject(t) == UNCHANGED <<seen, pressed, on, changedMs, sent, sentAt>>

(* "The first reading establishes the resting state without sending        *)
(* anything."                                                              *)
FirstContact(r, t) ==
    /\ ~seen /\ seen' = TRUE
    /\ pressed' = r /\ changedMs' = NowMs(t)
    /\ UNCHANGED <<on, sent, sentAt>>

NoChange(r, t) ==
    seen /\ r = pressed /\ UNCHANGED <<seen, pressed, on, changedMs, sent, sentAt>>

Bounce(r, t) == seen /\ r # pressed /\ ~Settled(t) /\ Reject(t)

(* A change that is believed; a latching button acts on the press only.    *)
Believe(r, t) ==
    /\ seen /\ r # pressed /\ Settled(t)
    /\ pressed' = r /\ changedMs' = NowMs(t)
    /\ IF latch /\ ~r THEN UNCHANGED <<on, sent, sentAt>>
       ELSE /\ on' = IF latch THEN ~on ELSE r
            /\ sent' = on' /\ sentAt' = t
    /\ UNCHANGED seen

(* update() with what the contact is found to be.                          *)
UpdateButton(r, t) ==
    /\ time' = t /\ reading' = r
    /\ since' = IF seen /\ r = reading THEN since ELSE t
    /\ FirstContact(r, t) \/ NoChange(r, t) \/ Bounce(r, t) \/ Believe(r, t)
    /\ UNCHANGED <<latch, bootMs>>

ButtonNext ==
    \E r \in BOOLEAN, gap \in 1..MaxGap :
        time + gap <= MaxTime /\ UpdateButton(r, time + gap)

ButtonSpec == ButtonInit /\ [][ButtonNext]_buttonVars
-----------------------------------------------------------------------------
ButtonTypeOK ==
    /\ {latch, seen, pressed, on, reading, sent} \subseteq BOOLEAN
    /\ changedMs \in 0 .. ClockRange - 1 /\ bootMs \in 0 .. ClockRange - 1
    /\ time \in 0..MaxTime /\ since \in 0..time /\ sentAt \in 0..time

(* A contact that has been found the same for debounceMs is believed, and  *)
(* what was sent last is what is believed of it: no bounce, however the    *)
(* updates fall into it and wherever the clock wraps, leaves a note on, or *)
(* a press unheard for longer than that.                                   *)
StillBelieved ==
    seen /\ time - since >= DebounceMs =>
        /\ pressed = reading
        /\ ~latch => (sent = pressed \/ sentAt = 0)
        /\ sent = on
=============================================================================
