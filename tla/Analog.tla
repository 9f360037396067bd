------------------------------- MODULE Analog -------------------------------
(***************************************************************************)
(* Analog: a reading that wanders, smoothed, believed once it has moved    *)
(* far enough, and mapped to a controller's 7 bits, of which a change is   *)
(* sent.                                                                   *)
(***************************************************************************)
EXTENDS Integers

CONSTANTS
    RawRange,       \* 2^16: filtered_ wraps
    Readings,       \* raw readings
    Configs,        \* [rawMin, rawMax, outLow, outHigh, hysteresis, smoothing]
    MaxMoves        \* bound: times the knob is moved

(* The last conjunct is arithmetic, of which provers know no powers.       *)
ASSUME AnalogAssumption ==
    /\ RawRange \in Nat \ {0} /\ MaxMoves \in Nat
    /\ Readings \subseteq 0 .. RawRange - 1
    /\ Configs \subseteq [rawMin : Nat, rawMax : Nat, outLow : Nat, outHigh : Nat,
                          hysteresis : Nat, smoothing : Nat]
    /\ \A c \in Configs : 2 ^ c.smoothing \in Nat \ {0}

VARIABLES
    config,
    raw,            \* where the knob is
    known,          \* seen_
    filtered, accepted, value,
    moves

analogVars == <<config, raw, known, filtered, accepted, value, moves>>

AnalogInit ==
    /\ config \in Configs /\ raw \in Readings
    /\ known = FALSE /\ filtered = 0 /\ accepted = 0 /\ value = 0
    /\ moves = 0

Distance(x, y) == IF x > y THEN x - y ELSE y - x

Low == IF config.rawMax >= config.rawMin THEN config.rawMin ELSE config.rawMax
High == IF config.rawMax >= config.rawMin THEN config.rawMax ELSE config.rawMin

(* "Measured from the end the configuration calls the bottom."             *)
Position(r) ==
    LET clamped == IF r < Low THEN Low ELSE IF r > High THEN High ELSE r IN
    IF config.rawMax >= config.rawMin THEN clamped - Low ELSE High - clamped

(* The values of the two ends, of which map() takes 7 bits.                *)
OutLow == config.outLow % 128
OutHigh == config.outHigh % 128

(* map().                                                                  *)
Mapped(r) ==
    LET part(n) == (Position(r) * n + (High - Low) \div 2) \div (High - Low) IN
    IF High = Low THEN OutLow
    ELSE IF OutHigh >= OutLow
    THEN OutLow + part(OutHigh - OutLow)
    ELSE OutLow - part(OutLow - OutHigh)

(* Mutant: the last count is not stepped over.                             *)
SteppedOver_Never(f) == f

(* "A shift alone never quite arrives, so the last count is stepped over": *)
(* on the way down also when the shift has arrived, which from 0 wraps.    *)
SteppedOver(f) ==
    LET up == raw > filtered IN
    IF raw # filtered /\ f = accepted /\ up = (raw > f)
    THEN (IF up THEN f + 1 ELSE f - 1) % RawRange ELSE f

(* The shift of a negative difference rounds down, as \div does.           *)
Smoothed ==
    IF config.smoothing = 0 THEN raw
    ELSE SteppedOver(filtered + ((raw - filtered) \div (2 ^ config.smoothing)))

FirstReading ==
    /\ ~known /\ known' = TRUE
    /\ filtered' = raw /\ accepted' = raw /\ value' = Mapped(raw)
    /\ UNCHANGED <<config, raw, moves>>

TooLittle ==
    /\ known /\ Distance(Smoothed, accepted) < config.hysteresis
    /\ filtered' = Smoothed
    /\ UNCHANGED <<config, raw, known, accepted, value, moves>>

Accept ==
    /\ known /\ Distance(Smoothed, accepted) >= config.hysteresis
    /\ filtered' = Smoothed /\ accepted' = Smoothed /\ value' = Mapped(Smoothed)
    /\ UNCHANGED <<config, raw, known, moves>>

UpdateAnalog == FirstReading \/ TooLittle \/ Accept

MoveKnob ==
    /\ moves < MaxMoves /\ moves' = moves + 1
    /\ raw' \in Readings
    /\ UNCHANGED <<config, known, filtered, accepted, value>>

AnalogNext == UpdateAnalog \/ MoveKnob

AnalogSpec == AnalogInit /\ [][AnalogNext]_analogVars
-----------------------------------------------------------------------------
AnalogTypeOK ==
    /\ config \in Configs /\ raw \in Readings /\ known \in BOOLEAN
    /\ {filtered, accepted} \subseteq 0 .. RawRange - 1 /\ value \in Nat
    /\ moves \in 0..MaxMoves

(* How far what is believed may stay behind a knob that rests: less than   *)
(* the hysteresis and the count a shift leaves over, on the way up.        *)
Slack == config.hysteresis + 2 ^ config.smoothing - 1

(* A knob that comes to rest is heard in the end, in spite of what the     *)
(* smoothing never quite reaches and the hysteresis does not believe; and  *)
(* the value is that of a reading in between, exactly the knob's own if    *)
(* neither a shift nor a hysteresis above 1 is in the way.                 *)
ReadingArrives ==
    <>[](/\ known
         /\ IF config.hysteresis <= 1 THEN accepted = raw
                                      ELSE Distance(raw, accepted) < Slack
         /\ value = Mapped(accepted))

(* Turned further the one way, a control never goes the other, and its     *)
(* ends are those the configuration calls the bottom and the top.          *)
MappedKeepsOrder ==
    /\ High > Low => Mapped(config.rawMin) = OutLow
                        /\ Mapped(config.rawMax) = OutHigh
    /\ \A r, s \in Readings :
           LET rising == (config.rawMin <= config.rawMax) = (OutLow <= OutHigh) IN
           r <= s => IF rising THEN Mapped(r) <= Mapped(s) ELSE Mapped(r) >= Mapped(s)

(* Violated: "raw units the reading must move before it is believed"       *)
(* (AnalogConfig): while the knob, and what has been made of its readings, *)
(* are closer than that to what is believed, nothing else is believed.     *)
WanderIsIgnored ==
    [][known /\ Distance(raw, accepted) < config.hysteresis
             /\ Distance(filtered, accepted) < config.hysteresis
           => accepted' = accepted]_analogVars
=============================================================================
