------------------------------- MODULE Stage -------------------------------
(***************************************************************************)
(* What one stage of a path makes of messages: a Filter, a Transform with  *)
(* its ValueMaps, and at the end a ControlOutput, an LED that shows the    *)
(* level a message asks for.                                               *)
(*                                                                         *)
(* A keyboard plays through the stage into a sound module.  Only messages  *)
(* of channels are told apart; system messages and chunks pass unchanged.  *)
(***************************************************************************)
EXTENDS Naturals, Integers, Sequences

CONSTANTS
    WireMax,        \* the largest data byte, 127
    NormMax,        \* the largest normalised value, 65535
    NumChannels,    \* 16
    Stages,         \* stages: records [filter, transform, led]
    Played          \* messages the keyboard sends

VARIABLES
    stage,
    held,       \* keys, with their channel, that are down
    sounding,   \* what the sound module plays
    level       \* level_ of the ControlOutput

stageVars == <<stage, held, sounding, level>>

Least(a, b) == IF a < b THEN a ELSE b
Most(a, b) == IF a < b THEN b ELSE a
Clamped(v, low, high) == Most(low, Least(v, high))
-----------------------------------------------------------------------------
(* A message is [status, channel, data1, data2], its status a kind or      *)
(* "system".                                                               *)

NoteOffIfSilent(m) == m.status = "noteOn" /\ m.data2 = 0

(* messageKind().                                                          *)
Kind(m) == IF NoteOffIfSilent(m) THEN "noteOff" ELSE m.status

Notes == {"noteOff", "noteOn"}
ChannelVoice ==
    Notes \cup {"polyPressure", "controlChange", "programChange", "channelPressure", "pitchBend"}

StageMessages ==
    [status : ChannelVoice \cup {"system"}, channel : 0 .. NumChannels - 1,
     data1 : 0..WireMax, data2 : 0..WireMax]

ValueMaps ==
    [enabled : {TRUE}, inMin : 0..NormMax, inMax : 0..NormMax,
     outMin : 0..NormMax, outMax : 0..NormMax]

IsTransform(t) ==
    /\ {t.channelOffset, t.transpose, t.noteOffset} \subseteq Int
    /\ t.channel \in -1 .. NumChannels - 1 /\ t.controller \in -1..WireMax
    /\ \A map \in {t.velocity, t.controllerValue, t.pressure} :
           map.enabled \in BOOLEAN /\ (map.enabled => map \in ValueMaps)

(* The normalised values are at least one bit wider than the wire's.       *)
ASSUME StageAssumption ==
    /\ WireMax \in Nat \ {0} /\ NormMax \in Nat /\ 2 * WireMax <= NormMax
    /\ NumChannels \in Nat \ {0}
    /\ \A s \in Stages : IsTransform(s.transform)
    /\ Played \subseteq StageMessages
-----------------------------------------------------------------------------
(* Values, 16 bits wide whatever the wire has.                             *)
Normalize(v) == (v * NormMax) \div WireMax
Denormalize(n) == (n * WireMax + NormMax \div 2) \div NormMax

Identity == [enabled |-> FALSE]
Range7(inLow, inHigh, outLow, outHigh) ==
    [enabled |-> TRUE, inMin |-> Normalize(inLow), inMax |-> Normalize(inHigh),
     outMin |-> Normalize(outLow), outMax |-> Normalize(outHigh)]

(* A position in a range of n, scaled to one of outN and rounded; both the *)
(* maps and the analog input do it this way.                               *)
Scaled(position, n, outN) == (position * outN + n \div 2) \div n

(* Mutant: clamps at the lower end only.                                   *)
MapValue_Unclamped(map, v) ==
    IF map.inMax = map.inMin THEN map.outMin
    ELSE LET low == Least(map.inMin, map.inMax)
             high == Most(map.inMin, map.inMax)
             part(n) == Scaled(Most(v, low) - low, high - low, n) IN
         IF map.outMax >= map.outMin THEN map.outMin + part(map.outMax - map.outMin)
                                     ELSE map.outMin - part(map.outMin - map.outMax)

(* ValueMap::apply(): an inverted input range is measured from its lower   *)
(* end all the same.                                                       *)
MapValue(map, v) ==
    IF map.inMax = map.inMin THEN map.outMin
    ELSE LET low == Least(map.inMin, map.inMax)
             high == Most(map.inMin, map.inMax)
             part(n) == Scaled(Clamped(v, low, high) - low, high - low, n) IN
         IF map.outMax >= map.outMin THEN map.outMin + part(map.outMax - map.outMin)
                                     ELSE map.outMin - part(map.outMin - map.outMax)

Apply7(map, v) ==
    IF map.enabled THEN Denormalize(MapValue(map, Normalize(v))) ELSE v
-----------------------------------------------------------------------------
(* Filter::accepts().                                                      *)
Accepts(f, m) ==
    /\ Kind(m) \in f.kinds
    /\ m.status \in ChannelVoice => m.channel \in f.channels
    /\ Kind(m) \in Notes \cup {"polyPressure"} => m.data1 \in f.notes
    /\ Kind(m) = "controlChange" => m.data1 \in f.controllers

(* Transform::apply().                                                     *)
ChannelAfter(t, c) ==
    ((IF t.channel >= 0 THEN t.channel ELSE c) + t.channelOffset) % NumChannels

NoteAfter(t, note) == note + t.transpose + t.noteOffset

(* A note outside the range is "dropped rather than wrapped".              *)
Representable(t, m) ==
    Kind(m) \in Notes \cup {"polyPressure"} => NoteAfter(t, m.data1) \in 0..WireMax

(* Mutant: velocity 0 is mapped like any other.                            *)
VelocityAfter_MapsZero(t, v) == Apply7(t.velocity, v)

(* "Scaling it would turn a release into a very quiet note."               *)
VelocityAfter(t, v) == IF v = 0 THEN 0 ELSE Apply7(t.velocity, v)

Data1After(t, m) ==
    CASE Kind(m) \in Notes \cup {"polyPressure"} -> NoteAfter(t, m.data1)
      [] Kind(m) = "controlChange" /\ t.controller >= 0 -> t.controller
      [] Kind(m) = "channelPressure" -> Apply7(t.pressure, m.data1)
      [] OTHER -> m.data1

Data2After(t, m) ==
    CASE Kind(m) \in Notes -> VelocityAfter(t, m.data2)
      [] Kind(m) = "controlChange" -> Apply7(t.controllerValue, m.data2)
      [] Kind(m) = "polyPressure" -> Apply7(t.pressure, m.data2)
      [] OTHER -> m.data2

Transformed(t, m) ==
    IF m.status = "system" THEN m
    ELSE [m EXCEPT !.channel = ChannelAfter(t, @),
                   !.data1 = Data1After(t, m), !.data2 = Data2After(t, m)]

(* What comes out of the stage: one message, or none.                      *)
Passed(s, m) ==
    IF Accepts(s.filter, m) /\ Representable(s.transform, m)
    THEN {Transformed(s.transform, m)} ELSE {}
-----------------------------------------------------------------------------
(* messageLevel().                                                         *)
MessageLevel(m) ==
    IF Kind(m) \in {"noteOn", "controlChange", "polyPressure"} THEN m.data2
    ELSE IF Kind(m) = "channelPressure" THEN m.data1
    ELSE 0

StageInit ==
    /\ stage \in Stages
    /\ held = {} /\ sounding = {} /\ level = 0

KeysAfter(keys, m) ==
    CASE Kind(m) = "noteOn" -> keys \cup {<<m.channel, m.data1>>}
      [] Kind(m) = "noteOff" -> keys \ {<<m.channel, m.data1>>}
      [] OTHER -> keys

(* The keyboard sends a message; what passes the stage goes to the sound   *)
(* module and is offered to the LED (ControlOutput::handle()).             *)
Play(m) ==
    /\ held' = KeysAfter(held, m)
    /\ \/ Passed(stage, m) = {} /\ UNCHANGED <<sounding, level>>
       \/ \E x \in Passed(stage, m) :
              /\ sounding' = KeysAfter(sounding, x)
              /\ level' = IF Accepts(stage.led, x) THEN MessageLevel(x) ELSE level
    /\ UNCHANGED stage

StageNext == \E m \in Played : Play(m)

StageSpec == StageInit /\ [][StageNext]_stageVars
-----------------------------------------------------------------------------
StageTypeOK ==
    /\ stage \in Stages
    /\ held \subseteq (0 .. NumChannels - 1) \X (0..WireMax)
    /\ sounding \subseteq (0 .. NumChannels - 1) \X (0..WireMax)
    /\ level \in 0..WireMax

(* Where a key comes out of the stage.                                     *)
Image(key) == <<ChannelAfter(stage.transform, key[1]), NoteAfter(stage.transform, key[2])>>

(* A stage that lets through the ends of the notes it lets through leaves  *)
(* nothing sounding, and no LED of notes lit, of which no key is down:     *)
(* whether a release is a note off or a note on of velocity 0, and         *)
(* whatever is done to channels, notes and velocities on the way.          *)
NothingSoundsOn ==
    "noteOff" \in stage.filter.kinds =>
        /\ sounding \subseteq {Image(key) : key \in held}
        /\ stage.led.kinds = Notes /\ held = {} => level = 0

(* A map keeps to its range and its order, of which one end may be the     *)
(* greater, takes what is beyond its input range for the end of it, and    *)
(* its ends to its ends; the widest one changes nothing, however the       *)
(* values are rounded on the way to 16 bits and back.                      *)
MapKeepsOrder(map) ==
    map.enabled =>
        \A v \in 0..WireMax :
            LET out == Apply7(map, v)
                rising == map.outMin <= map.outMax
                inLow == Least(map.inMin, map.inMax)
                inHigh == Most(map.inMin, map.inMax) IN
            /\ out \in Denormalize(Least(map.outMin, map.outMax))
                           .. Denormalize(Most(map.outMin, map.outMax))
            /\ v < WireMax => IF rising THEN out <= Apply7(map, v + 1)
                                        ELSE out >= Apply7(map, v + 1)
            /\ inLow # inHigh /\ Normalize(v) <= inLow => out = Denormalize(map.outMin)
            /\ inLow # inHigh /\ Normalize(v) >= inHigh => out = Denormalize(map.outMax)

MapsKeepOrder ==
    held = {} =>
        /\ MapKeepsOrder(stage.transform.velocity)
        /\ MapKeepsOrder(stage.transform.controllerValue)
        /\ \A v \in 0..WireMax : Apply7(Range7(0, WireMax, 0, WireMax), v) = v
=============================================================================
