----------------------------- MODULE MCControls -----------------------------
(* Controls with some stages, what a keyboard plays, and some settings.    *)
EXTENDS Controls

(* Maps with a narrower range, with a narrower input than output, falling, *)
(* fixed, and with a falling input; channels set and wrapped; notes pushed *)
(* out of the range; ends of notes blocked.                                *)
Any == [kinds |-> {"noteOff", "noteOn", "polyPressure", "controlChange", "programChange",
                   "channelPressure", "pitchBend", "system"},
        channels |-> 0 .. NumChannels - 1, notes |-> 0..WireMax, controllers |-> 0..WireMax]
AnyNote == [Any EXCEPT !.kinds = Notes]
Keep == [channel |-> -1, channelOffset |-> 0, transpose |-> 0, noteOffset |-> 0,
         controller |-> -1, velocity |-> Identity, controllerValue |-> Identity, pressure |-> Identity]

SomeStages ==
    {[filter |-> Any, led |-> AnyNote,
      transform |-> [Keep EXCEPT !.velocity = Range7(0, 127, 40, 100), !.controller = 11,
                                 !.controllerValue = Range7(20, 30, 0, 127)]],
     [filter |-> [AnyNote EXCEPT !.channels = {0}], led |-> [AnyNote EXCEPT !.notes = {126}],
      transform |-> [Keep EXCEPT !.channelOffset = 15, !.transpose = 12, !.noteOffset = -13,
                                 !.velocity = Range7(127, 0, 0, 127)]],
     [filter |-> Any, led |-> Any,
      transform |-> [Keep EXCEPT !.channel = 1, !.velocity = Range7(0, 127, 127, 0),
                                 !.pressure = Range7(0, 127, 64, 64),
                                 !.controllerValue = Range7(100, 10, 3, 90)]],
     [filter |-> [Any EXCEPT !.kinds = @ \ {"noteOff"}], led |-> AnyNote, transform |-> Keep]}

Sent(status, channel, data1, data2) ==
    [status |-> status, channel |-> channel, data1 |-> data1, data2 |-> data2]
Keyboard ==
    {Sent("noteOn", c, n, v) : c \in {0, 1}, n \in {0, 127}, v \in {0, 1, 127}}
    \cup {Sent("noteOff", c, n, v) : c \in {0, 1}, n \in {0, 127}, v \in {0, 64}}
    \cup {Sent("controlChange", 0, 7, 25), Sent("polyPressure", 0, 0, 1),
          Sent("channelPressure", 0, 9, 0), Sent("programChange", 0, 9, 0),
          Sent("system", 0, 0, 0)}

SomeConfigs ==
    {[rawMin |-> lo, rawMax |-> 20 - lo, outLow |-> 131, outHigh |-> out,
      hysteresis |-> h, smoothing |-> s] :
        lo \in {0, 18, 10}, out \in {0, 127}, h \in {0, 1, 3}, s \in 0..2}
SomeReadings == {0, 3, 9, 20}

AllModes == {"absolute", "twosComplement", "signedBit", "binaryOffset"}
SomeTurns == {-130, -63, 1, 64}
SomeSteps == {1, -2}
=============================================================================
