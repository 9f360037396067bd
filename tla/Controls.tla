------------------------------ MODULE Controls ------------------------------
(***************************************************************************)
(* The parts of control mapping and what one stage makes of a message.     *)
(* They share nothing: a behaviour is one of a single part, "part".        *)
(***************************************************************************)
EXTENDS Stage, Button, Analog, Encoder, ClockGenerator, ClockCounter

VARIABLE part

clockVars == <<generatorVars, counterVars>>
vars == <<part, stageVars, buttonVars, analogVars, encoderVars, clockVars>>
-----------------------------------------------------------------------------
(* The parts that do not run are in one of their initial states.           *)
Init ==
    /\ part \in {"stage", "button", "analog", "encoder", "generator", "counter"}
    /\ StageInit /\ (part # "stage" => stage = CHOOSE s \in Stages : TRUE)
    /\ ButtonInit /\ (part # "button" => ~latch /\ bootMs = CHOOSE b \in BootMs : TRUE)
    /\ AnalogInit /\ (part # "analog" => /\ config = CHOOSE c \in Configs : TRUE
                                         /\ raw = CHOOSE r \in Readings : TRUE)
    /\ EncoderInit /\ (part # "encoder" => /\ mode = CHOOSE m \in Modes : TRUE
                                           /\ step = CHOOSE s \in Steps : TRUE)
    /\ GeneratorInit /\ (part # "generator" => /\ micros = CHOOSE p \in Periods : TRUE
                                               /\ boot = CHOOSE b \in BootMicros : TRUE)
    /\ CounterInit

StageStep ==
    /\ part = "stage" /\ StageNext
    /\ UNCHANGED <<part, buttonVars, analogVars, encoderVars, clockVars>>

ButtonStep ==
    /\ part = "button" /\ ButtonNext
    /\ UNCHANGED <<part, stageVars, analogVars, encoderVars, clockVars>>

AnalogStep ==
    /\ part = "analog" /\ AnalogNext
    /\ UNCHANGED <<part, stageVars, buttonVars, encoderVars, clockVars>>

EncoderStep ==
    /\ part = "encoder" /\ EncoderNext
    /\ UNCHANGED <<part, stageVars, buttonVars, analogVars, clockVars>>

GeneratorStep ==
    /\ part = "generator" /\ GeneratorNext
    /\ UNCHANGED <<part, stageVars, buttonVars, analogVars, encoderVars, counterVars>>

CounterStep ==
    /\ part = "counter" /\ CounterNext
    /\ UNCHANGED <<part, stageVars, buttonVars, analogVars, encoderVars, generatorVars>>

Next ==
    StageStep \/ ButtonStep \/ AnalogStep \/ EncoderStep \/ GeneratorStep \/ CounterStep

(* loop() goes on calling update() of the knob.                            *)
AnalogUpdates ==
    /\ part = "analog" /\ UpdateAnalog
    /\ UNCHANGED <<part, stageVars, buttonVars, encoderVars, clockVars>>

Spec == Init /\ [][Next]_vars

FairSpec == Spec /\ WF_vars(AnalogUpdates)
-----------------------------------------------------------------------------
(* Notes that are let through end when their keys are released, and LEDs   *)
(* of notes go out: Stage, Filter and Transform against Control.           *)
NothingKeepsSounding == StageTypeOK /\ NothingSoundsOn

(* A ValueMap of a stage, and the range of a knob, keep order, range and   *)
(* ends, whichever way round they are configured: Stage, Analog.           *)
ValuesKeepOrder ==
    /\ part = "stage" => MapsKeepOrder
    /\ part = "analog" => AnalogTypeOK /\ MappedKeepsOrder

(* A button that is still is believed: Button.                             *)
StillIsBelieved == ButtonTypeOK /\ StillBelieved

(* A knob that rests is heard in the end: Analog.                          *)
RestIsHeard == part = "analog" => ReadingArrives

(* The beat and the tempo are those of the sender: ClockCounter, beside    *)
(* the types of both clocks.                                               *)
ClockIsFollowed == GeneratorTypeOK /\ CounterTypeOK /\ BeatAndTempo
=============================================================================
