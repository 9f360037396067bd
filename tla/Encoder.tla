------------------------------ MODULE Encoder ------------------------------
(***************************************************************************)
(* Encoder: a position, looked at now and then, of which the way it has    *)
(* moved is sent, in one message or in several, in one of the conventions  *)
(* in use; and a receiver of the same convention that adds it up.          *)
(***************************************************************************)
EXTENDS Integers

CONSTANTS
    Modes,          \* values of EncoderMode
    Steps,          \* values of step
    Turns,          \* how far it is turned at a time
    MaxTurns        \* bound: times it is turned

ASSUME EncoderAssumption ==
    /\ Modes \subseteq {"absolute", "twosComplement", "signedBit", "binaryOffset"}
    /\ Steps \subseteq Int /\ Turns \subseteq Int /\ MaxTurns \in Nat

VARIABLES
    mode, step,     \* config_
    looked,         \* seen_
    position, travel,   \* position_ and value_
    left,           \* what turn() has still to send
    turned,         \* where the encoder is
    first,          \* where it was at the first look
    received,       \* what the receiver has added up, or was told
    turns

encoderVars == <<mode, step, looked, position, travel, left, turned, first, received,
                 turns>>

EncoderInit ==
    /\ mode \in Modes /\ step \in Steps
    /\ looked = FALSE /\ position = 0 /\ travel = 64 /\ left = 0
    /\ turned = 0 /\ first = 0 /\ received = 64 /\ turns = 0

(* Mutant: as much as seven bits might seem to hold.                       *)
MostPerMessage_Is64 == 64

MostPerMessage == 63

(* What of a change goes into one message.                                 *)
Take(change) ==
    IF change > MostPerMessage THEN MostPerMessage
    ELSE IF change < -MostPerMessage THEN -MostPerMessage ELSE change

(* relative().                                                             *)
Relative(delta) ==
    CASE mode = "twosComplement" -> IF delta >= 0 THEN delta ELSE 128 + delta
      [] mode = "signedBit" -> IF delta >= 0 THEN 64 + delta ELSE -delta
      [] mode = "binaryOffset" ->
             IF 64 + delta < 0 THEN 0 ELSE IF 64 + delta > 127 THEN 127 ELSE 64 + delta

(* The conventions, as their comments state them: "1..63 for +1..+63,      *)
(* 127..65 for -1..-63", "65..127 for +1..+63, 1..63 for -1..-63", "64     *)
(* plus the delta".                                                        *)
Meaning(byte) ==
    CASE mode = "twosComplement" -> IF byte < 64 THEN byte ELSE byte - 128
      [] mode = "signedBit" -> IF byte < 64 THEN -byte ELSE byte - 64
      [] mode = "binaryOffset" -> byte - 64

FirstLook ==
    /\ ~looked /\ looked' = TRUE
    /\ position' = turned /\ first' = turned
    /\ UNCHANGED <<mode, step, travel, left, turned, received, turns>>

Change == (turned - position) * step

Moved == looked /\ left = 0 /\ turned # position

(* An absolute encoder sends where it is, if it is not there already.      *)
SendAbsolute ==
    /\ Moved /\ mode = "absolute"
    /\ position' = turned
    /\ travel' = (IF travel + Change < 0 THEN 0
                  ELSE IF travel + Change > 127 THEN 127 ELSE travel + Change)
    /\ received' = IF travel' = travel THEN received ELSE travel'
    /\ UNCHANGED <<mode, step, looked, left, turned, first, turns>>

(* The others send the way: "clamping instead would lose part of a fast    *)
(* turn".  The shaft may turn on while turn() sends message after message. *)
BeginTurn ==
    /\ Moved /\ mode # "absolute"
    /\ position' = turned /\ left' = Change
    /\ UNCHANGED <<mode, step, looked, travel, turned, first, received, turns>>

SendRelative ==
    /\ left # 0
    /\ left' = left - Take(left)
    /\ received' = received + Meaning(Relative(Take(left)))
    /\ UNCHANGED <<mode, step, looked, position, travel, turned, first, turns>>

Turn ==
    /\ turns < MaxTurns /\ turns' = turns + 1
    /\ \E n \in Turns : turned' = turned + n
    /\ UNCHANGED <<mode, step, looked, position, travel, left, first, received>>

EncoderNext == FirstLook \/ SendAbsolute \/ BeginTurn \/ SendRelative \/ Turn

EncoderSpec == EncoderInit /\ [][EncoderNext]_encoderVars
-----------------------------------------------------------------------------
EncoderTypeOK ==
    /\ mode \in Modes /\ step \in Steps /\ looked \in BOOLEAN
    /\ {position, left, turned, first, received} \subseteq Int
    /\ travel \in 0..127 /\ turns \in 0..MaxTurns

(* "A missed call loses nothing": however fast it is turned and however    *)
(* seldom it is looked at, a receiver has added up the whole way but what  *)
(* is still to be sent, in each convention; and one that was told a value  *)
(* has the one kept here.                                                  *)
NoTurnIsLost ==
    /\ EncoderTypeOK
    /\ received = IF mode = "absolute" THEN travel
                  ELSE 64 + (position - first) * step - left
=============================================================================
