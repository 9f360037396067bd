----------------------------- MODULE MidiBytes -----------------------------
(* The classification of MIDI 1.0 bytes (EspMidiMessage.h): every port and *)
(* the parser share it.                                                    *)
EXTENDS Naturals, SequencesExt

Bytes == 0..255

IsStatusByte(b) == b >= 128
IsDataByte(b) == b < 128
IsSystemRealTime(b) == b >= 248
IsChannelVoice(b) == 128 <= b /\ b < 240
SysExStart == 240
SysExEnd == 247

(* messageDataLength() is negative: no fixed-length message starts with b. *)
IsUndefined(b) == b \in {244, 245}
HasFixedLength(b) == IsStatusByte(b) /\ ~IsUndefined(b) /\ b \notin {SysExStart, SysExEnd}

(* messageDataLength() of a status byte that has one.                      *)
DataLength(b) ==
    IF b < 192 \/ (224 <= b /\ b < 240) \/ b = 242 THEN 2
    ELSE IF b < 224 \/ b \in {241, 243} THEN 1
    ELSE 0

(* A message with its data bytes, and a chunk of a dump with its payload.  *)
ShortMessage(status, data) ==
    [chunk |-> FALSE, status |-> status, data |-> data, start |-> FALSE, end |-> FALSE]
ChunkMessage(data, start, end) ==
    [chunk |-> TRUE, status |-> SysExStart, data |-> data, start |-> start, end |-> end]

(* A Message, its bytes and its flags.                                     *)
MidiMessages ==
    [chunk : BOOLEAN, status : Bytes, data : Seq(Bytes), start : BOOLEAN, end : BOOLEAN]

(* A short message with the data bytes its status calls for, or a chunk of *)
(* 7-bit data.                                                             *)
IsComplete(m) ==
    /\ \A i \in 1..Len(m.data) : IsDataByte(m.data[i])
    /\ ~m.chunk => /\ m = ShortMessage(m.status, m.data)
                   /\ HasFixedLength(m.status) /\ Len(m.data) = DataLength(m.status)

(* What a stage further on may be handed while a dump is open, or is not.  *)
Fits(open, m) ==
    IF m.chunk THEN m.start # open
    ELSE open => IsSystemRealTime(m.status)
OpenAfter(open, m) == IF m.chunk THEN ~m.end ELSE open

(* The bytes of a message, with marks that are no bytes for the two ends   *)
(* of a dump: the same through any split of the dump into chunks.          *)
StartMark == 256
EndMark == 257
Events(m) ==
    IF ~m.chunk THEN <<m.status>> \o m.data
    ELSE (IF m.start THEN <<StartMark>> ELSE << >>) \o m.data
             \o (IF m.end THEN <<EndMark>> ELSE << >>)

(* System Real-Time may overtake what it comes in between, a dump even, so *)
(* it is told apart from the rest.                                         *)
IsRealTime(m) == ~m.chunk /\ IsSystemRealTime(m.status)
RealTimeOf(ms) ==
    FlattenSeq([i \in 1..Len(ms) |-> IF IsRealTime(ms[i]) THEN <<ms[i]>> ELSE << >>])
EventsOf(ms) ==
    FlattenSeq([i \in 1..Len(ms) |-> IF IsRealTime(ms[i]) THEN << >> ELSE Events(ms[i])])

(* What has come through is what was sent, in order, and while nothing is  *)
(* under way it is all of it.                                              *)
Arrives(got, all, underway) ==
    /\ IsPrefix(EventsOf(got), EventsOf(all)) /\ IsPrefix(RealTimeOf(got), RealTimeOf(all))
    /\ ~underway => EventsOf(got) = EventsOf(all) /\ RealTimeOf(got) = RealTimeOf(all)
=============================================================================
