----------------------------- MODULE BleSysEx -----------------------------
(***************************************************************************)
(* The sending half both BLE ports share: BleSysExBuffer, which puts the   *)
(* chunks of a dump together again, and what send() makes of a message.    *)
(***************************************************************************)
EXTENDS MidiBytes, SequencesExt, FiniteSets, FiniteSetsExt

CONSTANT Capacity   \* ESPMIDI_BLE_SYSEX_BYTES, framing included

ASSUME CapacityAssumption == Capacity \in Nat \ {0}

NewBuffer == [bytes |-> << >>, open |-> FALSE, overflowed |-> FALSE]

UpTo(n, seq) == SubSeq(seq, 1, Min({n, Len(seq)}))

(* push() for every byte of a line: what does not fit is left out.         *)
Pushed(b, line) ==
    [b EXCEPT !.bytes = UpTo(Capacity, @ \o line),
              !.overflowed = @ \/ Len(b.bytes) + Len(line) > Capacity]

(* Mutant: a start goes behind what is left of the dump before.            *)
Opened_KeepsBytes(b, m) == IF m.start THEN [b EXCEPT !.open = TRUE] ELSE b

Opened(b, m) == IF m.start THEN [NewBuffer EXCEPT !.open = TRUE] ELSE b

Line(m) ==
    (IF m.start THEN <<SysExStart>> ELSE << >>) \o m.data
        \o (IF m.end THEN <<SysExEnd>> ELSE << >>)

(* add(): the buffer after it, and whether a dump is complete.             *)
Added(b, m) ==
    IF Opened(b, m).open
    THEN [Pushed(Opened(b, m), Line(m)) EXCEPT !.open = ~m.end]
    ELSE b
Completes(b, m) == Opened(b, m).open /\ m.end /\ ~Added(b, m).overflowed

(* serializeShortMessage(): the bytes of a message of fixed length.        *)
Serialized(m) ==
    IF HasFixedLength(m.status) THEN << <<m.status>> \o m.data >> ELSE << >>

(* Mutant: sends what fitted.                                              *)
Sent_Truncated(b, m) ==
    IF ~m.chunk THEN Serialized(m)
    ELSE IF Opened(b, m).open /\ m.end THEN <<Added(b, m).bytes>>
    ELSE << >>

(* send(): what is handed to EspBle (nothing, a message or a whole dump),  *)
(* whether a dump was too long, the buffer afterwards, and what the router *)
(* is told, given EspBle's answer.                                         *)
Sent(b, m) ==
    IF ~m.chunk THEN Serialized(m)
    ELSE IF Completes(b, m) THEN <<Added(b, m).bytes>>
    ELSE << >>

Oversized(b, m) == m.chunk /\ m.end /\ Added(b, m).overflowed

BufferAfter(b, m) ==
    IF ~m.chunk THEN b ELSE IF Oversized(b, m) THEN NewBuffer ELSE Added(b, m)

Result(b, m, answer) ==
    IF Sent(b, m) # << >> THEN answer ELSE m.chunk /\ ~BufferAfter(b, m).overflowed
-----------------------------------------------------------------------------
(* What a receiver should get of the messages a sink was handed and did    *)
(* not refuse, worked out from the whole history: every short message, and *)
(* every dump, at its end, if it was handed from its start and fits.       *)
StartOf(told, i) == Max({0} \cup {k \in 1..i : told[k].m.chunk /\ told[k].m.start})

EndsDump(told, i) == told[i].m.chunk /\ told[i].m.end /\ StartOf(told, i) # 0

(* The bytes of the chunks since the last start.                           *)
Whole(told, i) ==
    FlattenSeq([k \in 1..i |->
        IF k >= StartOf(told, i) /\ told[k].m.chunk THEN Line(told[k].m) ELSE << >>])

Promised(told) ==
    FlattenSeq([i \in 1..Len(told) |->
        IF ~told[i].result THEN << >>
        ELSE IF ~told[i].m.chunk THEN << <<told[i].m.status>> \o told[i].m.data >>
        ELSE IF EndsDump(told, i) /\ Len(Whole(told, i)) <= Capacity THEN <<Whole(told, i)>>
        ELSE << >>])

(* How many dumps were too long.                                           *)
TooLong(told) ==
    Cardinality({i \in 1..Len(told) : EndsDump(told, i) /\ Len(Whole(told, i)) > Capacity})
=============================================================================
