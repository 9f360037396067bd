------------------------------- MODULE Parser -------------------------------
(***************************************************************************)
(* Parser: a MIDI 1.0 byte stream to messages.  parse() is the loop over   *)
(* the bytes of one buffer, here a step per byte, and a last one that      *)
(* flushes what is left of a dump at the end of the buffer.                *)
(*                                                                         *)
(* emitted is what onMessage() was called with in the last step.  feeding  *)
(* is kept for the reader of the messages: whether they leave it in the    *)
(* middle of a dump.                                                       *)
(***************************************************************************)
EXTENDS MidiBytes

VARIABLES
    runningStatus,  \* runningStatus_; 0 when there is none
    status,         \* status_
    expected,       \* expected_
    data,           \* the first dataCount_ bytes of data_
    inSysEx,        \* inSysEx_
    pendingStart,   \* pendingChunkStart_
    run,            \* the data bytes of the dump seen since runStart
    emitted, feeding

messageVars == <<runningStatus, status, expected, data>>
parserVars == <<messageVars, inSysEx, pendingStart, run>>
vars == <<parserVars, emitted, feeding>>

ParserInit ==
    /\ runningStatus = 0 /\ status = 0 /\ expected = 0 /\ data = << >>
    /\ inSysEx = FALSE /\ pendingStart = FALSE /\ run = << >>
    /\ emitted = << >> /\ feeding = FALSE

(* onMessage() is called with the messages ms, two at most.                *)
Emit(ms) ==
    /\ emitted' = ms
    /\ feeding' = IF ms = << >> THEN feeding
                  ELSE IF Len(ms) = 1 THEN OpenAfter(feeding, ms[1])
                  ELSE OpenAfter(OpenAfter(feeding, ms[1]), ms[2])

(* No message in progress, and what a data byte would continue.            *)
Waiting(running) ==
    /\ runningStatus' = running
    /\ status' = 0 /\ data' = << >> /\ UNCHANGED expected
-----------------------------------------------------------------------------
(* Mutant: real-time ends the chunk's dump.                                *)
RealTime_EndsDump(b) ==
    /\ IsSystemRealTime(b)
    /\ Emit(IF run = << >> THEN <<ShortMessage(b, << >>)>>
            ELSE <<ChunkMessage(run, pendingStart, TRUE), ShortMessage(b, << >>)>>)
    /\ run' = << >>
    /\ pendingStart' = (pendingStart /\ run = << >>)
    /\ UNCHANGED <<messageVars, inSysEx>>

(* System Real-Time: splits a chunk and disturbs nothing else.             *)
RealTime(b) ==
    /\ IsSystemRealTime(b)
    /\ Emit(IF run = << >> THEN <<ShortMessage(b, << >>)>>
            ELSE <<ChunkMessage(run, pendingStart, FALSE), ShortMessage(b, << >>)>>)
    /\ run' = << >>
    /\ pendingStart' = (pendingStart /\ run = << >>)
    /\ UNCHANGED <<messageVars, inSysEx>>

DumpData(b) ==
    /\ inSysEx /\ IsDataByte(b)
    /\ run' = Append(run, b)
    /\ Emit(<< >>)
    /\ UNCHANGED <<messageVars, inSysEx, pendingStart>>

(* Mutant: only 0xF7 ends a dump.                                          *)
Closing_OnlyByEnd(b) ==
    IF inSysEx /\ b = SysExEnd THEN <<ChunkMessage(run, pendingStart, TRUE)>> ELSE << >>

(* Any status byte ends an open dump, with what there is of it.            *)
Closing(b) ==
    IF inSysEx THEN <<ChunkMessage(run, pendingStart, TRUE)>> ELSE << >>

(* A status byte that is not System Real-Time, and what it starts.         *)
StatusByte(b) ==
    /\ IsStatusByte(b) /\ ~IsSystemRealTime(b)
    /\ run' = << >>
    /\ inSysEx' = (b = SysExStart)
    /\ pendingStart' = (b = SysExStart)

(* 0xF0, 0xF7 and the undefined ones cancel running status.                *)
FrameByte(b) ==
    /\ StatusByte(b) /\ ~HasFixedLength(b)
    /\ Waiting(0)
    /\ Emit(Closing(b))

(* Tune Request is complete as it is.                                      *)
StatusAlone(b) ==
    /\ StatusByte(b) /\ HasFixedLength(b) /\ DataLength(b) = 0
    /\ runningStatus' = 0 /\ status' = 0 /\ expected' = 0 /\ data' = << >>
    /\ Emit(Append(Closing(b), ShortMessage(b, << >>)))

(* Mutant: a new status leaves the data bytes that have come already.      *)
StatusBegins_KeepsData(b) ==
    /\ StatusByte(b) /\ HasFixedLength(b) /\ DataLength(b) > 0
    /\ status' = b /\ expected' = DataLength(b) /\ UNCHANGED data
    /\ runningStatus' = IF IsChannelVoice(b) THEN b ELSE 0
    /\ Emit(Closing(b))

StatusBegins(b) ==
    /\ StatusByte(b) /\ HasFixedLength(b) /\ DataLength(b) > 0
    /\ status' = b /\ expected' = DataLength(b) /\ data' = << >>
    /\ runningStatus' = IF IsChannelVoice(b) THEN b ELSE 0
    /\ Emit(Closing(b))

(* A data byte that belongs to nothing.                                    *)
Orphan(b) ==
    /\ ~inSysEx /\ IsDataByte(b) /\ status = 0 /\ runningStatus = 0
    /\ Emit(<< >>)
    /\ UNCHANGED parserVars

(* The message a data byte belongs to: the one in progress, or another one *)
(* of the running status.                                                  *)
Current == IF status # 0 THEN status ELSE runningStatus

DataByte(b) ==
    /\ ~inSysEx /\ IsDataByte(b) /\ Current # 0
    /\ LET needed == IF status # 0 THEN expected ELSE DataLength(Current)
           bytes == IF status # 0 THEN Append(data, b) ELSE <<b>> IN
       IF Len(bytes) >= needed
       THEN /\ Emit(<<ShortMessage(Current, bytes)>>)
            /\ status' = 0 /\ data' = << >>
            /\ expected' = needed
       ELSE /\ Emit(<< >>)
            /\ status' = Current /\ data' = bytes /\ expected' = needed
    /\ UNCHANGED <<runningStatus, inSysEx, pendingStart, run>>

ParseByte(b) ==
    RealTime(b) \/ DumpData(b) \/ FrameByte(b) \/ StatusAlone(b) \/ StatusBegins(b)
        \/ Orphan(b) \/ DataByte(b)

(* The bytes of a dump do not outlive their buffer.                        *)
EndOfBuffer ==
    /\ run # << >>
    /\ Emit(<<ChunkMessage(run, pendingStart, FALSE)>>)
    /\ run' = << >> /\ pendingStart' = FALSE
    /\ UNCHANGED <<messageVars, inSysEx>>

(* reset(), between two buffers; nothing is emitted.                       *)
Reset ==
    /\ run = << >>
    /\ runningStatus' = 0 /\ status' = 0 /\ expected' = 0 /\ data' = << >>
    /\ inSysEx' = FALSE /\ pendingStart' = FALSE
    /\ emitted' = << >> /\ UNCHANGED run

(* A parser on its own: any bytes, in any buffers, from a port that tells  *)
(* the registry when it resets.                                            *)
ParserNext ==
    \/ \E b \in Bytes : ParseByte(b)
    \/ EndOfBuffer
    \/ Reset /\ feeding' = FALSE

ParserSpec == ParserInit /\ [][ParserNext]_vars
-----------------------------------------------------------------------------
ParserTypeOK ==
    /\ runningStatus \in 0..255 /\ status \in 0..255 /\ expected \in 0..2
    /\ data \in Seq(0..127) /\ Len(data) <= 2
    /\ inSysEx \in BOOLEAN /\ pendingStart \in BOOLEAN /\ feeding \in BOOLEAN
    /\ run \in Seq(0..127)

(* Whatever bytes arrive, what a parser emits is framed: a start, the rest *)
(* of its dump, and nothing but System Real-Time before the end.  It is    *)
(* what Router relies on (Wellformed there).                               *)
EmitsFramed ==
    [][emitted' # << >> =>
         \/ Len(emitted') = 1 /\ Fits(feeding, emitted'[1])
         \/ /\ Len(emitted') = 2 /\ Fits(feeding, emitted'[1])
            /\ Fits(OpenAfter(feeding, emitted'[1]), emitted'[2])]_vars

(* Every short message has the data bytes its status byte calls for.       *)
Complete ==
    \A i \in 1..Len(emitted) :
        ~emitted[i].chunk =>
            /\ HasFixedLength(emitted[i].status)
            /\ Len(emitted[i].data) = DataLength(emitted[i].status)
=============================================================================
