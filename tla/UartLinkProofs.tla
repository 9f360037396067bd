--------------------------- MODULE UartLinkProofs ---------------------------
(***************************************************************************)
(* Proofs about Parser, for any bytes in any buffers, and about UartLink,  *)
(* for any messages, noise and size of buffers.                            *)
(*                                                                         *)
(* What the parser emits is framed and every short message is complete.    *)
(* Both follow from what holds between any two bytes: a dump is open for   *)
(* the reader exactly when the parser is in it and has emitted its start,  *)
(* and a message in progress still lacks a data byte.                      *)
(*                                                                         *)
(* The parser of a link is a Parser, so what it hands on is framed         *)
(* whatever the cable does.  That nothing is lost while nothing goes wrong *)
(* follows from what the bytes on the wire are at any time: a way from     *)
(* where the parser is to where the serializer is, which spells what was   *)
(* sent and is neither handed on nor held.                                 *)
(***************************************************************************)
EXTENDS UartLink, SequenceLemmas, FiniteSetTheorems

DumpInv ==
    /\ pendingStart => inSysEx
    /\ run # << >> => inSysEx
    /\ feeding <=> inSysEx /\ ~pendingStart

MessageInv ==
    /\ status # 0 => /\ HasFixedLength(status) /\ expected = DataLength(status)
                     /\ Len(data) < expected
    /\ status = 0 => data = << >>
    /\ runningStatus # 0 => IsChannelVoice(runningStatus)

PInv == ParserTypeOK /\ DumpInv /\ MessageInv
-----------------------------------------------------------------------------
(* A channel voice message has one or two data bytes.                      *)
LEMMA VoiceLength ==
    ASSUME NEW b \in Bytes, IsChannelVoice(b)
    PROVE  HasFixedLength(b) /\ DataLength(b) \in 1..2
  <1>1. b \in Nat /\ 128 <= b /\ b < 240
    BY DEF Bytes, IsChannelVoice
  <1>2. HasFixedLength(b)
    BY <1>1 DEF HasFixedLength, IsStatusByte, IsUndefined, SysExStart, SysExEnd
  <1>3. DataLength(b) \in 1..2
    BY <1>1 DEF DataLength
  <1> QED
    BY <1>2, <1>3

(* No message has more than two data bytes.                                *)
LEMMA LengthType == ASSUME NEW b PROVE DataLength(b) \in 0..2
  BY DEF DataLength

(* What a step emits is one message, or the end of a chunk and one more.   *)
FramedEmission ==
    \/ emitted' = << >>
    \/ Len(emitted') = 1 /\ Fits(feeding, emitted'[1])
    \/ /\ Len(emitted') = 2 /\ Fits(feeding, emitted'[1])
       /\ Fits(OpenAfter(feeding, emitted'[1]), emitted'[2])

(* A parser starts waiting for anything.                                   *)
LEMMA PInvInit == ParserInit => PInv
  <1> SUFFICES ASSUME ParserInit PROVE PInv
    OBVIOUS
  <1>1. << >> \in Seq(0..127) /\ Len(<< >>) = 0
    OBVIOUS
  <1>2. ParserTypeOK
    <2>1. data = << >> /\ run = << >>
      BY DEF ParserInit
    <2>2. data \in Seq(0..127) /\ Len(data) <= 2 /\ run \in Seq(0..127)
      BY <2>1, <1>1
    <2>3. inSysEx \in BOOLEAN /\ pendingStart \in BOOLEAN /\ feeding \in BOOLEAN
      BY DEF ParserInit
    <2>4. runningStatus = 0 /\ status = 0 /\ expected = 0
      BY DEF ParserInit
    <2>5. runningStatus \in 0..255 /\ status \in 0..255 /\ expected \in 0..2
      BY <2>4
    <2> QED
      BY <2>2, <2>3, <2>5 DEF ParserTypeOK
  <1>3. DumpInv
    BY DEF ParserInit, DumpInv
  <1>4. MessageInv
    BY DEF ParserInit, MessageInv
  <1> QED
    BY <1>2, <1>3, <1>4 DEF PInv

(* What Emit leaves for the reader, by the number of messages.             *)
LEMMA EmitNone ==
    ASSUME Emit(<< >>) PROVE emitted' = << >> /\ feeding' = feeding
  BY DEF Emit

(* One message.                                                            *)
LEMMA EmitOne ==
    ASSUME NEW m, Emit(<<m>>)
    PROVE  /\ emitted' = <<m>> /\ Len(emitted') = 1 /\ emitted'[1] = m
           /\ feeding' = OpenAfter(feeding, m)
  <1>1. <<m>> # << >> /\ Len(<<m>>) = 1 /\ <<m>>[1] = m
    OBVIOUS
  <1> QED
    BY <1>1 DEF Emit

(* Two messages.                                                           *)
LEMMA EmitTwo ==
    ASSUME NEW m, NEW n, Emit(<<m, n>>)
    PROVE  /\ emitted' = <<m, n>> /\ Len(emitted') = 2
           /\ emitted'[1] = m /\ emitted'[2] = n
           /\ feeding' = OpenAfter(OpenAfter(feeding, m), n)
  <1>1. <<m, n>> # << >> /\ Len(<<m, n>>) = 2 /\ <<m, n>>[1] = m /\ <<m, n>>[2] = n
    OBVIOUS
  <1> QED
    BY <1>1 DEF Emit

(* A step that keeps the message in progress keeps what is known of it.    *)
LEMMA KeepsMessage ==
    ASSUME PInv, UNCHANGED messageVars,
           run' \in Seq(0..127), inSysEx' \in BOOLEAN, pendingStart' \in BOOLEAN,
           feeding' \in BOOLEAN, DumpInv'
    PROVE  PInv'
  BY DEF PInv, ParserTypeOK, MessageInv, messageVars

(* Every step, one byte or one other call at a time.                       *)
LEMMA StepRealTime ==
    ASSUME PInv, NEW b \in Bytes, RealTime(b)
    PROVE  PInv' /\ FramedEmission
  <1> DEFINE Alone == ShortMessage(b, << >>)
             Part == ChunkMessage(run, pendingStart, FALSE)
  <1>1. /\ run' = << >> /\ pendingStart' = (pendingStart /\ run = << >>)
        /\ inSysEx' = inSysEx /\ UNCHANGED messageVars /\ IsSystemRealTime(b)
    BY DEF RealTime
  <1>2. ~Alone.chunk /\ Alone.status = b
    BY DEF ShortMessage
  <1>3. Part.chunk /\ Part.start = pendingStart /\ ~Part.end
    BY DEF ChunkMessage
  <1>4. \A o \in BOOLEAN : Fits(o, Alone) /\ OpenAfter(o, Alone) = o
    BY <1>1, <1>2 DEF Fits, OpenAfter
  <1>5. feeding \in BOOLEAN /\ DumpInv /\ ParserTypeOK
    BY DEF PInv, ParserTypeOK
  <1>6. CASE run = << >>
    <2>1. Emit(<<Alone>>)
      BY <1>6 DEF RealTime
    <2> HIDE DEF Alone
    <2>2. feeding' = feeding /\ FramedEmission
      BY <2>1, EmitOne, <1>4, <1>5 DEF FramedEmission
    <2>3. DumpInv' /\ run' \in Seq(0..127) /\ pendingStart' = pendingStart
      BY <2>2, <1>1, <1>5, <1>6 DEF DumpInv, ParserTypeOK
    <2> QED
      BY <2>2, <2>3, <1>1, <1>5, KeepsMessage DEF ParserTypeOK
  <1>7. CASE run # << >>
    <2>3. Emit(<<Part, Alone>>)
      BY <1>7 DEF RealTime
    <2> HIDE DEF Alone, Part
    <2>4. Fits(feeding, Part) /\ OpenAfter(feeding, Part) = TRUE
      BY <1>3, <1>5, <1>7 DEF Fits, OpenAfter, DumpInv, ParserTypeOK
    <2>5. feeding' = TRUE /\ FramedEmission
      BY <2>3, <2>4, EmitTwo, <1>4, <1>5 DEF FramedEmission
    <2>6. DumpInv' /\ run' \in Seq(0..127) /\ pendingStart' = FALSE
      BY <2>5, <1>1, <1>5, <1>7 DEF DumpInv, ParserTypeOK
    <2> QED
      BY <2>5, <2>6, <1>1, <1>5, KeepsMessage DEF ParserTypeOK
  <1> QED
    BY <1>6, <1>7

(* A data byte of a dump is kept, and nothing is emitted.                  *)
LEMMA StepDumpData ==
    ASSUME PInv, NEW b \in Bytes, DumpData(b)
    PROVE  PInv' /\ FramedEmission
  <1>1. emitted' = << >> /\ feeding' = feeding
    BY DEF DumpData, Emit
  <1>2. run' = Append(run, b) /\ b \in 0..127 /\ inSysEx
    BY DEF DumpData, IsDataByte, Bytes
  <1>3. run' \in Seq(0..127) /\ UNCHANGED <<messageVars, inSysEx, pendingStart>>
    BY <1>2 DEF PInv, ParserTypeOK, DumpData
  <1> QED
    BY <1>1, <1>2, <1>3 DEF PInv, ParserTypeOK, DumpInv, MessageInv, messageVars,
       FramedEmission

(* The closing chunk, if there is one, and the message behind it.          *)
LEMMA AppendNone == ASSUME NEW m PROVE Append(<< >>, m) = <<m>>
  OBVIOUS
(* The same with one message in front.                                     *)
LEMMA AppendOne ==
    ASSUME NEW m, NEW n
    PROVE  /\ Append(<<m>>, n) # << >> /\ Len(Append(<<m>>, n)) = 2
           /\ Append(<<m>>, n)[1] = m /\ Append(<<m>>, n)[2] = n
  <1>1. <<m>> \in Seq({m, n}) /\ n \in {m, n} /\ Len(<<m>>) = 1 /\ <<m>>[1] = m
    OBVIOUS
  <1> DEFINE s == <<m>>
  <1> HIDE DEF s
  <1>2. s \in Seq({m, n}) /\ n \in {m, n} /\ Len(s) = 1 /\ s[1] = m
    BY <1>1 DEF s
  <1>3. /\ Append(s, n) # << >> /\ Len(Append(s, n)) = Len(s) + 1
        /\ \A i \in 1..Len(s) : Append(s, n)[i] = s[i]
        /\ Append(s, n)[Len(s) + 1] = n
    <2> DEFINE T == {m, n}
    <2>1. s \in Seq(T) /\ n \in T
      BY <1>2
    <2> HIDE DEF T
    <2> QED
      BY <2>1, AppendProperties
  <1>4. Len(s) + 1 = 2 /\ 1 \in 1..Len(s)
    BY <1>2
  <1>5. Append(s, n)[1] = s[1]
    BY <1>3, <1>4
  <1> QED
    BY <1>2, <1>3, <1>4, <1>5 DEF s

(* What a status byte emits first closes an open dump for the reader.      *)
LEMMA ClosingFits ==
    ASSUME PInv, NEW b
    PROVE  \/ Closing(b) = << >> /\ feeding = FALSE
           \/ \E m : /\ Closing(b) = <<m>> /\ Fits(feeding, m)
                    /\ OpenAfter(feeding, m) = FALSE
  <1> DEFINE Final == ChunkMessage(run, pendingStart, TRUE)
  <1>1. Final.chunk /\ Final.start = pendingStart /\ Final.end
    BY DEF ChunkMessage
  <1>2. feeding \in BOOLEAN /\ inSysEx \in BOOLEAN /\ pendingStart \in BOOLEAN /\ DumpInv
    BY DEF PInv, ParserTypeOK
  <1>3. CASE inSysEx
    <2>1. Closing(b) = <<Final>>
      BY <1>3 DEF Closing
    <2> HIDE DEF Final
    <2>2. Fits(feeding, Final) /\ OpenAfter(feeding, Final) = FALSE
      BY <1>1, <1>2, <1>3 DEF Fits, OpenAfter, DumpInv
    <2> QED
      BY <2>1, <2>2
  <1>4. CASE ~inSysEx
    BY <1>2, <1>4 DEF Closing, DumpInv
  <1> QED
    BY <1>2, <1>3, <1>4

(* Closing is framed, and leaves no dump open.                             *)
LEMMA ClosingIsFramed ==
    ASSUME PInv, NEW b, Emit(Closing(b))
    PROVE  FramedEmission /\ feeding' = FALSE
  <1>1. CASE Closing(b) = << >> /\ feeding = FALSE
    <2>1. Emit(<< >>)
      BY <1>1
    <2> QED
      BY <1>1, <2>1, EmitNone DEF FramedEmission
  <1>2. CASE \E m : /\ Closing(b) = <<m>> /\ Fits(feeding, m)
                   /\ OpenAfter(feeding, m) = FALSE
    <2>1. PICK m : /\ Closing(b) = <<m>> /\ Fits(feeding, m)
                   /\ OpenAfter(feeding, m) = FALSE
      BY <1>2
    <2>2. Emit(<<m>>)
      BY <2>1
    <2> QED
      BY <2>1, <2>2, EmitOne DEF FramedEmission
  <1> QED
    BY <1>1, <1>2, ClosingFits

(* After a status byte no dump data is kept, and a new dump has not been   *)
(* started for the reader.                                                 *)
LEMMA StatusDump ==
    ASSUME NEW b, StatusByte(b), feeding' = FALSE
    PROVE  /\ run' \in Seq(0..127) /\ inSysEx' \in BOOLEAN
           /\ pendingStart' \in BOOLEAN /\ feeding' \in BOOLEAN /\ DumpInv'
  <1>1. << >> \in Seq(0..127)
    OBVIOUS
  <1>2. run' = << >> /\ inSysEx' = (b = SysExStart) /\ pendingStart' = (b = SysExStart)
    BY DEF StatusByte
  <1> QED
    BY <1>1, <1>2 DEF DumpInv

(* No message in progress.                                                 *)
LEMMA NoMessage ==
    ASSUME data' = << >>, status' = 0, expected' \in 0..2, runningStatus' \in 0..255,
           runningStatus' # 0 => IsChannelVoice(runningStatus'),
           run' \in Seq(0..127), inSysEx' \in BOOLEAN, pendingStart' \in BOOLEAN,
           feeding' \in BOOLEAN, DumpInv'
    PROVE  PInv'
  <1>1. << >> \in Seq(0..127) /\ Len(<< >>) = 0
    OBVIOUS
  <1>2. data' \in Seq(0..127) /\ Len(data') <= 2
    BY <1>1
  <1>3. status' \in 0..255
    OBVIOUS
  <1>4. ParserTypeOK'
    BY <1>2, <1>3 DEF ParserTypeOK
  <1>5. MessageInv'
    BY DEF MessageInv
  <1> QED
    BY <1>4, <1>5 DEF PInv

(* 0xF0, 0xF7 and the undefined bytes only close.                          *)
LEMMA StepFrameByte ==
    ASSUME PInv, NEW b \in Bytes, FrameByte(b)
    PROVE  PInv' /\ FramedEmission
  <1>1. FramedEmission /\ feeding' = FALSE
    BY ClosingIsFramed DEF FrameByte
  <1>2. /\ runningStatus' = 0 /\ status' = 0 /\ data' = << >> /\ expected' = expected
        /\ StatusByte(b)
    BY DEF FrameByte, Waiting
  <1>3. expected' \in 0..2
    BY <1>2 DEF PInv, ParserTypeOK
  <1>4. runningStatus' \in 0..255
    BY <1>2
  <1> QED
    BY <1>1, <1>2, <1>3, <1>4, StatusDump, NoMessage

(* Tune Request: the message follows the end of the dump.                  *)
LEMMA StepStatusAlone ==
    ASSUME PInv, NEW b \in Bytes, StatusAlone(b)
    PROVE  PInv' /\ FramedEmission
  <1> DEFINE Alone == ShortMessage(b, << >>)
  <1>1. Emit(Append(Closing(b), Alone)) /\ StatusByte(b)
    BY DEF StatusAlone
  <1>2. ~Alone.chunk
    BY DEF ShortMessage
  <1> HIDE DEF Alone
  <1>3. Fits(FALSE, Alone) /\ OpenAfter(FALSE, Alone) = FALSE
    BY <1>2 DEF Fits, OpenAfter
  <1>4. FramedEmission /\ feeding' = FALSE
    <2>1. CASE Closing(b) = << >> /\ feeding = FALSE
      <3>1. Emit(<<Alone>>)
        BY <1>1, <2>1, AppendNone
      <3> QED
        BY <1>3, <2>1, <3>1, EmitOne DEF FramedEmission
    <2>2. CASE \E m : /\ Closing(b) = <<m>> /\ Fits(feeding, m)
                     /\ OpenAfter(feeding, m) = FALSE
      <3>1. PICK m : /\ Closing(b) = <<m>> /\ Fits(feeding, m)
                     /\ OpenAfter(feeding, m) = FALSE
        BY <2>2
      <3> DEFINE ms == Append(<<m>>, Alone)
      <3>2. Emit(ms)
        BY <1>1, <3>1
      <3>3. ms # << >> /\ Len(ms) = 2 /\ ms[1] = m /\ ms[2] = Alone
        BY AppendOne
      <3> HIDE DEF ms
      <3>4. emitted' = ms /\ feeding' = OpenAfter(OpenAfter(feeding, m), Alone)
        BY <3>2, <3>3 DEF Emit
      <3> QED
        BY <1>3, <3>1, <3>3, <3>4 DEF FramedEmission
    <2> QED
      BY <2>1, <2>2, ClosingFits
  <1>5. runningStatus' = 0 /\ status' = 0 /\ expected' = 0 /\ data' = << >>
    BY DEF StatusAlone
  <1>6. expected' \in 0..2 /\ runningStatus' \in 0..255
    BY <1>5
  <1> QED
    BY <1>1, <1>4, <1>5, <1>6, StatusDump, NoMessage

(* Every other status byte begins a message without data bytes.            *)
LEMMA StepStatusBegins ==
    ASSUME PInv, NEW b \in Bytes, StatusBegins(b)
    PROVE  PInv' /\ FramedEmission
  <1>1. FramedEmission /\ feeding' = FALSE
    BY ClosingIsFramed DEF StatusBegins
  <1>2. /\ StatusByte(b) /\ HasFixedLength(b) /\ DataLength(b) > 0
        /\ status' = b /\ expected' = DataLength(b) /\ data' = << >>
        /\ runningStatus' = IF IsChannelVoice(b) THEN b ELSE 0
    BY DEF StatusBegins
  <1>3. << >> \in Seq(0..127) /\ Len(<< >>) = 0
    OBVIOUS
  <1>4. data' \in Seq(0..127) /\ Len(data') = 0
    BY <1>2, <1>3
  <1>5. status' \in 0..255 /\ runningStatus' \in 0..255 /\ expected' \in 0..2
    BY <1>2, LengthType DEF Bytes
  <1>6. /\ run' \in Seq(0..127) /\ inSysEx' \in BOOLEAN
        /\ pendingStart' \in BOOLEAN /\ feeding' \in BOOLEAN /\ DumpInv'
    BY <1>1, <1>2, StatusDump
  <1>7. ParserTypeOK'
    BY <1>4, <1>5, <1>6 DEF ParserTypeOK
  <1>8. status' # 0
    BY <1>2 DEF HasFixedLength, IsStatusByte
  <1>9. MessageInv'
    BY <1>2, <1>4, <1>8 DEF MessageInv
  <1> QED
    BY <1>1, <1>6, <1>7, <1>9 DEF PInv

(* An orphan changes nothing.                                              *)
LEMMA StepOrphan ==
    ASSUME PInv, NEW b \in Bytes, Orphan(b)
    PROVE  PInv' /\ FramedEmission
  <1>1. emitted' = << >> /\ feeding' = feeding /\ UNCHANGED parserVars
    BY EmitNone DEF Orphan
  <1> QED
    BY <1>1 DEF PInv, ParserTypeOK, DumpInv, MessageInv, parserVars, messageVars,
       FramedEmission

(* DataByte's own abbreviations: what the message needs, and has with b.   *)
Needed == IF status # 0 THEN expected ELSE DataLength(Current)
BytesWith(b) == IF status # 0 THEN Append(data, b) ELSE <<b>>

(* The data bytes with b added are never more than the message needs.      *)
LEMMA DataByteFacts ==
    ASSUME PInv, NEW b \in Bytes, DataByte(b)
    PROVE  /\ HasFixedLength(Current) /\ Current \in 1..255 /\ Needed = DataLength(Current)
           /\ Needed \in 1..2 /\ BytesWith(b) \in Seq(0..127) /\ Len(BytesWith(b)) \in 1..Needed
  <1>1. b \in 0..127 /\ Current # 0
    BY DEF DataByte, IsDataByte, Bytes
  <1>2. ParserTypeOK /\ MessageInv
    BY DEF PInv
  <1>3. CASE status # 0
    <2>1. Current = status /\ Needed = expected /\ BytesWith(b) = Append(data, b)
      BY <1>3 DEF Current, Needed, BytesWith
    <2>2. HasFixedLength(status) /\ expected = DataLength(status) /\ Len(data) < expected
      BY <1>2, <1>3 DEF MessageInv
    <2>3. data \in Seq(0..127) /\ Len(data) \in Nat /\ expected \in 0..2 /\ status \in 0..255
      BY <1>2 DEF ParserTypeOK
    <2>4. BytesWith(b) \in Seq(0..127) /\ Len(BytesWith(b)) = Len(data) + 1
      BY <1>1, <2>1, <2>3
    <2> QED
      BY <1>3, <2>1, <2>2, <2>3, <2>4
  <1>4. CASE status = 0
    <2>1. Current = runningStatus /\ Needed = DataLength(Current) /\ BytesWith(b) = <<b>>
      BY <1>4 DEF Current, Needed, BytesWith
    <2>2. Current \in Bytes /\ IsChannelVoice(Current)
      BY <1>1, <1>2, <2>1 DEF ParserTypeOK, MessageInv, Bytes
    <2>3. HasFixedLength(Current) /\ DataLength(Current) \in 1..2
      BY <2>2, VoiceLength
    <2>4. <<b>> \in Seq(0..127) /\ Len(<<b>>) = 1
      BY <1>1
    <2>5. BytesWith(b) \in Seq(0..127) /\ Len(BytesWith(b)) = 1
      BY <2>1, <2>4
    <2>6. Current \in 1..255
      BY <1>1, <2>2 DEF Bytes
    <2>7. Needed \in 1..2 /\ 1 \in 1..Needed
      BY <2>1, <2>3
    <2> QED
      BY <2>1, <2>3, <2>5, <2>6, <2>7
  <1> QED
    BY <1>3, <1>4

(* A data byte of a message completes it, or leaves it short of one.       *)
LEMMA StepDataByte ==
    ASSUME PInv, NEW b \in Bytes, DataByte(b)
    PROVE  PInv' /\ FramedEmission
  <1> DEFINE needed == Needed
             bytes == BytesWith(b)
             Message == ShortMessage(Current, bytes)
  <1>1. /\ HasFixedLength(Current) /\ Current \in 1..255 /\ needed = DataLength(Current)
        /\ needed \in 1..2 /\ bytes \in Seq(0..127) /\ Len(bytes) \in 1..needed
    BY DataByteFacts
  <1>2. /\ IF Len(bytes) >= needed
           THEN /\ Emit(<<Message>>)
                /\ status' = 0 /\ data' = << >> /\ expected' = needed
           ELSE /\ Emit(<< >>)
                /\ status' = Current /\ data' = bytes /\ expected' = needed
        /\ UNCHANGED <<runningStatus, inSysEx, pendingStart, run>>
    BY DEF DataByte, Needed, BytesWith
  <1>3. ~Message.chunk
    BY DEF ShortMessage
  <1> HIDE DEF needed, bytes, Message
  <1>4. /\ inSysEx = FALSE /\ feeding = FALSE /\ pendingStart = FALSE
        /\ run \in Seq(0..127) /\ runningStatus \in 0..255 /\ run = << >>
        /\ runningStatus # 0 => IsChannelVoice(runningStatus)
    BY DEF DataByte, PInv, ParserTypeOK, DumpInv, MessageInv
  <1>5. Fits(feeding, Message) /\ OpenAfter(feeding, Message) = FALSE
    BY <1>3, <1>4 DEF Fits, OpenAfter
  <1>6. FramedEmission /\ feeding' = FALSE
    <2>1. CASE Len(bytes) >= needed
      BY <1>2, <1>5, <2>1, EmitOne DEF FramedEmission
    <2>2. CASE ~(Len(bytes) >= needed)
      BY <1>2, <1>4, <2>2, EmitNone DEF FramedEmission
    <2> QED
      BY <2>1, <2>2
  <1>7. /\ run' \in Seq(0..127) /\ inSysEx' \in BOOLEAN /\ pendingStart' \in BOOLEAN
        /\ feeding' \in BOOLEAN /\ runningStatus' \in 0..255
        /\ runningStatus' # 0 => IsChannelVoice(runningStatus')
    BY <1>2, <1>4, <1>6
  <1>8. DumpInv'
    BY <1>2, <1>4, <1>6 DEF DumpInv
  <1>9. PInv'
    <2>1. CASE Len(bytes) >= needed
      BY <1>1, <1>2, <1>7, <1>8, <2>1, NoMessage
    <2>2. CASE ~(Len(bytes) >= needed)
      <3>1. status' = Current /\ data' = bytes /\ expected' = needed
        BY <1>2, <2>2
      <3>2. Len(bytes) < needed /\ Len(bytes) <= 2
        BY <1>1, <2>2
      <3>3. data' \in Seq(0..127) /\ Len(data') <= 2 /\ Len(data') < expected'
        BY <1>1, <3>1, <3>2
      <3>4. status' \in 1..255 /\ expected' \in 0..2
        BY <1>1, <3>1
      <3>5. ParserTypeOK'
        BY <1>7, <3>3, <3>4 DEF ParserTypeOK
      <3>6. HasFixedLength(status') /\ expected' = DataLength(status')
        BY <1>1, <3>1
      <3>7. MessageInv'
        BY <1>7, <3>3, <3>4, <3>6 DEF MessageInv
      <3> QED
        BY <1>8, <3>5, <3>7 DEF PInv
    <2> QED
      BY <2>1, <2>2
  <1> QED
    BY <1>6, <1>9

(* The end of a buffer hands on the rest, and the dump stays open.         *)
LEMMA StepEndOfBuffer ==
    ASSUME PInv, EndOfBuffer
    PROVE  PInv' /\ FramedEmission
  <1> DEFINE Part == ChunkMessage(run, pendingStart, FALSE)
  <1>1. /\ run # << >> /\ Emit(<<Part>>) /\ run' = << >> /\ pendingStart' = FALSE
        /\ UNCHANGED <<messageVars, inSysEx>>
    BY DEF EndOfBuffer
  <1>2. Part.chunk /\ Part.start = pendingStart /\ ~Part.end
    BY DEF ChunkMessage
  <1> HIDE DEF Part
  <1>3. inSysEx = TRUE /\ feeding = ~pendingStart /\ pendingStart \in BOOLEAN
    BY <1>1 DEF PInv, DumpInv, ParserTypeOK
  <1>4. Fits(feeding, Part) /\ OpenAfter(feeding, Part) = TRUE
    BY <1>2, <1>3 DEF Fits, OpenAfter
  <1>5. feeding' = TRUE /\ FramedEmission
    BY <1>1, <1>4, EmitOne DEF FramedEmission
  <1>6. << >> \in Seq(0..127)
    OBVIOUS
  <1>7. run' \in Seq(0..127)
    BY <1>1, <1>6
  <1>8. DumpInv'
    BY <1>1, <1>3, <1>5 DEF DumpInv
  <1> QED
    BY <1>1, <1>3, <1>5, <1>7, <1>8, KeepsMessage

(* After reset() nothing is in progress.                                   *)
LEMMA StepReset ==
    ASSUME PInv, Reset, feeding' = FALSE
    PROVE  PInv' /\ FramedEmission
  <1>1. /\ runningStatus' = 0 /\ status' = 0 /\ expected' = 0 /\ data' = << >>
        /\ inSysEx' = FALSE /\ pendingStart' = FALSE /\ run' = run /\ run = << >>
        /\ emitted' = << >>
    BY DEF Reset
  <1>2. run' \in Seq(0..127)
    BY <1>1 DEF PInv, ParserTypeOK
  <1>3. DumpInv'
    BY <1>1 DEF DumpInv
  <1>4. expected' \in 0..2 /\ runningStatus' \in 0..255
    BY <1>1
  <1> QED
    BY <1>1, <1>2, <1>3, <1>4, NoMessage DEF FramedEmission

(* The invariant is inductive, and every step is framed.                   *)
LEMMA PInvNext ==
    ASSUME PInv, [ParserNext]_vars
    PROVE  PInv' /\ (FramedEmission \/ UNCHANGED vars)
  <1>1. CASE ParserNext
    <2>1. CASE \E b \in Bytes : ParseByte(b)
      BY <2>1, StepRealTime, StepDumpData, StepFrameByte, StepStatusAlone, StepStatusBegins,
         StepOrphan, StepDataByte DEF ParseByte
    <2>2. CASE EndOfBuffer
      BY <2>2, StepEndOfBuffer
    <2>3. CASE Reset /\ feeding' = FALSE
      BY <2>3, StepReset
    <2> QED
      BY <1>1, <2>1, <2>2, <2>3 DEF ParserNext
  <1>2. CASE UNCHANGED vars
    BY <1>2 DEF vars, parserVars, messageVars, PInv, ParserTypeOK, DumpInv, MessageInv
  <1> QED
    BY <1>1, <1>2

(* Complete, by the number of messages a step emits.                       *)
Whole(m) == ~m.chunk => HasFixedLength(m.status) /\ Len(m.data) = DataLength(m.status)

(* Nothing emitted.                                                        *)
LEMMA CompleteNone == ASSUME Emit(<< >>) PROVE Complete'
  <1>1. emitted' = << >> /\ Len(<< >>) = 0
    BY EmitNone
  <1>2. Len(emitted') = 0
    BY <1>1
  <1> QED
    BY <1>2 DEF Complete

(* One message emitted.                                                    *)
LEMMA CompleteOne == ASSUME NEW m, Whole(m), Emit(<<m>>) PROVE Complete'
  <1>1. Len(emitted') = 1 /\ emitted'[1] = m
    BY EmitOne
  <1> QED
    BY <1>1 DEF Complete, Whole

(* Two messages emitted.                                                   *)
LEMMA CompleteTwo ==
    ASSUME NEW m, NEW n, Whole(m), Whole(n), NEW ms, Emit(ms),
           Len(ms) = 2, ms[1] = m, ms[2] = n
    PROVE  Complete'
  <1>1. emitted' = ms
    BY DEF Emit
  <1>2. \A i \in 1..Len(ms) : i = 1 \/ i = 2
    OBVIOUS
  <1> QED
    BY <1>1, <1>2 DEF Complete, Whole

(* A chunk is whole whatever it holds; a message of one byte is.           *)
LEMMA ChunkIsWhole == ASSUME NEW d, NEW s, NEW e PROVE Whole(ChunkMessage(d, s, e))
  BY DEF Whole, ChunkMessage

(* A message of one byte is whole.                                         *)
LEMMA AloneIsWhole ==
    ASSUME NEW b, HasFixedLength(b), DataLength(b) = 0
    PROVE  Whole(ShortMessage(b, << >>))
  <1>1. Len(<< >>) = 0
    OBVIOUS
  <1> QED
    BY <1>1 DEF Whole, ShortMessage

(* System Real-Time messages are messages of one byte.                     *)
LEMMA RealTimeHasNoData ==
    ASSUME NEW b \in Bytes, IsSystemRealTime(b)
    PROVE  HasFixedLength(b) /\ DataLength(b) = 0
  <1>1. b \in Nat /\ b >= 248
    BY DEF Bytes, IsSystemRealTime
  <1>2. HasFixedLength(b)
    BY <1>1 DEF HasFixedLength, IsStatusByte, IsUndefined, SysExStart, SysExEnd
  <1>3. DataLength(b) = 0
    BY <1>1 DEF DataLength
  <1> QED
    BY <1>2, <1>3

(* The end of a dump is whole.                                             *)
LEMMA CompleteClosing == ASSUME NEW b, Emit(Closing(b)) PROVE Complete'
  <1>1. CASE inSysEx
    BY <1>1, ChunkIsWhole, CompleteOne DEF Closing
  <1>2. CASE ~inSysEx
    BY <1>2, CompleteNone DEF Closing
  <1> QED
    BY <1>1, <1>2

(* Every step emits whole messages only.                                   *)
LEMMA CompleteNext ==
    ASSUME PInv, Complete, [ParserNext]_vars
    PROVE  Complete'
  <1>1. ASSUME NEW b \in Bytes, RealTime(b) PROVE Complete'
    <2> DEFINE Alone == ShortMessage(b, << >>)
               Part == ChunkMessage(run, pendingStart, FALSE)
    <2>1. Whole(Alone) /\ Whole(Part)
      BY <1>1, RealTimeHasNoData, AloneIsWhole, ChunkIsWhole DEF RealTime
    <2>2. Emit(IF run = << >> THEN <<Alone>> ELSE <<Part, Alone>>)
      BY <1>1 DEF RealTime
    <2> HIDE DEF Alone, Part
    <2>3. CASE run = << >>
      BY <2>1, <2>2, <2>3, CompleteOne
    <2>4. CASE run # << >>
      <3> DEFINE ms == <<Part, Alone>>
      <3>1. Emit(ms) /\ Len(ms) = 2 /\ ms[1] = Part /\ ms[2] = Alone
        BY <2>2, <2>4
      <3> HIDE DEF ms
      <3> QED
        BY <2>1, <3>1, CompleteTwo
    <2> QED
      BY <2>3, <2>4
  <1>2. ASSUME NEW b \in Bytes, DumpData(b) \/ Orphan(b) PROVE Complete'
    BY <1>2, CompleteNone DEF DumpData, Orphan
  <1>3. ASSUME NEW b \in Bytes, FrameByte(b) \/ StatusBegins(b) PROVE Complete'
    BY <1>3, CompleteClosing DEF FrameByte, StatusBegins
  <1>4. ASSUME NEW b \in Bytes, StatusAlone(b) PROVE Complete'
    <2> DEFINE Alone == ShortMessage(b, << >>)
               Final == ChunkMessage(run, pendingStart, TRUE)
    <2>1. Whole(Alone) /\ Whole(Final)
      BY <1>4, AloneIsWhole, ChunkIsWhole DEF StatusAlone
    <2>2. Emit(Append(IF inSysEx THEN <<Final>> ELSE << >>, Alone))
      BY <1>4 DEF StatusAlone, Closing
    <2> HIDE DEF Alone, Final
    <2>3. CASE inSysEx
      <3> DEFINE ms == Append(<<Final>>, Alone)
      <3>1. Emit(ms) /\ Len(ms) = 2 /\ ms[1] = Final /\ ms[2] = Alone
        BY <2>2, <2>3, AppendOne
      <3> HIDE DEF ms
      <3> QED
        BY <2>1, <3>1, CompleteTwo
    <2>4. CASE ~inSysEx
      BY <2>1, <2>2, <2>4, AppendNone, CompleteOne
    <2> QED
      BY <2>3, <2>4
  <1>5. ASSUME NEW b \in Bytes, DataByte(b) PROVE Complete'
    <2> DEFINE Message == ShortMessage(Current, BytesWith(b))
    <2>1. CASE Len(BytesWith(b)) >= Needed
      <3>1. Emit(<<Message>>)
        BY <1>5, <2>1 DEF DataByte, Needed, BytesWith
      <3>2. Len(BytesWith(b)) = DataLength(Current) /\ HasFixedLength(Current)
        BY <1>5, <2>1, DataByteFacts
      <3>3. Whole(Message)
        BY <3>2 DEF Whole, ShortMessage
      <3> QED
        BY <3>1, <3>3, CompleteOne
    <2>2. CASE ~(Len(BytesWith(b)) >= Needed)
      BY <1>5, <2>2, CompleteNone DEF DataByte, Needed, BytesWith
    <2> QED
      BY <2>1, <2>2
  <1>6. ASSUME EndOfBuffer PROVE Complete'
    BY <1>6, ChunkIsWhole, CompleteOne DEF EndOfBuffer
  <1>7. ASSUME Reset PROVE Complete'
    <2>1. emitted' = << >> /\ Len(<< >>) = 0
      BY <1>7 DEF Reset
    <2>2. Len(emitted') = 0
      BY <2>1
    <2> QED
      BY <2>2 DEF Complete
  <1>8. ASSUME UNCHANGED vars PROVE Complete'
    BY <1>8 DEF vars, Complete
  <1> QED
    BY <1>1, <1>2, <1>3, <1>4, <1>5, <1>6, <1>7, <1>8 DEF ParserNext, ParseByte

(* A parser that has emitted nothing has emitted nothing short.            *)
LEMMA CompleteInit == ParserInit => Complete
  <1>1. Len(<< >>) = 0
    OBVIOUS
  <1> QED
    BY <1>1 DEF ParserInit, Complete
-----------------------------------------------------------------------------
(* The parser's fields keep their types: never more than two data bytes    *)
(* (data_ is an array of two), whatever bytes arrive.                      *)
THEOREM ParserTypes == ParserSpec => []ParserTypeOK
  <1>1. PInv /\ [ParserNext]_vars => PInv'
    BY PInvNext
  <1>2. PInv => ParserTypeOK
    BY DEF PInv
  <1> QED
    BY <1>1, <1>2, PInvInit, PTL DEF ParserSpec

(* Whatever bytes arrive, in whatever buffers, what onMessage() is called  *)
(* with is framed: a start, the rest of its dump, and nothing but System   *)
(* Real-Time before the end.                                               *)
THEOREM ParserFrames == ParserSpec => EmitsFramed
  <1>1. PInv /\ [ParserNext]_vars => PInv'
    BY PInvNext
  <1>2. PInv /\ [ParserNext]_vars =>
          [emitted' # << >> =>
             \/ Len(emitted') = 1 /\ Fits(feeding, emitted'[1])
             \/ /\ Len(emitted') = 2 /\ Fits(feeding, emitted'[1])
                /\ Fits(OpenAfter(feeding, emitted'[1]), emitted'[2])]_vars
    BY PInvNext DEF FramedEmission
  <1> QED
    BY <1>1, <1>2, PInvInit, PTL DEF ParserSpec, EmitsFramed

(* Every short message the parser emits has exactly the data bytes its     *)
(* status byte calls for.                                                  *)
THEOREM ParserCompletes == ParserSpec => []Complete
  <1>1. PInv /\ [ParserNext]_vars => PInv'
    BY PInvNext
  <1>2. PInv /\ Complete /\ [ParserNext]_vars => Complete'
    BY CompleteNext
  <1> QED
    BY <1>1, <1>2, PInvInit, CompleteInit, PTL DEF ParserSpec
-----------------------------------------------------------------------------
SentOnes == [message : Messages, intact : BOOLEAN]
WireBytes == [byte : Bytes, id : Nat]

LinkTypes ==
    /\ started \in [sender : BOOLEAN, receiver : BOOLEAN]
    /\ open \in BOOLEAN /\ lineOpen \in BOOLEAN /\ abandoned \in BOOLEAN
    /\ faults \in 0..MaxFaults
    /\ wire \in Seq(WireBytes) /\ sent \in Seq(SentOnes)
    /\ left \in 0..Len(wire) /\ left <= RxBytes
    /\ handed \in Seq(MidiMessages)

(* Bytes and messages a parser makes of bytes.                             *)
LEMMA LineIsBytes ==
    ASSUME NEW m \in Messages
    PROVE  Line(m) \in Seq(Bytes) /\ (~m.chunk => Len(Line(m)) = 1 + Len(m.data))
  <1>1. m \in MidiMessages
    BY LinkAssumption
  <1>2. m.status \in Bytes /\ m.data \in Seq(Bytes)
    BY <1>1 DEF MidiMessages
  <1>3. <<m.status>> \in Seq(Bytes) /\ <<SysExStart>> \in Seq(Bytes)
        /\ <<SysExEnd>> \in Seq(Bytes) /\ << >> \in Seq(Bytes) /\ Len(<<m.status>>) = 1
    BY <1>2 DEF SysExStart, SysExEnd, Bytes
  <1>4. CASE ~m.chunk
    <2>1. Line(m) = <<m.status>> \o m.data
      BY <1>4 DEF Line
    <2> QED
      BY <1>2, <1>3, <2>1, ConcatProperties
  <1>5. CASE m.chunk
    <2> DEFINE head == IF m.start THEN <<SysExStart>> ELSE << >>
               last == IF m.end THEN <<SysExEnd>> ELSE << >>
    <2>1. head \in Seq(Bytes) /\ last \in Seq(Bytes)
      BY <1>3
    <2>2. Line(m) = (head \o m.data) \o last
      BY <1>5 DEF Line
    <2> HIDE DEF head, last
    <2>3. head \o m.data \in Seq(Bytes)
      BY <1>2, <2>1, ConcatProperties
    <2> QED
      BY <1>5, <2>1, <2>2, <2>3, ConcatProperties
  <1> QED
    BY <1>4, <1>5

LEMMA ChunkIsMessage ==
    ASSUME PInv, NEW e \in BOOLEAN
    PROVE  ChunkMessage(run, pendingStart, e) \in MidiMessages
  <1>1. run \in Seq(0..127) /\ 0..127 \subseteq Bytes
    BY DEF PInv, ParserTypeOK, Bytes
  <1>2. run \in Seq(Bytes) /\ SysExStart \in Bytes /\ pendingStart \in BOOLEAN
    BY <1>1, SeqMonotonic DEF PInv, ParserTypeOK, SysExStart, Bytes
  <1> QED
    BY <1>2 DEF ChunkMessage, MidiMessages

LEMMA EmitsMessages ==
    ASSUME PInv, NEW b \in Bytes, ParseByte(b) \/ EndOfBuffer \/ Reset
    PROVE  emitted' \in Seq(MidiMessages)
  <1> DEFINE Part == ChunkMessage(run, pendingStart, FALSE)
             Whole1 == ChunkMessage(run, pendingStart, TRUE)
             Alone == ShortMessage(b, << >>)
  <1>1. << >> \in Seq(Bytes) /\ Part \in MidiMessages /\ Whole1 \in MidiMessages
    BY ChunkIsMessage, SmallSeqs
  <1>2. Alone \in MidiMessages
    BY <1>1, ShortIsMessage
  <1>3. /\ << >> \in Seq(MidiMessages) /\ <<Part>> \in Seq(MidiMessages)
        /\ <<Whole1>> \in Seq(MidiMessages) /\ <<Alone>> \in Seq(MidiMessages)
        /\ <<Part, Alone>> \in Seq(MidiMessages)
        /\ Append(<< >>, Alone) \in Seq(MidiMessages)
        /\ Append(<<Whole1>>, Alone) \in Seq(MidiMessages)
    <2> HIDE DEF Part, Whole1, Alone
    <2> QED
      BY <1>1, <1>2, SmallSeqs
  <1>4. CASE RealTime(b)
    BY <1>3, <1>4 DEF RealTime, Emit
  <1>5. CASE DumpData(b) \/ Orphan(b) \/ Reset
    BY <1>3, <1>5 DEF DumpData, Orphan, Reset, Emit
  <1>6. CASE FrameByte(b) \/ StatusBegins(b)
    BY <1>3, <1>6 DEF FrameByte, StatusBegins, Closing, Emit
  <1>7. CASE StatusAlone(b)
    BY <1>3, <1>7 DEF StatusAlone, Closing, Emit
  <1>8. CASE DataByte(b)
    <2>1. Current \in Bytes /\ BytesWith(b) \in Seq(Bytes)
      <3>1. Current \in Bytes
        BY DEF Current, PInv, ParserTypeOK, Bytes
      <3>2. data \in Seq(Bytes)
        <4>1. data \in Seq(0..127) /\ 0..127 \subseteq Bytes
          BY DEF PInv, ParserTypeOK, Bytes
        <4> QED
          BY <4>1, SeqMonotonic
      <3>3. Append(data, b) \in Seq(Bytes) /\ <<b>> \in Seq(Bytes)
        BY <3>2, AppendProperties
      <3> QED
        BY <3>1, <3>3 DEF BytesWith
    <2>2. ShortMessage(Current, BytesWith(b)) \in MidiMessages
      BY <2>1, ShortIsMessage
    <2>3. emitted' = << >> \/ emitted' = <<ShortMessage(Current, BytesWith(b))>>
      BY <1>8 DEF DataByte, BytesWith, Emit
    <2> QED
      BY <1>1, <2>2, <2>3, SmallSeqs
  <1>9. CASE EndOfBuffer
    BY <1>3, <1>9 DEF EndOfBuffer, Emit
  <1> QED
    BY <1>4, <1>5, <1>6, <1>7, <1>8, <1>9 DEF ParseByte
-----------------------------------------------------------------------------
(* A port that is not open reads nothing, and nothing is kept for it.      *)
ClosedInv == ~started.receiver => ~feeding /\ wire = << >> /\ run = << >>

LinkInv == LinkTypes /\ PInv /\ ClosedInv

LEMMA LinkInvInit == Init => LinkInv
  <1> SUFFICES ASSUME Init PROVE LinkInv
    OBVIOUS
  <1>1. /\ started = [sender |-> TRUE, receiver |-> TRUE]
        /\ open = FALSE /\ lineOpen = FALSE /\ abandoned = FALSE
        /\ faults = 0 /\ left = 0
        /\ wire = << >> /\ sent = << >> /\ handed = << >> /\ ParserInit
    BY DEF Init
  <1>2. started \in [sender : BOOLEAN, receiver : BOOLEAN] /\ started.receiver
    BY <1>1
  <1>3. 0 \in 0..MaxFaults /\ 0 <= RxBytes /\ 0 \in 0..Len(<< >>)
    BY LinkAssumption
  <1>4. << >> \in Seq(WireBytes) /\ << >> \in Seq(SentOnes) /\ << >> \in Seq(MidiMessages)
    OBVIOUS
  <1> QED
    BY <1>1, <1>2, <1>3, <1>4, PInvInit DEF LinkInv, LinkTypes, ClosedInv

(* What reaches the cable.                                                 *)
Tagged(bytes, id) == [i \in 1..Len(bytes) |-> [byte |-> bytes[i], id |-> id]]

LEMMA TaggedIs ==
    ASSUME NEW bytes \in Seq(Bytes), NEW id \in Nat
    PROVE  /\ Tagged(bytes, id) \in Seq(WireBytes) /\ Len(Tagged(bytes, id)) = Len(bytes)
           /\ \A i \in 1..Len(bytes) : Tagged(bytes, id)[i] = [byte |-> bytes[i], id |-> id]
  <1>1. Len(bytes) \in Nat /\ \A i \in 1..Len(bytes) : bytes[i] \in Bytes
    BY LenProperties, ElementOfSeq
  <1> QED
    BY <1>1 DEF Tagged, WireBytes

LEMMA PutIsTyped ==
    ASSUME LinkTypes, NEW bytes \in Seq(Bytes), NEW id \in Nat, PutOnWire(bytes, id)
    PROVE  /\ wire' \in Seq(WireBytes) /\ Len(wire') >= Len(wire)
           /\ ~started.receiver => wire' = wire
           /\ started.receiver => wire' = wire \o Tagged(bytes, id)
  <1>1. Tagged(bytes, id) \in Seq(WireBytes) /\ Len(Tagged(bytes, id)) \in Nat
    BY TaggedIs, LenProperties
  <1>2. wire \in Seq(WireBytes) /\ Len(wire) \in Nat
    BY LenProperties DEF LinkTypes
  <1>3. /\ wire \o Tagged(bytes, id) \in Seq(WireBytes)
        /\ Len(wire \o Tagged(bytes, id)) = Len(wire) + Len(Tagged(bytes, id))
    BY <1>1, <1>2, ConcatProperties
  <1>4. /\ started.receiver => wire' = wire \o Tagged(bytes, id)
        /\ ~started.receiver => wire' = wire
    BY DEF PutOnWire, Tagged
  <1>5. CASE started.receiver
    <2>1. wire' = wire \o Tagged(bytes, id)
      BY <1>4, <1>5
    <2>2. wire' \in Seq(WireBytes) /\ Len(wire') = Len(wire) + Len(Tagged(bytes, id))
      BY <1>3, <2>1, Zenon
    <2> QED
      BY <1>1, <1>2, <1>5, <2>1, <2>2
  <1>6. CASE ~started.receiver
    <2>1. wire' = wire
      BY <1>4, <1>6
    <2> QED
      BY <1>2, <1>6, <2>1
  <1> QED
    BY <1>5, <1>6

(* Damage and its kind touch nothing but intact.                           *)
Damaged(ids) ==
    sent' = [i \in DOMAIN sent |->
                IF i \in ids THEN [sent[i] EXCEPT !.intact = FALSE] ELSE sent[i]]

LEMMA DamagedIs ==
    ASSUME LinkTypes, NEW ids, Damaged(ids)
    PROVE  /\ sent' \in Seq(SentOnes) /\ Len(sent') = Len(sent)
           /\ \A i \in 1..Len(sent) :
                  /\ sent'[i].message = sent[i].message
                  /\ sent'[i].intact = (sent[i].intact /\ i \notin ids)
  <1>1. /\ Len(sent) \in Nat /\ DOMAIN sent = 1..Len(sent)
        /\ \A i \in 1..Len(sent) : sent[i] \in SentOnes
    BY LenProperties, ElementOfSeq DEF LinkTypes
  <1>2. /\ DOMAIN sent' = 1..Len(sent)
        /\ \A i \in 1..Len(sent) :
               sent'[i] = IF i \in ids THEN [sent[i] EXCEPT !.intact = FALSE] ELSE sent[i]
    BY <1>1 DEF Damaged
  <1>3. \A i \in 1..Len(sent) :
            /\ sent'[i] \in SentOnes
            /\ sent'[i].message = sent[i].message
            /\ sent'[i].intact = (sent[i].intact /\ i \notin ids)
    BY <1>1, <1>2 DEF SentOnes
  <1>4. sent' = [i \in 1..Len(sent) |-> sent'[i]]
    BY <1>1 DEF Damaged
  <1>5. sent' \in [1..Len(sent) -> SentOnes]
    BY <1>3, <1>4, Zenon
  <1>6. sent' \in Seq(SentOnes) /\ Len(sent') = Len(sent)
    <2> DEFINE n == Len(sent)
    <2>1. n \in Nat /\ sent' \in [1..n -> SentOnes]
      BY <1>1, <1>5
    <2> HIDE DEF n
    <2>2. sent' \in Seq(SentOnes) /\ Len(sent') = n
      BY <2>1
    <2> QED
      BY <2>2 DEF n
  <1> QED
    BY <1>3, <1>6
-----------------------------------------------------------------------------
(* The steps keep the types, and are steps of the parser.                  *)
OfSender ==
    (\E m \in Messages : Send(m) \/ SendCut(m))
        \/ SenderEnd \/ SenderBegin \/ SenderMoves \/ SenderBeginAgain
OfCable == LoseByte \/ ChangeByte
OfReceiver ==
    Read \/ Parse \/ Flush \/ ReceiverEnd \/ ReceiverBegin
        \/ \E moved \in BOOLEAN : ReceiverBeginAgain(moved)

LEMMA FaultCounts ==
    ASSUME LinkTypes, faults < MaxFaults, faults' = faults + 1
    PROVE  faults' \in 0..MaxFaults /\ faults' > faults /\ faults' # 0
  BY LinkAssumption DEF LinkTypes

LEMMA SentGrows ==
    ASSUME LinkTypes, NEW m \in Messages, NEW i \in BOOLEAN,
           sent' = Append(sent, [message |-> m, intact |-> i])
    PROVE  /\ sent' \in Seq(SentOnes) /\ Len(sent') = Len(sent) + 1
           /\ sent'[Len(sent) + 1] = [message |-> m, intact |-> i]
           /\ \A k \in 1..Len(sent) : sent'[k] = sent[k]
  <1>1. [message |-> m, intact |-> i] \in SentOnes /\ sent \in Seq(SentOnes)
    BY DEF SentOnes, LinkTypes
  <1> QED
    BY <1>1, AppendProperties

LEMMA CloseIs ==
    ASSUME LinkTypes, NEW written \in BOOLEAN, CloseStream(written)
    PROVE  /\ wire' \in Seq(WireBytes) /\ Len(wire') >= Len(wire)
           /\ ~started.receiver => wire' = wire
           /\ open' = FALSE /\ lineOpen' \in BOOLEAN /\ abandoned' \in BOOLEAN
           /\ wire' = wire \/ wire' = wire \o Tagged(<<SysExEnd>>, 0)
  <1>1. <<SysExEnd>> \in Seq(Bytes) /\ 0 \in Nat
    BY DEF SysExEnd, Bytes
  <1>2. wire \in Seq(WireBytes) /\ Len(wire) \in Nat
    BY LenProperties DEF LinkTypes
  <1>3. open' = FALSE /\ lineOpen' \in BOOLEAN /\ abandoned' \in BOOLEAN
    BY DEF CloseStream, LinkTypes
  <1>4. CASE open /\ written
    <2>1. PutOnWire(<<SysExEnd>>, 0)
      BY <1>4 DEF CloseStream
    <2>2. /\ wire' \in Seq(WireBytes) /\ Len(wire') >= Len(wire)
          /\ ~started.receiver => wire' = wire
          /\ started.receiver => wire' = wire \o Tagged(<<SysExEnd>>, 0)
      BY <1>1, <2>1, PutIsTyped
    <2>3. started.receiver \in BOOLEAN
      BY DEF LinkTypes
    <2> QED
      BY <1>3, <2>2, <2>3
  <1>5. CASE ~(open /\ written)
    <2>1. wire' = wire
      BY <1>5 DEF CloseStream
    <2> QED
      BY <1>2, <1>3, <2>1
  <1> QED
    BY <1>4, <1>5

LEMMA SenderKeepsTypes ==
    ASSUME LinkInv, OfSender
    PROVE  LinkTypes' /\ ClosedInv' /\ UNCHANGED receiveVars
  <1>1. UNCHANGED receiveVars
    BY DEF OfSender, Send, SendCut, SenderEnd, SenderBegin, SenderMoves, SenderBeginAgain,
           receiveVars
  <1>2. handed' = handed /\ feeding' = feeding /\ run' = run
    BY <1>1 DEF receiveVars, vars, parserVars
  <1>3. LinkTypes /\ ClosedInv
    BY DEF LinkInv
  <1>4. SUFFICES /\ started' \in [sender : BOOLEAN, receiver : BOOLEAN]
                 /\ started'.receiver = started.receiver
                 /\ open' \in BOOLEAN /\ lineOpen' \in BOOLEAN /\ abandoned' \in BOOLEAN
                 /\ faults' \in 0..MaxFaults
                 /\ wire' \in Seq(WireBytes) /\ Len(wire') >= Len(wire)
                 /\ ~started.receiver => wire' = wire
                 /\ sent' \in Seq(SentOnes) /\ left' = left
    <2>1. Len(wire') \in Nat /\ Len(wire) \in Nat /\ left' \in 0..Len(wire')
      <3>1. Len(wire') \in Nat /\ Len(wire) \in Nat
        BY <1>3, <1>4, LenProperties DEF LinkTypes
      <3> QED
        BY <3>1, <1>3, <1>4 DEF LinkTypes
    <2> QED
      BY <1>1, <1>2, <1>3, <1>4, <2>1 DEF LinkTypes, ClosedInv
  <1>5. wire \in Seq(WireBytes) /\ sent \in Seq(SentOnes) /\ Len(wire) \in Nat /\ Len(sent) \in Nat
    BY <1>3, LenProperties DEF LinkTypes
  <1>6. ASSUME NEW m \in Messages, Send(m) PROVE <1>4!1
    <2>1. /\ PutOnWire(Line(m), Len(sent) + 1) /\ left' = left /\ faults' = faults
          /\ lineOpen' = LineAfter(Line(m), lineOpen) /\ open' = OpenAfter(open, m)
          /\ abandoned' = (abandoned /\ lineOpen' /\ ~open')
          /\ sent' = Append(sent, [message |-> m, intact |-> started.receiver])
          /\ started' = started
      BY <1>6 DEF Send
    <2>2. Line(m) \in Seq(Bytes) /\ Len(sent) + 1 \in Nat
      BY <1>5, LineIsBytes
    <2>3. /\ wire' \in Seq(WireBytes) /\ Len(wire') >= Len(wire)
          /\ ~started.receiver => wire' = wire
      BY <1>3, <2>1, <2>2, PutIsTyped
    <2>4. started.receiver \in BOOLEAN /\ open \in BOOLEAN /\ lineOpen \in BOOLEAN
      BY <1>3 DEF LinkTypes
    <2>5. sent' \in Seq(SentOnes)
      BY <1>3, <2>1, <2>4, SentGrows
    <2>6. open' \in BOOLEAN /\ lineOpen' \in BOOLEAN /\ abandoned' \in BOOLEAN
      BY <2>1, <2>4 DEF OpenAfter, LineAfter
    <2> QED
      BY <1>3, <2>1, <2>3, <2>5, <2>6 DEF LinkTypes
  <1>7. ASSUME NEW m \in Messages, SendCut(m) PROVE <1>4!1
    <2>1. PICK n \in 0 .. Len(Line(m)) - 1 :
              /\ PutOnWire(SubSeq(Line(m), 1, n), Len(sent) + 1)
              /\ lineOpen' = LineAfter(SubSeq(Line(m), 1, n), lineOpen)
              /\ open' = OpenAfterCut(m, n)
              /\ abandoned' = ((abandoned \/ m.chunk) /\ lineOpen' /\ ~open')
      BY <1>7 DEF SendCut
    <2>2. /\ left' = left /\ faults' = faults + 1 /\ faults < MaxFaults
          /\ sent' = Append(sent, [message |-> m, intact |-> FALSE])
          /\ started' = started
      BY <1>7 DEF SendCut
    <2>3. SubSeq(Line(m), 1, n) \in Seq(Bytes) /\ Len(sent) + 1 \in Nat
      <3>1. Line(m) \in Seq(Bytes)
        BY LineIsBytes
      <3>2. \A i \in 1..n : Line(m)[i] \in Bytes
        BY <3>1, LenProperties, ElementOfSeq
      <3> QED
        BY <1>5, <3>1, <3>2, LenProperties, SubSeqProperties
    <2>4. /\ wire' \in Seq(WireBytes) /\ Len(wire') >= Len(wire)
          /\ ~started.receiver => wire' = wire
      BY <1>3, <2>1, <2>3, PutIsTyped
    <2>5. sent' \in Seq(SentOnes)
      BY <1>3, <2>2, SentGrows
    <2>6. open' \in BOOLEAN /\ lineOpen' \in BOOLEAN /\ abandoned' \in BOOLEAN
      <3>1. open \in BOOLEAN /\ lineOpen \in BOOLEAN
        BY <1>3 DEF LinkTypes
      <3> QED
        BY <2>1, <3>1 DEF OpenAfterCut, LineAfter
    <2>7. faults' \in 0..MaxFaults
      BY <1>3, <2>2, FaultCounts
    <2> QED
      BY <1>3, <2>2, <2>4, <2>5, <2>6, <2>7 DEF LinkTypes
  <1>8. ASSUME SenderEnd \/ SenderBegin \/ SenderMoves \/ SenderBeginAgain PROVE <1>4!1
    <2>1. /\ left' = left /\ faults' = faults + 1 /\ faults < MaxFaults /\ sent' = sent
          /\ started' \in [sender : BOOLEAN, receiver : BOOLEAN]
          /\ started'.receiver = started.receiver
      BY <1>3, <1>8 DEF SenderEnd, SenderBegin, SenderMoves, SenderBeginAgain, LinkTypes
    <2>2. \/ \E written \in BOOLEAN : CloseStream(written)
          \/ /\ open' = FALSE /\ wire' = wire /\ lineOpen' = lineOpen
             /\ abandoned' = abandoned \/ abandoned' = (abandoned \/ open)
      BY <1>8 DEF SenderEnd, SenderBegin, SenderMoves, SenderBeginAgain
    <2>3. /\ wire' \in Seq(WireBytes) /\ Len(wire') >= Len(wire)
          /\ ~started.receiver => wire' = wire
      <3>1. CASE \E written \in BOOLEAN : CloseStream(written)
        BY <1>3, <3>1, CloseIs
      <3>2. CASE wire' = wire
        BY <1>5, <3>2
      <3> QED
        BY <2>2, <3>1, <3>2
    <2>4. open' \in BOOLEAN /\ lineOpen' \in BOOLEAN /\ abandoned' \in BOOLEAN
      <3>1. lineOpen \in BOOLEAN /\ abandoned \in BOOLEAN /\ open \in BOOLEAN
        BY <1>3 DEF LinkTypes
      <3> QED
        BY <1>3, <2>2, <3>1, CloseIs
    <2>5. faults' \in 0..MaxFaults
      BY <1>3, <2>1, FaultCounts
    <2> QED
      BY <1>5, <2>1, <2>3, <2>4, <2>5
  <1> QED
    BY <1>6, <1>7, <1>8 DEF OfSender

(* What the cable loses.                                                   *)
LEMMA RemovedIs ==
    ASSUME NEW S, NEW s \in Seq(S), NEW i \in 1..Len(s)
    PROVE  /\ RemoveAt(s, i) \in Seq(S) /\ Len(RemoveAt(s, i)) = Len(s) - 1
           /\ \A k \in 1 .. Len(s) - 1 :
                  RemoveAt(s, i)[k] = IF k < i THEN s[k] ELSE s[k + 1]
  <1> DEFINE a == SubSeq(s, 1, i - 1)
             b == SubSeq(s, i + 1, Len(s))
  <1>1. Len(s) \in Nat /\ i \in Nat /\ 1 <= i /\ i <= Len(s)
        /\ \A k \in 1..Len(s) : s[k] \in S
    BY LenProperties, ElementOfSeq
  <1>2. a \in Seq(S) /\ Len(a) = i - 1 /\ \A k \in 1 .. i - 1 : a[k] = s[k]
    BY <1>1, SubSeqProperties
  <1>3. b \in Seq(S) /\ Len(b) = Len(s) - i /\ \A k \in 1 .. Len(s) - i : b[k] = s[i + k]
    <2>1. i + 1 \in Int /\ Len(s) \in Int /\ \A k \in i + 1 .. Len(s) : s[k] \in S
      BY <1>1
    <2>2. /\ b \in Seq(S) /\ Len(b) = (IF i + 1 <= Len(s) THEN Len(s) - (i + 1) + 1 ELSE 0)
          /\ \A k \in 1 .. Len(s) - (i + 1) + 1 : b[k] = s[(i + 1) + k - 1]
      BY <2>1, SubSeqProperties
    <2> HIDE DEF b
    <2> QED
      BY <1>1, <2>2
  <1>4. RemoveAt(s, i) = a \o b
    BY DEF RemoveAt
  <1> HIDE DEF a, b
  <1>5. /\ a \o b \in Seq(S) /\ Len(a \o b) = Len(a) + Len(b)
        /\ \A k \in 1 .. Len(a) + Len(b) :
               (a \o b)[k] = IF k <= Len(a) THEN a[k] ELSE b[k - Len(a)]
    BY <1>2, <1>3, ConcatProperties
  <1>6. ASSUME NEW k \in 1 .. Len(s) - 1
        PROVE  (a \o b)[k] = IF k < i THEN s[k] ELSE s[k + 1]
    <2>1. k \in 1 .. Len(a) + Len(b)
      BY <1>1, <1>2, <1>3
    <2>2. CASE k < i
      BY <1>1, <1>2, <1>5, <2>1, <2>2
    <2>3. CASE ~(k < i)
      <3>1. k - Len(a) \in 1 .. Len(s) - i /\ i + (k - Len(a)) = k + 1 /\ ~(k <= Len(a))
        BY <1>1, <1>2, <2>3
      <3>2. (a \o b)[k] = b[k - Len(a)] /\ b[k - Len(a)] = s[i + (k - Len(a))]
        BY <1>3, <1>5, <2>1, <3>1
      <3> QED
        BY <2>3, <3>1, <3>2
    <2> QED
      BY <2>2, <2>3
  <1> QED
    BY <1>1, <1>2, <1>3, <1>4, <1>5, <1>6

OnWire(i) == \E w \in 1..Len(wire) : wire[w].id = i

LEMMA CableIs ==
    ASSUME LinkTypes, OfCable
    PROVE  \E k \in left + 1 .. Len(wire) :
               /\ Damaged({wire[k].id})
               /\ \/ wire' = RemoveAt(wire, k)
                  \/ \E b \in Bytes : wire' = [wire EXCEPT ![k].byte = b]
  BY LinkAssumption DEF OfCable, LoseByte, ChangeByte, Damage, Damaged

LEMMA ChangedIs ==
    ASSUME NEW w \in Seq(WireBytes), NEW k \in 1..Len(w), NEW b \in Bytes
    PROVE  LET v == [w EXCEPT ![k].byte = b] IN
           /\ v \in Seq(WireBytes) /\ Len(v) = Len(w)
           /\ \A j \in 1..Len(w) : v[j].id = w[j].id /\ (j # k => v[j] = w[j])
  <1>1. w[k] \in WireBytes /\ \A j \in 1..Len(w) : w[j] \in WireBytes
    BY ElementOfSeq
  <1> DEFINE e == [w[k] EXCEPT !.byte = b]
  <1>2. e \in WireBytes /\ e.id = w[k].id
    BY <1>1 DEF WireBytes
  <1>3. [w EXCEPT ![k].byte = b] = [w EXCEPT ![k] = e]
    OBVIOUS
  <1> HIDE DEF e
  <1>4. /\ [w EXCEPT ![k] = e] \in Seq(WireBytes) /\ Len([w EXCEPT ![k] = e]) = Len(w)
        /\ \A j \in 1..Len(w) : [w EXCEPT ![k] = e][j] = IF j = k THEN e ELSE w[j]
    BY <1>2, ExceptSeq
  <1> QED
    BY <1>2, <1>3, <1>4

LEMMA CableKeepsTypes ==
    ASSUME LinkInv, OfCable
    PROVE  LinkTypes' /\ ClosedInv' /\ UNCHANGED receiveVars
  <1>1. /\ UNCHANGED receiveVars /\ UNCHANGED <<started, open, left, lineOpen, abandoned>>
        /\ faults' = faults + 1 /\ faults < MaxFaults
    BY DEF OfCable, LoseByte, ChangeByte, receiveVars
  <1>2. handed' = handed /\ feeding' = feeding /\ run' = run
    BY <1>1 DEF receiveVars, vars, parserVars
  <1>3. LinkTypes /\ ClosedInv
    BY DEF LinkInv
  <1>4. PICK k \in left + 1 .. Len(wire) :
               /\ Damaged({wire[k].id})
               /\ \/ wire' = RemoveAt(wire, k)
                  \/ \E b \in Bytes : wire' = [wire EXCEPT ![k].byte = b]
    BY <1>3, CableIs
  <1>5. /\ wire \in Seq(WireBytes) /\ Len(wire) \in Nat /\ left \in Nat
        /\ left + 1 <= k /\ k <= Len(wire) /\ k \in 1..Len(wire)
    BY <1>3, LenProperties DEF LinkTypes
  <1>6. wire # << >>
    <2>1. Len(<< >>) = 0
      OBVIOUS
    <2> QED
      BY <1>5, <2>1
  <1>7. started.receiver
    BY <1>3, <1>6 DEF ClosedInv
  <1>8. wire' \in Seq(WireBytes) /\ Len(wire') \in Nat /\ left <= Len(wire')
    <2>1. CASE wire' = RemoveAt(wire, k)
      <3>1. RemoveAt(wire, k) \in Seq(WireBytes) /\ Len(RemoveAt(wire, k)) = Len(wire) - 1
        BY <1>5, RemovedIs
      <3> QED
        BY <1>5, <2>1, <3>1
    <2>2. CASE \E b \in Bytes : wire' = [wire EXCEPT ![k].byte = b]
      <3>1. PICK b \in Bytes : wire' = [wire EXCEPT ![k].byte = b]
        BY <2>2
      <3>2. wire' \in Seq(WireBytes) /\ Len(wire') = Len(wire)
        BY <1>5, <3>1, ChangedIs
      <3> QED
        BY <1>5, <3>2
    <2> QED
      BY <1>4, <2>1, <2>2
  <1>9. sent' \in Seq(SentOnes)
    BY <1>3, <1>4, DamagedIs
  <1>10. faults' \in 0..MaxFaults
    BY <1>1, <1>3, FaultCounts
  <1>11. ClosedInv'
    BY <1>1, <1>7 DEF ClosedInv
  <1> QED
    BY <1>1, <1>2, <1>3, <1>5, <1>8, <1>9, <1>10, <1>11 DEF LinkTypes

(* The receiver's steps are steps of its parser.                           *)
FromReceiver == LinkTypes' /\ ClosedInv' /\ [ParserNext]_vars

LEMMA ReadStep ==
    ASSUME LinkInv, Read
    PROVE  FromReceiver
  <1>1. /\ UNCHANGED <<receiveVars, sendVars, started, wire, faults>>
        /\ left' \in 1..Len(wire) /\ left' <= RxBytes
    BY DEF Read
  <1>2. LinkTypes /\ ClosedInv /\ Len(wire) \in Nat
    BY LenProperties DEF LinkInv, LinkTypes
  <1> QED
    BY <1>1, <1>2 DEF FromReceiver, LinkTypes, ClosedInv, receiveVars, sendVars, vars, parserVars

LEMMA ParseIs ==
    ASSUME LinkInv, Parse
    PROVE  /\ wire # << >> /\ wire[1] \in WireBytes /\ wire[1].byte \in Bytes
           /\ ParseByte(wire[1].byte) /\ emitted' \in Seq(MidiMessages)
           /\ Tail(wire) \in Seq(WireBytes) /\ Len(Tail(wire)) = Len(wire) - 1
           /\ Len(wire) \in Nat /\ Len(wire) >= 1 /\ started.receiver
           /\ \A i \in 1 .. Len(wire) - 1 : Tail(wire)[i] = wire[i + 1]
  <1>1. wire \in Seq(WireBytes) /\ left > 0 /\ left \in 0..Len(wire) /\ ParseByte(wire[1].byte)
    BY DEF LinkInv, LinkTypes, Parse
  <1>2. Len(wire) \in Nat /\ Len(wire) >= 1 /\ Len(<< >>) = 0
    BY <1>1, LenProperties
  <1>3. wire # << >> /\ wire[1] \in WireBytes
    BY <1>1, <1>2, ElementOfSeq
  <1>4. wire[1].byte \in Bytes
    BY <1>3 DEF WireBytes
  <1>5. /\ Tail(wire) \in Seq(WireBytes) /\ Len(Tail(wire)) = Len(wire) - 1
        /\ \A i \in 1 .. Len(Tail(wire)) : Tail(wire)[i] = wire[i + 1]
    BY <1>1, <1>3, HeadTailProperties
  <1>6. emitted' \in Seq(MidiMessages)
    BY <1>1, <1>4, EmitsMessages DEF LinkInv
  <1> QED
    BY <1>1, <1>2, <1>3, <1>4, <1>5, <1>6 DEF LinkInv, ClosedInv

LEMMA ParseStep ==
    ASSUME LinkInv, Parse
    PROVE  FromReceiver
  <1>1. /\ wire' = Tail(wire) /\ left' = left - 1 /\ left > 0
        /\ handed' = handed \o emitted' /\ UNCHANGED <<sendVars, started, faults>>
    BY DEF Parse
  <1>2. /\ LinkTypes /\ emitted' \in Seq(MidiMessages) /\ wire[1].byte \in Bytes
        /\ ParseByte(wire[1].byte) /\ started.receiver
        /\ Tail(wire) \in Seq(WireBytes) /\ Len(Tail(wire)) = Len(wire) - 1 /\ Len(wire) \in Nat
    BY ParseIs DEF LinkInv
  <1>3. [ParserNext]_vars
    BY <1>2 DEF ParserNext
  <1>4. handed' \in Seq(MidiMessages)
    BY <1>1, <1>2, ConcatProperties DEF LinkTypes
  <1>5. left' \in 0..Len(wire') /\ left' <= RxBytes
    BY <1>1, <1>2, LinkAssumption DEF LinkTypes
  <1> QED
    BY <1>1, <1>2, <1>3, <1>4, <1>5 DEF FromReceiver, LinkTypes, ClosedInv, sendVars

LEMMA FlushStep ==
    ASSUME LinkInv, Flush
    PROVE  FromReceiver
  <1>1. /\ handed' = handed \o emitted' /\ EndOfBuffer
        /\ UNCHANGED <<sendVars, started, wire, left, faults>>
    BY DEF Flush
  <1>2. emitted' \in Seq(MidiMessages)
    <2>1. 0 \in Bytes
      BY DEF Bytes
    <2> QED
      BY <1>1, <2>1, EmitsMessages DEF LinkInv
  <1>3. handed' \in Seq(MidiMessages)
    BY <1>1, <1>2, ConcatProperties DEF LinkInv, LinkTypes
  <1>4. started.receiver
    BY <1>1 DEF EndOfBuffer, LinkInv, ClosedInv
  <1>5. LinkTypes'
    BY <1>1, <1>3 DEF LinkInv, LinkTypes, sendVars
  <1> QED
    BY <1>1, <1>4, <1>5 DEF FromReceiver, ClosedInv, ParserNext

LEMMA EndStep ==
    ASSUME LinkInv, ReceiverEnd
    PROVE  FromReceiver
  <1>1. /\ Reset /\ feeding' = FALSE /\ DamageAll /\ wire' = << >> /\ left = 0
        /\ started' = [started EXCEPT !.receiver = FALSE]
        /\ faults' = faults + 1 /\ faults < MaxFaults
        /\ UNCHANGED <<open, lineOpen, abandoned, left, handed>>
    BY DEF ReceiverEnd
  <1>2. sent' \in Seq(SentOnes)
    <2>1. Damaged({i \in Nat : OnWire(i)}) \/ Damaged({i \in DOMAIN sent : OnWire(i)})
      BY <1>1 DEF DamageAll, Damaged, OnWire
    <2> QED
      BY <2>1, DamagedIs DEF LinkInv
  <1>3. faults' \in 0..MaxFaults
    BY <1>1, FaultCounts DEF LinkInv
  <1>4. << >> \in Seq(WireBytes) /\ Len(<< >>) = 0
    OBVIOUS
  <1>5. wire' \in Seq(WireBytes) /\ left' \in 0..Len(wire') /\ left' <= RxBytes
    BY <1>1, <1>4 DEF LinkInv, LinkTypes
  <1>6. LinkTypes'
    BY <1>1, <1>2, <1>3, <1>5 DEF LinkInv, LinkTypes
  <1> QED
    BY <1>1, <1>6 DEF FromReceiver, ClosedInv, ParserNext, Reset

LEMMA BeginStep ==
    ASSUME LinkInv, ReceiverBegin
    PROVE  FromReceiver
  <1>1. /\ ~started.receiver /\ Reset /\ feeding' = feeding
        /\ started' = [started EXCEPT !.receiver = TRUE]
        /\ faults' = faults + 1 /\ faults < MaxFaults
        /\ UNCHANGED <<sendVars, wire, left, handed>>
    BY DEF ReceiverBegin
  <1>2. feeding' = FALSE
    BY <1>1 DEF LinkInv, ClosedInv, PInv, ParserTypeOK
  <1>3. faults' \in 0..MaxFaults
    BY <1>1, FaultCounts DEF LinkInv
  <1>4. started' \in [sender : BOOLEAN, receiver : BOOLEAN] /\ started'.receiver
    BY <1>1 DEF LinkInv, LinkTypes
  <1>5. LinkTypes'
    BY <1>1, <1>3, <1>4 DEF LinkInv, LinkTypes, sendVars
  <1> QED
    BY <1>1, <1>2, <1>4, <1>5 DEF FromReceiver, ClosedInv, ParserNext

LEMMA BeginAgainStep ==
    ASSUME LinkInv, ~BeginsMidDump, NEW moved \in BOOLEAN, ReceiverBeginAgain(moved)
    PROVE  FromReceiver
  <1>1. /\ started.receiver /\ Reset /\ ~feeding /\ feeding' = feeding
        /\ DamageAll /\ wire' = (IF moved THEN << >> ELSE wire) /\ left = 0
        /\ faults' = faults + 1 /\ faults < MaxFaults
        /\ UNCHANGED <<started, open, lineOpen, abandoned, left, handed>>
    BY DEF ReceiverBeginAgain
  <1>2. feeding' = FALSE
    BY <1>1 DEF LinkInv, PInv, ParserTypeOK
  <1>3. sent' \in Seq(SentOnes)
    <2>1. Damaged({i \in Nat : OnWire(i)}) \/ Damaged({i \in DOMAIN sent : OnWire(i)})
      BY <1>1 DEF DamageAll, Damaged, OnWire
    <2> QED
      BY <2>1, DamagedIs DEF LinkInv
  <1>4. faults' \in 0..MaxFaults
    BY <1>1, FaultCounts DEF LinkInv
  <1>5. << >> \in Seq(WireBytes) /\ Len(<< >>) = 0
    OBVIOUS
  <1>6. wire' \in Seq(WireBytes) /\ Len(wire') \in Nat
    BY <1>1, <1>5, LenProperties DEF LinkInv, LinkTypes
  <1>7. LinkTypes'
    BY <1>1, <1>3, <1>4, <1>6 DEF LinkInv, LinkTypes
  <1> QED
    BY <1>1, <1>2, <1>7 DEF FromReceiver, ClosedInv, ParserNext

LEMMA LinkInvNext ==
    ASSUME LinkInv, ~BeginsMidDump, [Next]_linkVars
    PROVE  LinkInv' /\ [ParserNext]_vars
  <1>1. CASE OfReceiver
    <2>1. FromReceiver
      BY <1>1, ReadStep, ParseStep, FlushStep, EndStep, BeginStep, BeginAgainStep DEF OfReceiver
    <2>2. PInv'
      BY <2>1, PInvNext DEF LinkInv, FromReceiver
    <2> QED
      BY <2>1, <2>2 DEF LinkInv, FromReceiver
  <1>2. CASE OfSender \/ OfCable \/ UNCHANGED linkVars
    <2>1. LinkTypes' /\ ClosedInv' /\ UNCHANGED receiveVars
      <3>1. CASE UNCHANGED linkVars
        BY <3>1 DEF linkVars, receiveVars, sendVars, vars, parserVars, LinkInv, LinkTypes, ClosedInv
      <3> QED
        BY <1>2, <3>1, SenderKeepsTypes, CableKeepsTypes
    <2>2. UNCHANGED vars
      BY <2>1 DEF receiveVars
    <2>3. PInv'
      BY <2>2, PInvNext DEF LinkInv
    <2> QED
      BY <2>1, <2>2, <2>3 DEF LinkInv
  <1> QED
    BY <1>1, <1>2 DEF Next, OfReceiver, OfSender, OfCable

(* As long as begin() is not called again in the middle of a dump, the     *)
(* parser of the link is a Parser, so what the router is handed is framed  *)
(* whatever the cable and the sender do.                                   *)
THEOREM LinkParses == ~BeginsMidDump => (Spec => ParserSpec)
  <1> SUFFICES ASSUME ~BeginsMidDump PROVE Spec => ParserSpec
    OBVIOUS
  <1>1. LinkInv /\ [Next]_linkVars => LinkInv' /\ [ParserNext]_vars
    BY LinkInvNext
  <1>2. Init => ParserInit
    BY DEF Init
  <1> QED
    BY <1>1, <1>2, LinkInvInit, PTL DEF Spec, ParserSpec

THEOREM LinkFrames == ~BeginsMidDump => (Spec => EmitsFramed)
  BY LinkParses, ParserFrames
-----------------------------------------------------------------------------
(* The last mark of a line says what it leaves open.                       *)
LEMMA SevenBits ==
    /\ \A x \in 0..127 : IsDataByte(x) /\ ~IsStatusByte(x) /\ ~IsSystemRealTime(x) /\ x \in Nat
    /\ \A x \in Bytes : IsDataByte(x) => x \in 0..127
  BY DEF IsDataByte, IsStatusByte, IsSystemRealTime, Bytes

LEMMA LineOf ==
    ASSUME NEW m \in Messages
    PROVE  /\ m \in MidiMessages /\ IsComplete(m) /\ m.data \in Seq(Bytes) /\ Len(m.data) \in Nat
           /\ \A i \in 1..Len(m.data) : m.data[i] \in 0..127
           /\ ~m.chunk => /\ Line(m)[1] = m.status
                          /\ \A i \in 2..Len(Line(m)) : Line(m)[i] = m.data[i - 1]
           /\ m.chunk /\ m.end => /\ Len(Line(m)) >= 1
                                  /\ Line(m)[Len(Line(m))] = SysExEnd
  <1>1. m \in MidiMessages /\ IsComplete(m)
    BY LinkAssumption
  <1>2. m.data \in Seq(Bytes) /\ Len(m.data) \in Nat /\ m.status \in Bytes
    BY <1>1, LenProperties DEF MidiMessages
  <1>3. \A i \in 1..Len(m.data) : m.data[i] \in 0..127
    <2> TAKE i \in 1..Len(m.data)
    <2>1. m.data[i] \in Bytes
      BY <1>2, ElementOfSeq
    <2>2. IsDataByte(m.data[i])
      BY <1>1 DEF IsComplete
    <2> QED
      BY <2>1, <2>2, SevenBits
  <1>4. ASSUME ~m.chunk
        PROVE  /\ Line(m)[1] = m.status
               /\ \A i \in 2..Len(Line(m)) : Line(m)[i] = m.data[i - 1]
    <2>1. Line(m) = <<m.status>> \o m.data
      BY <1>4 DEF Line
    <2>2. <<m.status>> \in Seq(Bytes) /\ Len(<<m.status>>) = 1 /\ <<m.status>>[1] = m.status
      BY <1>2
    <2> QED
      BY <1>2, <2>1, <2>2, ConcatProperties
  <1>5. ASSUME m.chunk, m.end
        PROVE  Len(Line(m)) >= 1 /\ Line(m)[Len(Line(m))] = SysExEnd
    <2> DEFINE head == (IF m.start THEN <<SysExStart>> ELSE << >>) \o m.data
    <2>1. Line(m) = head \o <<SysExEnd>>
      BY <1>5 DEF Line
    <2>2. head \in Seq(Bytes)
      <3>1. (IF m.start THEN <<SysExStart>> ELSE << >>) \in Seq(Bytes)
        <4>1. << >> \in Seq(Bytes) /\ <<SysExStart>> \in Seq(Bytes)
          BY DEF SysExStart, Bytes
        <4> QED
          BY <4>1
      <3> QED
        BY <1>2, <3>1, ConcatProperties
    <2>3. /\ <<SysExEnd>> \in Seq(Bytes) /\ Len(<<SysExEnd>>) = 1
          /\ <<SysExEnd>>[1] = SysExEnd
      BY DEF SysExEnd, Bytes
    <2> HIDE DEF head
    <2>4. Len(head) \in Nat
      BY <2>2, LenProperties
    <2> QED
      BY <2>1, <2>2, <2>3, <2>4, ConcatProperties
  <1> QED
    BY <1>1, <1>2, <1>3, <1>4, <1>5

LEMMA LastMark ==
    ASSUME NEW bytes, NEW was, NEW n \in 1..Len(bytes), Len(bytes) \in Nat,
           IsStatusByte(bytes[n]), ~IsSystemRealTime(bytes[n]),
           \A i \in n + 1 .. Len(bytes) : IsDataByte(bytes[i]) /\ bytes[i] \in Nat
    PROVE  LineAfter(bytes, was) = (bytes[n] = SysExStart)
  <1> DEFINE marks == {i \in 1..Len(bytes) :
                           IsStatusByte(bytes[i]) /\ ~IsSystemRealTime(bytes[i])}
  <1>1. n \in marks /\ \A i \in marks : i \in Nat /\ i <= n
    BY DEF IsStatusByte, IsDataByte
  <1>2. LineAfter(bytes, was) = (bytes[Max(marks)] = SysExStart)
    BY <1>1 DEF LineAfter
  <1> HIDE DEF marks
  <1>3. \A x \in marks : (\A y \in marks : x >= y) => x = n
    BY <1>1
  <1>4. Max(marks) = n
    BY <1>1, <1>3 DEF Max
  <1> QED
    BY <1>2, <1>4

LEMMA LineEnds ==
    ASSUME NEW m \in Messages, NEW was
    PROVE  /\ IsRealTime(m) => LineAfter(Line(m), was) = was
           /\ ~m.chunk /\ ~IsRealTime(m) => ~LineAfter(Line(m), was)
           /\ m.chunk /\ m.end => ~LineAfter(Line(m), was)
  <1>1. /\ IsComplete(m) /\ Line(m) \in Seq(Bytes) /\ Len(m.data) \in Nat
        /\ \A i \in 1..Len(m.data) : m.data[i] \in 0..127
        /\ ~m.chunk => /\ Line(m)[1] = m.status /\ Len(Line(m)) = 1 + Len(m.data)
                       /\ \A i \in 2..Len(Line(m)) : Line(m)[i] = m.data[i - 1]
        /\ m.chunk /\ m.end => Len(Line(m)) >= 1 /\ Line(m)[Len(Line(m))] = SysExEnd
    BY LineOf, LineIsBytes
  <1>2. Len(Line(m)) \in Nat
    BY <1>1, LenProperties
  <1>3. ASSUME ~m.chunk, NEW i \in 2..Len(Line(m)) PROVE Line(m)[i] \in 0..127
    <2>1. i - 1 \in 1..Len(m.data) /\ Line(m)[i] = m.data[i - 1]
      BY <1>1, <1>3
    <2> QED
      BY <1>1, <2>1
  <1>4. ASSUME IsRealTime(m) PROVE LineAfter(Line(m), was) = was
    <2>1. ~m.chunk /\ IsSystemRealTime(m.status)
      BY <1>4 DEF IsRealTime
    <2>2. \A i \in 1..Len(Line(m)) : ~(IsStatusByte(Line(m)[i]) /\ ~IsSystemRealTime(Line(m)[i]))
      <3> TAKE i \in 1..Len(Line(m))
      <3>1. CASE i = 1
        BY <1>1, <2>1, <3>1
      <3>2. CASE i # 1
        <4>1. i \in 2..Len(Line(m))
          BY <1>2, <3>2
        <4>2. Line(m)[i] \in 0..127
          BY <1>3, <2>1, <4>1
        <4> QED
          BY <4>2, SevenBits
      <3> QED
        BY <3>1, <3>2
    <2> QED
      BY <2>2 DEF LineAfter
  <1>5. ASSUME ~m.chunk, ~IsRealTime(m) PROVE ~LineAfter(Line(m), was)
    <2>1. HasFixedLength(m.status) /\ ~IsSystemRealTime(m.status)
      BY <1>1, <1>5 DEF IsRealTime, IsComplete
    <2>2. IsStatusByte(m.status) /\ m.status # SysExStart
      BY <2>1 DEF HasFixedLength
    <2>3. /\ 1 \in 1..Len(Line(m)) /\ Line(m)[1] = m.status
          /\ \A i \in 1 + 1 .. Len(Line(m)) : IsDataByte(Line(m)[i]) /\ Line(m)[i] \in Nat
      <3>1. 1 \in 1..Len(Line(m)) /\ Line(m)[1] = m.status
        BY <1>1, <1>2, <1>5
      <3>2. \A i \in 2..Len(Line(m)) : Line(m)[i] \in 0..127
        BY <1>3, <1>5
      <3>3. ASSUME NEW i \in 1 + 1 .. Len(Line(m))
            PROVE  IsDataByte(Line(m)[i]) /\ Line(m)[i] \in Nat
        <4>1. i \in 2..Len(Line(m))
          BY <1>2
        <4>2. Line(m)[i] \in 0..127
          BY <3>2, <4>1
        <4> QED
          BY <4>2, SevenBits
      <3> QED
        BY <3>1, <3>3
    <2>4. LineAfter(Line(m), was) = (Line(m)[1] = SysExStart)
      BY <1>2, <2>1, <2>2, <2>3, LastMark
    <2> QED
      BY <2>2, <2>3, <2>4
  <1>6. ASSUME m.chunk, m.end PROVE ~LineAfter(Line(m), was)
    <2>1. /\ Len(Line(m)) \in 1..Len(Line(m)) /\ Line(m)[Len(Line(m))] = SysExEnd
          /\ \A i \in Len(Line(m)) + 1 .. Len(Line(m)) : FALSE
      BY <1>1, <1>2, <1>6
    <2>2. IsStatusByte(SysExEnd) /\ ~IsSystemRealTime(SysExEnd) /\ SysExEnd # SysExStart
      BY DEF IsStatusByte, IsSystemRealTime, SysExEnd, SysExStart
    <2>3. LineAfter(Line(m), was) = (Line(m)[Len(Line(m))] = SysExStart)
      BY <1>2, <2>1, <2>2, LastMark
    <2> QED
      BY <2>1, <2>2, <2>3
  <1> QED
    BY <1>4, <1>5, <1>6

(* The line is in a dump where the port is in one, or has given one up.    *)
LineInv ==
    /\ started \in [sender : BOOLEAN, receiver : BOOLEAN]
    /\ open \in BOOLEAN /\ lineOpen \in BOOLEAN /\ abandoned \in BOOLEAN
    /\ ~started.sender => ~open
    /\ DumpIsTerminated

LEMMA NoMarks ==
    ASSUME NEW bytes, NEW was,
           \A i \in 1..Len(bytes) : ~(IsStatusByte(bytes[i]) /\ ~IsSystemRealTime(bytes[i]))
    PROVE  LineAfter(bytes, was) = was
  BY DEF LineAfter

(* The first n bytes of a message, none of them or of one that is short,   *)
(* open no dump, and of System Real-Time do not close one either.          *)
LEMMA PartOpens ==
    ASSUME NEW m \in Messages, NEW n \in 0..Len(Line(m)), NEW was \in BOOLEAN
    PROVE  LET after == LineAfter(SubSeq(Line(m), 1, n), was) IN
           /\ n = 0 \/ IsRealTime(m) => after = was
           /\ ~m.chunk => (after => was)
  <1> DEFINE bytes == SubSeq(Line(m), 1, n)
  <1>1. /\ IsComplete(m) /\ Line(m) \in Seq(Bytes) /\ Len(m.data) \in Nat
        /\ \A i \in 1..Len(m.data) : m.data[i] \in 0..127
        /\ ~m.chunk => /\ Line(m)[1] = m.status /\ Len(Line(m)) = 1 + Len(m.data)
                       /\ \A i \in 2..Len(Line(m)) : Line(m)[i] = m.data[i - 1]
    BY LineOf, LineIsBytes
  <1>2. Len(Line(m)) \in Nat
    BY <1>1, LenProperties
  <1>3. n \in Nat /\ Len(bytes) = n /\ \A i \in 1..n : bytes[i] = Line(m)[i]
    <2>1. \A i \in 1..n : Line(m)[i] \in Bytes
      BY <1>1, <1>2, ElementOfSeq
    <2> QED
      BY <1>1, <1>2, <2>1, SubSeqProperties
  <1> HIDE DEF bytes
  <1>4. ASSUME ~m.chunk, NEW i \in 2..n PROVE bytes[i] \in 0..127
    <2>1. i \in 2..Len(Line(m)) /\ i \in 1..n /\ i - 1 \in 1..Len(m.data)
      BY <1>1, <1>2, <1>3, <1>4
    <2>2. bytes[i] = m.data[i - 1]
      BY <1>1, <1>3, <1>4, <2>1
    <2> QED
      BY <1>1, <2>1, <2>2
  <1>5. ASSUME n = 0 PROVE LineAfter(bytes, was) = was
    BY <1>3, <1>5, NoMarks
  <1>6. ASSUME IsRealTime(m) PROVE LineAfter(bytes, was) = was
    <2>1. ~m.chunk /\ IsSystemRealTime(m.status)
      BY <1>6 DEF IsRealTime
    <2>2. ASSUME NEW i \in 1..n
          PROVE  ~(IsStatusByte(bytes[i]) /\ ~IsSystemRealTime(bytes[i]))
      <3>1. CASE i = 1
        BY <1>1, <1>3, <2>1, <3>1
      <3>2. CASE i # 1
        <4>1. i \in 2..n
          BY <1>3, <3>2
        <4>2. bytes[i] \in 0..127
          BY <1>4, <2>1, <4>1
        <4> QED
          BY <4>2, SevenBits
      <3> QED
        BY <3>1, <3>2
    <2> QED
      BY <1>3, <2>2, NoMarks
  <1>7. ASSUME ~m.chunk, ~IsRealTime(m), n # 0 PROVE ~LineAfter(bytes, was)
    <2>1. HasFixedLength(m.status) /\ ~IsSystemRealTime(m.status)
      BY <1>1, <1>7 DEF IsRealTime, IsComplete
    <2>2. IsStatusByte(m.status) /\ m.status # SysExStart
      BY <2>1 DEF HasFixedLength
    <2>3. 1 \in 1..Len(bytes) /\ bytes[1] = m.status /\ Len(bytes) \in Nat
      BY <1>1, <1>3, <1>7
    <2>4. ASSUME NEW i \in 1 + 1 .. Len(bytes)
          PROVE  IsDataByte(bytes[i]) /\ bytes[i] \in Nat
      <3>1. i \in 2..n
        BY <1>3
      <3>2. bytes[i] \in 0..127
        BY <1>4, <1>7, <3>1
      <3> QED
        BY <3>2, SevenBits
    <2>5. LineAfter(bytes, was) = (bytes[1] = SysExStart)
      BY <2>1, <2>2, <2>3, <2>4, LastMark
    <2> QED
      BY <2>2, <2>3, <2>5
  <1>8. (n = 0 \/ IsRealTime(m) => LineAfter(bytes, was) = was)
        /\ (~m.chunk => (LineAfter(bytes, was) => was))
    BY <1>5, <1>6, <1>7
  <1> QED
    BY <1>8 DEF bytes

(* Of a dump that does not end here, the line is in the middle.            *)
LEMMA ChunkOpens ==
    ASSUME NEW m \in Messages, m.chunk, ~m.end, NEW was \in BOOLEAN, m.start \/ was
    PROVE  LineAfter(Line(m), was)
  <1>1. m.data \in Seq(Bytes) /\ Len(m.data) \in Nat
        /\ \A i \in 1..Len(m.data) : m.data[i] \in 0..127
    BY LineOf
  <1>2. CASE m.start
    <2>1. Line(m) = (<<SysExStart>> \o m.data) \o << >>
      BY <1>2 DEF Line
    <2>2. /\ <<SysExStart>> \in Seq(Bytes) /\ Len(<<SysExStart>>) = 1
          /\ <<SysExStart>>[1] = SysExStart
      BY DEF SysExStart, Bytes
    <2>3. Line(m) = <<SysExStart>> \o m.data
      <3>1. <<SysExStart>> \o m.data \in Seq(Bytes)
        BY <1>1, <2>2, ConcatProperties
      <3> QED
        BY <2>1, <3>1, ConcatEmptySeq
    <2>4. /\ Len(Line(m)) = 1 + Len(m.data) /\ Line(m)[1] = SysExStart
          /\ \A i \in 2..Len(Line(m)) : Line(m)[i] = m.data[i - 1]
      BY <1>1, <2>2, <2>3, ConcatProperties
    <2>5. IsStatusByte(SysExStart) /\ ~IsSystemRealTime(SysExStart)
      BY DEF IsStatusByte, IsSystemRealTime, SysExStart
    <2>6. ASSUME NEW i \in 1 + 1 .. Len(Line(m))
          PROVE  IsDataByte(Line(m)[i]) /\ Line(m)[i] \in Nat
      <3>1. i \in 2..Len(Line(m)) /\ i - 1 \in 1..Len(m.data)
        BY <1>1, <2>4
      <3>2. Line(m)[i] \in 0..127
        BY <1>1, <2>4, <3>1
      <3> QED
        BY <3>2, SevenBits
    <2>7. 1 \in 1..Len(Line(m)) /\ Len(Line(m)) \in Nat
      BY <1>1, <2>4
    <2>8. LineAfter(Line(m), was) = (Line(m)[1] = SysExStart)
      BY <2>4, <2>5, <2>6, <2>7, LastMark
    <2> QED
      BY <2>4, <2>8
  <1>3. CASE ~m.start
    <2>1. Line(m) = (<< >> \o m.data) \o << >>
      BY <1>3 DEF Line
    <2>2. Line(m) = m.data
      BY <1>1, <2>1, ConcatEmptySeq
    <2>3. ASSUME NEW i \in 1..Len(Line(m))
          PROVE  ~(IsStatusByte(Line(m)[i]) /\ ~IsSystemRealTime(Line(m)[i]))
      BY <1>1, <2>2, SevenBits
    <2> QED
      BY <1>3, <2>3, NoMarks
  <1> QED
    BY <1>2, <1>3

LEMMA SendTerminates ==
    ASSUME LineInv, NEW m \in Messages, Send(m)
    PROVE  LineInv'
  <1>1. /\ Fits(open, m) /\ lineOpen' = LineAfter(Line(m), lineOpen)
        /\ open' = OpenAfter(open, m) /\ abandoned' = (abandoned /\ lineOpen' /\ ~open')
    BY DEF Send, Accepted
  <1>2. m.start \in BOOLEAN /\ m.end \in BOOLEAN /\ m.chunk \in BOOLEAN
    BY LineOf DEF MidiMessages
  <1>3. /\ open' \in BOOLEAN /\ lineOpen' \in BOOLEAN /\ abandoned' \in BOOLEAN
        /\ started' = started /\ started.sender
    BY <1>1, <1>2 DEF LineInv, OpenAfter, LineAfter, Send, Accepted
  <1>4. (open => lineOpen) /\ (lineOpen => open \/ abandoned)
    BY DEF LineInv, DumpIsTerminated
  <1>5. lineOpen \in BOOLEAN /\ open \in BOOLEAN
    BY DEF LineInv
  <1>6. CASE m.chunk /\ m.end
    <2>1. ~lineOpen' /\ ~open'
      BY <1>1, <1>6, LineEnds DEF OpenAfter
    <2> QED
      BY <1>3, <2>1 DEF LineInv, DumpIsTerminated
  <1>7. CASE m.chunk /\ ~m.end
    <2>1. open' /\ (m.start \/ lineOpen)
      BY <1>1, <1>2, <1>4, <1>5, <1>7 DEF OpenAfter, Fits
    <2>2. lineOpen'
      BY <1>1, <1>5, <1>7, <2>1, ChunkOpens
    <2> QED
      BY <1>3, <2>1, <2>2 DEF LineInv, DumpIsTerminated
  <1>8. CASE IsRealTime(m)
    <2>1. lineOpen' = lineOpen /\ open' = open
      BY <1>1, <1>8, LineEnds DEF OpenAfter, IsRealTime
    <2> QED
      BY <1>1, <1>3, <1>4, <2>1 DEF LineInv, DumpIsTerminated
  <1>9. CASE ~m.chunk /\ ~IsRealTime(m)
    <2>1. ~lineOpen' /\ ~open'
      BY <1>1, <1>9, LineEnds DEF OpenAfter, Fits, IsRealTime
    <2> QED
      BY <1>3, <2>1 DEF LineInv, DumpIsTerminated
  <1> QED
    BY <1>6, <1>7, <1>8, <1>9

LEMMA CutAbandons ==
    ASSUME LineInv, NEW m \in Messages, SendCut(m)
    PROVE  LineInv'
  <1>1. Len(Line(m)) \in Nat
    BY LineIsBytes, LenProperties
  <1>2. Fits(open, m) /\ m.chunk \in BOOLEAN /\ m.start \in BOOLEAN
    BY LineOf DEF SendCut, Accepted, MidiMessages
  <1>3. PICK n \in 0 .. Len(Line(m)) - 1 :
            /\ lineOpen' = LineAfter(SubSeq(Line(m), 1, n), lineOpen)
            /\ open' = OpenAfterCut(m, n)
            /\ abandoned' = ((abandoned \/ m.chunk) /\ lineOpen' /\ ~open')
    BY DEF SendCut
  <1>4. n \in 0..Len(Line(m)) /\ lineOpen \in BOOLEAN /\ open \in BOOLEAN
    BY <1>1 DEF LineInv
  <1>5. /\ open' \in BOOLEAN /\ lineOpen' \in BOOLEAN /\ abandoned' \in BOOLEAN
        /\ started' = started /\ started.sender
    BY <1>2, <1>3, <1>4 DEF LineInv, OpenAfterCut, LineAfter, SendCut, Accepted
  <1>6. (open => lineOpen) /\ (lineOpen => open \/ abandoned)
    BY DEF LineInv, DumpIsTerminated
  <1>7. /\ n = 0 \/ IsRealTime(m) => lineOpen' = lineOpen
        /\ ~m.chunk => (lineOpen' => lineOpen)
    BY <1>3, <1>4, PartOpens
  <1>8. open' => lineOpen'
    <2>1. CASE m.chunk
      BY <1>3, <1>6, <1>7, <2>1 DEF OpenAfterCut
    <2>2. CASE ~m.chunk
      <3>1. open' = open /\ (open => IsRealTime(m))
        BY <1>2, <1>3, <2>2 DEF OpenAfterCut, Fits, IsRealTime
      <3> QED
        BY <1>6, <1>7, <3>1
    <2> QED
      BY <2>1, <2>2
  <1>9. lineOpen' => open' \/ abandoned'
    <2>1. CASE m.chunk
      BY <1>3, <2>1
    <2>2. CASE ~m.chunk
      <3>1. open' = open
        BY <1>3, <2>2 DEF OpenAfterCut
      <3> SUFFICES ASSUME lineOpen', ~open' PROVE abandoned'
        OBVIOUS
      <3>2. ~open /\ lineOpen
        BY <1>7, <2>2, <3>1
      <3>3. abandoned
        BY <1>6, <3>2
      <3> QED
        BY <1>3, <3>3, Zenon
    <2> QED
      BY <2>1, <2>2
  <1> QED
    BY <1>5, <1>8, <1>9 DEF LineInv, DumpIsTerminated

(* The cable is in a dump only while the port is sending it, also when the *)
(* port ends or moves to other pins, whatever the cable and the receiver   *)
(* do - unless a write of the dump was refused, or begin() was called on   *)
(* the same pins in the middle of it.                                      *)
THEOREM DumpsAreTerminated == Spec => []DumpIsTerminated
  <1>1. Init => LineInv
    <2> SUFFICES ASSUME Init PROVE LineInv
      OBVIOUS
    <2>1. /\ started = [sender |-> TRUE, receiver |-> TRUE]
          /\ open = FALSE /\ lineOpen = FALSE /\ abandoned = FALSE
      BY DEF Init
    <2> QED
      BY <2>1 DEF LineInv, DumpIsTerminated
  <1>2. LineInv /\ [Next]_linkVars => LineInv'
    <2> SUFFICES ASSUME LineInv, [Next]_linkVars PROVE LineInv'
      OBVIOUS
    <2>1. CASE \E m \in Messages : Send(m)
      BY <2>1, SendTerminates
    <2>2. CASE \E m \in Messages : SendCut(m)
      BY <2>2, CutAbandons
    <2>3. CASE SenderEnd \/ SenderMoves
      <3>1. PICK written \in BOOLEAN : CloseStream(written)
        BY <2>3 DEF SenderEnd, SenderMoves
      <3>2. /\ lineOpen' = (lineOpen /\ ~(open /\ written))
            /\ abandoned' = (lineOpen' /\ (abandoned \/ open)) /\ open' = FALSE
        BY <3>1 DEF CloseStream
      <3>3. started' \in [sender : BOOLEAN, receiver : BOOLEAN]
        BY <2>3 DEF SenderEnd, SenderMoves, LineInv
      <3> QED
        BY <3>2, <3>3 DEF LineInv, DumpIsTerminated
    <2>4. CASE SenderBegin
      BY <2>4 DEF SenderBegin, LineInv, DumpIsTerminated
    <2>5. CASE SenderBeginAgain
      BY <2>5 DEF SenderBeginAgain, LineInv, DumpIsTerminated
    <2>6. CASE OfCable \/ OfReceiver \/ UNCHANGED linkVars
      <3>1. /\ open' = open /\ lineOpen' = lineOpen /\ abandoned' = abandoned
            /\ started' \in [sender : BOOLEAN, receiver : BOOLEAN]
            /\ started'.sender = started.sender
        BY <2>6 DEF LineInv, OfCable, LoseByte, ChangeByte, OfReceiver, Read, Parse, Flush,
                    ReceiverEnd, ReceiverBegin, ReceiverBeginAgain, sendVars, linkVars
      <3> QED
        BY <3>1 DEF LineInv, DumpIsTerminated
    <2> QED
      BY <2>1, <2>2, <2>3, <2>4, <2>5, <2>6 DEF Next, OfCable, OfReceiver
  <1>3. LineInv => DumpIsTerminated
    BY DEF LineInv
  <1> QED
    BY <1>1, <1>2, <1>3, PTL DEF Spec
-----------------------------------------------------------------------------
LEMMA LineStreams ==
    ASSUME NEW m \in Messages
    PROVE  FlatMap(MarkOf, Line(m)) = EventOf[m] /\ FlatMap(AloneOf, Line(m)) = RealOf[m]
  <1>1. /\ m \in MidiMessages /\ IsComplete(m) /\ m.data \in Seq(Bytes) /\ Len(m.data) \in Nat
        /\ \A i \in 1..Len(m.data) : m.data[i] \in 0..127
    BY LineOf
  <1>2. /\ FlatMap(MarkOf, m.data) = m.data /\ FlatMap(AloneOf, m.data) = << >>
        /\ m.data \in Seq(Nat)
    BY <1>1, DataStreams
  <1>3. /\ EventOf[m] = IF IsRealTime(m) THEN << >> ELSE Events(m)
        /\ RealOf[m] = IF IsRealTime(m) THEN <<m>> ELSE << >>
    BY <1>1 DEF EventOf, RealOf
  <1>4. CASE ~m.chunk
    <2>1. /\ Line(m) = <<m.status>> \o m.data /\ Events(m) = <<m.status>> \o m.data
          /\ m.status \in Bytes /\ HasFixedLength(m.status)
          /\ Len(m.data) = DataLength(m.status) /\ m = ShortMessage(m.status, m.data)
      BY <1>1, <1>4 DEF Line, Events, MidiMessages, IsComplete
    <2>2. /\ FlatMap(MarkOf, Line(m)) = MarkOf[m.status] \o m.data
          /\ FlatMap(AloneOf, Line(m)) = AloneOf[m.status] \o << >>
      <3>1. /\ FlatMap(MarkOf, <<m.status>>) = MarkOf[m.status]
            /\ FlatMap(AloneOf, <<m.status>>) = AloneOf[m.status]
            /\ <<m.status>> \in Seq(Bytes)
        BY <2>1, OneByte
      <3> QED
        BY <1>1, <1>2, <2>1, <3>1, ByteStreams, Zenon
    <2>3. CASE IsSystemRealTime(m.status)
      <3>1. DataLength(m.status) = 0
        BY <2>1, <2>3, RealTimeHasNoData
      <3>2. m.data = << >>
        BY <1>1, <2>1, <3>1, EmptySeq
      <3>3. /\ MarkOf[m.status] = << >> /\ AloneOf[m.status] = <<m>> /\ IsRealTime(m)
        BY <1>4, <2>1, <2>3, <3>2 DEF MarkOf, AloneOf, IsRealTime
      <3>4. << >> \o << >> = << >> /\ <<m>> \o << >> = <<m>>
        OBVIOUS
      <3> QED
        BY <1>3, <2>2, <3>2, <3>3, <3>4, Zenon
    <2>4. CASE ~IsSystemRealTime(m.status)
      <3>1. m.status # SysExStart /\ m.status # SysExEnd
        BY <2>1 DEF HasFixedLength
      <3>2. MarkOf[m.status] = <<m.status>> /\ AloneOf[m.status] = << >> /\ ~IsRealTime(m)
        BY <2>1, <2>4, <3>1 DEF MarkOf, AloneOf, IsRealTime, Mark
      <3>3. << >> \o << >> = << >>
        OBVIOUS
      <3> QED
        BY <1>3, <2>1, <2>2, <3>2, <3>3, Zenon
    <2> QED
      BY <2>3, <2>4
  <1>5. CASE m.chunk
    <2> DEFINE head == IF m.start THEN <<SysExStart>> ELSE << >>
               last == IF m.end THEN <<SysExEnd>> ELSE << >>
               first == IF m.start THEN <<StartMark>> ELSE << >>
               final == IF m.end THEN <<EndMark>> ELSE << >>
    <2>1. SysExStart \in Bytes /\ SysExEnd \in Bytes
      BY DEF SysExStart, SysExEnd, Bytes
    <2>2. head \in Seq(Bytes) /\ last \in Seq(Bytes)
      <3>1. << >> \in Seq(Bytes) /\ <<SysExStart>> \in Seq(Bytes) /\ <<SysExEnd>> \in Seq(Bytes)
        BY <2>1, OneByte, SmallSeqs
      <3> QED
        BY <3>1
    <2>3. /\ MarkOf[SysExStart] = <<StartMark>> /\ AloneOf[SysExStart] = << >>
          /\ MarkOf[SysExEnd] = <<EndMark>> /\ AloneOf[SysExEnd] = << >>
      BY <2>1 DEF MarkOf, AloneOf, Mark, IsSystemRealTime, SysExStart, SysExEnd
    <2>4. FlatMap(MarkOf, head) = first /\ FlatMap(AloneOf, head) = << >>
      BY <2>1, <2>3, OneByte, FlatMapEmpty
    <2>5. FlatMap(MarkOf, last) = final /\ FlatMap(AloneOf, last) = << >>
      BY <2>1, <2>3, OneByte, FlatMapEmpty
    <2>6. Line(m) = (head \o m.data) \o last /\ Events(m) = (first \o m.data) \o final
      BY <1>5 DEF Line, Events
    <2>7. ~IsRealTime(m)
      BY <1>5 DEF IsRealTime
    <2> HIDE DEF head, last, first, final
    <2>8. head \o m.data \in Seq(Bytes)
      BY <1>1, <2>2, ConcatProperties
    <2>9. FlatMap(MarkOf, Line(m)) = (first \o m.data) \o final
      <3>1. FlatMap(MarkOf, head \o m.data) = first \o m.data
        BY <1>1, <1>2, <2>2, <2>4, ByteStreams, Zenon
      <3> QED
        BY <2>2, <2>5, <2>6, <2>8, <3>1, ByteStreams, Zenon
    <2>10. FlatMap(AloneOf, Line(m)) = << >>
      <3>1. << >> \o << >> = << >>
        OBVIOUS
      <3>2. FlatMap(AloneOf, head \o m.data) = << >>
        BY <1>1, <1>2, <2>2, <2>4, <3>1, ByteStreams, Zenon
      <3> QED
        BY <2>2, <2>5, <2>6, <2>8, <3>1, <3>2, ByteStreams, Zenon
    <2> QED
      BY <1>3, <2>6, <2>7, <2>9, <2>10
  <1> QED
    BY <1>4, <1>5
-----------------------------------------------------------------------------
(* Where a reader of the line is: 0 between messages, 3 in a dump, and     *)
(* else the data bytes its message still lacks.  A line leads from c to d. *)
Between == 0
InDump == 3
Follow(c, b) ==
    IF IsSystemRealTime(b) THEN c
    ELSE IF c = Between THEN IF b = SysExStart THEN InDump ELSE DataLength(b)
    ELSE IF c = InDump THEN IF b = SysExEnd THEN Between ELSE InDump
    ELSE c - 1
Allowed(c, b) ==
    IF c = Between THEN HasFixedLength(b) \/ b = SysExStart
    ELSE IF c = InDump THEN IsDataByte(b) \/ IsSystemRealTime(b) \/ b = SysExEnd
    ELSE IsDataByte(b)

IsWay(f, c, bytes, d) ==
    /\ f \in [0..Len(bytes) -> 0..3] /\ f[0] = c /\ f[Len(bytes)] = d
    /\ \A i \in 1..Len(bytes) : Allowed(f[i - 1], bytes[i]) /\ f[i] = Follow(f[i - 1], bytes[i])
Leads(c, bytes, d) == \E f : IsWay(f, c, bytes, d)

LEMMA LeadsNowhere ==
    ASSUME NEW c \in 0..3, NEW d
    PROVE  Leads(c, << >>, d) <=> c = d
  <1>1. ASSUME c = d PROVE Leads(c, << >>, d)
    <2> DEFINE f == [i \in 0..0 |-> c]
    <2>1. IsWay(f, c, << >>, d)
      BY <1>1 DEF IsWay
    <2> QED
      BY <2>1 DEF Leads
  <1>2. ASSUME NEW f, IsWay(f, c, << >>, d) PROVE c = d
    <2>1. Len(<< >>) = 0
      OBVIOUS
    <2> QED
      BY <1>2, <2>1 DEF IsWay
  <1> QED
    BY <1>1, <1>2 DEF Leads

LEMMA LeadsOn ==
    ASSUME NEW s \in Seq(Bytes), NEW t \in Seq(Bytes), NEW c, NEW d, NEW e,
           Leads(c, s, d), Leads(d, t, e)
    PROVE  Leads(c, s \o t, e)
  <1>1. PICK f : IsWay(f, c, s, d)
    BY DEF Leads
  <1>2. PICK g : IsWay(g, d, t, e)
    BY DEF Leads
  <1>3. /\ s \o t \in Seq(Bytes) /\ Len(s \o t) = Len(s) + Len(t)
        /\ Len(s) \in Nat /\ Len(t) \in Nat
        /\ \A i \in 1 .. Len(s) + Len(t) :
               (s \o t)[i] = IF i <= Len(s) THEN s[i] ELSE t[i - Len(s)]
    BY ConcatProperties, LenProperties
  <1>4. /\ \A i \in 0..Len(s) : f[i] \in 0..3
        /\ f[0] = c /\ f[Len(s)] = d
        /\ \A i \in 1..Len(s) : Allowed(f[i - 1], s[i]) /\ f[i] = Follow(f[i - 1], s[i])
    BY <1>1 DEF IsWay
  <1>5. /\ \A i \in 0..Len(t) : g[i] \in 0..3
        /\ g[0] = d /\ g[Len(t)] = e
        /\ \A i \in 1..Len(t) : Allowed(g[i - 1], t[i]) /\ g[i] = Follow(g[i - 1], t[i])
    BY <1>2 DEF IsWay
  <1> DEFINE h == [i \in 0 .. Len(s) + Len(t) |-> IF i <= Len(s) THEN f[i] ELSE g[i - Len(s)]]
  <1>6. /\ \A i \in 0..Len(s) : h[i] = f[i]
        /\ \A i \in 0..Len(t) : h[Len(s) + i] = g[i]
    <2>1. ASSUME NEW i \in 0..Len(s) PROVE h[i] = f[i]
      BY <1>3
    <2>2. ASSUME NEW i \in 0..Len(t) PROVE h[Len(s) + i] = g[i]
      <3>1. CASE i = 0
        BY <1>3, <1>4, <1>5, <3>1
      <3>2. CASE i # 0
        <4>1. Len(s) + i \in 0 .. Len(s) + Len(t) /\ ~(Len(s) + i <= Len(s))
              /\ (Len(s) + i) - Len(s) = i
          BY <1>3, <3>2
        <4> QED
          BY <4>1
      <3> QED
        BY <3>1, <3>2
    <2> QED
      BY <2>1, <2>2
  <1>7. h \in [0 .. Len(s) + Len(t) -> 0..3]
    <2>1. ASSUME NEW i \in 0 .. Len(s) + Len(t)
          PROVE  (IF i <= Len(s) THEN f[i] ELSE g[i - Len(s)]) \in 0..3
      <3>1. CASE i <= Len(s)
        <4>1. i \in 0..Len(s)
          BY <1>3, <3>1
        <4> QED
          BY <1>4, <3>1, <4>1
      <3>2. CASE ~(i <= Len(s))
        <4>1. i - Len(s) \in 0..Len(t)
          BY <1>3, <3>2
        <4> QED
          BY <1>5, <3>2, <4>1
      <3> QED
        BY <3>1, <3>2
    <2> QED
      BY <2>1
  <1> HIDE DEF h
  <1>8. ASSUME NEW i \in 1 .. Len(s) + Len(t)
        PROVE  Allowed(h[i - 1], (s \o t)[i]) /\ h[i] = Follow(h[i - 1], (s \o t)[i])
    <2>1. CASE i <= Len(s)
      <3>1. i \in 1..Len(s) /\ i \in 0..Len(s) /\ i - 1 \in 0..Len(s)
        BY <1>3, <2>1
      <3>2. (s \o t)[i] = s[i] /\ h[i] = f[i] /\ h[i - 1] = f[i - 1]
        BY <1>3, <1>6, <2>1, <3>1
      <3> QED
        BY <1>4, <3>1, <3>2
    <2>2. CASE ~(i <= Len(s))
      <3> DEFINE k == i - Len(s)
      <3>1. k \in 1..Len(t) /\ k \in 0..Len(t) /\ k - 1 \in 0..Len(t)
            /\ i = Len(s) + k /\ i - 1 = Len(s) + (k - 1)
        BY <1>3, <2>2
      <3>2. (s \o t)[i] = t[k]
        BY <1>3, <2>2
      <3> HIDE DEF k
      <3>3. h[i] = g[k] /\ h[i - 1] = g[k - 1]
        BY <1>6, <3>1
      <3> QED
        BY <1>5, <3>1, <3>2, <3>3
    <2> QED
      BY <2>1, <2>2
  <1>9. h[0] = c /\ h[Len(s) + Len(t)] = e
    BY <1>3, <1>4, <1>5, <1>6
  <1>10. IsWay(h, c, s \o t, e)
    BY <1>3, <1>7, <1>8, <1>9 DEF IsWay
  <1> QED
    BY <1>10 DEF Leads

LEMMA LeadsByOne ==
    ASSUME NEW b \in Bytes, NEW c \in 0..3, Allowed(c, b), Follow(c, b) \in 0..3
    PROVE  Leads(c, <<b>>, Follow(c, b))
  <1> DEFINE e == Follow(c, b)
             f == [i \in 0..1 |-> IF i = 0 THEN c ELSE e]
  <1>1. Len(<<b>>) = 1 /\ <<b>>[1] = b
    OBVIOUS
  <1>2. e \in 0..3 /\ e = Follow(c, b)
    OBVIOUS
  <1> HIDE DEF e
  <1>3. f \in [0..1 -> 0..3] /\ f[0] = c /\ f[1] = e
    BY <1>2
  <1> HIDE DEF f
  <1>4. \A i \in 1..1 : i = 1 /\ i - 1 = 0
    OBVIOUS
  <1>5. IsWay(f, c, <<b>>, e)
    BY <1>1, <1>2, <1>3, <1>4 DEF IsWay
  <1> QED
    BY <1>2, <1>5 DEF Leads

LEMMA LeadsFirst ==
    ASSUME NEW s \in Seq(Bytes), s # << >>, NEW c, NEW d, Leads(c, s, d)
    PROVE  /\ c \in 0..3 /\ Allowed(c, s[1]) /\ Leads(Follow(c, s[1]), Tail(s), d)
  <1>1. PICK f : IsWay(f, c, s, d)
    BY DEF Leads
  <1>2. /\ Len(s) \in Nat /\ Len(s) >= 1 /\ Len(Tail(s)) = Len(s) - 1
        /\ \A i \in 1 .. Len(s) - 1 : Tail(s)[i] = s[i + 1]
    BY HeadTailProperties, LenProperties, EmptySeq
  <1>3. /\ \A i \in 0..Len(s) : f[i] \in 0..3
        /\ f[0] = c /\ f[Len(s)] = d
        /\ \A i \in 1..Len(s) : Allowed(f[i - 1], s[i]) /\ f[i] = Follow(f[i - 1], s[i])
    BY <1>1 DEF IsWay
  <1>4. c \in 0..3 /\ Allowed(c, s[1]) /\ f[1] = Follow(c, s[1])
    <2>1. 1 \in 1..Len(s) /\ 0 \in 0..Len(s) /\ 1 - 1 = 0
      BY <1>2
    <2>2. Allowed(f[1 - 1], s[1]) /\ f[1] = Follow(f[1 - 1], s[1])
      BY <1>3, <2>1
    <2> QED
      BY <1>3, <2>1, <2>2
  <1> DEFINE g == [i \in 0 .. Len(s) - 1 |-> f[i + 1]]
  <1>5. /\ g \in [0 .. Len(s) - 1 -> 0..3]
        /\ \A i \in 0 .. Len(s) - 1 : g[i] = f[i + 1]
    <2>1. \A i \in 0 .. Len(s) - 1 : i + 1 \in 0..Len(s)
      BY <1>2
    <2> QED
      BY <1>3, <2>1
  <1> HIDE DEF g
  <1>6. g[0] = Follow(c, s[1]) /\ g[Len(s) - 1] = d
    BY <1>2, <1>3, <1>4, <1>5
  <1>7. ASSUME NEW i \in 1 .. Len(s) - 1
        PROVE  Allowed(g[i - 1], Tail(s)[i]) /\ g[i] = Follow(g[i - 1], Tail(s)[i])
    <2>1. i + 1 \in 1..Len(s) /\ i \in 0 .. Len(s) - 1 /\ i - 1 \in 0 .. Len(s) - 1
          /\ (i + 1) - 1 = i /\ (i - 1) + 1 = i
      BY <1>2
    <2>2. g[i] = f[i + 1] /\ g[i - 1] = f[i] /\ Tail(s)[i] = s[i + 1]
      <3>1. g[i - 1] = f[(i - 1) + 1]
        BY <1>5, <2>1
      <3> QED
        BY <1>2, <1>5, <2>1, <3>1
    <2>3. Allowed(f[(i + 1) - 1], s[i + 1]) /\ f[i + 1] = Follow(f[(i + 1) - 1], s[i + 1])
      BY <1>3, <2>1
    <2> QED
      BY <2>1, <2>2, <2>3
  <1>8. IsWay(g, Follow(c, s[1]), Tail(s), d)
    BY <1>2, <1>5, <1>6, <1>7 DEF IsWay
  <1> QED
    BY <1>4, <1>8 DEF Leads
-----------------------------------------------------------------------------
(* A line leads from where one message ends to where another may begin.    *)
Place(isOpen) == IF isOpen THEN InDump ELSE Between

LEMMA DumpLeads ==
    ASSUME NEW d \in Seq(Bytes), \A i \in 1..Len(d) : d[i] \in 0..127
    PROVE  Leads(InDump, d, InDump)
  <1> DEFINE f == [i \in 0..Len(d) |-> InDump]
  <1>1. ASSUME NEW i \in 1..Len(d)
        PROVE  Allowed(InDump, d[i]) /\ Follow(InDump, d[i]) = InDump
    <2>1. \A x \in 0..127 : Allowed(InDump, x) /\ Follow(InDump, x) = InDump
      BY DEF Allowed, Follow, InDump, Between, IsDataByte, IsSystemRealTime, SysExEnd
    <2> QED
      BY <2>1
  <1>2. /\ f \in [0..Len(d) -> 0..3] /\ \A i \in 0..Len(d) : f[i] = InDump
        /\ Len(d) \in Nat
    BY LenProperties DEF InDump
  <1> HIDE DEF f
  <1>3. IsWay(f, InDump, d, InDump)
    <2>1. 0 \in 0..Len(d) /\ Len(d) \in 0..Len(d)
          /\ \A i \in 1..Len(d) : i \in 0..Len(d) /\ i - 1 \in 0..Len(d)
      BY <1>2
    <2> QED
      BY <1>1, <1>2, <2>1 DEF IsWay
  <1> QED
    BY <1>3 DEF Leads

LEMMA MessageLeads ==
    ASSUME NEW d \in Seq(Bytes), Len(d) \in 0..2, \A i \in 1..Len(d) : d[i] \in 0..127
    PROVE  Leads(Len(d), d, Between)
  <1> DEFINE f == [i \in 0..Len(d) |-> Len(d) - i]
  <1>1. \A c \in 1..2, x \in 0..127 : Allowed(c, x) /\ Follow(c, x) = c - 1
    BY DEF Allowed, Follow, InDump, Between, IsDataByte, IsSystemRealTime
  <1>2. f \in [0..Len(d) -> 0..3] /\ \A i \in 0..Len(d) : f[i] = Len(d) - i
    OBVIOUS
  <1> HIDE DEF f
  <1>3. ASSUME NEW i \in 1..Len(d)
        PROVE  Allowed(f[i - 1], d[i]) /\ f[i] = Follow(f[i - 1], d[i])
    <2>1. i - 1 \in 0..Len(d) /\ i \in 0..Len(d) /\ d[i] \in 0..127
      OBVIOUS
    <2>2. f[i - 1] = Len(d) - (i - 1) /\ f[i] = Len(d) - i
      BY <1>2, <2>1
    <2>3. f[i - 1] \in 1..2 /\ f[i] = f[i - 1] - 1
      <3>1. Len(d) \in Int /\ i \in Int /\ 1 <= i /\ i <= Len(d) /\ Len(d) <= 2
        OBVIOUS
      <3>2. Len(d) - (i - 1) \in 1..2 /\ Len(d) - i = (Len(d) - (i - 1)) - 1
        BY <3>1
      <3> QED
        BY <2>2, <3>2, Zenon
    <2> QED
      BY <1>1, <2>1, <2>3
  <1>4. f[0] = Len(d) /\ f[Len(d)] = Between
    BY <1>2 DEF Between
  <1>5. IsWay(f, Len(d), d, Between)
    BY <1>2, <1>3, <1>4 DEF IsWay
  <1> QED
    BY <1>5 DEF Leads

LEMMA LineLeads ==
    ASSUME NEW m \in Messages, NEW o \in BOOLEAN, Fits(o, m)
    PROVE  Leads(Place(o), Line(m), Place(OpenAfter(o, m)))
  <1>1. /\ m \in MidiMessages /\ IsComplete(m) /\ m.data \in Seq(Bytes) /\ Len(m.data) \in Nat
        /\ \A i \in 1..Len(m.data) : m.data[i] \in 0..127
    BY LineOf
  <1>2. CASE ~m.chunk
    <2>1. /\ Line(m) = <<m.status>> \o m.data /\ OpenAfter(o, m) = o
          /\ m.status \in Bytes /\ HasFixedLength(m.status)
          /\ Len(m.data) = DataLength(m.status) /\ (o => IsSystemRealTime(m.status))
      BY <1>1, <1>2 DEF Line, OpenAfter, MidiMessages, IsComplete, Fits
    <2>2. <<m.status>> \in Seq(Bytes)
      BY <2>1, OneByte
    <2>3. CASE IsSystemRealTime(m.status)
      <3>1. DataLength(m.status) = 0
        BY <2>1, <2>3, RealTimeHasNoData
      <3>2. m.data = << >>
        BY <1>1, <2>1, <3>1, EmptySeq
      <3>3. Line(m) = <<m.status>>
        BY <2>1, <2>2, <3>2, ConcatEmptySeq
      <3>4. /\ Place(o) \in 0..3 /\ Allowed(Place(o), m.status)
            /\ Follow(Place(o), m.status) = Place(o)
        BY <2>1, <2>3 DEF Place, Allowed, Follow, Between, InDump
      <3>5. Leads(Place(o), <<m.status>>, Place(o))
        BY <2>1, <3>4, LeadsByOne
      <3> QED
        BY <2>1, <3>3, <3>5
    <2>4. CASE ~IsSystemRealTime(m.status)
      <3>1. Place(o) = Between /\ ~o /\ m.status # SysExStart
        BY <2>1, <2>4 DEF Place, HasFixedLength
      <3>2. DataLength(m.status) \in 0..2
        BY LengthType
      <3>3. /\ Between \in 0..3 /\ Allowed(Between, m.status)
            /\ Follow(Between, m.status) = DataLength(m.status)
            /\ Follow(Between, m.status) \in 0..3
        BY <2>1, <2>4, <3>1, <3>2 DEF Allowed, Follow, Between
      <3>4. Leads(Between, <<m.status>>, DataLength(m.status))
        BY <2>1, <3>3, LeadsByOne
      <3>5. Leads(DataLength(m.status), m.data, Between)
        BY <1>1, <2>1, <3>2, MessageLeads
      <3>6. Leads(Between, <<m.status>> \o m.data, Between)
        BY <1>1, <2>2, <3>4, <3>5, LeadsOn
      <3> QED
        BY <2>1, <3>1, <3>6
    <2> QED
      BY <2>3, <2>4
  <1>3. CASE m.chunk
    <2> DEFINE head == IF m.start THEN <<SysExStart>> ELSE << >>
               last == IF m.end THEN <<SysExEnd>> ELSE << >>
    <2>1. Line(m) = (head \o m.data) \o last /\ m.start = ~o /\ OpenAfter(o, m) = ~m.end
      <3>1. m.start \in BOOLEAN
        BY <1>1 DEF MidiMessages
      <3> QED
        BY <1>3, <3>1 DEF Line, Fits, OpenAfter
    <2>2. SysExStart \in Bytes /\ SysExEnd \in Bytes
      BY DEF SysExStart, SysExEnd, Bytes
    <2>3. head \in Seq(Bytes) /\ last \in Seq(Bytes)
      <3>1. << >> \in Seq(Bytes) /\ <<SysExStart>> \in Seq(Bytes) /\ <<SysExEnd>> \in Seq(Bytes)
        BY <2>2, OneByte, SmallSeqs
      <3> QED
        BY <3>1
    <2>4. Leads(Place(o), head, InDump)
      <3>1. CASE m.start
        <4>1. /\ Between \in 0..3 /\ Allowed(Between, SysExStart)
              /\ Follow(Between, SysExStart) = InDump /\ InDump \in 0..3
          BY DEF Allowed, Follow, Between, InDump, SysExStart, IsSystemRealTime
        <4>2. Leads(Between, <<SysExStart>>, InDump)
          BY <2>2, <4>1, LeadsByOne
        <4> QED
          BY <2>1, <3>1, <4>2 DEF Place
      <3>2. CASE ~m.start
        <4>1. InDump \in 0..3
          BY DEF InDump
        <4>2. Leads(InDump, << >>, InDump)
          BY <4>1, LeadsNowhere
        <4> QED
          BY <2>1, <3>2, <4>2 DEF Place
      <3> QED
        BY <3>1, <3>2
    <2>5. Leads(InDump, last, Place(~m.end))
      <3>1. CASE m.end
        <4>1. /\ InDump \in 0..3 /\ Allowed(InDump, SysExEnd)
              /\ Follow(InDump, SysExEnd) = Between /\ Between \in 0..3
          BY DEF Allowed, Follow, Between, InDump, SysExEnd, IsSystemRealTime
        <4>2. Leads(InDump, <<SysExEnd>>, Between)
          BY <2>2, <4>1, LeadsByOne
        <4> QED
          BY <3>1, <4>2 DEF Place
      <3>2. CASE ~m.end
        <4>1. InDump \in 0..3
          BY DEF InDump
        <4>2. Leads(InDump, << >>, InDump)
          BY <4>1, LeadsNowhere
        <4> QED
          BY <3>2, <4>2 DEF Place
      <3> QED
        BY <3>1, <3>2
    <2>6. Leads(InDump, m.data, InDump)
      BY <1>1, DumpLeads
    <2> HIDE DEF head, last
    <2>7. Leads(Place(o), head \o m.data, InDump)
      BY <1>1, <2>3, <2>4, <2>6, LeadsOn
    <2>8. head \o m.data \in Seq(Bytes)
      BY <1>1, <2>3, ConcatProperties
    <2>9. Leads(Place(o), (head \o m.data) \o last, Place(~m.end))
      <3>1. \A s, t \in Seq(Bytes) : \A c, d, e :
                Leads(c, s, d) /\ Leads(d, t, e) => Leads(c, s \o t, e)
        BY LeadsOn
      <3> QED
        BY <2>3, <2>5, <2>7, <2>8, <3>1, Zenon
    <2> QED
      BY <2>1, <2>9
  <1> QED
    BY <1>2, <1>3
-----------------------------------------------------------------------------
(* Where the parser is, and the events it has read and not handed on.      *)
Reading ==
    IF inSysEx THEN InDump ELSE IF status # 0 THEN expected - Len(data) ELSE Between
Held ==
    IF inSysEx THEN (IF pendingStart THEN <<StartMark>> ELSE << >>) \o run
    ELSE IF status # 0 THEN <<status>> \o data ELSE << >>

LEMMA HeldIs == ASSUME PInv PROVE Held \in Seq(Nat) /\ run \in Seq(Nat) /\ data \in Seq(Nat)
  <1>1. run \in Seq(0..127) /\ data \in Seq(0..127) /\ status \in 0..255 /\ 0..127 \subseteq Nat
    BY DEF PInv, ParserTypeOK
  <1>2. run \in Seq(Nat) /\ data \in Seq(Nat) /\ status \in Nat
    <2>1. run \in Seq(Nat)
      BY <1>1, SeqMonotonic
    <2>2. data \in Seq(Nat)
      BY <1>1, SeqMonotonic
    <2> QED
      BY <1>1, <2>1, <2>2
  <1>3. /\ << >> \in Seq(Nat) /\ <<StartMark>> \in Seq(Nat) /\ <<status>> \in Seq(Nat)
    BY <1>2, SmallSeqs DEF StartMark
  <1>4. /\ <<StartMark>> \o run \in Seq(Nat) /\ << >> \o run \in Seq(Nat)
        /\ <<status>> \o data \in Seq(Nat)
    BY <1>2, <1>3, ConcatProperties
  <1> QED
    BY <1>2, <1>3, <1>4 DEF Held

LEMMA ChunkSays ==
    ASSUME PInv
    PROVE  LET head == IF pendingStart THEN <<StartMark>> ELSE << >>
               Part == ChunkMessage(run, pendingStart, FALSE)
               Rest == ChunkMessage(run, pendingStart, TRUE) IN
           /\ Part \in MidiMessages /\ Rest \in MidiMessages
           /\ EventOf[Part] = head \o run /\ RealOf[Part] = << >>
           /\ EventOf[Rest] = (head \o run) \o <<EndMark>> /\ RealOf[Rest] = << >>
  <1> DEFINE head == IF pendingStart THEN <<StartMark>> ELSE << >>
             Part == ChunkMessage(run, pendingStart, FALSE)
             Rest == ChunkMessage(run, pendingStart, TRUE)
  <1>1. Part \in MidiMessages /\ Rest \in MidiMessages
    BY ChunkIsMessage
  <1>2. /\ Part.chunk /\ Part.start = pendingStart /\ Part.data = run /\ ~Part.end
        /\ Rest.chunk /\ Rest.start = pendingStart /\ Rest.data = run /\ Rest.end
    BY DEF ChunkMessage
  <1>3. ~IsRealTime(Part) /\ ~IsRealTime(Rest)
    BY <1>2 DEF IsRealTime
  <1>4. Events(Part) = (head \o run) \o << >> /\ Events(Rest) = (head \o run) \o <<EndMark>>
    BY <1>2 DEF Events
  <1>5. (head \o run) \o << >> = head \o run
    <2>1. head \in Seq(Nat) /\ run \in Seq(Nat)
      <3>1. << >> \in Seq(Nat) /\ <<StartMark>> \in Seq(Nat)
        BY DEF StartMark
      <3> QED
        BY <3>1, HeldIs
    <2> HIDE DEF head
    <2> QED
      BY <2>1, ConcatProperties, ConcatEmptySeq
  <1>6. /\ EventOf[Part] = Events(Part) /\ EventOf[Rest] = Events(Rest)
        /\ RealOf[Part] = << >> /\ RealOf[Rest] = << >>
    <2> HIDE DEF Part, Rest
    <2> QED
      BY <1>1, <1>3 DEF EventOf, RealOf
  <1> HIDE DEF Part, Rest, head
  <1> QED
    BY <1>1, <1>4, <1>5, <1>6 DEF Part, Rest, head

LEMMA ShortSays ==
    ASSUME NEW b \in Bytes, NEW d \in Seq(Bytes)
    PROVE  LET m == ShortMessage(b, d) IN
           /\ m \in MidiMessages
           /\ IsSystemRealTime(b) => EventOf[m] = << >> /\ RealOf[m] = <<m>>
           /\ ~IsSystemRealTime(b) => EventOf[m] = <<b>> \o d /\ RealOf[m] = << >>
  <1> DEFINE m == ShortMessage(b, d)
  <1>1. m \in MidiMessages /\ ~m.chunk /\ m.status = b /\ m.data = d
    BY ShortIsMessage DEF ShortMessage
  <1>2. (IsRealTime(m) <=> IsSystemRealTime(b)) /\ Events(m) = <<b>> \o d
    BY <1>1 DEF IsRealTime, Events
  <1> HIDE DEF m
  <1>3. /\ EventOf[m] = (IF IsRealTime(m) THEN << >> ELSE Events(m))
        /\ RealOf[m] = (IF IsRealTime(m) THEN <<m>> ELSE << >>)
    BY <1>1 DEF EventOf, RealOf
  <1> QED
    BY <1>1, <1>2, <1>3 DEF m
-----------------------------------------------------------------------------
(* A byte that may come here is read: what it says is handed on, or held.  *)
Reads(b) ==
    /\ Reading' = Follow(Reading, b)
    /\ FlatMap(EventOf, emitted') \o Held' = Held \o MarkOf[b]
    /\ FlatMap(RealOf, emitted') = AloneOf[b]

LEMMA ReadingIs ==
    ASSUME PInv
    PROVE  /\ Reading \in 0..3
           /\ Reading = InDump <=> inSysEx
           /\ Reading = Between <=> ~inSysEx /\ status = 0
  <1>1. DataLength(status) \in 0..2 /\ Len(data) \in Nat
    BY LengthType, LenProperties DEF PInv, ParserTypeOK
  <1>2. CASE inSysEx
    BY <1>2 DEF Reading, InDump, Between
  <1>3. CASE ~inSysEx /\ status = 0
    BY <1>3 DEF Reading, InDump, Between
  <1>4. CASE ~inSysEx /\ status # 0
    <2>1. expected = DataLength(status) /\ Len(data) < expected
      BY <1>4 DEF PInv, MessageInv
    <2>2. Reading = expected - Len(data)
      BY <1>4 DEF Reading
    <2>3. Reading \in 1..2
      BY <1>1, <2>1, <2>2
    <2> QED
      BY <1>4, <2>3 DEF InDump, Between
  <1> QED
    BY <1>2, <1>3, <1>4

(* Nothing is held, or what a dump has brought so far.                     *)
LEMMA HeldInDump ==
    ASSUME PInv, inSysEx
    PROVE  Held = (IF pendingStart THEN <<StartMark>> ELSE << >>) \o run
  BY DEF Held

LEMMA EmptyConcats ==
    ASSUME NEW s \in Seq(Nat)
    PROVE  s \o << >> = s /\ << >> \o s = s
  BY ConcatEmptySeq

LEMMA RealTimeReads ==
    ASSUME PInv, NEW b \in Bytes, IsSystemRealTime(b), ParseByte(b)
    PROVE  Reads(b)
  <1> DEFINE Alone == ShortMessage(b, << >>)
             Part == ChunkMessage(run, pendingStart, FALSE)
             head == IF pendingStart THEN <<StartMark>> ELSE << >>
  <1>1. ~IsDataByte(b)
    BY DEF IsSystemRealTime, IsDataByte, Bytes
  <1>2. RealTime(b)
    BY <1>1 DEF ParseByte, DumpData, FrameByte, StatusAlone, StatusBegins, StatusByte,
                Orphan, DataByte
  <1>3. /\ run' = << >> /\ pendingStart' = (pendingStart /\ run = << >>)
        /\ inSysEx' = inSysEx /\ UNCHANGED messageVars
        /\ Emit(IF run = << >> THEN <<Alone>> ELSE <<Part, Alone>>)
    BY <1>2 DEF RealTime
  <1>4. status' = status /\ expected' = expected /\ data' = data
    BY <1>3 DEF messageVars
  <1>5. Reading' = Follow(Reading, b)
    BY <1>3, <1>4 DEF Reading, Follow
  <1>6. MarkOf[b] = << >> /\ AloneOf[b] = <<Alone>>
    BY DEF MarkOf, AloneOf
  <1>7. << >> \in Seq(Bytes)
    OBVIOUS
  <1>8. Alone \in MidiMessages /\ EventOf[Alone] = << >> /\ RealOf[Alone] = <<Alone>>
    BY <1>7, ShortSays
  <1>9. Part \in MidiMessages /\ EventOf[Part] = head \o run /\ RealOf[Part] = << >>
    BY ChunkSays
  <1> HIDE DEF Alone, Part
  <1>10. Held \in Seq(Nat)
    BY HeldIs
  <1>11. CASE run = << >>
    <2>1. emitted' = <<Alone>>
      BY <1>3, <1>11, EmitOne
    <2>2. FlatMap(EventOf, emitted') = << >> /\ FlatMap(RealOf, emitted') = <<Alone>>
      BY <1>8, <2>1, OneSays
    <2>3. Held' = Held
      BY <1>3, <1>4, <1>11 DEF Held
    <2> QED
      BY <1>5, <1>6, <1>10, <2>2, <2>3, EmptyConcats DEF Reads
  <1>12. CASE run # << >>
    <2>1. emitted' = <<Part, Alone>>
      BY <1>3, <1>12, EmitTwo
    <2>2. /\ FlatMap(EventOf, emitted') = (head \o run) \o << >>
          /\ FlatMap(RealOf, emitted') = << >> \o <<Alone>>
      <3>1. /\ FlatMap(EventOf, emitted') = EventOf[Part] \o EventOf[Alone]
            /\ FlatMap(RealOf, emitted') = RealOf[Part] \o RealOf[Alone]
        BY <1>8, <1>9, <2>1, TwoSay
      <3> QED
        BY <1>8, <1>9, <3>1, Zenon
    <2>3. inSysEx
      BY <1>12 DEF PInv, DumpInv
    <2>4. Held = head \o run
      BY <2>3, HeldInDump
    <2>5. Held' = << >>
      <3>1. inSysEx' /\ run' = << >>
        BY <1>3, <2>3
      <3>2. ~pendingStart'
        BY <1>3, <1>12
      <3>3. << >> \o << >> = << >>
        OBVIOUS
      <3> QED
        BY <3>1, <3>2, <3>3 DEF Held
    <2>6. << >> \o <<Alone>> = <<Alone>>
      BY <1>8, SmallSeqs, ConcatEmptySeq
    <2>7. /\ FlatMap(EventOf, emitted') \o Held' = (Held \o << >>) \o << >>
          /\ (Held \o << >>) \o << >> = Held /\ Held \o << >> = Held
      BY <1>10, <2>2, <2>4, <2>5, EmptyConcats
    <2> QED
      BY <1>5, <1>6, <2>2, <2>6, <2>7, Zenon DEF Reads
  <1> QED
    BY <1>11, <1>12

LEMMA DumpReads ==
    ASSUME PInv, NEW b \in Bytes, ~IsSystemRealTime(b), inSysEx, Allowed(InDump, b),
           ParseByte(b)
    PROVE  Reads(b)
  <1> DEFINE Rest == ChunkMessage(run, pendingStart, TRUE)
             head == IF pendingStart THEN <<StartMark>> ELSE << >>
  <1>1. IsDataByte(b) \/ b = SysExEnd
    BY DEF Allowed, InDump, Between
  <1>2. Reading = InDump
    BY ReadingIs
  <1>3. Held = head \o run /\ Held \in Seq(Nat) /\ run \in Seq(Nat)
    BY HeldInDump, HeldIs
  <1>4. head \in Seq(Nat)
    BY DEF StartMark
  <1>5. CASE IsDataByte(b)
    <2>1. DumpData(b)
      <3>1. ~IsStatusByte(b)
        BY <1>5 DEF IsStatusByte, IsDataByte, Bytes
      <3> QED
        BY <3>1 DEF ParseByte, RealTime, FrameByte, StatusAlone, StatusBegins, StatusByte,
                    Orphan, DataByte
    <2>2. /\ emitted' = << >> /\ run' = Append(run, b)
          /\ inSysEx' /\ pendingStart' = pendingStart
      BY <2>1, EmitNone DEF DumpData
    <2>3. b \in 0..127 /\ b \in Nat /\ b # SysExEnd
      BY <1>5 DEF IsDataByte, Bytes, SysExEnd
    <2>4. MarkOf[b] = <<b>> /\ AloneOf[b] = << >>
      BY <2>3, DataMarks
    <2>5. Reading' = Follow(Reading, b)
      BY <1>2, <2>2, <2>3 DEF Reading, Follow, InDump, Between
    <2>6. Held' = head \o Append(run, b)
      BY <2>2 DEF Held
    <2> HIDE DEF head
    <2>7. head \o Append(run, b) = Held \o <<b>>
      <3>1. Append(run, b) = run \o <<b>> /\ <<b>> \in Seq(Nat)
        BY <1>3, <2>3, AppendIsConcat
      <3>2. head \o (run \o <<b>>) = (head \o run) \o <<b>>
        BY <1>3, <1>4, <3>1, ConcatAssociative
      <3> QED
        BY <1>3, <3>1, <3>2, Zenon
    <2>8. << >> \o Held' = Held \o <<b>>
      <3>1. Held \o <<b>> \in Seq(Nat)
        BY <1>3, <2>3, ConcatProperties
      <3> QED
        BY <2>6, <2>7, <3>1, EmptyConcats, Zenon
    <2> QED
      BY <2>2, <2>4, <2>5, <2>8, NoneSays, Zenon DEF Reads
  <1>6. CASE b = SysExEnd
    <2>1. ~IsDataByte(b) /\ ~HasFixedLength(b) /\ b # SysExStart
      BY <1>6 DEF IsDataByte, HasFixedLength, SysExEnd, SysExStart
    <2>2. FrameByte(b)
      BY <2>1 DEF ParseByte, RealTime, DumpData, StatusAlone, StatusBegins, Orphan, DataByte
    <2>3. /\ emitted' = <<Rest>> /\ inSysEx' = FALSE /\ status' = 0
      <3>1. Emit(<<Rest>>)
        BY <2>2 DEF FrameByte, Closing
      <3>2. Rest = Rest /\ emitted' = <<Rest>>
        <4> HIDE DEF Rest
        <4> QED
          BY <3>1, EmitOne
      <3> QED
        BY <2>1, <2>2, <3>2 DEF FrameByte, StatusByte, Waiting
    <2>4. /\ Rest \in MidiMessages /\ EventOf[Rest] = (head \o run) \o <<EndMark>>
          /\ RealOf[Rest] = << >>
      BY ChunkSays
    <2> HIDE DEF Rest
    <2>5. /\ FlatMap(EventOf, emitted') = (head \o run) \o <<EndMark>>
          /\ FlatMap(RealOf, emitted') = << >>
      BY <2>3, <2>4, OneSays
    <2>6. MarkOf[b] = <<EndMark>> /\ AloneOf[b] = << >>
      BY <1>6 DEF MarkOf, AloneOf, Mark, SysExStart, SysExEnd
    <2>7. Held' = << >> /\ Reading' = Between
      BY <2>3 DEF Held, Reading
    <2>8. Reading' = Follow(Reading, b)
      BY <1>2, <1>6, <2>7 DEF Follow, InDump, Between
    <2>9. (Held \o <<EndMark>>) \o << >> = Held \o <<EndMark>>
      <3>1. <<EndMark>> \in Seq(Nat)
        BY DEF EndMark
      <3>2. Held \o <<EndMark>> \in Seq(Nat)
        BY <1>3, <3>1, ConcatProperties
      <3> QED
        BY <3>2, EmptyConcats
    <2> HIDE DEF head
    <2> QED
      BY <1>3, <2>5, <2>6, <2>7, <2>8, <2>9, Zenon DEF Reads
  <1> QED
    BY <1>1, <1>5, <1>6
-----------------------------------------------------------------------------
LEMMA MessageReads ==
    ASSUME PInv, NEW b \in Bytes, IsDataByte(b), ~inSysEx, status # 0, ParseByte(b)
    PROVE  Reads(b)
  <1> DEFINE Whole1 == ShortMessage(status, Append(data, b))
  <1>1. ~IsStatusByte(b) /\ ~IsSystemRealTime(b)
    BY DEF IsStatusByte, IsDataByte, IsSystemRealTime, Bytes
  <1>2. DataByte(b)
    BY <1>1 DEF ParseByte, RealTime, DumpData, FrameByte, StatusAlone, StatusBegins,
                StatusByte, Orphan
  <1>3. /\ HasFixedLength(status) /\ expected = DataLength(status) /\ Len(data) < expected
        /\ status \in 0..255 /\ data \in Seq(0..127) /\ b \in 0..127
    BY DEF PInv, ParserTypeOK, MessageInv, IsDataByte, Bytes
  <1>4. /\ Append(data, b) \in Seq(0..127) /\ Len(Append(data, b)) = Len(data) + 1
        /\ Len(data) \in Nat /\ expected \in 0..2
    BY <1>3, AppendProperties, LenProperties, LengthType
  <1>5. status \in Bytes /\ Append(data, b) \in Seq(Bytes) /\ Append(data, b) \in Seq(Nat)
    <2>1. 0..127 \subseteq Bytes /\ 0..127 \subseteq Nat
      BY DEF Bytes
    <2>2. Append(data, b) \in Seq(Bytes)
      BY <1>4, <2>1, SeqMonotonic
    <2>3. Append(data, b) \in Seq(Nat)
      BY <1>4, <2>1, SeqMonotonic
    <2> QED
      BY <1>3, <2>2, <2>3 DEF Bytes
  <1>6. Reading = expected - Len(data) /\ Held = <<status>> \o data
    BY DEF Reading, Held
  <1>7. MarkOf[b] = <<b>> /\ AloneOf[b] = << >>
    BY <1>3, DataMarks
  <1>8. ~IsSystemRealTime(status)
    <2>1. DataLength(status) # 0
      BY <1>3, <1>4
    <2> QED
      BY <1>5, <2>1, RealTimeHasNoData
  <1>9. /\ Whole1 \in MidiMessages /\ EventOf[Whole1] = <<status>> \o Append(data, b)
        /\ RealOf[Whole1] = << >>
    BY <1>5, <1>8, ShortSays
  <1>10. /\ Held \o <<b>> = <<status>> \o Append(data, b)
         /\ <<status>> \o Append(data, b) \in Seq(Nat)
    <2>1. /\ data \in Seq(Nat) /\ <<status>> \in Seq(Nat) /\ <<b>> \in Seq(Nat)
          /\ Append(data, b) = data \o <<b>>
      <3>1. data \in Seq(Nat) /\ status \in Nat /\ b \in Nat
        BY <1>3, HeldIs
      <3> QED
        BY <3>1, AppendIsConcat, SmallSeqs
    <2>2. (<<status>> \o data) \o <<b>> = <<status>> \o (data \o <<b>>)
      BY <2>1, ConcatAssociative
    <2>3. <<status>> \o Append(data, b) \in Seq(Nat)
      BY <1>5, <2>1, ConcatProperties
    <2> QED
      BY <1>6, <2>1, <2>2, <2>3, Zenon
  <1>11. Follow(Reading, b) = Reading - 1
    <2>1. Reading \in 1..2
      BY <1>3, <1>4, <1>6
    <2> QED
      BY <1>1, <2>1 DEF Follow, Between, InDump
  <1>12. inSysEx' = FALSE
    BY <1>2 DEF DataByte
  <1>13. CASE Len(Append(data, b)) >= expected
    <2>1. /\ emitted' = <<Whole1>> /\ status' = 0
      <3>1. Emit(<<Whole1>>) /\ status' = 0
        BY <1>2, <1>13 DEF DataByte, Current
      <3> HIDE DEF Whole1
      <3> QED
        BY <3>1, EmitOne
    <2>2. Held' = << >> /\ Reading' = Between
      BY <1>12, <2>1 DEF Held, Reading
    <2>3. Reading - 1 = Between
      BY <1>3, <1>4, <1>6, <1>13 DEF Between
    <2> HIDE DEF Whole1
    <2>4. /\ FlatMap(EventOf, emitted') = <<status>> \o Append(data, b)
          /\ FlatMap(RealOf, emitted') = << >>
      BY <1>9, <2>1, OneSays
    <2>5. FlatMap(EventOf, emitted') \o Held' = Held \o <<b>>
      BY <1>10, <2>2, <2>4, EmptyConcats, Zenon
    <2> QED
      BY <1>7, <1>11, <2>2, <2>3, <2>4, <2>5, Zenon DEF Reads
  <1>14. CASE ~(Len(Append(data, b)) >= expected)
    <2>1. /\ emitted' = << >> /\ status' = status /\ data' = Append(data, b)
          /\ expected' = expected
      BY <1>2, <1>14, EmitNone DEF DataByte, Current
    <2>2. Held' = <<status>> \o Append(data, b) /\ Reading' = expected - (Len(data) + 1)
      BY <1>4, <1>12, <2>1 DEF Held, Reading
    <2>3. Reading - 1 = expected - (Len(data) + 1)
      BY <1>4, <1>6
    <2>4. << >> \o Held' = Held \o <<b>>
      BY <1>10, <2>2, EmptyConcats, Zenon
    <2> QED
      BY <1>7, <1>11, <2>1, <2>2, <2>3, <2>4, NoneSays, Zenon DEF Reads
  <1> QED
    BY <1>13, <1>14

LEMMA BetweenReads ==
    ASSUME PInv, NEW b \in Bytes, ~IsSystemRealTime(b), ~inSysEx, status = 0,
           Allowed(Between, b), ParseByte(b)
    PROVE  Reads(b)
  <1> DEFINE Alone == ShortMessage(b, << >>)
  <1>1. HasFixedLength(b) \/ b = SysExStart
    BY DEF Allowed, Between
  <1>2. ~IsDataByte(b)
    BY <1>1 DEF HasFixedLength, IsStatusByte, IsDataByte, SysExStart, Bytes
  <1>3. Held = << >> /\ Reading = Between
    BY DEF Held, Reading
  <1>4. StatusByte(b)
    BY <1>2 DEF ParseByte, RealTime, DumpData, FrameByte, StatusAlone, StatusBegins, Orphan,
                DataByte
  <1>5. Closing(b) = << >> /\ << >> \o << >> = << >> /\ b \in Nat
    BY DEF Closing, Bytes
  <1>6. run' = << >> /\ inSysEx' = (b = SysExStart) /\ pendingStart' = (b = SysExStart)
    BY <1>4 DEF StatusByte
  <1>7. <<b>> \in Seq(Nat) /\ <<StartMark>> \in Seq(Nat) /\ << >> \in Seq(Nat)
        /\ << >> \in Seq(Bytes)
    BY <1>5 DEF StartMark
  <1>8. CASE b = SysExStart
    <2>1. ~HasFixedLength(b)
      BY <1>8 DEF HasFixedLength
    <2>2. emitted' = << >>
      BY <1>2, <1>5, <2>1, EmitNone DEF ParseByte, RealTime, DumpData, FrameByte, StatusAlone,
                                        StatusBegins, Orphan, DataByte
    <2>3. inSysEx' /\ pendingStart' /\ run' = << >>
      BY <1>6, <1>8
    <2>4. Held' = <<StartMark>> /\ Reading' = InDump
      <3>1. Held' = <<StartMark>> \o << >>
        BY <2>3 DEF Held
      <3>2. <<StartMark>> \o << >> = <<StartMark>>
        BY <1>7, EmptyConcats
      <3>3. Reading' = InDump
        BY <2>3 DEF Reading
      <3> QED
        BY <3>1, <3>2, <3>3
    <2>5. MarkOf[b] = <<StartMark>> /\ AloneOf[b] = << >>
      BY <1>8 DEF MarkOf, AloneOf, Mark
    <2>6. Follow(Reading, b) = InDump
      BY <1>3, <1>8 DEF Follow
    <2> QED
      BY <1>3, <2>2, <2>4, <2>5, <2>6, NoneSays, Zenon DEF Reads
  <1>9. CASE b # SysExStart
    <2>1. HasFixedLength(b) /\ b # SysExEnd
      BY <1>1, <1>9 DEF HasFixedLength
    <2>2. MarkOf[b] = <<b>> /\ AloneOf[b] = << >>
      BY <1>9, <2>1 DEF MarkOf, AloneOf, Mark
    <2>3. inSysEx' = FALSE
      BY <1>6, <1>9
    <2>4. Follow(Reading, b) = DataLength(b) /\ DataLength(b) \in 0..2
      BY <1>3, <1>9, LengthType DEF Follow, Between
    <2>5. << >> \o <<b>> = <<b>> /\ <<b>> \o << >> = <<b>>
      BY <1>7, EmptyConcats
    <2>6. CASE DataLength(b) = 0
      <3>1. StatusAlone(b)
        BY <1>2, <2>1, <2>6 DEF ParseByte, RealTime, DumpData, FrameByte, StatusBegins, Orphan,
                                DataByte
      <3>2. emitted' = <<Alone>> /\ status' = 0
        <4>1. Emit(Append(<< >>, Alone)) /\ status' = 0
          BY <1>5, <3>1 DEF StatusAlone
        <4> HIDE DEF Alone
        <4>2. Append(<< >>, Alone) = <<Alone>>
          OBVIOUS
        <4> QED
          BY <4>1, <4>2, EmitOne
      <3>3. /\ Alone \in MidiMessages /\ EventOf[Alone] = <<b>> \o << >>
            /\ RealOf[Alone] = << >>
        BY <1>7, ShortSays
      <3>4. Held' = << >> /\ Reading' = Between
        BY <2>3, <3>2 DEF Held, Reading
      <3> HIDE DEF Alone
      <3>5. FlatMap(EventOf, emitted') = <<b>> /\ FlatMap(RealOf, emitted') = << >>
        BY <2>5, <3>2, <3>3, OneSays
      <3>6. Reading' = Follow(Reading, b)
        BY <2>4, <2>6, <3>4 DEF Between
      <3> QED
        BY <1>3, <2>2, <2>5, <3>4, <3>5, <3>6, Zenon DEF Reads
    <2>7. CASE DataLength(b) # 0
      <3>1. StatusBegins(b)
        BY <1>2, <2>1, <2>4, <2>7 DEF ParseByte, RealTime, DumpData, FrameByte, StatusAlone,
                                      Orphan, DataByte
      <3>2. /\ emitted' = << >> /\ status' = b /\ data' = << >> /\ expected' = DataLength(b)
        BY <1>5, <3>1, EmitNone DEF StatusBegins
      <3>3. b # 0
        BY <2>1 DEF HasFixedLength, IsStatusByte
      <3>4. Held' = <<b>> /\ Reading' = DataLength(b)
        <4>1. Held' = <<b>> \o << >>
          BY <2>3, <3>2, <3>3 DEF Held
        <4>2. Reading' = DataLength(b) - Len(<< >>)
          BY <2>3, <3>2, <3>3 DEF Reading
        <4> QED
          BY <2>4, <2>5, <4>1, <4>2
      <3> QED
        BY <1>3, <2>2, <2>4, <3>2, <3>4, NoneSays, Zenon DEF Reads
    <2> QED
      BY <2>6, <2>7
  <1> QED
    BY <1>8, <1>9

LEMMA AllowedReads ==
    ASSUME PInv, NEW b \in Bytes, Allowed(Reading, b), ParseByte(b)
    PROVE  Reads(b)
  <1>1. CASE IsSystemRealTime(b)
    BY <1>1, RealTimeReads
  <1>2. CASE ~IsSystemRealTime(b) /\ inSysEx
    BY <1>2, ReadingIs, DumpReads
  <1>3. CASE ~IsSystemRealTime(b) /\ ~inSysEx /\ status = 0
    BY <1>3, ReadingIs, BetweenReads
  <1>4. CASE ~IsSystemRealTime(b) /\ ~inSysEx /\ status # 0
    <2>1. Reading # InDump /\ Reading # Between
      BY <1>4, ReadingIs
    <2>2. IsDataByte(b)
      BY <2>1 DEF Allowed
    <2> QED
      BY <1>4, <2>2, MessageReads
  <1> QED
    BY <1>1, <1>2, <1>3, <1>4

(* The end of a buffer hands on what is held of a dump.                    *)
LEMMA FlushReads ==
    ASSUME PInv, EndOfBuffer
    PROVE  /\ Reading' = Reading
           /\ FlatMap(EventOf, emitted') \o Held' = Held
           /\ FlatMap(RealOf, emitted') = << >>
  <1> DEFINE Part == ChunkMessage(run, pendingStart, FALSE)
             head == IF pendingStart THEN <<StartMark>> ELSE << >>
  <1>1. /\ Emit(<<Part>>) /\ run # << >> /\ run' = << >> /\ pendingStart' = FALSE
        /\ inSysEx' = inSysEx /\ status' = status /\ data' = data /\ expected' = expected
    BY DEF EndOfBuffer, messageVars
  <1>2. inSysEx
    BY <1>1 DEF PInv, DumpInv
  <1>3. Part \in MidiMessages /\ EventOf[Part] = head \o run /\ RealOf[Part] = << >>
    BY ChunkSays
  <1>4. Held = head \o run /\ Held \in Seq(Nat)
    BY <1>2, HeldInDump, HeldIs
  <1>5. Reading' = Reading
    BY <1>1 DEF Reading
  <1>6. Held' = << >>
    <2>1. inSysEx' /\ ~pendingStart' /\ run' = << >>
      BY <1>1, <1>2
    <2>2. << >> \o << >> = << >>
      OBVIOUS
    <2> QED
      BY <2>1, <2>2 DEF Held
  <1> HIDE DEF Part, head
  <1>7. emitted' = <<Part>>
    BY <1>1, EmitOne
  <1>8. FlatMap(EventOf, emitted') = Held /\ FlatMap(RealOf, emitted') = << >>
    BY <1>3, <1>4, <1>7, OneSays
  <1> QED
    BY <1>4, <1>5, <1>6, <1>8, EmptyConcats, Zenon
-----------------------------------------------------------------------------
(* The bytes on the wire, and the messages behind them.                    *)
DataOf(w) == [i \in 1..Len(w) |-> w[i].byte]

LEMMA DataOfIs ==
    ASSUME NEW w \in Seq(WireBytes)
    PROVE  /\ DataOf(w) \in Seq(Bytes) /\ Len(DataOf(w)) = Len(w)
           /\ \A i \in 1..Len(w) : DataOf(w)[i] = w[i].byte /\ w[i].byte \in Bytes
  <1> DEFINE n == Len(w)
             f == [i \in 1..n |-> w[i].byte]
  <1>1. n \in Nat /\ \A i \in 1..n : w[i] \in WireBytes
    BY LenProperties, ElementOfSeq
  <1>2. \A i \in 1..n : w[i].byte \in Bytes
    BY <1>1 DEF WireBytes
  <1>3. DataOf(w) = f
    BY DEF DataOf
  <1> HIDE DEF n
  <1>4. f \in [1..n -> Bytes] /\ \A i \in 1..n : f[i] = w[i].byte
    BY <1>2
  <1> HIDE DEF f
  <1>5. f \in Seq(Bytes) /\ Len(f) = n
    BY <1>1, <1>4
  <1> QED
    BY <1>2, <1>3, <1>4, <1>5 DEF n

LEMMA DataOfTagged ==
    ASSUME NEW bytes \in Seq(Bytes), NEW id \in Nat
    PROVE  DataOf(Tagged(bytes, id)) = bytes
  <1>1. /\ Tagged(bytes, id) \in Seq(WireBytes) /\ Len(Tagged(bytes, id)) = Len(bytes)
        /\ \A i \in 1..Len(bytes) : Tagged(bytes, id)[i] = [byte |-> bytes[i], id |-> id]
    BY TaggedIs
  <1>2. /\ DataOf(Tagged(bytes, id)) \in Seq(Bytes)
        /\ Len(DataOf(Tagged(bytes, id))) = Len(bytes)
        /\ \A i \in 1..Len(bytes) : DataOf(Tagged(bytes, id))[i] = Tagged(bytes, id)[i].byte
    <2>1. \A w \in Seq(WireBytes) :
              /\ DataOf(w) \in Seq(Bytes) /\ Len(DataOf(w)) = Len(w)
              /\ \A i \in 1..Len(w) : DataOf(w)[i] = w[i].byte
      BY DataOfIs
    <2> QED
      BY <1>1, <2>1
  <1>3. ASSUME NEW i \in 1..Len(bytes) PROVE DataOf(Tagged(bytes, id))[i] = bytes[i]
    <2>1. Tagged(bytes, id)[i] = [byte |-> bytes[i], id |-> id]
      BY <1>1
    <2>2. Tagged(bytes, id)[i].byte = bytes[i]
      BY <2>1
    <2> QED
      BY <1>2, <2>2
  <1> QED
    BY <1>2, <1>3, SeqEqual

LEMMA DataOfConcat ==
    ASSUME NEW w \in Seq(WireBytes), NEW v \in Seq(WireBytes)
    PROVE  DataOf(w \o v) = DataOf(w) \o DataOf(v)
  <1>1. /\ w \o v \in Seq(WireBytes) /\ Len(w \o v) = Len(w) + Len(v)
        /\ Len(w) \in Nat /\ Len(v) \in Nat
        /\ \A i \in 1 .. Len(w) + Len(v) :
               (w \o v)[i] = IF i <= Len(w) THEN w[i] ELSE v[i - Len(w)]
    BY ConcatProperties, LenProperties
  <1>2. /\ DataOf(w) \in Seq(Bytes) /\ Len(DataOf(w)) = Len(w)
        /\ \A i \in 1..Len(w) : DataOf(w)[i] = w[i].byte
    BY DataOfIs
  <1>3. /\ DataOf(v) \in Seq(Bytes) /\ Len(DataOf(v)) = Len(v)
        /\ \A i \in 1..Len(v) : DataOf(v)[i] = v[i].byte
    BY DataOfIs
  <1>4. /\ DataOf(w \o v) \in Seq(Bytes) /\ Len(DataOf(w \o v)) = Len(w \o v)
        /\ \A i \in 1 .. Len(w \o v) : DataOf(w \o v)[i] = (w \o v)[i].byte
    <2>1. \A u \in Seq(WireBytes) :
              /\ DataOf(u) \in Seq(Bytes) /\ Len(DataOf(u)) = Len(u)
              /\ \A i \in 1..Len(u) : DataOf(u)[i] = u[i].byte
      BY DataOfIs
    <2> QED
      BY <1>1, <2>1, Zenon
  <1>5. ASSUME NEW i \in 1..Len(w) PROVE DataOf(w \o v)[i] = DataOf(w)[i]
    <2>1. i \in 1..Len(w \o v) /\ (w \o v)[i] = w[i]
      BY <1>1
    <2> QED
      BY <1>2, <1>4, <2>1
  <1>6. ASSUME NEW i \in 1..Len(v) PROVE DataOf(w \o v)[Len(w) + i] = DataOf(v)[i]
    <2>1. Len(w) + i \in 1 .. Len(w) + Len(v) /\ ~(Len(w) + i <= Len(w))
          /\ (Len(w) + i) - Len(w) = i
      BY <1>1
    <2>2. Len(w) + i \in 1..Len(w \o v) /\ (w \o v)[Len(w) + i] = v[i]
      BY <1>1, <2>1
    <2> QED
      BY <1>3, <1>4, <2>2
  <1>7. /\ Len(DataOf(w \o v)) = Len(DataOf(w)) + Len(DataOf(v))
        /\ \A i \in 1..Len(DataOf(w)) : DataOf(w \o v)[i] = DataOf(w)[i]
        /\ \A i \in 1..Len(DataOf(v)) : DataOf(w \o v)[Len(DataOf(w)) + i] = DataOf(v)[i]
    BY <1>1, <1>2, <1>3, <1>4, <1>5, <1>6
  <1> QED
    BY <1>2, <1>3, <1>4, <1>7, ConcatPointwise, Zenon

LEMMA DataOfTail ==
    ASSUME NEW w \in Seq(WireBytes), w # << >>
    PROVE  /\ DataOf(w) # << >> /\ DataOf(w)[1] = w[1].byte /\ w[1].byte \in Bytes
           /\ Tail(DataOf(w)) = DataOf(Tail(w))
           /\ DataOf(w) = <<w[1].byte>> \o DataOf(Tail(w))
  <1>1. Len(w) \in Nat /\ Len(w) >= 1
    BY LenProperties, EmptySeq
  <1>2. /\ DataOf(w) \in Seq(Bytes) /\ Len(DataOf(w)) = Len(w)
        /\ \A i \in 1..Len(w) : DataOf(w)[i] = w[i].byte /\ w[i].byte \in Bytes
    BY DataOfIs
  <1>3. DataOf(w) # << >> /\ DataOf(w)[1] = w[1].byte /\ w[1].byte \in Bytes
    <2>1. Len(<< >>) = 0
      OBVIOUS
    <2> QED
      BY <1>1, <1>2, <2>1
  <1>4. /\ Tail(w) \in Seq(WireBytes) /\ Len(Tail(w)) = Len(w) - 1
        /\ \A i \in 1 .. Len(w) - 1 : Tail(w)[i] = w[i + 1]
    BY HeadTailProperties
  <1>5. /\ DataOf(Tail(w)) \in Seq(Bytes) /\ Len(DataOf(Tail(w))) = Len(w) - 1
        /\ \A i \in 1 .. Len(w) - 1 : DataOf(Tail(w))[i] = Tail(w)[i].byte
    <2>1. \A u \in Seq(WireBytes) :
              /\ DataOf(u) \in Seq(Bytes) /\ Len(DataOf(u)) = Len(u)
              /\ \A i \in 1..Len(u) : DataOf(u)[i] = u[i].byte
      BY DataOfIs
    <2> QED
      BY <1>4, <2>1
  <1>6. /\ Tail(DataOf(w)) \in Seq(Bytes) /\ Len(Tail(DataOf(w))) = Len(w) - 1
        /\ \A i \in 1 .. Len(w) - 1 : Tail(DataOf(w))[i] = DataOf(w)[i + 1]
        /\ DataOf(w) = <<DataOf(w)[1]>> \o Tail(DataOf(w))
    <2>1. \A s \in Seq(Bytes) : s # << >> =>
              /\ Tail(s) \in Seq(Bytes) /\ Len(Tail(s)) = Len(s) - 1
              /\ \A i \in 1..Len(Tail(s)) : Tail(s)[i] = s[i + 1]
              /\ s = <<s[1]>> \o Tail(s)
      <3> TAKE s \in Seq(Bytes)
      <3> HAVE s # << >>
      <3>1. /\ Head(s) \in Bytes /\ Head(s) = s[1] /\ Tail(s) \in Seq(Bytes)
            /\ Len(Tail(s)) = Len(s) - 1 /\ \A i \in 1..Len(Tail(s)) : Tail(s)[i] = s[i + 1]
        BY HeadTailProperties
      <3>2. s = <<s[1]>> \o Tail(s)
        <4>1. <<s[1]>> \in Seq(Bytes) /\ Len(<<s[1]>>) = 1 /\ <<s[1]>>[1] = s[1]
          BY <3>1
        <4>2. Len(s) \in Nat /\ Len(s) >= 1
          BY LenProperties, EmptySeq
        <4>3. \A i \in 1..Len(Tail(s)) : s[1 + i] = Tail(s)[i]
          BY <3>1, <4>2
        <4>4. /\ Len(s) = Len(<<s[1]>>) + Len(Tail(s))
              /\ \A i \in 1..Len(<<s[1]>>) : s[i] = <<s[1]>>[i]
              /\ \A i \in 1..Len(Tail(s)) : s[Len(<<s[1]>>) + i] = Tail(s)[i]
          BY <3>1, <4>1, <4>2, <4>3
        <4> QED
          BY <3>1, <4>1, <4>4, ConcatPointwise, Zenon
      <3> QED
        BY <3>1, <3>2
    <2>2. /\ Tail(DataOf(w)) \in Seq(Bytes) /\ Len(Tail(DataOf(w))) = Len(DataOf(w)) - 1
          /\ \A i \in 1..Len(Tail(DataOf(w))) : Tail(DataOf(w))[i] = DataOf(w)[i + 1]
          /\ DataOf(w) = <<DataOf(w)[1]>> \o Tail(DataOf(w))
      BY <1>2, <1>3, <2>1, Zenon
    <2> QED
      BY <1>2, <2>2
  <1>7. Tail(DataOf(w)) = DataOf(Tail(w))
    <2>1. ASSUME NEW i \in 1 .. Len(w) - 1 PROVE Tail(DataOf(w))[i] = DataOf(Tail(w))[i]
      <3>1. i + 1 \in 1..Len(w)
        BY <1>1
      <3> QED
        BY <1>2, <1>4, <1>5, <1>6, <3>1
    <2>2. \A s, t \in Seq(Bytes) :
              Len(s) = Len(t) /\ (\A i \in 1..Len(s) : s[i] = t[i]) => s = t
      BY SeqEqual
    <2> QED
      BY <1>5, <1>6, <2>1, <2>2
  <1> QED
    BY <1>3, <1>6, <1>7
-----------------------------------------------------------------------------
(* While nothing has gone wrong: the bytes on the wire lead from where the *)
(* parser is to where the serializer is, and what was handed on, what is   *)
(* held and what is on the wire make up what was sent.                     *)
FaithInv ==
    faults = 0 =>
        /\ started.receiver
        /\ Leads(Reading, DataOf(wire), Place(open))
        /\ Joins(FlatMap(EventOf, handed), Held, FlatMap(MarkOf, DataOf(wire)),
                 FlatMap(EventOf, SentMessages))
        /\ Meets(FlatMap(RealOf, handed), FlatMap(AloneOf, DataOf(wire)),
                 FlatMap(RealOf, SentMessages))

LEMMA SentAre ==
    ASSUME NEW s \in Seq(SentOnes)
    PROVE  LET ms == [i \in 1..Len(s) |-> s[i].message] IN
           /\ ms \in Seq(MidiMessages) /\ Len(ms) = Len(s)
           /\ \A i \in 1..Len(s) : ms[i] = s[i].message
  <1> DEFINE n == Len(s)
             ms == [i \in 1..n |-> s[i].message]
  <1>1. n \in Nat /\ \A i \in 1..n : s[i] \in SentOnes
    BY LenProperties, ElementOfSeq
  <1>2. \A i \in 1..n : s[i].message \in MidiMessages
    BY <1>1, LinkAssumption DEF SentOnes
  <1> HIDE DEF n
  <1>3. ms \in [1..n -> MidiMessages] /\ \A i \in 1..n : ms[i] = s[i].message
    BY <1>2
  <1> HIDE DEF ms
  <1>4. ms \in Seq(MidiMessages) /\ Len(ms) = n
    BY <1>1, <1>3
  <1> QED
    BY <1>3, <1>4 DEF n, ms

LEMMA SentMessagesAre ==
    ASSUME LinkTypes
    PROVE  /\ SentMessages \in Seq(MidiMessages) /\ Len(SentMessages) = Len(sent)
           /\ \A i \in 1..Len(sent) : SentMessages[i] = sent[i].message
  BY SentAre DEF LinkTypes, SentMessages

LEMMA SentMessagesGrow ==
    ASSUME LinkTypes, LinkTypes', NEW m \in Messages, NEW i \in BOOLEAN,
           sent' = Append(sent, [message |-> m, intact |-> i])
    PROVE  SentMessages' = Append(SentMessages, m) /\ m \in MidiMessages
  <1>1. /\ Len(sent') = Len(sent) + 1
        /\ sent'[Len(sent) + 1] = [message |-> m, intact |-> i]
        /\ \A k \in 1..Len(sent) : sent'[k] = sent[k]
    BY SentGrows
  <1>2. /\ SentMessages \in Seq(MidiMessages) /\ Len(SentMessages) = Len(sent)
        /\ \A k \in 1..Len(sent) : SentMessages[k] = sent[k].message
    BY SentMessagesAre
  <1>3. /\ SentMessages' \in Seq(MidiMessages) /\ Len(SentMessages') = Len(sent')
        /\ \A k \in 1..Len(sent') : SentMessages'[k] = sent'[k].message
    BY SentAre DEF LinkTypes, SentMessages
  <1>4. m \in MidiMessages /\ Len(sent) \in Nat
    BY LinkAssumption, LenProperties DEF LinkTypes
  <1> DEFINE a == SentMessages
             b == SentMessages'
             n == Len(sent)
  <1>5. /\ Append(a, m) \in Seq(MidiMessages) /\ Len(Append(a, m)) = n + 1
        /\ Append(a, m)[n + 1] = m /\ \A k \in 1..n : Append(a, m)[k] = a[k]
    BY <1>2, <1>4, AppendProperties
  <1>6. b[n + 1] = m
    <2>1. n + 1 \in 1..Len(sent')
      BY <1>1, <1>4
    <2>2. b[n + 1] = sent'[n + 1].message
      BY <1>3, <2>1
    <2> QED
      BY <1>1, <2>2
  <1>7. ASSUME NEW k \in 1..n PROVE b[k] = a[k]
    <2>1. k \in 1..Len(sent')
      BY <1>1, <1>4
    <2> QED
      BY <1>1, <1>2, <1>3, <2>1
  <1>8. \A k \in 1 .. n + 1 : b[k] = Append(a, m)[k]
    <2> TAKE k \in 1 .. n + 1
    <2>1. CASE k = n + 1
      BY <1>5, <1>6, <2>1
    <2>2. CASE k # n + 1
      <3>1. k \in 1..n
        BY <1>4, <2>2
      <3> QED
        BY <1>5, <1>7, <3>1
    <2> QED
      BY <2>1, <2>2
  <1>9. b \in Seq(MidiMessages) /\ Len(b) = n + 1
    BY <1>1, <1>3
  <1>10. b = Append(a, m)
    BY <1>5, <1>8, <1>9, SeqEqual
  <1> QED
    BY <1>4, <1>10

LEMMA FaithInit == Init => FaithInv
  <1> SUFFICES ASSUME Init PROVE FaithInv
    OBVIOUS
  <1>1. /\ started.receiver /\ wire = << >> /\ sent = << >> /\ handed = << >> /\ open = FALSE
        /\ inSysEx = FALSE /\ status = 0
    BY DEF Init, ParserInit
  <1>2. DataOf(wire) = << >> /\ SentMessages = << >>
    BY <1>1 DEF DataOf, SentMessages
  <1>3. Reading = Between /\ Held = << >> /\ Place(open) = Between
    BY <1>1 DEF Reading, Held, Place
  <1>4. Leads(Between, << >>, Between)
    <2>1. Between \in 0..3
      BY DEF Between
    <2> QED
      BY <2>1, LeadsNowhere
  <1>5. << >> \o << >> = << >>
    OBVIOUS
  <1>6. /\ FlatMap(EventOf, << >>) = << >> /\ FlatMap(RealOf, << >>) = << >>
        /\ FlatMap(MarkOf, << >>) = << >> /\ FlatMap(AloneOf, << >>) = << >>
    BY FlatMapEmpty
  <1> QED
    BY <1>1, <1>2, <1>3, <1>4, <1>5, <1>6, Zenon DEF FaithInv, Joins, Meets

LEMMA FaithSend ==
    ASSUME LinkInv, LinkTypes', FaithInv, faults = 0, NEW m \in Messages, Send(m)
    PROVE  FaithInv'
  <1>1. /\ Fits(open, m) /\ open' = OpenAfter(open, m)
        /\ PutOnWire(Line(m), Len(sent) + 1)
        /\ sent' = Append(sent, [message |-> m, intact |-> started.receiver])
        /\ started' = started /\ handed' = handed
        /\ UNCHANGED parserVars
    BY DEF Send, Accepted, receiveVars, vars
  <1>2. LinkTypes /\ started.receiver /\ started.receiver \in BOOLEAN /\ open \in BOOLEAN
    BY DEF LinkInv, FaithInv, LinkTypes
  <1>3. Reading' = Reading /\ Held' = Held
    BY <1>1 DEF Reading, Held, parserVars, messageVars
  <1>4. Line(m) \in Seq(Bytes) /\ Len(sent) + 1 \in Nat
    BY <1>2, LineIsBytes, LenProperties DEF LinkTypes
  <1>5. wire' = wire \o Tagged(Line(m), Len(sent) + 1)
    BY <1>1, <1>2, <1>4, PutIsTyped
  <1>6. DataOf(wire') = DataOf(wire) \o Line(m)
    <2>1. Tagged(Line(m), Len(sent) + 1) \in Seq(WireBytes)
      BY <1>4, TaggedIs
    <2>2. wire \in Seq(WireBytes)
      BY <1>2 DEF LinkTypes
    <2>3. DataOf(wire \o Tagged(Line(m), Len(sent) + 1))
              = DataOf(wire) \o DataOf(Tagged(Line(m), Len(sent) + 1))
      BY <2>1, <2>2, DataOfConcat
    <2>4. DataOf(Tagged(Line(m), Len(sent) + 1)) = Line(m)
      BY <1>4, DataOfTagged
    <2> QED
      BY <1>5, <2>3, <2>4, Zenon
  <1>7. DataOf(wire) \in Seq(Bytes)
    BY <1>2, DataOfIs DEF LinkTypes
  <1>8. Leads(Reading', DataOf(wire'), Place(open'))
    <2>1. Leads(Place(open), Line(m), Place(open'))
      BY <1>1, <1>2, LineLeads
    <2>2. Leads(Reading, DataOf(wire), Place(open))
      BY DEF FaithInv
    <2>3. Leads(Reading, DataOf(wire) \o Line(m), Place(open'))
      BY <1>4, <1>7, <2>1, <2>2, LeadsOn
    <2> QED
      BY <1>3, <1>6, <2>3, Zenon
  <1>9. SentMessages' = Append(SentMessages, m) /\ m \in MidiMessages
    BY <1>1, <1>2, SentMessagesGrow
  <1>10. SentMessages \in Seq(MidiMessages) /\ handed \in Seq(MidiMessages)
    BY <1>2, SentMessagesAre DEF LinkTypes
  <1>11. /\ FlatMap(EventOf, SentMessages') = FlatMap(EventOf, SentMessages) \o EventOf[m]
         /\ FlatMap(RealOf, SentMessages') = FlatMap(RealOf, SentMessages) \o RealOf[m]
    <2>1. /\ FlatMap(EventOf, Append(SentMessages, m)) = FlatMap(EventOf, SentMessages) \o EventOf[m]
          /\ FlatMap(RealOf, Append(SentMessages, m)) = FlatMap(RealOf, SentMessages) \o RealOf[m]
      <3>1. \A p \in Seq(MidiMessages), x \in MidiMessages :
                /\ FlatMap(EventOf, Append(p, x)) = FlatMap(EventOf, p) \o EventOf[x]
                /\ FlatMap(RealOf, Append(p, x)) = FlatMap(RealOf, p) \o RealOf[x]
        BY StreamMaps, FlatMapAppend
      <3> QED
        BY <1>9, <1>10, <3>1, Zenon
    <2> QED
      BY <1>9, <2>1, Zenon
  <1>12. /\ FlatMap(MarkOf, DataOf(wire')) = FlatMap(MarkOf, DataOf(wire)) \o EventOf[m]
         /\ FlatMap(AloneOf, DataOf(wire')) = FlatMap(AloneOf, DataOf(wire)) \o RealOf[m]
    BY <1>4, <1>6, <1>7, ByteStreams, LineStreams, Zenon
  <1>13. /\ FlatMap(EventOf, handed) \in Seq(Nat) /\ FlatMap(RealOf, handed) \in Seq(MidiMessages)
         /\ FlatMap(MarkOf, DataOf(wire)) \in Seq(Nat)
         /\ FlatMap(AloneOf, DataOf(wire)) \in Seq(MidiMessages)
         /\ Held \in Seq(Nat) /\ EventOf[m] \in Seq(Nat) /\ RealOf[m] \in Seq(MidiMessages)
    BY <1>7, <1>9, <1>10, ByteStreams, MessageStreams, HeldIs, StreamMaps DEF LinkInv, Maps
  <1>14. Joins(FlatMap(EventOf, handed'), Held', FlatMap(MarkOf, DataOf(wire')),
               FlatMap(EventOf, SentMessages'))
    <2>1. Joins(FlatMap(EventOf, handed), Held, FlatMap(MarkOf, DataOf(wire)) \o EventOf[m],
                FlatMap(EventOf, SentMessages) \o EventOf[m])
      <3>1. Joins(FlatMap(EventOf, handed), Held, FlatMap(MarkOf, DataOf(wire)),
                  FlatMap(EventOf, SentMessages))
        BY DEF FaithInv
      <3> QED
        BY <1>13, <3>1, JoinsGrow, Zenon
    <2> QED
      BY <1>1, <1>3, <1>11, <1>12, <2>1, Zenon
  <1>15. Meets(FlatMap(RealOf, handed'), FlatMap(AloneOf, DataOf(wire')),
               FlatMap(RealOf, SentMessages'))
    <2>1. Meets(FlatMap(RealOf, handed), FlatMap(AloneOf, DataOf(wire)) \o RealOf[m],
                FlatMap(RealOf, SentMessages) \o RealOf[m])
      <3>1. Meets(FlatMap(RealOf, handed), FlatMap(AloneOf, DataOf(wire)),
                  FlatMap(RealOf, SentMessages))
        BY DEF FaithInv
      <3> QED
        BY <1>13, <3>1, MeetsGrow, Zenon
    <2> QED
      BY <1>1, <1>11, <1>12, <2>1, Zenon
  <1>16. started'.receiver
    BY <1>1, <1>2
  <1> QED
    BY <1>8, <1>14, <1>15, <1>16 DEF FaithInv

LEMMA FaithParse ==
    ASSUME LinkInv, LinkInv', FaithInv, faults = 0, Parse
    PROVE  FaithInv'
  <1> DEFINE b == wire[1].byte
             rest == DataOf(Tail(wire))
  <1>1. /\ wire # << >> /\ b \in Bytes /\ ParseByte(b) /\ emitted' \in Seq(MidiMessages)
        /\ Tail(wire) \in Seq(WireBytes)
    BY ParseIs
  <1>2. /\ wire' = Tail(wire) /\ handed' = handed \o emitted'
        /\ sent' = sent /\ open' = open /\ started' = started
    BY DEF Parse, sendVars
  <1>3. LinkTypes /\ PInv /\ wire \in Seq(WireBytes) /\ handed \in Seq(MidiMessages)
    BY DEF LinkInv, LinkTypes
  <1>4. /\ DataOf(wire) # << >> /\ DataOf(wire)[1] = b /\ Tail(DataOf(wire)) = rest
        /\ DataOf(wire) = <<b>> \o rest
    BY <1>1, <1>3, DataOfTail
  <1>5. DataOf(wire) \in Seq(Bytes)
    BY <1>3, DataOfIs
  <1>6. rest \in Seq(Bytes)
    BY <1>1, DataOfIs
  <1>7. DataOf(wire') = rest
    BY <1>2
  <1> HIDE DEF b, rest
  <1>8. Allowed(Reading, b) /\ Leads(Follow(Reading, b), rest, Place(open))
    <2>1. Leads(Reading, DataOf(wire), Place(open))
      BY DEF FaithInv
    <2> QED
      BY <1>4, <1>5, <2>1, LeadsFirst
  <1>9. Reads(b)
    BY <1>1, <1>3, <1>8, AllowedReads
  <1>10. Leads(Reading', DataOf(wire'), Place(open'))
    BY <1>2, <1>7, <1>8, <1>9, Zenon DEF Reads
  <1>11. /\ FlatMap(MarkOf, DataOf(wire)) = MarkOf[b] \o FlatMap(MarkOf, rest)
         /\ FlatMap(AloneOf, DataOf(wire)) = AloneOf[b] \o FlatMap(AloneOf, rest)
    BY <1>1, <1>4, <1>6, OneByte, ByteStreams, Zenon
  <1>12. /\ FlatMap(EventOf, handed') = FlatMap(EventOf, handed) \o FlatMap(EventOf, emitted')
         /\ FlatMap(RealOf, handed') = FlatMap(RealOf, handed) \o FlatMap(RealOf, emitted')
    BY <1>1, <1>2, <1>3, MessageStreams, Zenon
  <1>13. /\ FlatMap(EventOf, handed) \in Seq(Nat) /\ FlatMap(RealOf, handed) \in Seq(MidiMessages)
         /\ FlatMap(EventOf, emitted') \in Seq(Nat)
         /\ FlatMap(RealOf, emitted') \in Seq(MidiMessages)
         /\ FlatMap(MarkOf, rest) \in Seq(Nat) /\ FlatMap(AloneOf, rest) \in Seq(MidiMessages)
    BY <1>1, <1>3, <1>6, ByteStreams, MessageStreams
  <1>14. /\ Held \in Seq(Nat) /\ MarkOf[b] \in Seq(Nat) /\ AloneOf[b] \in Seq(MidiMessages)
    BY <1>1, <1>3, HeldIs, StreamMaps DEF Maps
  <1>15. Held' \in Seq(Nat)
    <2>1. /\ run' \in Seq(0..127) /\ data' \in Seq(0..127) /\ status' \in 0..255
          /\ 0..127 \subseteq Nat
      BY DEF LinkInv, PInv, ParserTypeOK
    <2>2. run' \in Seq(Nat) /\ data' \in Seq(Nat) /\ status' \in Nat
      <3>1. run' \in Seq(Nat)
        BY <2>1, SeqMonotonic
      <3>2. data' \in Seq(Nat)
        BY <2>1, SeqMonotonic
      <3> QED
        BY <2>1, <3>1, <3>2
    <2>3. /\ << >> \in Seq(Nat) /\ <<StartMark>> \in Seq(Nat) /\ <<status'>> \in Seq(Nat)
      BY <2>2, SmallSeqs DEF StartMark
    <2>4. /\ <<StartMark>> \o run' \in Seq(Nat) /\ << >> \o run' \in Seq(Nat)
          /\ <<status'>> \o data' \in Seq(Nat)
      BY <2>2, <2>3, ConcatProperties
    <2> QED
      BY <2>2, <2>3, <2>4 DEF Held
  <1>16. Joins(FlatMap(EventOf, handed'), Held', FlatMap(MarkOf, DataOf(wire')),
               FlatMap(EventOf, SentMessages))
    <2>1. Meets(FlatMap(EventOf, emitted'), Held', Held \o MarkOf[b])
      BY <1>9, Zenon DEF Reads, Meets
    <2>2. Joins(FlatMap(EventOf, handed), Held, MarkOf[b] \o FlatMap(MarkOf, rest),
                FlatMap(EventOf, SentMessages))
      BY <1>11 DEF FaithInv
    <2>3. Joins(FlatMap(EventOf, handed) \o FlatMap(EventOf, emitted'), Held',
                FlatMap(MarkOf, rest), FlatMap(EventOf, SentMessages))
      BY <1>13, <1>14, <1>15, <2>1, <2>2, JoinsMove, Zenon
    <2> QED
      BY <1>7, <1>12, <2>3, Zenon
  <1>17. Meets(FlatMap(RealOf, handed'), FlatMap(AloneOf, DataOf(wire')),
               FlatMap(RealOf, SentMessages))
    <2>1. FlatMap(RealOf, emitted') = AloneOf[b]
      BY <1>9 DEF Reads
    <2>2. Meets(FlatMap(RealOf, handed), AloneOf[b] \o FlatMap(AloneOf, rest),
                FlatMap(RealOf, SentMessages))
      BY <1>11 DEF FaithInv
    <2>3. Meets(FlatMap(RealOf, handed) \o AloneOf[b], FlatMap(AloneOf, rest),
                FlatMap(RealOf, SentMessages))
      BY <1>13, <1>14, <2>2, MeetsMove, Zenon
    <2> QED
      BY <1>7, <1>12, <2>1, <2>3, Zenon
  <1>18. SentMessages' = SentMessages /\ started'.receiver
    BY <1>2 DEF SentMessages, FaithInv
  <1> QED
    BY <1>10, <1>16, <1>17, <1>18 DEF FaithInv

LEMMA FaithFlush ==
    ASSUME LinkInv, LinkInv', FaithInv, faults = 0, Flush
    PROVE  FaithInv'
  <1>1. /\ EndOfBuffer /\ wire' = wire /\ handed' = handed \o emitted'
        /\ sent' = sent /\ open' = open /\ started' = started
    BY DEF Flush, sendVars
  <1>2. LinkTypes /\ PInv /\ wire \in Seq(WireBytes) /\ handed \in Seq(MidiMessages)
    BY DEF LinkInv, LinkTypes
  <1>3. /\ Reading' = Reading /\ FlatMap(EventOf, emitted') \o Held' = Held
        /\ FlatMap(RealOf, emitted') = << >>
    BY <1>1, <1>2, FlushReads
  <1>4. emitted' \in Seq(MidiMessages)
    <2>1. 0 \in Bytes
      BY DEF Bytes
    <2> QED
      BY <1>1, <1>2, <2>1, EmitsMessages
  <1>5. DataOf(wire) \in Seq(Bytes)
    BY <1>2, DataOfIs
  <1>6. /\ FlatMap(EventOf, handed') = FlatMap(EventOf, handed) \o FlatMap(EventOf, emitted')
        /\ FlatMap(RealOf, handed') = FlatMap(RealOf, handed) \o FlatMap(RealOf, emitted')
    BY <1>1, <1>2, <1>4, MessageStreams, Zenon
  <1>7. /\ FlatMap(EventOf, handed) \in Seq(Nat) /\ FlatMap(RealOf, handed) \in Seq(MidiMessages)
        /\ FlatMap(EventOf, emitted') \in Seq(Nat)
        /\ FlatMap(MarkOf, DataOf(wire)) \in Seq(Nat)
    BY <1>2, <1>4, <1>5, ByteStreams, MessageStreams
  <1>8. Held' = << >>
    <2>1. inSysEx' /\ ~pendingStart' /\ run' = << >>
      BY <1>1, <1>2 DEF EndOfBuffer, PInv, DumpInv
    <2>2. << >> \o << >> = << >>
      OBVIOUS
    <2> QED
      BY <2>1, <2>2 DEF Held
  <1>9. Joins(FlatMap(EventOf, handed'), Held', FlatMap(MarkOf, DataOf(wire)),
              FlatMap(EventOf, SentMessages))
    <2>1. << >> \in Seq(Nat) /\ Held \in Seq(Nat)
      BY <1>2, HeldIs
    <2>2. /\ Joins(FlatMap(EventOf, handed), Held, FlatMap(MarkOf, DataOf(wire)),
                   FlatMap(EventOf, SentMessages))
          /\ Meets(FlatMap(EventOf, emitted'), Held', Held)
      BY <1>3, Zenon DEF FaithInv, Meets
    <2>3. Joins(FlatMap(EventOf, handed) \o FlatMap(EventOf, emitted'), Held',
                FlatMap(MarkOf, DataOf(wire)), FlatMap(EventOf, SentMessages))
      BY <1>7, <1>8, <2>1, <2>2, JoinsRelease, Zenon
    <2> QED
      BY <1>6, <2>3, Zenon
  <1>10. FlatMap(RealOf, handed') = FlatMap(RealOf, handed)
    BY <1>3, <1>6, <1>7, ConcatEmptySeq
  <1>11. SentMessages' = SentMessages /\ started'.receiver
    BY <1>1 DEF SentMessages, FaithInv
  <1> QED
    BY <1>1, <1>3, <1>9, <1>10, <1>11 DEF FaithInv
-----------------------------------------------------------------------------
LEMMA FaithNext ==
    ASSUME LinkInv, LinkInv', FaithInv, [Next]_linkVars
    PROVE  FaithInv'
  <1>1. LinkTypes /\ LinkTypes'
    BY DEF LinkInv
  <1>2. CASE faults' # 0
    BY <1>2 DEF FaithInv
  <1>3. CASE faults' = 0
    <2>1. ASSUME faults < MaxFaults, faults' = faults + 1 PROVE FALSE
      BY <1>1, <1>3, <2>1, FaultCounts
    <2>2. CASE \E m \in Messages : Send(m)
      <3>1. PICK m \in Messages : Send(m)
        BY <2>2
      <3>2. faults = 0
        BY <1>3, <3>1 DEF Send
      <3> QED
        BY <1>1, <3>1, <3>2, FaithSend
    <2>3. CASE Parse
      <3>1. faults = 0
        BY <1>3, <2>3 DEF Parse
      <3> QED
        BY <2>3, <3>1, FaithParse
    <2>4. CASE Flush
      <3>1. faults = 0
        BY <1>3, <2>4 DEF Flush
      <3> QED
        BY <2>4, <3>1, FaithFlush
    <2>5. CASE Read \/ UNCHANGED linkVars
      <3>1. /\ UNCHANGED <<receiveVars, sendVars>>
            /\ started' = started /\ wire' = wire /\ faults' = faults
        BY <2>5 DEF Read, linkVars
      <3>2. Reading' = Reading /\ Held' = Held /\ handed' = handed
        BY <3>1 DEF receiveVars, vars, parserVars, messageVars, Reading, Held
      <3>3. SentMessages' = SentMessages /\ open' = open
        BY <3>1 DEF sendVars, SentMessages
      <3> QED
        BY <3>1, <3>2, <3>3 DEF FaithInv
    <2>6. CASE \/ \E m \in Messages : SendCut(m)
               \/ SenderEnd \/ SenderBegin \/ SenderMoves \/ SenderBeginAgain \/ LoseByte \/ ChangeByte
               \/ ReceiverEnd \/ ReceiverBegin
               \/ \E moved \in BOOLEAN : ReceiverBeginAgain(moved)
      <3>1. faults < MaxFaults /\ faults' = faults + 1
        BY <2>6 DEF SendCut, SenderEnd, SenderBegin, SenderMoves, SenderBeginAgain, LoseByte,
                    ChangeByte, ReceiverEnd, ReceiverBegin, ReceiverBeginAgain
      <3> QED
        BY <2>1, <3>1
    <2> QED
      BY <2>2, <2>3, <2>4, <2>5, <2>6 DEF Next
  <1> QED
    BY <1>2, <1>3

LEMMA FaithIsFaithful ==
    ASSUME LinkInv, FaithInv
    PROVE  LinkIsFaithful
  <1>1. LinkTypes /\ PInv
    BY DEF LinkInv
  <1>2. TypeOK
    BY <1>1 DEF TypeOK, LinkTypes, PInv
  <1>3. ASSUME faults = 0
        PROVE  /\ IsPrefix(EventsOf(handed), EventsOf(SentMessages))
               /\ IsPrefix(RealTimeOf(handed), RealTimeOf(SentMessages))
               /\ wire = << >> /\ run = << >> /\ ~pendingStart =>
                      /\ EventsOf(handed) = EventsOf(SentMessages)
                      /\ RealTimeOf(handed) = RealTimeOf(SentMessages)
    <2> DEFINE he == FlatMap(EventOf, handed)
               hr == FlatMap(RealOf, handed)
               we == FlatMap(MarkOf, DataOf(wire))
               wr == FlatMap(AloneOf, DataOf(wire))
               se == FlatMap(EventOf, SentMessages)
               sr == FlatMap(RealOf, SentMessages)
    <2>1. /\ EventsOf(handed) = he /\ RealTimeOf(handed) = hr
          /\ EventsOf(SentMessages) = se /\ RealTimeOf(SentMessages) = sr
      BY <1>1, SentMessagesAre, StreamsOf DEF LinkTypes
    <2>2. DataOf(wire) \in Seq(Bytes)
      BY <1>1, DataOfIs DEF LinkTypes
    <2>3. /\ he \in Seq(Nat) /\ hr \in Seq(MidiMessages)
          /\ we \in Seq(Nat) /\ wr \in Seq(MidiMessages) /\ Held \in Seq(Nat)
      BY <1>1, <2>2, ByteStreams, MessageStreams, HeldIs DEF LinkTypes
    <2>4. Joins(he, Held, we, se) /\ Meets(hr, wr, sr) /\ Leads(Reading, DataOf(wire), Place(open))
      BY <1>3 DEF FaithInv
    <2> HIDE DEF he, hr, we, wr, se, sr
    <2>5. IsPrefix(he, se)
      <3>1. Held \o we \in Seq(Nat)
        BY <2>3, ConcatProperties
      <3>2. IsPrefix(he, he \o (Held \o we))
        BY <2>3, <3>1, PrefixOfConcat
      <3> QED
        BY <2>4, <3>2, Zenon DEF Joins
    <2>6. IsPrefix(hr, sr)
      <3>1. IsPrefix(hr, hr \o wr)
        BY <2>3, PrefixOfConcat
      <3> QED
        BY <2>4, <3>1, Zenon DEF Meets
    <2>7. ASSUME wire = << >>, run = << >>, ~pendingStart
          PROVE  he = se /\ hr = sr
      <3>1. DataOf(wire) = << >>
        BY <2>7 DEF DataOf
      <3>2. we = << >> /\ wr = << >>
        BY <3>1, FlatMapEmpty DEF we, wr
      <3>3. Reading = Place(open)
        BY <1>1, <2>4, <3>1, ReadingIs, LeadsNowhere
      <3>4. << >> \o << >> = << >>
        OBVIOUS
      <3>5. Held = << >>
        <4>1. Place(open) = InDump \/ Place(open) = Between
          BY DEF Place
        <4>2. inSysEx \/ (~inSysEx /\ status = 0)
          BY <1>1, <3>3, <4>1, ReadingIs
        <4> QED
          BY <2>7, <3>4, <4>2 DEF Held
      <3>6. he \o (<< >> \o << >>) = se /\ hr \o << >> = sr
        BY <2>4, <3>2, <3>5, Zenon DEF Joins, Meets
      <3> QED
        BY <2>3, <3>4, <3>6, ConcatEmptySeq
    <2> QED
      BY <2>1, <2>5, <2>6, <2>7
  <1> QED
    BY <1>2, <1>3 DEF LinkIsFaithful, Arrives

(* As long as begin() is not called again in the middle of a dump and      *)
(* nothing else has gone wrong, what the receiver's router is handed is    *)
(* what the sender's router handed on, in order and, once the cable and    *)
(* the parser are empty, all of it.                                        *)
THEOREM FaithfulLink == ~BeginsMidDump => (Spec => []LinkIsFaithful)
  <1> SUFFICES ASSUME ~BeginsMidDump PROVE Spec => []LinkIsFaithful
    OBVIOUS
  <1>1. LinkInv /\ [Next]_linkVars => LinkInv'
    BY LinkInvNext
  <1>2. LinkInv /\ LinkInv' /\ FaithInv /\ [Next]_linkVars => FaithInv'
    BY FaithNext
  <1>3. LinkInv /\ FaithInv => LinkIsFaithful
    BY FaithIsFaithful
  <1> QED
    BY <1>1, <1>2, <1>3, LinkInvInit, FaithInit, PTL DEF Spec
-----------------------------------------------------------------------------
(* How often a message is in a sequence of them.                           *)
LEMMA CountIs ==
    ASSUME NEW s \in Seq(MidiMessages), NEW m
    PROVE  IsFiniteSet({i \in 1..Len(s) : s[i] = m}) /\ Count(s, m) \in Nat
  <1>1. Len(s) \in Nat
    BY LenProperties
  <1>2. IsFiniteSet(1..Len(s))
    BY <1>1, FS_Interval
  <1>3. {i \in 1..Len(s) : s[i] = m} \in SUBSET (1..Len(s))
    OBVIOUS
  <1>4. IsFiniteSet({i \in 1..Len(s) : s[i] = m})
    BY <1>2, <1>3, FS_Subset, Zenon
  <1> QED
    BY <1>4, FS_CardinalityType DEF Count

LEMMA CountMore ==
    ASSUME NEW s \in Seq(MidiMessages), NEW t \in Seq(MidiMessages), NEW m
    PROVE  /\ Count(s \o t, m) \in Nat /\ Count(s, m) \in Nat
           /\ Count(s \o t, m) >= Count(s, m)
           /\ (\E j \in 1..Len(t) : t[j] = m) => Count(s \o t, m) >= Count(s, m) + 1
  <1> DEFINE A == {i \in 1..Len(s) : s[i] = m}
             B == {i \in 1..Len(s \o t) : (s \o t)[i] = m}
  <1>1. /\ s \o t \in Seq(MidiMessages) /\ Len(s \o t) = Len(s) + Len(t)
        /\ Len(s) \in Nat /\ Len(t) \in Nat
        /\ \A i \in 1 .. Len(s) + Len(t) :
               (s \o t)[i] = IF i <= Len(s) THEN s[i] ELSE t[i - Len(s)]
    BY ConcatProperties, LenProperties
  <1>2. /\ IsFiniteSet(A) /\ IsFiniteSet(B) /\ Count(s, m) = Cardinality(A)
        /\ Count(s \o t, m) = Cardinality(B) /\ Count(s, m) \in Nat /\ Count(s \o t, m) \in Nat
    BY <1>1, CountIs DEF Count
  <1>3. A \subseteq B
    <2> SUFFICES ASSUME NEW i \in A PROVE i \in B
      OBVIOUS
    <2>1. i \in 1..Len(s) /\ s[i] = m
      OBVIOUS
    <2>2. i \in 1 .. Len(s) + Len(t) /\ i <= Len(s)
      BY <1>1, <2>1
    <2> QED
      BY <1>1, <2>1, <2>2
  <1>4. Cardinality(B) >= Cardinality(A)
    <2> HIDE DEF A, B
    <2> QED
      BY <1>2, <1>3, FS_Subset
  <1>5. ASSUME NEW j \in 1..Len(t), t[j] = m
        PROVE  Cardinality(B) >= Cardinality(A) + 1
    <2> DEFINE x == Len(s) + j
    <2>1. x \in 1 .. Len(s) + Len(t) /\ ~(x <= Len(s)) /\ x - Len(s) = j
      BY <1>1
    <2>2. x \in B
      BY <1>1, <1>5, <2>1
    <2>3. x \notin A
      BY <1>1, <2>1
    <2> HIDE DEF A, B, x
    <2>4. Cardinality(A \cup {x}) = Cardinality(A) + 1
      BY <1>2, <2>3, FS_AddElement
    <2>5. A \cup {x} \subseteq B
      BY <1>3, <2>2
    <2>6. Cardinality(A \cup {x}) <= Cardinality(B)
      BY <1>2, <2>5, FS_Subset
    <2> QED
      BY <1>2, <2>4, <2>6
  <1> QED
    BY <1>2, <1>4, <1>5

-----------------------------------------------------------------------------
(* The parser has read k bytes of the short message m.                     *)
Midway(m, k) ==
    /\ ~inSysEx /\ status = m.status /\ Len(data) = k - 1
    /\ \A j \in 1 .. k - 1 : data[j] = m.data[j]

(* A byte of a short message that comes where it belongs.                  *)
Comes(m, k, b) ==
    /\ k \in 0 .. Len(Line(m)) - 1 /\ b = Line(m)[k + 1]
    /\ k > 0 => Midway(m, k)

(* It is read, and the last one hands the message on.                      *)
Goes(m, k) ==
    IF k + 1 < Len(Line(m)) THEN Midway(m, k + 1)'
    ELSE \E j \in 1..Len(emitted') : emitted'[j] = m

LEMMA ShortIs ==
    ASSUME NEW m \in Messages, ~m.chunk
    PROVE  /\ m = ShortMessage(m.status, m.data) /\ HasFixedLength(m.status)
           /\ m.status \in Bytes /\ m.data \in Seq(Bytes)
           /\ Len(m.data) = DataLength(m.status) /\ Len(m.data) \in 0..2
           /\ Len(Line(m)) = 1 + Len(m.data) /\ Line(m)[1] = m.status
           /\ \A i \in 2..Len(Line(m)) : Line(m)[i] = m.data[i - 1]
           /\ \A i \in 1..Len(m.data) : m.data[i] \in 0..127
  <1>1. /\ m \in MidiMessages /\ IsComplete(m) /\ m.data \in Seq(Bytes)
        /\ \A i \in 1..Len(m.data) : m.data[i] \in 0..127
        /\ Line(m)[1] = m.status
        /\ \A i \in 2..Len(Line(m)) : Line(m)[i] = m.data[i - 1]
    BY LineOf
  <1>2. /\ m = ShortMessage(m.status, m.data) /\ HasFixedLength(m.status)
        /\ m.status \in Bytes /\ Len(m.data) = DataLength(m.status)
    BY <1>1 DEF IsComplete, MidiMessages
  <1>3. Len(Line(m)) = 1 + Len(m.data)
    BY LineIsBytes
  <1> QED
    BY <1>1, <1>2, <1>3, LengthType

LEMMA StatusGoes ==
    ASSUME PInv, NEW m \in Messages, ~m.chunk, ParseByte(m.status)
    PROVE  Goes(m, 0)
  <1> DEFINE b == m.status
  <1>1. /\ m = ShortMessage(b, m.data) /\ HasFixedLength(b) /\ b \in Bytes
        /\ Len(m.data) = DataLength(b) /\ Len(m.data) \in 0..2
        /\ Len(Line(m)) = 1 + Len(m.data) /\ m.data \in Seq(Bytes)
    BY ShortIs
  <1> HIDE DEF b
  <1>2. ParseByte(b)
    BY DEF b
  <1>3. ~IsDataByte(b)
    BY <1>1 DEF HasFixedLength, IsStatusByte, IsDataByte, Bytes
  <1>4. CASE DataLength(b) = 0
    <2>1. m = ShortMessage(b, << >>)
      <3>1. m.data = << >>
        BY <1>1, <1>4, EmptySeq
      <3> QED
        BY <1>1, <3>1
    <2>2. RealTime(b) \/ StatusAlone(b)
      BY <1>1, <1>2, <1>3, <1>4 DEF ParseByte, DumpData, FrameByte, StatusBegins, Orphan, DataByte
    <2>3. \E j \in 1..Len(emitted') : emitted'[j] = ShortMessage(b, << >>)
      <3> DEFINE Alone == ShortMessage(b, << >>)
      <3>1. /\ \A c : /\ Len(<<c, Alone>>) = 2 /\ <<c, Alone>>[2] = Alone
                     /\ Len(Append(<<c>>, Alone)) = 2 /\ Append(<<c>>, Alone)[2] = Alone
            /\ Append(<< >>, Alone) = <<Alone>>
            /\ Len(<<Alone>>) = 1 /\ <<Alone>>[1] = Alone
        <4> HIDE DEF Alone
        <4> QED
          BY AppendNone, AppendOne
      <3>2. \/ emitted' = <<Alone>>
            \/ \E c : emitted' = <<c, Alone>> \/ emitted' = Append(<<c>>, Alone)
        <4>1. CASE RealTime(b)
          BY <4>1 DEF RealTime, Emit
        <4>2. CASE StatusAlone(b)
          <5>1. emitted' = Append(Closing(b), Alone)
            BY <4>2 DEF StatusAlone, Emit
          <5> HIDE DEF Alone
          <5>2. Closing(b) = << >> \/ \E c : Closing(b) = <<c>>
            BY DEF Closing
          <5> QED
            BY <3>1, <5>1, <5>2
        <4> QED
          BY <2>2, <4>1, <4>2
      <3> HIDE DEF Alone
      <3>4. \E j \in 1..Len(emitted') : emitted'[j] = Alone
        <4>1. CASE emitted' = <<Alone>>
          BY <3>1, <4>1
        <4>2. CASE emitted' # <<Alone>>
          <5>1. Len(emitted') = 2 /\ emitted'[2] = Alone
            BY <3>1, <3>2, <4>2
          <5> QED
            BY <5>1
        <4> QED
          BY <4>1, <4>2
      <3> QED
        BY <3>4 DEF Alone
    <2> QED
      BY <1>1, <1>4, <2>1, <2>3 DEF Goes
  <1>5. CASE DataLength(b) # 0
    <2>1. ~IsSystemRealTime(b)
      BY <1>1, <1>5, RealTimeHasNoData
    <2>2. StatusBegins(b)
      BY <1>1, <1>2, <1>3, <1>5, <2>1 DEF ParseByte, RealTime, DumpData, FrameByte, StatusAlone,
                                      Orphan, DataByte
    <2>3. status' = b /\ data' = << >> /\ ~inSysEx'
      <3>1. b # SysExStart
        BY <1>1 DEF HasFixedLength
      <3> QED
        BY <2>2, <3>1 DEF StatusBegins, StatusByte
    <2>4. Len(data') = 0
      BY <2>3
    <2>5. Midway(m, 1)'
      BY <2>3, <2>4 DEF Midway, b
    <2> QED
      BY <1>1, <1>5, <2>5 DEF Goes
  <1> QED
    BY <1>4, <1>5

LEMMA DataGoes ==
    ASSUME PInv, NEW m \in Messages, ~m.chunk, NEW k \in 1..Len(m.data), Midway(m, k),
           ParseByte(m.data[k])
    PROVE  Goes(m, k)
  <1> DEFINE b == m.data[k]
             w == Append(data, b)
  <1>1. /\ m = ShortMessage(m.status, m.data) /\ HasFixedLength(m.status)
        /\ Len(m.data) = DataLength(m.status) /\ Len(m.data) \in 0..2
        /\ Len(Line(m)) = 1 + Len(m.data) /\ m.data \in Seq(Bytes) /\ b \in 0..127
    BY ShortIs
  <1>2. /\ ~inSysEx /\ status = m.status /\ Len(data) = k - 1
        /\ \A j \in 1 .. k - 1 : data[j] = m.data[j]
    BY DEF Midway
  <1>3. status # 0 /\ status \in 0..255 /\ data \in Seq(0..127)
    BY <1>1, <1>2 DEF HasFixedLength, IsStatusByte, PInv, ParserTypeOK
  <1>4. expected = DataLength(status)
    BY <1>3 DEF PInv, MessageInv
  <1>5. /\ w \in Seq(0..127) /\ Len(w) = k /\ w[k] = b
        /\ \A j \in 1 .. k - 1 : w[j] = data[j]
    BY <1>1, <1>2, <1>3, AppendProperties
  <1>6. \A j \in 1..k : w[j] = m.data[j]
    <2> TAKE j \in 1..k
    <2>1. CASE j = k
      BY <1>5, <2>1
    <2>2. CASE j # k
      <3>1. j \in 1 .. k - 1
        BY <2>2
      <3> QED
        BY <1>2, <1>5, <3>1
    <2> QED
      BY <2>1, <2>2
  <1>7. ParseByte(b)
    OBVIOUS
  <1> HIDE DEF b
  <1>8. ~IsStatusByte(b) /\ ~IsSystemRealTime(b) /\ IsDataByte(b)
    BY <1>1 DEF IsStatusByte, IsDataByte, IsSystemRealTime
  <1>9. DataByte(b)
    BY <1>2, <1>3, <1>7, <1>8 DEF ParseByte, RealTime, DumpData, FrameByte, StatusAlone, StatusBegins,
                StatusByte, Orphan
  <1>10. CASE k = Len(m.data)
    <2>1. w = m.data
      <3>1. w \in Seq(Bytes)
        <4>1. 0..127 \subseteq Bytes
          BY DEF Bytes
        <4> QED
          BY <1>5, <4>1, SeqMonotonic
      <3> HIDE DEF w
      <3> QED
        BY <1>1, <1>5, <1>6, <1>10, <3>1, SeqEqual
    <2>2. Emit(<<ShortMessage(status, w)>>)
      BY <1>1, <1>2, <1>3, <1>4, <1>5, <1>9, <1>10 DEF DataByte, Current
    <2>3. Emit(<<m>>)
      BY <1>1, <1>2, <2>1, <2>2
    <2>4. Len(emitted') = 1 /\ emitted'[1] = m
      BY <2>3, EmitOne
    <2> QED
      BY <1>1, <1>10, <2>4 DEF Goes
  <1>11. CASE k # Len(m.data)
    <2>1. k < Len(m.data)
      BY <1>1, <1>11
    <2>2. status' = status /\ data' = w /\ inSysEx' = inSysEx
      BY <1>1, <1>2, <1>3, <1>4, <1>5, <1>9, <2>1 DEF DataByte, Current
    <2>3. Len(data') = k /\ \A j \in 1..k : data'[j] = m.data[j]
      BY <1>5, <1>6, <2>2
    <2>4. (k + 1) - 1 = k
      OBVIOUS
    <2>5. Midway(m, k + 1)'
      BY <1>2, <2>2, <2>3, <2>4 DEF Midway
    <2> QED
      BY <1>1, <2>1, <2>5 DEF Goes
  <1> QED
    BY <1>10, <1>11

LEMMA ByteGoes ==
    ASSUME PInv, NEW m \in Messages, ~m.chunk, NEW k, NEW b, Comes(m, k, b), ParseByte(b)
    PROVE  Goes(m, k)
  <1>1. /\ Len(m.data) \in 0..2 /\ Len(Line(m)) = 1 + Len(m.data) /\ Line(m)[1] = m.status
        /\ \A i \in 2..Len(Line(m)) : Line(m)[i] = m.data[i - 1]
    BY ShortIs
  <1>2. k \in 0 .. Len(Line(m)) - 1 /\ b = Line(m)[k + 1] /\ (k > 0 => Midway(m, k))
    BY DEF Comes
  <1>3. CASE k = 0
    <2>1. ParseByte(m.status)
      BY <1>1, <1>2, <1>3
    <2> QED
      BY <1>3, <2>1, StatusGoes
  <1>4. CASE k # 0
    <2>1. k \in 1..Len(m.data) /\ k + 1 \in 2..Len(Line(m)) /\ (k + 1) - 1 = k /\ k > 0
      BY <1>1, <1>2, <1>4
    <2>2. b = m.data[k]
      BY <1>1, <1>2, <2>1
    <2> QED
      BY <1>2, <2>1, <2>2, DataGoes
  <1> QED
    BY <1>3, <1>4
-----------------------------------------------------------------------------
(* The bytes of message i on the wire w are the line l from its k-th byte  *)
(* on, one after the other and behind p others.                            *)
Spelt(w, i, l, p, k) ==
    /\ p \in Nat /\ k \in 0 .. Len(l) - 1 /\ p + (Len(l) - k) <= Len(w)
    /\ \A j \in 1 .. Len(l) - k : w[p + j].byte = l[k + j]
    /\ \A v \in 1..Len(w) : w[v].id = i <=> p < v /\ v <= p + (Len(l) - k)

LEMMA SpeltMore ==
    ASSUME NEW w \in Seq(WireBytes), NEW s \in Seq(WireBytes), NEW i, NEW l \in Seq(Bytes),
           NEW p, NEW k, Spelt(w, i, l, p, k), \A v \in 1..Len(s) : s[v].id # i
    PROVE  Spelt(w \o s, i, l, p, k)
  <1> DEFINE x == w \o s
  <1>1. /\ Len(x) = Len(w) + Len(s) /\ Len(w) \in Nat /\ Len(s) \in Nat /\ Len(l) \in Nat
        /\ \A v \in 1 .. Len(w) + Len(s) : x[v] = IF v <= Len(w) THEN w[v] ELSE s[v - Len(w)]
    BY ConcatProperties, LenProperties
  <1> HIDE DEF x
  <1>2. /\ p \in Nat /\ k \in 0 .. Len(l) - 1 /\ p + (Len(l) - k) <= Len(w)
        /\ \A j \in 1 .. Len(l) - k : w[p + j].byte = l[k + j]
        /\ \A v \in 1..Len(w) : w[v].id = i <=> p < v /\ v <= p + (Len(l) - k)
    BY DEF Spelt
  <1>3. ASSUME NEW j \in 1 .. Len(l) - k PROVE x[p + j].byte = l[k + j]
    <2>1. p + j \in 1 .. Len(w) + Len(s) /\ p + j <= Len(w)
      BY <1>1, <1>2
    <2> QED
      BY <1>1, <1>2, <2>1
  <1>4. ASSUME NEW v \in 1..Len(x) PROVE x[v].id = i <=> p < v /\ v <= p + (Len(l) - k)
    <2>1. CASE v <= Len(w)
      <3>1. v \in 1..Len(w) /\ x[v] = w[v]
        BY <1>1, <2>1
      <3> QED
        BY <1>2, <3>1
    <2>2. CASE ~(v <= Len(w))
      <3>1. v - Len(w) \in 1..Len(s) /\ x[v] = s[v - Len(w)] /\ ~(v <= p + (Len(l) - k))
        BY <1>1, <1>2, <2>2
      <3> QED
        BY <3>1
    <2> QED
      BY <2>1, <2>2
  <1>5. p + (Len(l) - k) <= Len(x)
    BY <1>1, <1>2
  <1> QED
    BY <1>2, <1>3, <1>4, <1>5 DEF Spelt, x

LEMMA ConcatIs ==
    ASSUME NEW S, NEW w \in Seq(S), NEW s \in Seq(S)
    PROVE  /\ Len(w \o s) = Len(w) + Len(s) /\ Len(w) \in Nat /\ Len(s) \in Nat
           /\ \A v \in 1 .. Len(w) + Len(s) :
                  (w \o s)[v] = IF v <= Len(w) THEN w[v] ELSE s[v - Len(w)]
  BY ConcatProperties, LenProperties

LEMMA SpeltNew ==
    ASSUME NEW w \in Seq(WireBytes), NEW i \in Nat, NEW l \in Seq(Bytes), Len(l) > 0,
           NEW s \in Seq(WireBytes), Len(s) = Len(l),
           \A v \in 1..Len(l) : s[v].byte = l[v] /\ s[v].id = i,
           \A v \in 1..Len(w) : w[v].id # i
    PROVE  Spelt(w \o s, i, l, Len(w), 0)
  <1> DEFINE x == w \o s
  <1>1. /\ Len(x) = Len(w) + Len(s) /\ Len(w) \in Nat /\ Len(s) \in Nat
        /\ \A v \in 1 .. Len(w) + Len(s) : x[v] = IF v <= Len(w) THEN w[v] ELSE s[v - Len(w)]
    BY ConcatIs, Zenon
  <1>2. /\ Len(x) = Len(w) + Len(l) /\ Len(w) \in Nat /\ Len(l) \in Nat
        /\ \A v \in 1 .. Len(w) + Len(l) : x[v] = IF v <= Len(w) THEN w[v] ELSE s[v - Len(w)]
    BY <1>1, Zenon
  <1> HIDE DEF x
  <1>3. ASSUME NEW j \in 1..Len(l) PROVE x[Len(w) + j].byte = l[j]
    <2>1. /\ Len(w) + j \in 1 .. Len(w) + Len(l) /\ ~(Len(w) + j <= Len(w))
          /\ (Len(w) + j) - Len(w) = j
      BY <1>2
    <2> QED
      BY <1>2, <2>1
  <1>4. ASSUME NEW v \in 1..Len(x) PROVE x[v].id = i <=> Len(w) < v /\ v <= Len(w) + Len(l)
    <2>1. CASE v <= Len(w)
      <3>1. v \in 1..Len(w) /\ x[v] = w[v] /\ ~(Len(w) < v)
        BY <1>2, <2>1
      <3> QED
        BY <3>1
    <2>2. CASE ~(v <= Len(w))
      <3>1. v - Len(w) \in 1..Len(l) /\ x[v] = s[v - Len(w)] /\ Len(w) < v
            /\ v <= Len(w) + Len(l)
        BY <1>2, <2>2
      <3> QED
        BY <3>1
    <2> QED
      BY <2>1, <2>2
  <1>5. Len(l) - 0 = Len(l) /\ \A j \in 1..Len(l) : 0 + j = j
    BY <1>2
  <1>6. 0 \in 0 .. Len(l) - 1 /\ Len(w) + Len(l) <= Len(x)
    BY <1>2
  <1> QED
    BY <1>2, <1>3, <1>4, <1>5, <1>6 DEF Spelt, x

LEMMA SpeltTagged ==
    ASSUME NEW w \in Seq(WireBytes), NEW i \in Nat, NEW l \in Seq(Bytes), Len(l) > 0,
           \A v \in 1..Len(w) : w[v].id # i
    PROVE  Spelt(w \o Tagged(l, i), i, l, Len(w), 0)
  <1>1. /\ Tagged(l, i) \in Seq(WireBytes) /\ Len(Tagged(l, i)) = Len(l)
        /\ \A v \in 1..Len(l) : Tagged(l, i)[v] = [byte |-> l[v], id |-> i]
    BY TaggedIs
  <1>2. \A v \in 1..Len(l) : Tagged(l, i)[v].byte = l[v] /\ Tagged(l, i)[v].id = i
    <2> TAKE v \in 1..Len(l)
    <2>1. Tagged(l, i)[v] = [byte |-> l[v], id |-> i]
      BY <1>1
    <2> QED
      BY <2>1
  <1>3. \A s \in Seq(WireBytes) :
            /\ Len(s) = Len(l) /\ \A v \in 1..Len(l) : s[v].byte = l[v] /\ s[v].id = i
            => Spelt(w \o s, i, l, Len(w), 0)
    BY SpeltNew
  <1> QED
    BY <1>1, <1>2, <1>3, Zenon

LEMMA SpeltChanged ==
    ASSUME NEW w \in Seq(WireBytes), NEW q \in 1..Len(w), NEW b \in Bytes, NEW i,
           NEW l \in Seq(Bytes), NEW p, NEW k, Spelt(w, i, l, p, k), w[q].id # i
    PROVE  Spelt([w EXCEPT ![q].byte = b], i, l, p, k)
  <1> DEFINE x == [w EXCEPT ![q].byte = b]
  <1>1. Len(x) = Len(w) /\ \A j \in 1..Len(w) : x[j].id = w[j].id /\ (j # q => x[j] = w[j])
    BY ChangedIs
  <1> HIDE DEF x
  <1>2. /\ p \in Nat /\ k \in 0 .. Len(l) - 1 /\ p + (Len(l) - k) <= Len(w)
        /\ \A j \in 1 .. Len(l) - k : w[p + j].byte = l[k + j]
        /\ \A v \in 1..Len(w) : w[v].id = i <=> p < v /\ v <= p + (Len(l) - k)
        /\ Len(l) \in Nat /\ Len(w) \in Nat
    BY LenProperties DEF Spelt
  <1>3. ASSUME NEW j \in 1 .. Len(l) - k PROVE x[p + j].byte = l[k + j]
    <2>1. p + j \in 1..Len(w) /\ p < p + j /\ p + j <= p + (Len(l) - k)
      BY <1>2
    <2>2. w[p + j].id = i
      BY <1>2, <2>1
    <2> QED
      BY <1>1, <1>2, <2>1, <2>2
  <1> QED
    BY <1>1, <1>2, <1>3 DEF Spelt, x

LEMMA SpeltWithout ==
    ASSUME NEW w \in Seq(WireBytes), NEW q \in 1..Len(w), NEW i,
           NEW l \in Seq(Bytes), NEW p, NEW k, Spelt(w, i, l, p, k), w[q].id # i
    PROVE  \E r \in 0..p : Spelt(RemoveAt(w, q), i, l, r, k)
  <1> DEFINE x == RemoveAt(w, q)
             n == Len(l) - k
             r == IF q <= p THEN p - 1 ELSE p
  <1>1. /\ Len(x) = Len(w) - 1
        /\ \A v \in 1 .. Len(w) - 1 : x[v] = IF v < q THEN w[v] ELSE w[v + 1]
    BY RemovedIs
  <1> HIDE DEF x
  <1>2. /\ p \in Nat /\ k \in 0 .. Len(l) - 1 /\ p + n <= Len(w)
        /\ \A j \in 1..n : w[p + j].byte = l[k + j]
        /\ \A v \in 1..Len(w) : w[v].id = i <=> p < v /\ v <= p + n
        /\ Len(l) \in Nat /\ Len(w) \in Nat /\ n \in Nat /\ n > 0 /\ q \in Nat /\ q > 0
    BY LenProperties DEF Spelt
  <1> HIDE DEF n
  <1>3. q <= p \/ q > p + n
    BY <1>2
  <1>4. r \in 0..p /\ r + n <= Len(w) - 1
    BY <1>2, <1>3
  <1>5. \A v \in 1 .. Len(w) - 1 : LET u == IF v < q THEN v ELSE v + 1 IN
            /\ u \in 1..Len(w) /\ x[v] = w[u]
            /\ (p < u /\ u <= p + n) <=> (r < v /\ v <= r + n)
    <2> TAKE v \in 1 .. Len(w) - 1
    <2>1. CASE v < q
      <3>1. v \in 1..Len(w) /\ x[v] = w[v]
        BY <1>1, <1>2, <2>1
      <3>2. (p < v /\ v <= p + n) <=> (r < v /\ v <= r + n)
        BY <1>2, <1>3, <2>1
      <3> QED
        BY <2>1, <3>1, <3>2
    <2>2. CASE ~(v < q)
      <3>1. v + 1 \in 1..Len(w) /\ x[v] = w[v + 1]
        BY <1>1, <1>2, <2>2
      <3>2. (p < v + 1 /\ v + 1 <= p + n) <=> (r < v /\ v <= r + n)
        BY <1>2, <1>3, <2>2
      <3> QED
        BY <2>2, <3>1, <3>2
    <2> QED
      BY <2>1, <2>2
  <1>6. \A j \in 1..n : LET v == r + j IN
            /\ v \in 1 .. Len(w) - 1 /\ (IF v < q THEN v ELSE v + 1) = p + j
    BY <1>2, <1>3, <1>4
  <1> HIDE DEF r
  <1>7. ASSUME NEW j \in 1..n PROVE x[r + j].byte = l[k + j]
    <2> DEFINE v == r + j
    <2>1. v \in 1 .. Len(w) - 1 /\ (IF v < q THEN v ELSE v + 1) = p + j
      BY <1>6
    <2> HIDE DEF v
    <2>2. x[v] = w[IF v < q THEN v ELSE v + 1]
      BY <1>5, <2>1
    <2> QED
      BY <1>2, <2>1, <2>2 DEF v
  <1>8. ASSUME NEW v \in 1..Len(x) PROVE x[v].id = i <=> r < v /\ v <= r + n
    <2> DEFINE u == IF v < q THEN v ELSE v + 1
    <2>1. v \in 1 .. Len(w) - 1
      BY <1>1
    <2>2. u \in 1..Len(w) /\ x[v] = w[u] /\ ((p < u /\ u <= p + n) <=> (r < v /\ v <= r + n))
      BY <1>5, <2>1
    <2> HIDE DEF u
    <2> QED
      BY <1>2, <2>2
  <1>9. Spelt(x, i, l, r, k)
    <2>1. r \in Nat /\ r + n <= Len(x)
      BY <1>1, <1>2, <1>4
    <2> QED
      BY <1>2, <1>7, <1>8, <2>1 DEF Spelt, n
  <1> QED
    BY <1>4, <1>9 DEF x

LEMMA SpeltRest ==
    ASSUME NEW w \in Seq(WireBytes), w # << >>, NEW i, NEW l \in Seq(Bytes),
           NEW p, NEW k, Spelt(w, i, l, p, k)
    PROVE  /\ p > 0 => w[1].id # i /\ Spelt(Tail(w), i, l, p - 1, k)
           /\ p = 0 => /\ w[1].id = i /\ w[1].byte = l[k + 1]
                       /\ k + 1 < Len(l) => Spelt(Tail(w), i, l, 0, k + 1)
  <1> DEFINE x == Tail(w)
             n == Len(l) - k
  <1>1. /\ x \in Seq(WireBytes) /\ Len(x) = Len(w) - 1
        /\ \A v \in 1 .. Len(w) - 1 : x[v] = w[v + 1]
    BY HeadTailProperties
  <1> HIDE DEF x
  <1>2. /\ p \in Nat /\ k \in 0 .. Len(l) - 1 /\ p + n <= Len(w)
        /\ \A j \in 1..n : w[p + j].byte = l[k + j]
        /\ \A v \in 1..Len(w) : w[v].id = i <=> p < v /\ v <= p + n
        /\ Len(l) \in Nat /\ Len(w) \in Nat /\ n \in Nat /\ n > 0
    BY LenProperties DEF Spelt
  <1>3. 1 \in 1..Len(w) /\ 1 \in 1..n
    BY <1>2
  <1>4. ASSUME p > 0 PROVE w[1].id # i /\ Spelt(x, i, l, p - 1, k)
    <2>1. w[1].id # i
      BY <1>2, <1>3, <1>4
    <2>2. p - 1 \in Nat /\ (p - 1) + n <= Len(x)
      BY <1>1, <1>2, <1>4
    <2>3. ASSUME NEW j \in 1..n PROVE x[(p - 1) + j].byte = l[k + j]
      <3>1. (p - 1) + j \in 1 .. Len(w) - 1 /\ ((p - 1) + j) + 1 = p + j
        BY <1>2, <1>4
      <3> QED
        BY <1>1, <1>2, <3>1
    <2>4. ASSUME NEW v \in 1..Len(x) PROVE x[v].id = i <=> p - 1 < v /\ v <= (p - 1) + n
      <3>1. v \in 1 .. Len(w) - 1 /\ v + 1 \in 1..Len(w)
        BY <1>1, <1>2
      <3>2. (p < v + 1 /\ v + 1 <= p + n) <=> (p - 1 < v /\ v <= (p - 1) + n)
        BY <1>2, <3>1
      <3> QED
        BY <1>1, <1>2, <3>1, <3>2
    <2> QED
      BY <1>2, <2>1, <2>2, <2>3, <2>4 DEF Spelt
  <1>5. ASSUME p = 0
        PROVE  /\ w[1].id = i /\ w[1].byte = l[k + 1]
               /\ k + 1 < Len(l) => Spelt(x, i, l, 0, k + 1)
    <2>1. w[1].id = i /\ w[1].byte = l[k + 1]
      <3>1. p + 1 = 1
        BY <1>5
      <3>2. w[p + 1].byte = l[k + 1]
        BY <1>2, <1>3
      <3> QED
        BY <1>2, <1>3, <1>5, <3>1, <3>2
    <2>2. ASSUME k + 1 < Len(l) PROVE Spelt(x, i, l, 0, k + 1)
      <3>1. /\ k + 1 \in 0 .. Len(l) - 1 /\ Len(l) - (k + 1) = n - 1
            /\ 0 + (Len(l) - (k + 1)) <= Len(x)
        BY <1>1, <1>2, <1>5, <2>2
      <3>2. ASSUME NEW j \in 1 .. Len(l) - (k + 1) PROVE x[0 + j].byte = l[(k + 1) + j]
        <4>1. j \in 1 .. Len(w) - 1 /\ j + 1 \in 1..n /\ p + (j + 1) = j + 1
              /\ k + (j + 1) = (k + 1) + j /\ 0 + j = j
          BY <1>2, <1>5, <3>1
        <4>2. w[p + (j + 1)].byte = l[k + (j + 1)]
          BY <1>2, <4>1
        <4>3. x[j] = w[j + 1]
          BY <1>1, <4>1
        <4> QED
          BY <4>1, <4>2, <4>3
      <3>3. ASSUME NEW v \in 1..Len(x)
            PROVE  x[v].id = i <=> 0 < v /\ v <= 0 + (Len(l) - (k + 1))
        <4>1. v \in 1 .. Len(w) - 1 /\ v + 1 \in 1..Len(w)
          BY <1>1, <1>2
        <4>2. (p < v + 1 /\ v + 1 <= p + n) <=> (0 < v /\ v <= 0 + (Len(l) - (k + 1)))
          BY <1>2, <1>5, <3>1, <4>1
        <4> QED
          BY <1>1, <1>2, <4>1, <4>2
      <3>4. 0 \in Nat
        OBVIOUS
      <3> QED
        BY <3>1, <3>2, <3>3, <3>4 DEF Spelt
    <2> QED
      BY <2>1, <2>2
  <1> QED
    BY <1>2, <1>4, <1>5 DEF x
-----------------------------------------------------------------------------
(* The bytes of a short message that nothing happened to are on the wire   *)
(* as they were written, but for those the parser has read.                *)
InOrder(i) ==
    \E p, k : /\ Spelt(wire, i, Line(sent[i].message), p, k)
              /\ k > 0 => p = 0 /\ Midway(sent[i].message, k)
IsIntact(i) == ~sent[i].message.chunk /\ sent[i].intact
Arrived(m) ==
    {i \in 1..Len(sent) : /\ sent[i].message = m /\ sent[i].intact
                          /\ \A w \in 1..Len(wire) : wire[w].id # i}

KnownInv == \A w \in 1..Len(wire) : wire[w].id <= Len(sent)
OrderInv == \A i \in 1..Len(sent) : IsIntact(i) /\ OnWire(i) => InOrder(i)
IntactInv == KnownInv /\ OrderInv /\ IntactArrives

LEMMA IntactArrivesIs ==
    IntactArrives <=>
        \A m \in Messages : ~m.chunk => Count(handed, m) >= Cardinality(Arrived(m))
  BY Zenon DEF IntactArrives, Arrived

LEMMA ArrivedIsFinite ==
    ASSUME LinkTypes, NEW m
    PROVE  IsFiniteSet(Arrived(m)) /\ Cardinality(Arrived(m)) \in Nat
  <1>1. Len(sent) \in Nat
    BY LenProperties DEF LinkTypes
  <1>2. IsFiniteSet(1..Len(sent))
    BY <1>1, FS_Interval
  <1>3. Arrived(m) \in SUBSET (1..Len(sent))
    BY DEF Arrived
  <1>4. IsFiniteSet(Arrived(m))
    BY <1>2, <1>3, FS_Subset
  <1> QED
    BY <1>4, FS_CardinalityType

LEMMA IntactInit == Init => IntactInv
  <1> SUFFICES ASSUME Init PROVE IntactInv
    OBVIOUS
  <1>1. wire = << >> /\ sent = << >> /\ handed = << >>
    BY DEF Init
  <1>2. Len(<< >>) = 0
    OBVIOUS
  <1>3. KnownInv /\ OrderInv
    BY <1>1, <1>2 DEF KnownInv, OrderInv
  <1>4. ASSUME NEW m \in Messages
        PROVE  Count(handed, m) >= Cardinality(Arrived(m))
    <2>1. Arrived(m) = {}
      BY <1>1, <1>2 DEF Arrived
    <2>2. {i \in 1..Len(handed) : handed[i] = m} = {}
      BY <1>1, <1>2
    <2> QED
      BY <2>1, <2>2, FS_EmptySet DEF Count
  <1> QED
    BY <1>3, <1>4, IntactArrivesIs DEF IntactInv

(* A step that hands nothing on and after which no more has arrived.       *)
LEMMA KeepsArrived ==
    ASSUME LinkTypes, LinkTypes', IntactArrives, handed' = handed,
           \A i \in 1..Len(sent') :
               IsIntact(i)' /\ ~OnWire(i)' =>
                   /\ i \in 1..Len(sent) /\ sent'[i].message = sent[i].message
                   /\ sent[i].intact /\ ~OnWire(i)
    PROVE  IntactArrives'
  <1>1. ASSUME NEW m \in Messages, ~m.chunk
        PROVE  Count(handed', m) >= Cardinality(Arrived(m)')
    <2>1. Arrived(m)' \subseteq Arrived(m)
      <3> SUFFICES ASSUME NEW i \in Arrived(m)' PROVE i \in Arrived(m)
        OBVIOUS
      <3>1. /\ i \in 1..Len(sent') /\ sent'[i].message = m /\ sent'[i].intact
            /\ ~OnWire(i)'
        BY DEF Arrived, OnWire
      <3>2. IsIntact(i)'
        BY <1>1, <3>1 DEF IsIntact
      <3> QED
        BY <3>1, <3>2 DEF Arrived, OnWire
    <2>2. IsFiniteSet(Arrived(m)) /\ Cardinality(Arrived(m)) \in Nat
      BY ArrivedIsFinite
    <2>3. Cardinality(Arrived(m)') <= Cardinality(Arrived(m)) /\ Cardinality(Arrived(m)') \in Nat
      <3>1. \A S, T : IsFiniteSet(S) /\ T \subseteq S =>
                /\ Cardinality(T) <= Cardinality(S) /\ IsFiniteSet(T)
        BY FS_Subset
      <3>2. \A S : IsFiniteSet(S) => Cardinality(S) \in Nat
        BY FS_CardinalityType
      <3> QED
        BY <2>1, <2>2, <3>1, <3>2
    <2>4. Count(handed, m) >= Cardinality(Arrived(m))
      BY <1>1, IntactArrivesIs
    <2>5. Count(handed, m) \in Nat
      BY CountIs DEF LinkTypes
    <2> QED
      BY <2>2, <2>3, <2>4, <2>5
  <1> QED
    BY <1>1, Zenon DEF IntactArrives, Arrived

LEMMA MidwayKept ==
    ASSUME UNCHANGED <<inSysEx, status, data>>
    PROVE  \A m, k : Midway(m, k) => Midway(m, k)'
  BY DEF Midway

(* Bytes of message i that stay on the wire as they were, while the parser *)
(* reads none of them.                                                     *)
LEMMA OrderKept ==
    ASSUME NEW i, InOrder(i), UNCHANGED <<inSysEx, status, data>>,
           sent'[i].message = sent[i].message,
           \A p, k : Spelt(wire, i, Line(sent[i].message), p, k) =>
               \E r \in 0..p : Spelt(wire', i, Line(sent[i].message), r, k)
    PROVE  InOrder(i)'
  <1>1. PICK p, k : /\ Spelt(wire, i, Line(sent[i].message), p, k)
                    /\ k > 0 => p = 0 /\ Midway(sent[i].message, k)
    BY DEF InOrder
  <1>2. PICK r \in 0..p : Spelt(wire', i, Line(sent[i].message), r, k)
    BY <1>1
  <1>3. ASSUME k > 0 PROVE r = 0 /\ Midway(sent[i].message, k)'
    <2>1. p = 0 /\ Midway(sent[i].message, k)
      BY <1>1, <1>3
    <2>2. r = 0
      BY <1>2, <2>1
    <2>3. Midway(sent[i].message, k)'
      BY <2>1 DEF Midway
    <2> QED
      BY <2>2, <2>3
  <1>4. Line(sent'[i].message) = Line(sent[i].message)
    BY Zenon
  <1>5. Spelt(wire', i, Line(sent[i].message)', r, k)
    BY <1>2, <1>4 DEF Line
  <1> QED
    BY <1>3, <1>5 DEF InOrder, Line

LEMMA SpeltIsOn ==
    ASSUME NEW w \in Seq(WireBytes), NEW i, NEW l \in Seq(Bytes), NEW p, NEW k, Spelt(w, i, l, p, k)
    PROVE  \E v \in 1..Len(w) : w[v].id = i
  <1>1. /\ p \in Nat /\ k \in 0 .. Len(l) - 1 /\ p + (Len(l) - k) <= Len(w)
        /\ \A v \in 1..Len(w) : w[v].id = i <=> p < v /\ v <= p + (Len(l) - k)
        /\ Len(l) \in Nat /\ Len(w) \in Nat
    BY LenProperties DEF Spelt
  <1>2. p + 1 \in 1..Len(w) /\ p < p + 1 /\ p + 1 <= p + (Len(l) - k)
    BY <1>1
  <1> QED
    BY <1>1, <1>2

LEMMA TaggedIds ==
    ASSUME NEW bytes \in Seq(Bytes), NEW id \in Nat
    PROVE  \A v \in 1..Len(Tagged(bytes, id)) : Tagged(bytes, id)[v].id = id
  <1> TAKE v \in 1..Len(Tagged(bytes, id))
  <1>1. v \in 1..Len(bytes)
    BY TaggedIs
  <1>2. Tagged(bytes, id)[v] = [byte |-> bytes[v], id |-> id]
    BY <1>1, TaggedIs
  <1> QED
    BY <1>2

(* A message that is handed to the sender goes behind the others.          *)
LEMMA AddKeeps ==
    ASSUME LinkTypes, LinkTypes', IntactInv, UNCHANGED receiveVars,
           NEW bytes \in Seq(Bytes), NEW id \in Nat, NEW n, n = Len(sent),
           wire' = wire \/ wire' = wire \o Tagged(bytes, id),
           id = 0 \/ id = n + 1, wire' # wire => id <= Len(sent'),
           Len(sent') \in {n, n + 1}, \A j \in 1..n : sent'[j] = sent[j],
           Len(sent') = n + 1 /\ IsIntact(n + 1)' =>
               /\ wire' = wire \o Tagged(bytes, id) /\ id = n + 1
               /\ bytes = Line(sent'[n + 1].message)
    PROVE  IntactInv'
  <1> DEFINE t == Tagged(bytes, id)
  <1>1. /\ n = Len(sent) /\ n \in Nat /\ Len(wire) \in Nat /\ wire \in Seq(WireBytes) /\ t \in Seq(WireBytes)
        /\ sent' \in Seq(SentOnes) /\ sent \in Seq(SentOnes)
        /\ wire' \in Seq(WireBytes)
    BY LenProperties, TaggedIs DEF LinkTypes
  <1>0. /\ \A v \in 1..Len(wire) : wire[v].id \in Nat
        /\ \A i \in 1..n : sent[i].message \in Messages
        /\ \A i \in 1..Len(sent') : sent'[i].message \in Messages
    <2>1. \A v \in 1..Len(wire) : wire[v] \in WireBytes
      BY <1>1, ElementOfSeq
    <2>2. \A i \in 1..n : sent[i] \in SentOnes
      BY <1>1, ElementOfSeq
    <2>3. \A i \in 1..Len(sent') : sent'[i] \in SentOnes
      BY <1>1, ElementOfSeq
    <2> QED
      BY <2>1, <2>2, <2>3 DEF WireBytes, SentOnes
  <1>2. /\ UNCHANGED <<inSysEx, status, data>> /\ handed' = handed
        /\ KnownInv /\ OrderInv /\ IntactArrives
    BY DEF receiveVars, vars, parserVars, messageVars, IntactInv
  <1>3. \A v \in 1..Len(t) : t[v].id = id
    BY TaggedIds
  <1>4. /\ wire' = wire \/ wire' = wire \o t
        /\ id = 0 \/ id = n + 1
        /\ wire' # wire => id <= Len(sent')
        /\ Len(sent') \in {n, n + 1}
        /\ \A j \in 1..n : sent'[j] = sent[j]
        /\ Len(sent') = n + 1 /\ IsIntact(n + 1)' =>
              wire' = wire \o t /\ id = n + 1 /\ bytes = Line(sent'[n + 1].message)
    OBVIOUS
  <1> HIDE DEF t
  <1>5. /\ Len(wire \o t) = Len(wire) + Len(t) /\ Len(t) \in Nat
        /\ \A v \in 1 .. Len(wire) + Len(t) :
               (wire \o t)[v] = IF v <= Len(wire) THEN wire[v] ELSE t[v - Len(wire)]
    BY <1>1, ConcatIs, Zenon
  <1>6. \A v \in 1..Len(wire') :
            \/ v \in 1..Len(wire) /\ wire'[v] = wire[v]
            \/ wire' # wire /\ wire'[v].id = id
    <2> TAKE v \in 1..Len(wire')
    <2>1. CASE wire' = wire
      BY <2>1
    <2>2. CASE wire' # wire
      <3>1. wire' = wire \o t
        BY <1>4, <2>2
      <3>2. v \in 1 .. Len(wire) + Len(t)
        BY <1>5, <3>1
      <3>3. CASE v <= Len(wire)
        BY <1>5, <3>1, <3>2, <3>3
      <3>4. CASE ~(v <= Len(wire))
        <4>1. v - Len(wire) \in 1..Len(t) /\ wire'[v] = t[v - Len(wire)]
          BY <1>1, <1>5, <3>1, <3>2, <3>4
        <4> QED
          BY <1>3, <2>2, <4>1
      <3> QED
        BY <3>3, <3>4
    <2> QED
      BY <2>1, <2>2
  <1>7. \A v \in 1..Len(wire) : v \in 1..Len(wire') /\ wire'[v] = wire[v]
    <2> TAKE v \in 1..Len(wire)
    <2>1. v \in 1 .. Len(wire) + Len(t) /\ v <= Len(wire)
      BY <1>1, <1>5
    <2> QED
      BY <1>4, <1>5, <2>1
  <1>8. KnownInv'
    <2> SUFFICES ASSUME NEW v \in 1..Len(wire') PROVE wire'[v].id <= Len(sent')
      BY DEF KnownInv
    <2>1. CASE v \in 1..Len(wire) /\ wire'[v] = wire[v]
      <3>1. wire[v].id <= n /\ wire[v].id \in Nat
        BY <1>0, <1>2, <1>1, <2>1 DEF KnownInv
      <3> QED
        BY <1>1, <1>4, <2>1, <3>1
    <2>2. CASE wire' # wire /\ wire'[v].id = id
      BY <1>4, <2>2
    <2> QED
      BY <1>6, <2>1, <2>2
  <1>9. ASSUME NEW i \in 1..n, IsIntact(i)', OnWire(i)' PROVE InOrder(i)'
    <2>1. sent'[i] = sent[i] /\ IsIntact(i) /\ id # i
      BY <1>1, <1>4, <1>9 DEF IsIntact
    <2>2. OnWire(i)
      <3>1. PICK v \in 1..Len(wire') : wire'[v].id = i
        BY <1>9 DEF OnWire
      <3> QED
        BY <1>6, <2>1, <3>1 DEF OnWire
    <2>3. InOrder(i)
      BY <1>2, <2>1, <2>2 DEF OrderInv
    <2>4. Line(sent[i].message) \in Seq(Bytes)
      <3>1. sent[i].message \in Messages
        BY <1>0
      <3> QED
        BY <3>1, LineIsBytes
    <2>5. \A v \in 1..Len(t) : t[v].id # i
      BY <1>3, <2>1
    <2>6. ASSUME NEW p, NEW k, Spelt(wire, i, Line(sent[i].message), p, k)
          PROVE  \E r \in 0..p : Spelt(wire', i, Line(sent[i].message), r, k)
      <3>1. Spelt(wire', i, Line(sent[i].message), p, k)
        <4>1. CASE wire' = wire
          BY <2>6, <4>1
        <4>2. CASE wire' = wire \o t
          <5>1. \A l \in Seq(Bytes) : Spelt(wire, i, l, p, k) => Spelt(wire \o t, i, l, p, k)
            BY <1>1, <2>5, SpeltMore, Zenon
          <5> QED
            BY <2>4, <2>6, <4>2, <5>1, Zenon
        <4> QED
          BY <1>4, <4>1, <4>2
      <3>2. p \in 0..p
        BY <3>1 DEF Spelt
      <3> QED
        BY <3>1, <3>2
    <2> QED
      BY <1>2, <2>1, <2>3, <2>6, OrderKept, Zenon
  <1>10. ASSUME Len(sent') = n + 1, IsIntact(n + 1)'
         PROVE  InOrder(n + 1)' /\ OnWire(n + 1)'
    <2> DEFINE l == Line(sent'[n + 1].message)
    <2>1. wire' = wire \o t /\ id = n + 1 /\ bytes = l
      BY <1>4, <1>10
    <2>2. sent'[n + 1].message \in Messages /\ ~sent'[n + 1].message.chunk
      <3>1. n + 1 \in 1..Len(sent')
        BY <1>1, <1>10
      <3> QED
        BY <1>0, <1>10, <3>1 DEF IsIntact
    <2>3. l \in Seq(Bytes) /\ Len(l) > 0
      <3>1. l \in Seq(Bytes) /\ Len(l) = 1 + Len(sent'[n + 1].message.data)
        BY <2>2, LineIsBytes
      <3>2. Len(sent'[n + 1].message.data) \in Nat
        BY <2>2, LineOf
      <3> QED
        BY <3>1, <3>2
    <2> HIDE DEF l
    <2>4. n + 1 \in Nat /\ \A v \in 1..Len(wire) : wire[v].id # n + 1
      <3> SUFFICES ASSUME NEW v \in 1..Len(wire) PROVE wire[v].id # n + 1
        BY <1>1
      <3>1. wire[v].id <= n /\ wire[v].id \in Nat
        BY <1>0, <1>1, <1>2 DEF KnownInv
      <3> QED
        BY <1>1, <3>1
    <2>5. Spelt(wire \o Tagged(l, n + 1), n + 1, l, Len(wire), 0)
      BY <1>1, <2>3, <2>4, SpeltTagged, Zenon
    <2>6. wire \o Tagged(l, n + 1) = wire'
      BY <2>1 DEF t
    <2>7. Spelt(wire', n + 1, l, Len(wire), 0)
      BY <2>5, <2>6, Zenon
    <2>8. \E v \in 1..Len(wire') : wire'[v].id = n + 1
      BY <1>1, <2>3, <2>7, SpeltIsOn, Zenon
    <2>9. ~(0 > 0)
      OBVIOUS
    <2> QED
      BY <2>7, <2>8, <2>9 DEF InOrder, OnWire, l, Line
  <1>11. OrderInv'
    <2> SUFFICES ASSUME NEW i \in 1..Len(sent'), IsIntact(i)', OnWire(i)' PROVE InOrder(i)'
      BY DEF OrderInv
    <2>1. i \in 1..n \/ (Len(sent') = n + 1 /\ i = n + 1)
      BY <1>1, <1>4
    <2> QED
      BY <1>9, <1>10, <2>1
  <1>12. ASSUME NEW i \in 1..Len(sent'), IsIntact(i)', ~OnWire(i)'
         PROVE  /\ i \in 1..Len(sent) /\ sent'[i].message = sent[i].message
                /\ sent[i].intact /\ ~OnWire(i)
    <2>1. i \in 1..n \/ (Len(sent') = n + 1 /\ i = n + 1)
      BY <1>1, <1>4
    <2>2. i \in 1..n
      BY <1>10, <1>12, <2>1
    <2>3. sent'[i] = sent[i]
      BY <1>4, <2>2
    <2>4. ~OnWire(i)
      BY <1>7, <1>12 DEF OnWire
    <2> QED
      BY <1>12, <2>2, <2>3, <2>4 DEF IsIntact
  <1>13. IntactArrives'
    BY <1>2, <1>12, KeepsArrived
  <1> QED
    BY <1>8, <1>11, <1>13 DEF IntactInv

LEMMA SenderArrives ==
    ASSUME LinkInv, LinkTypes', IntactInv, OfSender
    PROVE  IntactInv'
  <1>1. LinkTypes /\ UNCHANGED receiveVars
    BY SenderKeepsTypes DEF LinkInv
  <1>2. PICK n \in Nat : n = Len(sent)
    BY <1>1, LenProperties DEF LinkTypes
  <1>3. ASSUME NEW m \in Messages, NEW bytes \in Seq(Bytes), NEW whole \in BOOLEAN,
               PutOnWire(bytes, Len(sent) + 1), whole => started.receiver /\ bytes = Line(m),
               sent' = Append(sent, [message |-> m, intact |-> whole])
        PROVE  IntactInv'
    <2>1. n + 1 \in Nat /\ PutOnWire(bytes, n + 1)
      BY <1>2, <1>3
    <2>2. wire' = wire \/ wire' = wire \o Tagged(bytes, n + 1)
      BY <1>1, <2>1, PutIsTyped DEF PutOnWire
    <2>3. started.receiver => wire' = wire \o Tagged(bytes, n + 1)
      BY <1>1, <2>1, PutIsTyped
    <2>4. /\ Len(sent') = n + 1 /\ sent'[n + 1] = [message |-> m, intact |-> whole]
          /\ \A j \in 1..n : sent'[j] = sent[j]
      BY <1>1, <1>2, <1>3, SentGrows
    <2>5. sent'[n + 1].message = m /\ sent'[n + 1].intact = whole
      BY <2>4
    <2>6. IsIntact(n + 1)' =>
              /\ wire' = wire \o Tagged(bytes, n + 1)
              /\ bytes = Line(sent'[n + 1].message)
      BY <1>3, <2>3, <2>5 DEF IsIntact
    <2>7. n + 1 <= Len(sent') /\ Len(sent') \in {n, n + 1}
      BY <2>1, <2>4
    <2> QED
      BY <1>1, <1>2, <1>3, <2>1, <2>2, <2>4, <2>6, <2>7, AddKeeps
  <1>4. ASSUME NEW m \in Messages, Send(m) PROVE IntactInv'
    <2>1. /\ PutOnWire(Line(m), Len(sent) + 1) /\ started.receiver \in BOOLEAN
          /\ sent' = Append(sent, [message |-> m, intact |-> started.receiver])
      BY <1>1, <1>4 DEF Send, LinkTypes
    <2>2. Line(m) \in Seq(Bytes)
      BY LineIsBytes
    <2> QED
      BY <1>3, <2>1, <2>2
  <1>5. ASSUME NEW m \in Messages, SendCut(m) PROVE IntactInv'
    <2>1. PICK c \in 0 .. Len(Line(m)) - 1 : PutOnWire(SubSeq(Line(m), 1, c), Len(sent) + 1)
      BY <1>5 DEF SendCut
    <2>2. sent' = Append(sent, [message |-> m, intact |-> FALSE])
      BY <1>5 DEF SendCut
    <2>3. SubSeq(Line(m), 1, c) \in Seq(Bytes)
      <3>1. Line(m) \in Seq(Bytes)
        BY LineIsBytes
      <3>2. \A i \in 1..c : Line(m)[i] \in Bytes
        BY <3>1, LenProperties, ElementOfSeq
      <3> QED
        BY <3>1, <3>2, LenProperties, SubSeqProperties
    <2> QED
      BY <1>3, <2>1, <2>2, <2>3
  <1>6. ASSUME SenderEnd \/ SenderBegin \/ SenderMoves \/ SenderBeginAgain PROVE IntactInv'
    <2>1. sent' = sent /\ (wire' = wire \/ \E written \in BOOLEAN : CloseStream(written))
      BY <1>6 DEF SenderEnd, SenderBegin, SenderMoves, SenderBeginAgain
    <2>2. wire' = wire \/ wire' = wire \o Tagged(<<SysExEnd>>, 0)
      BY <1>1, <2>1, CloseIs DEF LinkTypes
    <2>3. <<SysExEnd>> \in Seq(Bytes) /\ 0 \in Nat /\ 0 <= n
      BY <1>2 DEF SysExEnd, Bytes
    <2>4. Len(sent') = n /\ n # n + 1 /\ \A j \in 1..n : sent'[j] = sent[j]
      BY <1>2, <2>1
    <2> QED
      BY <1>1, <1>2, <2>2, <2>3, <2>4, AddKeeps
  <1> QED
    BY <1>4, <1>5, <1>6 DEF OfSender

LEMMA LinesAre ==
    ASSUME LinkTypes
    PROVE  /\ \A v \in 1..Len(wire) : wire[v] \in WireBytes /\ wire[v].id \in Nat
           /\ \A i \in 1..Len(sent) : /\ sent[i].message \in Messages
                                      /\ Line(sent[i].message) \in Seq(Bytes)
           /\ Len(wire) \in Nat /\ Len(sent) \in Nat
  <1>1. wire \in Seq(WireBytes) /\ sent \in Seq(SentOnes)
    BY DEF LinkTypes
  <1>2. \A v \in 1..Len(wire) : wire[v] \in WireBytes
    BY <1>1, ElementOfSeq
  <1>3. \A i \in 1..Len(sent) : sent[i] \in SentOnes
    BY <1>1, ElementOfSeq
  <1>4. \A i \in 1..Len(sent) : sent[i].message \in Messages
    BY <1>3 DEF SentOnes
  <1> QED
    BY <1>1, <1>2, <1>4, LenProperties, LineIsBytes DEF WireBytes

(* The cable damages the message of the byte it takes, and no other.       *)
LEMMA CableArrives ==
    ASSUME LinkInv, LinkTypes', IntactInv, OfCable
    PROVE  IntactInv'
  <1>1. LinkTypes /\ KnownInv /\ OrderInv /\ IntactArrives
    BY DEF LinkInv, IntactInv
  <1>2. PICK q \in left + 1 .. Len(wire) :
            /\ Damaged({wire[q].id})
            /\ \/ wire' = RemoveAt(wire, q)
               \/ \E b \in Bytes : wire' = [wire EXCEPT ![q].byte = b]
    BY <1>1, CableIs
  <1>3. UNCHANGED <<inSysEx, status, data>> /\ handed' = handed
    BY DEF OfCable, LoseByte, ChangeByte, receiveVars, vars, parserVars, messageVars
  <1>4. /\ Len(sent') = Len(sent)
        /\ \A i \in 1..Len(sent) :
               /\ sent'[i].message = sent[i].message
               /\ sent'[i].intact = (sent[i].intact /\ i # wire[q].id)
    BY <1>1, <1>2, DamagedIs
  <1>5. /\ wire \in Seq(WireBytes) /\ q \in 1..Len(wire) /\ Len(wire) \in Nat
        /\ \A i \in 1..Len(sent) : Line(sent[i].message) \in Seq(Bytes)
    BY <1>1, <1>2, LinesAre DEF LinkTypes
  <1>6. /\ \A v \in 1..Len(wire') : \E u \in 1..Len(wire) : wire'[v].id = wire[u].id
        /\ \A u \in 1..Len(wire) : u # q => \E v \in 1..Len(wire') : wire'[v].id = wire[u].id
    <2>1. CASE wire' = RemoveAt(wire, q)
      <3>1. /\ Len(wire') = Len(wire) - 1
            /\ \A v \in 1 .. Len(wire) - 1 : wire'[v] = IF v < q THEN wire[v] ELSE wire[v + 1]
        BY <1>5, <2>1, RemovedIs
      <3>2. ASSUME NEW v \in 1..Len(wire') PROVE \E u \in 1..Len(wire) : wire'[v].id = wire[u].id
        <4>1. v \in 1..Len(wire) /\ v + 1 \in 1..Len(wire)
          BY <1>5, <3>1
        <4> QED
          BY <1>5, <3>1, <4>1
      <3>3. ASSUME NEW u \in 1..Len(wire), u # q
            PROVE  \E v \in 1..Len(wire') : wire'[v].id = wire[u].id
        <4>1. CASE u < q
          <5>1. u \in 1 .. Len(wire) - 1
            BY <1>5, <4>1
          <5> QED
            BY <3>1, <4>1, <5>1
        <4>2. CASE ~(u < q)
          <5>1. /\ u - 1 \in 1 .. Len(wire) - 1 /\ ~(u - 1 < q) /\ (u - 1) + 1 = u
            BY <1>5, <3>3, <4>2
          <5> QED
            BY <3>1, <5>1
        <4> QED
          BY <4>1, <4>2
      <3> QED
        BY <3>2, <3>3
    <2>2. CASE \E b \in Bytes : wire' = [wire EXCEPT ![q].byte = b]
      <3>1. Len(wire') = Len(wire) /\ \A j \in 1..Len(wire) : wire'[j].id = wire[j].id
        BY <1>5, <2>2, ChangedIs
      <3> QED
        BY <3>1
    <2> QED
      BY <1>2, <2>1, <2>2
  <1>7. KnownInv'
    BY <1>1, <1>4, <1>6 DEF KnownInv
  <1>8. ASSUME NEW i \in 1..Len(sent'), IsIntact(i)'
        PROVE  /\ i \in 1..Len(sent) /\ sent'[i].message = sent[i].message
               /\ IsIntact(i) /\ wire[q].id # i /\ (OnWire(i)' <=> OnWire(i))
    <2>1. i \in 1..Len(sent)
      BY <1>4
    <2>2. IsIntact(i) /\ wire[q].id # i /\ sent'[i].message = sent[i].message
      BY <1>4, <1>8, <2>1 DEF IsIntact
    <2>3. OnWire(i)' <=> OnWire(i)
      BY <1>6, <2>2 DEF OnWire
    <2> QED
      BY <2>1, <2>2, <2>3
  <1>9. OrderInv'
    <2> SUFFICES ASSUME NEW i \in 1..Len(sent'), IsIntact(i)', OnWire(i)' PROVE InOrder(i)'
      BY DEF OrderInv
    <2>1. /\ i \in 1..Len(sent) /\ sent'[i].message = sent[i].message
          /\ wire[q].id # i /\ InOrder(i)
      BY <1>1, <1>8 DEF OrderInv
    <2> DEFINE l == Line(sent[i].message)
    <2>2. l \in Seq(Bytes)
      BY <1>5, <2>1
    <2> HIDE DEF l
    <2>3. ASSUME NEW p, NEW k, Spelt(wire, i, l, p, k)
          PROVE  \E r \in 0..p : Spelt(wire', i, l, r, k)
      <3>1. CASE wire' = RemoveAt(wire, q)
        <4>1. \E r \in 0..p : Spelt(RemoveAt(wire, q), i, l, r, k)
          BY <1>5, <2>1, <2>2, <2>3, SpeltWithout
        <4> QED
          BY <3>1, <4>1
      <3>2. CASE \E b \in Bytes : wire' = [wire EXCEPT ![q].byte = b]
        <4>1. PICK b \in Bytes : wire' = [wire EXCEPT ![q].byte = b]
          BY <3>2
        <4>2. Spelt([wire EXCEPT ![q].byte = b], i, l, p, k)
          BY <1>5, <2>1, <2>2, <2>3, SpeltChanged
        <4>3. p \in 0..p
          BY <2>3 DEF Spelt
        <4> QED
          BY <4>1, <4>2, <4>3
      <3> QED
        BY <1>2, <3>1, <3>2
    <2>4. \A p, k : Spelt(wire, i, Line(sent[i].message), p, k) =>
              \E r \in 0..p : Spelt(wire', i, Line(sent[i].message), r, k)
      BY <2>3 DEF l
    <2> QED
      BY <1>3, <2>1, <2>4, OrderKept, Zenon
  <1>10. IntactArrives'
    <2>1. ASSUME NEW i \in 1..Len(sent'), IsIntact(i)', ~OnWire(i)'
          PROVE  /\ i \in 1..Len(sent) /\ sent'[i].message = sent[i].message
                 /\ sent[i].intact /\ ~OnWire(i)
      BY <1>8, <2>1 DEF IsIntact
    <2> QED
      BY <1>1, <1>3, <2>1, KeepsArrived
  <1> QED
    BY <1>7, <1>9, <1>10 DEF IntactInv

(* What the receiver drops is damaged.                                     *)
LEMMA DropKeeps ==
    ASSUME LinkTypes, LinkTypes', IntactInv, handed' = handed,
           \/ DamageAll
           \/ sent' = sent /\ wire = << >>,
           wire' = << >> \/ wire' = wire
    PROVE  IntactInv'
  <1>1. KnownInv /\ OrderInv /\ IntactArrives /\ Len(<< >>) = 0
    BY DEF IntactInv
  <1>2. /\ Len(sent') = Len(sent)
        /\ \A i \in 1..Len(sent) :
               /\ sent'[i].message = sent[i].message
               /\ sent'[i].intact = (sent[i].intact /\ ~OnWire(i))
    <2>1. CASE DamageAll
      <3>1. Damaged({i \in DOMAIN sent : OnWire(i)})
        BY <2>1 DEF DamageAll, Damaged, OnWire
      <3>2. DOMAIN sent = 1..Len(sent)
        BY LenProperties DEF LinkTypes
      <3>3. \A i \in 1..Len(sent) :
                i \notin {j \in DOMAIN sent : OnWire(j)} <=> ~OnWire(i)
        BY <3>2
      <3> HIDE DEF OnWire
      <3> QED
        BY <3>1, <3>3, DamagedIs
    <2>2. CASE sent' = sent /\ wire = << >>
      <3>1. \A i \in 1..Len(sent) : ~OnWire(i) /\ sent[i].intact \in BOOLEAN
        <4>1. \A i \in 1..Len(sent) : sent[i] \in SentOnes
          BY ElementOfSeq DEF LinkTypes
        <4>2. \A i : ~OnWire(i)
          BY <1>1, <2>2 DEF OnWire
        <4> QED
          BY <4>1, <4>2 DEF SentOnes
      <3> QED
        BY <2>2, <3>1
    <2> QED
      BY <2>1, <2>2
  <1>3. \A i : OnWire(i)' => OnWire(i)
    BY <1>1 DEF OnWire
  <1>4. ASSUME NEW i \in 1..Len(sent'), IsIntact(i)'
        PROVE  /\ i \in 1..Len(sent) /\ sent'[i].message = sent[i].message
               /\ sent[i].intact /\ ~OnWire(i) /\ ~OnWire(i)'
    <2>1. i \in 1..Len(sent) /\ sent'[i].intact
      BY <1>2, <1>4 DEF IsIntact
    <2>2. sent'[i].message = sent[i].message /\ sent'[i].intact = (sent[i].intact /\ ~OnWire(i))
      BY <1>2, <2>1
    <2> QED
      BY <1>3, <2>1, <2>2
  <1>5. KnownInv'
    BY <1>1, <1>2 DEF KnownInv
  <1>6. OrderInv'
    BY <1>4 DEF OrderInv
  <1>7. IntactArrives'
    BY <1>1, <1>4, KeepsArrived
  <1> QED
    BY <1>5, <1>6, <1>7 DEF IntactInv

LEMMA SameKeeps ==
    ASSUME LinkTypes, LinkTypes', IntactInv, UNCHANGED <<inSysEx, status, data, wire, sent, handed>>
    PROVE  IntactInv'
  BY DEF IntactInv, KnownInv, OrderInv, IntactArrives, InOrder, IsIntact, OnWire, Midway

(* A step that reads may hand on more.                                     *)
LEMMA HandsOn ==
    ASSUME LinkTypes, LinkTypes', IntactArrives, NEW x, NEW ms \in Seq(MidiMessages),
           handed' = handed \o ms, Len(sent') = Len(sent),
           \A m \in Messages : ~m.chunk =>
               /\ Arrived(m)' \subseteq Arrived(m) \cup {x}
               /\ x \in Arrived(m)' /\ x \notin Arrived(m) => \E j \in 1..Len(ms) : ms[j] = m
    PROVE  IntactArrives'
  <1>1. ASSUME NEW m \in Messages, ~m.chunk
        PROVE  Count(handed', m) >= Cardinality(Arrived(m)')
    <2> DEFINE A == Arrived(m)
               B == Arrived(m)'
               c == Count(handed, m)
               d == Count(handed', m)
    <2>1. /\ IsFiniteSet(A) /\ Cardinality(A) \in Nat
          /\ B \subseteq A \cup {x}
          /\ x \in B /\ x \notin A => \E j \in 1..Len(ms) : ms[j] = m
      BY <1>1, ArrivedIsFinite
    <2>2. c \in Nat /\ c >= Cardinality(A)
      <3>1. c >= Cardinality(A)
        BY <1>1, IntactArrivesIs
      <3> QED
        BY <3>1, CountIs DEF LinkTypes
    <2>3. /\ d \in Nat /\ d >= c
          /\ (\E j \in 1..Len(ms) : ms[j] = m) => d >= c + 1
      <3>1. handed \in Seq(MidiMessages)
        BY DEF LinkTypes
      <3> QED
        BY <3>1, CountMore
    <2> HIDE DEF A, B, c, d
    <2>4. \A S, T : IsFiniteSet(S) /\ T \subseteq S =>
              /\ Cardinality(T) <= Cardinality(S) /\ IsFiniteSet(T)
      BY FS_Subset
    <2>5. \A S : IsFiniteSet(S) => Cardinality(S) \in Nat
      BY FS_CardinalityType
    <2>6. CASE x \in B /\ x \notin A
      <3>1. IsFiniteSet(A \cup {x}) /\ Cardinality(A \cup {x}) = Cardinality(A) + 1
        BY <2>1, <2>6, FS_AddElement
      <3>2. Cardinality(B) <= Cardinality(A) + 1 /\ Cardinality(B) \in Nat
        BY <2>1, <2>4, <2>5, <3>1
      <3>3. d >= c + 1
        BY <2>1, <2>3, <2>6
      <3> QED
        BY <2>1, <2>2, <2>3, <3>2, <3>3 DEF B, d
    <2>7. CASE ~(x \in B /\ x \notin A)
      <3>1. B \subseteq A
        BY <2>1, <2>7
      <3>2. Cardinality(B) <= Cardinality(A) /\ Cardinality(B) \in Nat
        BY <2>1, <2>4, <2>5, <3>1
      <3> QED
        BY <2>1, <2>2, <2>3, <3>2 DEF B, d
    <2> QED
      BY <2>6, <2>7
  <1> QED
    BY <1>1, Zenon DEF IntactArrives, Arrived

(* The byte that is parsed is the next one of its message: the parser has  *)
(* read the others before it, and hands the message on after the last one. *)
LEMMA ParseArrives ==
    ASSUME LinkInv, LinkTypes', IntactInv, Parse
    PROVE  IntactInv'
  <1> DEFINE x == wire[1].id
             b == wire[1].byte
  <1>1. LinkTypes /\ PInv /\ KnownInv /\ OrderInv /\ IntactArrives
    BY DEF LinkInv, IntactInv
  <1>2. /\ wire # << >> /\ ParseByte(b) /\ emitted' \in Seq(MidiMessages)
        /\ wire' \in Seq(WireBytes) /\ Len(wire') = Len(wire) - 1 /\ Len(wire) \in Nat
        /\ Len(wire) >= 1 /\ \A v \in 1 .. Len(wire) - 1 : wire'[v] = wire[v + 1]
        /\ wire' = Tail(wire) /\ handed' = handed \o emitted' /\ sent' = sent
        /\ wire \in Seq(WireBytes)
    BY <1>1, ParseIs DEF Parse, sendVars, LinkTypes
  <1>3. /\ \A v \in 1..Len(wire') : v + 1 \in 1..Len(wire) /\ wire'[v] = wire[v + 1]
        /\ \A v \in 1..Len(wire) : v = 1 \/ (v - 1 \in 1..Len(wire') /\ wire'[v - 1] = wire[v])
    <2>1. \A v \in 1..Len(wire') : v + 1 \in 1..Len(wire) /\ wire'[v] = wire[v + 1]
      BY <1>2
    <2>2. ASSUME NEW v \in 1..Len(wire), v # 1
          PROVE  v - 1 \in 1..Len(wire') /\ wire'[v - 1] = wire[v]
      <3>1. v - 1 \in 1 .. Len(wire) - 1 /\ (v - 1) + 1 = v
        BY <1>2, <2>2
      <3> QED
        BY <1>2, <3>1
    <2> QED
      BY <2>1, <2>2
  <1>4. \A i : /\ OnWire(i)' => OnWire(i)
               /\ OnWire(i) => OnWire(i)' \/ i = x
    BY <1>3 DEF OnWire
  <1> HIDE DEF x, b
  <1>5. ASSUME NEW i \in 1..Len(sent), IsIntact(i), OnWire(i)
        PROVE  /\ OnWire(i)' => InOrder(i)'
               /\ ~OnWire(i)' => \E j \in 1..Len(emitted') : emitted'[j] = sent[i].message
    <2>1. InOrder(i)
      BY <1>1, <1>5 DEF OrderInv
    <2>2. PICK m \in Messages : m = sent[i].message /\ Line(m) \in Seq(Bytes) /\ ~m.chunk
      BY <1>1, <1>5, LinesAre DEF IsIntact
    <2>3. PICK p, k : Spelt(wire, i, Line(m), p, k) /\ (k > 0 => p = 0 /\ Midway(m, k))
      BY <2>1, <2>2 DEF InOrder
    <2> DEFINE l == Line(m)
    <2>4. /\ l \in Seq(Bytes) /\ Spelt(wire, i, l, p, k) /\ (k > 0 => p = 0 /\ Midway(m, k))
          /\ Len(l) \in Nat
      BY <2>2, <2>3, LenProperties
    <2> HIDE DEF l
    <2>5. p \in Nat /\ k \in 0 .. Len(l) - 1
      BY <2>4 DEF Spelt
    <2>6. /\ p > 0 => x # i /\ Spelt(wire', i, l, p - 1, k)
          /\ p = 0 => /\ x = i /\ b = l[k + 1]
                      /\ k + 1 < Len(l) => Spelt(wire', i, l, 0, k + 1)
      BY <1>2, <2>2, <2>4, SpeltRest DEF x, b
    <2>7. ASSUME NEW r, NEW g, Spelt(wire', i, l, r, g), g > 0 => r = 0 /\ Midway(m, g)'
          PROVE  OnWire(i)' /\ InOrder(i)'
      <3>1. OnWire(i)'
        BY <1>2, <2>4, <2>7, SpeltIsOn DEF OnWire
      <3>2. /\ Spelt(wire', i, Line(sent'[i].message), r, g)
            /\ g > 0 => r = 0 /\ ~inSysEx' /\ status' = sent'[i].message.status
                        /\ Len(data') = g - 1 /\ \A j \in 1 .. g - 1 : data'[j] = sent'[i].message.data[j]
        BY <1>2, <2>2, <2>7 DEF l, Midway
      <3>3. InOrder(i)'
        BY <3>2 DEF InOrder, Midway
      <3> QED
        BY <3>1, <3>3
    <2>8. CASE p > 0
      <3>1. k = 0 /\ Spelt(wire', i, l, p - 1, 0)
        BY <2>4, <2>5, <2>6, <2>8
      <3>2. ~(0 > 0)
        OBVIOUS
      <3> QED
        BY <2>7, <3>1, <3>2
    <2>9. CASE p = 0
      <3>1. Goes(m, k)
        <4>1. Comes(m, k, b)
          BY <2>4, <2>5, <2>6, <2>9 DEF Comes, l
        <4> QED
          BY <1>1, <1>2, <2>2, <4>1, ByteGoes
      <3>2. CASE k + 1 < Len(l)
        <4>1. Midway(m, k + 1)' /\ Spelt(wire', i, l, 0, k + 1)
          BY <2>6, <2>9, <3>1, <3>2 DEF Goes, l
        <4> QED
          BY <2>7, <4>1
      <3>3. CASE ~(k + 1 < Len(l))
        <4>1. \E j \in 1..Len(emitted') : emitted'[j] = m
          BY <3>1, <3>3 DEF Goes, l
        <4>2. ~OnWire(i)'
          <5>1. Len(l) - k = 1
            BY <2>4, <2>5, <3>3
          <5>2. \A v \in 1..Len(wire) : wire[v].id = i <=> 0 < v /\ v <= 0 + 1
            BY <2>4, <2>9, <5>1 DEF Spelt
          <5> SUFFICES ASSUME NEW v \in 1..Len(wire'), wire'[v].id = i PROVE FALSE
            BY DEF OnWire
          <5>3. v + 1 \in 1..Len(wire) /\ wire[v + 1].id = i
            BY <1>3
          <5>4. v + 1 <= 0 + 1
            BY <5>2, <5>3
          <5> QED
            BY <5>4
        <4> QED
          BY <2>2, <4>1, <4>2
      <3> QED
        BY <3>2, <3>3
    <2> QED
      BY <2>5, <2>8, <2>9
  <1>6. KnownInv'
    BY <1>1, <1>2, <1>3 DEF KnownInv
  <1>7. OrderInv'
    <2> SUFFICES ASSUME NEW i \in 1..Len(sent'), IsIntact(i)', OnWire(i)' PROVE InOrder(i)'
      BY DEF OrderInv
    <2>1. i \in 1..Len(sent) /\ IsIntact(i) /\ OnWire(i)
      BY <1>2, <1>4 DEF IsIntact
    <2> QED
      BY <1>5, <2>1
  <1>8. ASSUME NEW m \in Messages, ~m.chunk
        PROVE  /\ Arrived(m)' \subseteq Arrived(m) \cup {x}
               /\ x \in Arrived(m)' /\ x \notin Arrived(m) =>
                      \E j \in 1..Len(emitted') : emitted'[j] = m
    <2>1. ASSUME NEW i \in Arrived(m)', i \notin Arrived(m)
          PROVE  i = x /\ \E j \in 1..Len(emitted') : emitted'[j] = m
      <3>1. i \in 1..Len(sent) /\ sent[i].message = m /\ sent[i].intact /\ ~OnWire(i)'
        BY <1>2, <2>1 DEF Arrived, OnWire
      <3>2. OnWire(i) /\ IsIntact(i)
        BY <1>8, <2>1, <3>1 DEF Arrived, OnWire, IsIntact
      <3> QED
        BY <1>4, <1>5, <3>1, <3>2
    <2> QED
      BY <2>1
  <1>9. IntactArrives'
    <2>1. Len(sent') = Len(sent)
      BY <1>2
    <2>2. PICK ms \in Seq(MidiMessages) : ms = emitted'
      BY <1>2
    <2> QED
      BY <1>1, <1>2, <1>8, <2>1, <2>2, HandsOn
  <1> QED
    BY <1>6, <1>7, <1>9 DEF IntactInv

(* A piece of a dump is handed on only in the middle of one, so no other   *)
(* message is being read.                                                  *)
LEMMA FlushArrives ==
    ASSUME LinkInv, LinkTypes', IntactInv, Flush
    PROVE  IntactInv'
  <1>1. LinkTypes /\ PInv /\ KnownInv /\ OrderInv /\ IntactArrives
    BY DEF LinkInv, IntactInv
  <1>2. /\ handed' = handed \o emitted' /\ wire' = wire /\ sent' = sent
        /\ UNCHANGED <<inSysEx, status, data>>
    BY DEF Flush, EndOfBuffer, sendVars, messageVars
  <1>3. emitted' \in Seq(MidiMessages)
    <2>1. 0 \in Bytes /\ EndOfBuffer
      BY DEF Bytes, Flush
    <2> QED
      BY <1>1, <2>1, EmitsMessages
  <1>4. KnownInv' /\ OrderInv'
    BY <1>1, <1>2 DEF KnownInv, OrderInv, InOrder, IsIntact, OnWire, Midway
  <1>5. IntactArrives'
    <2>1. \A m : Arrived(m)' = Arrived(m)
      BY <1>2 DEF Arrived
    <2>2. PICK ms \in Seq(MidiMessages) : ms = emitted'
      BY <1>3
    <2>3. Len(sent') = Len(sent)
      BY <1>2
    <2> QED
      BY <1>1, <1>2, <2>1, <2>2, <2>3, HandsOn
  <1> QED
    BY <1>4, <1>5 DEF IntactInv

LEMMA IntactNext ==
    ASSUME LinkInv, ~BeginsMidDump, IntactInv, [Next]_linkVars
    PROVE  IntactInv'
  <1>1. LinkTypes /\ LinkTypes'
    BY LinkInvNext DEF LinkInv
  <1>2. CASE OfSender
    BY <1>1, <1>2, SenderArrives
  <1>3. CASE OfCable
    BY <1>1, <1>3, CableArrives
  <1>4. CASE Read \/ UNCHANGED linkVars
    <2>1. UNCHANGED <<inSysEx, status, data, wire, sent, handed>>
      BY <1>4 DEF Read, linkVars, receiveVars, sendVars, vars, parserVars, messageVars
    <2> QED
      BY <1>1, <2>1, SameKeeps
  <1>5. CASE Parse
    BY <1>1, <1>5, ParseArrives
  <1>6. CASE Flush
    BY <1>1, <1>6, FlushArrives
  <1>7. CASE ReceiverEnd
    <2>1. handed' = handed /\ DamageAll /\ wire' = << >>
      BY <1>7 DEF ReceiverEnd
    <2> QED
      BY <1>1, <2>1, DropKeeps
  <1>8. CASE ReceiverBegin
    <2>1. handed' = handed /\ sent' = sent /\ wire' = wire /\ wire = << >>
      BY <1>8 DEF ReceiverBegin, sendVars, LinkInv, ClosedInv
    <2> QED
      BY <1>1, <2>1, DropKeeps
  <1>9. ASSUME NEW moved \in BOOLEAN, ReceiverBeginAgain(moved) PROVE IntactInv'
    <2>1. handed' = handed /\ DamageAll /\ (wire' = << >> \/ wire' = wire)
      BY <1>9 DEF ReceiverBeginAgain
    <2> QED
      BY <1>1, <2>1, DropKeeps
  <1> QED
    BY <1>2, <1>3, <1>4, <1>5, <1>6, <1>7, <1>8, <1>9 DEF Next, OfSender, OfCable

(* "A receiver that loses one byte ... misreads ... one message": whatever *)
(* the cable and the two ends do, a short message that comes through whole *)
(* is handed to the receiver's router, as often as it does; begin() must   *)
(* not come in the middle of a dump, as for the other theorems.            *)
THEOREM IntactMessagesArrive == ~BeginsMidDump => (Spec => []IntactArrives)
  <1> SUFFICES ASSUME ~BeginsMidDump PROVE Spec => []IntactArrives
    OBVIOUS
  <1>1. Init => LinkInv /\ IntactInv
    BY LinkInvInit, IntactInit
  <1>2. LinkInv /\ IntactInv /\ [Next]_linkVars => LinkInv' /\ IntactInv'
    BY LinkInvNext, IntactNext
  <1>3. IntactInv => IntactArrives
    BY DEF IntactInv
  <1> QED
    BY <1>1, <1>2, <1>3, PTL DEF Spec
=============================================================================
