----------------------------- MODULE UsbPacket -----------------------------
(***************************************************************************)
(* The USB-MIDI packet codec (UsbPacketDecoder and UsbPacketEncoder): four *)
(* bytes per packet, of which the first holds the cable and the Code Index *)
(* Number and the others are here "bytes".  Of a cable the decoder keeps   *)
(* whether a dump is open; the encoder keeps that and the bytes that did   *)
(* not fill a packet yet.                                                  *)
(***************************************************************************)
EXTENDS MidiBytes

Packet(cable, cin, bytes) == [cable |-> cable, cin |-> cin, bytes |-> bytes]

(* The Code Index Numbers of dumps; those of channel voice messages are    *)
(* the upper half of their status byte.                                    *)
SysExStarts == 4
SysExEnds(n) == 4 + n
IsSysExCin(cin) == cin \in 4..7
SingleByte == 15

(* usbCinLength() and usbCinForStatus().                                   *)
CinLength(cin) ==
    CASE cin \in {0, 1} -> 0
      [] cin \in {5, SingleByte} -> 1
      [] cin \in {2, 6, 12, 13} -> 2
      [] OTHER -> 3

CinForStatus(status) ==
    CASE IsChannelVoice(status) -> status \div 16
      [] status \in {241, 243} -> 2
      [] status = 242 -> 3
      [] status = 246 -> 5
      [] OTHER -> SingleByte
-----------------------------------------------------------------------------
(* Decoding: the messages of a packet (one or none), and whether a dump is *)
(* open after it.                                                          *)
DecodeShort(p) ==
    LET status == p.bytes[1] IN
    IF HasFixedLength(status)
    THEN <<ShortMessage(status, SubSeq(p.bytes, 2, 1 + DataLength(status)))>>
    ELSE << >>

(* CIN 5 is the end of a dump only if its byte is 0xF7.                    *)
IsShort(p) == ~IsSysExCin(p.cin) \/ (p.cin = SysExEnds(1) /\ p.bytes[1] # SysExEnd)

(* A packet of a dump whose start was not seen.                            *)
IsOrphan(open, p) == ~open /\ p.bytes[1] # SysExStart

Payload(open, p) ==
    LET first == IF open THEN 1 ELSE 2
        last == CinLength(p.cin) IN
    SubSeq(p.bytes, first,
           IF first <= last /\ p.bytes[last] = SysExEnd THEN last - 1 ELSE last)

Decode(open, p) ==
    IF CinLength(p.cin) = 0 THEN << >>
    ELSE IF IsShort(p) THEN DecodeShort(p)
    ELSE IF IsOrphan(open, p) THEN << >>
    ELSE <<ChunkMessage(Payload(open, p), ~open, p.cin # SysExStarts)>>

OpenAfterPacket(open, p) ==
    IF Decode(open, p) = << >> THEN open ELSE OpenAfter(open, Decode(open, p)[1])

(* What a decoder with a dump open, or not, makes of some packets.         *)
Reading(open, packets) ==
    LET after[n \in 0..Len(packets)] ==
            IF n = 0 THEN [open |-> open, got |-> << >>]
            ELSE [open |-> OpenAfterPacket(after[n - 1].open, packets[n]),
                  got |-> after[n - 1].got \o Decode(after[n - 1].open, packets[n])]
    IN  after[Len(packets)]
-----------------------------------------------------------------------------
(* Encoding: the packets of a message, and the encoder after it.           *)
NewEncoder == [inSysEx |-> FALSE, pending |-> << >>]

EncodeShort(cable, m) ==
    <<Packet(cable, CinForStatus(m.status), SubSeq(<<m.status>> \o m.data \o <<0, 0>>, 1, 3))>>

(* Mutant: pads instead of carrying the bytes over to the next chunk.      *)
Line_ForgetsPending(enc, m) == (IF m.start THEN <<SysExStart>> ELSE << >>) \o m.data

(* Mutant: a start goes behind what is left of a transfer that was refused.*)
Line_KeepsPending(enc, m) ==
    enc.pending \o (IF m.start THEN <<SysExStart>> ELSE << >>) \o m.data

(* The bytes of a chunk behind those that are pending; a start drops them. *)
Line(enc, m) == (IF m.start THEN <<SysExStart>> ELSE enc.pending) \o m.data

Groups(cable, line) ==
    [i \in 1 .. Len(line) \div 3 |->
        Packet(cable, SysExStarts, SubSeq(line, 3 * i - 2, 3 * i))]
Rest(line) == SubSeq(line, 3 * (Len(line) \div 3) + 1, Len(line))

(* The 0xF7 goes out with the one or two bytes left, or alone.             *)
EndPacket(cable, rest) ==
    <<Packet(cable, SysExEnds(Len(rest) + 1), SubSeq(rest \o <<SysExEnd, 0, 0>>, 1, 3))>>

(* A message that has no fixed length, and the rest of a dump that was not *)
(* started, is not encoded.                                                *)
Encodable(enc, m) ==
    IF m.chunk THEN m.start \/ enc.inSysEx ELSE HasFixedLength(m.status)

Encode(enc, cable, m) ==
    IF ~Encodable(enc, m) THEN << >>
    ELSE IF ~m.chunk THEN EncodeShort(cable, m)
    ELSE Groups(cable, Line(enc, m))
             \o (IF m.end THEN EndPacket(cable, Rest(Line(enc, m))) ELSE << >>)

EncoderAfter(enc, m) ==
    IF ~Encodable(enc, m) \/ ~m.chunk THEN enc
    ELSE IF m.end THEN NewEncoder
    ELSE [inSysEx |-> TRUE, pending |-> Rest(Line(enc, m))]
=============================================================================
