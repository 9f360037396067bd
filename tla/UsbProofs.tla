------------------------------ MODULE UsbProofs ------------------------------
(***************************************************************************)
(* Proofs about the packet codec and the two adapters that use it: UsbHost *)
(* for any devices, hubs, addresses, cables, slots, messages and any size  *)
(* of the ring, and UsbDevice for any cables, ports, messages, mounts and  *)
(* any size of the FIFOs.                                                  *)
(*                                                                         *)
(* The codec.  What a decoder makes of the packets of a message says what  *)
(* the message says, but for the bytes that the encoder holds back         *)
(* (EncodingRead).  Linked is that fact over a whole stream: what was      *)
(* handed out, what the packets on their way say and what the encoder      *)
(* holds are together what was sent.                                       *)
(*                                                                         *)
(* UsbHost knows a device by its address, and addresses are used again.    *)
(* UsbInv is about how long an address means the same device: until the    *)
(* poll that follows a disconnect.  Behind that poll a slot is of the      *)
(* device that is at its address (SlotsApart), and so is what was found    *)
(* and has no slot yet (FoundInv); a packet in the ring is of the device   *)
(* that may still have its address, unless the ring is drained first       *)
(* (RingInv).  StreamInv ties the decoders of a slot to the streams of the *)
(* router.                                                                 *)
(*                                                                         *)
(* InputInv and OutputInv say which encoder, packets and decoder are       *)
(* Linked, cable by cable: a device and the slot it is behind.  DeviceInv  *)
(* says it of the board and its host, of which everything is gone when     *)
(* they part (PortSilent).                                                 *)
(***************************************************************************)
EXTENDS UsbHost, SequenceLemmas

(* The four bytes of a packet, one of them its cable and its CIN.          *)
Packets == [cable : Cables, cin : Nat, bytes : {b \in Seq(Bytes) : Len(b) = 3}]
Parcels == [address : Addresses, from : Devices, packet : Packets]

Encoders == {e \in [inSysEx : BOOLEAN, pending : Seq(Bytes)] : Len(e.pending) <= 2}
-----------------------------------------------------------------------------
(* What the codec makes are packets of the cable, and messages.            *)
LEMMA ThreeBytes ==
    ASSUME NEW line \in Seq(Bytes), NEW i \in Int, 1 <= i, i + 2 <= Len(line)
    PROVE  SubSeq(line, i, i + 2) \in {b \in Seq(Bytes) : Len(b) = 3}
  <1>1. \A j \in i .. i + 2 : line[j] \in Bytes
    BY ElementOfSeq
  <1> QED
    BY <1>1, SubSeqProperties

LEMMA RestType ==
    ASSUME NEW line \in Seq(Bytes)
    PROVE  Rest(line) \in Seq(Bytes) /\ Len(Rest(line)) <= 2
  <1> DEFINE n == Len(line)
             q == n \div 3
  <1>1. n \in Nat /\ q \in Nat /\ 3 * q <= n /\ n <= 3 * q + 2
    BY LenProperties
  <1> HIDE DEF q
  <1>2. \A j \in 3 * q + 1 .. n : line[j] \in Bytes
    BY <1>1, ElementOfSeq
  <1>3. /\ SubSeq(line, 3 * q + 1, n) \in Seq(Bytes)
        /\ Len(SubSeq(line, 3 * q + 1, n)) =
               IF 3 * q + 1 <= n THEN n - (3 * q + 1) + 1 ELSE 0
    BY <1>1, <1>2, SubSeqProperties
  <1> QED
    BY <1>1, <1>3 DEF Rest, q

LEMMA LineType ==
    ASSUME NEW enc \in Encoders, NEW m \in MidiMessages
    PROVE  Line(enc, m) \in Seq(Bytes)
  <1>1. /\ m.data \in Seq(Bytes) /\ enc.pending \in Seq(Bytes)
        /\ <<SysExStart>> \in Seq(Bytes)
    BY DEF MidiMessages, Encoders, SysExStart, Bytes
  <1> QED
    BY <1>1, ConcatProperties DEF Line

LEMMA EncoderType ==
    ASSUME NEW enc \in Encoders, NEW m \in MidiMessages
    PROVE  EncoderAfter(enc, m) \in Encoders
  <1>1. NewEncoder \in Encoders
    BY EmptySeq DEF NewEncoder, Encoders
  <1>2. [inSysEx |-> TRUE, pending |-> Rest(Line(enc, m))] \in Encoders
    BY LineType, RestType DEF Encoders
  <1> QED
    BY <1>1, <1>2 DEF EncoderAfter

LEMMA GroupsType ==
    ASSUME NEW c \in Cables, NEW line \in Seq(Bytes)
    PROVE  Groups(c, line) \in Seq(Packets)
  <1> DEFINE q == Len(line) \div 3
             group(i) == Packet(c, SysExStarts, SubSeq(line, 3 * i - 2, 3 * i))
  <1>1. Len(line) \in Nat /\ q \in Nat /\ 3 * q <= Len(line)
    BY LenProperties
  <1> HIDE DEF q
  <1>2. ASSUME NEW i \in 1..q PROVE group(i) \in Packets
    <2>1. SubSeq(line, 3 * i - 2, (3 * i - 2) + 2) \in {b \in Seq(Bytes) : Len(b) = 3}
      BY <1>1, ThreeBytes
    <2>2. (3 * i - 2) + 2 = 3 * i
      BY <1>1
    <2> QED
      BY <2>1, <2>2 DEF Packet, Packets, SysExStarts
  <1> HIDE DEF group
  <1>3. [i \in 1..q |-> group(i)] \in Seq(Packets)
    BY <1>1, <1>2
  <1> QED
    BY <1>3 DEF Groups, group, q

LEMMA EndType ==
    ASSUME NEW c \in Cables, NEW rest \in Seq(Bytes)
    PROVE  EndPacket(c, rest) \in Seq(Packets)
  <1> DEFINE bytes == rest \o <<SysExEnd, 0, 0>>
  <1>1. Len(rest) \in Nat
    BY LenProperties
  <1>2. <<SysExEnd, 0, 0>> \in Seq(Bytes) /\ Len(<<SysExEnd, 0, 0>>) = 3
    BY DEF SysExEnd, Bytes
  <1> HIDE DEF bytes
  <1>3. bytes \in Seq(Bytes) /\ 1 + 2 <= Len(bytes)
    BY <1>1, <1>2, ConcatProperties DEF bytes
  <1>4. SubSeq(bytes, 1, 3) \in {b \in Seq(Bytes) : Len(b) = 3}
    BY <1>3, ThreeBytes
  <1>5. SysExEnds(Len(rest) + 1) \in Nat
    BY <1>1 DEF SysExEnds
  <1> QED
    BY <1>4, <1>5 DEF EndPacket, Packet, Packets, bytes

LEMMA EncodeType ==
    ASSUME NEW enc \in Encoders, NEW c \in Cables, NEW m \in MidiMessages
    PROVE  Encode(enc, c, m) \in Seq(Packets)
  <1> DEFINE line == Line(enc, m)
  <1>1. line \in Seq(Bytes) /\ Len(line) \in Nat
    BY LineType, LenProperties
  <1>2. << >> \in Seq(Packets)
    BY EmptySeq
  <1>3. EncodeShort(c, m) \in Seq(Packets)
    <2> DEFINE bytes == <<m.status>> \o m.data \o <<0, 0>>
    <2>1. m.status \in Bytes /\ m.data \in Seq(Bytes) /\ 0 \in Bytes
      BY DEF MidiMessages, Bytes
    <2>2. /\ <<m.status>> \in Seq(Bytes) /\ <<0, 0>> \in Seq(Bytes)
          /\ Len(<<m.status>>) = 1 /\ Len(<<0, 0>>) = 2
      BY <2>1
    <2>3. /\ <<m.status>> \o m.data \in Seq(Bytes)
          /\ Len(<<m.status>> \o m.data) = 1 + Len(m.data) /\ Len(m.data) \in Nat
      BY <2>1, <2>2, ConcatProperties, LenProperties
    <2> HIDE DEF bytes
    <2>4. bytes \in Seq(Bytes) /\ 1 + 2 <= Len(bytes)
      BY <2>2, <2>3, ConcatProperties DEF bytes
    <2>5. SubSeq(bytes, 1, 3) \in {b \in Seq(Bytes) : Len(b) = 3}
      BY <2>4, ThreeBytes
    <2>6. CinForStatus(m.status) \in Nat
      <3>1. \A b \in 0..255 : b \div 16 \in Nat
        OBVIOUS
      <3>2. m.status \div 16 \in Nat
        BY <2>1, <3>1 DEF Bytes
      <3> QED
        BY <3>2 DEF CinForStatus, SingleByte
    <2> QED
      BY <2>5, <2>6 DEF EncodeShort, Packet, Packets, bytes
  <1>4. Groups(c, line) \in Seq(Packets)
    BY <1>1, GroupsType
  <1>5. EndPacket(c, Rest(line)) \in Seq(Packets)
    BY <1>1, RestType, EndType
  <1> HIDE DEF line
  <1>6. Groups(c, line) \o EndPacket(c, Rest(line)) \in Seq(Packets)
        /\ Groups(c, line) \o << >> \in Seq(Packets)
    BY <1>2, <1>4, <1>5, ConcatProperties
  <1> QED
    BY <1>2, <1>3, <1>6 DEF Encode, line

(* A packet makes one message or none, and a chunk begins a dump exactly   *)
(* if none is open.                                                        *)
LEMMA DecodeIs ==
    ASSUME NEW open \in BOOLEAN, NEW p \in Packets
    PROVE  /\ Decode(open, p) \in Seq(MidiMessages)
           /\ Decode(open, p) = << >> \/ Len(Decode(open, p)) = 1
           /\ Decode(open, p) # << >> /\ Decode(open, p)[1].chunk =>
                  Decode(open, p)[1].start = ~open
           /\ OpenAfterPacket(open, p) \in BOOLEAN
  <1>1. /\ p.bytes \in Seq(Bytes) /\ Len(p.bytes) = 3
        /\ \A j \in 1..3 : p.bytes[j] \in Bytes
    BY ElementOfSeq DEF Packets
  <1>2. ASSUME NEW i \in 1..3, NEW j \in 0..3
        PROVE  SubSeq(p.bytes, i, j) \in Seq(Bytes)
    BY <1>1, SubSeqProperties
  <1>3. ASSUME Decode(open, p) = << >>
        PROVE  /\ Decode(open, p) \in Seq(MidiMessages)
               /\ OpenAfterPacket(open, p) \in BOOLEAN
    BY <1>3, EmptySeq DEF OpenAfterPacket
  <1>4. ASSUME NEW m \in MidiMessages, Decode(open, p) = <<m>>
        PROVE  /\ Decode(open, p) \in Seq(MidiMessages) /\ Len(Decode(open, p)) = 1
               /\ Decode(open, p)[1] = m
               /\ OpenAfterPacket(open, p) \in BOOLEAN
    <2>1. <<m>> \in Seq(MidiMessages) /\ Len(<<m>>) = 1 /\ <<m>>[1] = m /\ <<m>> # << >>
      OBVIOUS
    <2>2. OpenAfter(open, m) \in BOOLEAN
      BY DEF OpenAfter, MidiMessages
    <2>3. OpenAfterPacket(open, p) = OpenAfter(open, m)
      BY <1>4, <2>1, Zenon DEF OpenAfterPacket
    <2> QED
      BY <1>4, <2>1, <2>2, <2>3
  <1>5. CASE CinLength(p.cin) = 0
    BY <1>3, <1>5 DEF Decode
  <1>6. CASE CinLength(p.cin) # 0 /\ IsShort(p)
    <2> DEFINE status == p.bytes[1]
               m == ShortMessage(status, SubSeq(p.bytes, 2, 1 + DataLength(status)))
    <2>1. CASE HasFixedLength(status)
      <3>1. status \in Bytes /\ 1 + DataLength(status) \in 0..3
        BY <1>1 DEF DataLength, Bytes
      <3>2. m \in MidiMessages /\ ~m.chunk
        BY <1>2, <3>1 DEF ShortMessage, MidiMessages
      <3>3. Decode(open, p) = <<m>>
        BY <1>6, <2>1 DEF Decode, DecodeShort
      <3> HIDE DEF m
      <3> QED
        BY <1>4, <3>2, <3>3
    <2>2. CASE ~HasFixedLength(status)
      BY <1>3, <1>6, <2>2 DEF Decode, DecodeShort
    <2> QED
      BY <2>1, <2>2
  <1>7. CASE CinLength(p.cin) # 0 /\ ~IsShort(p) /\ IsOrphan(open, p)
    BY <1>3, <1>7 DEF Decode
  <1>8. CASE CinLength(p.cin) # 0 /\ ~IsShort(p) /\ ~IsOrphan(open, p)
    <2> DEFINE m == ChunkMessage(Payload(open, p), ~open, p.cin # SysExStarts)
    <2>1. CinLength(p.cin) \in 1..3
      BY <1>8 DEF CinLength
    <2>2. Payload(open, p) \in Seq(Bytes)
      <3> DEFINE last == CinLength(p.cin)
                 to == IF (IF open THEN 1 ELSE 2) <= last /\ p.bytes[last] = SysExEnd
                       THEN last - 1 ELSE last
      <3>1. to \in 0..3
        BY <2>1
      <3> HIDE DEF to
      <3>2. SubSeq(p.bytes, 1, to) \in Seq(Bytes) /\ SubSeq(p.bytes, 2, to) \in Seq(Bytes)
        BY <1>2, <3>1
      <3>3. Payload(open, p) = SubSeq(p.bytes, IF open THEN 1 ELSE 2, to)
        BY DEF Payload, to
      <3> QED
        BY <3>2, <3>3
    <2>3. m \in MidiMessages /\ m.start = ~open
      BY <2>2 DEF ChunkMessage, MidiMessages, SysExStart, Bytes
    <2>4. Decode(open, p) = <<m>>
      BY <1>8 DEF Decode
    <2> HIDE DEF m
    <2> QED
      BY <1>4, <2>3, <2>4
  <1> QED
    BY <1>5, <1>6, <1>7, <1>8
-----------------------------------------------------------------------------
(* What a decoder makes of packets, one after the other.                   *)
Read(r, p) ==
    [open |-> OpenAfterPacket(r.open, p), got |-> r.got \o Decode(r.open, p)]
Unread(o) == [open |-> o, got |-> << >>]
IsReading(f, o, ps, n) ==
    f = [k \in 0..n |-> IF k = 0 THEN Unread(o) ELSE Read(f[k - 1], ps[k])]

LEMMA ReadingExists ==
    ASSUME NEW o, NEW ps, NEW n \in Nat
    PROVE  \E f : IsReading(f, o, ps, n)
  <1> DEFINE T == {k \in Nat : \E f : IsReading(f, o, ps, k)}
  <1>1. 0 \in T
    <2> DEFINE f == [k \in 0..0 |-> Unread(o)]
    <2>1. IsReading(f, o, ps, 0)
      BY DEF IsReading
    <2> QED
      BY <2>1
  <1>2. ASSUME NEW k \in 0 .. n - 1, k \in T PROVE k + 1 \in T
    <2>1. PICK f : IsReading(f, o, ps, k)
      BY <1>2
    <2> DEFINE g == [i \in 0 .. k + 1 |-> IF i = k + 1 THEN Read(f[k], ps[i]) ELSE f[i]]
    <2>2. \A i \in 0..k : f[i] = IF i = 0 THEN Unread(o) ELSE Read(f[i - 1], ps[i])
      BY <2>1 DEF IsReading
    <2>3. \A i \in 0..k : g[i] = f[i]
      OBVIOUS
    <2>4. g[k + 1] = Read(f[k], ps[k + 1])
      OBVIOUS
    <2>5. g = [i \in 0 .. k + 1 |-> g[i]]
      BY Zenon
    <2> HIDE DEF g
    <2>6. ASSUME NEW i \in 0 .. k + 1
          PROVE  g[i] = IF i = 0 THEN Unread(o) ELSE Read(g[i - 1], ps[i])
      <3>1. CASE i = k + 1
        <4>1. i # 0 /\ i - 1 = k /\ k \in 0..k
          BY <3>1
        <4> QED
          BY <2>3, <2>4, <3>1, <4>1
      <3>2. CASE i = 0
        BY <2>2, <2>3, <3>2
      <3>3. CASE i # 0 /\ i # k + 1
        <4>1. i \in 0..k /\ i - 1 \in 0..k
          BY <3>3
        <4> QED
          BY <2>2, <2>3, <3>3, <4>1
      <3> QED
        BY <3>1, <3>2, <3>3
    <2>7. IsReading(g, o, ps, k + 1)
      BY <2>5, <2>6 DEF IsReading
    <2> QED
      BY <2>7
  <1> HIDE DEF T
  <1>3. \A k \in 0..n : k \in T
    BY <1>1, <1>2, SetInduction
  <1> QED
    BY <1>3 DEF T

LEMMA ReadingIs ==
    ASSUME NEW o, NEW ps, Len(ps) \in Nat
    PROVE  \E f : IsReading(f, o, ps, Len(ps)) /\ Reading(o, ps) = f[Len(ps)]
  <1> DEFINE f == CHOOSE g : IsReading(g, o, ps, Len(ps))
  <1>1. IsReading(f, o, ps, Len(ps))
    BY ReadingExists
  <1>2. Reading(o, ps) = f[Len(ps)]
    BY DEF Reading, IsReading, Read, Unread
  <1> HIDE DEF f
  <1> QED
    BY <1>1, <1>2

LEMMA ReadingsAgree ==
    ASSUME NEW o, NEW ps, NEW qs, NEW f, NEW g, NEW l \in Nat, NEW m \in Nat, l <= m,
           IsReading(f, o, ps, l), IsReading(g, o, qs, m), \A i \in 1..l : ps[i] = qs[i]
    PROVE  f[l] = g[l]
  <1> DEFINE T == {k \in 0..l : f[k] = g[k]}
  <1>1. /\ \A k \in 0..l : f[k] = IF k = 0 THEN Unread(o) ELSE Read(f[k - 1], ps[k])
        /\ \A k \in 0..m : g[k] = IF k = 0 THEN Unread(o) ELSE Read(g[k - 1], qs[k])
    BY DEF IsReading
  <1>2. 0 \in T
    BY <1>1
  <1>3. ASSUME NEW k \in 0 .. l - 1, k \in T PROVE k + 1 \in T
    <2>1. /\ k + 1 \in 0..l /\ k + 1 \in 0..m /\ k + 1 # 0 /\ (k + 1) - 1 = k
          /\ k + 1 \in 1..l
      OBVIOUS
    <2>2. f[k + 1] = Read(f[k], ps[k + 1]) /\ g[k + 1] = Read(g[k], qs[k + 1])
      BY <1>1, <2>1
    <2> QED
      BY <1>3, <2>1, <2>2
  <1> HIDE DEF T
  <1>4. \A k \in 0..l : k \in T
    BY <1>2, <1>3, SetInduction
  <1> QED
    BY <1>4 DEF T

LEMMA ReadNone == ASSUME NEW o PROVE Reading(o, << >>) = Unread(o)
  <1>1. Len(<< >>) = 0 /\ 0 \in 0..0
    OBVIOUS
  <1>2. PICK f : IsReading(f, o, << >>, 0) /\ Reading(o, << >>) = f[0]
    BY <1>1, ReadingIs
  <1> QED
    BY <1>1, <1>2 DEF IsReading

LEMMA ReadMore ==
    ASSUME NEW o, NEW ps \in Seq(Packets), NEW p \in Packets
    PROVE  Reading(o, Append(ps, p)) = Read(Reading(o, ps), p)
  <1> DEFINE n == Len(ps)
             qs == Append(ps, p)
  <1>1. /\ n \in Nat /\ Len(qs) = n + 1 /\ qs[n + 1] = p /\ qs \in Seq(Packets)
        /\ \A i \in 1..n : ps[i] = qs[i]
    BY AppendProperties, LenProperties
  <1> HIDE DEF n, qs
  <1>2. PICK f : IsReading(f, o, ps, n) /\ Reading(o, ps) = f[n]
    BY <1>1, ReadingIs DEF n
  <1>3. PICK g : IsReading(g, o, qs, n + 1) /\ Reading(o, qs) = g[n + 1]
    <2>1. Len(qs) \in Nat
      BY <1>1
    <2>2. PICK g : IsReading(g, o, qs, Len(qs)) /\ Reading(o, qs) = g[Len(qs)]
      BY <2>1, ReadingIs
    <2> QED
      BY <1>1, <2>2
  <1>4. f[n] = g[n]
    <2>1. n + 1 \in Nat /\ n <= n + 1 /\ n \in Nat
      BY <1>1
    <2>2. IsReading(f, o, ps, n) /\ IsReading(g, o, qs, n + 1)
      BY <1>2, <1>3
    <2>3. \A i \in 1..n : ps[i] = qs[i]
      BY <1>1
    <2>4. \A l, m \in Nat :
              /\ l <= m /\ \A i \in 1..l : ps[i] = qs[i]
              /\ IsReading(f, o, ps, l) /\ IsReading(g, o, qs, m)
              => f[l] = g[l]
      <3> TAKE l, m \in Nat
      <3> HAVE /\ l <= m /\ \A i \in 1..l : ps[i] = qs[i]
               /\ IsReading(f, o, ps, l) /\ IsReading(g, o, qs, m)
      <3> QED
        BY ReadingsAgree
    <2> QED
      BY <2>1, <2>2, <2>3, <2>4, Zenon
  <1>5. g[n + 1] = Read(g[n], qs[n + 1])
    <2>1. n + 1 \in 0 .. n + 1 /\ n + 1 # 0 /\ (n + 1) - 1 = n
      BY <1>1
    <2>2. \A k \in 0 .. n + 1 : g[k] = IF k = 0 THEN Unread(o) ELSE Read(g[k - 1], qs[k])
      BY <1>3 DEF IsReading
    <2> QED
      BY <2>1, <2>2
  <1> QED
    BY <1>1, <1>2, <1>3, <1>4, <1>5 DEF qs

Readings == [open : BOOLEAN, got : Seq(MidiMessages)]

LEMMA ReadType ==
    ASSUME NEW r \in Readings, NEW p \in Packets
    PROVE  Read(r, p) \in Readings
  <1>1. r.open \in BOOLEAN /\ r.got \in Seq(MidiMessages)
    BY DEF Readings
  <1>2. Decode(r.open, p) \in Seq(MidiMessages) /\ OpenAfterPacket(r.open, p) \in BOOLEAN
    BY <1>1, DecodeIs
  <1>3. r.got \o Decode(r.open, p) \in Seq(MidiMessages)
    BY <1>1, <1>2, ConcatProperties
  <1> QED
    BY <1>2, <1>3 DEF Read, Readings

LEMMA ReadingType ==
    ASSUME NEW o \in BOOLEAN, NEW ps \in Seq(Packets)
    PROVE  Reading(o, ps) \in Readings
  <1> DEFINE n == Len(ps)
             P(k) == SubSeq(ps, 1, k)
             T == {k \in 0..n : Reading(o, P(k)) \in Readings}
  <1>1. n \in Nat /\ P(n) = ps /\ P(0) = << >>
    BY LenProperties, SubSeqFull, SubSeqEmpty
  <1>2. 0 \in T
    <2>1. Reading(o, P(0)) = Unread(o)
      BY <1>1, ReadNone, Zenon
    <2>2. << >> \in Seq(MidiMessages)
      BY EmptySeq
    <2>3. Unread(o) \in Readings
      BY <2>2 DEF Unread, Readings
    <2> QED
      BY <1>1, <2>1, <2>3
  <1>3. ASSUME NEW k \in 0 .. n - 1, k \in T PROVE k + 1 \in T
    <2>1. P(k) \in Seq(Packets) /\ ps[k + 1] \in Packets /\ P(k + 1) = Append(P(k), ps[k + 1])
      BY <1>1, PrefixGrows
    <2>2. Reading(o, P(k + 1)) = Read(Reading(o, P(k)), ps[k + 1])
      <3>1. \A q \in Seq(Packets), p \in Packets :
                Reading(o, Append(q, p)) = Read(Reading(o, q), p)
        BY ReadMore
      <3> QED
        BY <2>1, <3>1, Zenon
    <2>3. Reading(o, P(k)) \in Readings
      BY <1>3
    <2>4. Reading(o, P(k + 1)) \in Readings
      BY <2>1, <2>2, <2>3, ReadType
    <2> QED
      BY <1>1, <2>4
  <1> HIDE DEF T, n, P
  <1>4. \A k \in 0..n : k \in T
    BY <1>1, <1>2, <1>3, SetInduction
  <1>5. n \in T
    BY <1>1, <1>4
  <1> QED
    BY <1>1, <1>5, Zenon DEF T

(* Two readers that are where the first left off.                          *)
LEMMA ReadJoins ==
    ASSUME NEW o \in BOOLEAN, NEW ps \in Seq(Packets), NEW qs \in Seq(Packets)
    PROVE  LET r == Reading(o, ps)
               s == Reading(r.open, qs) IN
           /\ Reading(o, ps \o qs).open = s.open
           /\ Reading(o, ps \o qs).got = r.got \o s.got
  <1> DEFINE r == Reading(o, ps)
             n == Len(qs)
             P(k) == SubSeq(qs, 1, k)
             s(k) == Reading(r.open, P(k))
             u(k) == Reading(o, ps \o P(k))
             T == {k \in 0..n : u(k).open = s(k).open /\ u(k).got = r.got \o s(k).got}
  <1>1. n \in Nat /\ P(n) = qs /\ P(0) = << >>
    BY LenProperties, SubSeqFull, SubSeqEmpty
  <1>2. r \in Readings /\ r.open \in BOOLEAN /\ r.got \in Seq(MidiMessages)
    BY ReadingType DEF Readings
  <1>3. 0 \in T
    <2>1. s(0) = Unread(r.open)
      BY <1>1, ReadNone, Zenon
    <2>2. s(0).open = r.open /\ s(0).got = << >>
      BY <2>1 DEF Unread
    <2>3. ps \o << >> = ps /\ r.got \o << >> = r.got
      BY <1>2, ConcatEmptySeq
    <2>4. u(0) = r
      BY <1>1, <2>3, Zenon
    <2>5. 0 \in 0..n
      BY <1>1
    <2> HIDE DEF n, P, r, s, u
    <2>6. u(0).open = s(0).open /\ u(0).got = r.got \o s(0).got
      BY <2>2, <2>3, <2>4, Zenon
    <2> QED
      BY <2>5, <2>6, Zenon DEF T
  <1>4. ASSUME NEW k \in 0 .. n - 1, k \in T PROVE k + 1 \in T
    <2> DEFINE p == qs[k + 1]
    <2>1. P(k) \in Seq(Packets) /\ p \in Packets /\ P(k + 1) = Append(P(k), p)
      BY <1>1, PrefixGrows
    <2>2. \A a \in Seq(Packets), x \in BOOLEAN :
              /\ Reading(x, Append(a, p)) = Read(Reading(x, a), p)
              /\ Reading(x, a) \in Readings
      BY <2>1, ReadMore, ReadingType
    <2>3. ps \o P(k) \in Seq(Packets) /\ ps \o P(k + 1) = Append(ps \o P(k), p)
      BY <2>1, ConcatProperties, ConcatAppend
    <2> HIDE DEF p, P, r
    <2>4. s(k + 1) = Read(s(k), p) /\ u(k + 1) = Read(u(k), p) /\ s(k) \in Readings
      BY <1>2, <2>1, <2>2, <2>3, Zenon
    <2>5. u(k).open = s(k).open /\ u(k).got = r.got \o s(k).got
      BY <1>4
    <2>6. s(k).open \in BOOLEAN /\ s(k).got \in Seq(MidiMessages)
      BY <2>4 DEF Readings
    <2> HIDE DEF s, u
    <2> DEFINE d == Decode(s(k).open, p)
    <2>7. d \in Seq(MidiMessages)
      BY <2>1, <2>6, DecodeIs
    <2>8. /\ s(k + 1).open = OpenAfterPacket(s(k).open, p) /\ s(k + 1).got = s(k).got \o d
          /\ u(k + 1).open = OpenAfterPacket(s(k).open, p) /\ u(k + 1).got = u(k).got \o d
      <3>1. \A a : /\ Read(a, p).open = OpenAfterPacket(a.open, p)
                   /\ Read(a, p).got = a.got \o Decode(a.open, p)
        BY DEF Read
      <3> QED
        BY <2>4, <2>5, <3>1, Zenon
    <2> HIDE DEF d
    <2>9. (r.got \o s(k).got) \o d = r.got \o (s(k).got \o d)
      <3>1. Associates(MidiMessages)
        BY Regrouped
      <3> QED
        BY <1>2, <2>6, <2>7, <3>1, Zenon DEF Associates
    <2>10. u(k + 1).open = s(k + 1).open /\ u(k + 1).got = r.got \o s(k + 1).got
      BY <2>5, <2>8, <2>9, Zenon
    <2>11. k + 1 \in 0..n
      BY <1>1
    <2> QED
      BY <2>10, <2>11
  <1> HIDE DEF T, n, P, r, s, u
  <1>5. \A k \in 0..n : k \in T
    BY <1>1, <1>3, <1>4, SetInduction
  <1>6. n \in T
    BY <1>1, <1>5
  <1>7. u(n).open = s(n).open /\ u(n).got = r.got \o s(n).got
    BY <1>6, Zenon DEF T
  <1> QED
    BY <1>1, <1>7, Zenon DEF r, s, u
-----------------------------------------------------------------------------
(* What messages say, one after the other.                                 *)
LEMMA SaysNone == EventsOf(<< >>) = << >> /\ RealTimeOf(<< >>) = << >>
  <1>1. << >> \in Seq(MidiMessages)
    BY EmptySeq
  <1> QED
    BY <1>1, StreamsOf, NoneSays

LEMMA SaysOne ==
    ASSUME NEW m \in MidiMessages
    PROVE  EventsOf(<<m>>) = EventOf[m] /\ RealTimeOf(<<m>>) = RealOf[m]
  <1>1. <<m>> \in Seq(MidiMessages)
    OBVIOUS
  <1> QED
    BY <1>1, StreamsOf, OneSays

LEMMA SaysJoins ==
    ASSUME NEW s \in Seq(MidiMessages), NEW t \in Seq(MidiMessages)
    PROVE  /\ EventsOf(s) \in Seq(Nat) /\ RealTimeOf(s) \in Seq(MidiMessages)
           /\ EventsOf(s \o t) = EventsOf(s) \o EventsOf(t)
           /\ RealTimeOf(s \o t) = RealTimeOf(s) \o RealTimeOf(t)
  <1>1. s \o t \in Seq(MidiMessages)
    BY ConcatProperties
  <1>2. /\ EventsOf(s) = FlatMap(EventOf, s) /\ RealTimeOf(s) = FlatMap(RealOf, s)
        /\ EventsOf(t) = FlatMap(EventOf, t) /\ RealTimeOf(t) = FlatMap(RealOf, t)
        /\ EventsOf(s \o t) = FlatMap(EventOf, s \o t)
        /\ RealTimeOf(s \o t) = FlatMap(RealOf, s \o t)
    BY <1>1, StreamsOf
  <1>3. /\ FlatMap(EventOf, s) \in Seq(Nat) /\ FlatMap(RealOf, s) \in Seq(MidiMessages)
        /\ \A u \in Seq(MidiMessages) :
               /\ FlatMap(EventOf, s \o u) = FlatMap(EventOf, s) \o FlatMap(EventOf, u)
               /\ FlatMap(RealOf, s \o u) = FlatMap(RealOf, s) \o FlatMap(RealOf, u)
    BY MessageStreams
  <1> QED
    BY <1>2, <1>3, Zenon
-----------------------------------------------------------------------------
(* Bytes of a dump, with its start in front if it is not open yet.         *)
Clean(o, s) ==
    \A i \in 1..Len(s) : IF i = 1 /\ ~o THEN s[i] = SysExStart ELSE s[i] \in 0..127
Marks(s) == FlatMap(MarkOf, s)
Begun(o) == IF o THEN << >> ELSE <<StartMark>>
Ended(e) == IF e THEN <<EndMark>> ELSE << >>
First(o) == IF o THEN 1 ELSE 2

LEMMA MarkTypes ==
    ASSUME NEW o, NEW e
    PROVE  Begun(o) \in Seq(Nat) /\ Ended(e) \in Seq(Nat)
  <1>1. /\ << >> \in Seq(Nat) /\ <<StartMark>> \in Seq(Nat) /\ <<EndMark>> \in Seq(Nat)
    BY DEF StartMark, EndMark
  <1> QED
    BY <1>1 DEF Begun, Ended

LEMMA StartByte ==
    /\ SysExStart \in Bytes /\ Marks(<<SysExStart>>) = <<StartMark>>
    /\ <<SysExStart>> \in Seq(Bytes)
  <1>1. SysExStart \in Bytes /\ MarkOf[SysExStart] = <<StartMark>>
    BY DEF MarkOf, Mark, SysExStart, Bytes, IsSystemRealTime
  <1> QED
    BY <1>1, OneByte DEF Marks

LEMMA MarksJoin ==
    ASSUME NEW s \in Seq(Bytes), NEW t \in Seq(Bytes)
    PROVE  Marks(s) \in Seq(Nat) /\ Marks(s \o t) = Marks(s) \o Marks(t)
  <1>1. /\ FlatMap(MarkOf, s) \in Seq(Nat)
        /\ \A u \in Seq(Bytes) : FlatMap(MarkOf, s \o u) = FlatMap(MarkOf, s) \o FlatMap(MarkOf, u)
    BY ByteStreams
  <1> QED
    BY <1>1, Zenon DEF Marks

LEMMA CleanMarks ==
    ASSUME NEW o \in BOOLEAN, NEW s \in Seq(Bytes), Clean(o, s), o \/ s # << >>
    PROVE  /\ Marks(s) = Begun(o) \o SubSeq(s, First(o), Len(s))
           /\ SubSeq(s, First(o), Len(s)) \in Seq(Bytes)
           /\ SubSeq(s, First(o), Len(s)) \in Seq(Nat)
  <1> DEFINE n == Len(s)
             d == SubSeq(s, First(o), n)
  <1>1. n \in Nat /\ \A i \in 1..n : s[i] \in Bytes
    BY LenProperties, ElementOfSeq
  <1>2. CASE o
    <2>1. d = s
      BY <1>2, SubSeqFull DEF First
    <2>2. \A i \in 1..Len(s) : s[i] \in 0..127
      BY <1>2 DEF Clean
    <2>3. FlatMap(MarkOf, s) = s /\ s \in Seq(Nat)
      BY <2>2, DataStreams
    <2>4. << >> \o s = s
      BY ConcatEmptySeq
    <2> QED
      BY <1>2, <2>1, <2>3, <2>4 DEF Begun, Marks
  <1>3. CASE ~o
    <2>1. n # 0
      BY <1>3, EmptySeq
    <2>2. First(o) = 2
      BY <1>3 DEF First
    <2>3. /\ d \in Seq(Bytes) /\ Len(d) = n - 1
          /\ \A i \in 1 .. n - 1 : d[i] = s[i + 1]
      <3>1. \A i \in 2..n : s[i] \in Bytes
        BY <1>1
      <3>2. /\ SubSeq(s, 2, n) \in Seq(Bytes)
            /\ Len(SubSeq(s, 2, n)) = IF 2 <= n THEN n - 2 + 1 ELSE 0
            /\ \A i \in 1 .. n - 2 + 1 : SubSeq(s, 2, n)[i] = s[2 + i - 1]
        BY <1>1, <3>1, SubSeqProperties
      <3>3. 2 <= n \/ n = 1
        <4> HIDE DEF n
        <4> QED
          BY <1>1, <2>1
      <3>4. \A i \in 1 .. n - 1 : 2 + i - 1 = i + 1
        OBVIOUS
      <3>5. n - 2 + 1 = n - 1
        <4> HIDE DEF n
        <4> QED
          BY <1>1
      <3>6. \A i \in 1 .. n - 1 : SubSeq(s, 2, n)[i] = s[i + 1]
        BY <3>2, <3>4, <3>5
      <3>7. Len(SubSeq(s, 2, n)) = n - 1
        BY <3>2, <3>3, <3>5
      <3> QED
        BY <2>2, <3>2, <3>6, <3>7
    <2>4. \A i \in 1..Len(d) : d[i] \in 0..127
      <3> TAKE i \in 1..Len(d)
      <3>1. i \in 1 .. n - 1 /\ i + 1 \in 1..Len(s) /\ i + 1 # 1
        BY <1>1, <2>1, <2>3
      <3>2. s[i + 1] \in 0..127
        BY <3>1 DEF Clean
      <3> QED
        BY <2>3, <3>1, <3>2
    <2>5. FlatMap(MarkOf, d) = d /\ d \in Seq(Nat)
      <3> HIDE DEF d
      <3> QED
        BY <2>3, <2>4, DataStreams
    <2>6. s = <<SysExStart>> \o d
      <3>1. 1 \in 1..Len(s) /\ Len(s) \in 1..Len(s)
        BY <1>1, <2>1
      <3>2. s[1] = SysExStart
        BY <1>3, <3>1 DEF Clean
      <3>3. SubSeq(s, 1, Len(s)) = <<s[1]>> \o SubSeq(s, 1 + 1, Len(s))
        BY <3>1, SubSeqRecursiveFirst
      <3>4. SubSeq(s, 1, Len(s)) = s /\ 1 + 1 = 2
        BY SubSeqFull
      <3> QED
        BY <2>2, <3>2, <3>3, <3>4
    <2>7. Marks(s) = <<StartMark>> \o d
      <3> HIDE DEF d
      <3>1. Marks(<<SysExStart>> \o d) = Marks(<<SysExStart>>) \o Marks(d)
        BY <2>3, StartByte, MarksJoin
      <3> QED
        BY <2>5, <2>6, <3>1, StartByte DEF Marks
    <2> QED
      BY <1>3, <2>3, <2>5, <2>7 DEF Begun
  <1> QED
    BY <1>2, <1>3
-----------------------------------------------------------------------------
(* A packet of a dump is a chunk, and says so.                             *)
LEMMA ChunkRead ==
    ASSUME NEW o \in BOOLEAN, NEW p \in Packets, IsSysExCin(p.cin), ~IsShort(p),
           ~IsOrphan(o, p), Payload(o, p) \in Seq(Bytes)
    PROVE  /\ OpenAfterPacket(o, p) = (p.cin = SysExStarts)
           /\ EventsOf(Decode(o, p)) = (Begun(o) \o Payload(o, p)) \o Ended(p.cin # SysExStarts)
           /\ RealTimeOf(Decode(o, p)) = << >>
  <1> DEFINE m == ChunkMessage(Payload(o, p), ~o, p.cin # SysExStarts)
  <1>1. CinLength(p.cin) # 0
    BY DEF IsSysExCin, CinLength, SingleByte
  <1>2. Decode(o, p) = <<m>>
    BY <1>1 DEF Decode
  <1>3. m \in MidiMessages
    BY DEF ChunkMessage, MidiMessages, SysExStart, Bytes
  <1>4. m.chunk /\ m.start = ~o /\ m.end = (p.cin # SysExStarts) /\ m.data = Payload(o, p)
    BY DEF ChunkMessage
  <1> HIDE DEF m
  <1>5. <<m>> # << >> /\ <<m>>[1] = m
    OBVIOUS
  <1>6. OpenAfterPacket(o, p) = ~m.end
    BY <1>2, <1>4, <1>5 DEF OpenAfterPacket, OpenAfter
  <1>7. EventOf[m] = (Begun(o) \o Payload(o, p)) \o Ended(p.cin # SysExStarts)
        /\ RealOf[m] = << >>
    BY <1>3, <1>4 DEF EventOf, RealOf, Events, IsRealTime, Begun, Ended
  <1> QED
    BY <1>2, <1>3, <1>4, <1>6, <1>7, SaysOne

LEMMA GroupRead ==
    ASSUME NEW o \in BOOLEAN, NEW c \in Cables, NEW b \in Seq(Bytes), Len(b) = 3, Clean(o, b)
    PROVE  LET p == Packet(c, SysExStarts, b) IN
           /\ OpenAfterPacket(o, p) = TRUE
           /\ EventsOf(Decode(o, p)) = Marks(b) /\ RealTimeOf(Decode(o, p)) = << >>
  <1> DEFINE p == Packet(c, SysExStarts, b)
  <1>1. p \in Packets /\ p.bytes = b /\ p.cin = SysExStarts
    BY DEF Packet, Packets, SysExStarts
  <1>2. 1 \in 1..Len(b) /\ 3 \in 1..Len(b) /\ b # << >>
    OBVIOUS
  <1>3. b[3] \in 0..127 /\ (~o => b[1] = SysExStart)
    BY <1>2 DEF Clean
  <1>4. IsSysExCin(p.cin) /\ CinLength(p.cin) = 3 /\ p.cin # SysExEnds(1)
    BY <1>1 DEF SysExStarts, IsSysExCin, CinLength, SysExEnds, SingleByte
  <1>5. ~IsShort(p) /\ ~IsOrphan(o, p)
    BY <1>1, <1>3, <1>4 DEF IsShort, IsOrphan
  <1>6. /\ Marks(b) = Begun(o) \o SubSeq(b, First(o), Len(b))
        /\ SubSeq(b, First(o), Len(b)) \in Seq(Bytes)
        /\ SubSeq(b, First(o), Len(b)) \in Seq(Nat)
    BY <1>2, CleanMarks
  <1>7. Payload(o, p) = SubSeq(b, First(o), Len(b))
    <2> HIDE DEF p
    <2>1. First(o) <= 3 /\ b[3] # SysExEnd
      <3>1. \A x \in 0..127 : x # SysExEnd
        BY DEF SysExEnd
      <3> QED
        BY <1>3, <3>1 DEF First
    <2> QED
      BY <1>1, <1>4, <2>1 DEF Payload, First
  <1>8. /\ OpenAfterPacket(o, p) = (p.cin = SysExStarts)
        /\ EventsOf(Decode(o, p)) = (Begun(o) \o Payload(o, p)) \o Ended(p.cin # SysExStarts)
        /\ RealTimeOf(Decode(o, p)) = << >>
    BY <1>1, <1>4, <1>5, <1>6, <1>7, ChunkRead
  <1>9. Marks(b) \o << >> = Marks(b) /\ Ended(p.cin # SysExStarts) = << >>
    <2>1. Marks(b) \in Seq(Nat)
      BY MarksJoin
    <2> QED
      BY <1>1, <2>1, ConcatEmptySeq DEF Ended
  <1> HIDE DEF p
  <1>10. EventsOf(Decode(o, p)) = Marks(b)
    BY <1>6, <1>7, <1>8, <1>9, Zenon
  <1> QED
    BY <1>1, <1>8, <1>10 DEF p

LEMMA EndRead ==
    ASSUME NEW o \in BOOLEAN, NEW c \in Cables, NEW rest \in Seq(Bytes), Len(rest) <= 2,
           Clean(o, rest), o \/ rest # << >>
    PROVE  LET p == EndPacket(c, rest)[1] IN
           /\ EndPacket(c, rest) = <<p>> /\ p \in Packets
           /\ OpenAfterPacket(o, p) = FALSE
           /\ EventsOf(Decode(o, p)) = Marks(rest) \o <<EndMark>>
           /\ RealTimeOf(Decode(o, p)) = << >>
  <1> DEFINE n == Len(rest)
             long == rest \o <<SysExEnd, 0, 0>>
             b == SubSeq(long, 1, 3)
             p == Packet(c, SysExEnds(n + 1), b)
  <1>1. n \in 0..2
    <2>1. n \in Nat /\ n <= 2
      BY LenProperties
    <2> HIDE DEF n
    <2> QED
      BY <2>1
  <1>2. <<SysExEnd, 0, 0>> \in Seq(Bytes) /\ Len(<<SysExEnd, 0, 0>>) = 3
    BY DEF SysExEnd, Bytes
  <1>3. /\ long \in Seq(Bytes) /\ Len(long) = n + 3
        /\ \A i \in 1..n : long[i] = rest[i]
        /\ long[n + 1] = SysExEnd
    <2>1. /\ long \in Seq(Bytes) /\ Len(long) = n + 3
          /\ \A i \in 1 .. n + 3 : long[i] = IF i <= n THEN rest[i]
                                             ELSE <<SysExEnd, 0, 0>>[i - n]
      BY <1>2, ConcatProperties
    <2>2. n + 1 \in 1 .. n + 3 /\ ~(n + 1 <= n) /\ (n + 1) - n = 1
      BY <1>1
    <2>3. <<SysExEnd, 0, 0>>[1] = SysExEnd
      OBVIOUS
    <2> QED
      BY <1>1, <2>1, <2>2, <2>3
  <1> HIDE DEF long
  <1>4. /\ b \in {x \in Seq(Bytes) : Len(x) = 3} /\ Len(b) = 3
        /\ \A i \in 1..3 : b[i] = long[i]
    <2>1. \A i \in 1..3 : long[i] \in Bytes
      BY <1>1, <1>3, ElementOfSeq
    <2> QED
      BY <2>1, SubSeqProperties
  <1> HIDE DEF b
  <1>5. b[n + 1] = SysExEnd /\ \A i \in 1..n : b[i] = rest[i]
    BY <1>1, <1>3, <1>4
  <1>6. /\ p \in Packets /\ p.bytes = b /\ p.cin = 5 + n
    BY <1>1, <1>4 DEF Packet, Packets, SysExEnds
  <1>7. EndPacket(c, rest) = <<p>> /\ <<p>>[1] = p
    BY DEF EndPacket, p, b, long
  <1> HIDE DEF p
  <1>8. IsSysExCin(p.cin) /\ CinLength(p.cin) = n + 1
    BY <1>1, <1>6 DEF IsSysExCin, CinLength, SingleByte
  <1>9. ~IsShort(p) /\ ~IsOrphan(o, p)
    <2>1. p.cin = SysExEnds(1) => b[1] = SysExEnd
      BY <1>1, <1>5, <1>6 DEF SysExEnds
    <2>2. ~o => b[1] = SysExStart
      <3>1. ~o => n # 0
        BY EmptySeq
      <3>2. ~o => 1 \in 1..Len(rest) /\ rest[1] = SysExStart
        BY <1>1, <3>1 DEF Clean
      <3> QED
        BY <1>5, <3>2
    <2> QED
      BY <1>6, <1>8, <2>1, <2>2 DEF IsShort, IsOrphan
  <1>10. /\ Marks(rest) = Begun(o) \o SubSeq(rest, First(o), n)
         /\ SubSeq(rest, First(o), n) \in Seq(Bytes)
         /\ SubSeq(rest, First(o), n) \in Seq(Nat)
    BY CleanMarks
  <1>11. Payload(o, p) = SubSeq(rest, First(o), n)
    <2>1. First(o) \in 1..2 /\ First(o) <= n + 1
      <3>1. ~o => n # 0
        BY EmptySeq
      <3> QED
        BY <1>1, <3>1 DEF First
    <2>2. Payload(o, p) = SubSeq(b, First(o), n)
      <3>1. (n + 1) - 1 = n
        BY <1>1
      <3> QED
        BY <1>5, <1>6, <1>8, <2>1, <3>1 DEF Payload, First
    <2>3. \A i \in First(o)..n : b[i] \in Bytes /\ rest[i] \in Bytes /\ b[i] = rest[i]
      <3>1. \A i \in 1..n : rest[i] \in Bytes
        BY ElementOfSeq
      <3> QED
        BY <1>1, <1>5, <2>1, <3>1
    <2>4. /\ SubSeq(b, First(o), n) \in Seq(Bytes) /\ SubSeq(rest, First(o), n) \in Seq(Bytes)
          /\ Len(SubSeq(b, First(o), n)) = IF First(o) <= n THEN n - First(o) + 1 ELSE 0
          /\ Len(SubSeq(rest, First(o), n)) = IF First(o) <= n THEN n - First(o) + 1 ELSE 0
          /\ \A i \in 1 .. n - First(o) + 1 :
                 /\ SubSeq(b, First(o), n)[i] = b[First(o) + i - 1]
                 /\ SubSeq(rest, First(o), n)[i] = rest[First(o) + i - 1]
      <3>1. First(o) \in Int /\ n \in Int
        BY <1>1, <2>1
      <3> HIDE DEF n
      <3> QED
        BY <2>3, <3>1, SubSeqProperties
    <2>5. \A i \in 1..Len(SubSeq(b, First(o), n)) :
              SubSeq(b, First(o), n)[i] = SubSeq(rest, First(o), n)[i]
      <3> TAKE i \in 1..Len(SubSeq(b, First(o), n))
      <3>1. i \in 1 .. n - First(o) + 1
        <4>1. CASE First(o) <= n
          BY <2>4, <4>1
        <4>2. CASE ~(First(o) <= n)
          BY <2>4, <4>2
        <4> QED
          BY <4>1, <4>2
      <3> HIDE DEF n
      <3>2. First(o) + i - 1 \in First(o)..n
        <4>1. \A f \in 1..2, k \in 0..2 : \A j \in 1 .. k - f + 1 : f + j - 1 \in f..k
          OBVIOUS
        <4> QED
          BY <1>1, <2>1, <3>1, <4>1, Zenon
      <3> QED
        BY <2>3, <2>4, <3>1, <3>2
    <2> QED
      BY <2>2, <2>4, <2>5, SeqEqual
  <1>12. p.cin # SysExStarts
    BY <1>1, <1>6 DEF SysExStarts
  <1>13. /\ OpenAfterPacket(o, p) = (p.cin = SysExStarts)
         /\ EventsOf(Decode(o, p)) = (Begun(o) \o Payload(o, p)) \o Ended(p.cin # SysExStarts)
         /\ RealTimeOf(Decode(o, p)) = << >>
    BY <1>6, <1>8, <1>9, <1>10, <1>11, ChunkRead
  <1>14. EventsOf(Decode(o, p)) = Marks(rest) \o <<EndMark>>
    <2>1. Ended(p.cin # SysExStarts) = <<EndMark>>
      BY <1>12 DEF Ended
    <2> QED
      BY <1>10, <1>11, <1>13, <2>1, Zenon
  <1>15. OpenAfterPacket(o, p) = FALSE
    BY <1>12, <1>13
  <1> QED
    BY <1>6, <1>7, <1>13, <1>14, <1>15
-----------------------------------------------------------------------------
LEMMA CleanPart ==
    ASSUME NEW o \in BOOLEAN, NEW s \in Seq(Bytes), Clean(o, s),
           NEW i \in 0..Len(s), NEW j \in i..Len(s)
    PROVE  /\ SubSeq(s, i + 1, j) \in Seq(Bytes) /\ Len(SubSeq(s, i + 1, j)) = j - i
           /\ Clean(o \/ i # 0, SubSeq(s, i + 1, j))
           /\ SubSeq(s, 1, i) \in Seq(Bytes) /\ SubSeq(s, 1, j) \in Seq(Bytes)
           /\ SubSeq(s, 1, j) = SubSeq(s, 1, i) \o SubSeq(s, i + 1, j)
  <1> DEFINE n == Len(s)
             t == SubSeq(s, i + 1, j)
  <1>1. n \in Nat /\ i \in 0..n /\ j \in i..n /\ \A k \in 1..n : s[k] \in Bytes
    BY LenProperties, ElementOfSeq
  <1>2. \A a, b \in 0..n : SubSeq(s, 1, a) \in Seq(Bytes)
    <2> TAKE a, b \in 0..n
    <2>1. \A k \in 1..a : s[k] \in Bytes
      BY <1>1
    <2> QED
      BY <2>1, SubSeqProperties
  <1>3. t \in Seq(Bytes) /\ Len(t) = j - i /\ \A k \in 1 .. j - i : t[k] = s[i + k]
    <2> HIDE DEF n
    <2>1. \A k \in i + 1 .. j : s[k] \in Bytes
      BY <1>1
    <2>2. i + 1 \in Int /\ j \in Int
      BY <1>1
    <2>3. /\ t \in Seq(Bytes) /\ Len(t) = IF i + 1 <= j THEN j - (i + 1) + 1 ELSE 0
          /\ \A k \in 1 .. j - (i + 1) + 1 : t[k] = s[(i + 1) + k - 1]
      BY <2>1, <2>2, SubSeqProperties
    <2>4. j - (i + 1) + 1 = j - i /\ ~(i + 1 <= j) => j - i = 0
      BY <1>1
    <2>5. \A k \in 1 .. j - i : (i + 1) + k - 1 = i + k
      BY <1>1
    <2> HIDE DEF t
    <2>6. j - (i + 1) + 1 = j - i /\ (~(i + 1 <= j) => j - i = 0)
      BY <1>1
    <2> QED
      BY <2>3, <2>5, <2>6
  <1> HIDE DEF t
  <1>4. Clean(o \/ i # 0, t)
    <2> SUFFICES ASSUME NEW k \in 1..Len(t)
                 PROVE  IF k = 1 /\ ~(o \/ i # 0) THEN t[k] = SysExStart ELSE t[k] \in 0..127
      BY DEF Clean
    <2> HIDE DEF n
    <2>1. k \in 1 .. j - i /\ i + k \in 1..n /\ t[k] = s[i + k]
      BY <1>1, <1>3
    <2>2. i + k = 1 <=> i = 0 /\ k = 1
      BY <1>1, <2>1
    <2>3. IF i + k = 1 /\ ~o THEN s[i + k] = SysExStart ELSE s[i + k] \in 0..127
      BY <2>1 DEF Clean, n
    <2> QED
      BY <2>1, <2>2, <2>3
  <1>5. SubSeq(s, 1, j) = SubSeq(s, 1, i) \o SubSeq(s, i + 1, j)
    <2>1. 1 \in 1 .. Len(s) + 1 /\ i \in 1 - 1 .. Len(s) /\ j \in i..Len(s)
      BY <1>1
    <2> QED
      BY <2>1, ConcatAdjacentSubSeq
  <1> QED
    BY <1>1, <1>2, <1>3, <1>4, <1>5 DEF t

(* The groups of three that a line of a dump is cut into.                  *)
LEMMA GroupsRead ==
    ASSUME NEW o \in BOOLEAN, NEW c \in Cables, NEW line \in Seq(Bytes), Clean(o, line),
           Groups(c, line) \in Seq(Packets)
    PROVE  LET q == Len(line) \div 3
               r == Reading(o, Groups(c, line)) IN
           /\ r.open = (o \/ q # 0)
           /\ EventsOf(r.got) = Marks(SubSeq(line, 1, 3 * q))
           /\ RealTimeOf(r.got) = << >>
  <1> DEFINE n == Len(line)
             q == n \div 3
             g == Groups(c, line)
             G(k) == SubSeq(g, 1, k)
             r(k) == Reading(o, G(k))
             T == {k \in 0..q : /\ r(k).open = (o \/ k # 0)
                                /\ EventsOf(r(k).got) = Marks(SubSeq(line, 1, 3 * k))
                                /\ RealTimeOf(r(k).got) = << >>}
  <1>1. n \in Nat /\ q \in Nat /\ 3 * q <= n
    <2>1. n \in Nat
      BY LenProperties
    <2>2. \A x \in Nat : x \div 3 \in Nat /\ 3 * (x \div 3) <= x
      OBVIOUS
    <2> HIDE DEF n
    <2> QED
      BY <2>1, <2>2
  <1> DEFINE b(k) == SubSeq(line, 3 * k + 1, 3 * k + 3)
  <1>2. \A k \in 0 .. q - 1 : 3 * (k + 1) - 2 = 3 * k + 1 /\ 3 * (k + 1) = 3 * k + 3
    <2> HIDE DEF q
    <2> QED
      BY <1>1
  <1>3. Len(g) = q /\ \A k \in 0 .. q - 1 : g[k + 1] = Packet(c, SysExStarts, b(k))
    <2> HIDE DEF q
    <2>1. g = [i \in 1..q |-> Packet(c, SysExStarts, SubSeq(line, 3 * i - 2, 3 * i))]
      BY DEF Groups, q
    <2>2. Len(g) = q
      BY <1>1, <2>1
    <2>3. \A k \in 0 .. q - 1 : k + 1 \in 1..q
      BY <1>1
    <2>4. \A k \in 0 .. q - 1 :
              g[k + 1] = Packet(c, SysExStarts, SubSeq(line, 3 * (k + 1) - 2, 3 * (k + 1)))
      BY <2>1, <2>3
    <2> QED
      BY <1>2, <2>2, <2>4
  <1>4. g \in Seq(Packets) /\ G(q) = g /\ G(0) = << >>
    BY <1>1, <1>3, SubSeqFull, SubSeqEmpty
  <1> HIDE DEF n, q, g
  <1>5. 0 \in T
    <2>1. r(0) = Unread(o)
      BY <1>4, ReadNone, Zenon
    <2>2. r(0).open = o /\ r(0).got = << >>
      BY <2>1 DEF Unread
    <2>3. SubSeq(line, 1, 3 * 0) = << >> /\ Marks(<< >>) = << >>
      BY SubSeqEmpty, FlatMapEmpty DEF Marks
    <2>4. 0 \in 0..q
      BY <1>1
    <2> HIDE DEF r
    <2>5. r(0).open = (o \/ 0 # 0)
      BY <2>2
    <2> QED
      BY <2>2, <2>3, <2>4, <2>5, SaysNone
  <1>6. ASSUME NEW k \in 0 .. q - 1, k \in T PROVE k + 1 \in T
    <2> DEFINE p == Packet(c, SysExStarts, b(k))
    <2>1. G(k) \in Seq(Packets) /\ p \in Packets /\ G(k + 1) = Append(G(k), p)
      <3>1. g \in Seq(Packets) /\ k \in 0 .. Len(g) - 1
        BY <1>3, <1>4
      <3>2. /\ G(k) \in Seq(Packets) /\ G(k + 1) = Append(G(k), g[k + 1])
            /\ g[k + 1] \in Packets
        BY <3>1, PrefixGrows
      <3> QED
        BY <1>3, <3>2
    <2>2. r(k + 1) = Read(r(k), p) /\ r(k) \in Readings
      <3>1. \A a \in Seq(Packets), x \in Packets :
                /\ Reading(o, Append(a, x)) = Read(Reading(o, a), x)
                /\ Reading(o, a) \in Readings
        BY ReadMore, ReadingType
      <3> HIDE DEF p, G
      <3> QED
        BY <2>1, <3>1, Zenon
    <2> DEFINE w == o \/ k # 0
    <2>3. /\ r(k).open = w /\ EventsOf(r(k).got) = Marks(SubSeq(line, 1, 3 * k))
          /\ RealTimeOf(r(k).got) = << >>
      BY <1>6
    <2>4. 3 * k \in 0..Len(line) /\ 3 * k + 3 \in 3 * k .. Len(line) /\ (3 * k # 0 <=> k # 0)
          /\ (3 * k + 3) - 3 * k = 3
      BY <1>1 DEF n
    <2>5. /\ b(k) \in Seq(Bytes) /\ Len(b(k)) = 3 /\ Clean(w, b(k))
          /\ SubSeq(line, 1, 3 * k) \in Seq(Bytes)
          /\ SubSeq(line, 1, 3 * k + 3) = SubSeq(line, 1, 3 * k) \o b(k)
      <3>1. \A i \in 0..Len(line) : \A j \in i..Len(line) :
                /\ SubSeq(line, i + 1, j) \in Seq(Bytes) /\ Len(SubSeq(line, i + 1, j)) = j - i
                /\ Clean(o \/ i # 0, SubSeq(line, i + 1, j))
                /\ SubSeq(line, 1, i) \in Seq(Bytes)
                /\ SubSeq(line, 1, j) = SubSeq(line, 1, i) \o SubSeq(line, i + 1, j)
        BY CleanPart
      <3>2. /\ SubSeq(line, 3 * k + 1, 3 * k + 3) \in Seq(Bytes)
            /\ Len(SubSeq(line, 3 * k + 1, 3 * k + 3)) = (3 * k + 3) - 3 * k
            /\ Clean(o \/ 3 * k # 0, SubSeq(line, 3 * k + 1, 3 * k + 3))
            /\ SubSeq(line, 1, 3 * k) \in Seq(Bytes)
            /\ SubSeq(line, 1, 3 * k + 3)
                   = SubSeq(line, 1, 3 * k) \o SubSeq(line, 3 * k + 1, 3 * k + 3)
        BY <2>4, <3>1
      <3>3. (o \/ 3 * k # 0) = w
        BY <2>4
      <3> QED
        BY <2>4, <3>2, <3>3
    <2> HIDE DEF b, r
    <2>6. /\ OpenAfterPacket(w, p) = TRUE
          /\ EventsOf(Decode(w, p)) = Marks(b(k)) /\ RealTimeOf(Decode(w, p)) = << >>
      <3>1. w \in BOOLEAN
        OBVIOUS
      <3> HIDE DEF w
      <3> QED
        BY <2>5, <3>1, GroupRead
    <2>7. Decode(w, p) \in Seq(MidiMessages) /\ r(k).got \in Seq(MidiMessages)
      <3>1. w \in BOOLEAN
        OBVIOUS
      <3> HIDE DEF w, p
      <3> QED
        BY <2>1, <2>2, <3>1, DecodeIs DEF Readings
    <2> HIDE DEF p, w
    <2>8. r(k + 1).open = TRUE /\ r(k + 1).got = r(k).got \o Decode(w, p)
      BY <2>2, <2>3, <2>6 DEF Read
    <2>9. /\ EventsOf(r(k + 1).got) = Marks(SubSeq(line, 1, 3 * k)) \o Marks(b(k))
          /\ RealTimeOf(r(k + 1).got) = << >> \o << >>
      <3>1. \A s, t \in Seq(MidiMessages) :
                /\ EventsOf(s \o t) = EventsOf(s) \o EventsOf(t)
                /\ RealTimeOf(s \o t) = RealTimeOf(s) \o RealTimeOf(t)
        BY SaysJoins
      <3>2. /\ EventsOf(r(k).got \o Decode(w, p)) = EventsOf(r(k).got) \o EventsOf(Decode(w, p))
            /\ RealTimeOf(r(k).got \o Decode(w, p))
                   = RealTimeOf(r(k).got) \o RealTimeOf(Decode(w, p))
        BY <2>7, <3>1, Zenon
      <3> QED
        BY <2>3, <2>6, <2>8, <3>2
    <2>10. Marks(SubSeq(line, 1, 3 * k)) \o Marks(b(k)) = Marks(SubSeq(line, 1, 3 * k + 3))
      BY <2>5, MarksJoin
    <2>11. 3 * (k + 1) = 3 * k + 3 /\ k + 1 \in 0..q /\ k + 1 # 0
      BY <1>1
    <2>12. << >> \o << >> = << >>
      OBVIOUS
    <2>13. /\ r(k + 1).open = (o \/ k + 1 # 0)
           /\ EventsOf(r(k + 1).got) = Marks(SubSeq(line, 1, 3 * (k + 1)))
           /\ RealTimeOf(r(k + 1).got) = << >>
      BY <2>8, <2>9, <2>10, <2>11, <2>12
    <2> QED
      BY <2>11, <2>13
  <1> HIDE DEF T, G, r
  <1>7. \A k \in 0..q : k \in T
    BY <1>1, <1>5, <1>6, SetInduction
  <1>8. q \in T
    BY <1>1, <1>7
  <1>9. /\ r(q).open = (o \/ q # 0)
        /\ EventsOf(r(q).got) = Marks(SubSeq(line, 1, 3 * q))
        /\ RealTimeOf(r(q).got) = << >>
    BY <1>8 DEF T
  <1>10. r(q) = Reading(o, Groups(c, line))
    BY <1>4, Zenon DEF r, g
  <1> QED
    BY <1>9, <1>10, Zenon DEF q, n
-----------------------------------------------------------------------------
(* A packet that comes first, and packets behind others.                   *)
LEMMA ReadOne ==
    ASSUME NEW o \in BOOLEAN, NEW p \in Packets
    PROVE  /\ Reading(o, <<p>>).open = OpenAfterPacket(o, p)
           /\ Reading(o, <<p>>).got = Decode(o, p)
  <1>1. << >> \in Seq(Packets) /\ Append(<< >>, p) = <<p>>
    BY SmallSeqs
  <1>2. Reading(o, <<p>>) = Read(Unread(o), p)
    <2>1. \A s \in Seq(Packets) : Reading(o, Append(s, p)) = Read(Reading(o, s), p)
      BY ReadMore
    <2> QED
      BY <1>1, <2>1, ReadNone, Zenon
  <1>3. Decode(o, p) \in Seq(MidiMessages)
    BY DecodeIs
  <1>4. << >> \o Decode(o, p) = Decode(o, p)
    BY <1>3, ConcatEmptySeq
  <1> QED
    BY <1>2, <1>4 DEF Read, Unread

(* A short message survives its packet.                                    *)
LEMMA ShortRead ==
    ASSUME NEW o \in BOOLEAN, NEW c \in Cables, NEW m \in MidiMessages, IsComplete(m), ~m.chunk
    PROVE  LET p == EncodeShort(c, m)[1] IN
           /\ EncodeShort(c, m) = <<p>> /\ p \in Packets
           /\ Decode(o, p) = <<m>> /\ OpenAfterPacket(o, p) = o
  <1> DEFINE n == Len(m.data)
             head == <<m.status>> \o m.data
             long == head \o <<0, 0>>
             b == SubSeq(long, 1, 3)
             p == Packet(c, CinForStatus(m.status), b)
  <1>1. /\ m.status \in Bytes /\ m.data \in Seq(Bytes) /\ HasFixedLength(m.status)
        /\ n = DataLength(m.status) /\ m = ShortMessage(m.status, m.data)
        /\ m \in MidiMessages
    BY DEF IsComplete, MidiMessages
  <1>2. n \in 0..2
    BY <1>1 DEF DataLength
  <1>3. /\ <<m.status>> \in Seq(Bytes) /\ Len(<<m.status>>) = 1 /\ <<m.status>>[1] = m.status
        /\ <<0, 0>> \in Seq(Bytes) /\ Len(<<0, 0>>) = 2
    BY <1>1 DEF Bytes
  <1>4. /\ head \in Seq(Bytes) /\ Len(head) = 1 + n
        /\ \A i \in 1 .. 1 + n : head[i] = IF i <= 1 THEN <<m.status>>[i] ELSE m.data[i - 1]
    <2> HIDE DEF head
    <2>1. /\ head \in Seq(Bytes) /\ Len(head) = Len(<<m.status>>) + Len(m.data)
          /\ \A i \in 1 .. Len(<<m.status>>) + Len(m.data) :
                 head[i] = IF i <= Len(<<m.status>>) THEN <<m.status>>[i]
                           ELSE m.data[i - Len(<<m.status>>)]
      BY <1>1, <1>3, ConcatProperties DEF head
    <2> QED
      BY <1>3, <2>1
  <1>5. head[1] = m.status /\ \A i \in 1..n : head[i + 1] = m.data[i]
    <2> HIDE DEF head, n
    <2>1. 1 \in 1 .. 1 + n
      BY <1>2
    <2>2. \A i \in 1..n : i + 1 \in 1 .. 1 + n /\ ~(i + 1 <= 1) /\ (i + 1) - 1 = i
      BY <1>2
    <2> QED
      BY <1>3, <1>4, <2>1, <2>2
  <1> HIDE DEF head
  <1>6. /\ long \in Seq(Bytes) /\ Len(long) = n + 3
        /\ \A i \in 1 .. 1 + n : long[i] = head[i]
    <2> HIDE DEF long, n
    <2>1. /\ long \in Seq(Bytes) /\ Len(long) = Len(head) + Len(<<0, 0>>)
          /\ \A i \in 1 .. Len(head) + Len(<<0, 0>>) :
                 long[i] = IF i <= Len(head) THEN head[i] ELSE <<0, 0>>[i - Len(head)]
      BY <1>3, <1>4, ConcatProperties DEF long
    <2> QED
      BY <1>2, <1>3, <1>4, <2>1
  <1> HIDE DEF long
  <1>7. /\ b \in {x \in Seq(Bytes) : Len(x) = 3} /\ \A i \in 1..3 : b[i] = long[i]
    <2> HIDE DEF n
    <2>1. \A i \in 1..3 : long[i] \in Bytes
      BY <1>2, <1>6, ElementOfSeq
    <2> QED
      BY <2>1, SubSeqProperties
  <1> HIDE DEF b
  <1>8. b[1] = m.status /\ \A i \in 1..n : b[i + 1] = m.data[i]
    <2> HIDE DEF n
    <2>1. 1 \in 1..3 /\ 1 \in 1 .. 1 + n /\ \A i \in 1..n : i + 1 \in 1..3 /\ i + 1 \in 1 .. 1 + n
      BY <1>2
    <2> QED
      BY <1>5, <1>6, <1>7, <2>1
  <1>9. /\ CinForStatus(m.status) \in {2, 3, 5, 15} \cup 8..14
        /\ CinForStatus(m.status) = 5 => m.status = 246
    <2>1. \A x \in 128..239 : x \div 16 \in 8..14
      OBVIOUS
    <2>2. m.status \in 128..255
      <3>1. \A x \in Bytes : HasFixedLength(x) => x \in 128..255
        BY DEF HasFixedLength, IsStatusByte, Bytes
      <3> QED
        BY <1>1, <3>1, Zenon
    <2>3. CASE m.status \in 128..239
      <3>1. CinForStatus(m.status) = m.status \div 16
        BY <2>3 DEF CinForStatus, IsChannelVoice
      <3> QED
        BY <2>1, <2>3, <3>1
    <2>4. CASE m.status \in 240..255
      <3>1. ~IsChannelVoice(m.status)
        BY <2>4 DEF IsChannelVoice
      <3> QED
        BY <3>1 DEF CinForStatus, SingleByte
    <2> QED
      BY <2>2, <2>3, <2>4
  <1>10. p \in Packets /\ p.bytes = b /\ p.cin = CinForStatus(m.status)
    <2>1. CinForStatus(m.status) \in Nat
      BY <1>9
    <2> QED
      BY <1>7, <2>1 DEF Packet, Packets
  <1>11. EncodeShort(c, m) = <<p>> /\ <<p>>[1] = p
    BY DEF EncodeShort, p, b, long, head
  <1> HIDE DEF p
  <1>12. CinLength(p.cin) # 0 /\ IsShort(p)
    BY <1>8, <1>9, <1>10 DEF CinLength, SingleByte, IsShort, IsSysExCin, SysExEnds, SysExEnd
  <1>13. SubSeq(b, 2, 1 + n) = m.data
    <2> HIDE DEF n
    <2>1. \A i \in 1..n : m.data[i] \in Bytes
      BY <1>1, ElementOfSeq DEF n
    <2>2. \A i \in 2 .. 1 + n : b[i] \in Bytes
      <3> TAKE i \in 2 .. 1 + n
      <3>1. i - 1 \in 1..n /\ (i - 1) + 1 = i
        BY <1>2
      <3> QED
        BY <1>8, <2>1, <3>1
    <2> DEFINE t == SubSeq(b, 2, 1 + n)
    <2>3. /\ t \in Seq(Bytes) /\ Len(t) = IF 2 <= 1 + n THEN (1 + n) - 2 + 1 ELSE 0
          /\ \A i \in 1 .. (1 + n) - 2 + 1 : t[i] = b[2 + i - 1]
      <3>1. 1 + n \in Int /\ 2 \in Int
        BY <1>2
      <3> HIDE DEF t
      <3> QED
        BY <2>2, <3>1, SubSeqProperties DEF t
    <2> HIDE DEF t
    <2>4. Len(t) = n /\ (1 + n) - 2 + 1 = n /\ \A i \in 1..n : 2 + i - 1 = i + 1
      BY <1>2, <2>3
    <2>5. \A i \in 1..n : t[i] = m.data[i]
      BY <1>8, <2>3, <2>4
    <2>6. t = m.data
      BY <1>1, <2>3, <2>4, <2>5, SeqEqual DEF n
    <2> QED
      BY <2>6 DEF t
  <1>14. Decode(o, p) = <<m>>
    <2>1. ShortMessage(p.bytes[1], SubSeq(p.bytes, 2, 1 + DataLength(p.bytes[1]))) = m
      BY <1>1, <1>8, <1>10, <1>13
    <2> QED
      BY <1>1, <1>8, <1>10, <1>12, <2>1 DEF Decode, DecodeShort
  <1>15. OpenAfterPacket(o, p) = o
    <2>1. <<m>> # << >> /\ <<m>>[1] = m
      OBVIOUS
    <2> QED
      BY <1>14, <2>1 DEF OpenAfterPacket, OpenAfter
  <1> QED
    BY <1>10, <1>11, <1>14, <1>15
-----------------------------------------------------------------------------
(* An encoder and a decoder that agree: what the encoder holds begins the  *)
(* dump, if the decoder does not know of it yet.                           *)
Synced(enc, o) ==
    /\ enc.inSysEx => Clean(o, enc.pending) /\ (o \/ enc.pending # << >>)
    /\ ~enc.inSysEx => enc.pending = << >> /\ ~o

LEMMA CleanJoins ==
    ASSUME NEW o \in BOOLEAN, NEW s \in Seq(Bytes), Clean(o, s), o \/ s # << >>,
           NEW d \in Seq(Bytes), \A i \in 1..Len(d) : IsDataByte(d[i])
    PROVE  Clean(o, s \o d) /\ s \o d \in Seq(Bytes) /\ (o \/ s \o d # << >>)
  <1>1. /\ s \o d \in Seq(Bytes) /\ Len(s \o d) = Len(s) + Len(d)
        /\ \A i \in 1 .. Len(s) + Len(d) :
               (s \o d)[i] = IF i <= Len(s) THEN s[i] ELSE d[i - Len(s)]
    BY ConcatProperties
  <1>2. Len(s) \in Nat /\ Len(d) \in Nat /\ (~o => Len(s) # 0)
    BY LenProperties, EmptySeq
  <1>3. ASSUME NEW i \in 1..Len(s \o d)
        PROVE  IF i = 1 /\ ~o THEN (s \o d)[i] = SysExStart ELSE (s \o d)[i] \in 0..127
    <2>1. CASE i <= Len(s)
      <3>1. i \in 1..Len(s) /\ (s \o d)[i] = s[i]
        BY <1>1, <1>2, <2>1
      <3> QED
        BY <3>1 DEF Clean
    <2>2. CASE ~(i <= Len(s))
      <3>1. i - Len(s) \in 1..Len(d) /\ (s \o d)[i] = d[i - Len(s)] /\ ~(i = 1 /\ ~o)
        BY <1>1, <1>2, <2>2
      <3>2. d[i - Len(s)] \in Bytes /\ d[i - Len(s)] < 128
        BY <3>1, ElementOfSeq DEF IsDataByte
      <3>3. \A x \in Bytes : x < 128 => x \in 0..127
        BY DEF Bytes
      <3>4. (s \o d)[i] \in 0..127
        BY <3>1, <3>2, <3>3
      <3> QED
        BY <3>1, <3>4
    <2> QED
      BY <2>1, <2>2
  <1>4. o \/ s \o d # << >>
    <2>1. Len(<< >>) = 0
      OBVIOUS
    <2>2. ~o => Len(s \o d) # 0
      BY <1>1, <1>2
    <2> QED
      BY <2>1, <2>2
  <1> QED
    BY <1>1, <1>3, <1>4 DEF Clean

(* The line of a chunk: what is pending, and what the chunk says.          *)
LEMMA LineIs ==
    ASSUME NEW o \in BOOLEAN, NEW enc \in Encoders, NEW m \in MidiMessages,
           m.chunk, IsComplete(m), Fits(enc.inSysEx, m), Synced(enc, o)
    PROVE  /\ Line(enc, m) \in Seq(Bytes) /\ Clean(o, Line(enc, m))
           /\ o \/ Line(enc, m) # << >>
           /\ Marks(Line(enc, m)) \o Ended(m.end) = Marks(enc.pending) \o EventOf[m]
           /\ RealOf[m] = << >> /\ Encodable(enc, m)
  <1>1. /\ m.data \in Seq(Bytes) /\ m.start \in BOOLEAN
        /\ enc.pending \in Seq(Bytes) /\ enc.inSysEx \in BOOLEAN
    BY DEF MidiMessages, Encoders
  <1>2. \A i \in 1..Len(m.data) : IsDataByte(m.data[i])
    BY DEF IsComplete
  <1>3. m.start = ~enc.inSysEx /\ Encodable(enc, m)
    BY <1>1 DEF Fits, Encodable
  <1>4. Marks(m.data) = m.data /\ m.data \in Seq(Nat)
    <2>1. \A i \in 1..Len(m.data) : m.data[i] \in 0..127
      <3> TAKE i \in 1..Len(m.data)
      <3>1. m.data[i] \in Bytes /\ m.data[i] < 128
        BY <1>1, <1>2, ElementOfSeq DEF IsDataByte
      <3>2. \A x \in Bytes : x < 128 => x \in 0..127
        BY DEF Bytes
      <3> QED
        BY <3>1, <3>2
    <2> QED
      BY <1>1, <2>1, DataStreams DEF Marks
  <1>5. Ended(m.end) \in Seq(Nat) /\ Begun(enc.inSysEx) \in Seq(Nat)
    BY MarkTypes
  <1>6. EventOf[m] = (Begun(enc.inSysEx) \o m.data) \o Ended(m.end) /\ RealOf[m] = << >>
    BY <1>3 DEF EventOf, RealOf, Events, IsRealTime, Begun, Ended
  <1> DEFINE first == IF m.start THEN <<SysExStart>> ELSE enc.pending
  <1>7. first \in Seq(Bytes) /\ Clean(o, first) /\ (o \/ first # << >>)
    <2>1. CASE m.start
      <3>1. ~o /\ first = <<SysExStart>>
        BY <1>1, <1>3, <2>1 DEF Synced
      <3>2. Len(<<SysExStart>>) = 1 /\ <<SysExStart>>[1] = SysExStart /\ <<SysExStart>> # << >>
        OBVIOUS
      <3>3. \A i \in 1 .. 1 : i = 1
        OBVIOUS
      <3>4. Clean(o, <<SysExStart>>)
        BY <3>1, <3>2, <3>3 DEF Clean
      <3> QED
        BY <3>1, <3>2, <3>4, StartByte
    <2>2. CASE ~m.start
      BY <1>1, <1>3, <2>2 DEF Synced
    <2> QED
      BY <2>1, <2>2
  <1>8. Marks(first) = Marks(enc.pending) \o Begun(enc.inSysEx)
    <2>1. CASE m.start
      <3>1. enc.pending = << >> /\ ~enc.inSysEx /\ first = <<SysExStart>>
        BY <1>1, <1>3, <2>1 DEF Synced
      <3>2. Marks(<< >>) = << >>
        BY FlatMapEmpty DEF Marks
      <3>3. << >> \o <<StartMark>> = <<StartMark>>
        OBVIOUS
      <3> QED
        BY <3>1, <3>2, <3>3, StartByte DEF Begun
    <2>2. CASE ~m.start
      <3>1. first = enc.pending /\ enc.inSysEx
        BY <1>1, <1>3, <2>2
      <3>2. Marks(enc.pending) \in Seq(Nat)
        BY <1>1, MarksJoin
      <3> QED
        BY <3>1, <3>2, ConcatEmptySeq DEF Begun
    <2> QED
      BY <2>1, <2>2
  <1>9. Line(enc, m) = first \o m.data
    BY DEF Line
  <1> HIDE DEF first
  <1>10. Clean(o, first \o m.data) /\ first \o m.data \in Seq(Bytes)
         /\ (o \/ first \o m.data # << >>)
    BY <1>1, <1>2, <1>7, CleanJoins
  <1>11. Marks(first \o m.data) = Marks(first) \o m.data
    <2>1. \A s, t \in Seq(Bytes) : Marks(s \o t) = Marks(s) \o Marks(t)
      BY MarksJoin
    <2>2. Marks(first \o m.data) = Marks(first) \o Marks(m.data)
      BY <1>1, <1>7, <2>1, Zenon
    <2> QED
      BY <1>4, <2>2, Zenon
  <1> DEFINE x == Marks(enc.pending)
             y == Begun(enc.inSysEx)
             d == m.data
             z == Ended(m.end)
  <1>12. x \in Seq(Nat) /\ y \in Seq(Nat) /\ d \in Seq(Nat) /\ z \in Seq(Nat)
    BY <1>1, <1>4, <1>5, MarksJoin
  <1> HIDE DEF x, y, d, z
  <1>13. ((x \o y) \o d) \o z = x \o ((y \o d) \o z)
    <2>1. Associates(Nat)
      BY Regrouped
    <2>2. y \o d \in Seq(Nat)
      BY <1>12, ConcatProperties
    <2>3. (x \o y) \o d = x \o (y \o d)
      BY <1>12, <2>1, Zenon DEF Associates
    <2>4. (x \o (y \o d)) \o z = x \o ((y \o d) \o z)
      BY <1>12, <2>1, <2>2, Zenon DEF Associates
    <2> QED
      BY <2>3, <2>4
  <1>14. Marks(Line(enc, m)) \o Ended(m.end) = Marks(enc.pending) \o EventOf[m]
    <2>1. Marks(Line(enc, m)) = (x \o y) \o d
      BY <1>8, <1>9, <1>11, Zenon DEF x, y, d
    <2>2. Marks(enc.pending) \o EventOf[m] = x \o ((y \o d) \o z)
      BY <1>6, Zenon DEF x, y, d, z
    <2> QED
      BY <1>13, <2>1, <2>2, Zenon DEF z
  <1> QED
    BY <1>3, <1>6, <1>9, <1>10, <1>14

-----------------------------------------------------------------------------
(* The groups of a line, and what is left of it.                           *)
LEMMA LineRead ==
    ASSUME NEW o \in BOOLEAN, NEW c \in Cables, NEW line \in Seq(Bytes), Clean(o, line),
           o \/ line # << >>, Groups(c, line) \in Seq(Packets)
    PROVE  LET w == o \/ Len(line) \div 3 # 0
               r == Reading(o, Groups(c, line)) IN
           /\ r.open = w /\ RealTimeOf(r.got) = << >>
           /\ EventsOf(r.got) \o Marks(Rest(line)) = Marks(line)
           /\ Clean(w, Rest(line)) /\ (w \/ Rest(line) # << >>)
  <1> DEFINE n == Len(line)
             q == n \div 3
             w == o \/ q # 0
             r == Reading(o, Groups(c, line))
             front == SubSeq(line, 1, 3 * q)
  <1>1. n \in Nat /\ q \in Nat /\ 3 * q \in 0..n /\ (3 * q # 0 <=> q # 0) /\ n \in 3 * q .. n
    <2>1. n \in Nat
      BY LenProperties
    <2>2. \A x \in Nat : x \div 3 \in Nat /\ 3 * (x \div 3) <= x
      OBVIOUS
    <2> HIDE DEF n
    <2>3. q \in Nat /\ 3 * q <= n
      BY <2>1, <2>2
    <2> HIDE DEF q
    <2> QED
      BY <2>1, <2>3
  <1>2. /\ r.open = (o \/ q # 0)
        /\ EventsOf(r.got) = Marks(front)
        /\ RealTimeOf(r.got) = << >>
    BY GroupsRead
  <1>3. Rest(line) = SubSeq(line, 3 * q + 1, n)
    BY DEF Rest
  <1> HIDE DEF q
  <1>4. /\ Clean(w, Rest(line)) /\ front \in Seq(Bytes) /\ Rest(line) \in Seq(Bytes)
        /\ SubSeq(line, 1, n) = front \o Rest(line)
    <2>1. \A i \in 0..Len(line) : \A j \in i..Len(line) :
              /\ SubSeq(line, i + 1, j) \in Seq(Bytes)
              /\ Clean(o \/ i # 0, SubSeq(line, i + 1, j))
              /\ SubSeq(line, 1, i) \in Seq(Bytes)
              /\ SubSeq(line, 1, j) = SubSeq(line, 1, i) \o SubSeq(line, i + 1, j)
      BY CleanPart
    <2>2. (o \/ 3 * q # 0) = w
      BY <1>1
    <2>3. /\ SubSeq(line, 3 * q + 1, n) \in Seq(Bytes)
          /\ Clean(o \/ 3 * q # 0, SubSeq(line, 3 * q + 1, n))
          /\ SubSeq(line, 1, 3 * q) \in Seq(Bytes)
          /\ SubSeq(line, 1, n) = SubSeq(line, 1, 3 * q) \o SubSeq(line, 3 * q + 1, n)
      BY <1>1, <2>1
    <2> QED
      BY <1>3, <2>2, <2>3
  <1>5. line = front \o Rest(line)
    BY <1>4, SubSeqFull
  <1>6. EventsOf(r.got) \o Marks(Rest(line)) = Marks(line)
    <2>1. \A s, t \in Seq(Bytes) : Marks(s \o t) = Marks(s) \o Marks(t)
      BY MarksJoin
    <2> HIDE DEF front, r
    <2>2. Marks(front \o Rest(line)) = Marks(front) \o Marks(Rest(line))
      BY <1>4, <2>1, Zenon
    <2> QED
      BY <1>2, <1>5, <2>2, Zenon
  <1>7. w \/ Rest(line) # << >>
    <2> SUFFICES ASSUME ~w, Rest(line) = << >> PROVE FALSE
      OBVIOUS
    <2>1. 3 * q = 0 /\ ~o
      BY <1>1
    <2>2. front = << >>
      BY <2>1, SubSeqEmpty
    <2>3. << >> \o << >> = << >>
      OBVIOUS
    <2>4. line = << >>
      BY <1>5, <2>2, <2>3
    <2> QED
      BY <2>1, <2>4
  <1> QED
    BY <1>2, <1>4, <1>6, <1>7, Zenon DEF w, q, r, n

(* UsbPacketEncoder and UsbPacketDecoder: the decoder makes of the packets *)
(* of a message what the message says, behind what the encoder held before *)
(* and up to what it holds now, and the two agree again.  Nothing but a    *)
(* chunk that does not end the dump makes no packet at all.                *)
THEOREM EncodingRead ==
    ASSUME NEW o \in BOOLEAN, NEW enc \in Encoders, NEW c \in Cables, NEW m \in MidiMessages,
           IsComplete(m), Fits(enc.inSysEx, m), Synced(enc, o)
    PROVE  LET r == Reading(o, Encode(enc, c, m))
               e == EncoderAfter(enc, m) IN
           /\ EventsOf(r.got) \o Marks(e.pending) = Marks(enc.pending) \o EventOf[m]
           /\ RealTimeOf(r.got) = RealOf[m]
           /\ Synced(e, r.open)
           /\ Encode(enc, c, m) = << >> => m.chunk /\ ~m.end
  <1> DEFINE packets == Encode(enc, c, m)
             r == Reading(o, packets)
             e == EncoderAfter(enc, m)
  <1>1. /\ enc.pending \in Seq(Bytes) /\ enc.inSysEx \in BOOLEAN
        /\ Marks(enc.pending) \in Seq(Nat) /\ Marks(<< >>) = << >>
        /\ EventOf[m] \in Seq(Nat)
    <2>1. enc.pending \in Seq(Bytes) /\ enc.inSysEx \in BOOLEAN
      BY DEF Encoders
    <2> QED
      BY <2>1, MarksJoin, FlatMapEmpty, StreamMaps DEF Marks, Maps
  <1>2. CASE ~m.chunk
    <2>1. HasFixedLength(m.status)
      BY <1>2 DEF IsComplete
    <2>2. e = enc /\ packets = EncodeShort(c, m)
      BY <1>2, <2>1 DEF EncoderAfter, Encode, Encodable
    <2>3. PICK p \in Packets :
              /\ EncodeShort(c, m) = <<p>> /\ Decode(o, p) = <<m>> /\ OpenAfterPacket(o, p) = o
      BY <1>2, ShortRead
    <2>4. r.open = o /\ r.got = <<m>>
      BY <2>2, <2>3, ReadOne
    <2>5. EventsOf(r.got) = EventOf[m] /\ RealTimeOf(r.got) = RealOf[m]
      BY <2>4, SaysOne
    <2>6. EventOf[m] \o Marks(enc.pending) = Marks(enc.pending) \o EventOf[m]
      <3>1. CASE enc.inSysEx
        <4>1. EventOf[m] = << >>
          BY <1>2, <3>1 DEF Fits, EventOf, IsRealTime
        <4> QED
          BY <1>1, <4>1, ConcatEmptySeq
      <3>2. CASE ~enc.inSysEx
        <4>1. Marks(enc.pending) = << >>
          BY <1>1, <3>2 DEF Synced
        <4> QED
          BY <1>1, <4>1, ConcatEmptySeq
      <3> QED
        BY <1>1, <3>1, <3>2
    <2>7. packets # << >>
      BY <2>2, <2>3
    <2> HIDE DEF packets, r, e
    <2> QED
      BY <2>2, <2>4, <2>5, <2>6, <2>7, Zenon DEF packets, r, e
  <1>3. CASE m.chunk
    <2> DEFINE line == Line(enc, m)
               g == Groups(c, line)
               w == o \/ Len(line) \div 3 # 0
               rest == Rest(line)
               u == Reading(o, g)
    <2>1. /\ line \in Seq(Bytes) /\ Clean(o, line) /\ (o \/ line # << >>)
          /\ Marks(line) \o Ended(m.end) = Marks(enc.pending) \o EventOf[m]
          /\ RealOf[m] = << >> /\ Encodable(enc, m)
      BY <1>3, LineIs
    <2>2. g \in Seq(Packets) /\ rest \in Seq(Bytes) /\ Len(rest) <= 2
      <3> HIDE DEF line
      <3> QED
        BY <2>1, GroupsType, RestType
    <2>3. /\ u.open = w /\ RealTimeOf(u.got) = << >>
          /\ EventsOf(u.got) \o Marks(rest) = Marks(line)
          /\ Clean(w, rest) /\ (w \/ rest # << >>) /\ w \in BOOLEAN
      <3> HIDE DEF line
      <3> QED
        BY <2>1, <2>2, LineRead
    <2>4. CASE ~m.end
      <3>1. packets = g \o << >> /\ e = [inSysEx |-> TRUE, pending |-> rest]
        BY <1>3, <2>1, <2>4 DEF Encode, EncoderAfter
      <3>2. packets = g
        BY <2>2, <3>1, ConcatEmptySeq
      <3>3. e.pending = rest /\ e.inSysEx = TRUE
        BY <3>1
      <3>4. Marks(line) \o << >> = Marks(line) /\ Ended(m.end) = << >>
        BY <2>1, <2>4, MarksJoin, ConcatEmptySeq DEF Ended
      <3> HIDE DEF packets, e, g, line, rest, w
      <3>5. Synced(e, r.open)
        BY <2>3, <3>2, <3>3 DEF Synced
      <3>6. EventsOf(r.got) \o Marks(e.pending) = Marks(enc.pending) \o EventOf[m]
        BY <2>1, <2>3, <3>2, <3>3, <3>4, Zenon
      <3>7. RealTimeOf(r.got) = RealOf[m]
        BY <2>1, <2>3, <3>2, Zenon
      <3> QED
        BY <1>3, <2>4, <3>5, <3>6, <3>7, Zenon DEF packets, e
    <2>5. CASE m.end
      <3> DEFINE p == EndPacket(c, rest)[1]
      <3>1. packets = g \o EndPacket(c, rest) /\ e = NewEncoder
        BY <1>3, <2>1, <2>5 DEF Encode, EncoderAfter
      <3>2. e.pending = << >> /\ e.inSysEx = FALSE
        BY <3>1 DEF NewEncoder
      <3> HIDE DEF g, line, rest, w
      <3>3. /\ EndPacket(c, rest) = <<p>> /\ p \in Packets
            /\ OpenAfterPacket(w, p) = FALSE
            /\ EventsOf(Decode(w, p)) = Marks(rest) \o <<EndMark>>
            /\ RealTimeOf(Decode(w, p)) = << >>
        BY <2>2, <2>3, EndRead
      <3> HIDE DEF p, packets, e
      <3> DEFINE v == Reading(w, <<p>>)
      <3>4. v.open = FALSE /\ v.got = Decode(w, p) /\ Decode(w, p) \in Seq(MidiMessages)
        BY <2>3, <3>3, ReadOne, DecodeIs
      <3>5. <<p>> \in Seq(Packets)
        BY <3>3
      <3>6. r.open = v.open /\ r.got = u.got \o v.got
        <4>1. packets = g \o <<p>>
          BY <3>1, <3>3
        <4>2. /\ Reading(o, g \o <<p>>).open = Reading(Reading(o, g).open, <<p>>).open
              /\ Reading(o, g \o <<p>>).got = Reading(o, g).got
                                                   \o Reading(Reading(o, g).open, <<p>>).got
          BY <2>2, <3>5, ReadJoins
        <4> QED
          BY <2>3, <4>1, <4>2, Zenon
      <3>7. u.got \in Seq(MidiMessages)
        BY <2>2, ReadingType DEF Readings
      <3> HIDE DEF u, v, r
      <3>8. /\ EventsOf(u.got \o v.got) = EventsOf(u.got) \o EventsOf(v.got)
            /\ RealTimeOf(u.got \o v.got) = RealTimeOf(u.got) \o RealTimeOf(v.got)
            /\ EventsOf(u.got) \in Seq(Nat)
        <4>1. v.got \in Seq(MidiMessages)
          BY <3>4
        <4> QED
          BY <3>7, <4>1, SaysJoins
      <3>9. RealTimeOf(r.got) = << >>
        <4>1. << >> \o << >> = << >>
          OBVIOUS
        <4> QED
          BY <2>3, <3>3, <3>4, <3>6, <3>8, <4>1
      <3>10. EventsOf(r.got) = Marks(line) \o Ended(m.end)
        <4> DEFINE a == EventsOf(u.got)
                   b == Marks(rest)
        <4>1. a \in Seq(Nat) /\ b \in Seq(Nat) /\ <<EndMark>> \in Seq(Nat)
          BY <2>2, <3>8, MarksJoin DEF EndMark
        <4> HIDE DEF a, b
        <4>2. (a \o b) \o <<EndMark>> = a \o (b \o <<EndMark>>)
          <5>1. Associates(Nat)
            BY Regrouped
          <5> QED
            BY <4>1, <5>1, Zenon DEF Associates
        <4>3. Ended(m.end) = <<EndMark>>
          BY <2>5 DEF Ended
        <4>4. EventsOf(r.got) = a \o (b \o <<EndMark>>) /\ Marks(line) = a \o b
          BY <2>3, <3>3, <3>4, <3>6, <3>8, Zenon DEF a, b
        <4> QED
          BY <4>2, <4>3, <4>4, Zenon
      <3>11. EventsOf(r.got) \o << >> = EventsOf(r.got)
        <4>1. Marks(enc.pending) \o EventOf[m] \in Seq(Nat)
          BY <1>1, ConcatProperties
        <4> QED
          BY <2>1, <3>10, <4>1, ConcatEmptySeq
      <3>12. EventsOf(r.got) \o Marks(e.pending) = Marks(enc.pending) \o EventOf[m]
        BY <1>1, <2>1, <3>2, <3>10, <3>11, Zenon
      <3>13. Synced(e, r.open)
        BY <3>2, <3>4, <3>6 DEF Synced
      <3>14. RealTimeOf(r.got) = RealOf[m]
        BY <2>1, <3>9
      <3>15. packets # << >>
        <4>1. Len(packets) = Len(g) + Len(<<p>>) /\ Len(g) \in Nat /\ Len(<<p>>) = 1
          BY <2>2, <3>1, <3>3, <3>5, ConcatProperties, LenProperties
        <4>2. Len(<< >>) = 0
          OBVIOUS
        <4> QED
          BY <4>1, <4>2
      <3> QED
        BY <3>12, <3>13, <3>14, <3>15, Zenon DEF packets, e, r
    <2> QED
      BY <2>4, <2>5
  <1> QED
    BY <1>2, <1>3

(* A start is the same whatever the encoder held, and so is a short        *)
(* message.                                                                *)
LEMMA StartsAnew ==
    ASSUME NEW enc, NEW c, NEW m, m.chunk, m.start
    PROVE  /\ Encode(enc, c, m) = Encode(NewEncoder, c, m)
           /\ EncoderAfter(enc, m) = EncoderAfter(NewEncoder, m)
  <1>1. Line(enc, m) = Line(NewEncoder, m)
    BY DEF Line
  <1>2. Encodable(enc, m) /\ Encodable(NewEncoder, m)
    BY DEF Encodable
  <1> QED
    BY <1>1, <1>2 DEF Encode, EncoderAfter

LEMMA ShortsPass ==
    ASSUME NEW enc, NEW c, NEW m, ~m.chunk
    PROVE  /\ Encode(enc, c, m) = Encode(NewEncoder, c, m)
           /\ EncoderAfter(enc, m) = enc
  <1>1. Encodable(enc, m) <=> Encodable(NewEncoder, m)
    BY DEF Encodable
  <1> QED
    BY <1>1 DEF Encode, EncoderAfter
-----------------------------------------------------------------------------
(* All packets of a message are of its cable.                              *)
LEMMA EncodeCable ==
    ASSUME NEW enc \in Encoders, NEW c \in Cables, NEW m \in MidiMessages
    PROVE  \A i \in 1..Len(Encode(enc, c, m)) : Encode(enc, c, m)[i].cable = c
  <1> DEFINE g == Groups(c, Line(enc, m))
             e == EndPacket(c, Rest(Line(enc, m)))
  <1>1. \A i \in 1..Len(g) : g[i].cable = c
    <2> DEFINE q == Len(Line(enc, m)) \div 3
    <2>1. Line(enc, m) \in Seq(Bytes) /\ q \in Nat
      BY LineType, LenProperties
    <2>2. g = [i \in 1..q |-> Packet(c, SysExStarts, SubSeq(Line(enc, m), 3 * i - 2, 3 * i))]
      BY DEF Groups
    <2> HIDE DEF q, g
    <2>3. Len(g) = q
      BY <2>1, <2>2
    <2>4. \A i \in 1..q :
              g[i] = Packet(c, SysExStarts, SubSeq(Line(enc, m), 3 * i - 2, 3 * i))
      BY <2>2
    <2> QED
      BY <2>3, <2>4 DEF Packet
  <1>2. \A i \in 1..Len(e) : e[i].cable = c
    BY DEF EndPacket, Packet
  <1>3. \A i \in 1..Len(EncodeShort(c, m)) : EncodeShort(c, m)[i].cable = c
    BY DEF EncodeShort, Packet
  <1>4. g \in Seq(Packets) /\ e \in Seq(Packets)
    BY LineType, GroupsType, RestType, EndType
  <1> HIDE DEF g, e
  <1>5. \A i \in 1..Len(g \o e) : (g \o e)[i].cable = c
    <2>1. /\ Len(g \o e) = Len(g) + Len(e) /\ Len(g) \in Nat /\ Len(e) \in Nat
          /\ \A i \in 1 .. Len(g) + Len(e) :
                 (g \o e)[i] = IF i <= Len(g) THEN g[i] ELSE e[i - Len(g)]
      BY <1>4, ConcatProperties, LenProperties
    <2> TAKE i \in 1..Len(g \o e)
    <2>2. CASE i <= Len(g)
      <3>1. i \in 1..Len(g) /\ (g \o e)[i] = g[i]
        BY <2>1, <2>2
      <3> QED
        BY <1>1, <3>1
    <2>3. CASE ~(i <= Len(g))
      <3>1. i - Len(g) \in 1..Len(e) /\ (g \o e)[i] = e[i - Len(g)]
        BY <2>1, <2>3
      <3> QED
        BY <1>2, <3>1
    <2> QED
      BY <2>2, <2>3
  <1>6. g \o << >> = g
    BY <1>4, ConcatEmptySeq
  <1>7. Encode(enc, c, m) \in {<< >>, EncodeShort(c, m), g \o e, g}
    BY <1>6, Zenon DEF Encode, g, e
  <1>8. \A i \in 1..Len(<< >>) : FALSE
    OBVIOUS
  <1>9. CASE Encode(enc, c, m) = << >>
    BY <1>8, <1>9, Zenon
  <1>10. CASE Encode(enc, c, m) = EncodeShort(c, m)
    BY <1>3, <1>10, Zenon
  <1>11. CASE Encode(enc, c, m) = g \o e
    BY <1>5, <1>11, Zenon
  <1>12. CASE Encode(enc, c, m) = g
    BY <1>1, <1>12, Zenon
  <1> QED
    BY <1>7, <1>9, <1>10, <1>11, <1>12
-----------------------------------------------------------------------------
(* An encoder, packets on their way, and a decoder: what was handed out,   *)
(* what the packets say and what the encoder holds are what was sent.      *)
Linked(h, o, f, enc, all) ==
    LET r == Reading(o, f) IN
    /\ Meets(EventsOf(h), EventsOf(r.got) \o Marks(enc.pending), EventsOf(all))
    /\ Meets(RealTimeOf(h), RealTimeOf(r.got), RealTimeOf(all))
    /\ Synced(enc, r.open)

LEMMA LinkedNew == Linked(<< >>, FALSE, << >>, NewEncoder, << >>)
  <1>1. Reading(FALSE, << >>) = Unread(FALSE)
    BY ReadNone
  <1>2. Unread(FALSE).open = FALSE /\ Unread(FALSE).got = << >>
    BY DEF Unread
  <1>3. NewEncoder.pending = << >> /\ NewEncoder.inSysEx = FALSE
    BY DEF NewEncoder
  <1>4. Marks(<< >>) = << >> /\ << >> \o << >> = << >>
    BY FlatMapEmpty DEF Marks
  <1>5. Synced(NewEncoder, FALSE)
    BY <1>3 DEF Synced
  <1> QED
    BY <1>1, <1>2, <1>3, <1>4, <1>5, SaysNone, Zenon DEF Linked, Meets

(* A message is sent.                                                      *)
LEMMA LinkedSends ==
    ASSUME NEW h \in Seq(MidiMessages), NEW o \in BOOLEAN, NEW f \in Seq(Packets),
           NEW enc \in Encoders, NEW all \in Seq(MidiMessages), Linked(h, o, f, enc, all),
           NEW c \in Cables, NEW m \in MidiMessages, IsComplete(m), Fits(enc.inSysEx, m)
    PROVE  Linked(h, o, f \o Encode(enc, c, m), EncoderAfter(enc, m), Append(all, m))
  <1> DEFINE r == Reading(o, f)
             e == EncoderAfter(enc, m)
             packets == Encode(enc, c, m)
             s == Reading(r.open, packets)
             u == Reading(o, f \o packets)
  <1>1. r.open \in BOOLEAN /\ r.got \in Seq(MidiMessages)
    BY ReadingType DEF Readings
  <1>2. packets \in Seq(Packets) /\ e \in Encoders
    BY EncodeType, EncoderType
  <1>3. s.open \in BOOLEAN /\ s.got \in Seq(MidiMessages)
    <2> HIDE DEF r, packets
    <2> QED
      BY <1>1, <1>2, ReadingType DEF Readings
  <1>4. /\ Meets(EventsOf(h), EventsOf(r.got) \o Marks(enc.pending), EventsOf(all))
        /\ Meets(RealTimeOf(h), RealTimeOf(r.got), RealTimeOf(all))
        /\ Synced(enc, r.open)
    BY DEF Linked
  <1>5. /\ EventsOf(s.got) \o Marks(e.pending) = Marks(enc.pending) \o EventOf[m]
        /\ RealTimeOf(s.got) = RealOf[m] /\ Synced(e, s.open)
    <2> HIDE DEF r
    <2> QED
      BY <1>1, <1>4, EncodingRead
  <1>6. u.open = s.open /\ u.got = r.got \o s.got
    <2> HIDE DEF packets
    <2> QED
      BY <1>2, ReadJoins
  <1> HIDE DEF r, e, packets, s, u
  <1> DEFINE H == EventsOf(h)
             G == EventsOf(r.got)
             K == EventsOf(s.got)
             P == Marks(enc.pending)
             Q == Marks(e.pending)
             X == EventOf[m]
  <1>7. /\ EventsOf(u.got) = G \o K /\ RealTimeOf(u.got) = RealTimeOf(r.got) \o RealTimeOf(s.got)
        /\ G \in Seq(Nat) /\ K \in Seq(Nat) /\ H \in Seq(Nat)
        /\ RealTimeOf(h) \in Seq(MidiMessages) /\ RealTimeOf(r.got) \in Seq(MidiMessages)
        /\ RealTimeOf(s.got) \in Seq(MidiMessages)
    <2>1. \A a, b \in Seq(MidiMessages) :
              /\ EventsOf(a \o b) = EventsOf(a) \o EventsOf(b)
              /\ RealTimeOf(a \o b) = RealTimeOf(a) \o RealTimeOf(b)
              /\ EventsOf(a) \in Seq(Nat) /\ RealTimeOf(a) \in Seq(MidiMessages)
      BY SaysJoins
    <2>2. /\ EventsOf(r.got \o s.got) = G \o K
          /\ RealTimeOf(r.got \o s.got) = RealTimeOf(r.got) \o RealTimeOf(s.got)
      BY <1>1, <1>3, <2>1
    <2>3. /\ G \in Seq(Nat) /\ K \in Seq(Nat) /\ H \in Seq(Nat)
          /\ RealTimeOf(h) \in Seq(MidiMessages) /\ RealTimeOf(r.got) \in Seq(MidiMessages)
          /\ RealTimeOf(s.got) \in Seq(MidiMessages)
      BY <1>1, <1>3, <2>1
    <2> QED
      BY <1>6, <2>2, <2>3
  <1>8. /\ EventsOf(Append(all, m)) = EventsOf(all) \o X
        /\ RealTimeOf(Append(all, m)) = RealTimeOf(all) \o RealOf[m]
    <2>1. Append(all, m) = all \o <<m>> /\ <<m>> \in Seq(MidiMessages)
      BY AppendIsConcat
    <2>2. \A b \in Seq(MidiMessages) :
              /\ EventsOf(all \o b) = EventsOf(all) \o EventsOf(b)
              /\ RealTimeOf(all \o b) = RealTimeOf(all) \o RealTimeOf(b)
      BY SaysJoins
    <2>3. /\ EventsOf(all \o <<m>>) = EventsOf(all) \o EventsOf(<<m>>)
          /\ RealTimeOf(all \o <<m>>) = RealTimeOf(all) \o RealTimeOf(<<m>>)
      BY <2>1, <2>2, Zenon
    <2> QED
      BY <2>1, <2>3, SaysOne, Zenon
  <1>9. P \in Seq(Nat) /\ Q \in Seq(Nat) /\ X \in Seq(Nat) /\ RealOf[m] \in Seq(MidiMessages)
    <2>1. enc.pending \in Seq(Bytes) /\ e.pending \in Seq(Bytes)
      BY <1>2 DEF Encoders
    <2> QED
      BY <2>1, MarksJoin, StreamMaps DEF Maps
  <1> HIDE DEF H, G, K, P, Q, X
  <1>10. (G \o P) \o X = (G \o K) \o Q
    <2>1. Associates(Nat)
      BY Regrouped
    <2>2. (G \o P) \o X = G \o (P \o X) /\ (G \o K) \o Q = G \o (K \o Q)
      BY <1>7, <1>9, <2>1, Zenon DEF Associates
    <2>3. K \o Q = P \o X
      BY <1>5, Zenon DEF K, Q, P, X
    <2> QED
      BY <2>2, <2>3, Zenon
  <1>11. Meets(H, (G \o P) \o X, EventsOf(all) \o X)
    <2>1. G \o P \in Seq(Nat)
      BY <1>7, <1>9, ConcatProperties
    <2>2. Meets(H, G \o P, EventsOf(all))
      BY <1>4 DEF H, G, P
    <2> HIDE DEF Linked
    <2>3. \A t : \A w, x \in Seq(Nat) : Meets(H, w, t) => Meets(H, w \o x, t \o x)
      BY <1>7, MeetsGrow
    <2> QED
      BY <1>9, <2>1, <2>2, <2>3, Zenon
  <1>12. Meets(RealTimeOf(h), RealTimeOf(u.got), RealTimeOf(all) \o RealOf[m])
    <2>1. \A t : \A w, x \in Seq(MidiMessages) :
              Meets(RealTimeOf(h), w, t) => Meets(RealTimeOf(h), w \o x, t \o x)
      BY <1>7, MeetsGrow
    <2>2. Meets(RealTimeOf(h), RealTimeOf(r.got) \o RealOf[m], RealTimeOf(all) \o RealOf[m])
      BY <1>4, <1>7, <1>9, <2>1, Zenon
    <2> QED
      BY <1>5, <1>7, <2>2, Zenon
  <1>13. Meets(H, EventsOf(u.got) \o Q, EventsOf(Append(all, m)))
    BY <1>7, <1>8, <1>10, <1>11, Zenon
  <1>14. /\ Meets(H, EventsOf(u.got) \o Q, EventsOf(Append(all, m)))
         /\ Meets(RealTimeOf(h), RealTimeOf(u.got), RealTimeOf(Append(all, m)))
         /\ Synced(e, u.open)
    BY <1>5, <1>6, <1>8, <1>12, <1>13, Zenon
  <1> QED
    BY <1>14, Zenon DEF Linked, u, e, packets, H, Q

(* The first packets are decoded and handed out.                           *)
LEMMA LinkedReads ==
    ASSUME NEW h \in Seq(MidiMessages), NEW o \in BOOLEAN, NEW g \in Seq(Packets),
           NEW f \in Seq(Packets), NEW enc \in Encoders, NEW all,
           Linked(h, o, g \o f, enc, all)
    PROVE  Linked(h \o Reading(o, g).got, Reading(o, g).open, f, enc, all)
  <1> DEFINE w == Reading(o, g).open
             d == Reading(o, g).got
             s == Reading(w, f)
             u == Reading(o, g \o f)
  <1>1. w \in BOOLEAN /\ d \in Seq(MidiMessages)
    BY ReadingType DEF Readings
  <1>2. s.open \in BOOLEAN /\ s.got \in Seq(MidiMessages)
    <2> HIDE DEF w
    <2> QED
      BY <1>1, ReadingType DEF Readings
  <1>3. u.open = s.open /\ u.got = d \o s.got
    BY ReadJoins
  <1>4. /\ Meets(EventsOf(h), EventsOf(u.got) \o Marks(enc.pending), EventsOf(all))
        /\ Meets(RealTimeOf(h), RealTimeOf(u.got), RealTimeOf(all))
        /\ Synced(enc, u.open)
    BY DEF Linked
  <1> HIDE DEF w, d, s, u
  <1> DEFINE H == EventsOf(h)
             K == EventsOf(d)
             G == EventsOf(s.got)
             P == Marks(enc.pending)
  <1>5. /\ EventsOf(u.got) = K \o G /\ RealTimeOf(u.got) = RealTimeOf(d) \o RealTimeOf(s.got)
        /\ EventsOf(h \o d) = H \o K /\ RealTimeOf(h \o d) = RealTimeOf(h) \o RealTimeOf(d)
        /\ G \in Seq(Nat) /\ K \in Seq(Nat) /\ H \in Seq(Nat)
        /\ RealTimeOf(h) \in Seq(MidiMessages) /\ RealTimeOf(d) \in Seq(MidiMessages)
        /\ RealTimeOf(s.got) \in Seq(MidiMessages)
    <2>1. \A a, b \in Seq(MidiMessages) :
              /\ EventsOf(a \o b) = EventsOf(a) \o EventsOf(b)
              /\ RealTimeOf(a \o b) = RealTimeOf(a) \o RealTimeOf(b)
              /\ EventsOf(a) \in Seq(Nat) /\ RealTimeOf(a) \in Seq(MidiMessages)
      BY SaysJoins
    <2>2. /\ EventsOf(d \o s.got) = K \o G
          /\ RealTimeOf(d \o s.got) = RealTimeOf(d) \o RealTimeOf(s.got)
      BY <1>1, <1>2, <2>1
    <2>3. EventsOf(h \o d) = H \o K /\ RealTimeOf(h \o d) = RealTimeOf(h) \o RealTimeOf(d)
      BY <1>1, <2>1
    <2>4. /\ G \in Seq(Nat) /\ K \in Seq(Nat) /\ H \in Seq(Nat)
          /\ RealTimeOf(h) \in Seq(MidiMessages) /\ RealTimeOf(d) \in Seq(MidiMessages)
          /\ RealTimeOf(s.got) \in Seq(MidiMessages)
      BY <1>1, <1>2, <2>1
    <2> QED
      BY <1>3, <2>2, <2>3, <2>4
  <1>6. P \in Seq(Nat)
    <2>1. enc.pending \in Seq(Bytes)
      BY DEF Encoders
    <2> QED
      BY <2>1, MarksJoin
  <1> HIDE DEF H, G, K, P
  <1>7. (K \o G) \o P = K \o (G \o P) /\ G \o P \in Seq(Nat)
    <2>1. Associates(Nat)
      BY Regrouped
    <2>2. (K \o G) \o P = K \o (G \o P)
      BY <1>5, <1>6, <2>1, Zenon DEF Associates
    <2> QED
      BY <1>5, <1>6, <2>2, ConcatProperties
  <1>8. Meets(H \o K, G \o P, EventsOf(all))
    <2>1. Meets(H, K \o (G \o P), EventsOf(all))
      BY <1>4, <1>5, <1>7, Zenon DEF H, P
    <2>2. \A t : \A a, b \in Seq(Nat) : Meets(H, a \o b, t) => Meets(H \o a, b, t)
      BY <1>5, MeetsMove
    <2> QED
      BY <1>5, <1>7, <2>1, <2>2, Zenon
  <1>9. Meets(RealTimeOf(h) \o RealTimeOf(d), RealTimeOf(s.got), RealTimeOf(all))
    <2>1. \A t : \A a, b \in Seq(MidiMessages) :
              Meets(RealTimeOf(h), a \o b, t) => Meets(RealTimeOf(h) \o a, b, t)
      BY <1>5, MeetsMove
    <2> QED
      BY <1>4, <1>5, <2>1, Zenon
  <1>10. /\ Meets(EventsOf(h \o d), G \o P, EventsOf(all))
         /\ Meets(RealTimeOf(h \o d), RealTimeOf(s.got), RealTimeOf(all))
         /\ Synced(enc, s.open)
    BY <1>3, <1>4, <1>5, <1>8, <1>9, Zenon
  <1> QED
    BY <1>10, Zenon DEF Linked, s, w, d, G, P

(* The next packet is decoded and handed out.                              *)
LEMMA LinkedTakes ==
    ASSUME NEW h \in Seq(MidiMessages), NEW o \in BOOLEAN, NEW p \in Packets,
           NEW f \in Seq(Packets), NEW enc \in Encoders, NEW all,
           Linked(h, o, <<p>> \o f, enc, all)
    PROVE  Linked(h \o Decode(o, p), OpenAfterPacket(o, p), f, enc, all)
  <1>1. /\ Reading(o, <<p>>).open = OpenAfterPacket(o, p)
        /\ Reading(o, <<p>>).got = Decode(o, p)
    BY ReadOne
  <1>2. <<p>> \in Seq(Packets)
    OBVIOUS
  <1>3. Linked(h \o Reading(o, <<p>>).got, Reading(o, <<p>>).open, f, enc, all)
    BY <1>2, LinkedReads
  <1> QED
    BY <1>1, <1>3

(* What was handed out is what was sent, or its beginning.                 *)
LEMMA LinkedArrives ==
    ASSUME NEW h \in Seq(MidiMessages), NEW o \in BOOLEAN, NEW f \in Seq(Packets),
           NEW enc \in Encoders, NEW all \in Seq(MidiMessages), Linked(h, o, f, enc, all),
           NEW underway, f # << >> \/ enc.pending # << >> => underway
    PROVE  Arrives(h, all, underway)
  <1> DEFINE r == Reading(o, f)
  <1>1. r.open \in BOOLEAN /\ r.got \in Seq(MidiMessages)
    BY ReadingType DEF Readings
  <1>2. /\ Meets(EventsOf(h), EventsOf(r.got) \o Marks(enc.pending), EventsOf(all))
        /\ Meets(RealTimeOf(h), RealTimeOf(r.got), RealTimeOf(all))
    BY DEF Linked
  <1>3. ~underway => r.got = << >> /\ enc.pending = << >>
    <2>1. f = << >> => r = Unread(o)
      BY ReadNone, Zenon
    <2>2. Unread(o).got = << >>
      BY DEF Unread
    <2> QED
      BY <2>1, <2>2
  <1> HIDE DEF r
  <1> DEFINE H == EventsOf(h)
             J == RealTimeOf(h)
             X == EventsOf(r.got) \o Marks(enc.pending)
             Y == RealTimeOf(r.got)
  <1>4. H \in Seq(Nat) /\ J \in Seq(MidiMessages) /\ X \in Seq(Nat) /\ Y \in Seq(MidiMessages)
    <2>1. enc.pending \in Seq(Bytes)
      BY DEF Encoders
    <2>2. /\ EventsOf(r.got) \in Seq(Nat) /\ Marks(enc.pending) \in Seq(Nat)
          /\ H \in Seq(Nat) /\ J \in Seq(MidiMessages) /\ Y \in Seq(MidiMessages)
      BY <1>1, <2>1, MarksJoin, SaysJoins
    <2> QED
      BY <2>2, ConcatProperties
  <1>5. ~underway => X = << >> /\ Y = << >>
    <2>1. Marks(<< >>) = << >> /\ << >> \o << >> = << >>
      BY FlatMapEmpty DEF Marks
    <2> QED
      BY <1>3, <2>1, SaysNone
  <1>6. H \o X = EventsOf(all) /\ J \o Y = RealTimeOf(all)
    BY <1>2 DEF Meets
  <1> HIDE DEF H, J, X, Y
  <1>7. IsPrefix(H, EventsOf(all)) /\ IsPrefix(J, RealTimeOf(all))
    <2>1. IsPrefix(H, H \o X) /\ IsPrefix(J, J \o Y)
      BY <1>4, PrefixOfConcat
    <2> QED
      BY <1>6, <2>1
  <1>8. ~underway => H = EventsOf(all) /\ J = RealTimeOf(all)
    <2>1. H \o << >> = H /\ J \o << >> = J
      BY <1>4, ConcatEmptySeq
    <2> QED
      BY <1>5, <1>6, <2>1
  <1> QED
    BY <1>7, <1>8, Zenon DEF Arrives, H, J
-----------------------------------------------------------------------------
BusTypes ==
    /\ at \in [Addresses -> Devices \cup {Nobody}]
    /\ claimed \in SUBSET (Devices \ Hubs) /\ freed \in SUBSET Addresses
    /\ encoder \in [Devices -> [Cables -> Encoders]]
    /\ transfer \in Seq(Parcels)

RingTypes ==
    /\ ring \in Seq(Parcels) /\ Len(ring) <= RingSize /\ limit \in 0..Len(ring)
    /\ pc \in {"idle", "polling", "draining"}
    /\ found \in SUBSET [address : Addresses, device : Devices]

SlotStates ==
    {Unused} \cup [device : Devices, address : Addresses,
                   open : [Cables -> BOOLEAN], encoder : [Cables -> Encoders]]

SlotTypes ==
    /\ slots \in [Slots -> SlotStates]
    /\ seats \in SUBSET Devices /\ available \in SUBSET seats
    /\ DOMAIN sinks \in SUBSET (Devices \X Cables)
    /\ \A x \in DOMAIN sinks : sinks[x] \in [slot : Slots, cable : Cables]

StreamTypes ==
    /\ inStream \in SUBSET (Devices \X Cables)
    /\ handed \in [Devices -> [Cables -> Seq(MidiMessages)]]

Types == BusTypes /\ RingTypes /\ SlotTypes /\ StreamTypes

(* A device stays at its address, or the address is not used before the    *)
(* next poll.                                                              *)
StillThere(a, d) == at[a] = d \/ a \in freed

BusInv ==
    /\ \A a, b \in Addresses : at[a] # Nobody /\ at[a] = at[b] => a = b
    /\ \A a \in freed : at[a] = Nobody
    /\ \A i \in 1..Len(transfer) : at[transfer[i].address] = transfer[i].from

UsedSlots == {s \in Slots : Used(s)}

SlotsApart ==
    /\ \A s \in Slots : Used(s) => StillThere(slots[s].address, slots[s].device)
    /\ \A s, t \in Slots : Used(s) /\ Used(t) /\ s # t =>
           slots[s].device # slots[t].device /\ slots[s].address # slots[t].address

SeatsInv ==
    /\ available = {slots[s].device : s \in UsedSlots}
    /\ \A s \in Slots : \A x \in DOMAIN sinks :
           slots[s].device = x[1] => sinks[x] = [slot |-> s, cable |-> x[2]]

(* What a poll has found is new, and has no slot yet.                      *)
FoundInv ==
    /\ pc # "polling" => found = {}
    /\ \A i \in found : StillThere(i.address, i.device)
    /\ \A i, j \in found : i.address = j.address \/ i.device = j.device => i = j
    /\ \A i \in found, s \in Slots :
           Used(s) => slots[s].address # i.address /\ slots[s].device # i.device

(* The slot, now or after this poll, at the address of a packet is of its  *)
(* sender; and a packet is drained before its address can be used again    *)
(* and found.                                                              *)
OwnedBySender(e) ==
    /\ \A s \in SlotAt(e.address) : slots[s].device = e.from
    /\ \A i \in found : i.address = e.address => i.device = e.from

RingInv ==
    \A k \in 1..Len(ring) :
        /\ OwnedBySender(ring[k])
        /\ \/ StillThere(ring[k].address, ring[k].from)
           \/ pc = "polling"
           \/ pc = "draining" /\ k <= limit

(* The decoder behind an input has a dump open exactly if the router has.  *)
StreamInv ==
    \A d \in Devices, c \in Cables :
        <<d, c>> \in inStream <=>
            /\ <<d, c>> \in inPorts
            /\ \E s \in Slots : slots[s].device = d /\ slots[s].open[c]

UsbInv ==
    Types /\ BusInv /\ SlotsApart /\ SeatsInv /\ FoundInv /\ RingInv /\ StreamInv
-----------------------------------------------------------------------------
LEMMA UnusedIs ==
    /\ Unused.device = Nobody /\ Unused.address = Nobody
    /\ Unused.open \in [Cables -> BOOLEAN] /\ \A c \in Cables : Unused.open[c] = FALSE
    /\ Unused.encoder \in [Cables -> Encoders]
    /\ NewEncoder \in Encoders
  <1>1. NewEncoder \in Encoders
    BY EmptySeq DEF NewEncoder, Encoders
  <1> QED
    BY <1>1 DEF Unused

LEMMA UsedIs ==
    ASSUME SlotTypes, NEW s \in Slots, Used(s)
    PROVE  /\ slots[s].device \in Devices /\ slots[s].address \in Addresses
           /\ slots[s] \in [device : Devices, address : Addresses,
                            open : [Cables -> BOOLEAN], encoder : [Cables -> Encoders]]
  BY UnusedIs DEF SlotTypes, SlotStates, Used

(* Slots after a release are those that stay.                              *)
LEMMA ReleaseKeeps ==
    ASSUME SlotTypes, NEW gone \in SUBSET UsedSlots, Release(gone), seats' = seats
    PROVE  /\ \A s \in gone : slots'[s] = Unused /\ ~Used(s)'
           /\ \A s \in Slots \ gone : slots'[s] = slots[s] /\ (Used(s)' <=> Used(s))
           /\ slots' \in [Slots -> SlotStates]
  BY UnusedIs DEF Release, SlotTypes, SlotStates, Used, UsedSlots

LEMMA ReleaseType ==
    ASSUME SlotTypes, StreamTypes, NEW gone \in SUBSET UsedSlots, Release(gone),
           UNCHANGED <<seats, sinks, handed>>
    PROVE  SlotTypes' /\ StreamTypes'
  <1>1. slots' \in [Slots -> SlotStates]
    BY ReleaseKeeps
  <1>2. available' \in SUBSET seats' /\ inStream' \in SUBSET (Devices \X Cables)
    BY DEF Release, SlotTypes, StreamTypes
  <1> QED
    BY <1>1, <1>2 DEF SlotTypes, StreamTypes

LEMMA ReleaseSeats ==
    ASSUME SlotTypes, SlotsApart, SeatsInv, NEW gone \in SUBSET UsedSlots, Release(gone),
           UNCHANGED <<seats, sinks>>
    PROVE  SeatsInv'
  <1>1. /\ \A s \in gone : slots'[s] = Unused /\ ~Used(s)'
        /\ \A s \in Slots \ gone : slots'[s] = slots[s] /\ (Used(s)' <=> Used(s))
    BY ReleaseKeeps
  <1>2. available' = available \ {slots[s].device : s \in gone}
    BY DEF Release
  <1>3. available' = {slots'[s].device : s \in UsedSlots'}
    BY <1>1, <1>2 DEF SeatsInv, SlotsApart, UsedSlots
  <1>4. ASSUME NEW s \in Slots, NEW x \in DOMAIN sinks, slots'[s].device = x[1]
        PROVE  sinks[x] = [slot |-> s, cable |-> x[2]]
    <2>1. x[1] # Nobody
      BY UsbHostAssumption DEF SlotTypes
    <2>2. slots'[s] = slots[s]
      BY <1>1, <1>4, <2>1 DEF Used
    <2> QED
      BY <1>4, <2>2 DEF SeatsInv
  <1> QED
    BY <1>3, <1>4 DEF SeatsInv

LEMMA ReleaseStreams ==
    ASSUME SlotTypes, StreamTypes, SlotsApart, StreamInv,
           NEW gone \in SUBSET UsedSlots, Release(gone), UNCHANGED <<seats, inPorts>>
    PROVE  StreamInv'
  <1>1. /\ \A s \in gone : slots'[s] = Unused
        /\ \A s \in Slots \ gone : slots'[s] = slots[s]
        /\ gone \subseteq Slots
    BY ReleaseKeeps DEF UsedSlots
  <1> SUFFICES ASSUME NEW d \in Devices, NEW c \in Cables
               PROVE  <<d, c>> \in inStream' <=>
                          /\ <<d, c>> \in inPorts'
                          /\ \E s \in Slots : slots'[s].device = d /\ slots'[s].open[c]
    BY DEF StreamInv
  <1>2. <<d, c>> \in inStream' <=> <<d, c>> \in inStream /\ \A s \in gone : slots[s].device # d
    BY DEF Release, Ports
  <1>3. d # Nobody
    BY UsbHostAssumption
  <1>4. \A s \in gone : \A t \in Slots : slots[s].device = d /\ slots[t].device = d => s = t
    BY <1>1, <1>3 DEF SlotsApart, Used
  <1>5. Unused.device # d
    BY <1>3, UnusedIs
  <1> QED
    BY <1>1, <1>2, <1>4, <1>5 DEF StreamInv
-----------------------------------------------------------------------------
LEMMA InvInit == Init => UsbInv
  <1> SUFFICES ASSUME Init PROVE UsbInv
    OBVIOUS
  <1>1. slots = [s \in Slots |-> Unused] /\ \A s \in Slots : ~Used(s)
    BY UnusedIs DEF Init, Used
  <1>2. BusTypes
    <2>1. [d \in Devices |-> [c \in Cables |-> NewEncoder]] \in
              [Devices -> [Cables -> Encoders]]
      BY UnusedIs
    <2>2. << >> \in Seq(Parcels)
      BY EmptySeq
    <2> QED
      BY <2>1, <2>2, UsbHostAssumption DEF Init, BusTypes
  <1>3. RingTypes
    <2>1. << >> \in Seq(Parcels) /\ Len(<< >>) = 0
      BY EmptySeq
    <2> QED
      BY <2>1, UsbHostAssumption DEF Init, RingTypes
  <1>4. SlotTypes
    <2>1. slots \in [Slots -> SlotStates]
      BY <1>1 DEF SlotStates
    <2>2. DOMAIN sinks = {}
      BY DEF Init
    <2> QED
      BY <2>1, <2>2 DEF Init, SlotTypes
  <1>5. StreamTypes
    <2>1. << >> \in Seq(MidiMessages)
      BY EmptySeq
    <2> QED
      BY <2>1 DEF Init, StreamTypes, Nothing
  <1>6. BusInv
    BY EmptySeq DEF Init, BusInv
  <1>7. SlotsApart /\ SeatsInv
    BY <1>1 DEF Init, SlotsApart, SeatsInv, UsedSlots
  <1>8. FoundInv /\ RingInv
    BY DEF Init, FoundInv, RingInv
  <1>9. StreamInv
    BY <1>1, UsbHostAssumption DEF Init, StreamInv, Used
  <1> QED
    BY <1>2, <1>3, <1>4, <1>5, <1>6, <1>7, <1>8, <1>9 DEF UsbInv, Types

(* What comes and goes on the bus leaves everything else as it was.        *)
LEMMA BusMoves ==
    ASSUME UsbInv,
           UNCHANGED <<slots, sinks, seats, available, found, ring, pc, limit, inStream, inPorts>>,
           \A x \in Addresses, y \in Devices : StillThere(x, y) => StillThere(x, y)'
    PROVE  /\ RingTypes' /\ SlotTypes'
           /\ SlotsApart' /\ SeatsInv' /\ FoundInv' /\ RingInv' /\ StreamInv'
  <1>1. RingTypes' /\ SlotTypes'
    BY DEF UsbInv, Types, RingTypes, SlotTypes
  <1>2. \A s \in Slots : Used(s)' <=> Used(s)
    BY DEF Used
  <1>3. SlotsApart'
    BY <1>2, UsedIs DEF UsbInv, Types, SlotsApart
  <1>4. SeatsInv' /\ StreamInv'
    BY <1>2 DEF UsbInv, SeatsInv, StreamInv, UsedSlots
  <1>5. FoundInv'
    BY <1>2 DEF UsbInv, Types, RingTypes, FoundInv
  <1>6. RingInv'
    <2> SUFFICES ASSUME NEW k \in 1..Len(ring)
                 PROVE  /\ OwnedBySender(ring[k])'
                        /\ \/ StillThere(ring[k].address, ring[k].from)'
                           \/ pc = "polling"
                           \/ pc = "draining" /\ k <= limit
      BY DEF RingInv
    <2>1. ring[k] \in Parcels
      BY DEF UsbInv, Types, RingTypes
    <2>2. ring[k].address \in Addresses /\ ring[k].from \in Devices
      BY <2>1 DEF Parcels
    <2> QED
      BY <1>2, <2>2 DEF UsbInv, RingInv, OwnedBySender, SlotAt
  <1> QED
    BY <1>1, <1>3, <1>4, <1>5, <1>6

LEMMA InvPlug ==
    ASSUME UsbInv, NEW d \in Devices, NEW a \in Addresses, Plug(d, a)
    PROVE  UsbInv'
  <1>1. /\ at' = [at EXCEPT ![a] = d] /\ at[a] = Nobody /\ a \notin freed
        /\ UNCHANGED <<claimed, freed, encoder, transfer>> /\ transfer = << >>
        /\ \A x \in Addresses : at[x] # d
        /\ handed' = [handed EXCEPT ![d] = Nothing]
        /\ UNCHANGED <<slots, sinks, seats, available, found, ring, pc, limit, inStream, inPorts>>
    BY DEF Plug, Plugged, deviceVars, updateVars, routerVars, portVars
  <1>2. Nobody \notin Devices
    BY UsbHostAssumption
  <1>3. BusTypes'
    BY <1>1 DEF UsbInv, Types, BusTypes
  <1>4. BusInv'
    BY <1>1, <1>2 DEF UsbInv, Types, BusTypes, BusInv
  <1>5. StreamTypes'
    <2>1. Nothing \in [Cables -> Seq(MidiMessages)]
      BY EmptySeq DEF Nothing
    <2> QED
      BY <1>1, <2>1 DEF UsbInv, Types, StreamTypes
  <1>6. \A x \in Addresses, y \in Devices : StillThere(x, y) => StillThere(x, y)'
    BY <1>1, <1>2 DEF UsbInv, Types, BusTypes, StillThere
  <1> QED
    BY <1>1, <1>3, <1>4, <1>5, <1>6, BusMoves DEF UsbInv, Types

LEMMA InvUnplug ==
    ASSUME UsbInv, NEW a \in Addresses, Unplug(a)
    PROVE  UsbInv'
  <1>1. /\ at' = [at EXCEPT ![a] = Nobody] /\ freed' = freed \cup {a}
        /\ at[a] # Nobody /\ transfer = << >>
        /\ claimed' = claimed \ {at[a]} /\ UNCHANGED transfer
        /\ encoder' = [encoder EXCEPT ![at[a]] = [c \in Cables |-> NewEncoder]]
        /\ handed' = [handed EXCEPT ![at[a]] = Nothing]
        /\ UNCHANGED <<slots, sinks, seats, available, found, ring, pc, limit, inStream, inPorts>>
    BY DEF Unplug, updateVars, routerVars, portVars
  <1>2. Nobody \notin Devices
    BY UsbHostAssumption
  <1>3. BusTypes'
    <2>1. [c \in Cables |-> NewEncoder] \in [Cables -> Encoders]
      BY UnusedIs
    <2> QED
      BY <1>1, <2>1 DEF UsbInv, Types, BusTypes
  <1>4. BusInv'
    BY <1>1, <1>2 DEF UsbInv, Types, BusTypes, BusInv
  <1>5. StreamTypes'
    <2>1. Nothing \in [Cables -> Seq(MidiMessages)]
      BY EmptySeq DEF Nothing
    <2> QED
      BY <1>1, <2>1 DEF UsbInv, Types, StreamTypes
  <1>6. \A x \in Addresses, y \in Devices : StillThere(x, y) => StillThere(x, y)'
    BY <1>1, <1>2 DEF UsbInv, Types, BusTypes, StillThere
  <1> QED
    BY <1>1, <1>3, <1>4, <1>5, <1>6, BusMoves DEF UsbInv, Types

LEMMA InvClaim == ASSUME UsbInv, NEW d \in Devices, Claim(d) PROVE UsbInv'
  <1>1. /\ claimed' = claimed \cup {d} /\ d \notin Hubs
        /\ UNCHANGED <<at, freed, encoder, transfer, handed>>
        /\ UNCHANGED <<slots, sinks, seats, available, found, ring, pc, limit, inStream, inPorts>>
    BY DEF Claim, deviceVars, updateVars, routerVars, portVars
  <1>2. BusTypes' /\ BusInv' /\ StreamTypes'
    BY <1>1 DEF UsbInv, Types, BusTypes, BusInv, StreamTypes
  <1>3. \A x \in Addresses, y \in Devices : StillThere(x, y) => StillThere(x, y)'
    BY <1>1 DEF StillThere
  <1> QED
    BY <1>1, <1>2, <1>3, BusMoves DEF UsbInv, Types

LEMMA InvDeviceSends ==
    ASSUME UsbInv, NEW a \in Addresses, NEW c \in Cables, NEW m \in Messages,
           DeviceSends(a, c, m)
    PROVE  UsbInv'
  <1> DEFINE d == at[a]
             packets == Encode(encoder[d][c], c, m)
             parcel(i) == [address |-> a, from |-> d, packet |-> packets[i]]
  <1>1. /\ d \in claimed
        /\ encoder' = [encoder EXCEPT ![d][c] = EncoderAfter(encoder[d][c], m)]
        /\ transfer' = [i \in 1..Len(packets) |-> parcel(i)]
        /\ UNCHANGED <<at, claimed, freed, handed>>
        /\ UNCHANGED <<slots, sinks, seats, available, found, ring, pc, limit, inStream, inPorts>>
    BY DEF DeviceSends, busVars, updateVars, routerVars, portVars
  <1>2. d \in Devices /\ m \in MidiMessages /\ encoder[d][c] \in Encoders
    BY <1>1, UsbHostAssumption DEF UsbInv, Types, BusTypes
  <1>3. packets \in Seq(Packets) /\ Len(packets) \in Nat
    BY <1>2, EncodeType, LenProperties
  <1> HIDE DEF packets, d
  <1>4. \A i \in 1..Len(packets) : parcel(i) \in Parcels
    BY <1>2, <1>3 DEF Parcels
  <1>5. transfer' \in Seq(Parcels) /\ Len(transfer') = Len(packets)
    BY <1>1, <1>3, <1>4
  <1>6. encoder' \in [Devices -> [Cables -> Encoders]]
    <2>1. EncoderAfter(encoder[d][c], m) \in Encoders
      BY <1>2, EncoderType
    <2> QED
      BY <1>1, <1>2, <2>1 DEF UsbInv, Types, BusTypes
  <1>7. BusTypes' /\ StreamTypes'
    BY <1>1, <1>5, <1>6 DEF UsbInv, Types, BusTypes, StreamTypes
  <1>8. \A i \in 1..Len(transfer') : at'[transfer'[i].address] = transfer'[i].from
    BY <1>1, <1>5 DEF d
  <1>9. BusInv'
    BY <1>1, <1>8 DEF UsbInv, BusInv
  <1>10. \A x \in Addresses, y \in Devices : StillThere(x, y) => StillThere(x, y)'
    BY <1>1 DEF StillThere
  <1> QED
    BY <1>1, <1>7, <1>9, <1>10, BusMoves DEF UsbInv, Types

(* A packet is handed over while its device is still there.                *)
LEMMA InvOnMidi == ASSUME UsbInv, OnMidi PROVE UsbInv'
  <1>1. /\ transfer # << >> /\ transfer' = Tail(transfer)
        /\ UNCHANGED <<at, claimed, freed, encoder, handed>>
        /\ UNCHANGED <<slots, sinks, seats, available, found, pc, limit, inStream, inPorts>>
        /\ \/ RingHasRoom /\ ring' = Append(ring, Head(transfer))
           \/ ring' = ring
    BY Zenon DEF OnMidi, busVars, deviceVars, updateVars, routerVars, portVars, outVars
  <1>2. /\ transfer \in Seq(Parcels) /\ Tail(transfer) \in Seq(Parcels)
        /\ Len(Tail(transfer)) = Len(transfer) - 1
        /\ \A i \in 1..Len(Tail(transfer)) : Tail(transfer)[i] = transfer[i + 1]
        /\ Len(transfer) \in Nat
        /\ Head(transfer) = transfer[1] /\ transfer[1] \in Parcels /\ Len(transfer) >= 1
    BY <1>1, HeadTailProperties, EmptySeq, LenProperties DEF UsbInv, Types, BusTypes
  <1>3. BusTypes' /\ StreamTypes' /\ SlotTypes'
    BY <1>1, <1>2 DEF UsbInv, Types, BusTypes, StreamTypes, SlotTypes
  <1>4. \A i \in 1..Len(transfer') : at'[transfer'[i].address] = transfer'[i].from
    BY <1>1, <1>2 DEF UsbInv, BusInv
  <1>5. BusInv'
    BY <1>1, <1>4 DEF UsbInv, BusInv
  <1>6. /\ ring \in Seq(Parcels) /\ Len(ring) \in Nat /\ limit \in 0..Len(ring)
        /\ RingSize \in Nat
    BY UsbHostAssumption, LenProperties DEF UsbInv, Types, RingTypes
  <1>7. RingTypes' /\ Len(ring') >= Len(ring)
    <2>1. CASE RingHasRoom /\ ring' = Append(ring, Head(transfer))
      <3>1. ring' \in Seq(Parcels) /\ Len(ring') = Len(ring) + 1
        BY <1>2, <1>6, <2>1, AppendProperties
      <3> QED
        BY <1>1, <1>6, <2>1, <3>1 DEF UsbInv, Types, RingTypes, RingHasRoom
    <2>2. CASE ring' = ring
      BY <1>1, <1>6, <2>2 DEF UsbInv, Types, RingTypes
    <2> QED
      BY <1>1, <2>1, <2>2
  <1>8. \A s \in Slots : Used(s)' <=> Used(s)
    BY <1>1 DEF Used
  <1>9. SlotsApart' /\ SeatsInv' /\ FoundInv' /\ StreamInv'
    BY <1>1, <1>8 DEF UsbInv, SlotsApart, SeatsInv, FoundInv, StreamInv, UsedSlots, StillThere
  <1>10. OwnedBySender(Head(transfer)) /\ StillThere(Head(transfer).address, Head(transfer).from)
    <2> DEFINE e == Head(transfer)
    <2>1. e.address \in Addresses /\ e.from \in Devices /\ at[e.address] = e.from
      BY <1>2 DEF UsbInv, BusInv, Parcels
    <2>2. e.from # Nobody /\ e.address \notin freed
      BY <2>1, UsbHostAssumption DEF UsbInv, BusInv
    <2> HIDE DEF e
    <2>3. \A x : StillThere(e.address, x) => x = e.from
      BY <2>1, <2>2 DEF StillThere
    <2>4. \A s \in SlotAt(e.address) : slots[s].device = e.from
      BY <2>3 DEF UsbInv, SlotsApart, SlotAt
    <2>5. \A i \in found : i.address = e.address => i.device = e.from
      BY <2>3 DEF UsbInv, FoundInv
    <2>6. StillThere(e.address, e.from)
      BY <2>1 DEF StillThere
    <2> QED
      BY <2>4, <2>5, <2>6 DEF OwnedBySender, e
  <1>11. RingInv'
    <2> SUFFICES ASSUME NEW k \in 1..Len(ring')
                 PROVE  /\ OwnedBySender(ring[k])'
                        /\ \/ StillThere(ring[k].address, ring[k].from)'
                           \/ pc' = "polling"
                           \/ pc' = "draining" /\ k <= limit'
      BY DEF RingInv
    <2>1. CASE k \in 1..Len(ring) /\ ring'[k] = ring[k]
      BY <1>1, <1>8, <2>1 DEF UsbInv, RingInv, OwnedBySender, SlotAt, StillThere
    <2>2. CASE ring'[k] = Head(transfer)
      BY <1>1, <1>8, <1>10, <2>2 DEF OwnedBySender, SlotAt, StillThere
    <2>3. ring' = ring => k \in 1..Len(ring) /\ ring'[k] = ring[k]
      OBVIOUS
    <2>4. ring' = Append(ring, Head(transfer)) =>
              \/ k \in 1..Len(ring) /\ ring'[k] = ring[k]
              \/ ring'[k] = Head(transfer)
      BY <1>2, <1>6, AppendProperties
    <2> QED
      BY <1>1, <2>1, <2>2, <2>3, <2>4
  <1> QED
    BY <1>3, <1>5, <1>7, <1>9, <1>11 DEF UsbInv, Types

(* What a poll keeps is at the address it was listed at.                   *)
LEMMA InvPoll == ASSUME UsbInv, Poll PROVE UsbInv'
  <1>1. /\ pc = "idle" /\ pc' = "polling" /\ freed' = {}
        /\ UNCHANGED <<at, claimed, encoder, transfer, handed, ring, limit, seats, sinks, inPorts>>
    BY DEF Poll, deviceVars, portVars
  <1>2. PICK list \in Listing :
            /\ Release({s \in Slots : Used(s) /\ Gone(s, list)})
            /\ found' = {i \in list : i.device \notin Hubs /\
                            SlotAt(i.address) \subseteq {s \in Slots : Used(s) /\ Gone(s, list)}}
    BY DEF Poll
  <1> DEFINE gone == {s \in Slots : Used(s) /\ Gone(s, list)}
  <1>3. gone \in SUBSET UsedSlots /\ Release(gone)
        /\ found' = {i \in list : i.device \notin Hubs /\ SlotAt(i.address) \subseteq gone}
    BY <1>2 DEF UsedSlots
  <1>4. \A i \in list : /\ i \in [address : Addresses, device : Devices]
                        /\ at[i.address] = i.device
    BY DEF Listing, UsbInv, Types, BusTypes
  <1>5. \A s \in Slots : Used(s) /\ s \notin gone =>
            \E i \in list : i.address = slots[s].address
    BY DEF Gone
  <1> HIDE DEF gone
  <1>6. SlotTypes' /\ StreamTypes' /\ SeatsInv' /\ StreamInv'
    BY <1>1, <1>3, ReleaseType, ReleaseSeats, ReleaseStreams DEF UsbInv, Types
  <1>7. /\ \A s \in gone : slots'[s] = Unused /\ ~Used(s)'
        /\ \A s \in Slots \ gone : slots'[s] = slots[s] /\ (Used(s)' <=> Used(s))
    BY <1>1, <1>3, ReleaseKeeps DEF UsbInv, Types
  <1>8. \A s \in Slots : Used(s)' =>
            /\ slots'[s] = slots[s] /\ Used(s) /\ s \notin gone
            /\ at[slots[s].address] = slots[s].device
    <2> SUFFICES ASSUME NEW s \in Slots, Used(s)'
                 PROVE  /\ slots'[s] = slots[s] /\ Used(s) /\ s \notin gone
                        /\ at[slots[s].address] = slots[s].device
      OBVIOUS
    <2>1. slots'[s] = slots[s] /\ Used(s) /\ s \notin gone
      BY <1>7
    <2>2. PICK i \in list : i.address = slots[s].address
      BY <1>5, <2>1
    <2>3. at[i.address] # Nobody /\ i.address \in Addresses
      BY <1>4, UsbHostAssumption
    <2>4. slots[s].address \notin freed
      BY <2>2, <2>3 DEF UsbInv, BusInv
    <2> QED
      BY <2>1, <2>4 DEF UsbInv, SlotsApart, StillThere
  <1>9. BusTypes' /\ BusInv'
    BY <1>1 DEF UsbInv, Types, BusTypes, BusInv
  <1>10. RingTypes'
    BY <1>1, <1>3, <1>4 DEF UsbInv, Types, RingTypes
  <1>11. SlotsApart'
    BY <1>1, <1>8 DEF UsbInv, SlotsApart, StillThere
  <1>12. FoundInv'
    <2>1. \A i \in found' : i \in list /\ at[i.address] = i.device
                            /\ i.address \in Addresses /\ i.device \in Devices
      BY <1>3, <1>4
    <2>2. \A i \in found' : StillThere(i.address, i.device)'
      BY <1>1, <2>1 DEF StillThere
    <2>3. \A i, j \in found' : i.address = j.address \/ i.device = j.device => i = j
      <3> SUFFICES ASSUME NEW i \in found', NEW j \in found',
                          i.address = j.address \/ i.device = j.device
                   PROVE  i = j
        OBVIOUS
      <3>1. i.address = j.address /\ i.device = j.device
        BY <2>1, UsbHostAssumption DEF UsbInv, BusInv
      <3>2. i \in [address : Addresses, device : Devices]
            /\ j \in [address : Addresses, device : Devices]
        BY <1>4, <2>1
      <3> QED
        BY <3>1, <3>2
    <2>4. ASSUME NEW i \in found', NEW s \in Slots, Used(s)'
          PROVE  slots'[s].address # i.address /\ slots'[s].device # i.device
      <3>1. slots'[s] = slots[s] /\ Used(s) /\ s \notin gone
            /\ at[slots[s].address] = slots[s].device
        BY <1>8, <2>4
      <3>2. s \notin SlotAt(i.address)
        BY <1>3, <3>1
      <3>3. slots[s].address # i.address
        BY <3>1, <3>2 DEF SlotAt
      <3>4. slots[s].address \in Addresses
        BY <3>1, UsedIs DEF UsbInv, Types
      <3> QED
        BY <2>1, <3>1, <3>3, <3>4, UsbHostAssumption DEF UsbInv, BusInv
    <2> QED
      BY <1>1, <2>2, <2>3, <2>4 DEF FoundInv
  <1>13. RingInv'
    <2> SUFFICES ASSUME NEW k \in 1..Len(ring)
                 PROVE  OwnedBySender(ring[k])'
      BY <1>1 DEF RingInv
    <2> DEFINE e == ring[k]
    <2>1. OwnedBySender(e) /\ StillThere(e.address, e.from) /\ e \in Parcels
      BY <1>1 DEF UsbInv, Types, RingInv, RingTypes
    <2>2. e.address \in Addresses /\ e.from \in Devices
      BY <2>1 DEF Parcels
    <2>3. e' = e
      BY <1>1
    <2> HIDE DEF e
    <2>4. \A s \in Slots : Used(s)' /\ slots'[s].address = e.address => slots'[s].device = e.from
      BY <1>8, <2>1 DEF OwnedBySender, SlotAt
    <2>5. \A i \in found' : i.address = e.address => i.device = e.from
      <3> SUFFICES ASSUME NEW i \in found', i.address = e.address
                   PROVE  i.device = e.from
        OBVIOUS
      <3>1. at[e.address] = i.device /\ i.device # Nobody
        BY <1>3, <1>4, UsbHostAssumption
      <3>2. e.address \notin freed
        BY <2>2, <3>1 DEF UsbInv, BusInv
      <3> QED
        BY <2>1, <3>1, <3>2 DEF StillThere
    <2> QED
      BY <2>3, <2>4, <2>5 DEF OwnedBySender, SlotAt, e
  <1> QED
    BY <1>6, <1>9, <1>10, <1>11, <1>12, <1>13 DEF UsbInv, Types

(* What was found and passed over is forgotten.                            *)
LEMMA InvPassOver ==
    ASSUME UsbInv, NEW i \in found, Skip(i) \/ Refuse(i)
    PROVE  UsbInv'
  <1>1. /\ pc = "polling" /\ found' = found \ {i}
        /\ UNCHANGED <<at, claimed, freed, encoder, transfer, handed>>
        /\ UNCHANGED <<slots, sinks, seats, available, ring, pc, limit, inStream, inPorts>>
    BY Zenon DEF Skip, Refuse, Found, busVars, deviceVars, routerVars, portVars, outVars
  <1>2. Types'
    BY <1>1 DEF UsbInv, Types, BusTypes, RingTypes, SlotTypes, StreamTypes
  <1>3. BusInv'
    BY <1>1 DEF UsbInv, BusInv
  <1>4. \A s \in Slots : Used(s)' <=> Used(s)
    BY <1>1 DEF Used
  <1>5. SlotsApart' /\ SeatsInv' /\ StreamInv'
    BY <1>1, <1>4 DEF UsbInv, SlotsApart, SeatsInv, StreamInv, UsedSlots, StillThere
  <1>6. FoundInv'
    BY <1>1, <1>4 DEF UsbInv, FoundInv, StillThere
  <1>7. RingInv'
    BY <1>1, <1>4 DEF UsbInv, RingInv, OwnedBySender, SlotAt, StillThere
  <1> QED
    BY <1>2, <1>3, <1>5, <1>6, <1>7 DEF UsbInv

(* adopt() into slot s: nothing else of any slot changes.                  *)
Adopted(i, s) ==
    /\ ~Used(s) /\ Used(s)'
    /\ \E attached \in SUBSET {p \in Ports(i.device) : p[2] < OutCables[i.device]} :
           sinks' = Sinks(i.device, s, attached)
    /\ \E attached \in SUBSET Ports(i.device) : inPorts' = inPorts \cup attached
    /\ slots' \in [Slots -> SlotStates]
    /\ slots'[s].device = i.device /\ slots'[s].address = i.address
    /\ \A c \in Cables : slots'[s].open[c] = FALSE
    /\ \A t \in Slots : t # s => slots'[t] = slots[t] /\ (Used(t)' <=> Used(t))
    /\ i.device \in Devices /\ i.address \in Addresses

LEMMA AdoptIs ==
    ASSUME UsbInv, NEW i \in found, Adopt(i)
    PROVE  \E s \in Slots : Adopted(i, s)
  <1> DEFINE d == i.device
             free == {x \in Slots : ~Used(x)}
             first == CHOOSE x \in free : \A y \in free : x <= y
             new == [Unused EXCEPT !.device = d, !.address = i.address]
             ins == Lowest(Missing(d, InCables, inPorts), room)
             outs == Lowest(Missing(d, OutCables, DOMAIN sinks), room - Cardinality(ins))
  <1>1. /\ free # {} /\ slots' = [slots EXCEPT ![first] = new]
        /\ sinks' = Sinks(d, first, outs) /\ inPorts' = inPorts \cup ins
    BY DEF Adopt
  <1>7. /\ ins \in SUBSET Ports(d)
        /\ outs \in SUBSET {p \in Ports(d) : p[2] < OutCables[d]}
    BY DEF Lowest, Missing
  <1>2. /\ i \in [address : Addresses, device : Devices]
        /\ d \in Devices /\ i.address \in Addresses /\ d # Nobody
    BY UsbHostAssumption DEF UsbInv, Types, RingTypes
  <1>3. PICK s \in Slots : s = first /\ ~Used(s)
    <2>1. \E x \in free : \A y \in free : x <= y
      <3>1. free \in SUBSET Nat /\ free # {}
        BY <1>1, UsbHostAssumption DEF Slots
      <3> HIDE DEF free
      <3> QED
        BY <3>1, LeastIn
    <2>2. first \in free
      BY <2>1
    <2> QED
      BY <2>2
  <1>4. /\ new.device = d /\ new.address = i.address
        /\ \A c \in Cables : new.open[c] = FALSE
        /\ new \in SlotStates
    <2> HIDE DEF d
    <2>1. Unused \in [device : {Nobody}, address : {Nobody},
                      open : [Cables -> {FALSE}], encoder : [Cables -> Encoders]]
      BY UnusedIs DEF Unused
    <2>2. new \in [device : {d}, address : {i.address},
                   open : [Cables -> {FALSE}], encoder : [Cables -> Encoders]]
      BY <2>1
    <2> HIDE DEF new
    <2> QED
      BY <1>2, <2>2 DEF SlotStates
  <1> HIDE DEF first, new, free, d, ins, outs
  <1>5. /\ slots'[s] = new /\ Used(s)'
        /\ \A t \in Slots : t # s => slots'[t] = slots[t] /\ (Used(t)' <=> Used(t))
        /\ slots' \in [Slots -> SlotStates]
    <2>1. slots \in [Slots -> SlotStates]
      BY DEF UsbInv, Types, SlotTypes
    <2>2. slots'[s] = new /\ \A t \in Slots : t # s => slots'[t] = slots[t]
      BY <1>1, <1>3, <2>1
    <2>3. slots' \in [Slots -> SlotStates]
      BY <1>1, <1>4, <2>1
    <2>4. Used(s)' /\ \A t \in Slots : t # s => (Used(t)' <=> Used(t))
      BY <1>2, <1>4, <2>2 DEF Used
    <2> QED
      BY <2>2, <2>3, <2>4
  <1>6. Adopted(i, s)
    BY <1>1, <1>2, <1>3, <1>4, <1>5, <1>7 DEF Adopted, d
  <1> QED
    BY <1>6

LEMMA InvAdopt == ASSUME UsbInv, NEW i \in found, Adopt(i) PROVE UsbInv'
  <1> DEFINE d == i.device
  <1>1. /\ pc = "polling" /\ found' = found \ {i} /\ at[i.address] = d
        /\ d \in claimed
        /\ seats' = seats \cup {d} /\ available' = available \cup {d}
        /\ UNCHANGED <<at, claimed, freed, encoder, transfer, ring, pc, limit, inStream, handed>>
    BY DEF Adopt, Found, busVars, deviceVars
  <1>3. PICK s \in Slots : Adopted(i, s)
    BY AdoptIs
  <1>2. d \in Devices /\ i.address \in Addresses /\ d # Nobody
    BY <1>3, UsbHostAssumption DEF Adopted
  <1>15. PICK outs \in SUBSET {p \in Ports(d) : p[2] < OutCables[d]} : sinks' = Sinks(d, s, outs)
    BY <1>3 DEF Adopted
  <1>16. PICK ins \in SUBSET Ports(d) : inPorts' = inPorts \cup ins
    BY <1>3 DEF Adopted
  <1>4. ~Used(s) /\ Used(s)' /\ slots'[s].device = d /\ slots'[s].address = i.address
        /\ \A c \in Cables : slots'[s].open[c] = FALSE
    BY <1>3 DEF Adopted
  <1> HIDE DEF d
  <1>5. /\ \A t \in Slots : t # s => slots'[t] = slots[t] /\ (Used(t)' <=> Used(t))
        /\ slots' \in [Slots -> SlotStates]
    BY <1>3 DEF Adopted
  <1>6. SlotTypes'
    <2>1. DOMAIN sinks' = DOMAIN sinks \cup outs
      BY <1>15 DEF Sinks
    <2>2. \A p \in outs : p \in Devices \X Cables /\ p[1] = d
      BY <1>2, <1>15 DEF Ports
    <2>3. ASSUME NEW p \in DOMAIN sinks'
          PROVE  sinks'[p] \in [slot : Slots, cable : Cables]
      <3>1. p \in Devices \X Cables /\ (p[1] # d => p \in DOMAIN sinks)
        BY <2>1, <2>2 DEF UsbInv, Types, SlotTypes
      <3>2. sinks'[p] = IF p[1] = d THEN [slot |-> s, cable |-> p[2]] ELSE sinks[p]
        BY <1>15, <2>1 DEF Sinks
      <3>3. p[2] \in Cables
        BY <3>1
      <3> QED
        BY <1>3, <3>1, <3>2, <3>3 DEF UsbInv, Types, SlotTypes
    <2> QED
      BY <1>1, <1>2, <1>5, <2>1, <2>2, <2>3 DEF UsbInv, Types, SlotTypes
  <1>7. BusTypes' /\ RingTypes' /\ StreamTypes'
    BY <1>1 DEF UsbInv, Types, BusTypes, RingTypes, StreamTypes
  <1>8. BusInv'
    BY <1>1 DEF UsbInv, BusInv
  <1>9. \A t \in Slots : Used(t) => slots[t].address # i.address /\ slots[t].device # d
    BY DEF UsbInv, FoundInv, d
  <1>10. SlotsApart'
    <2>1. \A t \in Slots : Used(t)' => StillThere(slots[t].address, slots[t].device)'
      BY <1>1, <1>4, <1>5 DEF UsbInv, SlotsApart, StillThere
    <2> QED
      BY <1>4, <1>5, <1>9, <2>1 DEF UsbInv, SlotsApart
  <1>11. SeatsInv'
    <2>1. \A t \in Slots : Used(t)' <=> t = s \/ Used(t)
      BY <1>4, <1>5
    <2>2. available' = {slots'[t].device : t \in UsedSlots'}
      BY <1>1, <1>4, <1>5, <2>1 DEF UsbInv, SeatsInv, UsedSlots
    <2>3. ASSUME NEW t \in Slots, NEW x \in DOMAIN sinks', slots'[t].device = x[1]
          PROVE  sinks'[x] = [slot |-> t, cable |-> x[2]]
      <3>1. DOMAIN sinks' = DOMAIN sinks \cup outs
            /\ sinks'[x] = IF x[1] = d THEN [slot |-> s, cable |-> x[2]] ELSE sinks[x]
        BY <1>15 DEF Sinks
      <3>2. CASE t = s
        BY <1>4, <2>3, <3>1, <3>2
      <3>3. CASE t # s
        <4>1. x[1] # d
          <5>1. Used(t) => slots[t].device # d
            BY <1>9
          <5> QED
            BY <1>2, <1>5, <2>3, <3>3, <5>1 DEF Used
        <4>2. x \in DOMAIN sinks
          <5>1. \A p \in outs : p[1] = d
            BY DEF Ports
          <5> QED
            BY <3>1, <4>1, <5>1
        <4> QED
          BY <1>5, <2>3, <3>1, <3>3, <4>1, <4>2 DEF UsbInv, SeatsInv
      <3> QED
        BY <3>2, <3>3
    <2> QED
      BY <2>2, <2>3 DEF SeatsInv
  <1>12. FoundInv'
    <2>1. \A j \in found' : j \in found /\ j.address # i.address /\ j.device # d
      BY <1>1 DEF UsbInv, FoundInv, d
    <2> QED
      BY <1>1, <1>4, <1>5, <2>1 DEF UsbInv, FoundInv, StillThere
  <1>13. RingInv'
    <2> SUFFICES ASSUME NEW k \in 1..Len(ring)
                 PROVE  OwnedBySender(ring[k])'
      BY <1>1 DEF RingInv
    <2>1. OwnedBySender(ring[k])
      BY DEF UsbInv, RingInv
    <2>2. \A t \in Slots : Used(t)' /\ slots'[t].address = ring[k].address =>
              slots'[t].device = ring[k].from
      BY <1>4, <1>5, <2>1 DEF OwnedBySender, SlotAt, d
    <2> QED
      BY <1>1, <2>1, <2>2 DEF OwnedBySender, SlotAt
  <1>14. StreamInv'
    <2> SUFFICES ASSUME NEW x \in Devices, NEW c \in Cables
                 PROVE  <<x, c>> \in inStream' <=>
                            /\ <<x, c>> \in inPorts'
                            /\ \E t \in Slots : slots'[t].device = x /\ slots'[t].open[c]
      BY <1>1 DEF StreamInv
    <2>1. x # Nobody
      BY UsbHostAssumption
    <2>2. slots[s].device # x
      BY <1>4, <2>1 DEF Used
    <2>3. (\E t \in Slots : slots'[t].device = x /\ slots'[t].open[c]) <=>
          (\E t \in Slots : slots[t].device = x /\ slots[t].open[c])
      BY <1>3, <1>4, <1>5, <2>2
    <2>4. x = d => ~\E t \in Slots : slots[t].device = x
      BY <1>9, <2>1 DEF Used
    <2>5. x # d => (<<x, c>> \in inPorts' <=> <<x, c>> \in inPorts)
      BY <1>16 DEF Ports
    <2> QED
      <3>1. <<x, c>> \in inStream <=>
                /\ <<x, c>> \in inPorts
                /\ \E t \in Slots : slots[t].device = x /\ slots[t].open[c]
        BY DEF UsbInv, StreamInv
      <3>2. CASE x = d
        BY <1>1, <2>3, <2>4, <3>1, <3>2
      <3>3. CASE x # d
        BY <1>1, <2>3, <2>5, <3>1, <3>3
      <3> QED
        BY <3>2, <3>3
  <1> QED
    BY <1>6, <1>7, <1>8, <1>10, <1>11, <1>12, <1>13, <1>14 DEF UsbInv, Types

LEMMA InvDrainBounds ==
    ASSUME UsbInv, BeginDrain \/ EndUpdate
    PROVE  UsbInv'
  <1>1. /\ UNCHANGED <<at, claimed, freed, encoder, transfer, handed>>
        /\ UNCHANGED <<slots, sinks, seats, available, found, ring, inStream, inPorts>>
    BY Zenon DEF BeginDrain, EndUpdate, busVars, deviceVars, routerVars, portVars, outVars
  <1>2. \/ pc \in {"idle", "polling"} /\ found = {} /\ pc' = "draining" /\ limit' = Len(ring)
        \/ pc = "draining" /\ limit = 0 /\ pc' = "idle" /\ limit' = limit
    BY DEF BeginDrain, EndUpdate, UsbInv, FoundInv
  <1>3. ring \in Seq(Parcels) /\ Len(ring) \in Nat /\ limit \in 0..Len(ring)
    BY LenProperties DEF UsbInv, Types, RingTypes
  <1>4. Types'
    BY <1>1, <1>2, <1>3 DEF UsbInv, Types, BusTypes, RingTypes, SlotTypes, StreamTypes
  <1>5. BusInv'
    BY <1>1 DEF UsbInv, BusInv
  <1>6. \A s \in Slots : Used(s)' <=> Used(s)
    BY <1>1 DEF Used
  <1>7. SlotsApart' /\ SeatsInv' /\ StreamInv'
    BY <1>1, <1>6 DEF UsbInv, SlotsApart, SeatsInv, StreamInv, UsedSlots, StillThere
  <1>8. FoundInv'
    BY <1>1, <1>2, <1>6 DEF UsbInv, FoundInv, StillThere
  <1>9. RingInv'
    <2> SUFFICES ASSUME NEW k \in 1..Len(ring)
                 PROVE  /\ OwnedBySender(ring[k])'
                        /\ \/ StillThere(ring[k].address, ring[k].from)'
                           \/ pc' = "polling"
                           \/ pc' = "draining" /\ k <= limit'
      BY <1>1 DEF RingInv
    <2>1. OwnedBySender(ring[k])'
      BY <1>1, <1>6 DEF UsbInv, RingInv, OwnedBySender, SlotAt
    <2>2. CASE pc' = "draining" /\ limit' = Len(ring)
      BY <1>3, <2>1, <2>2
    <2>3. CASE pc = "draining" /\ limit = 0
      <3>1. StillThere(ring[k].address, ring[k].from)
        BY <1>3, <2>3 DEF UsbInv, RingInv
      <3> QED
        BY <1>1, <2>1, <3>1 DEF StillThere
    <2> QED
      BY <1>2, <2>2, <2>3
  <1> QED
    BY <1>4, <1>5, <1>7, <1>8, <1>9 DEF UsbInv

(* Nothing changes hands while the decoders and the encoders of the slots  *)
(* do their work.                                                          *)
LEMMA OwnersStay ==
    ASSUME UsbInv, slots' \in [Slots -> SlotStates],
           \A s \in Slots : slots'[s].device = slots[s].device
                            /\ slots'[s].address = slots[s].address,
           UNCHANGED <<at, claimed, freed, encoder, transfer, sinks, seats, available, found, pc>>
    PROVE  /\ BusTypes' /\ SlotTypes' /\ BusInv' /\ SlotsApart' /\ SeatsInv' /\ FoundInv'
           /\ \A a : SlotAt(a)' = SlotAt(a)
           /\ \A s \in Slots : Used(s)' <=> Used(s)
  <1>1. \A s \in Slots : Used(s)' <=> Used(s)
    BY DEF Used
  <1>2. BusTypes' /\ SlotTypes' /\ BusInv'
    BY DEF UsbInv, Types, BusTypes, SlotTypes, BusInv
  <1>3. SlotsApart'
    BY <1>1 DEF UsbInv, SlotsApart, StillThere
  <1>4. SeatsInv'
    BY <1>1 DEF UsbInv, SeatsInv, UsedSlots
  <1>5. FoundInv'
    BY <1>1 DEF UsbInv, FoundInv, StillThere
  <1>6. \A a : SlotAt(a)' = SlotAt(a)
    BY <1>1 DEF SlotAt
  <1> QED
    BY <1>1, <1>2, <1>3, <1>4, <1>5, <1>6

(* What is left in the ring when its first packet is taken.                *)
LEMMA RingMovesOn ==
    ASSUME UsbInv, NextPacket, \A a : SlotAt(a)' = SlotAt(a),
           \A s \in Slots : slots'[s].device = slots[s].device
    PROVE  /\ ring # << >> /\ Head(ring) = ring[1] /\ Head(ring) \in Parcels
           /\ RingTypes' /\ RingInv'
  <1>1. /\ pc = "draining" /\ limit > 0 /\ limit' = limit - 1 /\ ring' = Tail(ring)
        /\ UNCHANGED <<at, freed, pc, found>>
    BY DEF NextPacket, busVars
  <1>2. ring \in Seq(Parcels) /\ Len(ring) \in Nat /\ limit \in 1..Len(ring)
    BY <1>1, LenProperties DEF UsbInv, Types, RingTypes
  <1>3. ring # << >>
    BY <1>2, EmptySeq
  <1>4. /\ ring' \in Seq(Parcels) /\ Len(ring') = Len(ring) - 1
        /\ \A k \in 1..Len(ring') : ring'[k] = ring[k + 1]
        /\ Head(ring) = ring[1] /\ Head(ring) \in Parcels
    BY <1>1, <1>2, <1>3, HeadTailProperties
  <1>5. RingTypes'
    BY <1>1, <1>2, <1>4, UsbHostAssumption DEF UsbInv, Types, RingTypes
  <1>6. RingInv'
    <2> SUFFICES ASSUME NEW k \in 1..Len(ring')
                 PROVE  /\ OwnedBySender(ring[k])'
                        /\ \/ StillThere(ring[k].address, ring[k].from)'
                           \/ pc' = "draining" /\ k <= limit'
      BY DEF RingInv
    <2>1. k + 1 \in 1..Len(ring) /\ ring'[k] = ring[k + 1]
      BY <1>2, <1>4
    <2>2. \A s \in SlotAt(ring[k + 1].address) : s \in Slots
      BY DEF SlotAt
    <2>3. OwnedBySender(ring[k])'
      BY <1>1, <2>1, <2>2 DEF UsbInv, RingInv, OwnedBySender
    <2>4. StillThere(ring[k + 1].address, ring[k + 1].from) \/ k + 1 <= limit
      BY <1>1, <2>1 DEF UsbInv, RingInv
    <2>5. CASE StillThere(ring[k + 1].address, ring[k + 1].from)
      BY <1>1, <2>1, <2>3, <2>5 DEF StillThere
    <2>6. CASE k + 1 <= limit
      BY <1>1, <1>2, <1>4, <2>3, <2>6
    <2> QED
      BY <2>4, <2>5, <2>6
  <1> QED
    BY <1>3, <1>4, <1>5, <1>6

LEMMA InvDiscard == ASSUME UsbInv, Discard PROVE UsbInv'
  <1>1. /\ NextPacket /\ UNCHANGED <<slots, handed, inStream, inPorts>>
        /\ UNCHANGED <<at, claimed, freed, encoder, transfer, sinks, seats, available, found, pc>>
    BY DEF Discard, NextPacket, busVars, deviceVars, routerVars, portVars
  <1>2. slots \in [Slots -> SlotStates]
    BY DEF UsbInv, Types, SlotTypes
  <1>3. /\ BusTypes' /\ SlotTypes' /\ BusInv' /\ SlotsApart' /\ SeatsInv' /\ FoundInv'
        /\ \A a : SlotAt(a)' = SlotAt(a)
    BY <1>1, <1>2, OwnersStay
  <1>4. RingTypes' /\ RingInv'
    BY <1>1, <1>3, RingMovesOn
  <1>5. StreamTypes' /\ StreamInv'
    BY <1>1 DEF UsbInv, Types, StreamTypes, StreamInv
  <1> QED
    BY <1>3, <1>4, <1>5 DEF UsbInv, Types

(* The stream of an input follows its decoder.                             *)
LEMMA StreamFollows ==
    ASSUME NEW open \in BOOLEAN, NEW p \in Packets, NEW S, NEW x,
           x \in S <=> open
    PROVE  /\ x \in StreamsAfter(S, x, Decode(open, p)) <=> OpenAfterPacket(open, p)
           /\ \A y : y # x => (y \in StreamsAfter(S, x, Decode(open, p)) <=> y \in S)
           /\ \A y \in StreamsAfter(S, x, Decode(open, p)) : y \in S \/ y = x
  <1> DEFINE got == Decode(open, p)
  <1>1. got = << >> \/ (got # << >> /\ got \in Seq(MidiMessages) /\ Len(got) = 1)
    BY DecodeIs
  <1>2. OpenAfterPacket(open, p) = IF got = << >> THEN open ELSE OpenAfter(open, got[1])
    BY Zenon DEF OpenAfterPacket
  <1> HIDE DEF got
  <1>3. \A y : y # x => (y \in StreamsAfter(S, x, got) <=> y \in S)
    BY DEF StreamsAfter
  <1>4. \A y \in StreamsAfter(S, x, got) : y \in S \/ y = x
    BY DEF StreamsAfter
  <1>5. CASE got = << >>
    <2>1. DOMAIN got = {}
      BY <1>5
    <2>2. x \in StreamsAfter(S, x, got) <=> x \in S
      BY <2>1 DEF StreamsAfter
    <2> QED
      BY <1>2, <1>3, <1>4, <1>5, <2>2 DEF got
  <1>6. CASE got # << >> /\ got \in Seq(MidiMessages) /\ Len(got) = 1
    <2>1. DOMAIN got = {1} /\ got[1] \in MidiMessages
      BY <1>6
    <2>2. x \in StreamsAfter(S, x, got) <=>
              (x \in S /\ ~(got[1].chunk /\ got[1].end)) \/ (got[1].chunk /\ ~got[1].end)
      BY <2>1 DEF StreamsAfter
    <2>3. OpenAfter(open, got[1]) <=> (open /\ ~got[1].chunk) \/ (got[1].chunk /\ ~got[1].end)
      BY <2>1 DEF OpenAfter, MidiMessages
    <2>4. x \in StreamsAfter(S, x, got) <=> OpenAfterPacket(open, p)
      BY <1>2, <1>6, <2>2, <2>3
    <2> QED
      BY <1>3, <1>4, <2>4 DEF got
  <1> QED
    BY <1>1, <1>5, <1>6

(* drain() of a packet for slot s: it moves the decoder of the cable, and  *)
(* nothing else of any slot.                                               *)
Drained(s, d, p, open) ==
    /\ s \in SlotAt(Head(ring).address) /\ p = Head(ring).packet /\ p \in Packets
    /\ p.cable \in Cables /\ d = slots[s].device /\ d \in Devices
    /\ open = slots[s].open[p.cable] /\ open \in BOOLEAN
    /\ IF <<d, p.cable>> \in inPorts
       THEN /\ handed' = [handed EXCEPT ![d][p.cable] = @ \o Decode(open, p)]
            /\ inStream' = StreamsAfter(inStream, <<d, p.cable>>, Decode(open, p))
            /\ impaired' = impaired
       ELSE impaired' = impaired \cup {d} /\ handed' = handed /\ inStream' = inStream
    /\ slots' \in [Slots -> SlotStates]
    /\ slots'[s].open[p.cable] = OpenAfterPacket(open, p)
    /\ \A k \in Cables : k # p.cable => slots'[s].open[k] = slots[s].open[k]
    /\ \A t \in Slots : /\ slots'[t].device = slots[t].device
                        /\ slots'[t].address = slots[t].address
                        /\ slots'[t].encoder = slots[t].encoder
                        /\ t # s => slots'[t] = slots[t]

LEMMA DrainIs ==
    ASSUME UsbInv, Drain
    PROVE  \E s \in Slots : \E d, p, open : Drained(s, d, p, open)
  <1> DEFINE p == Head(ring).packet
             c == p.cable
  <1>1. PICK s \in SlotAt(Head(ring).address) :
            /\ slots' = [slots EXCEPT ![s].open[c] = OpenAfterPacket(slots[s].open[c], p)]
            /\ IF <<slots[s].device, c>> \in inPorts
               THEN /\ handed' = [handed EXCEPT ![slots[s].device][c] =
                                     @ \o Decode(slots[s].open[c], p)]
                    /\ inStream' = StreamsAfter(inStream, <<slots[s].device, c>>,
                                                Decode(slots[s].open[c], p))
                    /\ impaired' = impaired
               ELSE /\ impaired' = impaired \cup {slots[s].device}
                    /\ handed' = handed /\ inStream' = inStream
    BY Zenon DEF Drain
  <1> DEFINE d == slots[s].device
             open == slots[s].open[c]
             after == OpenAfterPacket(open, p)
  <1>2. Head(ring) \in Parcels
    <2>1. limit > 0 /\ ring \in Seq(Parcels) /\ limit \in 0..Len(ring)
      BY DEF Drain, NextPacket, UsbInv, Types, RingTypes
    <2>2. ring # << >>
      BY <2>1, EmptySeq, LenProperties
    <2> QED
      BY <2>1, <2>2, HeadTailProperties
  <1>3. p \in Packets /\ c \in Cables
    BY <1>2 DEF Parcels, Packets
  <1>4. /\ s \in Slots /\ Used(s) /\ d \in Devices
        /\ slots[s] \in [device : Devices, address : Addresses,
                         open : [Cables -> BOOLEAN], encoder : [Cables -> Encoders]]
    BY <1>1, UsedIs DEF SlotAt, UsbInv, Types, Used
  <1>5. open \in BOOLEAN /\ after \in BOOLEAN
    BY <1>3, <1>4, DecodeIs
  <1>6. slots' = [slots EXCEPT ![s].open[c] = after]
    BY <1>1
  <1>7. IF <<d, c>> \in inPorts
        THEN /\ handed' = [handed EXCEPT ![d][c] = @ \o Decode(open, p)]
             /\ inStream' = StreamsAfter(inStream, <<d, c>>, Decode(open, p))
             /\ impaired' = impaired
        ELSE impaired' = impaired \cup {d} /\ handed' = handed /\ inStream' = inStream
    BY <1>1, Zenon
  <1> HIDE DEF d, p, c, open, after
  <1>8. /\ slots'[s] \in [device : {d}, address : {slots[s].address},
                          open : [Cables -> BOOLEAN], encoder : {slots[s].encoder}]
        /\ slots'[s] \in SlotStates
        /\ slots'[s].open[c] = after
        /\ \A k \in Cables : k # c => slots'[s].open[k] = slots[s].open[k]
    <2>1. slots'[s] = [slots[s] EXCEPT !.open[c] = after]
      BY <1>4, <1>6 DEF UsbInv, Types, SlotTypes
    <2>2. slots[s] \in [device : {d}, address : {slots[s].address},
                        open : [Cables -> BOOLEAN], encoder : {slots[s].encoder}]
      BY <1>4 DEF d
    <2>3. /\ slots'[s] \in [device : {d}, address : {slots[s].address},
                            open : [Cables -> BOOLEAN], encoder : {slots[s].encoder}]
          /\ slots'[s].open[c] = after
          /\ \A k \in Cables : k # c => slots'[s].open[k] = slots[s].open[k]
      BY <1>3, <1>5, <2>1, <2>2
    <2>4. slots[s].address \in Addresses /\ slots[s].encoder \in [Cables -> Encoders]
      BY <1>4
    <2>5. slots'[s] \in SlotStates
      BY <1>4, <2>3, <2>4 DEF SlotStates
    <2> QED
      BY <2>3, <2>5
  <1>9. /\ \A t \in Slots : t # s => slots'[t] = slots[t]
        /\ slots' \in [Slots -> SlotStates]
    <2>1. slots \in [Slots -> SlotStates]
      BY DEF UsbInv, Types, SlotTypes
    <2>2. slots' = [t \in Slots |-> slots'[t]] /\ \A t \in Slots : t # s => slots'[t] = slots[t]
      BY <1>4, <1>6, <2>1
    <2> QED
      BY <1>8, <2>1, <2>2
  <1>10. \A t \in Slots : /\ slots'[t].device = slots[t].device
                          /\ slots'[t].address = slots[t].address
                          /\ slots'[t].encoder = slots[t].encoder
    BY <1>8, <1>9 DEF d
  <1>11. Drained(s, d, p, open)
    BY <1>1, <1>3, <1>4, <1>5, <1>7, <1>8, <1>9, <1>10 DEF Drained, d, p, c, open, after
  <1> QED
    BY <1>4, <1>11

LEMMA InvDrain == ASSUME UsbInv, Drain PROVE UsbInv'
  <1>1. /\ NextPacket
        /\ UNCHANGED <<at, claimed, freed, encoder, transfer, sinks, seats, available, inPorts, found, pc>>
    BY DEF Drain, NextPacket, busVars, deviceVars, routerVars, portVars
  <1>2. PICK s \in Slots : \E d, p, open : Drained(s, d, p, open)
    BY DrainIs
  <1>3. PICK d, p, before : Drained(s, d, p, before)
    BY <1>2
  <1> DEFINE c == p.cable
             got == Decode(before, p)
             after == OpenAfterPacket(before, p)
  <1>4. p \in Packets /\ c \in Cables
    BY <1>3 DEF Drained
  <1>5. /\ Used(s) /\ d \in Devices /\ d # Nobody /\ d = slots[s].device
        /\ before = slots[s].open[c]
    BY <1>3 DEF Drained, SlotAt, Used
  <1>6. before \in BOOLEAN /\ after \in BOOLEAN /\ got \in Seq(MidiMessages)
    BY <1>3, <1>4, DecodeIs DEF Drained
  <1>7. IF <<d, c>> \in inPorts
        THEN /\ inStream' = StreamsAfter(inStream, <<d, c>>, Decode(before, p))
             /\ handed' = [handed EXCEPT ![d][c] = @ \o got]
        ELSE handed' = handed /\ inStream' = inStream
    BY <1>3 DEF Drained
  <1>10. /\ slots'[s].open[c] = after
         /\ \A k \in Cables : k # c => slots'[s].open[k] = slots[s].open[k]
         /\ \A t \in Slots : t # s => slots'[t] = slots[t]
         /\ slots' \in [Slots -> SlotStates]
    BY <1>3 DEF Drained
  <1>11. \A t \in Slots : slots'[t].device = slots[t].device
                          /\ slots'[t].address = slots[t].address
    BY <1>3 DEF Drained
  <1> HIDE DEF c, got, after
  <1>12. /\ BusTypes' /\ SlotTypes' /\ BusInv' /\ SlotsApart' /\ SeatsInv' /\ FoundInv'
         /\ \A a : SlotAt(a)' = SlotAt(a)
    BY <1>1, <1>10, <1>11, OwnersStay
  <1>13. RingTypes' /\ RingInv'
    BY <1>1, <1>11, <1>12, RingMovesOn
  <1>14. <<d, c>> \in inStream <=> <<d, c>> \in inPorts /\ before
    <2>1. \A t \in Slots : slots[t].device = d => t = s
      BY <1>5 DEF UsbInv, SlotsApart, Used
    <2> QED
      BY <1>4, <1>5, <2>1 DEF UsbInv, StreamInv
  <1>15. /\ <<d, c>> \in inStream' <=> <<d, c>> \in inPorts /\ after
         /\ \A y : y # <<d, c>> => (y \in inStream' <=> y \in inStream)
         /\ \A y \in inStream' : y \in inStream \/ y = <<d, c>>
    <2>1. CASE <<d, c>> \in inPorts
      <3>1. <<d, c>> \in inStream <=> before
        BY <1>14, <2>1
      <3>2. /\ <<d, c>> \in StreamsAfter(inStream, <<d, c>>, Decode(before, p)) <=>
                   OpenAfterPacket(before, p)
            /\ \A y : y # <<d, c>> =>
                   (y \in StreamsAfter(inStream, <<d, c>>, Decode(before, p)) <=> y \in inStream)
            /\ \A y \in StreamsAfter(inStream, <<d, c>>, Decode(before, p)) :
                   y \in inStream \/ y = <<d, c>>
        BY <1>4, <1>6, <3>1, StreamFollows
      <3>3. inStream' = StreamsAfter(inStream, <<d, c>>, Decode(before, p))
        BY <1>7, <2>1
      <3> QED
        BY <2>1, <3>2, <3>3 DEF after
    <2>2. CASE <<d, c>> \notin inPorts
      BY <1>7, <1>14, <2>2
    <2> QED
      BY <2>1, <2>2
  <1>16. StreamTypes'
    <2>1. inStream' \in SUBSET (Devices \X Cables)
      BY <1>4, <1>5, <1>15 DEF UsbInv, Types, StreamTypes
    <2>2. handed[d][c] \o got \in Seq(MidiMessages)
      BY <1>4, <1>5, <1>6, ConcatProperties DEF UsbInv, Types, StreamTypes
    <2>3. handed' \in [Devices -> [Cables -> Seq(MidiMessages)]]
      <3>1. handed \in [Devices -> [Cables -> Seq(MidiMessages)]]
        BY DEF UsbInv, Types, StreamTypes
      <3>2. handed' = handed \/ handed' = [handed EXCEPT ![d][c] = @ \o got]
        BY <1>7
      <3> QED
        <4>1. CASE handed' = handed
          BY <3>1, <4>1
        <4>2. CASE handed' = [handed EXCEPT ![d][c] = @ \o got]
          BY <1>4, <1>5, <2>2, <3>1, <4>2
        <4> QED
          BY <3>2, <4>1, <4>2
    <2> QED
      BY <2>1, <2>3 DEF StreamTypes
  <1>17. StreamInv'
    <2> SUFFICES ASSUME NEW e \in Devices, NEW k \in Cables
                 PROVE  <<e, k>> \in inStream' <=>
                            /\ <<e, k>> \in inPorts'
                            /\ \E t \in Slots : slots'[t].device = e /\ slots'[t].open[k]
      BY <1>1 DEF StreamInv
    <2>1. \A t \in Slots : slots[t].device = d => t = s
      BY <1>5 DEF UsbInv, SlotsApart, Used
    <2>2. CASE e = d /\ k = c
      BY <1>1, <1>5, <1>10, <1>11, <1>15, <2>1, <2>2
    <2>3. CASE ~(e = d /\ k = c)
      <3>1. <<e, k>> \in inStream' <=> <<e, k>> \in inStream
        BY <1>15, <2>3
      <3>2. ASSUME NEW t \in Slots, slots[t].device = e
            PROVE  slots'[t].open[k] = slots[t].open[k]
        <4>1. CASE t = s
          BY <1>5, <1>10, <2>3, <3>2, <4>1
        <4>2. CASE t # s
          BY <1>10, <4>2
        <4> QED
          BY <4>1, <4>2
      <3> QED
        BY <1>1, <1>11, <3>1, <3>2 DEF UsbInv, StreamInv
    <2> QED
      BY <2>2, <2>3
  <1> QED
    BY <1>12, <1>13, <1>16, <1>17 DEF UsbInv, Types

(* send() moves one encoder, if the slot behind the output is in use.      *)
LEMMA DeliverIs ==
    ASSUME UsbInv, NEW x \in DOMAIN sinks, NEW m \in Messages, Deliver(x, m),
           NEW s, s = sinks[x].slot, NEW c, c = sinks[x].cable
    PROVE  /\ s \in Slots /\ c \in Cables /\ slots' \in [Slots -> SlotStates]
           /\ \A t \in Slots : /\ slots'[t].device = slots[t].device
                               /\ slots'[t].address = slots[t].address
                               /\ slots'[t].open = slots[t].open
                               /\ t # s => slots'[t] = slots[t]
           /\ \A k \in Cables : k # c => slots'[s].encoder[k] = slots[s].encoder[k]
           /\ slots'[s].encoder[c] =
                  IF Orphaned(x) \/ ~Used(s) THEN slots[s].encoder[c]
                  ELSE EncoderAfter(slots[s].encoder[c], m)
  <1> DEFINE after == EncoderAfter(slots[s].encoder[c], m)
             stays == Orphaned(x) \/ ~Used(s)
  <1>1. IF stays THEN slots' = slots ELSE slots' = [slots EXCEPT ![s].encoder[c] = after]
    BY Zenon DEF Deliver, SlotOf, Used
  <1>2. s \in Slots /\ c \in Cables /\ m \in MidiMessages
    BY UsbHostAssumption DEF UsbInv, Types, SlotTypes
  <1>3. slots \in [Slots -> SlotStates]
    BY DEF UsbInv, Types, SlotTypes
  <1>4. ~stays => Used(s)
    OBVIOUS
  <1> HIDE DEF stays, after
  <1>5. CASE stays
    <2>1. slots' = slots
      BY <1>1, <1>5
    <2>2. stays <=> Orphaned(x) \/ ~Used(s)
      BY DEF stays
    <2> QED
      BY <1>2, <1>3, <1>5, <2>1, <2>2
  <1>6. CASE ~stays
    <2>1. slots[s] \in [device : Devices, address : Addresses,
                        open : [Cables -> BOOLEAN], encoder : [Cables -> Encoders]]
      BY <1>2, <1>4, <1>6, UsedIs DEF UsbInv, Types
    <2>2. after \in Encoders
      <3>1. slots[s].encoder[c] \in Encoders
        BY <1>2, <2>1
      <3> QED
        BY <1>2, <3>1, EncoderType DEF after
    <2>3. slots'[s] = [slots[s] EXCEPT !.encoder[c] = after]
          /\ \A t \in Slots : t # s => slots'[t] = slots[t]
      BY <1>1, <1>2, <1>3, <1>6
    <2>4. /\ slots'[s] \in [device : {slots[s].device}, address : {slots[s].address},
                            open : {slots[s].open}, encoder : [Cables -> Encoders]]
          /\ slots'[s].encoder[c] = after
          /\ \A k \in Cables : k # c => slots'[s].encoder[k] = slots[s].encoder[k]
      BY <1>2, <2>1, <2>2, <2>3
    <2>5. /\ slots'[s].device = slots[s].device /\ slots'[s].address = slots[s].address
          /\ slots'[s].open = slots[s].open /\ slots'[s] \in SlotStates
      BY <2>1, <2>4 DEF SlotStates
    <2>6. slots' = [t \in Slots |-> slots'[t]]
      BY <1>1, <1>3, <1>6
    <2>7. slots' \in [Slots -> SlotStates]
      BY <1>3, <2>3, <2>5, <2>6
    <2>8. \A t \in Slots : /\ slots'[t].device = slots[t].device
                           /\ slots'[t].address = slots[t].address
                           /\ slots'[t].open = slots[t].open
                           /\ t # s => slots'[t] = slots[t]
      BY <2>3, <2>5
    <2>9. slots'[s].encoder[c] = EncoderAfter(slots[s].encoder[c], m)
      BY <2>4 DEF after
    <2>10. ~(Orphaned(x) \/ ~Used(s))
      BY <1>6 DEF stays
    <2> QED
      BY <1>2, <2>4, <2>7, <2>8, <2>9, <2>10
  <1> QED
    BY <1>5, <1>6

LEMMA InvDeliver ==
    ASSUME UsbInv, NEW x \in DOMAIN sinks, NEW m \in Messages, Deliver(x, m)
    PROVE  UsbInv'
  <1>1. /\ UNCHANGED <<at, claimed, freed, encoder, transfer, sinks, seats, available, found, pc>>
        /\ UNCHANGED <<ring, limit, inStream, inPorts, handed>>
    BY Zenon DEF Deliver, busVars, deviceVars, updateVars, routerVars, portVars
  <1>4. /\ slots' \in [Slots -> SlotStates]
        /\ \A t \in Slots : /\ slots'[t].device = slots[t].device
                            /\ slots'[t].address = slots[t].address
                            /\ slots'[t].open = slots[t].open
    BY DeliverIs
  <1>5. /\ BusTypes' /\ SlotTypes' /\ BusInv' /\ SlotsApart' /\ SeatsInv' /\ FoundInv'
        /\ \A a : SlotAt(a)' = SlotAt(a)
    BY <1>1, <1>4, OwnersStay
  <1>6. RingTypes' /\ StreamTypes'
    BY <1>1 DEF UsbInv, Types, RingTypes, StreamTypes
  <1>7. RingInv'
    <2>1. \A a : \A t \in SlotAt(a) : t \in Slots
      BY DEF SlotAt
    <2> SUFFICES ASSUME NEW k \in 1..Len(ring)
                 PROVE  /\ OwnedBySender(ring[k])'
                        /\ \/ StillThere(ring[k].address, ring[k].from)'
                           \/ pc = "polling"
                           \/ pc = "draining" /\ k <= limit
      BY <1>1 DEF RingInv
    <2>2. OwnedBySender(ring[k])
      BY DEF UsbInv, RingInv
    <2>3. ring' = ring /\ found' = found
      BY <1>1
    <2>4. \A a : \A t \in SlotAt(a) : slots'[t].device = slots[t].device
      BY <1>4, <2>1
    <2>5. OwnedBySender(ring[k])'
      BY <1>5, <2>2, <2>3, <2>4 DEF OwnedBySender
    <2> QED
      BY <1>1, <2>5 DEF UsbInv, RingInv, StillThere
  <1>8. StreamInv'
    <2> SUFFICES ASSUME NEW d \in Devices, NEW k \in Cables
                 PROVE  <<d, k>> \in inStream' <=>
                            /\ <<d, k>> \in inPorts'
                            /\ \E t \in Slots : slots'[t].device = d /\ slots'[t].open[k]
      BY <1>1 DEF StreamInv
    <2>1. inStream' = inStream
      BY <1>1
    <2>2. \A t \in Slots : slots'[t].device = slots[t].device /\ slots'[t].open = slots[t].open
      BY <1>4
    <2> QED
      BY <1>1, <2>1, <2>2 DEF UsbInv, StreamInv
  <1> QED
    BY <1>5, <1>6, <1>7, <1>8 DEF UsbInv, Types

(* end(): the slots are given up, whatever is in the ring.                 *)
LEMMA InvEnd == ASSUME UsbInv, End PROVE UsbInv'
  <1>1. /\ Release(UsedSlots) /\ pc = "idle"
        /\ UNCHANGED <<at, claimed, freed, encoder, transfer, ring, pc, limit, found>>
        /\ UNCHANGED <<seats, sinks, inPorts, handed>>
    BY DEF End, UsedSlots, busVars, deviceVars, updateVars, portVars
  <1>2. \A s \in Slots : ~Used(s)'
    BY <1>1, ReleaseKeeps DEF UsbInv, Types, UsedSlots
  <1>3. SlotTypes' /\ StreamTypes' /\ SeatsInv' /\ StreamInv'
    BY <1>1, ReleaseType, ReleaseSeats, ReleaseStreams DEF UsbInv, Types
  <1>4. BusTypes' /\ RingTypes' /\ BusInv'
    BY <1>1 DEF UsbInv, Types, BusTypes, RingTypes, BusInv
  <1>5. SlotsApart' /\ FoundInv'
    BY <1>1, <1>2 DEF UsbInv, SlotsApart, FoundInv
  <1>6. RingInv'
    <2> SUFFICES ASSUME NEW k \in 1..Len(ring)
                 PROVE  OwnedBySender(ring[k])' /\ StillThere(ring[k].address, ring[k].from)'
      BY <1>1 DEF RingInv
    <2> QED
      BY <1>1, <1>2 DEF UsbInv, RingInv, OwnedBySender, SlotAt, FoundInv, StillThere
  <1> QED
    BY <1>3, <1>4, <1>5, <1>6 DEF UsbInv, Types

LEMMA InvStays ==
    ASSUME UsbInv,
           UNCHANGED <<at, claimed, freed, encoder, transfer, ring, pc, limit, found>>,
           UNCHANGED <<slots, seats, available, sinks, inStream, inPorts, handed>>
    PROVE  UsbInv'
  <1>1. \A x \in Addresses, y \in Devices : StillThere(x, y) => StillThere(x, y)'
    BY DEF StillThere
  <1>2. BusTypes' /\ BusInv' /\ StreamTypes'
    BY DEF UsbInv, Types, BusTypes, BusInv, StreamTypes
  <1> QED
    BY <1>1, <1>2, BusMoves DEF UsbInv, Types

LEMMA InvNext == UsbInv /\ [Next]_vars => UsbInv'
  <1> SUFFICES ASSUME UsbInv, [Next]_vars PROVE UsbInv'
    OBVIOUS
  <1>1. CASE \E d \in Devices, a \in Addresses : Plug(d, a)
    BY <1>1, InvPlug
  <1>2. CASE \E d \in Devices : Claim(d)
    BY <1>2, InvClaim
  <1>3. CASE \E a \in Addresses : Unplug(a)
    BY <1>3, InvUnplug
  <1>4. CASE \E a \in Addresses, c \in Cables, m \in Messages : DeviceSends(a, c, m)
    BY <1>4, InvDeviceSends
  <1>5. CASE OnMidi
    BY <1>5, InvOnMidi
  <1>6. CASE Poll
    BY <1>6, InvPoll
  <1>7. CASE \E i \in found : Skip(i) \/ Refuse(i) \/ Adopt(i)
    BY <1>7, InvPassOver, InvAdopt
  <1>8. CASE BeginDrain \/ EndUpdate
    BY <1>8, InvDrainBounds
  <1>9. CASE Drain
    BY <1>9, InvDrain
  <1>10. CASE Discard
    BY <1>10, InvDiscard
  <1>11. CASE \E x \in DOMAIN sinks, m \in Messages : Deliver(x, m)
    BY <1>11, InvDeliver
  <1>12. CASE End
    BY <1>12, InvEnd
  <1>13. CASE Begin
    BY <1>13, InvStays, Zenon DEF Begin, busVars, deviceVars, updateVars, routerVars, portVars, outVars
  <1>14. CASE UNCHANGED vars
    BY <1>14, InvStays, Zenon DEF vars, busVars, deviceVars, updateVars, routerVars, portVars, outVars
  <1> QED
    BY <1>1, <1>2, <1>3, <1>4, <1>5, <1>6, <1>7, <1>8, <1>9, <1>10, <1>11, <1>12, <1>13,
       <1>14 DEF Next
-----------------------------------------------------------------------------
(* The inductive invariant, of every execution of the adapter.             *)
THEOREM Invariance == Spec => []UsbInv
  BY InvInit, InvNext, PTL DEF Spec

(* The seats of the devices agree with their slots, whatever is plugged    *)
(* in and out between two polls: release(), adopt(), setOutputSink().      *)
THEOREM SeatsHold == Spec => []SeatsAgree
  <1>1. UsbInv => SeatsAgree
    <2> SUFFICES ASSUME UsbInv PROVE SeatsAgree
      OBVIOUS
    <2>1. \A s \in Slots : slots[s].open \in [Cables -> BOOLEAN]
                           /\ slots[s].encoder \in [Cables -> Encoders]
      BY UnusedIs DEF UsbInv, Types, SlotTypes, SlotStates
    <2>2. TypeOK
      BY <2>1 DEF UsbInv, Types, BusTypes, RingTypes, SlotTypes, TypeOK, Encoders
    <2> QED
      BY <2>2 DEF UsbInv, SeatsInv, SlotsApart, SeatsAgree, UsedSlots
  <1> QED
    BY <1>1, Invariance, PTL

(* drain() finds the slot of the sender of a packet, or none, although an  *)
(* address is all that it has of the sender.                               *)
THEOREM SendersAreTold == Spec => []DecodedForSender
  <1>1. UsbInv => DecodedForSender
    <2> SUFFICES ASSUME UsbInv, NEW i \in 1..limit, NEW s \in SlotAt(ring[i].address)
                 PROVE  slots[s].device = ring[i].from
      BY DEF DecodedForSender
    <2>1. i \in 1..Len(ring)
      BY LenProperties DEF UsbInv, Types, RingTypes
    <2> QED
      BY <2>1 DEF UsbInv, RingInv, OwnedBySender
  <1> QED
    BY <1>1, Invariance, PTL

(* No chunk reaches the router without its beginning, and no start in the  *)
(* middle of a dump: drain() and release() keep the decoder of a cable and *)
(* the router's stream together.                                           *)
THEOREM ChunksFollow == Spec => ChunksAreFramed
  <1> DEFINE Framed == \A d \in Devices, c \in Cables :
                 Len(handed'[d][c]) > Len(handed[d][c]) =>
                     LET m == Last(handed'[d][c]) IN
                     m.chunk => (m.start <=> <<d, c>> \notin inStream)
  <1>1. ASSUME UsbInv, [Next]_vars PROVE [Framed]_vars
    <2> SUFFICES ASSUME NEW d \in Devices, NEW c \in Cables,
                        Len(handed'[d][c]) > Len(handed[d][c]),
                        Last(handed'[d][c]).chunk
                 PROVE  Last(handed'[d][c]).start <=> <<d, c>> \notin inStream
      BY Zenon
    <2>1. handed \in [Devices -> [Cables -> Seq(MidiMessages)]]
      BY <1>1 DEF UsbInv, Types, StreamTypes
    <2>2. Len(handed[d][c]) \in Nat
      BY <2>1, LenProperties
    <2>3. CASE Drain
      <3> DEFINE p == Head(ring).packet
      <3>1. PICK s \in SlotAt(Head(ring).address) :
                IF <<slots[s].device, p.cable>> \in inPorts
                THEN handed' = [handed EXCEPT ![slots[s].device][p.cable] =
                                    @ \o Decode(slots[s].open[p.cable], p)]
                ELSE handed' = handed
        BY <2>3 DEF Drain
      <3>2. Head(ring) \in Parcels
        <4>1. limit > 0 /\ ring \in Seq(Parcels) /\ limit \in 0..Len(ring)
          BY <1>1, <2>3 DEF Drain, NextPacket, UsbInv, Types, RingTypes
        <4>2. ring # << >>
          BY <4>1, EmptySeq, LenProperties
        <4> QED
          BY <4>1, <4>2, HeadTailProperties
      <3>3. p \in Packets
        BY <3>2 DEF Parcels
      <3>4. /\ s \in Slots /\ Used(s) /\ slots[s].device \in Devices
            /\ slots[s].open \in [Cables -> BOOLEAN]
        BY <1>1, <3>1, UsedIs DEF SlotAt, UsbInv, Types
      <3> HIDE DEF p
      <3>5. slots[s].device = d /\ p.cable = c /\ <<d, c>> \in inPorts
        <4>1. CASE ~(slots[s].device = d /\ p.cable = c /\ <<d, c>> \in inPorts)
          <5>1. handed'[d][c] = handed[d][c]
            <6>1. CASE handed' = handed
              BY <6>1
            <6>2. CASE handed' # handed
              <7>1. /\ handed' = [handed EXCEPT ![slots[s].device][p.cable] =
                                     @ \o Decode(slots[s].open[p.cable], p)]
                    /\ ~(slots[s].device = d /\ p.cable = c)
                BY <3>1, <4>1, <6>2
              <7> QED
                BY <2>1, <3>4, <7>1
            <6> QED
              BY <6>1, <6>2
          <5> QED
            BY <2>2, <5>1
        <4> QED
          BY <4>1
      <3> DEFINE open == slots[s].open[c]
                 got == Decode(open, p)
      <3>6. /\ open \in BOOLEAN /\ got \in Seq(MidiMessages)
            /\ got = << >> \/ Len(got) = 1
            /\ got # << >> /\ got[1].chunk => got[1].start = ~open
        BY <3>3, <3>4, DecodeIs
      <3>7. handed'[d][c] = handed[d][c] \o got
        <4>1. handed' = [handed EXCEPT ![d][c] = @ \o got]
          BY <3>1, <3>5
        <4> QED
          BY <2>1, <4>1
      <3>8. <<d, c>> \in inStream <=> open
        <4>1. \A t \in Slots : slots[t].device = d => t = s
          BY <1>1, <3>4, <3>5, UsbHostAssumption DEF UsbInv, SlotsApart, Used
        <4> QED
          BY <1>1, <3>4, <3>5, <4>1 DEF UsbInv, StreamInv
      <3> HIDE DEF open, got
      <3>9. handed[d][c] \in Seq(MidiMessages)
        BY <2>1
      <3>10. /\ Len(handed'[d][c]) = Len(handed[d][c]) + Len(got)
             /\ \A i \in 1..Len(got) : handed'[d][c][Len(handed[d][c]) + i] = got[i]
        BY <3>6, <3>7, <3>9, ConcatProperties
      <3>11. Len(got) = 1 /\ got # << >>
        <4>1. CASE got = << >>
          <5>1. Len(got) = 0
            BY <4>1
          <5> QED
            BY <2>2, <3>10, <5>1
        <4>2. CASE got # << >>
          BY <3>6, <4>2
        <4> QED
          BY <4>1, <4>2
      <3>12. Last(handed'[d][c]) = got[1]
        BY <2>2, <3>10, <3>11 DEF Last
      <3> QED
        BY <3>6, <3>8, <3>11, <3>12
    <2>4. CASE ~Drain
      <3>1. handed'[d][c] = handed[d][c] \/ handed'[d][c] = << >>
        <4>1. UNCHANGED handed \/ \E a \in Addresses, e \in Devices : Plug(e, a) \/ Unplug(a)
          BY <1>1, <2>4, Zenon
             DEF Next, Claim, DeviceSends, OnMidi, Poll, Skip, Refuse, Adopt, BeginDrain,
                 Discard, EndUpdate, Deliver, End, Begin, vars
        <4>2. ASSUME NEW e, handed' = [handed EXCEPT ![e] = Nothing]
              PROVE  handed'[d][c] = handed[d][c] \/ handed'[d][c] = << >>
          BY <2>1, <4>2 DEF Nothing
        <4>3. ASSUME NEW a \in Addresses, NEW e \in Devices, Plug(e, a) \/ Unplug(a)
              PROVE  \E f : handed' = [handed EXCEPT ![f] = Nothing]
          BY <4>3 DEF Plug, Unplug
        <4> QED
          BY <4>1, <4>2, <4>3
      <3>2. CASE handed'[d][c] = << >>
        <4>1. Len(handed'[d][c]) = 0
          BY <3>2
        <4> QED
          BY <2>2, <4>1
      <3>3. CASE handed'[d][c] = handed[d][c]
        BY <2>2, <3>3
      <3> QED
        BY <3>1, <3>2, <3>3
    <2> QED
      BY <2>3, <2>4
  <1> QED
    BY <1>1, Invariance, PTL DEF Spec, ChunksAreFramed
-----------------------------------------------------------------------------
(* The packets of a cable of a device that are on their way, and whether   *)
(* the decoder that will have them has a dump open.                        *)
Own(d, c) ==
    [e \in Parcels |-> IF e.from = d /\ e.packet.cable = c THEN <<e.packet>> ELSE << >>]
Flying(d, c) == FlatMap(Own(d, c), ring) \o FlatMap(Own(d, c), transfer)
Live(s, d) == slots[s].device = d /\ at[slots[s].address] = d
OpenOf(d, c) == \E s \in Slots : Live(s, d) /\ slots[s].open[c]

SentTypes == sent \in [Devices -> [Cables -> Seq(MidiMessages)]]

(* Of a device that nothing happened to, all packets have its address.     *)
SendersStay ==
    \A k \in 1..Len(ring) :
        ring[k].from \notin impaired => at[ring[k].address] = ring[k].from

Silent ==
    \A d \in Devices, c \in Cables :
        ~Plugged(d) => encoder[d][c] = NewEncoder /\ sent[d][c] = << >>

InputLinked ==
    \A d \in Devices \ impaired, c \in Cables :
        Linked(handed[d][c], OpenOf(d, c), Flying(d, c), encoder[d][c], sent[d][c])

InputInv == SentTypes /\ SendersStay /\ Silent /\ InputLinked

-----------------------------------------------------------------------------
LEMMA OwnMaps ==
    ASSUME NEW d \in Devices, NEW c \in Cables
    PROVE  /\ Maps(Own(d, c), Parcels, Seq(Packets))
           /\ \A e \in Parcels :
                  Own(d, c)[e] = IF e.from = d /\ e.packet.cable = c THEN <<e.packet>> ELSE << >>
  <1>1. ASSUME NEW e \in Parcels PROVE Own(d, c)[e] \in Seq(Packets)
    <2>1. e.packet \in Packets
      BY DEF Parcels
    <2>2. << >> \in Seq(Packets) /\ <<e.packet>> \in Seq(Packets)
      BY <2>1
    <2> QED
      BY <2>2 DEF Own
  <1>2. \A e \in Parcels :
            Own(d, c)[e] = IF e.from = d /\ e.packet.cable = c THEN <<e.packet>> ELSE << >>
    BY DEF Own
  <1> QED
    BY <1>1, <1>2 DEF Maps

LEMMA FlyingType ==
    ASSUME Types, NEW d \in Devices, NEW c \in Cables
    PROVE  /\ FlatMap(Own(d, c), ring) \in Seq(Packets)
           /\ FlatMap(Own(d, c), transfer) \in Seq(Packets)
           /\ Flying(d, c) \in Seq(Packets)
  <1>1. FlatMap(Own(d, c), ring) \in Seq(Packets) /\ FlatMap(Own(d, c), transfer) \in Seq(Packets)
    BY OwnMaps, FlatMapIsSeq DEF Types, RingTypes, BusTypes
  <1> QED
    BY <1>1, ConcatProperties DEF Flying

(* The first of the packets on their way, and those behind it.             *)
LEMMA OwnHead ==
    ASSUME NEW s \in Seq(Parcels), s # << >>, NEW d \in Devices, NEW c \in Cables
    PROVE  /\ Head(s) \in Parcels /\ Tail(s) \in Seq(Parcels)
           /\ FlatMap(Own(d, c), s) = Own(d, c)[Head(s)] \o FlatMap(Own(d, c), Tail(s))
  <1>1. Head(s) \in Parcels /\ Tail(s) \in Seq(Parcels) /\ s = <<Head(s)>> \o Tail(s)
    BY HeadTailProperties
  <1>2. Maps(Own(d, c), Parcels, Seq(Packets))
    BY OwnMaps
  <1>3. <<Head(s)>> \in Seq(Parcels) /\ FlatMap(Own(d, c), <<Head(s)>>) = Own(d, c)[Head(s)]
    BY <1>1, <1>2, FlatMapOne
  <1>4. \A t, u \in Seq(Parcels) :
            FlatMap(Own(d, c), t \o u) = FlatMap(Own(d, c), t) \o FlatMap(Own(d, c), u)
    BY <1>2, FlatMapConcat
  <1>5. FlatMap(Own(d, c), <<Head(s)>> \o Tail(s)) =
            FlatMap(Own(d, c), <<Head(s)>>) \o FlatMap(Own(d, c), Tail(s))
    BY <1>1, <1>3, <1>4, Zenon
  <1> QED
    BY <1>1, <1>3, <1>5, Zenon

LEMMA OwnNone ==
    ASSUME NEW s \in Seq(Parcels), NEW d \in Devices, NEW c \in Cables,
           \A i \in 1..Len(s) : s[i].from # d
    PROVE  FlatMap(Own(d, c), s) = << >>
  <1>1. \A i \in 1..Len(s) : s[i] \in Parcels
    BY ElementOfSeq
  <1>2. \A i \in 1..Len(s) : Own(d, c)[s[i]] = << >>
    BY <1>1, OwnMaps
  <1> QED
    BY <1>2, OwnMaps, FlatMapNone

(* A device is where it was, or is not.                                    *)
LEMMA LiveStays ==
    ASSUME UsbInv, NEW d \in Devices, slots' = slots,
           \A b \in Addresses : at'[b] = d <=> at[b] = d
    PROVE  \A s \in Slots : Live(s, d)' <=> Live(s, d)
  <1> TAKE s \in Slots
  <1>1. CASE slots[s].device = d
    <2>1. slots[s].address \in Addresses
      BY <1>1, UsedIs, UsbHostAssumption DEF UsbInv, Types, Used
    <2> QED
      BY <2>1 DEF Live
  <1>2. CASE slots[s].device # d
    BY <1>2 DEF Live
  <1> QED
    BY <1>1, <1>2

(* Nothing happens between a device and its slot.                          *)
LEMMA InputStays ==
    ASSUME InputInv,
           UNCHANGED <<at, encoder, sent, ring, transfer, handed>>,
           impaired \subseteq impaired',
           \A d \in Devices \ impaired', c \in Cables : OpenOf(d, c)' <=> OpenOf(d, c)
    PROVE  InputInv'
  <1>1. SentTypes' /\ SendersStay'
    BY DEF InputInv, SentTypes, SendersStay
  <1>2. Silent'
    BY DEF InputInv, Silent, Plugged
  <1>3. InputLinked'
    <2> SUFFICES ASSUME NEW d \in Devices \ impaired', NEW c \in Cables
                 PROVE  Linked(handed[d][c], OpenOf(d, c)', Flying(d, c)', encoder[d][c],
                               sent[d][c])
      BY DEF InputLinked
    <2>1. Flying(d, c)' = Flying(d, c)
      BY DEF Flying
    <2>2. OpenOf(d, c)' = OpenOf(d, c)
      BY DEF OpenOf
    <2>3. d \in Devices \ impaired
      OBVIOUS
    <2> QED
      BY <2>1, <2>2, <2>3 DEF InputInv, InputLinked
  <1> QED
    BY <1>1, <1>2, <1>3 DEF InputInv

LEMMA LinkInit == Init => InputInv
  <1> SUFFICES ASSUME Init PROVE InputInv
    OBVIOUS
  <1>1. /\ at = [a \in Addresses |-> Nobody] /\ ring = << >> /\ transfer = << >>
        /\ encoder = [d \in Devices |-> [c \in Cables |-> NewEncoder]]
        /\ slots = [s \in Slots |-> Unused] /\ sent = [d \in Devices |-> Nothing]
        /\ handed = [d \in Devices |-> Nothing]
    BY DEF Init
  <1>2. SentTypes
    BY <1>1, EmptySeq DEF SentTypes, Nothing
  <1>3. SendersStay /\ Silent
    BY <1>1 DEF SendersStay, Silent, Nothing
  <1>4. InputLinked
    <2> SUFFICES ASSUME NEW d \in Devices, NEW c \in Cables
                 PROVE  Linked(handed[d][c], OpenOf(d, c), Flying(d, c), encoder[d][c],
                               sent[d][c])
      BY DEF InputLinked
    <2>1. OpenOf(d, c) = FALSE
      BY <1>1, UnusedIs, UsbHostAssumption DEF OpenOf, Live
    <2>2. Flying(d, c) = << >>
      BY <1>1, FlatMapEmpty DEF Flying
    <2>3. handed[d][c] = << >> /\ sent[d][c] = << >> /\ encoder[d][c] = NewEncoder
      BY <1>1 DEF Nothing
    <2> QED
      BY <2>1, <2>2, <2>3, LinkedNew
  <1> QED
    BY <1>2, <1>3, <1>4 DEF InputInv

(* A device that is plugged in has no slot at its address, nor packets on  *)
(* their way that would still count as its own.                            *)
LEMMA LinkPlug ==
    ASSUME UsbInv, InputInv, NEW d \in Devices, NEW a \in Addresses, Plug(d, a)
    PROVE  InputInv'
  <1>1. /\ at' = [at EXCEPT ![a] = d] /\ at[a] = Nobody /\ a \notin freed
        /\ transfer = << >> /\ \A x \in Addresses : at[x] # d
        /\ handed' = [handed EXCEPT ![d] = Nothing]
        /\ impaired' = IF Underway(d) THEN impaired ELSE impaired \ {d}
        /\ UNCHANGED <<encoder, sent, ring, transfer, slots>>
    BY DEF Plug, Plugged, deviceVars, updateVars, routerVars, portVars
  <1>2. Nobody \notin Devices /\ at \in [Addresses -> Devices \cup {Nobody}]
    BY UsbHostAssumption DEF UsbInv, Types, BusTypes
  <1>3. \A k \in 1..Len(ring) : ring[k].address \in Addresses /\ ring[k].from \in Devices
    <2>1. \A k \in 1..Len(ring) : ring[k] \in Parcels
      BY ElementOfSeq DEF UsbInv, Types, RingTypes
    <2> QED
      BY <2>1 DEF Parcels
  <1>4. DOMAIN ring = 1..Len(ring)
    BY LenProperties DEF UsbInv, Types, RingTypes
  <1>5. Underway(d) => d \in impaired
    BY <1>1, <1>3, <1>4 DEF Underway, InputInv, SendersStay
  <1>6. SentTypes'
    BY <1>1 DEF InputInv, SentTypes
  <1>7. SendersStay'
    <2> SUFFICES ASSUME NEW k \in 1..Len(ring), ring[k].from \notin impaired'
                 PROVE  at'[ring[k].address] = ring[k].from
      BY <1>1 DEF SendersStay
    <2>1. ring[k].from # d
      BY <1>1, <1>4, <1>5 DEF Underway
    <2>2. at[ring[k].address] = ring[k].from
      BY <1>1, <2>1 DEF InputInv, SendersStay
    <2> QED
      BY <1>1, <1>2, <1>3, <2>2
  <1>8. Silent'
    <2> SUFFICES ASSUME NEW x \in Devices, NEW c \in Cables, ~Plugged(x)'
                 PROVE  encoder[x][c] = NewEncoder /\ sent[x][c] = << >>
      BY <1>1 DEF Silent
    <2>1. ~Plugged(x)
      BY <1>1, <1>2 DEF Plugged
    <2> QED
      BY <2>1 DEF InputInv, Silent
  <1>9. InputLinked'
    <2> SUFFICES ASSUME NEW x \in Devices \ impaired', NEW c \in Cables
                 PROVE  Linked(handed'[x][c], OpenOf(x, c)', Flying(x, c)', encoder[x][c],
                               sent[x][c])
      BY <1>1 DEF InputLinked
    <2>1. Flying(x, c)' = Flying(x, c)
      BY <1>1 DEF Flying
    <2>2. handed \in [Devices -> [Cables -> Seq(MidiMessages)]]
      BY DEF UsbInv, Types, StreamTypes
    <2>3. CASE x = d
      <3>1. OpenOf(x, c)' = FALSE
        <4>1. ASSUME NEW s \in Slots, slots[s].device = d, at'[slots[s].address] = d
              PROVE  FALSE
          <5>1. Used(s)
            BY <1>2, <4>1 DEF Used
          <5>2. slots[s].address \in Addresses
            BY <5>1, UsedIs DEF UsbInv, Types
          <5>3. slots[s].address = a
            BY <1>1, <1>2, <4>1, <5>2
          <5>4. StillThere(a, d)
            BY <4>1, <5>1, <5>3 DEF UsbInv, SlotsApart
          <5> QED
            BY <1>1, <1>2, <5>4 DEF StillThere
        <4> QED
          BY <1>1, <2>3, <4>1 DEF OpenOf, Live
      <3>2. Flying(x, c) = << >>
        <4>1. ~Underway(d)
          BY <1>1, <1>5, <2>3
        <4>2. \A i \in 1..Len(ring) : ring[i].from # d
          BY <1>4, <4>1 DEF Underway
        <4>3. FlatMap(Own(d, c), ring) = << >>
          BY <4>2, OwnNone DEF UsbInv, Types, RingTypes
        <4>4. FlatMap(Own(d, c), transfer) = << >>
          BY <1>1, FlatMapEmpty
        <4> QED
          BY <2>3, <4>3, <4>4 DEF Flying
      <3>3. ~Plugged(x)
        BY <1>1, <2>3 DEF Plugged
      <3>4. encoder[x][c] = NewEncoder /\ sent[x][c] = << >>
        BY <3>3 DEF InputInv, Silent
      <3>5. handed'[x][c] = << >>
        BY <1>1, <2>2, <2>3 DEF Nothing
      <3> QED
        BY <2>1, <3>1, <3>2, <3>4, <3>5, LinkedNew
    <2>4. CASE x # d
      <3>1. \A s \in Slots : Live(s, x)' <=> Live(s, x)
        <4>1. \A b \in Addresses : at'[b] = x <=> at[b] = x
          BY <1>1, <1>2, <2>4
        <4> QED
          BY <1>1, <4>1, LiveStays
      <3>2. OpenOf(x, c)' = OpenOf(x, c)
        BY <1>1, <3>1 DEF OpenOf
      <3>3. handed'[x][c] = handed[x][c] /\ x \in Devices \ impaired
        BY <1>1, <2>2, <2>4
      <3> QED
        BY <2>1, <3>2, <3>3 DEF InputInv, InputLinked
    <2> QED
      BY <2>3, <2>4
  <1> QED
    BY <1>6, <1>7, <1>8, <1>9 DEF InputInv

LEMMA LinkUnplug ==
    ASSUME UsbInv, InputInv, NEW a \in Addresses, Unplug(a)
    PROVE  InputInv'
  <1> DEFINE d == at[a]
  <1>1. /\ at' = [at EXCEPT ![a] = Nobody] /\ d # Nobody
        /\ encoder' = [encoder EXCEPT ![d] = [c \in Cables |-> NewEncoder]]
        /\ sent' = [sent EXCEPT ![d] = Nothing] /\ handed' = [handed EXCEPT ![d] = Nothing]
        /\ impaired' = impaired \cup {d}
        /\ UNCHANGED <<ring, transfer, slots>>
    BY DEF Unplug, updateVars, routerVars, portVars
  <1>2. /\ Nobody \notin Devices /\ at \in [Addresses -> Devices \cup {Nobody}]
        /\ encoder \in [Devices -> [Cables -> Encoders]]
        /\ handed \in [Devices -> [Cables -> Seq(MidiMessages)]]
        /\ sent \in [Devices -> [Cables -> Seq(MidiMessages)]]
    BY UsbHostAssumption DEF UsbInv, Types, BusTypes, StreamTypes, InputInv, SentTypes
  <1>3. d \in Devices
    BY <1>1, <1>2
  <1> HIDE DEF d
  <1>4. SentTypes'
    <2>1. Nothing \in [Cables -> Seq(MidiMessages)]
      BY EmptySeq DEF Nothing
    <2> QED
      BY <1>1, <1>2, <2>1 DEF SentTypes
  <1>5. SendersStay'
    <2> SUFFICES ASSUME NEW k \in 1..Len(ring), ring[k].from \notin impaired'
                 PROVE  at'[ring[k].address] = ring[k].from
      BY <1>1 DEF SendersStay
    <2>1. ring[k] \in Parcels
      BY ElementOfSeq DEF UsbInv, Types, RingTypes
    <2>2. ring[k].address \in Addresses /\ ring[k].from # d
      BY <1>1, <2>1 DEF Parcels
    <2>3. at[ring[k].address] = ring[k].from
      BY <1>1 DEF InputInv, SendersStay
    <2> QED
      BY <1>1, <1>2, <2>2, <2>3 DEF d
  <1>6. Silent'
    <2> SUFFICES ASSUME NEW x \in Devices, NEW c \in Cables, ~Plugged(x)'
                 PROVE  encoder'[x][c] = NewEncoder /\ sent'[x][c] = << >>
      BY DEF Silent
    <2>1. CASE x = d
      BY <1>1, <1>2, <2>1 DEF Nothing
    <2>2. CASE x # d
      <3>1. ~Plugged(x)
        BY <1>1, <1>2, <2>2 DEF Plugged, d
      <3> QED
        BY <1>1, <1>2, <2>2, <3>1 DEF InputInv, Silent
    <2> QED
      BY <2>1, <2>2
  <1>7. InputLinked'
    <2> SUFFICES ASSUME NEW x \in Devices \ impaired', NEW c \in Cables
                 PROVE  Linked(handed'[x][c], OpenOf(x, c)', Flying(x, c)', encoder'[x][c],
                               sent'[x][c])
      BY DEF InputLinked
    <2>1. Flying(x, c)' = Flying(x, c)
      BY <1>1 DEF Flying
    <2>2. x # d /\ x \in Devices \ impaired
      BY <1>1
    <2>3. \A s \in Slots : Live(s, x)' <=> Live(s, x)
      <3>1. \A b \in Addresses : at'[b] = x <=> at[b] = x
        BY <1>1, <1>2, <2>2 DEF d
      <3> QED
        BY <1>1, <3>1, LiveStays
    <2>4. OpenOf(x, c)' = OpenOf(x, c)
      BY <1>1, <2>3 DEF OpenOf
    <2>5. /\ handed'[x][c] = handed[x][c] /\ encoder'[x][c] = encoder[x][c]
          /\ sent'[x][c] = sent[x][c]
      BY <1>1, <1>2, <2>2
    <2> QED
      BY <2>1, <2>2, <2>4, <2>5 DEF InputInv, InputLinked
  <1> QED
    BY <1>4, <1>5, <1>6, <1>7 DEF InputInv

LEMMA OwnEach ==
    ASSUME NEW d \in Devices, NEW c \in Cables, NEW s \in Seq(Parcels), NEW t \in Seq(Packets),
           Len(s) = Len(t), \A i \in 1..Len(s) : Own(d, c)[s[i]] = <<t[i]>>
    PROVE  FlatMap(Own(d, c), s) = t
  <1> DEFINE f == Own(d, c)
  <1>1. Maps(f, Parcels, Seq(Packets)) /\ \A i \in 1..Len(s) : f[s[i]] = <<t[i]>>
    BY OwnMaps
  <1> HIDE DEF f
  <1>2. FlatMap(f, s) = t
    BY <1>1, FlatMapEach
  <1> QED
    BY <1>2 DEF f

LEMMA LinkSends ==
    ASSUME UsbInv, InputInv, NEW a \in Addresses, NEW c \in Cables, NEW m \in Messages,
           DeviceSends(a, c, m)
    PROVE  InputInv'
  <1> DEFINE d == at[a]
             enc == encoder[d][c]
             packets == Encode(enc, c, m)
             parcel(i) == [address |-> a, from |-> d, packet |-> packets[i]]
  <1>1. /\ d \in claimed /\ transfer = << >> /\ Fits(enc.inSysEx, m)
        /\ encoder' = [encoder EXCEPT ![d][c] = EncoderAfter(enc, m)]
        /\ sent' = [sent EXCEPT ![d][c] = Append(@, m)]
        /\ transfer' = [i \in 1..Len(packets) |-> parcel(i)]
        /\ UNCHANGED <<at, ring, slots, handed, impaired>>
    BY DEF DeviceSends, busVars, updateVars, routerVars, portVars
  <1>2. /\ encoder \in [Devices -> [Cables -> Encoders]]
        /\ handed \in [Devices -> [Cables -> Seq(MidiMessages)]]
        /\ sent \in [Devices -> [Cables -> Seq(MidiMessages)]]
        /\ d \in Devices /\ m \in MidiMessages /\ IsComplete(m) /\ enc \in Encoders
    BY <1>1, UsbHostAssumption DEF UsbInv, Types, BusTypes, StreamTypes, InputInv, SentTypes
  <1>3. packets \in Seq(Packets) /\ Len(packets) \in Nat
    BY <1>2, EncodeType, LenProperties
  <1>4. \A i \in 1..Len(packets) : packets[i].cable = c /\ packets[i] \in Packets
    BY <1>2, <1>3, EncodeCable, ElementOfSeq
  <1> HIDE DEF packets, d, enc
  <1>5. /\ transfer' \in Seq(Parcels) /\ Len(transfer') = Len(packets)
        /\ \A i \in 1..Len(packets) :
               /\ transfer'[i] \in Parcels /\ transfer'[i].from = d
               /\ transfer'[i].packet = packets[i]
    <2>1. \A i \in 1..Len(packets) : parcel(i) \in Parcels
      BY <1>2, <1>4 DEF Parcels
    <2>2. /\ transfer' \in Seq(Parcels) /\ Len(transfer') = Len(packets)
          /\ \A i \in 1..Len(packets) : transfer'[i] = parcel(i)
      BY <1>1, <1>3, <2>1
    <2>3. \A i : parcel(i).from = d /\ parcel(i).packet = packets[i]
      OBVIOUS
    <2> HIDE DEF parcel
    <2> QED
      BY <2>1, <2>2, <2>3
  <1>6. SentTypes'
    <2>1. Append(sent[d][c], m) \in Seq(MidiMessages)
      BY <1>2, AppendProperties
    <2> QED
      BY <1>1, <1>2, <2>1 DEF SentTypes
  <1>7. SendersStay'
    BY <1>1 DEF InputInv, SendersStay
  <1>8. Silent'
    <2> SUFFICES ASSUME NEW x \in Devices, NEW k \in Cables, ~Plugged(x)
                 PROVE  encoder'[x][k] = NewEncoder /\ sent'[x][k] = << >>
      BY <1>1 DEF Silent, Plugged
    <2>1. x # d
      BY DEF Plugged, d
    <2> QED
      BY <1>1, <1>2, <2>1 DEF InputInv, Silent
  <1>9. InputLinked'
    <2> SUFFICES ASSUME NEW x \in Devices \ impaired, NEW k \in Cables
                 PROVE  Linked(handed[x][k], OpenOf(x, k)', Flying(x, k)', encoder'[x][k],
                               sent'[x][k])
      BY <1>1 DEF InputLinked
    <2> DEFINE R == FlatMap(Own(x, k), ring)
    <2>1. OpenOf(x, k)' = OpenOf(x, k) /\ OpenOf(x, k) \in BOOLEAN
      BY <1>1 DEF OpenOf, Live
    <2>2. R \in Seq(Packets)
      BY FlyingType DEF UsbInv
    <2>3. Flying(x, k) = R /\ Flying(x, k)' = R \o FlatMap(Own(x, k), transfer')
      <3>1. FlatMap(Own(x, k), transfer) = << >>
        BY <1>1, FlatMapEmpty
      <3>2. R \o << >> = R
        BY <2>2, ConcatEmptySeq
      <3> QED
        BY <1>1, <3>1, <3>2 DEF Flying
    <2>4. Linked(handed[x][k], OpenOf(x, k), R, encoder[x][k], sent[x][k])
      BY <2>3 DEF InputInv, InputLinked
    <2> HIDE DEF R
    <2>5. CASE x = d /\ k = c
      <3>1. FlatMap(Own(x, k), transfer') = packets
        <4>1. \A p \in Parcels : p.from = d /\ p.packet.cable = c => Own(x, k)[p] = <<p.packet>>
          BY <2>5, OwnMaps
        <4>2. \A i \in 1..Len(packets) : Own(x, k)[transfer'[i]] = <<packets[i]>>
          BY <1>4, <1>5, <4>1
        <4>3. \A s \in Seq(Parcels), t \in Seq(Packets) :
                  Len(s) = Len(t) /\ (\A i \in 1..Len(s) : Own(x, k)[s[i]] = <<t[i]>>)
                  => FlatMap(Own(x, k), s) = t
          BY OwnEach
        <4>4. \A i \in 1..Len(transfer') : Own(x, k)[transfer'[i]] = <<packets[i]>>
          BY <1>5, <4>2
        <4> QED
          BY <1>3, <1>5, <4>3, <4>4, Zenon
      <3>2. encoder'[x][k] = EncoderAfter(enc, m) /\ sent'[x][k] = Append(sent[x][k], m)
            /\ encoder[x][k] = enc /\ handed[x][k] \in Seq(MidiMessages)
            /\ sent[x][k] \in Seq(MidiMessages)
        BY <1>1, <1>2, <2>5 DEF enc
      <3>3. Linked(handed[x][k], OpenOf(x, k), R \o packets, EncoderAfter(enc, m),
                   Append(sent[x][k], m))
        <4>1. Linked(handed[x][k], OpenOf(x, k), R, enc, sent[x][k])
          BY <2>4, <3>2
        <4>2. packets = Encode(enc, c, m)
          BY DEF packets
        <4> QED
          BY <1>1, <1>2, <2>1, <2>2, <3>2, <4>1, <4>2, LinkedSends
      <3> QED
        BY <2>1, <2>3, <3>1, <3>2, <3>3
    <2>6. CASE ~(x = d /\ k = c)
      <3>1. FlatMap(Own(x, k), transfer') = << >>
        <4>3. \A p \in Parcels : p.from = d /\ p.packet.cable = c => Own(x, k)[p] = << >>
          BY <2>6, OwnMaps
        <4>4. \A i \in 1..Len(packets) : Own(x, k)[transfer'[i]] = << >>
          BY <1>4, <1>5, <4>3
        <4>1. \A i \in 1..Len(transfer') : Own(x, k)[transfer'[i]] = << >>
          BY <1>5, <4>4
        <4>2. Maps(Own(x, k), Parcels, Seq(Packets))
          BY OwnMaps
        <4> QED
          BY <1>5, <4>1, <4>2, FlatMapNone
      <3>2. encoder'[x][k] = encoder[x][k] /\ sent'[x][k] = sent[x][k]
        BY <1>1, <1>2, <2>6
      <3>3. R \o << >> = R
        BY <2>2, ConcatEmptySeq
      <3> QED
        BY <2>1, <2>3, <2>4, <3>1, <3>2, <3>3
    <2> QED
      BY <2>5, <2>6
  <1> QED
    BY <1>6, <1>7, <1>8, <1>9 DEF InputInv

LEMMA LinkOnMidi == ASSUME UsbInv, InputInv, OnMidi PROVE InputInv'
  <1> DEFINE e == Head(transfer)
  <1>1. /\ transfer # << >> /\ transfer' = Tail(transfer)
        /\ UNCHANGED <<at, encoder, sent, slots, handed>>
        /\ \/ ring' = Append(ring, e) /\ impaired' = impaired
           \/ ring' = ring /\ impaired' = impaired \cup {e.from}
    BY Zenon DEF OnMidi, busVars, deviceVars, updateVars, routerVars, portVars, outVars
  <1>2. transfer \in Seq(Parcels) /\ ring \in Seq(Parcels) /\ Len(ring) \in Nat
    BY LenProperties DEF UsbInv, Types, BusTypes, RingTypes
  <1>3. e \in Parcels /\ at[e.address] = e.from
    <2>1. 1 \in 1..Len(transfer) /\ Head(transfer) = transfer[1] /\ transfer[1] \in Parcels
      BY <1>1, <1>2, HeadTailProperties, EmptySeq, LenProperties
    <2> QED
      BY <2>1 DEF UsbInv, BusInv
  <1>4. \A x \in Devices, c \in Cables :
            FlatMap(Own(x, c), transfer) =
                Own(x, c)[e] \o FlatMap(Own(x, c), transfer')
    BY <1>1, <1>2, OwnHead
  <1> HIDE DEF e
  <1>5. transfer' \in Seq(Parcels)
    BY <1>1, <1>2, HeadTailProperties
  <1>6. SentTypes' /\ Silent'
    BY <1>1 DEF InputInv, SentTypes, Silent, Plugged
  <1>7. SendersStay'
    <2>1. CASE ring' = ring /\ impaired' = impaired \cup {e.from}
      BY <1>1, <2>1 DEF InputInv, SendersStay
    <2>2. CASE ring' = Append(ring, e) /\ impaired' = impaired
      <3>1. /\ Len(ring') = Len(ring) + 1 /\ ring'[Len(ring) + 1] = e
            /\ \A k \in 1..Len(ring) : ring'[k] = ring[k]
        BY <1>2, <1>3, <2>2, AppendProperties
      <3>2. \A k \in 1..Len(ring') : k \in 1..Len(ring) \/ k = Len(ring) + 1
        BY <1>2, <3>1
      <3> QED
        BY <1>1, <1>3, <2>2, <3>1, <3>2 DEF InputInv, SendersStay
    <2> QED
      BY <1>1, <2>1, <2>2
  <1>8. InputLinked'
    <2> SUFFICES ASSUME NEW x \in Devices \ impaired', NEW c \in Cables
                 PROVE  Linked(handed[x][c], OpenOf(x, c)', Flying(x, c)', encoder[x][c],
                               sent[x][c])
      BY <1>1 DEF InputLinked
    <2>1. OpenOf(x, c)' = OpenOf(x, c) /\ x \in Devices \ impaired
      BY <1>1 DEF OpenOf, Live
    <2> DEFINE o == Own(x, c)[e]
               R == FlatMap(Own(x, c), ring)
               S == FlatMap(Own(x, c), transfer')
    <2>2. o \in Seq(Packets) /\ R \in Seq(Packets) /\ S \in Seq(Packets)
      <3>1. Maps(Own(x, c), Parcels, Seq(Packets))
        BY OwnMaps
      <3>2. o \in Seq(Packets)
        BY <1>3, <3>1 DEF Maps
      <3> QED
        BY <1>2, <1>5, <3>1, <3>2, FlatMapIsSeq
    <2>3. Flying(x, c) = R \o (o \o S)
      BY <1>4 DEF Flying
    <2>4. Flying(x, c)' = Flying(x, c)
      <3>1. CASE ring' = Append(ring, e)
        <4>1. FlatMap(Own(x, c), ring') = R \o o
          <5>1. \A s \in Seq(Parcels), y \in Parcels :
                    FlatMap(Own(x, c), Append(s, y)) =
                        FlatMap(Own(x, c), s) \o Own(x, c)[y]
            BY OwnMaps, FlatMapAppend
          <5> QED
            BY <1>2, <1>3, <3>1, <5>1
        <4>2. Flying(x, c)' = (R \o o) \o S
          BY <4>1 DEF Flying
        <4> HIDE DEF o, R, S
        <4>3. Associates(Packets)
          BY Regrouped
        <4>4. (R \o o) \o S = R \o (o \o S)
          BY <2>2, <4>3, Zenon DEF Associates
        <4> QED
          BY <2>3, <4>2, <4>4
      <3>2. CASE ring' = ring /\ impaired' = impaired \cup {e.from}
        <4>1. o = << >>
          BY <1>3, <3>2, OwnMaps
        <4>2. << >> \o S = S
          BY <2>2, ConcatEmptySeq
        <4>3. Flying(x, c)' = R \o S
          BY <3>2 DEF Flying
        <4> HIDE DEF o, R, S
        <4> QED
          BY <2>3, <4>1, <4>2, <4>3
      <3> QED
        BY <1>1, <3>1, <3>2
    <2> HIDE DEF o, R, S
    <2> QED
      BY <2>1, <2>4 DEF InputInv, InputLinked
  <1> QED
    BY <1>6, <1>7, <1>8 DEF InputInv

(* release(): a device without harm keeps its slot.                        *)
LEMMA LinkRelease ==
    ASSUME UsbInv, InputInv, NEW gone \in SUBSET UsedSlots, Release(gone),
           UNCHANGED <<at, encoder, sent, ring, transfer, handed, seats>>
    PROVE  InputInv'
  <1>1. /\ \A s \in gone : slots'[s] = Unused
        /\ \A s \in Slots \ gone : slots'[s] = slots[s]
    BY ReleaseKeeps DEF UsbInv, Types
  <1>2. impaired' = impaired \cup {slots[s].device : s \in gone}
    BY DEF Release
  <1>3. \A d \in Devices \ impaired', c \in Cables : OpenOf(d, c)' <=> OpenOf(d, c)
    <2> TAKE d \in Devices \ impaired', c \in Cables
    <2>1. \A s \in gone : slots[s].device # d /\ slots'[s].device # d
      BY <1>1, <1>2, UnusedIs, UsbHostAssumption
    <2>2. \A s \in Slots \ gone : (Live(s, d) /\ slots[s].open[c])' <=> Live(s, d) /\ slots[s].open[c]
      BY <1>1 DEF Live
    <2>3. \A s \in gone : ~Live(s, d)' /\ ~Live(s, d)
      BY <2>1 DEF Live
    <2> QED
      BY <2>2, <2>3 DEF OpenOf
  <1> QED
    BY <1>2, <1>3, InputStays

LEMMA LinkAdopt == ASSUME UsbInv, InputInv, NEW i \in found, Adopt(i) PROVE InputInv'
  <1>1. PICK s \in Slots : Adopted(i, s)
    BY AdoptIs
  <1>2. UNCHANGED <<at, encoder, sent, ring, transfer, handed, impaired>>
    BY DEF Adopt, busVars, deviceVars
  <1>3. \A d \in Devices, c \in Cables : OpenOf(d, c)' <=> OpenOf(d, c)
    <2> TAKE d \in Devices, c \in Cables
    <2>1. slots[s].device # d /\ slots'[s].open[c] = FALSE
      BY <1>1, UsbHostAssumption DEF Adopted, Used
    <2>2. \A t \in Slots : t # s => slots'[t] = slots[t]
      BY <1>1 DEF Adopted
    <2> QED
      BY <1>2, <2>1, <2>2 DEF OpenOf, Live
  <1> QED
    BY <1>2, <1>3, InputStays

(* The first packet of the ring is gone, of whichever device it is.        *)
LEMMA RingHead ==
    ASSUME UsbInv, NextPacket
    PROVE  /\ Head(ring) \in Parcels /\ Head(ring) = ring[1] /\ 1 \in 1..Len(ring)
           /\ ring' = Tail(ring) /\ Len(ring') = Len(ring) - 1 /\ Len(ring) \in Nat
           /\ \A k \in 1..Len(ring') : ring'[k] = ring[k + 1]
           /\ ring' \in Seq(Parcels)
           /\ UNCHANGED <<at, encoder, sent, transfer>>
  <1>1. limit > 0 /\ ring \in Seq(Parcels) /\ limit \in 0..Len(ring) /\ ring' = Tail(ring)
    BY DEF NextPacket, UsbInv, Types, RingTypes
  <1>2. Len(ring) \in Nat /\ ring # << >>
    BY <1>1, EmptySeq, LenProperties
  <1> QED
    BY <1>1, <1>2, HeadTailProperties DEF NextPacket, busVars, deviceVars

LEMMA FlyingMoves ==
    ASSUME UsbInv, NextPacket, NEW d \in Devices, NEW c \in Cables
    PROVE  /\ Flying(d, c) = Own(d, c)[Head(ring)] \o Flying(d, c)'
           /\ Flying(d, c)' \in Seq(Packets)
           /\ Own(d, c)[Head(ring)] = << >> => Flying(d, c)' = Flying(d, c)
  <1> DEFINE o == Own(d, c)[Head(ring)]
             R == FlatMap(Own(d, c), ring')
             S == FlatMap(Own(d, c), transfer)
  <1>1. /\ Head(ring) \in Parcels /\ ring' = Tail(ring) /\ ring' \in Seq(Parcels)
        /\ transfer' = transfer /\ ring # << >>
    BY RingHead, EmptySeq
  <1>2. o \in Seq(Packets) /\ R \in Seq(Packets) /\ S \in Seq(Packets)
    <2>1. Maps(Own(d, c), Parcels, Seq(Packets))
      BY OwnMaps
    <2>2. o \in Seq(Packets)
      BY <1>1, <2>1 DEF Maps
    <2>3. R \in Seq(Packets)
      BY <1>1, <2>1, FlatMapIsSeq
    <2>4. S \in Seq(Packets)
      BY FlyingType DEF UsbInv
    <2> QED
      BY <2>2, <2>3, <2>4
  <1>3. FlatMap(Own(d, c), ring) = o \o R
    <2>1. ring \in Seq(Parcels)
      BY DEF UsbInv, Types, RingTypes
    <2> QED
      BY <1>1, <2>1, OwnHead
  <1>4. Flying(d, c) = (o \o R) \o S /\ Flying(d, c)' = R \o S
    BY <1>1, <1>3 DEF Flying
  <1> HIDE DEF o, R, S
  <1>5. (o \o R) \o S = o \o (R \o S) /\ R \o S \in Seq(Packets)
    <2>1. Associates(Packets)
      BY Regrouped
    <2>2. (o \o R) \o S = o \o (R \o S)
      BY <1>2, <2>1, Zenon DEF Associates
    <2> QED
      BY <1>2, <2>2, ConcatProperties
  <1>6. << >> \o (R \o S) = R \o S
    BY <1>5, ConcatEmptySeq
  <1>7. o = << >> => R \o S = (o \o R) \o S
    BY <1>5, <1>6
  <1> QED
    BY <1>4, <1>5, <1>7 DEF o

LEMMA SendersRemain ==
    ASSUME UsbInv, InputInv, NextPacket, impaired \subseteq impaired'
    PROVE  SentTypes' /\ SendersStay' /\ Silent'
  <1>1. UNCHANGED <<at, encoder, sent>>
    BY RingHead
  <1>2. SentTypes' /\ Silent'
    BY <1>1 DEF InputInv, SentTypes, Silent, Plugged
  <1>3. SendersStay'
    <2> SUFFICES ASSUME NEW k \in 1..Len(ring'), ring'[k].from \notin impaired'
                 PROVE  at'[ring'[k].address] = ring'[k].from
      BY DEF SendersStay
    <2>1. k + 1 \in 1..Len(ring) /\ ring'[k] = ring[k + 1]
      BY RingHead
    <2>2. ring[k + 1].from \notin impaired
      BY <2>1
    <2> QED
      BY <1>1, <2>1, <2>2 DEF InputInv, SendersStay
  <1> QED
    BY <1>2, <1>3

LEMMA LinkDiscard == ASSUME UsbInv, InputInv, Discard PROVE InputInv'
  <1>1. /\ NextPacket /\ impaired' = impaired \cup {Head(ring).from}
        /\ UNCHANGED <<slots, handed>>
    BY DEF Discard
  <1>2. SentTypes' /\ SendersStay' /\ Silent'
    BY <1>1, SendersRemain
  <1>3. InputLinked'
    <2> SUFFICES ASSUME NEW d \in Devices \ impaired', NEW c \in Cables
                 PROVE  Linked(handed[d][c], OpenOf(d, c)', Flying(d, c)', encoder'[d][c],
                               sent'[d][c])
      BY <1>1 DEF InputLinked
    <2>1. UNCHANGED <<at, encoder, sent>> /\ Head(ring) \in Parcels
      BY <1>1, RingHead
    <2>2. d \in Devices \ impaired /\ Head(ring).from # d
      BY <1>1
    <2>3. Own(d, c)[Head(ring)] = << >>
      BY <2>1, <2>2, OwnMaps
    <2>4. Flying(d, c)' = Flying(d, c)
      BY <1>1, <2>3, FlyingMoves
    <2>5. OpenOf(d, c)' = OpenOf(d, c)
      BY <1>1, <2>1 DEF OpenOf, Live
    <2> QED
      BY <2>1, <2>2, <2>4, <2>5 DEF InputInv, InputLinked
  <1> QED
    BY <1>2, <1>3 DEF InputInv

(* A packet is decoded in the slot of its sender.                          *)
LEMMA LinkDrain == ASSUME UsbInv, InputInv, Drain PROVE InputInv'
  <1>3. PICK s \in Slots : \E d, p, open : Drained(s, d, p, open)
    BY DrainIs
  <1>4. PICK d, p, open : Drained(s, d, p, open)
    BY <1>3
  <1>1. NextPacket /\ impaired \subseteq impaired'
        /\ (<<d, p.cable>> \notin inPorts => handed' = handed /\ d \in impaired')
    BY <1>4 DEF Drain, Drained
  <1>2. SentTypes' /\ SendersStay' /\ Silent'
    BY <1>1, SendersRemain
  <1>5. /\ UNCHANGED <<at, encoder, sent, transfer>>
        /\ Head(ring) \in Parcels /\ Head(ring) = ring[1] /\ 1 \in 1..Len(ring)
    BY <1>1, RingHead
  <1>6. /\ Head(ring).from = d /\ d = slots[s].device /\ d \in Devices
        /\ slots[s].address = Head(ring).address
        /\ Head(ring).packet = p /\ p \in Packets /\ p.cable \in Cables
    <2>1. OwnedBySender(ring[1])
      BY <1>5 DEF UsbInv, RingInv
    <2>2. s \in SlotAt(Head(ring).address)
      BY <1>4 DEF Drained
    <2>3. slots[s].device = Head(ring).from /\ slots[s].address = Head(ring).address
      BY <1>5, <2>1, <2>2 DEF OwnedBySender, SlotAt
    <2> QED
      BY <1>4, <2>3 DEF Drained
  <1>7. handed \in [Devices -> [Cables -> Seq(MidiMessages)]]
    BY DEF UsbInv, Types, StreamTypes
  <1>8. InputLinked'
    <2> SUFFICES ASSUME NEW x \in Devices \ impaired', NEW c \in Cables
                 PROVE  Linked(handed'[x][c], OpenOf(x, c)', Flying(x, c)', encoder[x][c],
                               sent[x][c])
      BY <1>1, <1>5 DEF InputLinked
    <2>1. Linked(handed[x][c], OpenOf(x, c), Flying(x, c), encoder[x][c], sent[x][c])
      BY <1>1 DEF InputInv, InputLinked
    <2>2. Flying(x, c) = Own(x, c)[Head(ring)] \o Flying(x, c)' /\ Flying(x, c)' \in Seq(Packets)
          /\ (Own(x, c)[Head(ring)] = << >> => Flying(x, c)' = Flying(x, c))
      BY <1>1, FlyingMoves
    <2>3. \A t \in Slots : Live(t, x)' <=> Live(t, x)
      BY <1>4, <1>5 DEF Live, Drained
    <2>4. CASE x = d /\ c = p.cable
      <3>1. Own(x, c)[Head(ring)] = <<p>>
        BY <1>5, <1>6, <2>4, OwnMaps
      <3>2. at[slots[s].address] = d
        BY <1>1, <1>5, <1>6, <2>4 DEF InputInv, SendersStay
      <3>3. \A t \in Slots : Live(t, x) <=> t = s
        BY <1>6, <2>4, <3>2, UsbHostAssumption DEF Live, UsbInv, SlotsApart, Used
      <3>4. (OpenOf(x, c) <=> open) /\ (OpenOf(x, c)' <=> OpenAfterPacket(open, p))
        BY <1>4, <2>3, <2>4, <3>3 DEF OpenOf, Drained
      <3>5. open \in BOOLEAN /\ OpenAfterPacket(open, p) \in BOOLEAN
        BY <1>4, <1>6, DecodeIs DEF Drained
      <3>6. OpenOf(x, c) = open /\ OpenOf(x, c)' = OpenAfterPacket(open, p)
        BY <3>4, <3>5 DEF OpenOf
      <3>7. handed'[x][c] = handed[x][c] \o Decode(open, p)
        <4>1. <<d, p.cable>> \in inPorts
          BY <1>1, <2>4
        <4>2. handed' = [handed EXCEPT ![d][p.cable] = @ \o Decode(open, p)]
          BY <1>4, <4>1 DEF Drained
        <4> QED
          BY <1>6, <1>7, <2>4, <4>2
      <3>8. Linked(handed[x][c], open, <<p>> \o Flying(x, c)', encoder[x][c], sent[x][c])
        BY <2>1, <2>2, <3>1, <3>6
      <3>9. handed[x][c] \in Seq(MidiMessages) /\ encoder[x][c] \in Encoders
        BY <1>7 DEF UsbInv, Types, BusTypes
      <3>10. \A f \in Seq(Packets) :
                Linked(handed[x][c], open, <<p>> \o f, encoder[x][c], sent[x][c])
                => Linked(handed[x][c] \o Decode(open, p), OpenAfterPacket(open, p), f,
                          encoder[x][c], sent[x][c])
        BY <1>6, <3>5, <3>9, LinkedTakes
      <3> QED
        BY <2>2, <3>6, <3>7, <3>8, <3>10
    <2>5. CASE ~(x = d /\ c = p.cable)
      <3>1. Own(x, c)[Head(ring)] = << >>
        BY <1>5, <1>6, <2>5, OwnMaps
      <3>2. handed'[x][c] = handed[x][c]
        <4>1. handed' = handed \/ handed' = [handed EXCEPT ![d][p.cable] = @ \o Decode(open, p)]
          BY <1>4 DEF Drained
        <4>2. handed' = [handed EXCEPT ![d][p.cable] = @ \o Decode(open, p)] =>
                  handed'[x][c] = handed[x][c]
          BY <1>6, <1>7, <2>5
        <4> QED
          BY <4>1, <4>2
      <3>3. \A t \in Slots : Live(t, x) => slots'[t].open[c] = slots[t].open[c]
        BY <1>4, <1>6, <2>5 DEF Live, Drained
      <3>4. OpenOf(x, c)' = OpenOf(x, c)
        BY <2>3, <3>3 DEF OpenOf
      <3> QED
        BY <2>1, <2>2, <3>1, <3>2, <3>4
    <2> QED
      BY <2>4, <2>5
  <1> QED
    BY <1>2, <1>8 DEF InputInv

LEMMA LinkNext == UsbInv /\ InputInv /\ [Next]_vars => InputInv'
  <1> SUFFICES ASSUME UsbInv, InputInv, [Next]_vars PROVE InputInv'
    OBVIOUS
  <1>1. ASSUME UNCHANGED <<at, encoder, sent, ring, transfer, handed, slots, impaired>>
        PROVE  InputInv'
    <2>1. \A d \in Devices, c \in Cables : OpenOf(d, c)' <=> OpenOf(d, c)
      BY <1>1 DEF OpenOf, Live
    <2> QED
      BY <1>1, <2>1, InputStays
  <1>2. CASE \E d \in Devices, a \in Addresses : Plug(d, a)
    BY <1>2, LinkPlug
  <1>3. CASE \E a \in Addresses : Unplug(a)
    BY <1>3, LinkUnplug
  <1>4. CASE \E a \in Addresses, c \in Cables, m \in Messages : DeviceSends(a, c, m)
    BY <1>4, LinkSends
  <1>5. CASE OnMidi
    BY <1>5, LinkOnMidi
  <1>6. CASE Poll
    <2>1. PICK list \in Listing : Release({s \in Slots : Used(s) /\ Gone(s, list)})
      BY <1>6 DEF Poll
    <2>2. {s \in Slots : Used(s) /\ Gone(s, list)} \in SUBSET UsedSlots
      BY DEF UsedSlots
    <2>3. UNCHANGED <<at, encoder, sent, ring, transfer, handed, seats>>
      BY <1>6 DEF Poll, deviceVars, portVars
    <2> QED
      BY <2>1, <2>2, <2>3, LinkRelease
  <1>7. CASE End
    <2>1. Release(UsedSlots) /\ UNCHANGED <<at, encoder, sent, ring, transfer, handed, seats>>
      BY <1>7 DEF End, UsedSlots, busVars, deviceVars, portVars
    <2> QED
      BY <2>1, LinkRelease
  <1>8. CASE \E i \in found : Adopt(i)
    BY <1>8, LinkAdopt
  <1>9. CASE Drain
    BY <1>9, LinkDrain
  <1>10. CASE Discard
    BY <1>10, LinkDiscard
  <1>11. CASE \E x \in DOMAIN sinks, m \in Messages : Deliver(x, m)
    <2>1. PICK x \in DOMAIN sinks, m \in Messages : Deliver(x, m)
      BY <1>11
    <2>2. UNCHANGED <<at, encoder, sent, ring, transfer, handed, impaired>>
      BY <2>1, Zenon DEF Deliver, busVars, deviceVars
    <2>3. \A t \in Slots : /\ slots'[t].device = slots[t].device
                           /\ slots'[t].address = slots[t].address
                           /\ slots'[t].open = slots[t].open
      BY <2>1, DeliverIs
    <2>4. \A d \in Devices, c \in Cables : OpenOf(d, c)' <=> OpenOf(d, c)
      BY <2>2, <2>3 DEF OpenOf, Live
    <2> QED
      BY <2>2, <2>4, InputStays
  <1>12. CASE \/ \E d \in Devices : Claim(d)
              \/ \E i \in found : Skip(i) \/ Refuse(i)
              \/ BeginDrain \/ EndUpdate \/ Begin
    BY <1>1, <1>12, Zenon
       DEF Claim, Skip, Refuse, BeginDrain, EndUpdate, Begin, busVars, deviceVars, outVars,
           updateVars, routerVars, portVars
  <1>13. CASE UNCHANGED vars
    BY <1>1, <1>13, Zenon DEF vars, busVars, deviceVars
  <1> QED
    BY <1>2, <1>3, <1>4, <1>5, <1>6, <1>7, <1>8, <1>9, <1>10, <1>11, <1>12, <1>13 DEF Next
-----------------------------------------------------------------------------
(* Of a device that nothing happened to, the router is handed what it      *)
(* sent, in order and complete up to what is on its way, however its dumps *)
(* fall into packets and whichever devices share the ring: onMidi(),       *)
(* drain().                                                                *)
THEOREM InputsArrive == Spec => []InputIsFaithful
  <1>1. UsbInv /\ InputInv => InputIsFaithful
    <2> SUFFICES ASSUME UsbInv, InputInv, NEW d \in Devices \ impaired, NEW c \in Cables
                 PROVE  Arrives(handed[d][c], sent[d][c],
                                ring # << >> \/ transfer # << >> \/ encoder[d][c].pending # << >>)
      BY DEF InputIsFaithful
    <2>1. /\ handed[d][c] \in Seq(MidiMessages) /\ sent[d][c] \in Seq(MidiMessages)
          /\ encoder[d][c] \in Encoders /\ OpenOf(d, c) \in BOOLEAN
      BY DEF UsbInv, Types, BusTypes, StreamTypes, InputInv, SentTypes, OpenOf
    <2>2. Flying(d, c) \in Seq(Packets)
      BY FlyingType DEF UsbInv
    <2>3. Linked(handed[d][c], OpenOf(d, c), Flying(d, c), encoder[d][c], sent[d][c])
      BY DEF InputInv, InputLinked
    <2>4. ring = << >> /\ transfer = << >> => Flying(d, c) = << >>
      <3>1. << >> \o << >> = << >>
        OBVIOUS
      <3> QED
        BY <3>1, FlatMapEmpty DEF Flying
    <2>5. Flying(d, c) # << >> \/ encoder[d][c].pending # << >> =>
              ring # << >> \/ transfer # << >> \/ encoder[d][c].pending # << >>
      BY <2>4
    <2> QED
      BY <2>1, <2>2, <2>3, <2>5, LinkedArrives
  <1>2. UsbInv /\ InputInv /\ [Next]_vars => (UsbInv /\ InputInv)'
    BY InvNext, LinkNext
  <1> QED
    BY <1>1, <1>2, InvInit, LinkInit, PTL DEF Spec
-----------------------------------------------------------------------------
(* The encoder behind an output, if it has begun something.                *)
EncoderOf(s, d, c) == IF <<d, c>> \in outStream THEN slots[s].encoder[c] ELSE NewEncoder

OutputTypes ==
    /\ heard \in [Devices -> [Cables -> Seq(Packets)]]
    /\ told \in [Devices -> [Cables -> Seq(MidiMessages)]]
    /\ outStream \in SUBSET (Devices \X Cables)
    /\ strayed \in BOOLEAN

SinksFit == \A x \in DOMAIN sinks : sinks[x].cable = x[2] /\ x[2] < OutCables[x[1]]

StreamsHaveSlots == \A x \in outStream : \E s \in Slots : slots[s].device = x[1]

OutputSound ==
    \A d \in Devices, c \in Cables :
        <<d, c>> \notin clipped => Arrives(Reading(FALSE, heard[d][c]).got, told[d][c], TRUE)

OutputLinked ==
    \A d \in Devices, c \in Cables : \A s \in Slots :
        Live(s, d) =>
            /\ <<d, c>> \notin clipped =>
                   Linked(<< >>, FALSE, heard[d][c], EncoderOf(s, d, c), told[d][c])
            /\ <<d, c>> \in outStream => slots[s].encoder[c].inSysEx

OutputInv ==
    /\ OutputTypes /\ SinksFit
    /\ ~strayed => StreamsHaveSlots /\ OutputSound /\ OutputLinked
-----------------------------------------------------------------------------
LEMMA NewIsEncoder == NewEncoder \in Encoders /\ ~NewEncoder.inSysEx /\ NewEncoder.pending = << >>
  <1>1. NewEncoder \in Encoders
    BY EmptySeq DEF NewEncoder, Encoders
  <1> QED
    BY <1>1 DEF NewEncoder

(* What was sent, and what a reader has of it that has got the first of    *)
(* the packets, or all of them.                                            *)
LEMMA LinkedPart ==
    ASSUME NEW g \in Seq(Packets), NEW f \in Seq(Packets), NEW enc \in Encoders,
           NEW all \in Seq(MidiMessages), Linked(<< >>, FALSE, g \o f, enc, all),
           NEW underway, f # << >> \/ enc.pending # << >> => underway
    PROVE  Arrives(Reading(FALSE, g).got, all, underway)
  <1> DEFINE got == Reading(FALSE, g).got
             open == Reading(FALSE, g).open
  <1>1. open \in BOOLEAN /\ got \in Seq(MidiMessages)
    BY ReadingType DEF Readings
  <1>2. << >> \in Seq(MidiMessages)
    BY EmptySeq
  <1>3. Linked(<< >> \o got, open, f, enc, all)
    BY <1>2, LinkedReads
  <1>4. << >> \o got = got
    BY <1>1, ConcatEmptySeq
  <1> HIDE DEF got, open
  <1>5. Linked(got, open, f, enc, all)
    BY <1>3, <1>4
  <1>6. Arrives(got, all, underway)
    BY <1>1, <1>5, LinkedArrives
  <1> QED
    BY <1>6 DEF got

LEMMA LinkedSound ==
    ASSUME NEW f \in Seq(Packets), NEW enc \in Encoders, NEW all \in Seq(MidiMessages),
           Linked(<< >>, FALSE, f, enc, all),
           NEW underway, enc.pending # << >> => underway
    PROVE  Arrives(Reading(FALSE, f).got, all, underway)
  <1>1. << >> \in Seq(Packets) /\ f \o << >> = f
    BY EmptySeq, ConcatEmptySeq
  <1>2. Linked(<< >>, FALSE, f \o << >>, enc, all)
    BY <1>1
  <1> QED
    BY <1>1, <1>2, LinkedPart

LEMMA SoundGrows ==
    ASSUME NEW g \in Seq(MidiMessages), NEW all \in Seq(MidiMessages), NEW m \in MidiMessages,
           Arrives(g, all, TRUE)
    PROVE  Arrives(g, Append(all, m), TRUE)
  <1>1. Append(all, m) = all \o <<m>> /\ <<m>> \in Seq(MidiMessages)
    BY AppendIsConcat
  <1>2. \A s, t \in Seq(MidiMessages) :
            /\ EventsOf(s) \in Seq(Nat) /\ RealTimeOf(s) \in Seq(MidiMessages)
            /\ EventsOf(s \o t) = EventsOf(s) \o EventsOf(t)
            /\ RealTimeOf(s \o t) = RealTimeOf(s) \o RealTimeOf(t)
    BY SaysJoins
  <1>3. /\ EventsOf(Append(all, m)) = EventsOf(all) \o EventsOf(<<m>>)
        /\ RealTimeOf(Append(all, m)) = RealTimeOf(all) \o RealTimeOf(<<m>>)
    <2>1. EventsOf(all \o <<m>>) = EventsOf(all) \o EventsOf(<<m>>)
      BY <1>1, <1>2, Zenon
    <2>2. RealTimeOf(all \o <<m>>) = RealTimeOf(all) \o RealTimeOf(<<m>>)
      BY <1>1, <1>2, Zenon
    <2> QED
      BY <1>1, <2>1, <2>2, Zenon
  <1>4. /\ EventsOf(g) \in Seq(Nat) /\ EventsOf(all) \in Seq(Nat) /\ EventsOf(<<m>>) \in Seq(Nat)
        /\ RealTimeOf(g) \in Seq(MidiMessages) /\ RealTimeOf(all) \in Seq(MidiMessages)
        /\ RealTimeOf(<<m>>) \in Seq(MidiMessages)
    BY <1>1, <1>2
  <1>5. IsPrefix(EventsOf(g), EventsOf(all)) /\ IsPrefix(RealTimeOf(g), RealTimeOf(all))
    BY DEF Arrives
  <1>6. IsPrefix(EventsOf(g), EventsOf(all) \o EventsOf(<<m>>))
    BY <1>4, <1>5, PrefixStays
  <1>7. IsPrefix(RealTimeOf(g), RealTimeOf(all) \o RealTimeOf(<<m>>))
    BY <1>4, <1>5, PrefixStays
  <1> QED
    BY <1>3, <1>6, <1>7 DEF Arrives

(* A sink sends a message that the router may hand it: it has begun a dump *)
(* with this encoder, or whatever the encoder holds is not used.           *)
LEMMA SinkSends ==
    ASSUME NEW f \in Seq(Packets), NEW enc \in Encoders, NEW all \in Seq(MidiMessages),
           NEW c \in Cables, NEW m \in MidiMessages, IsComplete(m),
           NEW in \in BOOLEAN, Fits(in, m), in => enc.inSysEx,
           Linked(<< >>, FALSE, f, IF in THEN enc ELSE NewEncoder, all)
    PROVE  LET made == Encode(enc, c, m)
               after == EncoderAfter(enc, m)
               stays == ~(m.chunk /\ m.end) /\ ((m.chunk /\ made # << >>) \/ in) IN
           /\ Linked(<< >>, FALSE, f \o made, IF stays THEN after ELSE NewEncoder,
                     IF in \/ made # << >> THEN Append(all, m) ELSE all)
           /\ stays => after.inSysEx
  <1> DEFINE made == Encode(enc, c, m)
             after == EncoderAfter(enc, m)
             stays == ~(m.chunk /\ m.end) /\ ((m.chunk /\ made # << >>) \/ in)
             ours == IF in THEN enc ELSE NewEncoder
  <1>1. << >> \in Seq(MidiMessages) /\ m.chunk \in BOOLEAN /\ m.end \in BOOLEAN
        /\ m.start \in BOOLEAN
    BY EmptySeq DEF MidiMessages
  <1>2. /\ ours \in Encoders /\ Fits(ours.inSysEx, m)
        /\ Encode(ours, c, m) = made
    <2>1. CASE in
      <3>1. ours = enc /\ enc.inSysEx = TRUE
        BY <2>1 DEF Encoders
      <3> QED
        BY <2>1, <3>1
    <2>2. CASE ~in
      <3>1. ours = NewEncoder /\ Fits(FALSE, m)
        BY <2>2
      <3>2. m.chunk => m.start
        BY <1>1, <3>1 DEF Fits
      <3>3. Encode(NewEncoder, c, m) = made
        BY <3>2, StartsAnew, ShortsPass
      <3>4. NewEncoder \in Encoders /\ NewEncoder.inSysEx = FALSE
        BY NewIsEncoder DEF Encoders
      <3> QED
        BY <3>1, <3>3, <3>4
    <2> QED
      BY <2>1, <2>2
  <1>3. Linked(<< >>, FALSE, f \o made, EncoderAfter(ours, m), Append(all, m))
    <2>1. Linked(<< >>, FALSE, f, ours, all)
      OBVIOUS
    <2> HIDE DEF ours, made
    <2>2. Linked(<< >>, FALSE, f \o Encode(ours, c, m), EncoderAfter(ours, m), Append(all, m))
      BY <1>1, <1>2, <2>1, LinkedSends
    <2> QED
      BY <1>2, <2>2
  <1>4. CASE in
    <2>1. ours = enc /\ enc.inSysEx /\ (m.chunk => ~m.start)
      BY <1>1, <1>4 DEF Fits
    <2>2. CASE m.chunk /\ m.end
      <3>1. after = NewEncoder
        BY <2>1, <2>2 DEF EncoderAfter, Encodable
      <3>2. ~stays
        BY <2>2
      <3> QED
        BY <1>3, <1>4, <2>1, <3>1, <3>2
    <2>3. CASE ~(m.chunk /\ m.end)
      <3>1. after.inSysEx
        BY <2>1, <2>3 DEF EncoderAfter, Encodable
      <3>2. stays
        BY <1>4, <2>3
      <3> QED
        BY <1>3, <1>4, <2>1, <3>1, <3>2
    <2> QED
      BY <2>2, <2>3
  <1>5. CASE ~in
    <2>1. ours = NewEncoder /\ (m.chunk => m.start)
      BY <1>1, <1>5 DEF Fits
    <2>2. CASE made # << >>
      <3>1. CASE m.chunk
        <4>1. after = EncoderAfter(NewEncoder, m)
          BY <2>1, <3>1, StartsAnew
        <4>2. stays <=> ~m.end
          BY <1>5, <2>2, <3>1
        <4>3. m.end => after = NewEncoder
          BY <2>1, <3>1 DEF EncoderAfter, Encodable
        <4>4. ~m.end => after.inSysEx
          BY <2>1, <3>1 DEF EncoderAfter, Encodable
        <4> QED
          BY <1>3, <2>1, <2>2, <4>1, <4>2, <4>3, <4>4
      <3>2. CASE ~m.chunk
        <4>1. EncoderAfter(NewEncoder, m) = NewEncoder
          BY <3>2, ShortsPass
        <4>2. ~stays
          BY <1>5, <3>2
        <4> QED
          BY <1>3, <2>1, <2>2, <4>1, <4>2
      <3> QED
        BY <3>1, <3>2
    <2>3. CASE made = << >>
      <3>1. ~stays
        BY <1>5, <2>3
      <3>2. f \o made = f
        BY <2>3, ConcatEmptySeq
      <3>3. Linked(<< >>, FALSE, f, NewEncoder, all)
        BY <1>5
      <3> QED
        BY <1>5, <2>3, <3>1, <3>2, <3>3
    <2> QED
      BY <2>2, <2>3
  <1> QED
    BY <1>4, <1>5

(* A sink with a dump begun, or that begins one, has it in its encoder.    *)
LEMMA SinkStays ==
    ASSUME NEW enc \in Encoders, NEW m \in MidiMessages, NEW in \in BOOLEAN, Fits(in, m),
           in => enc.inSysEx, ~(m.chunk /\ m.end), m.chunk \/ in
    PROVE  EncoderAfter(enc, m).inSysEx
  <1>1. CASE m.chunk
    <2>1. Encodable(enc, m)
      <3>1. m.start \/ enc.inSysEx
        BY <1>1 DEF Fits, MidiMessages
      <3> QED
        BY <1>1, <3>1 DEF Encodable
    <2>2. EncoderAfter(enc, m) = [inSysEx |-> TRUE, pending |-> Rest(Line(enc, m))]
      BY <1>1, <2>1 DEF EncoderAfter
    <2> QED
      BY <2>2
  <1>2. CASE ~m.chunk
    BY <1>2 DEF EncoderAfter
  <1> QED
    BY <1>1, <1>2

LEMMA ShortMakes ==
    ASSUME NEW enc \in Encoders, NEW c \in Cables, NEW m \in MidiMessages, IsComplete(m), ~m.chunk
    PROVE  Encode(enc, c, m) # << >> /\ EncoderAfter(enc, m) = enc
  <1>1. Encodable(enc, m)
    BY DEF Encodable, IsComplete
  <1>2. Encode(enc, c, m) = EncodeShort(c, m)
    BY <1>1 DEF Encode
  <1>3. EncodeShort(c, m) # << >>
    BY DEF EncodeShort
  <1>4. EncoderAfter(enc, m) = enc
    BY DEF EncoderAfter
  <1> QED
    BY <1>2, <1>3, <1>4

LEMMA NothingArrives == Arrives(Reading(FALSE, << >>).got, << >>, TRUE)
  <1>1. << >> \in Seq(Packets) /\ << >> \in Seq(MidiMessages)
    BY EmptySeq
  <1> QED
    BY <1>1, NewIsEncoder, LinkedNew, LinkedSound

(* Nothing happens between an output and its slot.                         *)
LEMMA OutputStays ==
    ASSUME OutputInv,
           UNCHANGED <<told, heard, clipped, strayed, sinks, outStream>>,
           \A s \in Slots : slots'[s].device = slots[s].device
                            /\ slots'[s].encoder = slots[s].encoder,
           \A s \in Slots, d \in Devices : Live(s, d)' => Live(s, d)
    PROVE  OutputInv'
  <1>1. OutputTypes' /\ SinksFit'
    BY DEF OutputInv, OutputTypes, SinksFit
  <1>2. ASSUME ~strayed PROVE StreamsHaveSlots' /\ OutputSound'
    BY <1>2 DEF OutputInv, StreamsHaveSlots, OutputSound
  <1>3. ASSUME ~strayed PROVE OutputLinked'
    <2> SUFFICES ASSUME NEW d \in Devices, NEW c \in Cables, NEW s \in Slots, Live(s, d)'
                 PROVE  /\ <<d, c>> \notin clipped =>
                               Linked(<< >>, FALSE, heard[d][c], EncoderOf(s, d, c)', told[d][c])
                        /\ <<d, c>> \in outStream' => slots'[s].encoder[c].inSysEx
      BY DEF OutputLinked
    <2>1. EncoderOf(s, d, c)' = EncoderOf(s, d, c)
      BY DEF EncoderOf
    <2> QED
      BY <1>3, <2>1 DEF OutputInv, OutputLinked
  <1> QED
    BY <1>1, <1>2, <1>3 DEF OutputInv

LEMMA OutputInit == Init => OutputInv
  <1> SUFFICES ASSUME Init PROVE OutputInv
    OBVIOUS
  <1>1. /\ slots = [s \in Slots |-> Unused] /\ outStream = {} /\ sinks = << >>
        /\ told = [d \in Devices |-> Nothing] /\ heard = [d \in Devices |-> Nothing]
        /\ strayed = FALSE
    BY DEF Init
  <1>2. OutputTypes
    BY <1>1, EmptySeq DEF OutputTypes, Nothing
  <1>3. SinksFit /\ StreamsHaveSlots
    BY <1>1 DEF SinksFit, StreamsHaveSlots
  <1>4. \A d \in Devices, c \in Cables : told[d][c] = << >> /\ heard[d][c] = << >>
    BY <1>1 DEF Nothing
  <1>5. OutputSound
    BY <1>4, NothingArrives DEF OutputSound
  <1>6. OutputLinked
    <2>1. \A s \in Slots, d \in Devices : ~Live(s, d)
      BY <1>1, UnusedIs, UsbHostAssumption DEF Live
    <2> QED
      BY <2>1 DEF OutputLinked
  <1> QED
    BY <1>2, <1>3, <1>5, <1>6 DEF OutputInv

(* The streams of a slot that is released end with it.                     *)
LEMMA OutputRelease ==
    ASSUME UsbInv, OutputInv, NEW gone \in SUBSET UsedSlots, Release(gone),
           UNCHANGED <<at, told, heard, clipped, strayed, sinks, seats>>
    PROVE  OutputInv'
  <1> DEFINE devices == {slots[s].device : s \in gone}
  <1>1. /\ \A s \in gone : slots'[s] = Unused
        /\ \A s \in Slots \ gone : slots'[s] = slots[s]
    BY ReleaseKeeps DEF UsbInv, Types
  <1>2. outStream' = outStream \ UNION {Ports(d) : d \in devices}
    BY DEF Release
  <1>3. outStream \in SUBSET (Devices \X Cables)
    BY DEF OutputInv, OutputTypes
  <1>4. \A x \in Devices, c \in Cables :
            <<x, c>> \in outStream' <=> <<x, c>> \in outStream /\ x \notin devices
    BY <1>2 DEF Ports
  <1>5. OutputTypes' /\ SinksFit'
    BY <1>2 DEF OutputInv, OutputTypes, SinksFit
  <1>6. ASSUME ~strayed PROVE StreamsHaveSlots'
    <2> SUFFICES ASSUME NEW x \in outStream' PROVE \E s \in Slots : slots'[s].device = x[1]
      BY DEF StreamsHaveSlots
    <2>1. x \in outStream /\ x[1] \notin devices
      BY <1>2, <1>3, <1>4
    <2>2. PICK s \in Slots : slots[s].device = x[1]
      BY <1>6, <2>1 DEF OutputInv, StreamsHaveSlots
    <2>3. s \notin gone
      BY <2>1, <2>2
    <2> QED
      BY <1>1, <2>2, <2>3
  <1>7. ASSUME ~strayed PROVE OutputSound'
    BY <1>7 DEF OutputInv, OutputSound
  <1>8. ASSUME ~strayed PROVE OutputLinked'
    <2> SUFFICES ASSUME NEW d \in Devices, NEW c \in Cables, NEW s \in Slots, Live(s, d)'
                 PROVE  /\ <<d, c>> \notin clipped =>
                               Linked(<< >>, FALSE, heard[d][c], EncoderOf(s, d, c)', told[d][c])
                        /\ <<d, c>> \in outStream' => slots'[s].encoder[c].inSysEx
      BY DEF OutputLinked
    <2>1. s \notin gone
      BY <1>1, UnusedIs, UsbHostAssumption DEF Live
    <2>2. slots'[s] = slots[s] /\ Live(s, d)
      BY <1>1, <2>1 DEF Live
    <2>3. d \notin devices
      BY <2>1, <2>2, UsbHostAssumption DEF Live, UsbInv, SlotsApart, Used, UsedSlots
    <2>4. <<d, c>> \in outStream' <=> <<d, c>> \in outStream
      BY <1>4, <2>3
    <2>5. EncoderOf(s, d, c)' = EncoderOf(s, d, c)
      BY <2>2, <2>4 DEF EncoderOf
    <2> QED
      BY <1>8, <2>2, <2>4, <2>5 DEF OutputInv, OutputLinked
  <1> QED
    BY <1>5, <1>6, <1>7, <1>8 DEF OutputInv

(* A device that is gone is behind no slot, and begins anew.               *)
LEMMA OutputUnplug ==
    ASSUME UsbInv, OutputInv, NEW a \in Addresses, Unplug(a)
    PROVE  OutputInv'
  <1> DEFINE d == at[a]
  <1>1. /\ at' = [at EXCEPT ![a] = Nobody] /\ d # Nobody
        /\ told' = [told EXCEPT ![d] = Nothing] /\ heard' = [heard EXCEPT ![d] = Nothing]
        /\ clipped' = clipped \ Ports(d)
        /\ UNCHANGED <<slots, outStream, strayed, sinks>>
    BY DEF Unplug, routerVars, portVars
  <1>2. /\ Nobody \notin Devices /\ at \in [Addresses -> Devices \cup {Nobody}]
        /\ heard \in [Devices -> [Cables -> Seq(Packets)]]
        /\ told \in [Devices -> [Cables -> Seq(MidiMessages)]]
    BY UsbHostAssumption DEF UsbInv, Types, BusTypes, OutputInv, OutputTypes
  <1>3. d \in Devices
    BY <1>1, <1>2
  <1>4. \A b \in Addresses : at'[b] # d
    BY <1>1, <1>2 DEF UsbInv, BusInv
  <1> HIDE DEF d
  <1>5. /\ Nothing \in [Cables -> Seq(Packets)] /\ Nothing \in [Cables -> Seq(MidiMessages)]
        /\ \A c \in Cables : Nothing[c] = << >>
    BY EmptySeq DEF Nothing
  <1>6. OutputTypes' /\ SinksFit'
    BY <1>1, <1>2, <1>5 DEF OutputInv, OutputTypes, SinksFit
  <1>7. \A x \in Devices, c \in Cables :
            /\ x = d => heard'[x][c] = << >> /\ told'[x][c] = << >>
            /\ x # d => heard'[x][c] = heard[x][c] /\ told'[x][c] = told[x][c]
            /\ x # d => (<<x, c>> \in clipped' <=> <<x, c>> \in clipped)
    BY <1>1, <1>2, <1>5 DEF Ports
  <1>8. ASSUME ~strayed PROVE StreamsHaveSlots' /\ OutputSound'
    <2>1. StreamsHaveSlots'
      BY <1>1, <1>8 DEF OutputInv, StreamsHaveSlots
    <2>2. \A x \in Devices, c \in Cables : <<x, c>> \notin clipped =>
                  Arrives(Reading(FALSE, heard[x][c]).got, told[x][c], TRUE)
      BY <1>8 DEF OutputInv, OutputSound
    <2>3. OutputSound'
      BY <1>7, <2>2, NothingArrives DEF OutputSound
    <2> QED
      BY <2>1, <2>3
  <1>9. ASSUME ~strayed PROVE OutputLinked'
    <2> SUFFICES ASSUME NEW x \in Devices, NEW c \in Cables, NEW s \in Slots, Live(s, x)'
                 PROVE  /\ <<x, c>> \notin clipped' =>
                               Linked(<< >>, FALSE, heard'[x][c], EncoderOf(s, x, c)', told'[x][c])
                        /\ <<x, c>> \in outStream' => slots'[s].encoder[c].inSysEx
      BY DEF OutputLinked
    <2>1. slots[s].device = x /\ at'[slots[s].address] = x
      BY <1>1 DEF Live
    <2>2. Used(s)
      BY <1>2, <2>1 DEF Used
    <2>3. slots[s].address \in Addresses
      BY <2>2, UsedIs DEF UsbInv, Types
    <2>4. x # d
      BY <1>4, <2>1, <2>3
    <2>5. Live(s, x)
      BY <1>1, <1>2, <2>1, <2>3 DEF Live
    <2>6. EncoderOf(s, x, c)' = EncoderOf(s, x, c)
      BY <1>1 DEF EncoderOf
    <2> QED
      <3>1. /\ <<x, c>> \notin clipped =>
                   Linked(<< >>, FALSE, heard[x][c], EncoderOf(s, x, c), told[x][c])
            /\ <<x, c>> \in outStream => slots[s].encoder[c].inSysEx
        BY <1>9, <2>5 DEF OutputInv, OutputLinked
      <3>2. /\ heard'[x][c] = heard[x][c] /\ told'[x][c] = told[x][c]
            /\ <<x, c>> \in clipped' <=> <<x, c>> \in clipped
        BY <1>7, <2>4
      <3> QED
        BY <1>1, <2>6, <3>1, <3>2
  <1> QED
    BY <1>1, <1>6, <1>8, <1>9 DEF OutputInv

(* A device that is adopted had no slot, and its outputs no streams.       *)
LEMMA OutputAdopt ==
    ASSUME UsbInv, OutputInv, NEW i \in found, Adopt(i)
    PROVE  OutputInv'
  <1> DEFINE d == i.device
  <1>1. PICK s \in Slots : Adopted(i, s)
    BY AdoptIs
  <1>2. /\ told' = [told EXCEPT ![d] = Nothing] /\ heard' = [heard EXCEPT ![d] = Nothing]
        /\ clipped' = clipped \ Ports(d)
        /\ UNCHANGED <<at, outStream, strayed>>
    BY DEF Adopt, busVars
  <1>3. /\ slots[s].device = Nobody /\ slots'[s].device = d /\ d \in Devices
        /\ Nobody \notin Devices
        /\ \A t \in Slots : t # s => slots'[t] = slots[t]
    BY <1>1, UsbHostAssumption DEF Adopted, Used
  <1>13. PICK outs \in SUBSET {p \in Ports(d) : p[2] < OutCables[d]} : sinks' = Sinks(d, s, outs)
    BY <1>1 DEF Adopted
  <1>4. \A t \in Slots : slots[t].device # d
    BY <1>3 DEF UsbInv, FoundInv, Used
  <1> HIDE DEF d
  <1>5. /\ heard \in [Devices -> [Cables -> Seq(Packets)]]
        /\ told \in [Devices -> [Cables -> Seq(MidiMessages)]]
        /\ outStream \in SUBSET (Devices \X Cables)
    BY DEF OutputInv, OutputTypes
  <1>6. /\ Nothing \in [Cables -> Seq(Packets)] /\ Nothing \in [Cables -> Seq(MidiMessages)]
        /\ \A c \in Cables : Nothing[c] = << >>
    BY EmptySeq DEF Nothing
  <1>7. OutputTypes'
    BY <1>2, <1>5, <1>6 DEF OutputInv, OutputTypes
  <1>8. SinksFit'
    <2>1. /\ DOMAIN sinks' = DOMAIN sinks \cup outs
          /\ \A p \in DOMAIN sinks' :
                 sinks'[p] = IF p[1] = d THEN [slot |-> s, cable |-> p[2]] ELSE sinks[p]
      BY <1>13 DEF Sinks
    <2> SUFFICES ASSUME NEW p \in DOMAIN sinks'
                 PROVE  sinks'[p].cable = p[2] /\ p[2] < OutCables[p[1]]
      BY DEF SinksFit
    <2>2. p \in outs => p[1] = d /\ p[2] < OutCables[d]
      BY DEF Ports
    <2>3. p[2] < OutCables[p[1]]
      BY <2>1, <2>2 DEF OutputInv, SinksFit
    <2>4. sinks'[p].cable = p[2]
      <3>1. CASE p[1] = d
        <4>1. sinks'[p] = [slot |-> s, cable |-> p[2]]
          BY <2>1, <3>1
        <4> QED
          BY <4>1
      <3>2. CASE p[1] # d
        <4>1. p \in DOMAIN sinks /\ sinks'[p] = sinks[p]
          BY <2>1, <2>2, <3>2
        <4> QED
          BY <4>1 DEF OutputInv, SinksFit
      <3> QED
        BY <3>1, <3>2
    <2> QED
      BY <2>3, <2>4
  <1>9. \A x \in Devices, c \in Cables :
            /\ x = d => heard'[x][c] = << >> /\ told'[x][c] = << >>
            /\ x # d => heard'[x][c] = heard[x][c] /\ told'[x][c] = told[x][c]
            /\ x # d => (<<x, c>> \in clipped' <=> <<x, c>> \in clipped)
    BY <1>2, <1>5, <1>6 DEF Ports
  <1>10. ASSUME ~strayed PROVE StreamsHaveSlots'
    <2> SUFFICES ASSUME NEW x \in outStream PROVE \E t \in Slots : slots'[t].device = x[1]
      BY <1>2 DEF StreamsHaveSlots
    <2>1. PICK t \in Slots : slots[t].device = x[1]
      BY <1>10 DEF OutputInv, StreamsHaveSlots
    <2>2. t # s
      BY <1>3, <1>5, <2>1
    <2> QED
      BY <1>3, <2>1, <2>2
  <1>11. ASSUME ~strayed PROVE OutputSound'
    <2>1. \A x \in Devices, c \in Cables : <<x, c>> \notin clipped =>
                  Arrives(Reading(FALSE, heard[x][c]).got, told[x][c], TRUE)
      BY <1>11 DEF OutputInv, OutputSound
    <2> QED
      BY <1>9, <2>1, NothingArrives DEF OutputSound
  <1>12. ASSUME ~strayed PROVE OutputLinked'
    <2> SUFFICES ASSUME NEW x \in Devices, NEW c \in Cables, NEW t \in Slots, Live(t, x)'
                 PROVE  /\ <<x, c>> \notin clipped' =>
                               Linked(<< >>, FALSE, heard'[x][c], EncoderOf(t, x, c)', told'[x][c])
                        /\ <<x, c>> \in outStream' => slots'[t].encoder[c].inSysEx
      BY DEF OutputLinked
    <2>1. CASE x = d
      <3>1. <<x, c>> \notin outStream'
        <4>1. <<x, c>>[1] = d
          BY <2>1
        <4> QED
          BY <1>2, <1>4, <1>12, <4>1 DEF OutputInv, StreamsHaveSlots
      <3>2. EncoderOf(t, x, c)' = NewEncoder
        BY <3>1 DEF EncoderOf
      <3> QED
        BY <1>9, <2>1, <3>1, <3>2, LinkedNew
    <2>2. CASE x # d
      <3>1. slots'[t] = slots[t]
        BY <1>3, <2>2 DEF Live
      <3>2. Live(t, x) /\ EncoderOf(t, x, c)' = EncoderOf(t, x, c)
        BY <1>2, <3>1 DEF Live, EncoderOf
      <3> QED
        <4>1. /\ <<x, c>> \notin clipped =>
                     Linked(<< >>, FALSE, heard[x][c], EncoderOf(t, x, c), told[x][c])
              /\ <<x, c>> \in outStream => slots[t].encoder[c].inSysEx
          BY <1>12, <3>2 DEF OutputInv, OutputLinked
        <4>2. /\ heard'[x][c] = heard[x][c] /\ told'[x][c] = told[x][c]
              /\ <<x, c>> \in clipped' <=> <<x, c>> \in clipped
          BY <1>9, <2>2
        <4> QED
          BY <1>2, <3>1, <3>2, <4>1, <4>2
    <2> QED
      BY <2>1, <2>2
  <1> QED
    BY <1>2, <1>7, <1>8, <1>10, <1>11, <1>12 DEF OutputInv

(* Whatever slot it goes through, a send hands packets to a device, if it  *)
(* reaches one.                                                            *)
LEMMA OutputTypesDeliver ==
    ASSUME UsbInv, OutputTypes, NEW x \in DOMAIN sinks, NEW m \in Messages, Deliver(x, m)
    PROVE  OutputTypes'
  <1> DEFINE d == x[1]
             c == sinks[x].cable
             to == SlotOf(x)
             made == MakesPackets(x, m)
             fresh == Afresh(x, m)
  <1>1. PICK reached \in {Nobody, Addressed(x, m)} :
        /\ strayed' = (strayed \/ to.device \notin {d, Nobody})
        /\ heard' = IF reached = Nobody THEN heard
                    ELSE [heard EXCEPT ![reached][c] = (IF fresh THEN << >> ELSE @) \o made]
        /\ told' = IF Continues(x, m) \/ reached = d
                   THEN [told EXCEPT ![d][c] = Append(IF fresh THEN << >> ELSE @, m)] ELSE told
        /\ outStream' = IF m.chunk /\ m.end THEN outStream \ {x}
                        ELSE IF m.chunk /\ reached # Nobody THEN outStream \cup {x}
                        ELSE outStream
    BY Zenon DEF Deliver
  <1>2. /\ x \in Devices \X Cables /\ d \in Devices /\ c \in Cables
        /\ m \in MidiMessages /\ sinks[x].slot \in Slots
    BY UsbHostAssumption DEF UsbInv, Types, SlotTypes
  <1>3. reached # Nobody => reached \in Devices /\ made \in Seq(Packets)
    <2> SUFFICES ASSUME reached # Nobody
                 PROVE  reached \in Devices /\ made \in Seq(Packets)
      OBVIOUS
    <2>1. Used(sinks[x].slot) /\ reached = at[to.address]
      BY DEF Addressed, Used, SlotOf
    <2>2. to.address \in Addresses /\ to.encoder[c] \in Encoders
      BY <1>2, <2>1, UsedIs DEF UsbInv, Types, SlotOf
    <2>3. reached \in Devices
      BY <2>1, <2>2 DEF UsbInv, Types, BusTypes
    <2>4. made = Encode(to.encoder[c], c, m)
      BY DEF MakesPackets
    <2> QED
      BY <1>2, <2>2, <2>3, <2>4, EncodeType
  <1> HIDE DEF d, c, to, made, fresh
  <1>4. /\ heard \in [Devices -> [Cables -> Seq(Packets)]]
        /\ told \in [Devices -> [Cables -> Seq(MidiMessages)]]
        /\ outStream \in SUBSET (Devices \X Cables) /\ strayed \in BOOLEAN
    BY DEF OutputTypes
  <1>5. heard' \in [Devices -> [Cables -> Seq(Packets)]]
    <2>1. reached # Nobody =>
              (IF fresh THEN << >> ELSE heard[reached][c]) \o made \in Seq(Packets)
      BY <1>2, <1>3, <1>4, EmptySeq, ConcatProperties
    <2> QED
      BY <1>1, <1>2, <1>3, <1>4, <2>1
  <1>6. told' \in [Devices -> [Cables -> Seq(MidiMessages)]]
    <2>1. Append(IF fresh THEN << >> ELSE told[d][c], m) \in Seq(MidiMessages)
      BY <1>2, <1>4, EmptySeq, AppendProperties
    <2> QED
      BY <1>1, <1>2, <1>4, <2>1
  <1>7. outStream' \in SUBSET (Devices \X Cables) /\ strayed' \in BOOLEAN
    BY <1>1, <1>2, <1>4
  <1> QED
    BY <1>5, <1>6, <1>7 DEF OutputTypes

(* A send through the slot of its own device, or through one that is free: *)
(* it reaches the device, or nobody.                                       *)
Sending(x, m, d, c, s, made, goes, fresh) ==
    /\ d \in Devices /\ c \in Cables /\ s \in Slots /\ x = <<d, c>>
    /\ m \in MidiMessages /\ IsComplete(m) /\ Fits(x \in outStream, m)
    /\ \A t \in Slots : /\ Live(t, d) => t = s
                        /\ slots'[t].device = slots[t].device
                        /\ t # s => slots'[t] = slots[t]
    /\ slots[s].device \in {d, Nobody}
    /\ \A k \in Cables : k # c => slots'[s].encoder[k] = slots[s].encoder[k]
    /\ Live(s, d) => /\ slots[s].encoder[c] \in Encoders
                     /\ made = Encode(slots[s].encoder[c], c, m)
                     /\ slots'[s].encoder[c] = EncoderAfter(slots[s].encoder[c], m)
    /\ goes \in BOOLEAN /\ (goes => Live(s, d) /\ made # << >>)
    /\ fresh \in BOOLEAN /\ (fresh => x \in clipped /\ m.chunk /\ m.start)
    /\ heard' = IF goes THEN [heard EXCEPT ![d][c] = (IF fresh THEN << >> ELSE @) \o made]
                ELSE heard
    /\ told' = IF Continues(x, m) \/ goes
               THEN [told EXCEPT ![d][c] = Append(IF fresh THEN << >> ELSE @, m)] ELSE told
    /\ clipped' = IF Continues(x, m) /\ ~goes /\ Live(s, d) /\ made # << >>
                  THEN clipped \cup {x}
                  ELSE IF fresh /\ goes THEN clipped \ {x} ELSE clipped
    /\ outStream' = IF m.chunk /\ m.end THEN outStream \ {x}
                    ELSE IF m.chunk /\ goes THEN outStream \cup {x}
                    ELSE outStream
    /\ \A t \in Slots, e \in Devices : Live(t, e)' <=> Live(t, e)

LEMMA SendingIs ==
    ASSUME UsbInv, SinksFit, NEW x \in DOMAIN sinks, NEW m \in Messages, Deliver(x, m), ~strayed'
    PROVE  \E s, made, goes, fresh : Sending(x, m, x[1], x[2], s, made, goes, fresh)
  <1> DEFINE d == x[1]
             c == x[2]
             s == sinks[x].slot
             made == MakesPackets(x, m)
             addressed == Addressed(x, m)
             fresh == Afresh(x, m)
  <1>1. PICK reached \in {Nobody, addressed} :
        /\ Fits(x \in outStream, m) /\ slots[s].device \in {d, Nobody} /\ sinks[x].cable = c
        /\ heard' = IF reached = Nobody THEN heard
                    ELSE [heard EXCEPT ![reached][c] = (IF fresh THEN << >> ELSE @) \o made]
        /\ told' = IF Continues(x, m) \/ reached = d
                   THEN [told EXCEPT ![d][c] = Append(IF fresh THEN << >> ELSE @, m)] ELSE told
        /\ clipped' = IF Continues(x, m) /\ reached # addressed
                      THEN clipped \cup {x}
                      ELSE IF fresh /\ reached = d THEN clipped \ {x} ELSE clipped
        /\ outStream' = IF m.chunk /\ m.end THEN outStream \ {x}
                        ELSE IF m.chunk /\ reached # Nobody THEN outStream \cup {x}
                        ELSE outStream
    <2>1. sinks[x].cable = c
      BY DEF SinksFit
    <2> QED
      BY <2>1, Zenon DEF Deliver, SlotOf
  <1>2. /\ d \in Devices /\ c \in Cables /\ s \in Slots /\ x = <<d, c>> /\ c < OutCables[d]
        /\ m \in MidiMessages /\ IsComplete(m) /\ Nobody \notin Devices
    BY UsbHostAssumption DEF UsbInv, Types, SlotTypes, SinksFit
  <1>3. /\ \A t \in Slots : /\ slots'[t].device = slots[t].device
                            /\ slots'[t].address = slots[t].address
                            /\ t # s => slots'[t] = slots[t]
        /\ \A k \in Cables : k # c => slots'[s].encoder[k] = slots[s].encoder[k]
        /\ slots'[s].encoder[c] =
               IF Orphaned(x) \/ ~Used(s) THEN slots[s].encoder[c]
               ELSE EncoderAfter(slots[s].encoder[c], m)
    BY <1>1, DeliverIs
  <1>4. at' = at
    BY DEF Deliver, busVars
  <1>5. \A t \in Slots : slots[t].device = d => t = s
    <2> SUFFICES ASSUME NEW t \in Slots, slots[t].device = d PROVE t = s
      OBVIOUS
    <2>1. sinks[x] = [slot |-> t, cable |-> c]
      BY DEF UsbInv, SeatsInv
    <2> QED
      BY <2>1
  <1>6. Orphaned(x) <=> slots[s].device # Nobody /\ c >= OutCables[slots[s].device]
    BY <1>1, Zenon DEF Orphaned, SlotOf
  <1>7. ~Orphaned(x)
    <2>1. OutCables[d] \in Nat /\ c \in Nat
      <3> HIDE DEF d, c
      <3> QED
        BY <1>2, UsbHostAssumption
    <2> HIDE DEF d, c, s
    <2> QED
      BY <1>1, <1>2, <1>6, <2>1
  <1>8. made = Encode(slots[s].encoder[c], c, m)
    BY <1>1 DEF MakesPackets, SlotOf
  <1>9. addressed = IF slots[s].device = Nobody \/ made = << >> THEN Nobody
                    ELSE at[slots[s].address]
    BY <1>7 DEF Addressed, SlotOf
  <1>10. slots[s].device = d => /\ Used(s) /\ slots[s].encoder[c] \in Encoders
                                /\ at[slots[s].address] \in {d, Nobody}
    <2> SUFFICES ASSUME slots[s].device = d
                 PROVE  /\ Used(s) /\ slots[s].encoder[c] \in Encoders
                        /\ at[slots[s].address] \in {d, Nobody}
      OBVIOUS
    <2>1. Used(s)
      BY <1>2 DEF Used
    <2>2. slots[s].encoder[c] \in Encoders
      BY <1>2, <2>1, UsedIs DEF UsbInv, Types
    <2>3. StillThere(slots[s].address, d)
      BY <1>2, <2>1 DEF UsbInv, SlotsApart
    <2>4. at[slots[s].address] \in {d, Nobody}
      BY <2>3 DEF StillThere, UsbInv, BusInv
    <2> QED
      BY <2>1, <2>2, <2>4
  <1>22. fresh \in BOOLEAN /\ (fresh => x \in clipped /\ m.chunk /\ m.start)
    BY DEF Afresh
  <1> HIDE DEF made, addressed, d, c, s, fresh
  <1> DEFINE goes == reached # Nobody
  <1>20. addressed \in {d, Nobody} /\ (addressed = d <=> Live(s, d) /\ made # << >>)
    BY <1>1, <1>2, <1>9, <1>10 DEF Live
  <1>11. /\ reached \in {d, Nobody} /\ (reached = d <=> goes)
         /\ (goes => Live(s, d) /\ made # << >>)
         /\ (reached # addressed <=> ~goes /\ Live(s, d) /\ made # << >>)
    BY <1>1, <1>2, <1>20
  <1>12. \A t \in Slots, e \in Devices : Live(t, e)' <=> Live(t, e)
    BY <1>3, <1>4 DEF Live
  <1>13. Live(s, d) => slots'[s].encoder[c] = EncoderAfter(slots[s].encoder[c], m)
    BY <1>3, <1>7, <1>10 DEF Live
  <1>14. heard' = IF goes THEN [heard EXCEPT ![d][c] = (IF fresh THEN << >> ELSE @) \o made]
                  ELSE heard
    BY <1>1, <1>11
  <1>21. clipped' = IF Continues(x, m) /\ ~goes /\ Live(s, d) /\ made # << >>
                    THEN clipped \cup {x}
                    ELSE IF fresh /\ goes THEN clipped \ {x} ELSE clipped
    BY <1>1, <1>11
  <1>15. told' = IF Continues(x, m) \/ goes
                 THEN [told EXCEPT ![d][c] = Append(IF fresh THEN << >> ELSE @, m)] ELSE told
    BY <1>1, <1>11
  <1>16. outStream' = IF m.chunk /\ m.end THEN outStream \ {x}
                      ELSE IF m.chunk /\ goes THEN outStream \cup {x}
                      ELSE outStream
    BY <1>1
  <1>17. /\ Live(s, d) => slots[s].encoder[c] \in Encoders
         /\ \A t \in Slots : Live(t, d) => t = s
    BY <1>5, <1>10 DEF Live
  <1>18. goes \in BOOLEAN
    OBVIOUS
  <1> HIDE DEF goes
  <1>19. Sending(x, m, d, c, s, made, goes, fresh)
    BY <1>1, <1>2, <1>3, <1>8, <1>11, <1>12, <1>13, <1>14, <1>15, <1>16, <1>17, <1>18, <1>21, <1>22
    DEF Sending
  <1> QED
    BY <1>19 DEF d, c

LEMMA OutputDeliver ==
    ASSUME UsbInv, OutputInv, NEW x \in DOMAIN sinks, NEW m \in Messages, Deliver(x, m)
    PROVE  OutputInv'
  <1>1. OutputTypes'
    BY OutputTypesDeliver DEF OutputInv
  <1>2. SinksFit'
    <2>1. sinks' = sinks
      BY DEF Deliver, routerVars, portVars
    <2> QED
      BY <2>1 DEF OutputInv, SinksFit
  <1>3. ASSUME ~strayed' PROVE StreamsHaveSlots' /\ OutputSound' /\ OutputLinked'
    <2> DEFINE d == x[1]
               c == x[2]
    <2>1. PICK s, made, goes, fresh : Sending(x, m, d, c, s, made, goes, fresh)
      BY <1>3, SendingIs DEF OutputInv
    <2>2. ~strayed
      BY <1>3 DEF Deliver
    <2> DEFINE in == x \in outStream
               enc == slots[s].encoder[c]
               after == EncoderAfter(enc, m)
    <2> HIDE DEF d, c
    <2>3. /\ heard \in [Devices -> [Cables -> Seq(Packets)]]
          /\ told \in [Devices -> [Cables -> Seq(MidiMessages)]]
      BY DEF OutputInv, OutputTypes
    <2>4. d \in Devices /\ c \in Cables /\ s \in Slots /\ x = <<d, c>>
      BY <2>1 DEF Sending
    <2>5. \A e \in Devices, k \in Cables : ~(e = d /\ k = c) =>
              /\ heard'[e][k] = heard[e][k] /\ told'[e][k] = told[e][k]
              /\ <<e, k>> \in outStream' <=> <<e, k>> \in outStream
              /\ <<e, k>> \in clipped' <=> <<e, k>> \in clipped
              /\ \A t \in Slots : Live(t, e)' =>
                     Live(t, e) /\ slots'[t].encoder[k] = slots[t].encoder[k]
      <3> SUFFICES ASSUME NEW e \in Devices, NEW k \in Cables, ~(e = d /\ k = c)
                   PROVE  /\ heard'[e][k] = heard[e][k] /\ told'[e][k] = told[e][k]
                          /\ <<e, k>> \in outStream' <=> <<e, k>> \in outStream
                          /\ <<e, k>> \in clipped' <=> <<e, k>> \in clipped
                          /\ \A t \in Slots : Live(t, e)' =>
                                 Live(t, e) /\ slots'[t].encoder[k] = slots[t].encoder[k]
        OBVIOUS
      <3>1. heard'[e][k] = heard[e][k] /\ told'[e][k] = told[e][k]
        BY <2>1, <2>3, <2>4 DEF Sending
      <3>2. /\ <<e, k>> \in outStream' <=> <<e, k>> \in outStream
            /\ <<e, k>> \in clipped' <=> <<e, k>> \in clipped
        <4>1. <<e, k>> # x
          BY <2>4
        <4> QED
          BY <2>1, <4>1 DEF Sending
      <3>3. ASSUME NEW t \in Slots, Live(t, e)'
            PROVE  Live(t, e) /\ slots'[t].encoder[k] = slots[t].encoder[k]
        <4>1. Live(t, e)
          BY <2>1, <3>3 DEF Sending
        <4>2. CASE t = s
          <5>1. e = d
            BY <2>1, <4>1, <4>2, UsbHostAssumption DEF Live, Sending
          <5> QED
            BY <2>1, <4>1, <4>2, <5>1 DEF Sending
        <4>3. CASE t # s
          BY <2>1, <4>1, <4>3 DEF Sending
        <4> QED
          BY <4>2, <4>3
      <3> QED
        BY <3>1, <3>2, <3>3
    <2>6. CASE Live(s, d)
      <3> DEFINE had == IF fresh THEN << >> ELSE heard[d][c]
                 was == IF fresh THEN << >> ELSE told[d][c]
      <3>1. /\ heard'[d][c] = IF goes THEN had \o made ELSE heard[d][c]
            /\ told'[d][c] = IF Continues(x, m) \/ goes THEN Append(was, m) ELSE told[d][c]
            /\ x \in outStream' <=> ~(m.chunk /\ m.end) /\ ((m.chunk /\ goes) \/ in)
            /\ x \in clipped' <=>
                   \/ x \in clipped /\ ~(fresh /\ goes)
                   \/ Continues(x, m) /\ ~goes /\ made # << >>
            /\ goes \in BOOLEAN /\ (goes => made # << >>)
            /\ fresh \in BOOLEAN /\ (fresh => x \in clipped /\ m.chunk /\ m.start)
            /\ enc \in Encoders /\ made = Encode(enc, c, m) /\ slots'[s].encoder[c] = after
        BY <2>1, <2>3, <2>4, <2>6 DEF Sending
      <3>2. /\ x \notin clipped =>
                   Linked(<< >>, FALSE, heard[d][c], IF in THEN enc ELSE NewEncoder, told[d][c])
            /\ in => enc.inSysEx
        <4>1. /\ <<d, c>> \notin clipped =>
                     Linked(<< >>, FALSE, heard[d][c], EncoderOf(s, d, c), told[d][c])
              /\ <<d, c>> \in outStream => slots[s].encoder[c].inSysEx
          BY <2>2, <2>4, <2>6 DEF OutputInv, OutputLinked
        <4> QED
          BY <2>4, <4>1 DEF EncoderOf
      <3>3. had \in Seq(Packets) /\ was \in Seq(MidiMessages)
        BY <2>3, <2>4, EmptySeq
      <3>4. Continues(x, m) <=> in /\ m.chunk
        BY DEF Continues
      <3>5. /\ m \in MidiMessages /\ IsComplete(m) /\ Fits(in, m) /\ in \in BOOLEAN
            /\ m.chunk \in BOOLEAN
        BY <2>1 DEF Sending, MidiMessages
      <3>13. ~m.chunk => made # << >> /\ after = enc
        BY <2>4, <3>1, <3>5, ShortMakes DEF after
      <3>14. x \in outStream' => after.inSysEx
        BY <3>1, <3>2, <3>5, SinkStays DEF after
      <3>15. EncoderOf(s, d, c)' = IF x \in outStream' THEN after ELSE NewEncoder
        BY <2>4, <3>1 DEF EncoderOf
      <3> DEFINE stays == ~(m.chunk /\ m.end) /\ ((m.chunk /\ made # << >>) \/ in)
      <3>17. (fresh => ~in) /\ (fresh \/ x \notin clipped =>
                 Linked(<< >>, FALSE, had, IF in THEN enc ELSE NewEncoder, was))
        <4>1. fresh => ~in
          BY <3>1, <3>5 DEF Fits
        <4>2. CASE fresh
          BY <4>1, <4>2, LinkedNew
        <4>3. CASE ~fresh
          BY <3>2, <4>3
        <4> QED
          BY <4>1, <4>2, <4>3
      <3> HIDE DEF in, enc, after, had, was
      <3>16. ASSUME x \notin clipped'
             PROVE  Linked(<< >>, FALSE, heard'[d][c], EncoderOf(s, d, c)', told'[d][c])
        <4>1. CASE goes \/ made = << >>
          <5>1. (goes <=> made # << >>) /\ (fresh \/ x \notin clipped)
            BY <3>1, <3>16, <4>1
          <5>0. ~goes => ~fresh
            BY <3>1, <3>16
          <5>2. heard'[d][c] = had \o made
            BY <3>1, <3>3, <5>0, <5>1, ConcatEmptySeq DEF had
          <5>3. Continues(x, m) \/ goes <=> in \/ made # << >>
            BY <3>4, <3>5, <3>13, <5>1
          <5>4. x \in outStream' <=> stays
            BY <3>1, <5>1
          <5> DEFINE sends == Encode(enc, c, m)
                     remains == ~(m.chunk /\ m.end) /\ ((m.chunk /\ sends # << >>) \/ in)
          <5>5. \A f \in Seq(Packets), all \in Seq(MidiMessages) :
                    Linked(<< >>, FALSE, f, IF in THEN enc ELSE NewEncoder, all) =>
                        Linked(<< >>, FALSE, f \o sends,
                               IF remains THEN EncoderAfter(enc, m) ELSE NewEncoder,
                               IF in \/ sends # << >> THEN Append(all, m) ELSE all)
            BY <2>4, <3>1, <3>2, <3>5, SinkSends
          <5>6. sends = made
            BY <3>1
          <5> HIDE DEF sends
          <5>7. remains <=> stays
            BY <5>6
          <5> HIDE DEF remains, stays
          <5>8. Linked(<< >>, FALSE, had \o sends,
                       IF remains THEN EncoderAfter(enc, m) ELSE NewEncoder,
                       IF in \/ sends # << >> THEN Append(was, m) ELSE was)
            BY <3>3, <3>17, <5>1, <5>5
          <5>9. EncoderOf(s, d, c)' = IF remains THEN EncoderAfter(enc, m) ELSE NewEncoder
            BY <3>15, <5>4, <5>7 DEF after
          <5>10. told'[d][c] = IF in \/ sends # << >> THEN Append(was, m) ELSE was
            BY <3>1, <5>0, <5>1, <5>3, <5>6 DEF was
          <5> QED
            BY <5>2, <5>6, <5>8, <5>9, <5>10
        <4>2. CASE ~goes /\ made # << >>
          <5>1. ~Continues(x, m) /\ x \notin clipped
            BY <3>1, <3>16, <4>2
          <5>2. heard'[d][c] = heard[d][c] /\ told'[d][c] = told[d][c]
            BY <3>1, <4>2, <5>1
          <5>3. (x \in outStream' <=> in) /\ (in => after = enc)
            BY <3>1, <3>4, <3>5, <3>13, <4>2, <5>1
          <5>4. EncoderOf(s, d, c)' = IF in THEN enc ELSE NewEncoder
            BY <3>15, <5>3
          <5> QED
            BY <3>2, <5>1, <5>2, <5>4
        <4> QED
          BY <4>1, <4>2
      <3> HIDE DEF stays
      <3>8. /\ <<d, c>> \notin clipped' =>
                   Linked(<< >>, FALSE, heard'[d][c], EncoderOf(s, d, c)', told'[d][c])
            /\ <<d, c>> \in outStream' => slots'[s].encoder[c].inSysEx
        BY <2>4, <3>1, <3>14, <3>16
      <3>9. <<d, c>> \notin clipped' => Arrives(Reading(FALSE, heard'[d][c]).got, told'[d][c], TRUE)
        <4>1. heard'[d][c] \in Seq(Packets) /\ told'[d][c] \in Seq(MidiMessages)
          BY <1>1, <2>4 DEF OutputTypes
        <4>2. EncoderOf(s, d, c)' \in Encoders
          <5>1. after \in Encoders
            BY <3>1, <3>5, EncoderType DEF after
          <5> QED
            BY <3>15, <5>1, NewIsEncoder
        <4> HIDE DEF d, c
        <4> QED
          BY <3>8, <4>1, <4>2, LinkedSound
      <3>10. StreamsHaveSlots'
        <4> SUFFICES ASSUME NEW y \in outStream' PROVE \E t \in Slots : slots'[t].device = y[1]
          BY DEF StreamsHaveSlots
        <4>1. CASE y = x
          <5>1. slots'[s].device = d /\ x[1] = d
            BY <2>1, <2>4, <2>6 DEF Sending, Live
          <5> QED
            BY <2>4, <4>1, <5>1
        <4>2. CASE y # x
          <5>1. y \in outStream
            BY <2>1, <4>2 DEF Sending
          <5>2. PICK t \in Slots : slots[t].device = y[1]
            BY <2>2, <5>1 DEF OutputInv, StreamsHaveSlots
          <5> QED
            BY <2>1, <5>2 DEF Sending
        <4> QED
          BY <4>1, <4>2
      <3>11. OutputSound'
        <4> SUFFICES ASSUME NEW e \in Devices, NEW k \in Cables, <<e, k>> \notin clipped'
                     PROVE  Arrives(Reading(FALSE, heard'[e][k]).got, told'[e][k], TRUE)
          BY DEF OutputSound
        <4>1. CASE e = d /\ k = c
          BY <3>9, <4>1
        <4>2. CASE ~(e = d /\ k = c)
          BY <2>2, <2>5, <4>2 DEF OutputInv, OutputSound
        <4> QED
          BY <4>1, <4>2
      <3>12. OutputLinked'
        <4> SUFFICES ASSUME NEW e \in Devices, NEW k \in Cables, NEW t \in Slots, Live(t, e)'
                     PROVE  /\ <<e, k>> \notin clipped' =>
                                   Linked(<< >>, FALSE, heard'[e][k], EncoderOf(t, e, k)',
                                          told'[e][k])
                            /\ <<e, k>> \in outStream' => slots'[t].encoder[k].inSysEx
          BY DEF OutputLinked
        <4>1. CASE e = d /\ k = c
          <5>1. t = s
            BY <2>1, <4>1 DEF Sending
          <5> QED
            BY <3>8, <4>1, <5>1
        <4>2. CASE ~(e = d /\ k = c)
          <5>1. /\ Live(t, e) /\ heard'[e][k] = heard[e][k] /\ told'[e][k] = told[e][k]
                /\ <<e, k>> \in outStream' <=> <<e, k>> \in outStream
                /\ <<e, k>> \in clipped' <=> <<e, k>> \in clipped
                /\ slots'[t].encoder[k] = slots[t].encoder[k]
            BY <2>5, <4>2
          <5>2. EncoderOf(t, e, k)' = EncoderOf(t, e, k)
            BY <5>1 DEF EncoderOf
          <5> QED
            <6>1. /\ <<e, k>> \notin clipped =>
                         Linked(<< >>, FALSE, heard[e][k], EncoderOf(t, e, k), told[e][k])
                  /\ <<e, k>> \in outStream => slots[t].encoder[k].inSysEx
              BY <2>2, <5>1 DEF OutputInv, OutputLinked
            <6> QED
              BY <5>1, <5>2, <6>1
        <4> QED
          BY <4>1, <4>2
      <3> QED
        BY <3>10, <3>11, <3>12
    <2>7. CASE ~Live(s, d)
      <3>1. /\ ~goes /\ heard' = heard /\ outStream' \subseteq outStream
            /\ told'[d][c] = IF Continues(x, m) THEN Append(told[d][c], m) ELSE told[d][c]
            /\ clipped' = clipped /\ m \in MidiMessages
        <4>1. Continues(x, m) => ~fresh
          BY <2>1 DEF Sending, Continues, Fits
        <4>2. ~goes
          BY <2>1, <2>7 DEF Sending
        <4> QED
          BY <2>1, <2>3, <2>4, <2>7, <4>1, <4>2 DEF Sending
      <3>2. \A t \in Slots : ~Live(t, d)'
        BY <2>1, <2>4, <2>7 DEF Sending
      <3>3. StreamsHaveSlots'
        <4>1. \A t \in Slots : slots'[t].device = slots[t].device
          BY <2>1 DEF Sending
        <4> QED
          BY <2>2, <3>1, <4>1 DEF OutputInv, StreamsHaveSlots
      <3>4. OutputSound'
        <4> SUFFICES ASSUME NEW e \in Devices, NEW k \in Cables, <<e, k>> \notin clipped
                     PROVE  Arrives(Reading(FALSE, heard[e][k]).got, told'[e][k], TRUE)
          BY <3>1 DEF OutputSound
        <4>1. Arrives(Reading(FALSE, heard[e][k]).got, told[e][k], TRUE)
          BY <2>2 DEF OutputInv, OutputSound
        <4>2. CASE e = d /\ k = c
          <5>1. Reading(FALSE, heard[e][k]).got \in Seq(MidiMessages) /\ told[e][k] \in Seq(MidiMessages)
            <6>1. heard[e][k] \in Seq(Packets)
              BY <2>3
            <6> QED
              BY <2>3, <6>1, ReadingType DEF Readings
          <5>2. Arrives(Reading(FALSE, heard[e][k]).got, Append(told[e][k], m), TRUE)
            BY <3>1, <4>1, <5>1, SoundGrows
          <5> QED
            BY <3>1, <4>1, <4>2, <5>2
        <4>3. CASE ~(e = d /\ k = c)
          BY <2>5, <4>1, <4>3
        <4> QED
          BY <4>2, <4>3
      <3>5. OutputLinked'
        <4> SUFFICES ASSUME NEW e \in Devices, NEW k \in Cables, NEW t \in Slots, Live(t, e)'
                     PROVE  /\ <<e, k>> \notin clipped' =>
                                   Linked(<< >>, FALSE, heard'[e][k], EncoderOf(t, e, k)',
                                          told'[e][k])
                            /\ <<e, k>> \in outStream' => slots'[t].encoder[k].inSysEx
          BY DEF OutputLinked
        <4>1. ~(e = d /\ k = c)
          BY <3>2
        <4>2. /\ Live(t, e) /\ heard'[e][k] = heard[e][k] /\ told'[e][k] = told[e][k]
              /\ <<e, k>> \in outStream' <=> <<e, k>> \in outStream
              /\ <<e, k>> \in clipped' <=> <<e, k>> \in clipped
              /\ slots'[t].encoder[k] = slots[t].encoder[k]
          BY <2>5, <4>1
        <4>3. EncoderOf(t, e, k)' = EncoderOf(t, e, k)
          BY <4>2 DEF EncoderOf
        <4> QED
          <5>1. /\ <<e, k>> \notin clipped =>
                       Linked(<< >>, FALSE, heard[e][k], EncoderOf(t, e, k), told[e][k])
                /\ <<e, k>> \in outStream => slots[t].encoder[k].inSysEx
            BY <2>2, <4>2 DEF OutputInv, OutputLinked
          <5> QED
            BY <4>2, <4>3, <5>1
      <3> QED
        BY <3>3, <3>4, <3>5
    <2> QED
      BY <2>6, <2>7
  <1> QED
    BY <1>1, <1>2, <1>3 DEF OutputInv

LEMMA OutputNext == UsbInv /\ OutputInv /\ [Next]_vars => OutputInv'
  <1> SUFFICES ASSUME UsbInv, OutputInv, [Next]_vars PROVE OutputInv'
    OBVIOUS
  <1>1. ASSUME UNCHANGED <<at, told, heard, clipped, strayed, sinks, outStream>>,
               \A s \in Slots : /\ slots'[s].device = slots[s].device
                                /\ slots'[s].address = slots[s].address
                                /\ slots'[s].encoder = slots[s].encoder
        PROVE  OutputInv'
    <2>1. \A s \in Slots, d \in Devices : Live(s, d)' => Live(s, d)
      BY <1>1 DEF Live
    <2> QED
      BY <1>1, <2>1, OutputStays
  <1>2. CASE \E d \in Devices, a \in Addresses : Plug(d, a)
    <2>1. PICK d \in Devices, a \in Addresses : Plug(d, a)
      BY <1>2
    <2>2. /\ at' = [at EXCEPT ![a] = d] /\ at[a] = Nobody /\ a \notin freed
          /\ UNCHANGED <<told, heard, clipped, strayed, sinks, outStream, slots>>
      BY <2>1 DEF Plug, outVars, routerVars, portVars
    <2>3. \A s \in Slots, e \in Devices : Live(s, e)' => Live(s, e)
      <3> SUFFICES ASSUME NEW s \in Slots, NEW e \in Devices, Live(s, e)' PROVE Live(s, e)
        OBVIOUS
      <3>1. slots[s].device = e /\ at'[slots[s].address] = e /\ Used(s)
        BY <2>2, UsbHostAssumption DEF Live, Used
      <3>2. slots[s].address \in Addresses /\ StillThere(slots[s].address, e)
        BY <3>1, UsedIs DEF UsbInv, Types, SlotsApart
      <3>3. slots[s].address # a
        BY <2>2, <3>2, UsbHostAssumption DEF StillThere
      <3> QED
        BY <2>2, <3>1, <3>2, <3>3 DEF Live, UsbInv, Types, BusTypes
    <2> QED
      BY <2>2, <2>3, OutputStays
  <1>3. CASE \E a \in Addresses : Unplug(a)
    BY <1>3, OutputUnplug
  <1>4. CASE Poll
    <2>1. PICK list \in Listing : Release({s \in Slots : Used(s) /\ Gone(s, list)})
      BY <1>4 DEF Poll
    <2>2. {s \in Slots : Used(s) /\ Gone(s, list)} \in SUBSET UsedSlots
      BY DEF UsedSlots
    <2>3. UNCHANGED <<at, told, heard, clipped, strayed, sinks, seats>>
      BY <1>4 DEF Poll, portVars
    <2> QED
      BY <2>1, <2>2, <2>3, OutputRelease
  <1>5. CASE End
    <2>1. Release(UsedSlots) /\ UNCHANGED <<at, told, heard, clipped, strayed, sinks, seats>>
      BY <1>5 DEF End, UsedSlots, busVars, portVars
    <2> QED
      BY <2>1, OutputRelease
  <1>6. CASE \E i \in found : Adopt(i)
    BY <1>6, OutputAdopt
  <1>7. CASE Drain
    <2>1. UNCHANGED <<at, told, heard, clipped, strayed, sinks, outStream>>
      BY <1>7 DEF Drain, NextPacket, busVars, outVars, routerVars, portVars
    <2>2. PICK s \in Slots : \E d, p, open : Drained(s, d, p, open)
      BY <1>7, DrainIs
    <2>3. \A t \in Slots : /\ slots'[t].device = slots[t].device
                           /\ slots'[t].address = slots[t].address
                           /\ slots'[t].encoder = slots[t].encoder
      BY <2>2 DEF Drained
    <2> QED
      BY <1>1, <2>1, <2>3
  <1>8. CASE \E x \in DOMAIN sinks, m \in Messages : Deliver(x, m)
    BY <1>8, OutputDeliver
  <1>9. ASSUME UNCHANGED <<at, told, heard, clipped, strayed, sinks, outStream, slots>>
        PROVE  OutputInv'
    BY <1>1, <1>9
  <1>10. CASE \E d \in Devices : Claim(d)
    BY <1>9, <1>10, Zenon DEF Claim, outVars, routerVars, portVars
  <1>11. CASE \E a \in Addresses, c \in Cables, m \in Messages : DeviceSends(a, c, m)
    BY <1>9, <1>11, Zenon DEF DeviceSends, busVars, outVars, routerVars, portVars
  <1>12. CASE OnMidi
    BY <1>9, <1>12, Zenon DEF OnMidi, busVars, outVars, routerVars, portVars
  <1>13. CASE \E i \in found : Skip(i) \/ Refuse(i)
    BY <1>9, <1>13, Zenon DEF Skip, Refuse, busVars, outVars, routerVars, portVars
  <1>14. CASE BeginDrain \/ EndUpdate \/ Begin
    BY <1>9, <1>14, Zenon DEF BeginDrain, EndUpdate, Begin, busVars, outVars, routerVars, portVars
  <1>15. CASE Discard
    BY <1>9, <1>15, Zenon DEF Discard, NextPacket, busVars, outVars, routerVars, portVars
  <1>16. CASE UNCHANGED vars
    BY <1>9, <1>16, Zenon DEF vars, busVars, outVars, routerVars, portVars
  <1> QED
    BY <1>2, <1>3, <1>4, <1>5, <1>6, <1>7, <1>8, <1>10, <1>11, <1>12, <1>13, <1>14, <1>15,
       <1>16 DEF Next
-----------------------------------------------------------------------------
(* As long as no send goes astray, a device that reads its packets has     *)
(* what its outputs accepted, in order, and all of it once no bytes wait   *)
(* in the encoder of its slot, whichever slots and cables the outputs of   *)
(* other devices use: send(), sendFrom(), release(), adopt().              *)
THEOREM OutputsArrive == Spec => []OutputIsFaithful
  <1>1. UsbInv /\ OutputInv => OutputIsFaithful
    <2> SUFFICES ASSUME UsbInv, OutputInv, ~strayed, NEW d \in Devices, NEW c \in Cables,
                        <<d, c>> \notin clipped
                 PROVE  Arrives(Reading(FALSE, heard[d][c]).got, told[d][c],
                                \A s \in Slots : \/ slots[s].device # d
                                                 \/ at[slots[s].address] # d
                                                 \/ slots[s].encoder[c].pending # << >>)
      BY DEF OutputIsFaithful
    <2> DEFINE waits(s) == \/ slots[s].device # d
                           \/ at[slots[s].address] # d
                           \/ slots[s].encoder[c].pending # << >>
    <2>1. Arrives(Reading(FALSE, heard[d][c]).got, told[d][c], TRUE)
      BY DEF OutputInv, OutputSound
    <2>2. CASE \A s \in Slots : waits(s)
      BY <2>1, <2>2 DEF Arrives
    <2>3. CASE ~\A s \in Slots : waits(s)
      <3>1. PICK s \in Slots : ~waits(s)
        BY <2>3
      <3>2. Live(s, d) /\ slots[s].encoder[c].pending = << >>
        BY <3>1 DEF Live
      <3>3. Linked(<< >>, FALSE, heard[d][c], EncoderOf(s, d, c), told[d][c])
        BY <3>2 DEF OutputInv, OutputLinked
      <3>4. slots[s].encoder[c] \in Encoders
        BY <3>2, UsedIs, UsbHostAssumption DEF Live, Used, UsbInv, Types
      <3>5. EncoderOf(s, d, c) \in Encoders /\ EncoderOf(s, d, c).pending = << >>
        BY <3>2, <3>4, NewIsEncoder DEF EncoderOf
      <3>6. heard[d][c] \in Seq(Packets) /\ told[d][c] \in Seq(MidiMessages)
        BY DEF OutputInv, OutputTypes
      <3> HIDE DEF waits
      <3>7. EncoderOf(s, d, c).pending # << >> => FALSE
        BY <3>5
      <3>8. Arrives(Reading(FALSE, heard[d][c]).got, told[d][c], FALSE)
        BY <3>3, <3>5, <3>6, <3>7, LinkedSound
      <3> QED
        BY <3>8 DEF Arrives
    <2> QED
      BY <2>2, <2>3
  <1>2. UsbInv /\ OutputInv /\ [Next]_vars => (UsbInv /\ OutputInv)'
    BY InvNext, OutputNext
  <1> QED
    BY <1>1, <1>2, InvInit, OutputInit, PTL DEF Spec
-----------------------------------------------------------------------------
CONSTANTS InPortCount, OutPortCount, HostMessages, RouterMessages, FifoSize,
          PacketsPerUpdate, MaxMounts, MaxCalls, MaxMessages
VARIABLES mounted, hostEncoder, fromHost, toHost, begun, present, budget, decoders, encoders,
          connected, streams, hostSent, fromUsb, toUsb, hostGot, cutIn, cutOut,
          mounts, calls, counted

Device ==
    INSTANCE UsbDevice WITH available <- present, open <- decoders, handed <- fromUsb,
                            told <- toUsb, impaired <- cutIn, broken <- cutOut,
                            messages <- counted

PortAssumption ==
    /\ HostMessages \subseteq {m \in MidiMessages : IsComplete(m)}
    /\ RouterMessages \subseteq {m \in MidiMessages : IsComplete(m)}
    /\ FifoSize \in Nat /\ PacketsPerUpdate \in Nat
    /\ InPortCount \in Nat /\ OutPortCount \in Nat

LEMMA SameOperators ==
    /\ Device!NewEncoder = NewEncoder
    /\ \A o, m : Device!Fits(o, m) = Fits(o, m)
    /\ \A e, c, m : Device!Encode(e, c, m) = Encode(e, c, m)
    /\ \A e, m : Device!EncoderAfter(e, m) = EncoderAfter(e, m)
    /\ \A o, p : Device!Decode(o, p) = Decode(o, p)
    /\ \A o, p : Device!OpenAfterPacket(o, p) = OpenAfterPacket(o, p)
    /\ \A o, s : Device!Reading(o, s) = Reading(o, s)
    /\ \A g, s, u : Device!Arrives(g, s, u) = Arrives(g, s, u)
  <1>1. /\ Device!NewEncoder = NewEncoder /\ Device!SysExStart = SysExStart
        /\ Device!SysExEnd = SysExEnd /\ Device!SysExStarts = SysExStarts
        /\ \A n : Device!SysExEnds(n) = SysExEnds(n)
    BY Zenon DEF Device!NewEncoder, NewEncoder, Device!SysExStart, SysExStart,
       Device!SysExEnd, SysExEnd, Device!SysExStarts, SysExStarts, Device!SysExEnds, SysExEnds
  <1>2. /\ \A b : Device!HasFixedLength(b) = HasFixedLength(b)
        /\ \A o, m : Device!Fits(o, m) = Fits(o, m)
        /\ \A o, m : Device!OpenAfter(o, m) = OpenAfter(o, m)
    BY Zenon DEF Device!HasFixedLength, HasFixedLength, Device!IsUndefined, IsUndefined,
       Device!IsStatusByte, IsStatusByte, Device!IsSystemRealTime, IsSystemRealTime,
       Device!SysExStart, SysExStart, Device!SysExEnd, SysExEnd,
       Device!Fits, Fits, Device!OpenAfter, OpenAfter
  <1>3. \A e, c, m : Device!Encode(e, c, m) = Encode(e, c, m)
    <2>1. \A e, m : Device!Encodable(e, m) = Encodable(e, m)
      BY <1>2, Zenon DEF Device!Encodable, Encodable
    <2>2. \A c, m : Device!EncodeShort(c, m) = EncodeShort(c, m)
      BY Zenon DEF Device!EncodeShort, EncodeShort, Device!CinForStatus, CinForStatus,
         Device!IsChannelVoice, IsChannelVoice, Device!SingleByte, SingleByte,
         Device!Packet, Packet
    <2>3. \A e, m : Device!Line(e, m) = Line(e, m)
      BY Zenon DEF Device!Line, Line, Device!SysExStart, SysExStart
    <2>4. \A c, l : Device!Groups(c, l) = Groups(c, l)
      BY Zenon DEF Device!Groups, Groups, Device!SysExStarts, SysExStarts, Device!Packet, Packet
    <2>5. \A l : Device!Rest(l) = Rest(l)
      BY Zenon DEF Device!Rest, Rest
    <2>6. \A c, r : Device!EndPacket(c, r) = EndPacket(c, r)
      BY Zenon DEF Device!EndPacket, EndPacket, Device!SysExEnds, SysExEnds,
         Device!SysExEnd, SysExEnd, Device!Packet, Packet
    <2> QED
      BY <2>1, <2>2, <2>3, <2>4, <2>5, <2>6, Zenon DEF Device!Encode, Encode
  <1>4. \A e, m : Device!EncoderAfter(e, m) = EncoderAfter(e, m)
    <2>1. \A e, m : Device!Encodable(e, m) = Encodable(e, m)
      BY <1>2, Zenon DEF Device!Encodable, Encodable
    <2>2. \A e, m : Device!Line(e, m) = Line(e, m)
      BY Zenon DEF Device!Line, Line, Device!SysExStart, SysExStart
    <2>3. \A l : Device!Rest(l) = Rest(l)
      BY Zenon DEF Device!Rest, Rest
    <2> QED
      BY <1>1, <2>1, <2>2, <2>3, Zenon DEF Device!EncoderAfter, EncoderAfter
  <1>5. \A o, p : Device!Decode(o, p) = Decode(o, p)
    BY Zenon DEF Device!Decode, Decode, Device!CinLength, CinLength, Device!IsShort, IsShort,
       Device!IsSysExCin, IsSysExCin, Device!DecodeShort, DecodeShort,
       Device!IsOrphan, IsOrphan, Device!Payload, Payload,
       Device!SysExStart, SysExStart, Device!SysExEnd, SysExEnd,
       Device!HasFixedLength, HasFixedLength, Device!IsUndefined, IsUndefined,
       Device!IsStatusByte, IsStatusByte, Device!DataLength, DataLength,
       Device!ShortMessage, ShortMessage, Device!ChunkMessage, ChunkMessage,
       Device!SysExStarts, SysExStarts, Device!SysExEnds, SysExEnds,
       Device!SingleByte, SingleByte
  <1>6. \A o, p : Device!OpenAfterPacket(o, p) = OpenAfterPacket(o, p)
    BY <1>2, <1>5, Zenon DEF Device!OpenAfterPacket, OpenAfterPacket
  <1>7. \A g, s, u : Device!Arrives(g, s, u) = Arrives(g, s, u)
    <2>1. \A s : Device!EventsOf(s) = EventsOf(s)
      BY Zenon DEF Device!EventsOf, EventsOf,
       Device!IsRealTime, IsRealTime, Device!IsSystemRealTime, IsSystemRealTime, Device!Events, Events, Device!StartMark, StartMark,
       Device!EndMark, EndMark, Device!FlattenSeq, FlattenSeq
    <2>2. \A s : Device!RealTimeOf(s) = RealTimeOf(s)
      BY Zenon DEF Device!RealTimeOf, RealTimeOf,
       Device!IsRealTime, IsRealTime, Device!IsSystemRealTime, IsSystemRealTime,
       Device!FlattenSeq, FlattenSeq
    <2>3. \A s, t : Device!IsPrefix(s, t) = IsPrefix(s, t)
      BY Zenon DEF Device!IsPrefix, IsPrefix
    <2> QED
      BY <2>1, <2>2, <2>3, Zenon DEF Device!Arrives, Arrives
  <1>8. \A o, s : Device!Reading(o, s) = Reading(o, s)
    BY ZenonT(120) DEF Device!Reading, Reading, Device!OpenAfterPacket, OpenAfterPacket,
       Device!OpenAfter, OpenAfter,
       Device!Decode, Decode, Device!CinLength, CinLength, Device!IsShort, IsShort,
       Device!IsSysExCin, IsSysExCin, Device!DecodeShort, DecodeShort,
       Device!IsOrphan, IsOrphan, Device!Payload, Payload,
       Device!SysExStart, SysExStart, Device!SysExEnd, SysExEnd,
       Device!HasFixedLength, HasFixedLength, Device!IsUndefined, IsUndefined,
       Device!IsStatusByte, IsStatusByte, Device!DataLength, DataLength,
       Device!ShortMessage, ShortMessage, Device!ChunkMessage, ChunkMessage,
       Device!SysExStarts, SysExStarts, Device!SysExEnds, SysExEnds,
       Device!SingleByte, SingleByte
  <1> QED
    BY <1>1, <1>2, <1>3, <1>4, <1>5, <1>6, <1>7, <1>8

(* The packets of a FIFO that are of one cable.                            *)
OfCable(c) == [p \in Packets |-> IF p.cable = c THEN <<p>> ELSE << >>]
Carried(fifo, c) == FlatMap(OfCable(c), fifo)
EncoderIn(c) == IF c \in streams THEN encoders[c] ELSE NewEncoder

PortTypes ==
    /\ {mounted, begun, present, connected, cutIn, cutOut} \subseteq BOOLEAN
    /\ hostEncoder \in [Cables -> Encoders] /\ encoders \in [Cables -> Encoders]
    /\ fromHost \in Seq(Packets) /\ Len(fromHost) <= FifoSize
    /\ toHost \in Seq(Packets) /\ Len(toHost) <= FifoSize
    /\ budget \in 0..PacketsPerUpdate
    /\ decoders \in [Cables -> BOOLEAN] /\ streams \in SUBSET Device!OutPorts
    /\ hostSent \in [Cables -> Seq(MidiMessages)] /\ fromUsb \in [Cables -> Seq(MidiMessages)]
    /\ toUsb \in [Cables -> Seq(MidiMessages)] /\ hostGot \in [Cables -> Seq(Packets)]

(* While the host is away the FIFOs are empty, and a dump that it left     *)
(* open is marked as cut off.                                              *)
PortSilent ==
    /\ present = connected /\ (streams # {} => present)
    /\ ~mounted =>
           /\ fromHost = << >> /\ toHost = << >>
           /\ \A c \in Cables : hostEncoder[c] = NewEncoder
           /\ ~cutIn => \A c \in Cables : decoders[c] = FALSE
           /\ ~cutOut => streams = {}

HostLinked ==
    \A c \in Device!InPorts :
        Linked(fromUsb[c], decoders[c], Carried(fromHost, c), hostEncoder[c], hostSent[c])

PortLinked ==
    \A c \in Device!OutPorts :
        /\ Linked(<< >>, FALSE, hostGot[c] \o Carried(toHost, c), EncoderIn(c), toUsb[c])
        /\ c \in streams => encoders[c].inSysEx

DeviceInv ==
    /\ PortAssumption /\ PortTypes /\ PortSilent
    /\ mounted /\ ~cutIn => HostLinked
    /\ mounted /\ ~cutOut => PortLinked
-----------------------------------------------------------------------------
LEMMA CableMaps ==
    ASSUME NEW c \in Cables
    PROVE  /\ Maps(OfCable(c), Packets, Seq(Packets))
           /\ \A p \in Packets : OfCable(c)[p] = IF p.cable = c THEN <<p>> ELSE << >>
  <1>1. ASSUME NEW p \in Packets PROVE OfCable(c)[p] \in Seq(Packets)
    <2>1. << >> \in Seq(Packets) /\ <<p>> \in Seq(Packets)
      OBVIOUS
    <2> QED
      BY <2>1 DEF OfCable
  <1>2. \A p \in Packets : OfCable(c)[p] = IF p.cable = c THEN <<p>> ELSE << >>
    BY DEF OfCable
  <1> QED
    BY <1>1, <1>2 DEF Maps

LEMMA CarriedType ==
    ASSUME NEW c \in Cables, NEW f \in Seq(Packets)
    PROVE  Carried(f, c) \in Seq(Packets)
  BY CableMaps, FlatMapIsSeq DEF Carried

LEMMA CarriedNone == ASSUME NEW c PROVE Carried(<< >>, c) = << >>
  BY FlatMapEmpty DEF Carried

LEMMA CarriedJoins ==
    ASSUME NEW c \in Cables, NEW f \in Seq(Packets), NEW g \in Seq(Packets)
    PROVE  Carried(f \o g, c) = Carried(f, c) \o Carried(g, c)
  <1>1. \A s, t \in Seq(Packets) :
            FlatMap(OfCable(c), s \o t) = FlatMap(OfCable(c), s) \o FlatMap(OfCable(c), t)
    BY CableMaps, FlatMapConcat
  <1> QED
    BY <1>1, Zenon DEF Carried

(* The packets of a message are all of its cable.                          *)
LEMMA CarriedMade ==
    ASSUME NEW c \in Cables, NEW k \in Cables, NEW g \in Seq(Packets),
           \A i \in 1..Len(g) : g[i].cable = k
    PROVE  Carried(g, c) = IF c = k THEN g ELSE << >>
  <1> DEFINE f == OfCable(c)
  <1>1. /\ Maps(f, Packets, Seq(Packets)) /\ Len(g) \in Nat
        /\ \A i \in 1..Len(g) : g[i] \in Packets
    BY CableMaps, ElementOfSeq, LenProperties
  <1>2. \A i \in 1..Len(g) : f[g[i]] = IF c = k THEN <<g[i]>> ELSE << >>
    BY <1>1, CableMaps
  <1> HIDE DEF f
  <1>3. CASE c = k
    <2>1. \A i \in 1..Len(g) : f[g[i]] = <<g[i]>>
      BY <1>2, <1>3
    <2>2. FlatMap(f, g) = g
      BY <1>1, <2>1, FlatMapEach
    <2> QED
      BY <1>3, <2>2 DEF Carried, f
  <1>4. CASE c # k
    <2>1. \A i \in 1..Len(g) : f[g[i]] = << >>
      BY <1>2, <1>4
    <2>2. FlatMap(f, g) = << >>
      BY <1>1, <2>1, FlatMapNone
    <2> QED
      BY <1>4, <2>2 DEF Carried, f
  <1> QED
    BY <1>3, <1>4

LEMMA CarriedHead ==
    ASSUME NEW s \in Seq(Packets), s # << >>, NEW c \in Cables
    PROVE  /\ Head(s) \in Packets /\ Tail(s) \in Seq(Packets) /\ Len(Tail(s)) <= Len(s)
           /\ Len(s) \in Nat /\ Len(Tail(s)) \in Nat
           /\ Carried(Tail(s), c) \in Seq(Packets)
           /\ Carried(s, c) = IF Head(s).cable = c THEN <<Head(s)>> \o Carried(Tail(s), c)
                              ELSE Carried(Tail(s), c)
  <1>1. Head(s) \in Packets /\ Tail(s) \in Seq(Packets) /\ Len(Tail(s)) = Len(s) - 1
    BY HeadTailProperties
  <1>2. s = <<Head(s)>> \o Tail(s)
    BY HeadTailProperties
  <1>3. Len(s) \in Nat /\ Len(Tail(s)) \in Nat
    BY <1>1, LenProperties
  <1>4. Len(Tail(s)) <= Len(s)
    BY <1>1, <1>3
  <1>5. /\ <<Head(s)>> \in Seq(Packets) /\ Carried(Tail(s), c) \in Seq(Packets)
        /\ Len(<<Head(s)>>) = 1 /\ <<Head(s)>>[1] = Head(s)
    <2>1. Carried(Tail(s), c) \in Seq(Packets)
      BY <1>1, CarriedType
    <2>2. <<Head(s)>> \in Seq(Packets) /\ Len(<<Head(s)>>) = 1 /\ <<Head(s)>>[1] = Head(s)
      BY <1>1
    <2> QED
      BY <2>1, <2>2
  <1>6. \A f, g \in Seq(Packets) : Carried(f \o g, c) = Carried(f, c) \o Carried(g, c)
    BY CarriedJoins
  <1>7. Carried(<<Head(s)>> \o Tail(s), c) = Carried(<<Head(s)>>, c) \o Carried(Tail(s), c)
    BY <1>1, <1>5, <1>6, Zenon
  <1>8. Carried(<<Head(s)>>, c) = IF c = Head(s).cable THEN <<Head(s)>> ELSE << >>
    <2>1. Head(s).cable \in Cables
      BY <1>1 DEF Packets
    <2>2. \A i \in 1..Len(<<Head(s)>>) : <<Head(s)>>[i].cable = Head(s).cable
      BY <1>5
    <2> QED
      BY <1>5, <2>1, <2>2, CarriedMade
  <1>9. << >> \o Carried(Tail(s), c) = Carried(Tail(s), c)
    BY <1>5, ConcatEmptySeq
  <1>10. Carried(s, c) = Carried(<<Head(s)>>, c) \o Carried(Tail(s), c)
    BY <1>2, <1>7, Zenon
  <1>11. Carried(s, c) = IF Head(s).cable = c THEN <<Head(s)>> \o Carried(Tail(s), c)
                         ELSE Carried(Tail(s), c)
    BY <1>8, <1>9, <1>10
  <1> QED
    BY <1>1, <1>3, <1>4, <1>5, <1>11, Zenon

LEMMA PortIs ==
    ASSUME PortAssumption
    PROVE  /\ Device!InPorts \in SUBSET Cables /\ Device!OutPorts \in SUBSET Cables
           /\ Device!Nothing \in [Cables -> Seq(MidiMessages)]
           /\ Device!Nothing \in [Cables -> Seq(Packets)]
           /\ \A c \in Cables : Device!Nothing[c] = << >>
           /\ Device!NoEncoders \in [Cables -> Encoders]
           /\ \A c \in Cables : Device!NoEncoders[c] = NewEncoder
           /\ Device!Closed \in [Cables -> BOOLEAN]
           /\ \A c \in Cables : Device!Closed[c] = FALSE
  <1>1. Device!NewEncoder = NewEncoder /\ NewEncoder \in Encoders
    BY SameOperators, NewIsEncoder
  <1> QED
    BY <1>1, EmptySeq DEF Device!InPorts, Device!OutPorts, Device!Nothing, Device!NoEncoders,
       Device!Closed

LEMMA DeviceInit == PortAssumption /\ Device!Init => DeviceInv
  <1> SUFFICES ASSUME PortAssumption, Device!Init PROVE DeviceInv
    OBVIOUS
  <1>1. /\ mounted = FALSE /\ hostEncoder = Device!NoEncoders
        /\ fromHost = << >> /\ toHost = << >>
        /\ begun = FALSE /\ present = FALSE /\ connected = FALSE /\ budget = 0
        /\ decoders = Device!Closed /\ encoders = Device!NoEncoders /\ streams = {}
        /\ hostSent = Device!Nothing /\ fromUsb = Device!Nothing
        /\ toUsb = Device!Nothing /\ hostGot = Device!Nothing
        /\ cutIn = FALSE /\ cutOut = FALSE
    BY DEF Device!Init
  <1>2. << >> \in Seq(Packets) /\ Len(<< >>) = 0 /\ 0 <= FifoSize /\ 0 \in 0..PacketsPerUpdate
    BY EmptySeq DEF PortAssumption
  <1>3. PortTypes
    BY <1>1, <1>2, PortIs DEF PortTypes
  <1>4. PortSilent
    BY <1>1, PortIs DEF PortSilent
  <1> QED
    BY <1>1, <1>3, <1>4 DEF DeviceInv

LEMMA DeviceMounts == ASSUME DeviceInv, Device!Mount PROVE DeviceInv'
  <1>1. /\ mounted = FALSE /\ mounted' = TRUE
        /\ hostSent' = Device!Nothing /\ fromUsb' = Device!Nothing
        /\ toUsb' = Device!Nothing /\ hostGot' = Device!Nothing
        /\ UNCHANGED <<hostEncoder, fromHost, toHost, begun, present, budget, connected>>
        /\ UNCHANGED <<decoders, encoders, streams, cutIn, cutOut>>
    BY DEF Device!Mount, Device!streamVars, DeviceInv, PortTypes
  <1>2. PortAssumption /\ PortTypes /\ PortSilent
    BY DEF DeviceInv
  <1>3. PortTypes'
    BY <1>1, <1>2, PortIs DEF PortTypes
  <1>4. PortSilent'
    BY <1>1, <1>2 DEF PortSilent
  <1>5. \A c \in Cables : Carried(<< >>, c) = << >>
    BY CarriedNone
  <1>6. ASSUME ~cutIn PROVE HostLinked'
    <2>1. \A c \in Cables : decoders[c] = FALSE /\ hostEncoder[c] = NewEncoder
      BY <1>1, <1>2, <1>6 DEF PortSilent
    <2>2. fromHost = << >>
      BY <1>1, <1>2 DEF PortSilent
    <2> SUFFICES ASSUME NEW c \in Device!InPorts
                 PROVE  Linked(fromUsb'[c], decoders[c], Carried(fromHost, c), hostEncoder[c],
                               hostSent'[c])
      BY <1>1 DEF HostLinked
    <2>3. c \in Cables /\ fromUsb'[c] = << >> /\ hostSent'[c] = << >>
      BY <1>1, <1>2, PortIs
    <2> QED
      BY <1>5, <2>1, <2>2, <2>3, LinkedNew
  <1>7. ASSUME ~cutOut PROVE PortLinked'
    <2>1. streams = {} /\ toHost = << >>
      BY <1>1, <1>2, <1>7 DEF PortSilent
    <2> SUFFICES ASSUME NEW c \in Device!OutPorts
                 PROVE  Linked(<< >>, FALSE, hostGot'[c] \o Carried(toHost, c), NewEncoder,
                               toUsb'[c])
      BY <1>1, <2>1 DEF PortLinked, EncoderIn
    <2>2. c \in Cables /\ toUsb'[c] = << >> /\ hostGot'[c] = << >>
      BY <1>1, <1>2, PortIs
    <2>3. << >> \o << >> = << >>
      OBVIOUS
    <2> QED
      BY <1>5, <2>1, <2>2, <2>3, LinkedNew
  <1> QED
    BY <1>1, <1>2, <1>3, <1>4, <1>6, <1>7 DEF DeviceInv, PortAssumption

LEMMA DeviceUnmounts == ASSUME DeviceInv, Device!Unmount PROVE DeviceInv'
  <1>1. /\ mounted' = FALSE /\ hostEncoder' = Device!NoEncoders
        /\ fromHost' = << >> /\ toHost' = << >>
        /\ cutIn' = (cutIn \/ \E c \in Cables : decoders[c])
        /\ cutOut' = (cutOut \/ streams # {})
        /\ UNCHANGED <<begun, present, budget, connected, decoders, encoders, streams>>
        /\ UNCHANGED <<hostSent, fromUsb, toUsb, hostGot>>
    BY DEF Device!Unmount, Device!streamVars
  <1>2. PortAssumption /\ PortTypes /\ PortSilent
    BY DEF DeviceInv
  <1>3. PortTypes'
    <2>1. << >> \in Seq(Packets) /\ Len(<< >>) = 0 /\ 0 <= FifoSize
      BY <1>2, EmptySeq DEF PortAssumption
    <2>2. {mounted', cutIn', cutOut'} \subseteq BOOLEAN
      BY <1>1
    <2> QED
      BY <1>1, <1>2, <2>1, <2>2, PortIs DEF PortTypes
  <1>4. PortSilent'
    <2>1. \A c \in Cables : hostEncoder'[c] = NewEncoder
      BY <1>1, <1>2, PortIs
    <2>2. ~cutIn' => \A c \in Cables : decoders[c] = FALSE
      BY <1>1, <1>2 DEF PortTypes
    <2> QED
      BY <1>1, <1>2, <2>1, <2>2 DEF PortSilent
  <1> QED
    BY <1>1, <1>2, <1>3, <1>4 DEF DeviceInv, PortAssumption

LEMMA DeviceHostSends ==
    ASSUME DeviceInv, NEW c \in Cables, NEW m \in HostMessages, Device!HostSends(c, m)
    PROVE  DeviceInv'
  <1> DEFINE enc == hostEncoder[c]
             packets == Encode(enc, c, m)
  <1>1. /\ mounted /\ Fits(enc.inSysEx, m) /\ Len(fromHost) + Len(packets) <= FifoSize
        /\ fromHost' = fromHost \o packets
        /\ hostEncoder' = [hostEncoder EXCEPT ![c] = EncoderAfter(enc, m)]
        /\ hostSent' = [hostSent EXCEPT ![c] = Append(@, m)]
        /\ UNCHANGED <<mounted, toHost, begun, present, budget, connected>>
        /\ UNCHANGED <<decoders, encoders, streams, fromUsb, toUsb, hostGot, cutIn, cutOut>>
    BY SameOperators DEF Device!HostSends, Device!streamVars
  <1>2. PortAssumption /\ PortTypes /\ PortSilent
    BY DEF DeviceInv
  <1>3. /\ enc \in Encoders /\ m \in MidiMessages /\ IsComplete(m) /\ fromHost \in Seq(Packets)
        /\ EncoderAfter(enc, m) \in Encoders /\ packets \in Seq(Packets)
        /\ Len(packets) \in Nat /\ Len(fromHost) \in Nat
    BY <1>2, EncodeType, EncoderType, LenProperties DEF PortAssumption, PortTypes
  <1>4. \A i \in 1..Len(packets) : packets[i].cable = c
    BY <1>3, EncodeCable
  <1> HIDE DEF packets, enc
  <1>5. PortTypes'
    <2>1. fromHost' \in Seq(Packets) /\ Len(fromHost') <= FifoSize
      BY <1>1, <1>3, ConcatProperties
    <2>2. hostEncoder' \in [Cables -> Encoders]
      BY <1>1, <1>2, <1>3 DEF PortTypes
    <2>3. hostSent' \in [Cables -> Seq(MidiMessages)]
      <3>1. Append(hostSent[c], m) \in Seq(MidiMessages)
        BY <1>2, <1>3, AppendProperties DEF PortTypes
      <3> QED
        BY <1>1, <1>2, <3>1 DEF PortTypes
    <2> QED
      BY <1>1, <1>2, <2>1, <2>2, <2>3 DEF PortTypes
  <1>6. PortSilent'
    BY <1>1, <1>2 DEF PortSilent
  <1>7. ASSUME ~cutIn PROVE HostLinked'
    <2> SUFFICES ASSUME NEW k \in Device!InPorts
                 PROVE  Linked(fromUsb[k], decoders[k], Carried(fromHost \o packets, k),
                               hostEncoder'[k], hostSent'[k])
      BY <1>1 DEF HostLinked
    <2>1. k \in Cables
      BY <1>2, PortIs
    <2>2. /\ fromUsb[k] \in Seq(MidiMessages) /\ decoders[k] \in BOOLEAN
          /\ hostEncoder[k] \in Encoders /\ hostSent[k] \in Seq(MidiMessages)
          /\ Carried(fromHost, k) \in Seq(Packets)
      BY <1>2, <1>3, <2>1, CarriedType DEF PortTypes
    <2>3. Linked(fromUsb[k], decoders[k], Carried(fromHost, k), hostEncoder[k], hostSent[k])
      BY <1>1, <1>7 DEF DeviceInv, HostLinked
    <2>4. Carried(fromHost \o packets, k) = Carried(fromHost, k) \o Carried(packets, k)
      BY <1>3, <2>1, CarriedJoins
    <2>5. Carried(packets, k) = IF k = c THEN packets ELSE << >>
      BY <1>3, <1>4, <2>1, CarriedMade
    <2>6. CASE k = c
      <3>1. hostEncoder'[k] = EncoderAfter(enc, m) /\ hostSent'[k] = Append(hostSent[k], m)
            /\ hostEncoder[k] = enc
        BY <1>1, <1>2, <2>6 DEF PortTypes, enc
      <3>2. Linked(fromUsb[k], decoders[k], Carried(fromHost, k), enc, hostSent[k])
        BY <2>3, <3>1
      <3>3. Linked(fromUsb[k], decoders[k], Carried(fromHost, k) \o Encode(enc, c, m),
                   EncoderAfter(enc, m), Append(hostSent[k], m))
        BY <1>1, <1>3, <2>2, <3>2, LinkedSends
      <3>4. packets = Encode(enc, c, m)
        BY DEF packets
      <3> QED
        BY <2>4, <2>5, <2>6, <3>1, <3>3, <3>4
    <2>7. CASE k # c
      <3>1. hostEncoder'[k] = hostEncoder[k] /\ hostSent'[k] = hostSent[k]
        BY <1>1, <1>2, <2>1, <2>7 DEF PortTypes
      <3>2. Carried(fromHost, k) \o << >> = Carried(fromHost, k)
        BY <2>2, ConcatEmptySeq
      <3> QED
        BY <2>3, <2>4, <2>5, <2>7, <3>1, <3>2
    <2> QED
      BY <2>6, <2>7
  <1>8. ASSUME ~cutOut PROVE PortLinked'
    <2>1. PortLinked
      BY <1>1, <1>8 DEF DeviceInv
    <2> QED
      BY <1>1, <2>1 DEF PortLinked, EncoderIn
  <1> QED
    BY <1>1, <1>2, <1>5, <1>6, <1>7, <1>8 DEF DeviceInv, PortAssumption

(* The host takes a packet: what it has of a cable and what is still to    *)
(* come are together as before.                                            *)
LEMMA DeviceHostReads == ASSUME DeviceInv, Device!HostReads PROVE DeviceInv'
  <1> DEFINE p == Head(toHost)
             k == p.cable
  <1>1. /\ toHost # << >> /\ toHost' = Tail(toHost)
        /\ hostGot' = [hostGot EXCEPT ![k] = Append(@, p)]
        /\ UNCHANGED <<mounted, hostEncoder, fromHost, begun, present, budget, connected>>
        /\ UNCHANGED <<decoders, encoders, streams, hostSent, fromUsb, toUsb, cutIn, cutOut>>
    BY DEF Device!HostReads, Device!streamVars
  <1>2. PortAssumption /\ PortTypes /\ PortSilent
    BY DEF DeviceInv
  <1>3. /\ toHost \in Seq(Packets) /\ Len(toHost) <= FifoSize /\ FifoSize \in Nat
        /\ p \in Packets /\ Tail(toHost) \in Seq(Packets)
        /\ Len(toHost) \in Nat /\ Len(Tail(toHost)) = Len(toHost) - 1
    BY <1>1, <1>2, HeadTailProperties, LenProperties DEF PortTypes, PortAssumption
  <1>4. k \in Cables
    BY <1>3 DEF Packets
  <1>5. \A c \in Cables :
            /\ Carried(Tail(toHost), c) \in Seq(Packets)
            /\ Carried(toHost, c) = IF k = c THEN <<p>> \o Carried(Tail(toHost), c)
                                    ELSE Carried(Tail(toHost), c)
    BY <1>1, <1>3, CarriedHead
  <1> HIDE DEF p, k
  <1>6. PortTypes'
    <2>1. hostGot' \in [Cables -> Seq(Packets)]
      <3>1. Append(hostGot[k], p) \in Seq(Packets)
        BY <1>2, <1>3, <1>4, AppendProperties DEF PortTypes
      <3> QED
        BY <1>1, <1>2, <1>4, <3>1 DEF PortTypes
    <2>2. Len(Tail(toHost)) <= FifoSize
      BY <1>3
    <2> QED
      BY <1>1, <1>2, <1>3, <2>1, <2>2 DEF PortTypes
  <1>7. PortSilent'
    BY <1>1, <1>2 DEF PortSilent
  <1>8. ASSUME mounted, ~cutIn PROVE HostLinked'
    BY <1>1, <1>8 DEF DeviceInv, HostLinked
  <1>9. ASSUME mounted, ~cutOut PROVE PortLinked'
    <2> SUFFICES ASSUME NEW c \in Device!OutPorts
                 PROVE  /\ Linked(<< >>, FALSE, hostGot'[c] \o Carried(Tail(toHost), c),
                                  EncoderIn(c), toUsb[c])
                        /\ c \in streams => encoders[c].inSysEx
      BY <1>1 DEF PortLinked, EncoderIn
    <2> DEFINE rest == Carried(Tail(toHost), c)
    <2>1. c \in Cables
      BY <1>2, PortIs
    <2>2. /\ Linked(<< >>, FALSE, hostGot[c] \o Carried(toHost, c), EncoderIn(c), toUsb[c])
          /\ c \in streams => encoders[c].inSysEx
      BY <1>9 DEF DeviceInv, PortLinked
    <2>3. hostGot[c] \in Seq(Packets) /\ rest \in Seq(Packets)
      BY <1>2, <1>5, <2>1 DEF PortTypes
    <2>4. hostGot'[c] \o rest = hostGot[c] \o Carried(toHost, c)
      <3>1. CASE c = k
        <4>1. hostGot'[c] = Append(hostGot[c], p) /\ Carried(toHost, c) = <<p>> \o rest
          BY <1>1, <1>2, <1>4, <1>5, <3>1 DEF PortTypes
        <4>2. Append(hostGot[c], p) = hostGot[c] \o <<p>> /\ <<p>> \in Seq(Packets)
          BY <1>3, <2>3, AppendIsConcat
        <4>3. Associates(Packets)
          BY Regrouped
        <4> HIDE DEF rest
        <4>4. (hostGot[c] \o <<p>>) \o rest = hostGot[c] \o (<<p>> \o rest)
          BY <2>3, <4>2, <4>3, Zenon DEF Associates
        <4> QED
          BY <4>1, <4>2, <4>4, Zenon
      <3>2. CASE c # k
        BY <1>1, <1>2, <1>5, <2>1, <3>2 DEF PortTypes
      <3> QED
        BY <3>1, <3>2
    <2> QED
      BY <2>2, <2>4
  <1> QED
    BY <1>1, <1>2, <1>6, <1>7, <1>8, <1>9 DEF DeviceInv, PortAssumption

(* begin(): the router forgets the streams, the codecs stay.               *)
LEMMA DeviceBegins == ASSUME DeviceInv, Device!Begin PROVE DeviceInv'
  <1>1. /\ begun' = TRUE /\ present' = FALSE /\ connected' = FALSE /\ streams' = {}
        /\ cutOut' = (cutOut \/ streams # {})
        /\ UNCHANGED <<mounted, hostEncoder, fromHost, toHost, budget, decoders, encoders>>
        /\ UNCHANGED <<hostSent, fromUsb, toUsb, hostGot, cutIn>>
    BY DEF Device!Begin, Device!Detach, Device!stackVars
  <1>2. PortAssumption /\ PortTypes /\ PortSilent
    BY DEF DeviceInv
  <1>3. PortTypes'
    BY <1>1, <1>2 DEF PortTypes
  <1>4. PortSilent'
    BY <1>1, <1>2 DEF PortSilent
  <1>5. ASSUME mounted, ~cutIn PROVE HostLinked'
    BY <1>1, <1>5 DEF DeviceInv, HostLinked
  <1>6. ASSUME mounted, ~cutOut' PROVE PortLinked'
    <2>1. streams = {} /\ PortLinked
      BY <1>1, <1>6 DEF DeviceInv
    <2> QED
      BY <1>1, <2>1 DEF PortLinked, EncoderIn
  <1> QED
    BY <1>1, <1>2, <1>3, <1>4, <1>5, <1>6 DEF DeviceInv, PortAssumption

(* The codecs are reset: nothing of what was cut off before is left.       *)
LEMMA DeviceResets ==
    ASSUME DeviceInv, Device!ResetStreams, Device!CutOff, Device!Detach, present' = FALSE,
           budget' \in 0..PacketsPerUpdate,
           UNCHANGED <<mounted, hostEncoder, fromHost, toHost, begun>>,
           UNCHANGED <<hostSent, fromUsb, toUsb, hostGot>>
    PROVE  DeviceInv'
  <1>1. PortAssumption /\ PortTypes /\ PortSilent
    BY DEF DeviceInv
  <1>2. /\ decoders' = Device!Closed /\ encoders' = Device!NoEncoders
        /\ connected' = FALSE /\ streams' = {}
        /\ cutIn' = (mounted /\ (cutIn \/ \E c \in Cables : decoders[c]))
        /\ cutOut' = (mounted /\ (cutOut \/ streams # {}))
    BY DEF Device!ResetStreams, Device!CutOff, Device!Detach
  <1>3. /\ decoders' \in [Cables -> BOOLEAN] /\ \A c \in Cables : decoders'[c] = FALSE
        /\ encoders' \in [Cables -> Encoders]
    BY <1>1, <1>2, PortIs
  <1>4. PortTypes'
    BY <1>1, <1>2, <1>3 DEF PortTypes
  <1>5. PortSilent'
    BY <1>1, <1>2, <1>3 DEF PortSilent
  <1>6. ASSUME mounted, ~cutIn' PROVE HostLinked'
    <2>1. ~cutIn /\ \A c \in Cables : decoders[c] = FALSE
      BY <1>1, <1>2, <1>6 DEF PortTypes
    <2>2. HostLinked /\ Device!InPorts \in SUBSET Cables
      BY <1>1, <1>6, <2>1, PortIs DEF DeviceInv
    <2>3. \A c \in Device!InPorts : decoders'[c] = decoders[c]
      BY <1>3, <2>1, <2>2
    <2> QED
      BY <2>2, <2>3 DEF HostLinked
  <1>7. ASSUME mounted, ~cutOut' PROVE PortLinked'
    <2>1. streams = {} /\ PortLinked
      BY <1>2, <1>7 DEF DeviceInv
    <2> QED
      BY <1>2, <2>1 DEF PortLinked, EncoderIn
  <1> QED
    BY <1>1, <1>4, <1>5, <1>6, <1>7 DEF DeviceInv, PortAssumption

LEMMA DeviceUpdates == ASSUME DeviceInv, Device!Update PROVE DeviceInv'
  <1>1. /\ present' = mounted
        /\ budget' = IF mounted THEN PacketsPerUpdate ELSE 0
        /\ UNCHANGED <<mounted, hostEncoder, fromHost, toHost, begun>>
        /\ UNCHANGED <<hostSent, fromUsb, toUsb, hostGot>>
    BY DEF Device!Update, Device!stackVars
  <1>2. PortAssumption /\ PortTypes /\ PortSilent
    BY DEF DeviceInv
  <1>3. budget' \in 0..PacketsPerUpdate
    BY <1>1, <1>2 DEF PortAssumption
  <1>4. CASE mounted = present \/ mounted
    <2>1. /\ UNCHANGED <<decoders, encoders, streams, cutIn, cutOut>>
          /\ connected' = present' /\ connected' \in BOOLEAN
      BY <1>1, <1>2, <1>4 DEF Device!Update, Device!streamVars, PortSilent, PortTypes
    <2>2. PortTypes'
      BY <1>1, <1>2, <1>3, <2>1 DEF PortTypes
    <2>3. PortSilent'
      BY <1>1, <1>2, <1>4, <2>1 DEF PortSilent
    <2>4. ASSUME mounted, ~cutIn PROVE HostLinked'
      BY <1>1, <2>1, <2>4 DEF DeviceInv, HostLinked
    <2>5. ASSUME mounted, ~cutOut PROVE PortLinked'
      BY <1>1, <2>1, <2>5 DEF DeviceInv, PortLinked, EncoderIn
    <2> QED
      BY <1>1, <1>2, <2>1, <2>2, <2>3, <2>4, <2>5 DEF DeviceInv, PortAssumption
  <1>5. CASE mounted # present /\ ~mounted
    <2>1. Device!ResetStreams /\ Device!CutOff /\ Device!Detach
      BY <1>5 DEF Device!Update
    <2>2. present' = FALSE
      BY <1>1, <1>2, <1>5 DEF PortTypes
    <2> QED
      BY <1>1, <1>3, <2>1, <2>2, DeviceResets
  <1> QED
    BY <1>4, <1>5

LEMMA DeviceEnds == ASSUME DeviceInv, Device!End PROVE DeviceInv'
  <1>1. /\ Device!ResetStreams /\ Device!CutOff /\ Device!Detach /\ present' = FALSE
        /\ UNCHANGED <<mounted, hostEncoder, fromHost, toHost, begun>>
        /\ UNCHANGED <<hostSent, fromUsb, toUsb, hostGot>>
        /\ budget' = budget
    BY DEF Device!End, Device!stackVars
  <1>2. budget' \in 0..PacketsPerUpdate
    BY <1>1 DEF DeviceInv, PortTypes
  <1> QED
    BY <1>1, <1>2, DeviceResets

(* update() reads on: the packets of the other cables are as they were.    *)
LEMMA DeviceReads == ASSUME DeviceInv, Device!ReadPacket PROVE DeviceInv'
  <1> DEFINE p == Head(fromHost)
             k == p.cable
             rest == Tail(fromHost)
             made == Decode(decoders[k], p)
             after == OpenAfterPacket(decoders[k], p)
  <1>1. /\ budget > 0 /\ budget' = budget - 1
        /\ fromHost # << >> /\ fromHost' = rest
        /\ fromUsb' = [fromUsb EXCEPT ![k] = @ \o made]
        /\ decoders' = [decoders EXCEPT ![k] = after]
        /\ UNCHANGED <<mounted, hostEncoder, toHost, begun, present, connected, encoders>>
        /\ UNCHANGED <<streams, hostSent, toUsb, hostGot, cutIn, cutOut>>
    BY SameOperators DEF Device!ReadPacket
  <1>2. PortAssumption /\ PortTypes /\ PortSilent
    BY DEF DeviceInv
  <1>3. /\ mounted /\ fromHost \in Seq(Packets) /\ Len(fromHost) <= FifoSize /\ FifoSize \in Nat
        /\ p \in Packets /\ rest \in Seq(Packets) /\ Len(rest) <= Len(fromHost)
        /\ Len(fromHost) \in Nat /\ Len(rest) \in Nat
    BY <1>1, <1>2, HeadTailProperties, LenProperties DEF PortTypes, PortSilent, PortAssumption
  <1>4. k \in Cables
    BY <1>3 DEF Packets
  <1>5. \A c \in Cables :
            /\ Carried(rest, c) \in Seq(Packets)
            /\ Carried(fromHost, c) = IF k = c THEN <<p>> \o Carried(rest, c)
                                      ELSE Carried(rest, c)
    BY <1>1, <1>3, CarriedHead
  <1>6. made \in Seq(MidiMessages) /\ after \in BOOLEAN
    <2>1. decoders[k] \in BOOLEAN
      BY <1>2, <1>4 DEF PortTypes
    <2> HIDE DEF p, k
    <2> QED
      BY <1>3, <2>1, DecodeIs
  <1> HIDE DEF p, k, rest, made, after
  <1>7. PortTypes'
    <2>1. fromUsb' \in [Cables -> Seq(MidiMessages)]
      <3>1. fromUsb[k] \o made \in Seq(MidiMessages)
        BY <1>2, <1>4, <1>6, ConcatProperties DEF PortTypes
      <3> QED
        BY <1>1, <1>2, <1>4, <3>1 DEF PortTypes
    <2>2. decoders' \in [Cables -> BOOLEAN]
      BY <1>1, <1>2, <1>4, <1>6 DEF PortTypes
    <2>3. Len(rest) <= FifoSize
      BY <1>3
    <2>4. budget' \in 0..PacketsPerUpdate
      BY <1>1, <1>2 DEF PortTypes, PortAssumption
    <2> QED
      BY <1>1, <1>2, <1>3, <2>1, <2>2, <2>3, <2>4 DEF PortTypes
  <1>8. PortSilent'
    BY <1>1, <1>2, <1>3 DEF PortSilent
  <1>9. ASSUME ~cutIn PROVE HostLinked'
    <2> SUFFICES ASSUME NEW c \in Device!InPorts
                 PROVE  Linked(fromUsb'[c], decoders'[c], Carried(rest, c), hostEncoder[c],
                               hostSent[c])
      BY <1>1 DEF HostLinked
    <2>1. c \in Cables
      BY <1>2, PortIs
    <2>2. Linked(fromUsb[c], decoders[c], Carried(fromHost, c), hostEncoder[c], hostSent[c])
      BY <1>3, <1>9 DEF DeviceInv, HostLinked
    <2>3. /\ fromUsb[c] \in Seq(MidiMessages) /\ decoders[c] \in BOOLEAN
          /\ hostEncoder[c] \in Encoders /\ Carried(rest, c) \in Seq(Packets)
      BY <1>2, <1>5, <2>1 DEF PortTypes
    <2>4. CASE c = k
      <3>1. fromUsb'[c] = fromUsb[c] \o made /\ decoders'[c] = after
        BY <1>1, <1>2, <1>4, <2>4 DEF PortTypes
      <3>2. Linked(fromUsb[c], decoders[c], <<p>> \o Carried(rest, c), hostEncoder[c],
                   hostSent[c])
        BY <1>5, <2>1, <2>2, <2>4
      <3>3. Linked(fromUsb[c] \o Decode(decoders[c], p), OpenAfterPacket(decoders[c], p),
                   Carried(rest, c), hostEncoder[c], hostSent[c])
        BY <1>3, <2>3, <3>2, LinkedTakes
      <3>4. made = Decode(decoders[c], p) /\ after = OpenAfterPacket(decoders[c], p)
        BY <2>4 DEF made, after
      <3> QED
        BY <3>1, <3>3, <3>4
    <2>5. CASE c # k
      <3>1. fromUsb'[c] = fromUsb[c] /\ decoders'[c] = decoders[c]
        BY <1>1, <1>2, <2>1, <2>5 DEF PortTypes
      <3>2. Carried(fromHost, c) = Carried(rest, c)
        BY <1>5, <2>1, <2>5
      <3> QED
        BY <2>2, <3>1, <3>2
    <2> QED
      BY <2>4, <2>5
  <1>10. ASSUME ~cutOut PROVE PortLinked'
    <2>1. PortLinked
      BY <1>3, <1>10 DEF DeviceInv
    <2> QED
      BY <1>1, <2>1 DEF PortLinked, EncoderIn
  <1> QED
    BY <1>1, <1>2, <1>7, <1>8, <1>9, <1>10 DEF DeviceInv, PortAssumption

(* A packet of a cable that was not declared is of no port.                *)
LEMMA DeviceDrops == ASSUME DeviceInv, Device!DropPacket PROVE DeviceInv'
  <1> DEFINE p == Head(fromHost)
             rest == Tail(fromHost)
  <1>1. /\ budget > 0 /\ budget' = budget - 1
        /\ fromHost # << >> /\ fromHost' = rest
        /\ p.cable >= InPortCount
        /\ UNCHANGED <<mounted, hostEncoder, toHost, begun, present, connected>>
        /\ UNCHANGED <<decoders, encoders, streams>>
        /\ UNCHANGED <<hostSent, fromUsb, toUsb, hostGot, cutIn, cutOut>>
    BY DEF Device!DropPacket, Device!streamVars, Device!historyVars
  <1>2. PortAssumption /\ PortTypes /\ PortSilent
    BY DEF DeviceInv
  <1>3. /\ mounted /\ fromHost \in Seq(Packets) /\ Len(fromHost) <= FifoSize /\ FifoSize \in Nat
        /\ p \in Packets /\ rest \in Seq(Packets) /\ Len(rest) <= Len(fromHost)
        /\ Len(fromHost) \in Nat /\ Len(rest) \in Nat
    BY <1>1, <1>2, HeadTailProperties, LenProperties DEF PortTypes, PortSilent, PortAssumption
  <1>4. \A c \in Cables :
            Carried(fromHost, c) = IF p.cable = c THEN <<p>> \o Carried(rest, c)
                                   ELSE Carried(rest, c)
    BY <1>1, <1>3, CarriedHead
  <1>5. PortTypes'
    <2>1. Len(rest) <= FifoSize
      BY <1>3
    <2>2. budget' \in 0..PacketsPerUpdate
      BY <1>1, <1>2 DEF PortTypes, PortAssumption
    <2> QED
      BY <1>1, <1>2, <1>3, <2>1, <2>2 DEF PortTypes
  <1>6. PortSilent'
    BY <1>1, <1>2, <1>3 DEF PortSilent
  <1>7. ASSUME ~cutIn PROVE HostLinked'
    <2>1. \A c \in Device!InPorts : Carried(rest, c) = Carried(fromHost, c)
      <3> TAKE c \in Device!InPorts
      <3>1. c \in Cables /\ c < InPortCount /\ InPortCount \in Nat
        BY <1>2 DEF Device!InPorts, PortAssumption
      <3>2. p.cable # c
        <4>1. p.cable \in Nat /\ c \in Nat
          <5>1. \A x \in Cables : x \in Nat
            BY UsbHostAssumption
          <5>2. p.cable \in Cables
            BY <1>3, Zenon DEF Packets
          <5> QED
            BY <3>1, <5>1, <5>2, Zenon
        <4> QED
          BY <1>1, <3>1, <4>1
      <3> QED
        BY <1>4, <3>1, <3>2
    <2>2. HostLinked
      BY <1>3, <1>7 DEF DeviceInv
    <2> HIDE DEF rest
    <2> QED
      BY <1>1, <2>1, <2>2 DEF HostLinked
  <1>8. ASSUME ~cutOut PROVE PortLinked'
    <2>1. PortLinked
      BY <1>3, <1>8 DEF DeviceInv
    <2> QED
      BY <1>1, <2>1 DEF PortLinked, EncoderIn
  <1> QED
    BY <1>1, <1>2, <1>5, <1>6, <1>7, <1>8 DEF DeviceInv, PortAssumption

(* A write takes the first packets of a message that the FIFO has room for.*)
LEMMA WrittenIs ==
    ASSUME PortAssumption, PortTypes, NEW packets \in Seq(Packets)
    PROVE  /\ Device!Written(packets) \in Seq(Packets)
           /\ toHost \o Device!Written(packets) \in Seq(Packets)
           /\ Len(toHost \o Device!Written(packets)) <= FifoSize
           /\ ~mounted => Device!Written(packets) = << >>
  <1> DEFINE a == Len(packets)
             b == FifoSize - Len(toHost)
             n == IF a <= b THEN a ELSE b
  <1>1. /\ toHost \in Seq(Packets) /\ Len(toHost) <= FifoSize /\ FifoSize \in Nat
        /\ a \in Nat /\ Len(toHost) \in Nat /\ b \in Nat
    BY LenProperties DEF PortTypes, PortAssumption
  <1>2. Device!Min({a, b}) = n
    <2> HIDE DEF a, b
    <2>1. /\ n \in {a, b} /\ \A y \in {a, b} : n <= y
          /\ \A x \in {a, b} : (\A y \in {a, b} : x <= y) => x = n
      BY <1>1
    <2> HIDE DEF n
    <2> QED
      BY <2>1 DEF Device!Min
  <1>3. SubSeq(packets, 1, n) \in Seq(Packets) /\ Len(SubSeq(packets, 1, n)) = n
    <2>1. n \in 0..Len(packets)
      BY <1>1
    <2> HIDE DEF n
    <2>2. \A i \in 1..n : packets[i] \in Packets
      BY <2>1, ElementOfSeq
    <2> QED
      BY <2>1, <2>2, SubSeqProperties
  <1>4. CASE mounted
    <2>1. Device!Written(packets) = SubSeq(packets, 1, n)
      BY <1>2, <1>4 DEF Device!Written
    <2>2. n <= b
      BY <1>1
    <2>3. Len(toHost) + n <= FifoSize
      BY <1>1, <2>2
    <2> HIDE DEF n
    <2>4. /\ toHost \o SubSeq(packets, 1, n) \in Seq(Packets)
          /\ Len(toHost \o SubSeq(packets, 1, n)) = Len(toHost) + n
      BY <1>1, <1>3, ConcatProperties
    <2> QED
      BY <1>3, <1>4, <2>1, <2>3, <2>4
  <1>5. CASE ~mounted
    <2>1. Device!Written(packets) = << >>
      BY <1>5 DEF Device!Written
    <2>2. << >> \in Seq(Packets) /\ toHost \o << >> = toHost
      BY <1>1, EmptySeq, ConcatEmptySeq
    <2> QED
      BY <1>1, <2>1, <2>2
  <1> QED
    BY <1>4, <1>5

(* What send() does, of what the host may see.                             *)
LEMMA SendIs ==
    ASSUME DeviceInv, NEW c \in Device!OutPorts, NEW m \in RouterMessages, Device!Send(c, m)
    PROVE  LET packets == Encode(encoders[c], c, m)
               written == Device!Written(packets)
               result == present /\ packets # << >> /\ written = packets IN
           /\ budget = 0 /\ Fits(c \in streams, m)
           /\ encoders' = IF present
                          THEN [encoders EXCEPT ![c] = EncoderAfter(encoders[c], m)]
                          ELSE encoders
           /\ toHost' = IF present THEN toHost \o written ELSE toHost
           /\ toUsb' = IF c \in streams \/ result THEN [toUsb EXCEPT ![c] = Append(@, m)]
                       ELSE toUsb
           /\ cutOut' = (cutOut \/ (mounted /\ present /\ written # packets
                                       /\ (c \in streams \/ written # << >>)))
           /\ streams' = IF m.chunk /\ m.end THEN streams \ {c}
                         ELSE IF m.chunk /\ result THEN streams \cup {c} ELSE streams
           /\ UNCHANGED <<mounted, hostEncoder, fromHost, begun, present, budget, connected>>
           /\ UNCHANGED <<decoders, hostSent, fromUsb, hostGot, cutIn>>
  <1>1. Device!EncoderOf(c) = c
    BY DEF Device!EncoderOf
  <1>2. /\ Device!Encode(encoders[c], c, m) = Encode(encoders[c], c, m)
        /\ Device!EncoderAfter(encoders[c], m) = EncoderAfter(encoders[c], m)
        /\ Device!Fits(c \in streams, m) = Fits(c \in streams, m)
    BY SameOperators, Zenon
  <1> QED
    BY <1>1, <1>2 DEF Device!Send

(* send() of one output: a write in full joins what the host is to read of *)
(* its cable; a refusal from the start leaves no trace; and what a refusal *)
(* in the middle leaves is marked as cut off.                              *)
LEMMA DeviceWrites ==
    ASSUME DeviceInv, NEW c \in Device!OutPorts, NEW m \in RouterMessages, Device!Send(c, m)
    PROVE  DeviceInv'
  <1> DEFINE enc == encoders[c]
             packets == Encode(enc, c, m)
             after == EncoderAfter(enc, m)
             written == Device!Written(packets)
             result == present /\ packets # << >> /\ written = packets
  <1>1. /\ Fits(c \in streams, m)
        /\ encoders' = IF present THEN [encoders EXCEPT ![c] = after] ELSE encoders
        /\ toHost' = IF present THEN toHost \o written ELSE toHost
        /\ toUsb' = IF c \in streams \/ result THEN [toUsb EXCEPT ![c] = Append(@, m)]
                    ELSE toUsb
        /\ cutOut' = (cutOut \/ (mounted /\ present /\ written # packets
                                    /\ (c \in streams \/ written # << >>)))
        /\ streams' = IF m.chunk /\ m.end THEN streams \ {c}
                      ELSE IF m.chunk /\ result THEN streams \cup {c} ELSE streams
        /\ UNCHANGED <<mounted, hostEncoder, fromHost, begun, present, budget, connected>>
        /\ UNCHANGED <<decoders, hostSent, fromUsb, hostGot, cutIn>>
    BY SendIs, Zenon
  <1>2. PortAssumption /\ PortTypes /\ PortSilent
    BY DEF DeviceInv
  <1>3. c \in Cables /\ m \in MidiMessages /\ IsComplete(m)
    BY <1>2, PortIs DEF PortAssumption
  <1>4. enc \in Encoders /\ after \in Encoders /\ packets \in Seq(Packets)
    <2>1. enc \in Encoders
      BY <1>2, <1>3 DEF PortTypes
    <2> HIDE DEF enc
    <2> QED
      BY <1>3, <2>1, EncodeType, EncoderType
  <1>5. \A i \in 1..Len(packets) : packets[i].cable = c
    <2> HIDE DEF enc
    <2> QED
      BY <1>3, <1>4, EncodeCable
  <1>6. /\ written \in Seq(Packets) /\ toHost \o written \in Seq(Packets)
        /\ Len(toHost \o written) <= FifoSize
        /\ ~mounted => written = << >>
    <2> HIDE DEF packets
    <2> QED
      BY <1>2, <1>4, WrittenIs
  <1>7. m.chunk \in BOOLEAN /\ m.end \in BOOLEAN
    BY <1>3 DEF MidiMessages
  <1>8. toHost \in Seq(Packets) /\ toHost \o << >> = toHost
    BY <1>2, ConcatEmptySeq DEF PortTypes
  <1> HIDE DEF enc, packets, after, written
  <1>9. PortTypes'
    <2>1. encoders' \in [Cables -> Encoders]
      BY <1>1, <1>2, <1>3, <1>4 DEF PortTypes
    <2>2. toHost' \in Seq(Packets) /\ Len(toHost') <= FifoSize
      BY <1>1, <1>2, <1>6 DEF PortTypes
    <2>3. toUsb' \in [Cables -> Seq(MidiMessages)]
      <3>1. Append(toUsb[c], m) \in Seq(MidiMessages)
        BY <1>2, <1>3, AppendProperties DEF PortTypes
      <3> HIDE DEF result
      <3> QED
        BY <1>1, <1>2, <1>3, <3>1 DEF PortTypes
    <2>4. streams' \in SUBSET Device!OutPorts
      BY <1>1, <1>2 DEF PortTypes
    <2>5. cutOut' \in BOOLEAN
      BY <1>1, <1>2 DEF PortTypes
    <2> QED
      BY <1>1, <1>2, <2>1, <2>2, <2>3, <2>4, <2>5 DEF PortTypes
  <1>10. PortSilent'
    <2>1. streams' # {} => present
      BY <1>1, <1>2 DEF PortSilent
    <2>2. ~mounted => toHost' = << >>
      BY <1>1, <1>2, <1>6, <1>8 DEF PortSilent
    <2>3. ~mounted /\ ~cutOut' => streams' = {}
      BY <1>1, <1>2, <1>6 DEF PortSilent
    <2> QED
      BY <1>1, <1>2, <2>1, <2>2, <2>3 DEF PortSilent
  <1>11. ASSUME mounted, ~cutIn PROVE HostLinked'
    BY <1>1, <1>11 DEF DeviceInv, HostLinked
  <1>12. ASSUME mounted, ~cutOut' PROVE PortLinked'
    <2>1. PortLinked /\ ~cutOut
      BY <1>1, <1>12 DEF DeviceInv
    <2>2. CASE present /\ written = packets
      <3> SUFFICES ASSUME NEW k \in Device!OutPorts
                   PROVE  /\ Linked(<< >>, FALSE, hostGot[k] \o Carried(toHost \o packets, k),
                                    EncoderIn(k)', toUsb'[k])
                          /\ k \in streams' => encoders'[k].inSysEx
        BY <1>1, <2>2 DEF PortLinked
      <3>1. k \in Cables
        BY <1>2, PortIs
      <3>2. /\ Linked(<< >>, FALSE, hostGot[k] \o Carried(toHost, k), EncoderIn(k), toUsb[k])
            /\ k \in streams => encoders[k].inSysEx
        BY <2>1 DEF PortLinked
      <3>3. /\ hostGot[k] \in Seq(Packets) /\ Carried(toHost, k) \in Seq(Packets)
            /\ hostGot[k] \o Carried(toHost, k) \in Seq(Packets)
            /\ toUsb[k] \in Seq(MidiMessages)
        BY <1>2, <1>8, <3>1, CarriedType, ConcatProperties DEF PortTypes
      <3>4. Carried(toHost \o packets, k) = Carried(toHost, k) \o Carried(packets, k)
        BY <1>4, <1>8, <3>1, CarriedJoins
      <3>5. Carried(packets, k) = IF k = c THEN packets ELSE << >>
        BY <1>3, <1>4, <1>5, <3>1, CarriedMade
      <3>6. CASE k = c
        <4> DEFINE in == c \in streams
                   f == hostGot[c] \o Carried(toHost, c)
                   stays == ~(m.chunk /\ m.end) /\ ((m.chunk /\ packets # << >>) \/ in)
        <4>1. Linked(<< >>, FALSE, f, IF in THEN enc ELSE NewEncoder, toUsb[c])
          BY <3>2, <3>6 DEF EncoderIn, enc
        <4>2. in => enc.inSysEx
          BY <3>2, <3>6 DEF enc
        <4>3. in \in BOOLEAN /\ f \in Seq(Packets) /\ toUsb[c] \in Seq(MidiMessages)
          BY <3>3, <3>6
        <4>4. /\ Linked(<< >>, FALSE, f \o Encode(enc, c, m),
                        IF ~(m.chunk /\ m.end) /\ ((m.chunk /\ Encode(enc, c, m) # << >>) \/ in)
                        THEN EncoderAfter(enc, m) ELSE NewEncoder,
                        IF in \/ Encode(enc, c, m) # << >> THEN Append(toUsb[c], m)
                                                           ELSE toUsb[c])
              /\ ~(m.chunk /\ m.end) /\ ((m.chunk /\ Encode(enc, c, m) # << >>) \/ in) =>
                     EncoderAfter(enc, m).inSysEx
          <5> HIDE DEF in
          <5> DEFINE sends == Encode(enc, c, m)
                     remains == ~(m.chunk /\ m.end) /\ ((m.chunk /\ sends # << >>) \/ in)
          <5>1. Fits(in, m)
            BY <1>1 DEF in
          <5>2. \A g \in Seq(Packets), all \in Seq(MidiMessages) :
                    Linked(<< >>, FALSE, g, IF in THEN enc ELSE NewEncoder, all) =>
                        /\ Linked(<< >>, FALSE, g \o sends,
                                  IF remains THEN EncoderAfter(enc, m) ELSE NewEncoder,
                                  IF in \/ sends # << >> THEN Append(all, m) ELSE all)
                        /\ remains => EncoderAfter(enc, m).inSysEx
            BY <1>3, <1>4, <4>2, <4>3, <5>1, SinkSends
          <5> HIDE DEF f
          <5> QED
            BY <4>1, <4>3, <5>2, Zenon
        <4>5. /\ Linked(<< >>, FALSE, f \o packets, IF stays THEN after ELSE NewEncoder,
                        IF in \/ packets # << >> THEN Append(toUsb[c], m) ELSE toUsb[c])
              /\ stays => after.inSysEx
          BY <4>4, Zenon DEF packets, after
        <4>6. c \in streams' <=> stays
          BY <1>1, <1>7, <2>2
        <4>7. encoders'[c] = after
          BY <1>1, <1>2, <1>3, <2>2 DEF PortTypes
        <4>8. toUsb'[c] = IF in \/ packets # << >> THEN Append(toUsb[c], m) ELSE toUsb[c]
          BY <1>1, <1>2, <1>3, <2>2 DEF PortTypes
        <4>9. EncoderIn(c)' = IF stays THEN after ELSE NewEncoder
          BY <4>6, <4>7 DEF EncoderIn
        <4>10. hostGot[c] \o Carried(toHost \o packets, c) = f \o packets
          <5>1. Associates(Packets)
            BY Regrouped
          <5>2. hostGot[c] \in Seq(Packets) /\ Carried(toHost, c) \in Seq(Packets)
            BY <3>3, <3>6, Zenon
          <5>3. (hostGot[c] \o Carried(toHost, c)) \o packets
                    = hostGot[c] \o (Carried(toHost, c) \o packets)
            BY <1>4, <5>1, <5>2, Zenon DEF Associates
          <5> QED
            BY <3>4, <3>5, <3>6, <5>3, Zenon
        <4> HIDE DEF f, in, stays
        <4>11. Linked(<< >>, FALSE, hostGot[c] \o Carried(toHost \o packets, c),
                      EncoderIn(c)', toUsb'[c])
          BY <4>5, <4>8, <4>9, <4>10, Zenon
        <4>12. c \in streams' => encoders'[c].inSysEx
          BY <4>5, <4>6, <4>7
        <4> QED
          BY <3>6, <4>11, <4>12, Zenon
      <3>7. CASE k # c
        <4>1. /\ k \in streams' <=> k \in streams
              /\ encoders'[k] = encoders[k] /\ toUsb'[k] = toUsb[k]
          BY <1>1, <1>2, <3>1, <3>7 DEF PortTypes
        <4>2. EncoderIn(k)' = EncoderIn(k)
          BY <4>1 DEF EncoderIn
        <4>3. Carried(toHost \o packets, k) = Carried(toHost, k)
          BY <3>3, <3>4, <3>5, <3>7, ConcatEmptySeq
        <4> QED
          BY <3>2, <4>1, <4>2, <4>3
      <3> QED
        BY <3>6, <3>7
    <2>3. CASE ~(present /\ written = packets)
      <3>1. c \notin streams /\ streams' = streams /\ toHost' = toHost /\ toUsb' = toUsb
        <4>1. CASE present
          <5>1. c \notin streams /\ written = << >> /\ ~result
            BY <1>1, <1>12, <2>3, <4>1
          <5> HIDE DEF result
          <5> QED
            BY <1>1, <1>8, <4>1, <5>1
        <4>2. CASE ~present
          <5>1. streams = {} /\ ~result
            BY <1>2, <4>2 DEF PortSilent
          <5> HIDE DEF result
          <5> QED
            BY <1>1, <4>2, <5>1
        <4> QED
          BY <4>1, <4>2
      <3>2. \A k \in streams : encoders'[k] = encoders[k]
        BY <1>1, <1>2, <1>3, <3>1, PortIs DEF PortTypes
      <3>3. \A k \in Device!OutPorts : EncoderIn(k)' = EncoderIn(k)
        BY <3>1, <3>2 DEF EncoderIn
      <3> QED
        BY <1>1, <2>1, <3>1, <3>2, <3>3 DEF PortLinked
    <2> QED
      BY <2>2, <2>3
  <1> QED
    BY <1>1, <1>2, <1>9, <1>10, <1>11, <1>12 DEF DeviceInv, PortAssumption

(* There was nothing to read, or nothing happens at all.                   *)
LEMMA DeviceStays ==
    ASSUME DeviceInv, budget' \in 0..PacketsPerUpdate,
           UNCHANGED <<mounted, hostEncoder, fromHost, toHost, begun, present, connected>>,
           UNCHANGED <<decoders, encoders, streams>>,
           UNCHANGED <<hostSent, fromUsb, toUsb, hostGot, cutIn, cutOut>>
    PROVE  DeviceInv'
  <1>1. PortTypes'
    BY DEF DeviceInv, PortTypes
  <1>2. PortSilent'
    BY DEF DeviceInv, PortSilent
  <1>3. mounted /\ ~cutIn => HostLinked'
    BY DEF DeviceInv, HostLinked
  <1>4. mounted /\ ~cutOut => PortLinked'
    BY DEF DeviceInv, PortLinked, EncoderIn
  <1> QED
    BY <1>1, <1>2, <1>3, <1>4 DEF DeviceInv, PortAssumption

LEMMA DeviceNext == DeviceInv /\ [Device!Next]_(Device!usbDeviceVars) => DeviceInv'
  <1> SUFFICES ASSUME DeviceInv, [Device!Next]_(Device!usbDeviceVars)
               PROVE  DeviceInv'
    OBVIOUS
  <1>1. CASE Device!Mount
    BY <1>1, DeviceMounts
  <1>2. CASE Device!Unmount
    BY <1>2, DeviceUnmounts
  <1>3. CASE Device!HostReads
    BY <1>3, DeviceHostReads
  <1>4. ASSUME NEW c \in Cables, NEW m \in HostMessages, Device!HostSends(c, m)
        PROVE  DeviceInv'
    BY <1>4, DeviceHostSends
  <1>5. CASE Device!Begin
    BY <1>5, DeviceBegins
  <1>6. CASE Device!End
    BY <1>6, DeviceEnds
  <1>7. CASE Device!Update
    BY <1>7, DeviceUpdates
  <1>8. CASE Device!ReadPacket
    BY <1>8, DeviceReads
  <1>9. CASE Device!DropPacket
    BY <1>9, DeviceDrops
  <1>10. CASE Device!NothingToRead
    <2>1. budget' \in 0..PacketsPerUpdate
      BY <1>10 DEF Device!NothingToRead, DeviceInv, PortAssumption
    <2> QED
      BY <1>10, <2>1, DeviceStays DEF Device!NothingToRead, Device!stackVars,
         Device!streamVars, Device!historyVars
  <1>11. ASSUME NEW c \in Device!OutPorts, NEW m \in RouterMessages, Device!Send(c, m)
         PROVE  DeviceInv'
    BY <1>11, DeviceWrites
  <1>12. CASE UNCHANGED Device!usbDeviceVars
    <2>1. budget' \in 0..PacketsPerUpdate
      BY <1>12 DEF Device!usbDeviceVars, DeviceInv, PortTypes
    <2> QED
      BY <1>12, <2>1, DeviceStays DEF Device!usbDeviceVars, Device!stackVars,
         Device!streamVars, Device!historyVars
  <1> QED
    BY <1>1, <1>2, <1>3, <1>4, <1>5, <1>6, <1>7, <1>8, <1>9, <1>10, <1>11, <1>12
       DEF Device!Next, Device!Loop

(* What the invariant says of both directions.                             *)
LEMMA DeviceIsFaithful ==
    DeviceInv => Device!TypeOK /\ Device!HostIsHeard /\ Device!HostReadsWhatWasAccepted
  <1> SUFFICES ASSUME DeviceInv
               PROVE  Device!TypeOK /\ Device!HostIsHeard /\ Device!HostReadsWhatWasAccepted
    OBVIOUS
  <1>1. PortAssumption /\ PortTypes /\ PortSilent
    BY DEF DeviceInv
  <1>2. Device!TypeOK
    <2>1. \A c \in Cables : Len(encoders[c].pending) <= 2
      BY <1>1 DEF PortTypes, Encoders
    <2> QED
      BY <1>1, <2>1 DEF Device!TypeOK, PortTypes
  <1>3. Device!HostIsHeard
    <2> SUFFICES ASSUME mounted, ~cutIn, NEW c \in Device!InPorts
                 PROVE  Arrives(fromUsb[c], hostSent[c],
                                fromHost # << >> \/ hostEncoder[c].pending # << >>)
      BY SameOperators, Zenon DEF Device!HostIsHeard
    <2> DEFINE underway == fromHost # << >> \/ hostEncoder[c].pending # << >>
    <2>1. c \in Cables
      BY <1>1, PortIs
    <2>2. Linked(fromUsb[c], decoders[c], Carried(fromHost, c), hostEncoder[c], hostSent[c])
      BY DEF DeviceInv, HostLinked
    <2>3. /\ fromUsb[c] \in Seq(MidiMessages) /\ decoders[c] \in BOOLEAN
          /\ Carried(fromHost, c) \in Seq(Packets) /\ hostEncoder[c] \in Encoders
          /\ hostSent[c] \in Seq(MidiMessages)
      BY <1>1, <2>1, CarriedType DEF PortTypes
    <2>4. Carried(fromHost, c) # << >> \/ hostEncoder[c].pending # << >> => underway
      BY CarriedNone
    <2> HIDE DEF underway
    <2>5. Arrives(fromUsb[c], hostSent[c], underway)
      BY <2>2, <2>3, <2>4, LinkedArrives
    <2> QED
      BY <2>5 DEF underway
  <1>4. ASSUME mounted, ~cutOut, NEW c \in Device!OutPorts
        PROVE  Arrives(Reading(FALSE, hostGot[c]).got, toUsb[c],
                       toHost # << >> \/ encoders[c].pending # << >>)
    <2> DEFINE underway == toHost # << >> \/ encoders[c].pending # << >>
    <2>1. c \in Cables
      BY <1>1, PortIs
    <2>2. Linked(<< >>, FALSE, hostGot[c] \o Carried(toHost, c), EncoderIn(c), toUsb[c])
      BY <1>4 DEF DeviceInv, PortLinked
    <2>3. /\ hostGot[c] \in Seq(Packets) /\ Carried(toHost, c) \in Seq(Packets)
          /\ EncoderIn(c) \in Encoders /\ toUsb[c] \in Seq(MidiMessages)
      BY <1>1, <2>1, CarriedType, NewIsEncoder DEF PortTypes, EncoderIn
    <2>4. Carried(toHost, c) # << >> \/ EncoderIn(c).pending # << >> => underway
      BY CarriedNone, NewIsEncoder DEF EncoderIn
    <2> HIDE DEF underway
    <2>5. Arrives(Reading(FALSE, hostGot[c]).got, toUsb[c], underway)
      BY <2>2, <2>3, <2>4, LinkedPart
    <2> QED
      BY <2>5 DEF underway
  <1>5. Device!HostReadsWhatWasAccepted
    <2>1. present = connected
      BY <1>1 DEF PortSilent
    <2>2. \A g, s, u : Device!Arrives(g, s, u) = Arrives(g, s, u)
      BY SameOperators
    <2>3. \A o, s : Device!Reading(o, s) = Reading(o, s)
      BY SameOperators
    <2>4. ASSUME mounted, ~cutOut, NEW c \in Device!OutPorts
          PROVE  Device!Arrives(Device!Reading(FALSE, hostGot[c]).got, toUsb[c],
                                toHost # << >> \/ encoders[c].pending # << >>)
      BY <1>4, <2>2, <2>3, <2>4, Zenon
    <2> QED
      BY <2>1, <2>4, Zenon DEF Device!HostReadsWhatWasAccepted
  <1> QED
    BY <1>2, <1>3, <1>5

(* However it is mounted, unmounted, begun and ended, and whichever cables *)
(* the host uses: unless a dump was cut off while the host was there, the  *)
(* router has what the host sent on the declared cables, and the host what *)
(* the outputs accepted, of this mount and of no other.                    *)
THEOREM DeviceStreamsArrive ==
    PortAssumption /\ Device!Spec =>
        [](Device!TypeOK /\ Device!HostIsHeard /\ Device!HostReadsWhatWasAccepted)
  <1> QED
    BY DeviceInit, DeviceNext, DeviceIsFaithful, PTL DEF Device!Spec
=============================================================================
