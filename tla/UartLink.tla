------------------------------ MODULE UartLink ------------------------------
(***************************************************************************)
(* Two boards with a BasicUartPort each, and the cable from the output of  *)
(* one to the input of the other: Serializer and send() at one end,        *)
(* update() and Parser at the other, begin() and end() at both.  The other *)
(* direction is a second link of the same kind.                            *)
(*                                                                         *)
(* The sender is handed what its router lets through to one output         *)
(* (Router's rule 3).  A write may be cut short, and the cable may lose a  *)
(* byte or deliver another one.                                            *)
(***************************************************************************)
EXTENDS Parser, FiniteSets

CONSTANTS
    Messages,       \* what the sender's router may deliver
    Noise,          \* bytes the cable may turn a byte into
    RxBytes,        \* ESPMIDI_UART_RX_BYTES
    MaxSends,       \* bound: messages handed to the sender
    MaxFaults,      \* bound: cut writes, lost or wrong bytes, begin()s and end()s
    BeginsMidDump   \* whether begin() is called again while a dump arrives

ASSUME LinkAssumption ==
    /\ Messages \subseteq {m \in MidiMessages : IsComplete(m)}
    /\ RxBytes \in Nat \ {0} /\ MaxSends \in Nat /\ MaxFaults \in Nat
    /\ Noise \subseteq Bytes /\ BeginsMidDump \in BOOLEAN

VARIABLES
    started,        \* started_ of the sender and of the receiver
    open,           \* serializer_.open_
    wire,           \* bytes on their way, with the number of their message
    left,           \* bytes of update()'s buffer not parsed yet; they are
                    \* still the first ones of wire
    sent,           \* messages handed to send(), and if all of each arrives
    handed,         \* messages handed to the receiver's router
    lineOpen,       \* the bytes written so far leave a dump open
    abandoned,      \* history: and that dump has had a write refused, or
                    \* begin() called on the same pins in its middle
    faults

sendVars == <<open, sent, lineOpen, abandoned>>
receiveVars == <<vars, handed>>
linkVars == <<receiveVars, sendVars, started, wire, left, faults>>

Init ==
    /\ ParserInit
    /\ started = [sender |-> TRUE, receiver |-> TRUE]
    /\ open = FALSE /\ wire = << >> /\ left = 0
    /\ lineOpen = FALSE /\ abandoned = FALSE
    /\ sent = << >> /\ handed = << >> /\ faults = 0
-----------------------------------------------------------------------------
(* The sender.                                                             *)

(* Bytes that reach the cable: while nobody reads there, they are lost.    *)
PutOnWire(bytes, id) ==
    wire' = IF started.receiver
            THEN wire \o [i \in 1..Len(bytes) |-> [byte |-> bytes[i], id |-> id]]
            ELSE wire

LineAfter(bytes, was) ==
    LET marks == {i \in 1..Len(bytes) :
                      IsStatusByte(bytes[i]) /\ ~IsSystemRealTime(bytes[i])} IN
    IF marks = {} THEN was ELSE bytes[Max(marks)] = SysExStart

(* Rule 3 of the sender's router, and what serialize() can express; a      *)
(* message it cannot, or one for a port that is not open, is refused and   *)
(* changes nothing.                                                        *)
Accepted(m) == started.sender /\ Len(sent) < MaxSends /\ Fits(open, m)

(* What serialize() writes: of a chunk its 0xF0, its data and its 0xF7,    *)
(* each in a write of its own.                                             *)
Line(m) ==
    IF ~m.chunk THEN <<m.status>> \o m.data
    ELSE (IF m.start THEN <<SysExStart>> ELSE << >>) \o m.data
             \o (IF m.end THEN <<SysExEnd>> ELSE << >>)

Send(m) ==
    /\ Accepted(m)
    /\ PutOnWire(Line(m), Len(sent) + 1)
    /\ lineOpen' = LineAfter(Line(m), lineOpen)
    /\ open' = OpenAfter(open, m)
    /\ abandoned' = (abandoned /\ lineOpen' /\ ~open')
    /\ sent' = Append(sent, [message |-> m, intact |-> started.receiver])
    /\ UNCHANGED <<receiveVars, started, left, faults>>

(* open_ when a write is cut short: a 0xF0 that was not written changes    *)
(* nothing, and anything else of a chunk ends the stream here.             *)
OpenAfterCut(m, n) ==
    IF ~m.chunk \/ (m.start /\ n = 0) THEN open ELSE FALSE

(* The transport takes a part of one write, n bytes of the message in all, *)
(* and serialize() stops there.                                            *)
SendCut(m) ==
    /\ Accepted(m) /\ faults < MaxFaults
    /\ \E n \in 0 .. Len(Line(m)) - 1 :
           LET bytes == SubSeq(Line(m), 1, n) IN
           /\ PutOnWire(bytes, Len(sent) + 1)
           /\ lineOpen' = LineAfter(bytes, lineOpen)
           /\ open' = OpenAfterCut(m, n)
           /\ abandoned' = ((abandoned \/ m.chunk) /\ lineOpen' /\ ~open')
    /\ sent' = Append(sent, [message |-> m, intact |-> FALSE])
    /\ faults' = faults + 1
    /\ UNCHANGED <<receiveVars, started, left>>

(* closeStream(): an 0xF7, of which nothing is known but that it is not    *)
(* part of a message, and which the transport may refuse as well; then the *)
(* stream is forgotten.                                                    *)
CloseStream(written) ==
    /\ IF open /\ written THEN PutOnWire(<<SysExEnd>>, 0) ELSE UNCHANGED wire
    /\ lineOpen' = (lineOpen /\ ~(open /\ written))
    /\ abandoned' = (lineOpen' /\ (abandoned \/ open))
    /\ open' = FALSE

SenderEnd ==
    /\ started.sender /\ faults < MaxFaults
    /\ \E written \in BOOLEAN : CloseStream(written)
    /\ started' = [started EXCEPT !.sender = FALSE]
    /\ faults' = faults + 1
    /\ UNCHANGED <<receiveVars, left, sent>>

(* begin() of a port that is not open.                                     *)
SenderBegin ==
    /\ ~started.sender /\ faults < MaxFaults
    /\ open' = FALSE
    /\ started' = [started EXCEPT !.sender = TRUE]
    /\ faults' = faults + 1
    /\ UNCHANGED <<receiveVars, wire, left, sent, lineOpen, abandoned>>

(* Mutant: the serializer is reset and nothing more.                       *)
SenderMoves_Resets ==
    /\ started.sender /\ faults < MaxFaults
    /\ open' = FALSE
    /\ faults' = faults + 1
    /\ UNCHANGED <<receiveVars, started, wire, left, sent, lineOpen, abandoned>>

(* begin() of an open port on other pins, where the cable is plugged in    *)
(* next: the port closes first, as end() does.                             *)
SenderMoves ==
    /\ started.sender /\ faults < MaxFaults
    /\ \E written \in BOOLEAN : CloseStream(written)
    /\ faults' = faults + 1
    /\ UNCHANGED <<receiveVars, started, left, sent>>

(* begin() of an open port on the same pins, "a reconfiguration": the      *)
(* serializer is reset, and nothing is written.                            *)
SenderBeginAgain ==
    /\ started.sender /\ faults < MaxFaults
    /\ open' = FALSE
    /\ abandoned' = (abandoned \/ open)
    /\ faults' = faults + 1
    /\ UNCHANGED <<receiveVars, started, wire, left, sent, lineOpen>>
-----------------------------------------------------------------------------
(* The cable.                                                              *)
Damage(id) == sent' = [i \in DOMAIN sent |->
                  IF i = id THEN [sent[i] EXCEPT !.intact = FALSE] ELSE sent[i]]

DamageAll == sent' = [i \in DOMAIN sent |->
                 IF \E w \in 1..Len(wire) : wire[w].id = i
                 THEN [sent[i] EXCEPT !.intact = FALSE] ELSE sent[i]]

LoseByte ==
    /\ faults < MaxFaults /\ faults' = faults + 1
    /\ \E i \in left + 1 .. Len(wire) :
           wire' = RemoveAt(wire, i) /\ Damage(wire[i].id)
    /\ UNCHANGED <<receiveVars, started, open, left, lineOpen, abandoned>>

ChangeByte ==
    /\ faults < MaxFaults /\ faults' = faults + 1
    /\ \E i \in left + 1 .. Len(wire), b \in Noise :
           wire' = [wire EXCEPT ![i].byte = b] /\ Damage(wire[i].id)
    /\ UNCHANGED <<receiveVars, started, open, left, lineOpen, abandoned>>
-----------------------------------------------------------------------------
(* The receiver.                                                           *)

(* update(): a buffer of what has arrived, RxBytes at most ...             *)
Read ==
    /\ started.receiver /\ left = 0 /\ run = << >>
    /\ \E n \in 1 .. Len(wire) : n <= RxBytes /\ left' = n
    /\ UNCHANGED <<receiveVars, sendVars, started, wire, faults>>

(* ... is parsed byte by byte.                                             *)
Parse ==
    /\ left > 0
    /\ ParseByte(wire[1].byte)
    /\ wire' = Tail(wire) /\ left' = left - 1
    /\ handed' = handed \o emitted'
    /\ UNCHANGED <<sendVars, started, faults>>

Flush ==
    /\ left = 0 /\ EndOfBuffer
    /\ handed' = handed \o emitted'
    /\ UNCHANGED <<sendVars, started, wire, left, faults>>

(* end(): the endpoint is detached, so the router closes the stream.       *)
ReceiverEnd ==
    /\ started.receiver /\ left = 0 /\ faults < MaxFaults
    /\ Reset /\ feeding' = FALSE
    /\ DamageAll /\ wire' = << >>
    /\ started' = [started EXCEPT !.receiver = FALSE]
    /\ faults' = faults + 1
    /\ UNCHANGED <<open, lineOpen, abandoned, left, handed>>

ReceiverBegin ==
    /\ ~started.receiver /\ faults < MaxFaults
    /\ Reset /\ UNCHANGED feeding
    /\ started' = [started EXCEPT !.receiver = TRUE]
    /\ faults' = faults + 1
    /\ UNCHANGED <<sendVars, wire, left, handed>>

(* begin() of an open port, on the same pins or on others: the parser is   *)
(* reset, and nothing tells the router.                                    *)
ReceiverBeginAgain(moved) ==
    /\ started.receiver /\ left = 0 /\ faults < MaxFaults
    /\ feeding => BeginsMidDump
    /\ Reset /\ UNCHANGED feeding
    /\ DamageAll /\ wire' = IF moved THEN << >> ELSE wire
    /\ faults' = faults + 1
    /\ UNCHANGED <<started, open, lineOpen, abandoned, left, handed>>

Next ==
    \/ \E m \in Messages : Send(m) \/ SendCut(m)
    \/ SenderEnd \/ SenderBegin \/ SenderMoves \/ SenderBeginAgain
    \/ LoseByte \/ ChangeByte
    \/ Read \/ Parse \/ Flush
    \/ ReceiverEnd \/ ReceiverBegin
    \/ \E moved \in BOOLEAN : ReceiverBeginAgain(moved)

Spec == Init /\ [][Next]_linkVars
-----------------------------------------------------------------------------
Count(ms, m) == Cardinality({i \in 1..Len(ms) : ms[i] = m})

SentMessages == [i \in 1..Len(sent) |-> sent[i].message]

TypeOK ==
    /\ ParserTypeOK
    /\ left \in 0..Len(wire) /\ left <= RxBytes
    /\ started \in [sender : BOOLEAN, receiver : BOOLEAN]
    /\ open \in BOOLEAN /\ lineOpen \in BOOLEAN /\ abandoned \in BOOLEAN
    /\ faults \in 0..MaxFaults

(* While nothing goes wrong, the receiver's router is handed what the      *)
(* sender was, in order, wherever the buffers end and whatever real-time   *)
(* comes in between; real-time may overtake, and everything comes in time. *)
LinkIsFaithful ==
    TypeOK /\ (faults = 0 =>
        Arrives(handed, SentMessages, wire # << >> \/ run # << >> \/ pendingStart))

(* "A receiver that loses one byte ... misreads ... one message"           *)
(* (Serializer): a short message no byte of which was lost or changed is   *)
(* received, whatever happened to the ones before it.                      *)
IntactArrives ==
    \A m \in Messages : ~m.chunk =>
        Count(handed, m) >=
            Cardinality({i \in 1..Len(sent) :
                /\ sent[i].message = m /\ sent[i].intact
                /\ \A w \in 1..Len(wire) : wire[w].id # i})

(* "A data stream that was being sent is terminated first" (end(), and     *)
(* begin() on other pins): the dump that is open on the cable is the one   *)
(* the port is sending, so a port that ends or moves leaves none behind -  *)
(* unless a write of that dump was refused, its closing 0xF7 included, or  *)
(* begin() was called again on the same pins in the middle of it.          *)
DumpIsTerminated ==
    /\ open => lineOpen
    /\ lineOpen => open \/ abandoned
=============================================================================
