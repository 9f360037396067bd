----------------------------- MODULE UsbDevice -----------------------------
(***************************************************************************)
(* BasicUsbDevicePort: the board as a USB-MIDI device with one endpoint    *)
(* and a port per cable.  update() follows whether the host has mounted    *)
(* the device and reads packets; send() encodes what the router delivers   *)
(* and writes packet by packet.                                            *)
(*                                                                         *)
(* The stack (external) has a FIFO per direction, which it clears when the *)
(* device is unmounted; while a FIFO is full the host waits, and a write   *)
(* is refused.  Mounting and transfers go on while update() runs.          *)
(***************************************************************************)
EXTENDS UsbPacket, FiniteSets

CONSTANTS
    Cables,             \* cables the host uses, declared or not
    InPortCount,        \* cables declared from the host ...
    OutPortCount,       \* ... and to it
    HostMessages,       \* messages the host sends
    RouterMessages,     \* messages the router sends
    FifoSize,           \* packets each FIFO holds
    PacketsPerUpdate,   \* ESPMIDI_USB_PACKETS_PER_UPDATE
    MaxMounts,          \* bound: times the device is mounted
    MaxCalls,           \* bound: calls of begin() and end()
    MaxMessages         \* bound: messages, in both directions

VARIABLES
    \* the host and the stack
    mounted,            \* device_.ready()
    hostEncoder, fromHost, toHost,
    \* the adapter
    begun,              \* the endpoint and its seats exist, and the sinks are set
    available,          \* available_
    budget,             \* packets update() may still read; 0 outside update()
    open, encoders,     \* the decoder and the encoders, by cable
    \* the registry and the router
    connected,          \* the endpoint is attached
    streams,            \* outputs that have accepted the start of a dump
    \* history, of this mount
    hostSent, handed,   \* messages of the host, and what update() made of them
    told, hostGot,      \* messages for the outputs, and the packets the host got
    impaired,           \* a dump from the host was cut off at this end
    broken,             \* a dump to the host was cut off
    mounts, calls, messages

stackVars == <<mounted, hostEncoder, fromHost, toHost>>
streamVars == <<open, encoders, streams>>
historyVars == <<hostSent, handed, told, hostGot, impaired, broken>>
countVars == <<mounts, calls, messages>>
usbDeviceVars == <<stackVars, begun, available, budget, connected, streamVars,
                   historyVars, countVars>>

InPorts == {c \in Cables : c < InPortCount}
OutPorts == {c \in Cables : c < OutPortCount}

Nothing == [c \in Cables |-> << >>]
NoEncoders == [c \in Cables |-> NewEncoder]
Closed == [c \in Cables |-> FALSE]

Init ==
    /\ mounted = FALSE /\ hostEncoder = NoEncoders
    /\ fromHost = << >> /\ toHost = << >>
    /\ begun = FALSE /\ available = FALSE /\ connected = FALSE /\ budget = 0
    /\ open = Closed /\ encoders = NoEncoders /\ streams = {}
    /\ hostSent = Nothing /\ handed = Nothing /\ told = Nothing /\ hostGot = Nothing
    /\ impaired = FALSE /\ broken = FALSE
    /\ mounts = 0 /\ calls = 0 /\ messages = 0
-----------------------------------------------------------------------------
(* The host and the stack.                                                 *)

Mount ==
    /\ ~mounted /\ mounted' = TRUE
    /\ mounts < MaxMounts /\ mounts' = mounts + 1
    /\ hostSent' = Nothing /\ handed' = Nothing /\ told' = Nothing /\ hostGot' = Nothing
    /\ UNCHANGED <<hostEncoder, fromHost, toHost, begun, available, budget, connected,
                   streamVars, impaired, broken, calls, messages>>

Unmount ==
    /\ mounted /\ mounted' = FALSE
    /\ hostEncoder' = NoEncoders /\ fromHost' = << >> /\ toHost' = << >>
    /\ impaired' = (impaired \/ \E c \in Cables : open[c])
    /\ broken' = (broken \/ streams # {})
    /\ UNCHANGED <<begun, available, budget, connected, streamVars, hostSent, handed,
                   told, hostGot, countVars>>

HostSends(c, m) ==
    LET packets == Encode(hostEncoder[c], c, m) IN
    /\ mounted /\ messages < MaxMessages /\ messages' = messages + 1
    /\ Fits(hostEncoder[c].inSysEx, m)
    /\ Len(fromHost) + Len(packets) <= FifoSize
    /\ fromHost' = fromHost \o packets
    /\ hostEncoder' = [hostEncoder EXCEPT ![c] = EncoderAfter(@, m)]
    /\ hostSent' = [hostSent EXCEPT ![c] = Append(@, m)]
    /\ UNCHANGED <<mounted, toHost, begun, available, budget, connected, streamVars,
                   handed, told, hostGot, impaired, broken, mounts, calls>>

HostReads ==
    /\ toHost # << >> /\ toHost' = Tail(toHost)
    /\ hostGot' = [hostGot EXCEPT ![Head(toHost).cable] = Append(@, Head(toHost))]
    /\ UNCHANGED <<mounted, hostEncoder, fromHost, begun, available, budget, connected,
                   streamVars, hostSent, handed, told, impaired, broken, countVars>>
-----------------------------------------------------------------------------
(* The sketch's task.                                                      *)

(* detachEndpoint(): the router forgets the streams of the endpoint.       *)
Detach == connected' = FALSE /\ streams' = {}

(* Mutant: the decoder stays as it is.                                     *)
ResetStreams_OutputOnly ==
    encoders' = NoEncoders /\ UNCHANGED open

ResetStreams ==
    open' = Closed /\ encoders' = NoEncoders

(* What the reset promises: while nobody is there, whatever was cut off    *)
(* before leaves no trace; while the host is there, it cuts off.           *)
CutOff ==
    /\ impaired' = (mounted /\ (impaired \/ \E c \in Cables : open[c]))
    /\ broken' = (mounted /\ (broken \/ streams # {}))

Call == calls < MaxCalls /\ calls' = calls + 1

(* Mutant: begin() while the port runs leaves available_ as it was.        *)
Begin_KeepsAvailable ==
    /\ Call /\ budget = 0
    /\ begun' = TRUE
    /\ Detach
    /\ broken' = (broken \/ streams # {})
    /\ UNCHANGED <<stackVars, available, budget, open, encoders, hostSent, handed,
                   told, hostGot, impaired, mounts, messages>>

(* begin(), also while the port runs: "the endpoint starts disconnected".  *)
(* The codecs stay as they are.  Not modelled: a begin() that fails        *)
(* halfway, because the registry has no room for the endpoint or for one   *)
(* of its ports, and leaves what it has attached so far.                   *)
Begin ==
    /\ Call /\ budget = 0
    /\ begun' = TRUE /\ available' = FALSE
    /\ Detach
    /\ broken' = (broken \/ streams # {})
    /\ UNCHANGED <<stackVars, budget, open, encoders, hostSent, handed, told, hostGot,
                   impaired, mounts, messages>>

End ==
    /\ Call /\ budget = 0
    /\ ResetStreams /\ CutOff
    /\ available' = FALSE
    /\ Detach
    /\ UNCHANGED <<stackVars, begun, budget, hostSent, handed, told, hostGot, mounts,
                   messages>>

(* update() finds the host there, or gone, since the last time; and if it  *)
(* is there, packets are read.                                             *)
Update ==
    /\ begun /\ budget = 0
    /\ available' = mounted
    /\ IF mounted = available THEN UNCHANGED <<connected, streamVars, impaired, broken>>
       ELSE IF mounted THEN connected' = TRUE /\ UNCHANGED <<streamVars, impaired, broken>>
       ELSE ResetStreams /\ CutOff /\ Detach
    /\ budget' = IF mounted THEN PacketsPerUpdate ELSE 0
    /\ UNCHANGED <<stackVars, begun, hostSent, handed, told, hostGot, countVars>>

(* The next packet is decoded and handed to the router ...                 *)
ReadPacket ==
    LET p == Head(fromHost) IN
    /\ budget > 0 /\ budget' = budget - 1
    /\ fromHost # << >> /\ fromHost' = Tail(fromHost)
    /\ p.cable < InPortCount
    /\ handed' = [handed EXCEPT ![p.cable] = @ \o Decode(open[p.cable], p)]
    /\ open' = [open EXCEPT ![p.cable] = OpenAfterPacket(@, p)]
    /\ UNCHANGED <<mounted, hostEncoder, toHost, begun, available, connected, encoders,
                   streams, hostSent, told, hostGot, impaired, broken, countVars>>

(* ... or dropped: "a packet on a cable the device never declared".        *)
DropPacket ==
    /\ budget > 0 /\ budget' = budget - 1
    /\ fromHost # << >> /\ fromHost' = Tail(fromHost)
    /\ Head(fromHost).cable >= InPortCount
    /\ UNCHANGED <<mounted, hostEncoder, toHost, begun, available, connected, streamVars,
                   historyVars, countVars>>

NothingToRead ==
    /\ budget > 0 /\ fromHost = << >>
    /\ budget' = 0
    /\ UNCHANGED <<stackVars, begun, available, connected, streamVars, historyVars, countVars>>

EncoderOf(c) == c

(* "One packet at a time, and a refusal stops there."                      *)
Written(packets) ==
    IF mounted THEN SubSeq(packets, 1, Min({Len(packets), FifoSize - Len(toHost)}))
               ELSE << >>

(* send(), handed what the router lets through to one output (its rule 3). *)
(* A message that makes no packet, even if all of its bytes are kept for   *)
(* the next one, is refused.                                               *)
Send(c, m) ==
    LET encoder == encoders[EncoderOf(c)]
        packets == Encode(encoder, c, m)
        written == Written(packets)
        result == available /\ packets # << >> /\ written = packets IN
    /\ begun /\ budget = 0
    /\ messages < MaxMessages /\ messages' = messages + 1
    /\ Fits(c \in streams, m)
    /\ IF available
       THEN /\ encoders' = [encoders EXCEPT ![EncoderOf(c)] = EncoderAfter(@, m)]
            /\ toHost' = toHost \o written
       ELSE UNCHANGED <<encoders, toHost>>
    /\ told' = IF c \in streams \/ result THEN [told EXCEPT ![c] = Append(@, m)] ELSE told
    /\ broken' = (broken \/ (mounted /\ available /\ written # packets
                                /\ (c \in streams \/ written # << >>)))
    /\ streams' = IF m.chunk /\ m.end THEN streams \ {c}
                  ELSE IF m.chunk /\ result THEN streams \cup {c} ELSE streams
    /\ UNCHANGED <<mounted, hostEncoder, fromHost, begun, available, budget, connected,
                   open, hostSent, handed, hostGot, impaired, mounts, calls>>

Loop == Update \/ ReadPacket \/ DropPacket \/ NothingToRead

Next ==
    \/ Mount \/ Unmount \/ HostReads
    \/ \E c \in Cables, m \in HostMessages : HostSends(c, m)
    \/ Begin \/ End
    \/ Loop
    \/ \E c \in OutPorts, m \in RouterMessages : Send(c, m)

Spec == Init /\ [][Next]_usbDeviceVars
-----------------------------------------------------------------------------
TypeOK ==
    /\ {mounted, begun, available, connected, impaired, broken} \subseteq BOOLEAN
    /\ Len(fromHost) <= FifoSize /\ Len(toHost) <= FifoSize
    /\ budget \in 0..PacketsPerUpdate
    /\ open \in [Cables -> BOOLEAN] /\ streams \subseteq OutPorts
    /\ \A c \in Cables : Len(encoders[c].pending) <= 2

(* Unless the port was ended, or the host came back unnoticed, in the      *)
(* middle of a dump, the router is handed exactly what the host sent on    *)
(* the declared cables, whatever came on the others and however it fell    *)
(* into packets and updates.                                               *)
HostIsHeard ==
    mounted /\ ~impaired =>
        \A c \in InPorts :
            Arrives(handed[c], hostSent[c],
                    fromHost # << >> \/ hostEncoder[c].pending # << >>)

(* Unless a dump was cut off, by a packet that was refused or a port that  *)
(* was begun or ended while the host was there, the host reads what the    *)
(* outputs accepted and nothing left over from another cable or another    *)
(* mount.                                                                  *)
HostReadsWhatWasAccepted ==
    /\ available = connected
    /\ mounted /\ ~broken =>
        \A c \in OutPorts :
            Arrives(Reading(FALSE, hostGot[c]).got, told[c],
                    toHost # << >> \/ encoders[c].pending # << >>)
=============================================================================
