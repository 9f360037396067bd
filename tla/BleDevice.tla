----------------------------- MODULE BleDevice -----------------------------
(***************************************************************************)
(* BasicBleDevicePort: the board as a BLE MIDI device with one endpoint,   *)
(* which a phone finds.  update() follows whether a phone has subscribed,  *)
(* and send() collects the chunks the router delivers into whole dumps.    *)
(*                                                                         *)
(* The phone (external) subscribes and leaves at any time, and while it is *)
(* there EspBle may still refuse what it is handed.                        *)
(***************************************************************************)
EXTENDS BleSysEx

CONSTANTS
    PhoneMessages,  \* messages the router sends
    MaxPhones,      \* bound: subscriptions
    MaxCalls,       \* bound: calls of begin() and end()
    MaxSent         \* bound: messages handed to the sink

VARIABLES
    phone,          \* midi_.ready(): a phone has connected and subscribed
    begun,          \* the endpoint and its seats exist, and the sink is set
    available,      \* available_
    connected,      \* the registry: the endpoint is attached
    buffer,         \* sysEx_
    stream,         \* the router: the output has accepted the start of a dump
    told, heard,    \* messages handed to the sink while a phone was known, and
                    \* what reached a phone
    oversized,      \* oversized_
    phones, calls   \* counted up to the bounds

historyVars == <<told, heard, oversized>>
bleDeviceVars == <<phone, begun, available, connected, buffer, stream, historyVars,
                   phones, calls>>

Init ==
    /\ phone = FALSE /\ begun = FALSE /\ available = FALSE /\ connected = FALSE
    /\ buffer = NewBuffer /\ stream = FALSE
    /\ told = << >> /\ heard = << >> /\ oversized = 0
    /\ phones = 0 /\ calls = 0
-----------------------------------------------------------------------------
Subscribe ==
    /\ ~phone /\ phone' = TRUE
    /\ phones < MaxPhones /\ phones' = phones + 1
    /\ UNCHANGED <<begun, available, connected, buffer, stream, historyVars, calls>>

Leave ==
    /\ phone /\ phone' = FALSE
    /\ UNCHANGED <<begun, available, connected, buffer, stream, historyVars, phones, calls>>

(* detachEndpoint(): the router forgets the streams of the endpoint.       *)
Detach ==
    /\ connected' = FALSE /\ stream' = FALSE

(* begin(), also while the port runs: "the endpoint starts disconnected".  *)
(* What was collected of a dump stays.                                     *)
Begin ==
    /\ calls < MaxCalls /\ calls' = calls + 1
    /\ begun' = TRUE /\ available' = FALSE
    /\ Detach
    /\ UNCHANGED <<phone, buffer, historyVars, phones>>

End ==
    /\ calls < MaxCalls /\ calls' = calls + 1
    /\ buffer' = NewBuffer /\ available' = FALSE
    /\ Detach
    /\ UNCHANGED <<phone, begun, historyVars, phones>>

(* update() finds a phone, or finds it gone; end() does not keep it from   *)
(* doing so.                                                               *)
Update ==
    /\ begun /\ phone # available
    /\ available' = phone
    /\ IF phone
       THEN connected' = TRUE /\ UNCHANGED <<buffer, stream>>
       ELSE buffer' = NewBuffer /\ Detach
    /\ UNCHANGED <<phone, begun, historyVars, phones, calls>>

(* send(), handed what the router lets through to one output (its rule 3). *)
(* "Reporting success here is what lets the rest of it arrive."            *)
Send(m) ==
    /\ begun /\ Len(told) < MaxSent
    /\ Fits(stream, m)
    /\ \E answer \in BOOLEAN :
           LET result == available /\ Result(buffer, m, answer) IN
           /\ answer => phone
           /\ told' = IF available THEN Append(told, [m |-> m, result |-> result]) ELSE told
           /\ heard' = IF available /\ answer THEN heard \o Sent(buffer, m) ELSE heard
           /\ stream' = IF m.chunk THEN ~m.end /\ (stream \/ result) ELSE stream
    /\ buffer' = IF available THEN BufferAfter(buffer, m) ELSE buffer
    /\ oversized' = IF available /\ Oversized(buffer, m) THEN oversized + 1 ELSE oversized
    /\ UNCHANGED <<phone, begun, available, connected, phones, calls>>

Next ==
    \/ Subscribe \/ Leave
    \/ Begin \/ End \/ Update
    \/ \E m \in PhoneMessages : Send(m)

Spec == Init /\ [][Next]_bleDeviceVars
-----------------------------------------------------------------------------
TypeOK ==
    /\ {phone, begun, available, connected, stream, buffer.open, buffer.overflowed}
           \subseteq BOOLEAN
    /\ Len(buffer.bytes) <= Capacity
    /\ oversized \in Nat /\ phones \in 0..MaxPhones /\ calls \in 0..MaxCalls

(* A phone gets the short messages and the whole dumps the output accepted *)
(* in the order they were completed, however phones come and go and the    *)
(* port is begun and ended between the chunks; a dump that does not fit is *)
(* "refused and counted rather than truncated" (docs/PORTS.md:160).        *)
PhoneGetsWholeDumps ==
    /\ available = connected
    /\ heard = Promised(told)
    /\ oversized = TooLong(told)
=============================================================================
