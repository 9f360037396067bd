--------------------------- MODULE MCDevicePorts ---------------------------
(* The two ports where the board is the device, one or the other.          *)
EXTENDS MidiBytes

CONSTANTS
    Capacity, MaxPhones, MaxSent,
    Cables, InPortCount, OutPortCount, FifoSize, PacketsPerUpdate, MaxMounts,
    MaxMessages, MaxCalls

VARIABLES
    port,
    phone, buffer, stream, told, heard, oversized, phones,
    mounted, hostEncoder, fromHost, toHost, budget, open, encoders, streams,
    hostSent, handed, packetsTold, hostGot, impaired, broken, mounts, messages,
    begun, available, connected, calls

bleOnly == <<phone, buffer, stream, told, heard, oversized, phones>>
usbOnly == <<mounted, hostEncoder, fromHost, toHost, budget, open, encoders, streams,
             hostSent, handed, packetsTold, hostGot, impaired, broken, mounts, messages>>
vars == <<port, bleOnly, usbOnly, begun, available, connected, calls>>

(* The dumps of BLE fill the buffer, or do not fit.                        *)
Clock == ShortMessage(248, << >>)
PhoneMessages ==
    {Clock, ChunkMessage(<<1>>, TRUE, FALSE), ChunkMessage(<<1, 2>>, TRUE, TRUE),
     ChunkMessage(<<2>>, FALSE, FALSE),
     ChunkMessage(<<2>>, FALSE, TRUE), ChunkMessage(<<2, 3>>, FALSE, TRUE)}

(* A message that shares its CIN with the end of a dump, one that may come *)
(* in the middle, and dumps with bytes left over at the end of a chunk and *)
(* with none.                                                              *)
Tune == ShortMessage(246, << >>)
HostMessages ==
    {Tune, Clock, ChunkMessage(<<1, 2, 3>>, TRUE, FALSE), ChunkMessage(<<4>>, FALSE, TRUE)}
RouterMessages ==
    {Tune, Clock, ChunkMessage(<<1, 2, 3>>, TRUE, FALSE), ChunkMessage(<<1>>, TRUE, FALSE),
     ChunkMessage(<<4, 5>>, FALSE, TRUE)}

Ble == INSTANCE BleDevice
Usb == INSTANCE UsbDevice WITH told <- packetsTold

Init == port \in {"ble", "usb"} /\ Ble!Init /\ Usb!Init

Next ==
    /\ UNCHANGED port
    /\ \/ port = "ble" /\ Ble!Next /\ UNCHANGED usbOnly
       \/ port = "usb" /\ Usb!Next /\ UNCHANGED bleOnly

(* loop() calls update(), which comes to its end.                          *)
BleLoop == port = "ble" /\ Ble!Update /\ UNCHANGED <<port, usbOnly>>
UsbLoop == port = "usb" /\ Usb!Loop /\ UNCHANGED <<port, bleOnly>>

FairSpec == Init /\ [][Next]_vars /\ WF_vars(BleLoop) /\ WF_vars(UsbLoop)
-----------------------------------------------------------------------------
(* BleDevice: a phone gets whole dumps and short messages, those the       *)
(* output accepted.                                                        *)
PhoneGetsWholeDumps == Ble!TypeOK /\ Ble!PhoneGetsWholeDumps

(* UsbDevice: the router is handed what the host sent, and the host reads  *)
(* what the outputs accepted.                                              *)
HostStreamsAreFaithful == Usb!TypeOK /\ Usb!HostIsHeard /\ Usb!HostReadsWhatWasAccepted

(* A port that has been begun follows the phone or the host: when those no *)
(* longer come and go, the endpoint is attached exactly if they are there, *)
(* and every packet the host has sent has been read.                       *)
EndpointFollows ==
    <>[](begun =>
        /\ connected = (IF port = "ble" THEN phone ELSE mounted)
        /\ fromHost = << >>)
=============================================================================
