----------------------------- MODULE MCUsbHost -----------------------------
(* UsbHost with boards of two cables and of one, and a hub.                *)
EXTENDS UsbHost, TLC

CONSTANTS wide, slim, hub, one, two

AnyAddress == Permutations(Addresses)

Boards == wide :> 2 @@ slim :> 1
TwoAndOne == Boards @@ hub :> 0

(* A message that may come in the middle of a dump, and a dump in two      *)
(* chunks, with a byte left over between them and its end by itself.       *)
Clock == ShortMessage(248, << >>)

SomeMessages ==
    {Clock, ChunkMessage(<<1, 2, 3>>, TRUE, FALSE), ChunkMessage(<<4, 5>>, FALSE, TRUE)}

(* A dump in three chunks: one of them can be refused between the others.  *)
MoreMessages == SomeMessages \cup {ChunkMessage(<<6>>, FALSE, FALSE)}

(* Devices send, or the router delivers, but not both in one behaviour:    *)
(* the directions share slots and ports, but neither looks at the codecs   *)
(* or the streams of the other.  Deliveries go to the boards, with room    *)
(* for all ports but one, and the more of them, the fewer changes.         *)
OneWay ==
    \/ /\ delivered = 0
       /\ \A d \in Devices, c \in Cables : ToSet(sent[d][c]) \subseteq SomeMessages
    \/ /\ submitted = 0 /\ changes + delivered <= 6
       /\ \A a \in Addresses : at[a] # hub
       /\ room + Cardinality(inPorts) + Cardinality(DOMAIN sinks) = 5

OneWaySpec == Init /\ [][Next /\ OneWay']_vars
=============================================================================
