--------------------------- MODULE MCPortRegistry ---------------------------
(* PortRegistry with two UARTs, a USB device with a serial, one without,   *)
(* and one whose transport is not set; and with two USB devices that say   *)
(* they are the same one.                                                  *)
EXTENDS PortRegistry

CONSTANTS uart1, uart2, keyboard, cheap, broken, twin, router, sketch

Device(transport, index, serial) ==
    [transport |-> transport, index |-> index, serial |-> serial]

IdentityOf ==
    [d \in Devices |->
        CASE d = uart1 -> Device("uart", 1, NoSerial)
          [] d = uart2 -> Device("uart", 2, NoSerial)
          [] d \in {keyboard, twin} -> Device("usbHost", 0, "0001")
          [] d = cheap -> Device("usbHost", 0, NoSerial)
          [] d = broken -> Device("unknown", 0, NoSerial)]
=============================================================================
