----------------------------- MODULE MCBleHost -----------------------------
(* BleHost with two devices, whose connections are given any of two        *)
(* identifiers.                                                            *)
EXTENDS BleHost, TLC

CONSTANTS piano, pads, one, two

(* A dump in one chunk, and the start of one with the ends of one that     *)
(* fills the buffer and of one that does not fit.                          *)
SomeMessages ==
    {ChunkMessage(<<1>>, TRUE, FALSE), ChunkMessage(<<2>>, FALSE, TRUE),
     ChunkMessage(<<2, 3>>, FALSE, TRUE)}
=============================================================================
