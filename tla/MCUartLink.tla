----------------------------- MODULE MCUartLink -----------------------------
(* UartLink with a message of each length, System Real-Time and dumps.     *)
EXTENDS UartLink

Note == ShortMessage(144, <<1, 2>>)
Program == ShortMessage(192, <<1>>)
Tune == ShortMessage(246, << >>)
Clock == ShortMessage(248, << >>)

SomeMessages ==
    {Note, Program, Tune, Clock,
     ChunkMessage(<<1>>, TRUE, FALSE), ChunkMessage(<< >>, TRUE, FALSE),
     ChunkMessage(<<2>>, FALSE, FALSE), ChunkMessage(<<2>>, FALSE, TRUE),
     ChunkMessage(<< >>, TRUE, TRUE)}
=============================================================================
