------------------------------ MODULE MCKeyLink ------------------------------
(* KeyLink with three connectors, a small buffer and a few keys. *)
EXTENDS KeyLink

MCMaxData     == 3
MCMaxTyped    == 5
MCMaxSerial   == 20    \* never reached when the interrupt is in time
MCStray       == {0, 255}
MCFewTyped    == 4     \* where characters may be written for ever
MCFewSerial   == 5

MCNoCalls     == {}
MCCalls       == {"bufferSize", "grabKeys"}
MCMaxCalls    == 1
MCMaxKeys     == 2

MCMAX_DEVICES == 3
MCSlot        == 1

MCOutsideEnqueue == {"setInt"}
MCAnywhere       == {"writeTail", "writeData", "setHead", "setInt"}
=============================================================================
