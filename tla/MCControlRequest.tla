-------------------------- MODULE MCControlRequest --------------------------
(* ControlRequest with the kinds of requests the library can make, of      *)
(* less than a packet, a packet, and more.                                 *)
EXTENDS ControlRequest

MCKinds ==
  [wLength : {0, 1, 3}, in : {TRUE}, buffer : {TRUE}]
    \cup [wLength : {0, 3}, in : {FALSE}, buffer : {TRUE}]
    \cup [wLength : {0}, in : BOOLEAN, buffer : {FALSE}]

MCPipeSize  == 2
MCTimeoutMS == 2
MCMaxCalls  == 3
=============================================================================
