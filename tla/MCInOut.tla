------------------------------- MODULE MCInOut -------------------------------
(* InOut on a buffer of a few cells, for TLC. *)
EXTENDS InOut

MCMaxData  == 3
MCKey      == {65, 66}
MCStray    == {0, 255}

(* An interrupt anywhere. *)
MCAnywhere == Point
=============================================================================
