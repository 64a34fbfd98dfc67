--------------------------- MODULE MCOrdonnanceur ----------------------------
(* Ordonnanceur with the values of the program, for TLC. *)
EXTENDS Ordonnanceur

MCNB_TASK == 5
MCOCR1A   == 312
MCWaiters == {4}         \* taskClavier
=============================================================================
