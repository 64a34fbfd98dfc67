----------------------------- MODULE MCKeyReport -----------------------------
(* KeyReport with a few keys, for TLC. *)
EXTENDS KeyReport

MCCodes     == {4, 33, 57}       \* A, 4, CapsLock
MCMaxHeld   == 2
MCMaxEvents == 4
=============================================================================
