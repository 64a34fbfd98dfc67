------------------------------ MODULE SeqFilter ------------------------------
(***************************************************************************)
(* The elements of a sequence that lie in a set, in their order: SelectSeq *)
(* of the standard module for the test "is in S", as a recursive function, *)
(* about which the lemmas of module SeqFilterProofs can be proved.         *)
(***************************************************************************)
EXTENDS Integers, Sequences

Only(s, S) ==
  LET kept[n \in 0..Len(s)] ==
        IF n = 0 THEN <<>>
        ELSE IF s[n] \in S THEN Append(kept[n - 1], s[n])
        ELSE kept[n - 1]
  IN  kept[Len(s)]
=============================================================================
