---------------------------- MODULE MCTreeProofs ----------------------------
(* Three slots among eight keys: two keys that differ in their last bit and  *)
(* one that differs in the first, so that siblings of every height occur,    *)
(* empty and occupied.                                                       *)
EXTENDS TreeProofs

MCKeyBits == [s \in Slots |-> CASE s = 1 -> <<0, 0, 0>>
                                [] s = 16 -> <<0, 0, 1>>
                                [] s = 18 -> <<1, 0, 1>>]
=============================================================================
