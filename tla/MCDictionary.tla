---------------------------- MODULE MCDictionary ----------------------------
(* Dictionary with two names, of one and of two characters. *)
EXTENDS Dictionary

ShortNames == [n \in Names |-> IF n = "a" THEN 2 ELSE 3]
=============================================================================
