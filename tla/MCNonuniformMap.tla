-------------------------- MODULE MCNonuniformMap --------------------------
EXTENDS NonuniformMap

CONSTANTS k1, k2, k1b

MCKeys == {k1, k2}

(* A caller's try_num may exceed its max_tries by one. *)
MCTryNums == 0 .. MaxTries + 1

(* A Vec input: entry k1b is a second entry of key k1. *)
MCKeyOf(e) == IF e = k1b THEN k1 ELSE e

=============================================================================
