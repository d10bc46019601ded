--------------------------- MODULE StaticFunction ---------------------------
(***************************************************************************)
(* What CompressedMap promises (its doc comment, src/src/nonuniform.rs     *)
(* lines 138-158 and 181-197): built from a non-empty map it answers every *)
(* key of the map with that key's value; an empty map gives None; and a    *)
(* build that gives up (the uniform sub-builds ran out of tries) can only  *)
(* happen when there is something to solve, two values or more.          *)
(***************************************************************************)
EXTENDS FiniteSets, Naturals

CONSTANTS Keys, Vals

VARIABLES
    input,    \* the tracked part of the map: key -> value
    present,  \* the distinct values of the whole map
    status,   \* "building", "built" or "none"
    lookup    \* once built: key -> <<answer>>

vars == <<input, present, status, lookup>>

Init ==
    /\ input \in UNION {[D -> Vals] : D \in SUBSET Keys}
    /\ present \in SUBSET Vals
    /\ \A k \in DOMAIN input : input[k] \in present
    /\ status = "building"
    /\ lookup = <<>>

Build ==
    /\ status = "building"
    /\ present # {}
    /\ status' = "built"
    /\ lookup' = [k \in DOMAIN input |-> <<input[k]>>]
    /\ UNCHANGED <<input, present>>

RejectEmpty ==
    /\ status = "building"
    /\ present = {}
    /\ status' = "none"
    /\ UNCHANGED <<input, present, lookup>>

GiveUp ==
    /\ status = "building"
    /\ Cardinality(present) >= 2
    /\ status' = "none"
    /\ UNCHANGED <<input, present, lookup>>

Next == Build \/ RejectEmpty \/ GiveUp

Spec == Init /\ [][Next]_vars

=============================================================================
