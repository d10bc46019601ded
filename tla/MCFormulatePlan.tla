-------------------------- MODULE MCFormulatePlan --------------------------
(***************************************************************************)
(* formulate_plan checked over every count vector of a bounded alphabet   *)
(* and every iteration order of the counts HashMap.  The state is the     *)
(* input; it never changes, so every reachable state is one call.         *)
(***************************************************************************)
EXTENDS FormulatePlan

CONSTANTS Vals,       \* the value alphabet, a set of integers (V: Ord)
          MaxCount    \* the largest count of one value

VARIABLES counts, order,
          result      \* what formulate_plan returns for them

vars == <<counts, order, result>>

(* The orders a HashMap over the values of D may iterate in. *)
Orders(D) == {s \in [1 .. Cardinality(D) -> D] : \A i, j \in DOMAIN s : i # j => s[i] # s[j]}

Init ==
    /\ \E D \in SUBSET Vals \ {{}} : counts \in [D -> 1 .. MaxCount]
    /\ order \in Orders(DOMAIN counts)
    /\ result = formulate_plan(counts, order)

Next == UNCHANGED vars

Spec == Init /\ [][Next]_vars

Result == result
Resp == Result.response_map
N == Len(Resp)
(* Width of response i: up to the next lower bound, the last one to 2^BITS. *)
Width(i) == IF i = N THEN Word - Resp[i][1] ELSE Resp[i + 1][1] - Resp[i][1]

TypeOK ==
    /\ Result.plan \in LocatorSet
    /\ \A i \in 1 .. N : Resp[i][1] \in LocatorSet /\ Resp[i][2] \in DOMAIN counts
    /\ Result.value_map \in [DOMAIN counts -> 0 .. N - 1]
    /\ Len(Result.interval_vec) = N

(* The response map tiles the locator space: it starts at 0, is strictly *)
(* increasing, every width but the last is a power of 2 aligned to its   *)
(* own size, and each value's interval [lo, hi] is exactly its width.    *)
(* The alignment and the place of the odd man out come from the second   *)
(* sort of formulate_plan; the queries and the codec both rely on them.  *)
ResponseMapTiles ==
    /\ N = Cardinality(DOMAIN counts)
    /\ Resp[1][1] = 0
    /\ \A i \in 1 .. N - 1 : Resp[i][1] < Resp[i + 1][1]
    /\ \A i \in 1 .. N - 1 : IsPowerOf2(Width(i)) /\ Resp[i][1] % Width(i) = 0
    /\ \A i \in 1 .. N :
          /\ Result.value_map[Resp[i][2]] = i - 1
          /\ Result.interval_vec[i].lo = Resp[i][1]
          /\ Result.interval_vec[i].hi = Resp[i][1] + Width(i) - 1
          /\ Result.interval_vec[i].c = counts[Resp[i][2]]

(* Every value gets at least half and at most twice its fair share of    *)
(* the locator space (count/total), which is what keeps the map within   *)
(* one bit per key of the entropy; the fit-ordered expansion of          *)
(* formulate_plan must not give any value more than a doubling.          *)
WidthWithinFactorTwo ==
    LET total == SumCounts(counts, order)
    IN N > 1 =>
       \A i \in 1 .. N :
          LET c == counts[Resp[i][2]]
          IN /\ 2 * Width(i) * total > c * Word
             /\ Width(i) * total <= 2 * c * Word

(* Two builds of the same input produce the same plan and response map   *)
(* (spec section 8, property 10: byte-identical outputs), whatever order *)
(* the fresh counts HashMap iterates in.                                  *)
PlanDeterministic ==
    \A o \in Orders(DOMAIN counts) : formulate_plan(counts, o) = Result

(* Spec section 4.1, step 4: the doubling is offered first to the values *)
(* whose width is most over-represented per count, so a value that grew   *)
(* past its initial width is at least as over-represented (width/count)   *)
(* as any value that did not.  The code's compare_fit (lines 93-101)       *)
(* sorts by ascending width/count instead.                                 *)
SpecFitOrder ==
    LET init == InitialItems(counts, order)
        initW(v) == init[CHOOSE i \in DOMAIN init : init[i].k = v].w
        finalW(v) == Width(Result.value_map[v] + 1)
        grew(v) == finalW(v) > initW(v)
    IN N > 1 =>
       \A a, b \in DOMAIN counts :
          grew(a) /\ ~grew(b) => initW(a) * counts[b] >= initW(b) * counts[a]

=============================================================================
