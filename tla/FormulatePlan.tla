--------------------------- MODULE FormulatePlan ---------------------------
(***************************************************************************)
(* formulate_plan of src/src/nonuniform.rs: from the count of each value   *)
(* to a plan (one set bit per phase boundary), the index of each value,    *)
(* the locator interval of each value and the response map.                *)
(*                                                                         *)
(* counts is the HashMap<&V, usize> the code receives, as a function from  *)
(* the distinct values to their positive counts; order is the order in     *)
(* which that HashMap iterates, which the code does not control.           *)
(***************************************************************************)
EXTENDS Locator, Sequences, FiniteSets, TLC

(* An item of the code's `items` vector: (k, width, count). *)
Item(k, w, c) == [k |-> k, w |-> w, c |-> c]

(* A stable sort (the code's sort_by / sort_by_key are stable): s[i] goes  *)
(* to the position given by the elements strictly before it and the equal *)
(* elements that precede it in s.                                          *)
StableSort(s, Less(_, _)) ==
    LET Equiv(a, b) == ~Less(a, b) /\ ~Less(b, a)
        Pos(i) == Cardinality({j \in DOMAIN s : Less(s[j], s[i])})
                  + Cardinality({j \in 1 .. i - 1 : Equiv(s[j], s[i])}) + 1
    IN [p \in DOMAIN s |-> s[CHOOSE i \in DOMAIN s : Pos(i) = p]]

RECURSIVE SumCounts(_, _)
SumCounts(counts, order) ==
    IF order = <<>> THEN 0
    ELSE counts[Head(order)] + SumCounts(counts, Tail(order))

(* The initial width of each value: its share of the locator space,      *)
(* rounded down to a power of 2 (lines 85-91).                            *)
InitialItems(counts, order) ==
    LET total == SumCounts(counts, order)
        ratio(c) == (c * Word) \div total
    IN [i \in DOMAIN order |->
          Item(order[i], floor_power_of_2(AsLocator(ratio(counts[order[i]]))),
               counts[order[i]])]

RECURSIVE TotalWidth(_)
TotalWidth(items) ==
    IF items = <<>> THEN 0
    ELSE WrapAdd(Head(items).w, TotalWidth(Tail(items)))

(* compare_fit: ascending width per count, ties by (width, count).        *)
compare_fit(a1, a2) ==
    LET score1 == a1.w * a2.c
        score2 == a2.w * a1.c
    IN \/ score1 < score2
       \/ score1 = score2 /\ (a1.w < a2.w \/ (a1.w = a2.w /\ a1.c < a2.c))

(* Mutant: the expansion gives a value all that remains, not a doubling. *)
RECURSIVE ExpandFromNoMin(_, _, _)
ExpandFromNoMin(items, i, remaining_width) ==
    IF i > Len(items) \/ remaining_width = 0 THEN items
    ELSE ExpandFromNoMin([items EXCEPT ![i].w = @ + remaining_width], i + 1, 0)

(* The expansion loop (lines 107-113): in fit order, double each width   *)
(* or add what remains, until nothing remains.                            *)
RECURSIVE ExpandFrom(_, _, _)
ExpandFrom(items, i, remaining_width) ==
    IF i > Len(items) \/ remaining_width = 0 THEN items
    ELSE LET expand == IF remaining_width < items[i].w
                       THEN remaining_width ELSE items[i].w
         IN ExpandFrom([items EXCEPT ![i].w = @ + expand], i + 1,
                       remaining_width - expand)

(* Mutant: increasing alignment, trailing_zeros(w) instead of its negation. *)
CanonicalLessAscAlign(a, b) ==
    LET key(x) == <<CountOnes(x.w), TrailingZeros(x.w), x.k>>
        ka == key(a)
        kb == key(b)
    IN \/ ka[1] < kb[1]
       \/ ka[1] = kb[1] /\ ka[2] < kb[2]
       \/ ka[1] = kb[1] /\ ka[2] = kb[2] /\ ka[3] < kb[3]

(* sort_by_key (count_ones(w), -trailing_zeros(w), k).                   *)
CanonicalLess(a, b) ==
    LET key(x) == <<CountOnes(x.w), -TrailingZeros(x.w), x.k>>
        ka == key(a)
        kb == key(b)
    IN \/ ka[1] < kb[1]
       \/ ka[1] = kb[1] /\ ka[2] < kb[2]
       \/ ka[1] = kb[1] /\ ka[2] = kb[2] /\ ka[3] < kb[3]

(* The plan bit a width contributes (lines 126-131).                     *)
PlanBit(w) ==
    IF (w & (w - 1)) = 0 THEN w
    ELSE Shl(1, LocatorBits - 1 - LeadingZeros(w))

(* Mutant: the value number counted from 1 (count incremented first). *)
RECURSIVE AssignFromCountFirst(_, _, _)
AssignFromCountFirst(items, total, acc) ==
    IF items = <<>> THEN acc
    ELSE LET it == Head(items)
         IN AssignFromCountFirst(Tail(items), WrapAdd(total, it.w),
              [resp     |-> Append(acc.resp, <<total, it.k>>),
               vmap     |-> acc.vmap @@ (it.k :> Len(acc.resp) + 1),
               interval |-> Append(acc.interval,
                                   [c |-> it.c, lo |-> total, hi |-> total + (it.w - 1)]),
               plan     |-> acc.plan | PlanBit(it.w)])

(* The assignment loop (lines 117-132): lower bounds by running total.   *)
RECURSIVE AssignFrom(_, _, _)
AssignFrom(items, total, acc) ==
    IF items = <<>> THEN acc
    ELSE LET it == Head(items)
         IN AssignFrom(Tail(items), WrapAdd(total, it.w),
              [resp     |-> Append(acc.resp, <<total, it.k>>),
               vmap     |-> acc.vmap @@ (it.k :> Len(acc.resp)),
               interval |-> Append(acc.interval,
                                   [c |-> it.c, lo |-> total, hi |-> total + (it.w - 1)]),
               plan     |-> acc.plan | PlanBit(it.w)])

(* The whole of formulate_plan (lines 61-136).                           *)
formulate_plan(counts, order) ==
    IF Len(order) <= 1
    THEN [plan |-> 0,
          value_map |-> [x \in {order[i] : i \in DOMAIN order} |-> 0],
          interval_vec |-> [i \in DOMAIN order |->
                              [c |-> counts[order[i]], lo |-> 0, hi |-> LocatorMax]],
          response_map |-> [i \in DOMAIN order |-> <<0, order[i]>>]]
    ELSE LET items0 == InitialItems(counts, order)
             fitted == StableSort(items0, compare_fit)
             expanded == ExpandFrom(fitted, 1, WrapNeg(TotalWidth(items0)))
             sorted == StableSort(expanded, CanonicalLess)
             acc == AssignFrom(sorted, 0,
                       [resp |-> <<>>, vmap |-> <<>>, interval |-> <<>>, plan |-> 0])
         IN [plan |-> acc.plan, value_map |-> acc.vmap,
             interval_vec |-> acc.interval, response_map |-> acc.resp]

=============================================================================
