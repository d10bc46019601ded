--------------------------- MODULE NonuniformMap ---------------------------
(***************************************************************************)
(* CompressedMap::build and CompressedMap::query of src/src/nonuniform.rs. *)
(*                                                                         *)
(* The build counts the values, formulates a plan, stages the keys by the  *)
(* phase that resolves their value, and then solves one uniform retrieval  *)
(* problem per phase, replaying the odd-man-out (OMO) keys through the     *)
(* phases below phase_omo.  The build loop is modelled one phase per step. *)
(*                                                                         *)
(* The uniform sub-builder (CompressedRandomMap::build in uniform.rs, not  *)
(* part of this file) is modelled from its contract: it either fails, or   *)
(* after some try_num below its max_tries returns a map that gives every   *)
(* filtered key bits [shift, shift + nbits) of its target locator and any  *)
(* nbits-bit answer to every other key; its hash key is                    *)
(* choose_key(parent, try_num).                                            *)
(*                                                                         *)
(* Keys are the input keys whose answers are tracked; Pad[v] further keys  *)
(* of value v take part in the counts and the staging but their answers   *)
(* are not tracked (each key's answers are independent of the others').   *)
(***************************************************************************)
EXTENDS FormulatePlan, SequencesExt, FiniteSetsExt

CONSTANTS Keys,        \* tracked input keys (model values)
          Vals,        \* the value alphabet, a set of integers (V: Ord)
          PadCounts,   \* how many untracked keys a value may have
          MaxTries,    \* options.max_tries
          SaltBits,    \* width of a salt byte: 8 (u8) in the code
          NBlocks      \* the nblocks a uniform map may have (at least 2)

ASSUME PadCounts \subseteq Nat /\ MaxTries \in Nat /\ SaltBits \in 1 .. 8
ASSUME NBlocks # {} /\ NBlocks \subseteq Nat \ {0, 1}

TryCap == 2^SaltBits - 1      \* the 255 of min(options.max_tries - tries, 255)
UsizeWord == 2^20             \* 2^usize::BITS, scaled: larger than any count
UsizeMax == UsizeWord - 1     \* usize::MAX, larger than any phase index
Seed == <<>>                  \* options.key_gen
TryNums == 0 .. MaxTries      \* the options.try_num a caller passes in

(* choose_key(parent, try_num) of uniform.rs, as the chain of try numbers *)
(* from the seed: injective, as a hash is assumed to be.                  *)
choose_key(parent, t) == Append(parent, t)

(* An input entry is an item (k, v) of the collection build iterates      *)
(* over (line 199); KeyOf gives the key k that the uniform maps hash.  A   *)
(* map's entries are its keys; a Vec may hold two entries with one key.    *)
KeyOf(e) == e

(* The uniform sub-builder cannot solve a filter holding two entries of    *)
(* one key, even with equal targets: it fails after all its tries.         *)
SubBuildCanSolve(care) == \A e1, e2 \in care : KeyOf(e1) = KeyOf(e2) => e1 = e2

VARIABLES
    input,       \* the input map: tracked key -> value
    pad,         \* untracked keys per value
    order,       \* iteration order of the counts HashMap
    options,     \* [try_num, max_tries] of the caller's BuildOptions
    pc,          \* "build", "phase", "done" (returned Some), "none",
                 \* "panic" (a debug build's overflow check fired)
    st,          \* the build's locals fixed before the phase loop
    phase,       \* the phase loop index
    tries,       \* tries
    salt,        \* salt, one byte per solved phase
    core,        \* core: per solved phase its MapCore [hash_key,
                 \* bits_per_value, nblocks, out: key -> answer]
    current_values, \* OMO key -> the locator bits accumulated so far
    result       \* the CompressedMap returned, once pc = "done"

vars == <<input, pad, order, options, pc, st, phase, tries, salt, core,
          current_values, result>>

-----------------------------------------------------------------------------
(* Counting (lines 204-208). *)
Counts(inp, pd) ==
    LET n(v) == Cardinality({k \in DOMAIN inp : inp[k] = v}) + pd[v]
    IN [v \in {x \in Vals : n(x) > 0} |-> n(v)]

(* Per-phase bit masks (lines 227-235). *)
RECURSIVE PhaseBits(_)
PhaseBits(plan_tmp) ==
    IF plan_tmp = 0 THEN <<>>
    ELSE LET plan_tmp_2 == plan_tmp & (plan_tmp - 1)
             before_plan == (plan_tmp - 1) & Complement(plan_tmp)
             before_plan2 == WrapSub(plan_tmp_2, 1) & Complement(plan_tmp_2)
         IN <<before_plan2 & Complement(before_plan)>> \o PhaseBits(plan_tmp_2)

(* Phases whose bits meet a width, 0-based (lines 257-262 and 264-270). *)
PhasesMeeting(phase_bits, width) ==
    {p \in 0 .. Len(phase_bits) - 1 : (phase_bits[p + 1] & width) # 0}

(* The classification of the values and the staging of the keys, lines   *)
(* 223-304: everything the phase loop reads and never writes.            *)
Staging(counts, fp, inp) ==
    LET iv == fp.interval_vec
        nphases == CountOnes(fp.plan)
        phase_bits == PhaseBits(fp.plan)
        width(i) == WrapAdd(iv[i].hi - iv[i].lo, 1)
        isOmo(i) == (width(i) & WrapSub(width(i), 1)) # 0
        omos == {i \in DOMAIN iv : isOmo(i)}
        omo == IF omos = {} THEN UsizeMax ELSE CHOOSE i \in omos : TRUE
        omoPhases == IF omos = {} THEN {} ELSE PhasesMeeting(phase_bits, width(omo))
        phase_to_resolve == [i \in DOMAIN iv |->
                               IF isOmo(i) THEN 255
                               ELSE Min(PhasesMeeting(phase_bits, width(i)))]
        n_omo == IF omos = {} THEN 0 ELSE iv[omo].c
        phase_item_counts == [p \in 0 .. nphases - 1 |->
            LET vs == {i \in DOMAIN iv : ~isOmo(i) /\ phase_to_resolve[i] = p}
            IN MapThenSumSet(LAMBDA i : iv[i].c, vs)]
        phase_offsets == [p \in 0 .. nphases - 1 |->
            n_omo + MapThenSumSet(LAMBDA q : phase_item_counts[q], 0 .. p - 1)]
        vi(k) == fp.value_map[inp[k]] + 1
        keyOrder == SetToSeq(DOMAIN inp)
        before(j) == {keyOrder[x] : x \in 1 .. j - 1}
        slot(j) ==
            LET k == keyOrder[j]
            IN IF isOmo(vi(k))
               THEN Cardinality({x \in before(j) : isOmo(vi(x))})
               ELSE phase_offsets[phase_to_resolve[vi(k)]]
                    + Cardinality({x \in before(j) :
                         ~isOmo(vi(x)) /\ phase_to_resolve[vi(x)] = phase_to_resolve[vi(k)]})
    IN [nphases |-> nphases,
        phase_bits |-> phase_bits,
        odd_man_out |-> IF omos = {} THEN UsizeMax ELSE omo - 1,
        lo_omo |-> IF omos = {} THEN 0 ELSE iv[omo].lo,
        phase_omo |-> IF omos = {} THEN UsizeMax ELSE Max(omoPhases),
        min_phase_affecting_omo |-> IF omos = {} THEN UsizeMax ELSE Min(omoPhases),
        omo_offset |-> n_omo,
        phase_offsets_cur |-> [p \in 0 .. nphases - 1 |->
                                 phase_offsets[p] + phase_item_counts[p]],
        is_omo |-> [k \in DOMAIN inp |-> isOmo(vi(k))],
        slot |-> [k \in DOMAIN inp |->
                    slot(CHOOSE j \in DOMAIN keyOrder : keyOrder[j] = k)],
        target |-> [k \in DOMAIN inp |-> iv[vi(k)].hi],
        plan |-> fp.plan,
        response_map |-> fp.response_map]

-----------------------------------------------------------------------------
(* Mutant: a map with one value is turned down like an empty one. *)
BuildEmptyOrSingle ==
    /\ pc = "build"
    /\ Cardinality(DOMAIN Counts(input, pad)) <= 1
    /\ pc' = "none"
    /\ UNCHANGED <<input, pad, order, options, st, phase, tries, salt, core,
                   current_values, result>>

(* The empty input (lines 210-211): build returns None. *)
BuildEmpty ==
    /\ pc = "build"
    /\ DOMAIN Counts(input, pad) = {}
    /\ pc' = "none"
    /\ UNCHANGED <<input, pad, order, options, st, phase, tries, salt, core,
                   current_values, result>>

(* One distinct value (lines 212-221): no phases, one response. *)
BuildSingle ==
    /\ pc = "build"
    /\ Cardinality(DOMAIN Counts(input, pad)) = 1
    /\ pc' = "done"
    /\ result' = [plan |-> 0,
                  response_map |-> <<<<0, CHOOSE v \in DOMAIN Counts(input, pad) : TRUE>>>>,
                  salt |-> <<>>, core |-> <<>>]
    /\ UNCHANGED <<input, pad, order, options, st, phase, tries, salt, core,
                   current_values>>

(* Two or more values (lines 223-313): formulate the plan, classify the  *)
(* values, stage the keys and enter the phase loop.                      *)
BuildPlan ==
    /\ pc = "build"
    /\ Cardinality(DOMAIN Counts(input, pad)) >= 2
    /\ LET counts == Counts(input, pad)
       IN st' = Staging(counts, formulate_plan(counts, order), input)
    /\ pc' = "phase"
    /\ phase' = 0
    /\ tries' = options.try_num
    /\ salt' = <<>>
    /\ core' = <<>>
    /\ current_values' = [k \in DOMAIN input |-> 0]
    /\ UNCHANGED <<input, pad, order, options, result>>

(* Mutant: the OMO keys are not given to the phases above phase_omo. *)
FilterNoOmoAbove(p, cv) ==
    (st.omo_offset .. st.phase_offsets_cur[p] - 1)
    \cup (IF p = st.phase_omo
          THEN {st.slot[k] : k \in {x \in DOMAIN input :
                                       st.is_omo[x] /\ cv[x] < st.lo_omo}}
          ELSE {})

(* The slots a phase's uniform build is given (lines 331-342). *)
Filter(p, cv) ==
    LET omoSlots == {st.slot[k] : k \in {x \in DOMAIN input : st.is_omo[x]}}
    IN (st.omo_offset .. st.phase_offsets_cur[p] - 1)
       \cup (IF p = st.phase_omo
             THEN {st.slot[k] : k \in {x \in DOMAIN input :
                                          st.is_omo[x] /\ cv[x] < st.lo_omo}}
             ELSE IF p > st.phase_omo THEN 0 .. st.omo_offset - 1
             ELSE {})

(* The keys the uniform build of phase p iterates over: FilteredVec's    *)
(* iterator (lines 616-643) yields the staged (key, hi) of each slot the   *)
(* filter selects.                                                         *)
PhaseCare(p, cv) == {k \in DOMAIN input : st.slot[k] \in Filter(p, cv)}

(* Mutant: the budget of a phase forgets what earlier phases used. *)
PhaseMaxTriesNoSub(t) == Min({options.max_tries, TryCap})

(* max_tries of a phase's BuildOptions (line 322).  The usize subtraction *)
(* wraps in a release build when tries > max_tries, which only a caller's *)
(* try_num above its max_tries brings about.                              *)
PhaseMaxTries(t) == Min({(options.max_tries - t) % UsizeWord, TryCap})

(* A debug build's overflow check on the subtraction of line 322: build   *)
(* panics instead of solving the phase.                                   *)
PhaseBudgetUnderflow ==
    /\ pc = "phase"
    /\ phase < st.nphases
    /\ tries > options.max_tries
    /\ pc' = "panic"
    /\ UNCHANGED <<input, pad, order, options, st, phase, tries, salt, core,
                   current_values, result>>

(* Whether the OMO keys are replayed through phase p (line 349). *)
ReplaysOmo(p) == st.min_phase_affecting_omo <= p /\ p < st.phase_omo

(* Mutant: the replayed answer is shifted one bit too far. *)
ReplayBitsShiftedUp(cv, ans, shift) == cv | Shl(ans, shift + 1)

(* An OMO key's accumulated locator after the replay of a phase with that *)
(* shift answered ans (line 352).                                         *)
ReplayBits(cv, ans, shift) == cv | Shl(ans, shift)

(* One phase solved (lines 316-354): the uniform build succeeds after    *)
(* try_num tries, the OMO keys are replayed through it if the phase is   *)
(* below phase_omo, and it is appended to core.                          *)
SolvePhase ==
    /\ pc = "phase"
    /\ phase < st.nphases
    /\ LET bits == st.phase_bits[phase + 1]
           shift == TrailingZeros(bits)
           nbits == CountOnes(bits)
           parent_key == IF phase = 0 THEN Seed ELSE core[phase].hash_key
           care == PhaseCare(phase, current_values)
       IN \E try_num \in 0 .. PhaseMaxTries(tries) - 1,
             out \in [{KeyOf(e) : e \in DOMAIN input} -> 0 .. 2^nbits - 1],
             nblocks \in NBlocks :
            /\ SubBuildCanSolve(care)
            /\ \A k \in care : out[KeyOf(k)] = BitField(st.target[k], shift, nbits)
            /\ tries' = tries + try_num
            /\ salt' = Append(salt, try_num % 2^SaltBits)
            /\ current_values' =
                 IF ReplaysOmo(phase)
                 THEN [k \in DOMAIN input |->
                         IF st.is_omo[k] THEN ReplayBits(current_values[k], out[KeyOf(k)], shift)
                         ELSE current_values[k]]
                 ELSE current_values
            /\ core' = Append(core, [hash_key |-> choose_key(parent_key, try_num),
                                     bits_per_value |-> nbits,
                                     nblocks |-> nblocks, out |-> out])
    /\ phase' = phase + 1
    /\ UNCHANGED <<input, pad, order, options, pc, st, result>>

(* The uniform build of a phase runs out of tries (line 345): build       *)
(* returns None and leaves options.try_num as it was.                     *)
PhaseFails ==
    /\ pc = "phase"
    /\ phase < st.nphases
    /\ pc' = "none"
    /\ UNCHANGED <<input, pad, order, options, st, phase, tries, salt, core,
                   current_values, result>>

(* Mutant: the stored salt keeps the first phase's byte, not the last. *)
FinishBuildSaltShifted ==
    /\ pc = "phase"
    /\ phase = st.nphases
    /\ options' = [options EXCEPT !.try_num = tries]
    /\ result' = [plan |-> st.plan, response_map |-> st.response_map,
                  salt |-> SubSeq(salt, 1, st.nphases - 1), core |-> core]
    /\ pc' = "done"
    /\ UNCHANGED <<input, pad, order, st, phase, tries, salt, core, current_values>>

(* After the last phase (lines 357-364). *)
FinishBuild ==
    /\ pc = "phase"
    /\ phase = st.nphases
    /\ options' = [options EXCEPT !.try_num = tries]
    /\ result' = [plan |-> st.plan, response_map |-> st.response_map,
                  salt |-> SubSeq(salt, 2, st.nphases), core |-> core]
    /\ pc' = "done"
    /\ UNCHANGED <<input, pad, order, st, phase, tries, salt, core, current_values>>

Init ==
    /\ input \in UNION {[D -> Vals] : D \in SUBSET Keys}
    /\ pad \in [Vals -> PadCounts]
    /\ order \in {s \in [1 .. Cardinality(DOMAIN Counts(input, pad)) -> DOMAIN Counts(input, pad)] :
                    \A i, j \in DOMAIN s : i # j => s[i] # s[j]}
    /\ options \in [try_num : TryNums, max_tries : {MaxTries}]
    /\ pc = "build"
    /\ st = <<>>
    /\ phase = 0
    /\ tries = 0
    /\ salt = <<>>
    /\ core = <<>>
    /\ current_values = <<>>
    /\ result = <<>>

Next ==
    \/ BuildEmpty
    \/ BuildSingle
    \/ BuildPlan
    \/ SolvePhase
    \/ PhaseFails
    \/ PhaseBudgetUnderflow
    \/ FinishBuild

Spec == Init /\ [][Next]_vars

-----------------------------------------------------------------------------
(* CompressedMap::bsearch (lines 367-375): the response if [low, high]   *)
(* lies within one response's interval, as <<v>>, and <<>> otherwise.    *)
bsearch(m, low, high) ==
    LET rm == m.response_map
        plow == Cardinality({i \in DOMAIN rm : rm[i][1] <= low}) - 1
    IN IF plow = Len(rm) - 1 \/ rm[plow + 2][1] > high
       THEN <<rm[plow + 1][2]>> ELSE <<>>

(* The descending loop of query (lines 399-411); <<>> is unreachable!.   *)
RECURSIVE QueryLoop(_, _, _, _, _, _)
QueryLoop(m, out, ph, plan, locator, known_mask) ==
    IF ph < 0 THEN <<>>
    ELSE LET h == high_bit(plan)
             next_plan == plan ^^ (2^h)
             loc == locator | Shl(out[ph], h)
             km == known_mask | WrapNeg(2^h)
             r == bsearch(m, loc, loc | Complement(km))
         IN IF ph + 2 = Len(m.core)
            THEN QueryLoop(m, out, ph - 1, next_plan, locator, known_mask)
            ELSE IF r # <<>> THEN r
            ELSE QueryLoop(m, out, ph - 1, next_plan, loc, km)

(* query (lines 377-414) of a key whose phase-ph uniform map answers     *)
(* out[ph]: the penultimate phase first, then the others top down.       *)
QueryAnswers(m, out) ==
    LET nphases == Len(m.core)
        plan == m.plan
        known_mask0 == (plan - 1) & Complement(plan)
        h1 == high_bit(plan)
        h2 == high_bit(plan ^^ (2^h1))
        locator2 == Shl(out[nphases - 2], h2)
        known_mask2 == known_mask0 | (2^h1 - 2^h2)
        r2 == bsearch(m, locator2, locator2 | Complement(known_mask2))
    IN IF plan = 0 THEN <<m.response_map[1][2]>>
       ELSE IF nphases >= 2
       THEN IF r2 # <<>> THEN r2
            ELSE QueryLoop(m, out, nphases - 1, plan, locator2, known_mask2)
       ELSE QueryLoop(m, out, nphases - 1, plan, 0, known_mask0)

(* The answers the phases of m give key k. *)
Answers(m, k) == [ph \in 0 .. Len(m.core) - 1 |-> m.core[ph + 1].out[k]]

query(m, k) == QueryAnswers(m, Answers(m, k))

-----------------------------------------------------------------------------
TypeOK ==
    /\ pc \in {"build", "phase", "done", "none", "panic"}
    /\ options \in [try_num : Nat, max_tries : Nat]
    /\ pc = "phase" => /\ tries \in Nat
                       \* line 322 never underflows for a try_num within max_tries
                       /\ options.try_num <= options.max_tries => tries <= options.max_tries
    /\ salt \in Seq(0 .. TryCap)
    /\ pc = "phase" => /\ phase \in 0 .. st.nphases
                       /\ Len(core) = phase
                       /\ current_values \in [DOMAIN input -> LocatorSet]
    /\ pc = "done" => result.plan \in LocatorSet

(* The entries of the input that have key k. *)
EntriesOf(k) == {e \in DOMAIN input : KeyOf(e) = k}

(* Round trip (spec section 8, property 1): a built map answers every     *)
(* input key with its value (for a Vec with a duplicate key that builds,  *)
(* the value of one of its entries), through the early exits of query, whatever   *)
(* the uniform maps answer the keys they were not given; and a key that    *)
(* no phase was given (any other key) still gets an answer instead of      *)
(* reaching unreachable!.  This rests on the staging, on the OMO keys'     *)
(* filter in phase_omo computed from their replayed bits, and on the       *)
(* known_mask bookkeeping of query.                                        *)
QueryCorrect ==
    pc = "done" =>
      /\ \A k \in DOMAIN input :
            query(result, KeyOf(k)) \in {<<input[e]>> : e \in EntriesOf(KeyOf(k))}
      /\ \A loc \in LocatorSet :
            QueryAnswers(result, [ph \in 0 .. Len(result.core) - 1 |->
                LET bits == st.phase_bits[ph + 1]
                IN BitField(loc, TrailingZeros(bits), CountOnes(bits))]) # <<>>

(* The stored salt rebuilds the hash key of every phase from the first  *)
(* one (what borrow_decode does, lines 589-592): salt[i] is the try      *)
(* number of phase i+1, stored in a byte.                                *)
SaltChainsHashKeys ==
    pc = "done" =>
      /\ Len(result.salt) = Max({1, Len(result.core)}) - 1
      /\ \A i \in 1 .. Len(result.salt) :
            result.core[i + 1].hash_key = choose_key(result.core[i].hash_key, result.salt[i])

(* Spec section 4.2: the normal keys of phase k are those whose value     *)
(* resolves in phase k.  The code (line 332) gives phase k the staged     *)
(* slots from omo_offset to the end of phase k's slice, which holds the   *)
(* keys of every phase up to k: a normal key in the filter of the phase   *)
(* about to be solved lies in that phase's own slice.                     *)
SpecStagingResolvingPhaseOnly ==
    pc = "phase" /\ phase < st.nphases =>
      LET sliceStart == IF phase = 0 THEN st.omo_offset
                        ELSE st.phase_offsets_cur[phase - 1]
      IN \A k \in DOMAIN input :
            k \in PhaseCare(phase, current_values) /\ ~st.is_omo[k]
               => st.slot[k] >= sliceStart

(* The doc comment of build (lines 187-189): given a non-map collection   *)
(* such as a Vec, any duplicate key makes the build fail, even when the    *)
(* duplicates carry the same value.  The build returns Some only for       *)
(* inputs whose entries have distinct keys.                                *)
VecDuplicateFails ==
    pc = "done" => \A e1, e2 \in DOMAIN input : KeyOf(e1) = KeyOf(e2) => e1 = e2

(* What the doc comment's failure rule protects: when two entries give     *)
(* one key different values, build never returns a map.  A normal value's *)
(* copy of the key is in the top phase's filter; the odd man out's copy    *)
(* is left out of every filter only if its bits replayed through the lower *)
(* phases reach lo_omo, and they are the normal copy's, which stay below.  *)
VecConflictNeverBuilds ==
    pc = "done" => \A e1, e2 \in DOMAIN input : KeyOf(e1) = KeyOf(e2) => input[e1] = input[e2]

(* Spec section 7: build never panics on valid inputs, and section 6      *)
(* lists try_num among the caller's options with no bound.  A try_num     *)
(* above max_tries makes options.max_tries - tries (line 322) underflow:  *)
(* a debug build panics in the first phase.                               *)
BuildNeverPanics == pc # "panic"

(* The static function the build implements: a map being built is        *)
(* "building", a build that returned Some is "built" and answers each     *)
(* tracked key through query, one that returned None is "none".           *)
Lookup == IF pc = "done" THEN [k \in DOMAIN input |-> query(result, KeyOf(k))] ELSE <<>>
AbsStatus == CASE pc \in {"build", "phase"} -> "building"
               [] pc = "done" -> "built"
               [] pc = "none" -> "none"
AbsPresent == DOMAIN Counts(input, pad)

Abstract == INSTANCE StaticFunction WITH
    present <- AbsPresent, status <- AbsStatus, lookup <- Lookup

(* build implements StaticFunction: it returns None for an empty *)
(* map, never gives up on a map with a single value (the early return of  *)
(* lines 212-221), and a returned map answers each input key correctly.   *)
StaticFunctionRefined == Abstract!Spec

=============================================================================
