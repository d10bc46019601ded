# TLA+ models of the nonuniform compressed map

This directory models `src/src/nonuniform.rs` of frayed_cascade: `CompressedMap`,
a static function from keys to a small set of values built from several
uniform retrieval maps (`CompressedRandomMap`, in `uniform.rs`, not part of
the sources here).

## The system

### Components and their state

| Component | Code | State / data | Operations |
|---|---|---|---|
| Locator word | `type Locator = u32`, `high_bit`, `floor_power_of_2` (l. 30-49) | none (a 32-bit word, wrapping arithmetic) | helpers |
| Plan formulator | `formulate_plan` (l. 61-136) | pure: counts -> (plan, value_map, interval_vec, response_map) | one call |
| Phase orchestrator | `CompressedMap::build` (l. 198-365) | counts, plan, phase_bits, OMO data (`odd_man_out`, `lo_omo`, `phase_omo`, `min_phase_affecting_omo`), staged keys `values_by_phase` with offsets, the per-phase filter, `current_values` of the OMO keys, `tries`, `salt`, `core` | count; return None (empty) / one response (single value); formulate; stage; per phase: filter, sub-build, replay OMO keys, push; assemble |
| Query engine | `query`, `bsearch` (l. 367-414) | reads plan, response_map, core | query a key |
| Codec | `Encode` / `BorrowDecode` (l. 475-603), `write_to_file`, `read_from_file` (l. 439-472) | a byte stream | encode; decode and validate; reject trailing bytes |
| Uniform sub-builder (external) | `CompressedRandomMap::build`, `MapCore::query_hash`, `choose_key` | per phase: hash key, blocks | build with retries; query |

### How they interact

`build` counts the values (a fresh `HashMap`), calls `formulate_plan`, splits
the plan into phases (a set bit of the plan starts a phase; phase *k* owns the
bits up to the next set bit), classifies each value by the phase that resolves
it, or as the *odd man out* (OMO, the one width that is not a power of 2),
stages every key into one array partitioned as `[OMO keys | phase 0 | phase 1 | ...]`,
and then for each phase hands the uniform sub-builder the slice
`omo_offset..phase_offsets_cur[phase]` (every non-OMO key resolved at this
phase *or below*) plus OMO keys: in `phase_omo` only those whose replayed low
bits are still below `lo_omo`, above it all of them. Between
`min_phase_affecting_omo` and `phase_omo` each OMO key is queried on the
fresh phase and its bits are accumulated in `current_values`. Each phase's hash
key is derived from the previous one and the sub-builder's `try_num`; the
`try_num`s of phases 1.. are the stored salt.

`query` asks the penultimate phase first, then the others top-down, each time
bisecting the response map with the range of locators still possible; it stops
as soon as that range lies in one response.

### What is hard

There is no concurrency: a build is one sequential call, a built map is
immutable. What is hard is arithmetic and sequencing that tests with random
inputs rarely reach:

* the OMO path: the filter of `phase_omo` reads bits replayed from earlier
  sub-builds; keys left out of a phase get *arbitrary* bits there;
* the early exits of `query`, which must never claim unknown bits as known;
* wrap-around at `2^32` (widths summing exactly to `2^32`, the unchecked
  `total+(w-1)`), the u8 salt, the usize `max_tries - tries`;
* a sub-build failing part way through the build;
* the encoder's `leading_zeros+1`, lossy for a non-power-of-2 width;
* the `HashMap` iteration order, which the code does not control.

### What makes each component correct

* Plan: the response map tiles the locator space, strictly increasing, all
  widths powers of 2 aligned to their own size except one, which is last;
  each width within a factor 2 of the value's share (the compression bound);
  the result a function of the input (spec §8.10).
* Build + query: every input key is answered with its value (spec §8.1) for
  any answers the uniform maps give to keys they were not given; no key reaches
  `unreachable!`; tries within budget; the salt rebuilds every hash key.
* Codec: decode(encode(m)) = m; truncated or extended streams rejected.

## Modules

| Module | Models | State and actions |
|---|---|---|
| `Locator` | u32 word, l. 30-49 | constant `LocatorBits` (32 in the code); wrapping ops, `high_bit`, `floor_power_of_2` |
| `FormulatePlan` | `formulate_plan`, l. 61-136 | pure operators: `InitialItems`, `compare_fit`, `ExpandFrom`, `CanonicalLess`, `AssignFrom`, `PlanBit`, `formulate_plan(counts, order)`; `order` is the HashMap iteration order |
| `MCFormulatePlan` | - | the input (`counts`, `order`) and `result` chosen in `Init`; no steps |
| `NonuniformMap` | `build`, `query`, `bsearch`, l. 198-414 | variables `input` (tracked keys), `pad` (untracked keys per value), `order`, `options`, `pc`, `st` (the locals fixed before the loop), `phase`, `tries`, `salt`, `core`, `current_values`, `result`; actions `BuildEmpty`, `BuildSingle`, `BuildPlan`, `SolvePhase`, `PhaseFails`, `PhaseBudgetUnderflow` (debug panic at l. 322), `FinishBuild`; `Spec`; `query` as operators |
| `StaticFunction` | the promise of the doc comments (l. 138-197) | abstract: `Build`, `RejectEmpty`, `GiveUp` |
| `MCNonuniformMap` | - | model values for the keys; `MCTryNums`, a caller `try_num` up to `max_tries`+1; `MCKeyOf`, a second entry `k1b` of key `k1` |
| `Codec` | `Encode`, `BorrowDecode`, `read_from_file`'s check, l. 459-603 | pure operators `Encode(m)` (map -> stream), `Decode(s)` (stream -> map and units consumed, or the error of the first failing check, in the code's order), `read_from_file(s)` |
| `MapFile` | `write_to_file`, `read_from_file`, l. 439-472, composed with the build | `NonuniformMap` plus variables `file`, `fstate` (absent, intact, corrupt), `loaded`; actions `WriteToFile`, `ReadFromFile`, and the corruptions `Truncate`, `AppendByte`, `FlipMagic`, `ZeroNBlocks` (the environment, from spec sections 8 and 9) |
| `MCMapFile` | - | model values for the keys |

`NonuniformMap` instantiates `StaticFunction` with a refinement mapping
(`status` from `pc`, `lookup` from `query` on the tracked keys, `present` from
the counts) and checks `Abstract!Spec` as a property.

Abstractions:
* **Word size.** `LocatorBits` is 4 (build) or 6 (plan) instead of 32. Every
  operation is written for a general width; the plans that arise (several
  phases, OMO spanning two phases, OMO keys excluded at `phase_omo`, phases
  above `phase_omo`) all occur at 4 bits with the counts used.
* **Entries.** The input is a function from entries to values; `KeyOf(e)`
  is the key the uniform maps hash (`KeyOf(e) = e` for a map input). The
  Vec runs override `KeyOf` so that entry `k1b` is a second entry of key `k1`.
  The uniform sub-builder fails on a filter holding two entries of one key
  (`SubBuildCanSolve`, from the doc comment of l. 187-189).
* **Keys.** A key of the model is tracked (its answers are checked); `pad[v]`
  more keys of value `v` count in the plan and the staging only. Each key's
  answers in each phase are independent of every other key's, so one or two
  tracked keys per build cover every behaviour a key can have.
* **Uniform sub-builder** (not in these sources, modelled from its contract):
  it fails, or after `try_num < max_tries` tries returns a map that gives every
  filtered key bits `[shift, shift+nbits)` of its target and *any* `nbits`-bit
  answer to every other key, with hash key `choose_key(parent, try_num)`.
  `choose_key` is modelled as appending the try number to the parent chain:
  injective, as a hash is assumed to be.
* **Salt byte.** `SaltBits` (8 in the code) is 2, so the 255 of line 322 is 3.
* **Byte stream.** A stream is a sequence of units: one varint (a Vec length,
  the plan, an nblocks), one u8 log width, one encoded value, the 4-byte
  magic, the 16-byte hash key, one raw byte of salt or blocks.  A stream cut
  inside a unit fails exactly as one cut before it, so only unit boundaries
  are enumerated.  The blocks of a MapCore are `nblocks * BLOCKSIZE * bpv`
  units, each carrying that core's answers (so the decoded core answers as
  the built one iff its blocks were taken from the right place).
  `BLOCKSIZE` is 1 and `nblocks` is drawn from {2, 3} in the file run.
* **MapCore** records `hash_key`, `bits_per_value`, `nblocks` and the answers.
* The staging iterates the tracked keys first, then the untracked ones: one
  of the orders the input map may iterate in; slots only decide filter
  membership.

## Runs

| Run | Cfg | Expect | Checks |
|---|---|---|---|
| `formulate_plan` | `MCFormulatePlan.cfg` | pass | `TypeOK`, `ResponseMapTiles`, `WidthWithinFactorTwo` over all counts of up to 4 values, counts 1..6, every HashMap order, 6-bit locators (36 744 inputs) |
| `plan_determinism` | `MCFormulatePlan_determinism.cfg` | violation | `PlanDeterministic`: counts (1,1,1) give different response maps under different HashMap orders |
| `build_query` | `MCNonuniformMap.cfg` | pass | `TypeOK` (incl. tries within `max_tries`), `QueryCorrect`, `SaltChainsHashKeys`; 2 tracked keys, values {1,2,3}, pads {0,1,6}, `max_tries` 2, 4-bit locators (186 504 states, ~45 s) |
| `file_round_trip` | `MCMapFile.cfg` | pass | `ReadRoundTrip`, `CorruptFileRejected`: every built map (1 tracked key, pads {0,1,6}, values {1,2,3}, `max_tries` 2, nblocks {2,3}) written and read back is the same map; every truncation at any unit, an appended byte, a changed magic, a zeroed nblocks is refused (1.34 M states, ~50 s) |
| `fit_order_wording` | `MCFormulatePlan_fitorder.cfg` | violation | `SpecFitOrder`: the spec's order of doubling (over-represented first) is not the code's |
| `staging_wording` | `MCNonuniformMap_staging.cfg` | violation | `SpecStagingResolvingPhaseOnly`: the spec's normal keys of a phase (resolved in it) are not the code's (resolved at or below it) |
| `build_query_deep` | `MCNonuniformMap_deep.cfg` | pass | `QueryCorrect` at 5 bits with values {1,2,3,4} and pads {0,1,2,12}: plans of up to 4 phases with four values (367 k states, ~2 min 15 s) |
| `caller_try_num_panic` | `MCNonuniformMap_panic.cfg` | violation | `BuildNeverPanics`: a `try_num` of 2 with `max_tries` 1 makes l. 322 underflow, and a debug build panics in phase 0 |
| `build_caller_inputs` | `MCNonuniformMap_caller.cfg` | pass | `QueryCorrect`, `SaltChainsHashKeys`, `VecConflictNeverBuilds` for inputs beyond a map with `try_num` within `max_tries`: a Vec with entries `k1`, `k1b` of one key (`KeyOf <- MCKeyOf`) and a caller `try_num` in 0..`max_tries`+1 (`TryNums <- MCTryNums`, release wrap); values {1,2,3}, pads {0,1,6}, `max_tries` 1 (152 574 states). `VecConflictNeverBuilds` also holds at 5 bits with four values (1.47 M states, checked once) |
| `vec_duplicate_builds` | `MCNonuniformMap_vecdup.cfg` | violation | `VecDuplicateFails`: a Vec with one key twice builds |
| `build_refines` | `MCNonuniformMap_refinement.cfg` | pass | `StaticFunctionRefined`; 1 tracked key, pads {0,1,6}, `max_tries` 1 (5 932 states; the refinement check through INSTANCE is slow in TLC) |

Bounds: pads {0,1,6} give counts up to 7 per value, which is what it takes to
get an OMO at 4 bits (e.g. counts 7,1,1 give widths 12,2,2 and a plan with an
OMO spanning two phases). Every build step is a deterministic function of the
input except the uniform sub-builds, whose arbitrary answers are enumerated.
At 4 bits and three values the build run already reaches 3-phase plans and
an odd man out whose width meets three phases (replayed through two); it
never reaches 4 phases.  The deep run (5 bits, four values, pads {0,1,2,12})
adds 4-phase plans, where query's top-down loop runs past the penultimate
phase twice, and a fourth value in the canonical sort.
The file run draws nblocks from {2,3} so that block arrays of
different lengths follow each other in the stream.

Deadlock is not checked in the build runs: `build` is one call that returns
(`done` or `none`) or panics (`panic`), and the model stops there.

Fairness. None is assumed and no liveness is checked. `build` returns by
construction: the phase loop is a Rust `for` over the `nphases` phases fixed
before it starts, and each phase either solves its uniform problem or returns
None through the `?`, so no property could tell a correct loop from a
faulty one.

The caller's `try_num`. `tries` starts at `options.try_num` (l. 313) and
each phase gets `min(options.max_tries - tries, 255)` tries (l. 322). For a
`try_num` within `max_tries` this never underflows (`TypeOK`). For one above
it the model takes both outcomes of the build profile: `PhaseBudgetUnderflow`
is the debug overflow panic, and `PhaseMaxTries` computes the release
wrap-around modulo `UsizeWord`, after which every phase gets 255 tries.

## Findings

* **Nondeterministic plan** (`plan_determinism`). The fit sort (l. 104) is
  stable and its ties keep the iteration order of the `counts` HashMap, which
  is created with a fresh random `RandomState` in every build (l. 204). With
  counts (1,1,1) the first value in that order gets the doubled width, so two
  builds of the same input can produce different response maps and bytes,
  against spec §8 property 10. Queries stay correct.
* **Fit order** (`fit_order_wording`). Spec §4.1 step 4 says doubling is
  offered first to the most over-represented values; `compare_fit` (l. 93-104)
  sorts by ascending width/count, the least represented first.  With counts
  (1,3) at 5 bits the code gives widths 8 and 24, the spec's order 16 and 16.
  The code's order is the one that keeps every width within a factor 2 of
  its share (`WidthWithinFactorTwo`): the spec's wording is wrong.
* **Staging** (`staging_wording`). Spec §4.2 says the normal keys of phase k
  are those whose value resolves in phase k; the filter of l. 332 holds the
  keys of every phase at or below k.  The code is right: `query` reads the
  higher phases first, so every key needs exact high bits. Giving each phase
  only its own slice (checked once, with `Filter` changed that way, under
  `MCNonuniformMap.cfg`) breaks `QueryCorrect`: with widths 2 and 14 the
  phase-0 key of value 1 gets arbitrary bits in phase 1, which query reads
  first.
* **Caller try_num** (`caller_try_num_panic`). Spec §6 lists `try_num`
  among the caller's options with no bound and §7 says build never panics on
  valid inputs; a `try_num` above `max_tries` panics at l. 322 in a debug
  build, and in a release build makes every phase's budget 255 whatever
  `max_tries` says (§5's "a caller may bound retries via max_tries" then no
  longer holds). The maps built in release are still correct
  (`build_caller_inputs`).
* **Duplicate keys** (`vec_duplicate_builds`). The doc comment of `build`
  (l. 187-189) says any duplicate key of a non-map input makes the build
  fail, even with the same value. A Vec `[(k,1),(k,1)]` builds at once,
  because l. 212 returns before any uniform build. A duplicated key whose value is the
  odd man out can also build through the phase loop: with counts (3,1) at 4
  bits, both copies replay to bits at or above `lo_omo`, so the filter of
  `phase_omo` (l. 336) leaves both out and no uniform build sees them. What
  the rule protects still holds (`build_caller_inputs`): entries that give one key
  different values never build. A normal value's interval is aligned, so its
  `hi` has all ones below its phase, and the bits the odd man out's copy
  replays are at most that `hi`, below `lo_omo`. That copy therefore always
  meets the normal copy in the top filter.

The OMO replay (l. 348-353) only saves work: the OMO keys are not in the
filters of the phases they are replayed through, so their replayed bits are
arbitrary, and a key whose `current_values` is below `lo_omo` is simply put in
phase `phase_omo`.  Replaying too little (or not at all) only makes that
filter larger; what breaks `QueryCorrect` is an overestimate, e.g. the bits
OR-ed one position too high (the `ReplayBitsShiftedUp` mutant).

The codec round trip holds: the log width `leading_zeros+1` (l. 485) is exact
because the one width that is not a power of 2 is always last; the decoder's
`bits_per_value` (l. 571) agrees with the build's `phase_nbits`, top phase
included; the hash keys rechained from `salt` (l. 590) are the build's. `Decode` reports the
first check that fails in the code's order: per log width, its range and then
the `checked_add` of the running total (l. 530-543), and per phase, the
multiply and then the read of its blocks (l. 565-588).

## Not modelled

* OS I/O errors of `write_to_file`/`read_from_file` (they only return an
  error and change no state the model tracks).
* `Clone`, the derived `PartialEq`, `take_ownership`: copies of the same data;
  the model's map is a value.  `Index` delegates to `query`.
* The uniform sub-builder's internals (not in these sources). Its failure on
  duplicate keys is taken from the doc comment (l. 187-189); why it fails even
  for equal values (the linear system's duplicate rows) lies inside it.
* Decoding streams that no encoder wrote, other than the four corruptions:
  `Decode` accepts them as arbitrary maps, and nothing is promised of them.

## Plan

1. (done) `Locator`, `FormulatePlan` + `MCFormulatePlan`: the plan algorithm.
2. (done) `NonuniformMap`: build loop + query; `QueryCorrect`, salt chain, try
   budget; `StaticFunction` refinement.
3. (done) `Codec` + `MapFile`: encode/decode round trip through a file and
   rejection of corrupted files; violation runs for the §4.1 and §4.2 wording.
4. (done) A caller `try_num > max_tries`: debug panic and release wrap at
   l. 322 (`caller_try_num_panic`, `build_caller_inputs`).
5. (done) The 5-bit configuration with 4 values (`build_query_deep`).
6. (done) Vec inputs with a duplicate key (`build_caller_inputs`,
   `vec_duplicate_builds`).
