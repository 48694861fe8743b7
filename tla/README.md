# TLA+ models of AET sampling in Xen

This directory models the part of the hypervisor that this repository adds to
Xen: sampling the reuse times of guest pages, from which `aet_tool/control/xc`
computes a miss-ratio curve. The rest of Xen is the environment.

## The system

| Component | State | Operations | What is hard about it |
|---|---|---|---|
| Tagging (`aet.c`, `vmx.c`, `multi.c`) | pending set `pds`/`set_num`, reserved bits in shadow L1 entries | `add_to_pending_page`, `set_pending_page` at every VM exit, `reverse_l1_aet_magic` at the fault | runs without the paging lock; a tagged entry hides its frame from the shadow code |
| Shadow tables (`multi.c`, `common.c`) | L1 entries, frame references, page-table frames, TLBs | propagate, prefetch, page-table writes, removal of write access or of all mappings, destruction | written for entries that only they change |
| Recorder (`aet.c`) | hash `hns_`, `aet_hist_`, counters | `track_aet_fault`, `add_to_aet_histogram`, `add_page_fault_count` | bounded buckets, unsigned corrections, counters shared without a lock |
| Compression (`aet.c`) | none | `domain_value_to_index` | loops over word-sized values |
| Counters (`xc_reserved_op.c`, `smp.c`) | `call_lock`, `call_data`, MSRs of CPU 1 | `pmu_mem_return`, `start_pmu`, `stop_pmu`, `on_selected_cpus`, `smp_call_function_interrupt` | several calls per sum, called with interrupts on and off; counters cleared while they are read |
| Guest | the instruction being retried | issue, fault, complete | faults and tags chase each other |
| Control (`set_aet_cmd`) | `open_`, `track_` | open, close, change the mode | two flags, no lock |
| `xc` (`myxc.c`) | shared memory, unlocked | print, reset, `aet_process` | runs concurrently with the handlers |

How they interact: a VM exit of domain 1 runs the hook, which tags the first
`CONSECUTIVE_SET_PAGE` entries of every queued table and empties the queue. The
next access to a tagged page faults on the reserved bits. `sh_page_fault` takes
the paging lock, reads the counter on CPU 1, records the reuse time of the frame,
queues the table again after a user-mode fault, zeroes the entry and propagates
it from the guest's.

What makes each part correct: shadow entries never map more than they hold
references for, page tables are never writable, the guest sees its own mappings;
the hash is a map and its counters agree with it; a counter read is a count the
processor had; every caller gets its answer; a retried instruction completes; the
log and the pending set stay in their arrays though no lock protects them; the
curve is a miss ratio and reads the histogram the way it was written.

## Modules

| Module | Models | State and actions |
|---|---|---|
| `AetHistogram` | `domain_value_to_index` | closed forms of its two loops, with words of `WORD_BITS` bits |
| `AetTracker` | the recorder | a variable per field of `struct AET_ctrl`; `MagicFault` is the AET block of `sh_page_fault` and splits into the ways `track_aet_fault` ends (`Reference`, `Insert`, `Conflict`, `Spin`); `reset` is `xc -r` |
| `ReuseRecorder` | what the recorder promises | a map from frames to last accesses, no buckets |
| `AetTrackerProofs`, `AetProcessProofs`, `AetShadowProofs`, `AetSharedProofs`, `AetRetryProofs`, `PmuCallProofs` | proofs about the module each is named after | inductive invariants and the lemmas they need |
| `AetWalkProofs` | the loop invariant of `aet_process` | what each piece of a round does to it |
| `SumTheorems` | lemmas on sums over functions | |
| `AetShadow` | tagging and the shadow code | the hook in steps, one test or update of an entry each; the fault handler and the other shadow operations under `lock` |
| `AetProcess` | `aet_process`, that is `xc -c` | extends `AetTracker` with an operator on its state: `aet_process(n)` is the sequence of states of the program's two loops, `Turn` one round of either |
| `AetShared` | the shared memory under concurrency | hook, fault handler, `SET_OPEN`, `SET_TRACK` and `xc -r`, with one step per load or store of a word that two of them use |
| `AetRetry` | progress of the guest | one L1 table, entries empty, mapped or tagged |
| `PmuCall` | calls to another processor | each processor's place in the call, the requests it has left (`Program`), the lock, the pending interrupt, the counters |
| `MCAetTracker`, `MCAetShadow`, `MCAetShared`, `MCAetRetry` | instances | the definitions their configurations need |

`PROJECT.json` maps each definition to its source lines.

Abstractions. In `AetShadow` the guest's L1 entries composed with the p2m are one
function `gl1`; an entry is a frame, a write bit and the tag. A tag puts the frame
number out of range, so `put_page_from_l1e` returns early (`Puttable`) and
`sh_rm_mappings_from_l1` does not recognise the frame. The hook's update of an
entry is not atomic: it writes back what it read or tags what is there now.
INVLPG in root mode does not reach translations of a guest's VPID; without VPIDs a
VM exit drops them all. Frames used as page tables hold tables of regions that are
not modelled. In `AetTracker` handlers are atomic.

`AetShared` is the same memory without that atomicity. It keeps the flags, the
pending set, the index of the log, and of the recorder the words that must agree
with one another; the hash is the set of its frames. What a fault does to the
recorder is one step, since the paging lock covers it against everything but
`xc -r`, whose overlap with a handler is remembered in `torn`. `page_fault_count`
is incremented before the lock, by a load (`CountLoad`) and a store (`CountStore`),
and loaded again to be saved with a frame (`TrackLoad`, `Save`); `overtaken` counts
the increments others store between a processor's load and its store, and `raced`
remembers one overtaken twice, or overlapping `xc -r`. How many entries the hook or a
fault logs is left open. The address of a pending element is left out.

`AetProcess` replaces the doubles of `aet_process` by integers: `sum` is counted in
units of the narrowest share of a bucket, `N` and `tot` in units that also absorb the
division by `n - m`. Rounding is therefore not modelled; `n`, `m`, `step` and `loc`
wrap at their widths. The memory stands still during the computation. In the program
it need not: `tot_ref_` is loaded once, `aet_hist_` in every round, and handlers may
add samples in between. Then `sum` can pass `N`, the case the code calls weird and
writes a 0 for. The properties of the curve are for a closed session or a stopped
domain.

In `PmuCall` an event selector is read and written in one request, since only dom0
does so; the global control, status and fixed counters are left out, as no value
read from them is used in sampling.

## Runs

Passing:

| Run | Checks | Instance |
|---|---|---|
| `tracker` | `TypeOK`, `HashWellFormed`, `NodeCountExact`, `FaultsAccounted`, `HistogramWithinReferences`, `SpinsOnlyOnWrap`, `CurveUndoesCompression`, `CurveIsMissRatio`, `ImplementsRecorder` | 6-bit words and 5-bit ints, three frames that collide in a bucket of two, 4 sampling faults; in each state the curve for `n` = 3, which the pages seen once exceed, and for `n` = 15, the largest int |
| `shadow` | `TypeOK`, `RefsCoverMappings`, `PageTablesReadOnly`, `PendingDistinct` | one processor with VPIDs, one table of two entries, two frames, one of which may leave and return; room for the table to be queued twice |
| `shadow_reuse` | `TranslationsCurrent` | two shadow pages for two regions of one entry each, no frame leaves, room for one pending page; frames, regions and tables are symmetric |
| `retry` | `TypeOK`, `InstructionsComplete` | two processors, at most one page of an instruction can be tagged |
| `shared` | `TypeOK`, `LogWithinArray`, `PendingSound`, `ModeWasAsked`, `CountersAgree`, `SavedCountNotAhead` | two processors, three VM exits, one operation of the tool on a session that is closed or open in either mode; room for two pending pages and one frame in the hash; modes L1 and page-fault counting |
| `pmu` | `TypeOK`, `CountWithinCall`, `StoppedMeansZero`, `CallLockReleased` | dom0, CPU 1 with another guest, and a processor with the sampled domain and its hook |

Failing, each a disagreement between the code and what it says of itself
(`findings` in `PROJECT.json` quotes the lines):

| Run | Property | What happens |
|---|---|---|
| `negative` | `NegativeDistanceDiscarded` | `mem_counter - mc_diff` wraps below zero: a huge distance is recorded, or the compression loop does not end |
| `shadow_revive` | `TranslationsCurrent` | a tagged mapping of a removed frame stays; it is untagged when write access to the returned frame is removed, and the guest can use it |
| `shadow_crash` | `OnlySpecialUseCrashes` | a sampling fault, or the destruction of a table with tags, leaks a writable reference, which crashes the domain at a later promotion |
| `shadow_race` | `RefsCoverMappings` | on two processors the hook restores an entry that was replaced meanwhile |
| `retry_two` | `InstructionsComplete` | a user instruction that needs two sampled pages never completes |
| `pmu_hook` | `CallLockReleased` | CPU 1 runs the sampled domain: its hook spins for `call_lock` with interrupts off, its holder waits for CPU 1 |

So `RefsCoverMappings` and `TranslationsCurrent` hold only within the limits of
their passing runs: one processor, and for the second no frame that leaves.

What the `shared` run shows, and its limits:

- `LogWithinArray`: with two processors `total_count` passes the tested limit by at
  most one, and by one more for each `xc -r` that runs meanwhile, because an increment
  loaded before the reset stores the old count again. `LogSlack` = 2 is what two
  processors and one reset need; the code's 10 leaves room for nine. With three or
  more processors such a stale increment can also be stored while two others append,
  again and again, so no fixed slack bounds the index for every schedule.
- `PendingSound` rests on the paging lock, so on a single sampled domain (the hook
  tests for domain 1). Hooks may set `set_num` to 0 between any two steps of an append;
  an append may then leave an element of an earlier round in the set, or be lost.
- `ModeWasAsked`: `track_` is stored before `open_`, so no one who sees a session open
  sees the mode of an earlier one. Closing is the exception: it stores `CLOSED`, the
  value of `L1_TRACK`, in `track_` while `open_` still says open, and for that moment a
  page-fault-count session looks like an L1 session. The property allows it.
- `CountersAgree` holds again after the first reset that overlaps no handler.
- `SavedCountNotAhead`: an increment that one other overtook stores the count that is
  there, so losing it lowers nothing. One that two others overtook takes the count
  back, and a frame saved before has a larger one: `page_fault_diff` wraps. A reset
  that overlaps an increment or a handler does the same. Both happen in the run, and
  both end with the first reset that overlaps no fault.

A second operation of the tool multiplies the states of this run by about six. What it
adds, a repair after an overlap, is in the proofs, which do not bound the operations.

`HistogramWithinReferences`, like all of the `tracker` run, is for resets that overlap
no fault. `xc -r` clears `aet_hist_` two stores before `tot_ref_`: a fault between the
two leaves a sample whose reference is gone, until the next reset.

`CurveIsMissRatio` covers an `n` below the references attributed to pages seen once:
`n - m` wraps, the points are far from the truth, yet between 0 and 1 and falling.
With `n = m` the program divides by zero, and without a reference (`tot_ref_` = 0) `N`
is zero and it writes NaN for every point; no curve is claimed then. Nor is one when `n`
is not an int (`Computable`): `T` is compared with `int loc`, which is negative past the
largest int and then converts to a huge unsigned value, so the walk stays in its bucket
and adds the bucket's share for every further distance. In the build `loc` gets there
in bucket 5889 of 50000.

Bounds. `TagBound` = 2 lets an entry be tagged, repaired and tagged again, or two
entries be tagged. Two entries are enough for prefetching next to a tagged one, two
frames for a remapping. `CONSECUTIVE_SET_PAGE` is 1 where tagged and never-tagged
entries should mix and 2 in `shadow_race` and `retry_two`. `FaultBound`, `TrackBound`
and `CountBound` cap counters. A counter of 19 lets the correction of 20 per fault wrap
after one fault. `INT_BITS` = 5, `MAX_PAGE_NUM` = 9 and `CacheSizes` = 24 let the walk
of `aet_process` pass several doublings of the bucket width and reach a bucket whose
last value an int does not hold. `ExitBound` and `ToolBound` of `AetShared` cap VM exits
of all processors and operations of the tool. `CHECK_DEADLOCK FALSE` is used where the
bounds, a crash of the domain or a spinning processor stop the model.

Fairness. `AetRetry`: the hypervisor finishes each exit (weak fairness of the hook and
the handler); an instruction that can complete, or fault on a page, again and again
eventually does (strong fairness), since exits for other reasons and of other processors
are not aimed at it. `PmuCall`: processors execute their code, and a pending interrupt
is taken if interrupts are enabled again and again (strong fairness); a pending
interrupt ends guest mode. Nothing is assumed of who wins a spin lock, so no property
says that a particular contender gets one.

## Proofs

Everything here is proved for every value of the constants, from the named
assumptions of the modules; each theorem is listed in `PROJECT.json` with the
property it states. A hypothesis beyond those is part of the theorem.

**Recorder** (`AetTrackerProofs`):

- `TypeCorrect`: `TypeOK` is inductive (`TypeStep`, one step per action).
- `HashIsAMap`: `HashWellFormed` needs `TypeOK`. `ProbePos` is the least position
  that holds the frame or nothing, so positions before it hold other frames
  (`StopProperties`), and storing there makes neither a hole nor a second node
  (`StoreKeepsWellFormed`).
- `NodesCounted`: `Store` adds a node to `Occupied` exactly when the frame was not
  found (`StoreOccupies`).
- `EveryFaultAccounted`: each action changes both sides of the equation alike.
- `SamplesWithinReferences`: a reference adds at most one sample
  (`SampleWithReference`), and one more sample makes the sum one larger
  (`SumIncrement` in `SumTheorems`).
- `SpinsOnlyAfterUnderflow`: in its last round the first loop of
  `domain_value_to_index` compares the value with the word `DOMAIN_SIZE` below the
  top (`LastRound`), so it exits on every smaller value (`SmallValuesTerminate`).
  Without an underflow the distance is at most the counter that was read, which
  `MemCounterAssumption` keeps that far from the top.
- `HashImplementsRecorder`: the refinement uses `HashWellFormed` (a frame is found
  if and only if it is recorded, `FoundIffRecorded`), `TypeOK` and a bound on the
  fault count. A conflict is a full bucket of `HASH_CONFLICT_NUM` other frames
  (`FullBucket`).

`SumTheorems` has the induction. The library's induction theorems take a predicate as
a parameter, which the provers cannot instantiate; `NatInd` states induction for a set
of numbers instead, from the well-foundedness of `<`. With it the recursive function
behind `SumFunction` is shown to exist on finite domains (`SumExists`), and two sums
are compared. `WordAssumption` says that 2^`WORD_BITS` is a positive number, because
the provers know nothing of powers.

**Curve** (`AetWalkProofs`, `AetProcessProofs`). `WalkInv` is the loop invariant of
`aet_process`, for every `n` below 2^(`INT_BITS` - 1) and at least one reference:

- `Placed`: bucket, `_dom`, `step` and `loc` of the walk fit together (`Bucketed`) and
  `T` lies in the bucket. `step` is the power of two that the bucket number gives, and
  `loc` the bucket's last value as an int. When that value does not fit, `T` does not
  leave the bucket any more, because `T` is an int (`BucketTest`).
- `Summed`: `sum` is the samples of the buckets passed, and of this one the share of each
  distance so far. A bucket of width `step` is visited at most `step` times and `step`
  divides `Scale`, so no bucket is added more than once (`BucketSummed`).
- `Falling`: the points written so far fall, and none is below the ratio of this moment.

`TurnKeeps` shows that each turn of the two loops keeps it. The recursive function that
`aet_process` is written with is shown to exist (`ProcessExists`, by `NatInd`), so that
all states of the computation have the invariant (`ProcessStates`). Then:

- `CurveAlwaysMissRatio`: the sum of part of the histogram is at most that of all of it
  (`SumMonotone`), and that is at most the references counted (`SamplesWithinReferences`),
  so the samples never exceed what is expected.
- `CurveAlwaysUndoes`: the walk is in bucket `dT` with `T` at most its last value and
  above the previous one. The two loops of `domain_value_to_index` stop at the least
  bucket with that property, and no value they reach wraps before it (`ReachedExact`,
  `IndexOf`).

They rest on two more assumptions. `WidthAssumption`: a word has room for `DOMAIN_SIZE`
beyond any int, as 64 bits have. `PowersOfTwo` gives the provers the doubling law of 2^k
for the exponents that occur; TLC evaluates it for the instance.

**Shadow tables** (`AetShadowProofs`). `ShapeInv` holds for any number of processors:
the types that races do not spoil, that a region has one table, that the pending set
is sound, and that each processor has the locals its place needs (`PlaceOK`).
`PendingStaysDistinct` follows from it. The rest assumes `Uniprocessor`, since the
`shadow_race` run refutes `RefsCoverMappings` on two. `UniInv` adds to the properties

- `SeenCurrent`: the entry `HookTag` writes back is the one that is there;
- `FaultingEntry`: the entry a fault is handled for is not writable, or is tagged
  until the AET block zeroes it. So setting it drops no writable reference
  (`SetEntryKeepsWritable`), and no flush is missing there;
- `CachedWritable`: a frame cached writable has a writable reference, so
  `sh_remove_write_access` does not return early and does flush. A walk that stops
  at zero references has found every writable entry (`ExcisedAll`), because references
  cover mappings;
- `Usable`: the part of `PageTablesReadOnly` about entries.

`ShadowTypeCorrect`, `RefsAlwaysCover` and `PageTablesStayReadOnly` follow.
`SetKeepsCovered` is the argument on references: a change of live entries takes
one for each new mapping and drops at most one for each old (`CardinalitySwap`).
`TranslationsStayCurrent` also assumes `Removable = {}`, without which the
`shadow_revive` run refutes it; its invariant is that tagged entries, too, hold the
guest's frame (`EntriesCurrent`).

**Shared memory** (`AetSharedProofs`). `SharedInv` adds to each property what a
processor or the tool has read and not used yet: what an append knows of the pending
set at each load (`PendingInv`), the fields a reset has passed (`CountersInv`), the
stores the tool has still to make (`FlagsInv`, `AskedInv`), and that the count a
processor has loaded for an increment is behind the current one by at most the
increments that overtook it (`FaultsInv`), so that its store does not lower the count
when at most one did (`CountStored`). From it come `SharedTypeCorrect`,
`PendingAlwaysSound`, `ModeAlwaysAsked`, `CountersAlwaysAgree` and
`SavedCountStaysBehind` for any number of processors. `LogStaysWithinArray` is for two
processors and fewer commands of the tool than `LogSlack`; for three the property does
not hold.

**Counters** (`PmuCallProofs`). `CallInv`: `call_data` belongs to the holder of
`call_lock`, and the target answers its request. `TodoInv`: a caller has a final part
of its function's requests left. `CountInv`: what it has added up by then, against the
counters now. They give `CallsTypeCorrect` and `ReadsWithinCall` for any number of
processors. `StoppedStaysZero` assumes that one processor at a time runs commands of
dom0: with two, a start and a stop interleave their requests and can leave a counter
running, which TLC finds on an instance with two such processors.

**Progress** (`AetRetryProofs`). `RetryTypeCorrect`: `TypeOK` with the fact that a
handled fault has a page of the table.

Only model-checked:

- `InstructionsComplete` and `CallLockReleased`: liveness under fairness is outside the
  provers' reach.
- The violated properties, which do not hold.

Every invariant and safety property of a passing run has its theorem.

## Not modelled

- Out-of-sync shadows, superpages, the fast fault path and emulation. `AetShadow` has
  guest page tables that are always in sync; out-of-sync tables add a per-vCPU table
  of snapshots and fixups, beside which the guest's entry and the shadow may differ by
  design, so `TranslationsCurrent` would need another meaning.
- In `shadow_set_l1e`, a new entry whose frame the domain does not own
  (`SHADOW_SET_ERROR`): the guest's entries of `AetShadow` name only frames it has.
- `aet_process` beside running handlers, see above.
- `set_aet_start` and the L4 mode, which nothing starts; the hot-set ring, called only
  from commented-out code; `stop_pmu_return` and `pmu_l3_return`, never called.
- The wait of `flush_area_mask` for other processors: `AetShadow` flushes in one step.
- What the debug registers do; the boot-time mapping of the shared memory; the 48-bit
  wrap of the counters; printing and plotting.

## Plan

1. Composition: sampling faults of `AetShadow` as the inputs of the recorder.
2. Proofs: which references two racing processors can still rely on in `AetShadow`.
3. Out-of-sync tables as a module of their own, with `sh_unsync`, `sh_resync` and the
   fixups.
