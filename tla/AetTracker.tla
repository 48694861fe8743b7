------------------------------ MODULE AetTracker ------------------------------
(***************************************************************************)
(* The reuse-time recorder of aet.c: the per-domain hash of last accesses  *)
(* (hns_), the histogram (aet_hist_) and the counters of struct AET_ctrl   *)
(* that the page-fault path maintains.                                     *)
(*                                                                         *)
(* MagicFault is the block of sh_page_fault (multi.c) that handles a fault *)
(* on a tagged entry.  The domain's paging lock serialises it, so it is    *)
(* one step here.  The lock does not cover the other domain's handlers,    *)
(* add_page_fault_count, or `xc -r' in dom0, which share counters without  *)
(* any lock: what is shown here holds as long as those do not overlap.     *)
(***************************************************************************)
EXTENDS AetHistogram, Functions

CONSTANTS
  Mfn,                \* machine frames that carry a tag; frame 0 is never one
  HASH, HASH_CONFLICT_NUM, MAX_PAGE_NUM, MAX_ARRAY_SIZE,
  MemCounter,         \* values pmu_mem_return can yield
  FaultBound,         \* bound on page_fault_count
  TrackBound          \* bound on tracked_aet_magic_count1

ASSUME MfnAssumption == Mfn \subseteq Nat \ {0}
ASSUME HashAssumption == /\ HASH \in Nat \ {0}
                         /\ HASH_CONFLICT_NUM \in Nat \ {0}
ASSUME SizeAssumption == /\ MAX_PAGE_NUM \in Nat \ {0}
                         /\ MAX_ARRAY_SIZE \in Nat
\* The sum of two 48-bit counters stays clear of the top of a 64-bit word.
ASSUME MemCounterAssumption ==
         /\ MemCounter \subseteq Word
         /\ \A c \in MemCounter : c + DOMAIN_SIZE <= 2^WORD_BITS
ASSUME BoundAssumption == FaultBound \in Nat /\ TrackBound \in Nat

MAX_DOM_NR == 2
Dom == 1 .. MAX_DOM_NR
Key == 0 .. (HASH - 1)
Pos == 0 .. (HASH_CONFLICT_NUM - 1)
Index == 0 .. (MAX_PAGE_NUM - 1)

\* The slack add_user_mode_fault_count keeps at the end of tvs.
LogSlack == 10
\* Memory references one shadow page fault is charged with.
FaultCost == 20

VARIABLES
  hns,                       \* last access per domain, key and probe position
  aet_hist, tot_ref, node_count,
  hash_conflict_num, page_fault_count,
  tracked_aet_magic_count1, user_mode_fault, total_count,
  hung                       \* domains whose handler is in an endless loop

vars == <<hns, aet_hist, tot_ref, node_count, hash_conflict_num,
          page_fault_count, tracked_aet_magic_count1, user_mode_fault,
          total_count, hung>>

hash_node == [mfn : Mfn \cup {0}, mem_counter : MemCounter \cup {0}, pf : Nat]
EmptyNode == [mfn |-> 0, mem_counter |-> 0, pf |-> 0]
EmptyTable == [d \in Dom |-> [k \in Key |-> [p \in Pos |-> EmptyNode]]]

TypeOK ==
  /\ hns \in [Dom -> [Key -> [Pos -> hash_node]]]
  /\ aet_hist \in [Dom -> [Index -> Nat]]
  /\ tot_ref \in [Dom -> Nat]
  /\ node_count \in [Dom -> Nat]
  /\ hash_conflict_num \in Nat
  /\ page_fault_count \in Nat
  /\ tracked_aet_magic_count1 \in Nat
  /\ user_mode_fault \in Nat
  /\ total_count \in Nat
  /\ hung \in SUBSET Dom

Init ==
  /\ hns = EmptyTable
  /\ aet_hist = [d \in Dom |-> [i \in Index |-> 0]]
  /\ tot_ref = [d \in Dom |-> 0]
  /\ node_count = [d \in Dom |-> 0]
  /\ hash_conflict_num = 0
  /\ page_fault_count = 0
  /\ tracked_aet_magic_count1 = 0
  /\ user_mode_fault = 0
  /\ total_count = 0
  /\ hung = {}

-----------------------------------------------------------------------------
\* Any shadow page fault of an open session, tagged entry or not.
add_page_fault_count ==
  /\ page_fault_count < FaultBound
  /\ page_fault_count' = page_fault_count + 1
  /\ UNCHANGED <<hns, aet_hist, tot_ref, node_count, hash_conflict_num,
                 tracked_aet_magic_count1, user_mode_fault, total_count, hung>>

\* Slots logged in tvs by n calls of add_user_mode_fault_count.
Logged(count, n) ==
  IF count + LogSlack < MAX_ARRAY_SIZE
  THEN Least({count + n, MAX_ARRAY_SIZE - LogSlack}) ELSE count

add_user_mode_fault_count(n) ==
  /\ user_mode_fault' = user_mode_fault + n
  /\ total_count' = Logged(total_count, n)

Bucket(d, mfn) == hns[d][mfn % HASH]

\* Positions at which the probe of mfn stops: its own node or an empty one.
ProbeStops(bucket, mfn) == {p \in Pos : bucket[p].mfn \in {mfn, 0}}
HasStop(d, mfn) == ProbeStops(Bucket(d, mfn), mfn) # {}
\* Variant: the probe goes on to the last stop.
ProbePosLast(d, mfn) ==
  LET stops == ProbeStops(Bucket(d, mfn), mfn)
  IN  CHOOSE p \in stops : \A q \in stops : q <= p

ProbePos(d, mfn) == Least(ProbeStops(Bucket(d, mfn), mfn))
LastAccess(d, mfn) == Bucket(d, mfn)[ProbePos(d, mfn)]
Found(d, mfn) == HasStop(d, mfn) /\ LastAccess(d, mfn).mfn = mfn

\* The correction for the references the shadow faults themselves made.
mc_diff(node) ==
  Unsigned(Unsigned(page_fault_count - node.pf) * FaultCost)

\* The counter that add_to_aet_histogram receives as new_mc.
Corrected(node, mem_counter) == Unsigned(mem_counter - mc_diff(node))

\* Whether add_to_aet_histogram gets as far as compressing the distance.
Compresses(old_mc, new_mc) == ~ (old_mc > new_mc)

add_to_aet_histogram(d, old_mc, new_mc) ==
  LET compressed_dis == domain_value_to_index(Unsigned(new_mc - old_mc))
  IN  IF Compresses(old_mc, new_mc) /\ compressed_dis < MAX_PAGE_NUM
      THEN aet_hist' = [aet_hist EXCEPT ![d][compressed_dis] = @ + 1]
      ELSE aet_hist' = aet_hist

\* The handler does not come back from add_to_aet_histogram.
Diverges(d, mfn, mem_counter) ==
  LET node == LastAccess(d, mfn)
      new_mc == Corrected(node, mem_counter)
  IN  /\ Compresses(node.mem_counter, new_mc)
      /\ ~ Terminates(Unsigned(new_mc - node.mem_counter))

Store(d, mfn, mem_counter) ==
  hns' = [hns EXCEPT ![d][mfn % HASH][ProbePos(d, mfn)] =
            [mfn |-> mfn, mem_counter |-> mem_counter, pf |-> page_fault_count]]

\* Variants: the outcome is not counted, or a conflict is counted down.
UncountedOutcome(d, refs, nodes, conflicts) ==
  /\ tracked_aet_magic_count1' = tracked_aet_magic_count1 + 1
  /\ UNCHANGED <<tot_ref, node_count, hash_conflict_num, page_fault_count, hung>>

ConflictsCountedDown(d, refs, nodes, conflicts) ==
  /\ hash_conflict_num' = hash_conflict_num - conflicts
  /\ tracked_aet_magic_count1' = tracked_aet_magic_count1 + 1
  /\ UNCHANGED <<tot_ref, node_count, page_fault_count, hung>>

\* How a call of track_aet_fault is counted.
CountedOutcome(d, refs, nodes, conflicts) ==
  /\ tot_ref' = [tot_ref EXCEPT ![d] = @ + refs]
  /\ node_count' = [node_count EXCEPT ![d] = @ + nodes]
  /\ hash_conflict_num' = hash_conflict_num + conflicts
  /\ tracked_aet_magic_count1' = tracked_aet_magic_count1 + 1
  /\ UNCHANGED <<page_fault_count, hung>>

\* A later access to a recorded frame.
Reference(d, mfn, mem_counter) ==
  LET node == LastAccess(d, mfn)
  IN  /\ Found(d, mfn)
      /\ ~ Diverges(d, mfn, mem_counter)
      /\ add_to_aet_histogram(d, node.mem_counter, Corrected(node, mem_counter))
      /\ add_user_mode_fault_count(IF mem_counter > node.mem_counter THEN 2 ELSE 1)
      /\ Store(d, mfn, mem_counter)
      /\ CountedOutcome(d, 1, 0, 0)

\* The first access to a frame whose bucket has room.
Insert(d, mfn, mem_counter) ==
  /\ HasStop(d, mfn)
  /\ ~ Found(d, mfn)
  /\ add_user_mode_fault_count(1)
  /\ Store(d, mfn, mem_counter)
  /\ CountedOutcome(d, 0, 1, 0)
  /\ UNCHANGED aet_hist

\* The bucket is full of other frames.
Conflict(d, mfn) ==
  /\ ~ HasStop(d, mfn)
  /\ add_user_mode_fault_count(1)
  /\ CountedOutcome(d, 0, 0, 1)
  /\ UNCHANGED <<hns, aet_hist>>

\* The compression loop never exits: the vCPU spins with the paging lock held,
\* after the first add_user_mode_fault_count and before anything else.
Spin(d, mfn, mem_counter) ==
  /\ Found(d, mfn)
  /\ Diverges(d, mfn, mem_counter)
  /\ add_user_mode_fault_count(1)
  /\ hung' = hung \cup {d}
  /\ UNCHANGED <<hns, aet_hist, tot_ref, node_count, hash_conflict_num,
                 page_fault_count, tracked_aet_magic_count1>>

\* sh_page_fault's handling of a fault on a tagged entry.
MagicFault(d, mfn, mem_counter) ==
  /\ d \notin hung
  /\ tracked_aet_magic_count1 < TrackBound
  /\ \/ Reference(d, mfn, mem_counter)
     \/ Insert(d, mfn, mem_counter)
     \/ Conflict(d, mfn)
     \/ Spin(d, mfn, mem_counter)

\* The counters `xc -r' clears.
ClearCounters ==
  /\ aet_hist' = [d \in Dom |-> [i \in Index |-> 0]]
  /\ tot_ref' = [d \in Dom |-> 0]
  /\ node_count' = [d \in Dom |-> 0]
  /\ hash_conflict_num' = 0
  /\ page_fault_count' = 0
  /\ tracked_aet_magic_count1' = 0
  /\ user_mode_fault' = 0
  /\ total_count' = 0

\* Variant: the hash is not cleared.
ResetWithoutHash == hung = {} /\ ClearCounters /\ UNCHANGED <<hns, hung>>

\* `xc -r' in dom0 while no fault is being handled.  It clears one field after
\* another; AetShared has the stores, and the faults between them.
reset == hung = {} /\ ClearCounters /\ hns' = EmptyTable /\ UNCHANGED hung

Next ==
  \/ add_page_fault_count
  \/ \E d \in Dom, mfn \in Mfn, mem_counter \in MemCounter :
       MagicFault(d, mfn, mem_counter)
  \/ reset

Spec == Init /\ [][Next]_vars

-----------------------------------------------------------------------------
Occupied(d) == {kp \in Key \X Pos : hns[d][kp[1]][kp[2]].mfn # 0}
Access(node) == [mem_counter |-> node.mem_counter, pf |-> node.pf]
Holds(bucket, mfn) == \E p \in Pos : bucket[p].mfn = mfn
Recorded(d) == {mfn \in Mfn : Holds(Bucket(d, mfn), mfn)}

BucketWellFormed(bucket, k) ==
  \A p \in Pos :
    bucket[p].mfn # 0 =>
      /\ bucket[p].mfn % HASH = k
      /\ \A q \in 0 .. (p - 1) : bucket[q].mfn \notin {0, bucket[p].mfn}

\* The hash is a map: a node sits in the bucket of its frame, a bucket fills
\* from position 0 without holes, and no frame has two nodes.  The probe of
\* track_aet_fault stops at the first empty node, so a hole or a second node
\* would split a frame's history.
HashWellFormed == \A d \in Dom, k \in Key : BucketWellFormed(hns[d][k], k)

\* node_count_, which aet_process multiplies into its estimate of the cold
\* misses, is the number of frames in the hash.
NodeCountExact == \A d \in Dom : node_count[d] = Cardinality(Occupied(d))

\* Every tagged fault is accounted for exactly once, in one of the three ways
\* track_aet_fault can end, across both domains.
FaultsAccounted ==
  tracked_aet_magic_count1 =
    node_count[1] + node_count[2] + tot_ref[1] + tot_ref[2] + hash_conflict_num

\* aet_process takes the samples of aet_hist_ out of tot_ref_: there are never
\* more samples than references, if `xc -r', which clears aet_hist_ before
\* tot_ref_, overlaps no fault.
HistogramWithinReferences ==
  \A d \in Dom : SumFunction(aet_hist[d]) <= tot_ref[d]

AbstractLast ==
  [d \in Dom |-> [mfn \in Recorded(d) |-> Access(LastAccess(d, mfn))]]

Recorder ==
  INSTANCE ReuseRecorder WITH
    Capacity <- HASH_CONFLICT_NUM,
    last <- AbstractLast, refs <- tot_ref, rejected <- hash_conflict_num

\* A frame can only be turned away by a bucket full of other frames, and a
\* frame that was recorded stays recorded: the hash implements the abstract
\* recorder, which knows no buckets.
ImplementsRecorder == Recorder!Spec

\* domain_value_to_index can only fail to return when the page-fault correction
\* exceeds the counter itself, so that mem_counter - mc_diff wraps below zero.
SpinsOnlyOnWrap ==
  [][\A d \in Dom, mfn \in Mfn, mem_counter \in MemCounter :
       Spin(d, mfn, mem_counter) => mem_counter < mc_diff(LastAccess(d, mfn))]_vars

\* A sample whose corrected counter lies below the recorded one is discarded,
\* as the warning in add_to_aet_histogram says.
NegativeDistanceDiscarded ==
  [][\A d \in Dom, mfn \in Mfn, mem_counter \in MemCounter :
       /\ MagicFault(d, mfn, mem_counter)
       /\ Found(d, mfn)
       /\ mem_counter - FaultCost * (page_fault_count - LastAccess(d, mfn).pf)
            < LastAccess(d, mfn).mem_counter
       => aet_hist' = aet_hist /\ hung' = hung]_vars
=============================================================================
