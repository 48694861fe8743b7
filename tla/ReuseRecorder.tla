---------------------------- MODULE ReuseRecorder ----------------------------
(***************************************************************************)
(* What the recorder of aet.c promises its callers, without hash buckets:  *)
(* per domain a finite map from frames to their last recorded access.  A   *)
(* frame enters the map once, is updated by every later access and leaves  *)
(* it only when everything is forgotten; a new frame may be turned away,   *)
(* but not before Capacity other frames are in the map.                    *)
(***************************************************************************)
EXTENDS Integers

CONSTANTS Dom, Mfn, MemCounter, FaultBound, Capacity

VARIABLES last, refs, rejected

Access == [mem_counter : MemCounter, pf : 0 .. FaultBound]

Init ==
  /\ last = [d \in Dom |-> [mfn \in {} |-> [mem_counter |-> 0, pf |-> 0]]]
  /\ refs = [d \in Dom |-> 0]
  /\ rejected = 0

\* The last access to mfn is recorded, every other frame keeps its own.
Touch(d, mfn) ==
  \E access \in Access :
    last' = [last EXCEPT ![d] =
               [m \in DOMAIN last[d] \cup {mfn} |->
                  IF m = mfn THEN access ELSE last[d][m]]]

\* The first access to a frame.
Remember(d, mfn) ==
  /\ mfn \notin DOMAIN last[d]
  /\ Touch(d, mfn)
  /\ UNCHANGED <<refs, rejected>>

\* A later access to a frame.
Again(d, mfn) ==
  /\ mfn \in DOMAIN last[d]
  /\ Touch(d, mfn)
  /\ refs' = [refs EXCEPT ![d] = @ + 1]
  /\ UNCHANGED rejected

\* A new frame for which there is no room.
Reject(d, mfn) ==
  /\ mfn \notin DOMAIN last[d]
  /\ \E full \in [1 .. Capacity -> DOMAIN last[d]] :
       \A i, j \in 1 .. Capacity : full[i] = full[j] => i = j
  /\ rejected' = rejected + 1
  /\ UNCHANGED <<last, refs>>

Forget ==
  /\ last' = [d \in Dom |-> [mfn \in {} |-> [mem_counter |-> 0, pf |-> 0]]]
  /\ refs' = [d \in Dom |-> 0]
  /\ rejected' = 0

Next ==
  \/ \E d \in Dom, mfn \in Mfn :
       Remember(d, mfn) \/ Again(d, mfn) \/ Reject(d, mfn)
  \/ Forget

Spec == Init /\ [][Next]_<<last, refs, rejected>>
=============================================================================
