---------------------------- MODULE AetSharedProofs ----------------------------
(***************************************************************************)
(* The invariants of AetShared, for every number of processors, pages,     *)
(* frames and commands; the log's for two processors.  SharedInv is        *)
(* inductive: to each property it adds what a processor, or the tool, has  *)
(* read and not yet used.                                                  *)
(***************************************************************************)
EXTENDS AetShared, TLAPS, FiniteSetTheorems

\* The words and the locals of the handlers.  A processor has a place to return
\* to exactly while it is in the log; whoever is in the part of the fault
\* handler under the lock is its one holder.
LocalOK ==
  /\ pc \in [Cpu -> {"guest", "exit"} \cup HookPlace \cup CountPlace \cup LogPlace
                     \cup LockPlace]
  /\ ret \in [Cpu -> {"guest", "page", "track", "user", "magic"}]
  /\ reg \in [Cpu -> Nat \cup Table] /\ j \in [Cpu -> Nat]
  /\ total_count \in Nat /\ set_num \in Nat
  /\ holder \subseteq Cpu /\ \A c, d \in holder : c = d
  /\ \A c \in Cpu :
       /\ pc[c] \in LogPlace <=> ret[c] # "guest"
       /\ InHandler(c) => c \in holder
       /\ pc[c] \in {"count_store", "note", "bump", "num_store"} => reg[c] \in Nat
       /\ pc[c] \in {"room", "fill"} => reg[c] \in Table

\* The words the lock covers, and the pending set.
RecorderOK ==
  /\ tracked_aet_magic_count1 \in Nat /\ hash_conflict_num \in Nat
  /\ node_count \in Nat /\ tot_ref \in Nat /\ hns \subseteq Mfn
  /\ pds \in [0 .. (MAX_PENDING_PAGE - 1) -> Table \cup {NoTable}]
  /\ exits \in 0 .. ExitBound
  /\ page_fault_count \in Nat /\ pf \in [Mfn -> Nat]
  /\ overtaken \in [Cpu -> Nat]
  /\ torn \in BOOLEAN /\ raced \in BOOLEAN

\* The flags, what the tool is doing, and the modes asked for.
CommandOK ==
  /\ open_ \in {CLOSED, OPEN} /\ track_ \in Track
  /\ asked \in [Cpu -> SUBSET (Track \cup {NoMode})]
  /\ tool \in ToolState /\ ops \in Nat
  /\ session \in Modes \cup {NoMode} /\ before \in Modes \cup {NoMode}

\* No two of the elements 0 .. n of the pending set are one page.
Distinct(n) == \A i, k \in 0 .. n : pds[i] = pds[k] => i = k

\* What add_to_pending_page knows at each of its loads of set_num.  A hook that
\* runs meanwhile only lowers set_num.
PendingInv ==
  /\ set_num <= MAX_PENDING_PAGE /\ Distinct(set_num - 1)
  /\ \A c \in Cpu :
       /\ pc[c] \in {"room", "fill"} =>
            \A i \in 0 .. (set_num - 1) : pds[i] # reg[c]
       /\ pc[c] \in {"fill", "num"} => set_num < MAX_PENDING_PAGE
       /\ pc[c] = "num" => Distinct(set_num)
       /\ pc[c] = "num_store" => reg[c] < MAX_PENDING_PAGE /\ Distinct(reg[c])

\* The two equations of CountersAgree.
Agree ==
  /\ node_count = Cardinality(hns)
  /\ tracked_aet_magic_count1 = node_count + tot_ref + hash_conflict_num

\* Either no reset is under way and the counters agree, or one is, no handler
\* runs under the lock, and the fields it has passed are clear.
CountersInv ==
  /\ IsFiniteSet(hns)
  /\ ~ torn /\ tool[1] # "reset" => Agree
  /\ ~ torn /\ tool[1] = "reset" =>
       /\ holder = {}
       /\ tool[2] > 2 => tracked_aet_magic_count1 = 0
       /\ tool[2] > 4 => hash_conflict_num = 0
       /\ tool[2] > 5 => hns = {}
       /\ tool[2] > 6 => node_count = 0

\* What is known of the count of faults unless an increment raced: whoever is to
\* store an increment has loaded at most the count, which is as far ahead as he
\* was overtaken; what is saved, or is to be saved, with a frame is at most the
\* count, except while `xc -r' has not yet cleared the hash.
FaultsInv ==
  ~ torn /\ ~ raced =>
    /\ \A c \in Cpu : pc[c] = "count_store" =>
         /\ tool[1] # "reset"
         /\ reg[c] <= page_fault_count
         /\ page_fault_count <= reg[c] + overtaken[c]
    /\ \A c \in Cpu : pc[c] = "note" => reg[c] <= page_fault_count
    /\ (tool[1] = "reset" => tool[2] > 5) =>
         \A mfn \in Mfn : pf[mfn] <= page_fault_count

\* The flags say that mode is in force.
InForce(mode) ==
  /\ mode = NoMode => open_ = CLOSED
  /\ mode # NoMode => open_ = OPEN /\ track_ = mode

\* The flags follow the tool: between two commands they are those of the session,
\* and during one they are those of the mode in force before it until a store.
FlagsInv ==
  /\ tool[1] \in {"idle", "reset"} => before = session /\ InForce(session)
  /\ tool[1] = "track" =>
       /\ InForce(before)
       /\ tool[2] = OPEN => session = tool[3] /\ session # NoMode
       /\ tool[2] = CLOSED => session = NoMode /\ tool[3] = CLOSED
  /\ tool[1] = "open" =>
       /\ tool[2] = OPEN => track_ = session /\ session # NoMode
       /\ tool[2] = CLOSED => track_ = CLOSED /\ session = NoMode
  /\ tool[1] = "track only" =>
       InForce(before) /\ before # NoMode /\ session = tool[2] /\ session # NoMode

\* A processor in the middle of a test of the mode will find a mode of asked,
\* also after the store the tool has still to make.
AskedInv ==
  \A c \in Cpu :
    /\ pc[c] \in {"hook_track", "user_track"} =>
         /\ track_ \in asked[c]
         /\ tool[1] = "track" => tool[3] \in asked[c]
         /\ tool[1] = "track only" => tool[2] \in asked[c]
    /\ pc[c] \in {"hook_num", "scan"} => L1_TRACK \in asked[c]

\* tvs has LogLimit entries that the test of the log lets be filled.
LogLimit == MAX_ARRAY_SIZE - LogSlack

\* Resets whose store to total_count is behind: each can be undone once by a
\* processor that loaded total_count before it.
Resets == IF tool[1] = "reset" /\ tool[2] = 1 THEN ops - 1 ELSE ops

\* Processor c has passed the test of the log.
Appending(c) == pc[c] \in {"append", "bump"}

\* How far total_count, and a copy of it, can be beyond the limit.  Two processors
\* in the log at once are both below it.
LogInv ==
  /\ Resets >= 0
  /\ total_count = 0 \/ total_count <= LogLimit + 1 + Resets
  /\ \A c \in Cpu :
       /\ pc[c] = "append" => total_count <= LogLimit + Resets
       /\ pc[c] = "bump" => reg[c] <= LogLimit + Resets
       /\ \A d \in Cpu \ {c} :
            /\ pc[c] = "append" /\ Appending(d) => total_count < LogLimit
            /\ pc[c] = "bump" /\ (Appending(d) \/ total_count < LogLimit) =>
                 reg[c] + 1 <= LogLimit + Resets

\* Every step keeps the handlers' words and places typed, and the lock exclusive.
LEMMA LocalStep ==
  ASSUME LocalOK, RecorderOK, [Next]_vars PROVE LocalOK'
<1>0. page_fault_count \in Nat
  BY Zenon DEF RecorderOK
<1> USE DEF LocalOK, HookPlace, CountPlace, LogPlace, LockPlace, InHandler, Step, Load,
            Call, Return, Forget, local, pending, counters
<1>1. ASSUME NEW c \in Cpu, Exit(c) PROVE LocalOK'
  BY <1>1 DEF Exit
<1>2. ASSUME NEW c \in Cpu, HookTest(c) PROVE LocalOK'
  BY <1>2 DEF HookTest, LoadOpen, LoadTrack
<1>3. ASSUME NEW c \in Cpu, HookBegin(c) PROVE LocalOK'
  BY <1>3 DEF HookBegin
<1>4. ASSUME NEW c \in Cpu, HookPage(c) PROVE LocalOK'
  BY <1>4 DEF HookPage
<1>5. ASSUME NEW c \in Cpu, HookTag(c) PROVE LocalOK'
  BY <1>5 DEF HookTag
<1>6. ASSUME NEW c \in Cpu, HookNext(c) PROVE LocalOK'
  BY <1>6 DEF HookNext
<1>7. ASSUME NEW c \in Cpu, HookLeave(c) PROVE LocalOK'
  BY <1>7 DEF HookLeave
<1>8. ASSUME NEW c \in Cpu, HookClear(c) PROVE LocalOK'
  BY <1>8 DEF HookClear
<1>9. ASSUME NEW c \in Cpu, LogTest(c) PROVE LocalOK'
  BY <1>9 DEF LogTest
<1>10. ASSUME NEW c \in Cpu, LogAppend(c) PROVE LocalOK'
  BY <1>10, Zenon DEF LogAppend
<1>11. ASSUME NEW c \in Cpu, LogBump(c) PROVE LocalOK'
  BY <1>11 DEF LogBump
<1>12. ASSUME NEW c \in Cpu, Lock(c) PROVE LocalOK'
  BY <1>12 DEF Lock
<1>13. ASSUME NEW c \in Cpu, NEW mfn \in Mfn, TrackFound(c, mfn) PROVE LocalOK'
  BY <1>13 DEF TrackFound, CountedOutcome, Save
<1>14. ASSUME NEW c \in Cpu, NEW mfn \in Mfn, TrackInsert(c, mfn) PROVE LocalOK'
  BY <1>14 DEF TrackInsert, CountedOutcome, Save
<1>15. ASSUME NEW c \in Cpu, NEW mfn \in Mfn, TrackConflict(c, mfn) PROVE LocalOK'
  BY <1>15 DEF TrackConflict, CountedOutcome
<1>16. ASSUME NEW c \in Cpu, RequestTest(c) PROVE LocalOK'
  BY <1>16 DEF RequestTest, LoadOpen, LoadTrack
<1>17. ASSUME NEW c \in Cpu, PassMagic(c) PROVE LocalOK'
  BY <1>17 DEF PassMagic
<1>18. ASSUME NEW c \in Cpu, NEW sl1mfn \in Table, Search(c, sl1mfn) PROVE LocalOK'
  BY <1>18 DEF Search
<1>19. ASSUME NEW c \in Cpu, Room(c) PROVE LocalOK'
  BY <1>19 DEF Room
<1>20. ASSUME NEW c \in Cpu, Fill(c) PROVE LocalOK'
  BY <1>20 DEF Fill
<1>21. ASSUME NEW c \in Cpu, NumLoad(c) PROVE LocalOK'
  BY <1>21 DEF NumLoad
<1>22. ASSUME NEW c \in Cpu, NumStore(c) PROVE LocalOK'
  BY <1>22 DEF NumStore
<1>23. ASSUME NEW c \in Cpu, LogMagic(c) PROVE LocalOK'
  BY <1>23 DEF LogMagic
<1>24. ASSUME NEW c \in Cpu, Unlock(c) PROVE LocalOK'
  BY <1>24 DEF Unlock
<1>25. ASSUME set_aet_cmd PROVE LocalOK'
  BY <1>25, Zenon DEF set_aet_cmd, Begin, Ask
<1>26. ASSUME set_aet_track_open PROVE LocalOK'
  BY <1>26, Zenon DEF set_aet_track_open, StoreFlag, Done
<1>27. ASSUME ResetBegin PROVE LocalOK'
  BY <1>27, Zenon DEF ResetBegin, Begin
<1>28. ASSUME reset PROVE LocalOK'
  BY <1>28, Zenon DEF reset, Cleared, Field
<1>29. ASSUME UNCHANGED vars PROVE LocalOK'
  BY <1>29, Zenon DEF vars, control, command
<1>30. ASSUME NEW c \in Cpu, Fault(c) PROVE LocalOK'
  BY <1>30 DEF Fault
<1>31. ASSUME NEW c \in Cpu, CountLoad(c) PROVE LocalOK'
  BY <1>0, <1>31 DEF CountLoad
<1>32. ASSUME NEW c \in Cpu, CountStore(c) PROVE LocalOK'
  BY <1>32 DEF CountStore
<1>33. ASSUME NEW c \in Cpu, TrackLoad(c) PROVE LocalOK'
  BY <1>0, <1>33 DEF TrackLoad
<1>34. QED
  BY <1>1, <1>2, <1>3, <1>4, <1>5, <1>6, <1>7, <1>8, <1>9, <1>10, <1>11, <1>12,
     <1>13, <1>14, <1>15, <1>16, <1>17, <1>18, <1>19, <1>20, <1>21, <1>22,
     <1>23, <1>24, <1>25, <1>26, <1>27, <1>28, <1>29, <1>30,
     <1>31, <1>32, <1>33, Zenon DEF Next, Tool, Handler

\* Every step keeps the recorder's words and the pending set typed; the store of
\* add_to_pending_page is under the lock, where its register holds a page.
LEMMA RecorderStep ==
  ASSUME LocalOK, RecorderOK, [Next]_vars PROVE RecorderOK'
<1> USE SharedAssumption DEF RecorderOK, pending, counters, recorder, nodes, local
<1>1. ASSUME NEW c \in Cpu, Exit(c) PROVE RecorderOK'
  BY <1>1 DEF Exit
<1>2. ASSUME NEW c \in Cpu, HookTest(c) PROVE RecorderOK'
  BY <1>2, Zenon DEF HookTest, LoadOpen, LoadTrack
<1>3. ASSUME NEW c \in Cpu, HookBegin(c) PROVE RecorderOK'
  BY <1>3, Zenon DEF HookBegin
<1>4. ASSUME NEW c \in Cpu, HookPage(c) PROVE RecorderOK'
  BY <1>4, Zenon DEF HookPage
<1>5. ASSUME NEW c \in Cpu, HookTag(c) PROVE RecorderOK'
  BY <1>5, Zenon DEF HookTag
<1>6. ASSUME NEW c \in Cpu, HookNext(c) PROVE RecorderOK'
  BY <1>6, Zenon DEF HookNext
<1>7. ASSUME NEW c \in Cpu, HookLeave(c) PROVE RecorderOK'
  BY <1>7, Zenon DEF HookLeave
<1>8. ASSUME NEW c \in Cpu, HookClear(c) PROVE RecorderOK'
  BY <1>8, Zenon DEF HookClear
<1>9. ASSUME NEW c \in Cpu, LogTest(c) PROVE RecorderOK'
  BY <1>9, Zenon DEF LogTest
<1>10. ASSUME NEW c \in Cpu, LogAppend(c) PROVE RecorderOK'
  BY <1>10, Zenon DEF LogAppend
<1>11. ASSUME NEW c \in Cpu, LogBump(c) PROVE RecorderOK'
  BY <1>11, Zenon DEF LogBump
<1>12. ASSUME NEW c \in Cpu, Lock(c) PROVE RecorderOK'
  BY <1>12, Zenon DEF Lock
<1>13. ASSUME NEW c \in Cpu, NEW mfn \in Mfn, TrackFound(c, mfn) PROVE RecorderOK'
  <2>1. reg[c] \in Nat
    BY <1>13, Zenon DEF LocalOK, TrackFound, Step, Call
  <2>2. QED
    BY <1>13, <2>1 DEF TrackFound, CountedOutcome, Save
<1>14. ASSUME NEW c \in Cpu, NEW mfn \in Mfn, TrackInsert(c, mfn) PROVE RecorderOK'
  <2>1. reg[c] \in Nat
    BY <1>14, Zenon DEF LocalOK, TrackInsert, Step
  <2>2. QED
    BY <1>14, <2>1 DEF TrackInsert, CountedOutcome, Save
<1>15. ASSUME NEW c \in Cpu, NEW mfn \in Mfn, TrackConflict(c, mfn) PROVE RecorderOK'
  BY <1>15 DEF TrackConflict, CountedOutcome
<1>16. ASSUME NEW c \in Cpu, RequestTest(c) PROVE RecorderOK'
  BY <1>16, Zenon DEF RequestTest, LoadOpen, LoadTrack
<1>17. ASSUME NEW c \in Cpu, PassMagic(c) PROVE RecorderOK'
  BY <1>17, Zenon DEF PassMagic
<1>18. ASSUME NEW c \in Cpu, NEW sl1mfn \in Table, Search(c, sl1mfn) PROVE RecorderOK'
  BY <1>18, Zenon DEF Search
<1>19. ASSUME NEW c \in Cpu, Room(c) PROVE RecorderOK'
  BY <1>19, Zenon DEF Room
<1>20. ASSUME NEW c \in Cpu, Fill(c) PROVE RecorderOK'
  BY <1>20, Zenon DEF Fill, LocalOK, Step
<1>21. ASSUME NEW c \in Cpu, NumLoad(c) PROVE RecorderOK'
  BY <1>21, Zenon DEF NumLoad
<1>22. ASSUME NEW c \in Cpu, NumStore(c) PROVE RecorderOK'
  BY <1>22, Zenon DEF NumStore
<1>23. ASSUME NEW c \in Cpu, LogMagic(c) PROVE RecorderOK'
  BY <1>23, Zenon DEF LogMagic
<1>24. ASSUME NEW c \in Cpu, Unlock(c) PROVE RecorderOK'
  BY <1>24, Zenon DEF Unlock
<1>25. ASSUME set_aet_cmd PROVE RecorderOK'
  BY <1>25, Zenon DEF set_aet_cmd, Begin, Ask
<1>26. ASSUME set_aet_track_open PROVE RecorderOK'
  BY <1>26, Zenon DEF set_aet_track_open, StoreFlag, Done
<1>27. ASSUME ResetBegin PROVE RecorderOK'
  BY <1>27, Zenon DEF ResetBegin, Begin
<1>28. ASSUME reset PROVE RecorderOK'
  BY <1>28, Zenon DEF reset, Cleared, Field
<1>29. ASSUME UNCHANGED vars PROVE RecorderOK'
  BY <1>29, Zenon DEF vars, control, command
<1>30. ASSUME NEW c \in Cpu, Fault(c) PROVE RecorderOK'
  BY <1>30, Zenon DEF Fault
<1>31. ASSUME NEW c \in Cpu, CountLoad(c) PROVE RecorderOK'
  BY <1>31 DEF CountLoad
<1>32. ASSUME NEW c \in Cpu, CountStore(c) PROVE RecorderOK'
  <2>1. reg[c] \in Nat
    BY <1>32, Zenon DEF LocalOK, CountStore, Step
  <2>2. ASSUME NEW d \in Cpu PROVE overtaken[d] + 1 \in Nat
    BY <2>2
  <2>3. overtaken' \in [Cpu -> Nat]
    <3>1. 0 \in Nat
      OBVIOUS
    <3>2. QED
      BY <1>32, <2>2, <3>1, Zenon DEF CountStore
  <2>4. reg[c] + 1 \in Nat
    BY <2>1
  <2>5. raced' \in BOOLEAN
    BY <1>32, Zenon DEF CountStore
  <2>6. QED
    BY <1>32, <2>3, <2>4, <2>5, Zenon DEF CountStore
<1>33. ASSUME NEW c \in Cpu, TrackLoad(c) PROVE RecorderOK'
  BY <1>33, Zenon DEF TrackLoad
<1>34. QED
  BY <1>1, <1>2, <1>3, <1>4, <1>5, <1>6, <1>7, <1>8, <1>9, <1>10, <1>11, <1>12,
     <1>13, <1>14, <1>15, <1>16, <1>17, <1>18, <1>19, <1>20, <1>21, <1>22,
     <1>23, <1>24, <1>25, <1>26, <1>27, <1>28, <1>29, <1>30,
     <1>31, <1>32, <1>33, Zenon DEF Next, Tool, Handler

\* What the tool is in the middle of, by its first component.
LEMMA ToolKinds ==
  ASSUME tool \in ToolState
  PROVE  /\ tool[1] = "idle" => tool = <<"idle">>
         /\ tool[1] = "track" => \/ tool = <<"track", CLOSED, CLOSED>>
                                 \/ \E mode \in Modes : tool = <<"track", OPEN, mode>>
         /\ tool[1] = "open" => tool = <<"open", CLOSED>> \/ tool = <<"open", OPEN>>
         /\ tool[1] = "track only" => \E mode \in Modes : tool = <<"track only", mode>>
         /\ tool[1] = "reset" => \E k \in 1 .. 7 : tool = <<"reset", k>>
         /\ tool[1] \in {"idle", "track", "open", "track only", "reset"}
<1>1. CASE tool = <<"idle">>
  BY <1>1, Zenon
<1>2. CASE tool = <<"track", CLOSED, CLOSED>>
  BY <1>2, Zenon
<1>3. CASE tool = <<"open", CLOSED>>
  BY <1>3, Zenon
<1>4. CASE tool = <<"open", OPEN>>
  BY <1>4, Zenon
<1>5. ASSUME NEW mode \in Modes, tool = <<"track", OPEN, mode>>
      PROVE  tool[1] = "track"
  BY <1>5, Zenon
<1>6. ASSUME NEW mode \in Modes, tool = <<"track only", mode>>
      PROVE  tool[1] = "track only"
  BY <1>6, Zenon
<1>7. ASSUME NEW k \in 1 .. 7, tool = <<"reset", k>> PROVE tool[1] = "reset"
  BY <1>7, Zenon
<1>8. \/ tool = <<"idle">> \/ tool = <<"track", CLOSED, CLOSED>>
      \/ tool = <<"open", CLOSED>> \/ tool = <<"open", OPEN>>
      \/ \E mode \in Modes : tool = <<"track", OPEN, mode>>
      \/ \E mode \in Modes : tool = <<"track only", mode>>
      \/ \E k \in 1 .. 7 : tool = <<"reset", k>>
  BY Zenon DEF ToolState
<1>9. QED
  <2>1. CASE \E mode \in Modes : tool = <<"track", OPEN, mode>>
    BY <2>1, <1>5, Zenon
  <2>2. CASE \E mode \in Modes : tool = <<"track only", mode>>
    BY <2>2, <1>6, Zenon
  <2>3. CASE \E k \in 1 .. 7 : tool = <<"reset", k>>
    BY <2>3, <1>7, Zenon
  <2>4. QED
    BY <1>1, <1>2, <1>3, <1>4, <1>8, <2>1, <2>2, <2>3, Zenon

\* The arguments of what the tool is in the middle of.
LEMMA ToolShape ==
  ASSUME tool \in ToolState
  PROVE  /\ tool[1] = "track" => \/ tool[2] = CLOSED /\ tool[3] = CLOSED
                                 \/ tool[2] = OPEN /\ tool[3] \in Modes
         /\ tool[1] = "open" => tool[2] \in {CLOSED, OPEN}
         /\ tool[1] = "track only" => tool[2] \in Modes
         /\ tool[1] = "reset" => tool[2] \in 1 .. 7
         /\ tool[1] \in {"idle", "track", "open", "track only", "reset"}
<1>1. ASSUME NEW mode \in Modes, tool = <<"track", OPEN, mode>>
      PROVE  tool[2] = OPEN /\ tool[3] \in Modes
  BY <1>1, Zenon
<1>2. ASSUME NEW mode \in Modes, tool = <<"track only", mode>>
      PROVE  tool[2] \in Modes
  BY <1>2, Zenon
<1>3. ASSUME NEW k \in 1 .. 7, tool = <<"reset", k>>
      PROVE  tool[2] \in 1 .. 7
  BY <1>3, Zenon
<1>4. ASSUME tool = <<"track", CLOSED, CLOSED>>
      PROVE  tool[2] = CLOSED /\ tool[3] = CLOSED
  BY <1>4, Zenon
<1>5. ASSUME tool = <<"open", CLOSED>> \/ tool = <<"open", OPEN>>
      PROVE  tool[2] \in {CLOSED, OPEN}
  BY <1>5
<1>6. QED
  BY <1>1, <1>2, <1>3, <1>4, <1>5, ToolKinds, Zenon

\* `xc -r' begins between two commands, with the first field.
LEMMA ResetBegins ==
  ASSUME ResetBegin
  PROVE  /\ tool[1] = "idle" /\ ops' = ops + 1
         /\ tool'[1] = "reset" /\ tool'[2] = 1
<1>1. tool = <<"idle">> /\ tool' = <<"reset", 1>> /\ ops' = ops + 1
  BY Zenon DEF ResetBegin, Begin
<1>2. QED
  BY <1>1, Zenon

\* `xc -r' goes from one field to the next, and ends with the seventh.
LEMMA ResetAdvances ==
  ASSUME reset, tool \in ToolState
  PROVE  \/ tool[2] = 7 /\ tool'[1] = "idle"
         \/ tool[2] < 7 /\ tool'[1] = "reset" /\ tool'[2] = tool[2] + 1
<1>1. tool[2] \in 1 .. 7
  BY ToolShape, Zenon DEF reset
<1>2. CASE tool[2] = 7
  <2>1. tool' = <<"idle">>
    BY <1>2, Zenon DEF reset, Field
  <2>2. QED
    BY <1>2, <2>1, Zenon
<1>3. CASE tool[2] < 7
  <2>1. tool' = <<"reset", tool[2] + 1>>
    BY <1>3 DEF reset, Field
  <2>2. QED
    BY <1>3, <2>1, Zenon
<1>4. QED
  BY <1>1, <1>2, <1>3

\* A command opens a session in a mode, closes the session, or changes the mode of
\* an open one.
LEMMA CommandBegins ==
  ASSUME set_aet_cmd
  PROVE  /\ tool[1] = "idle" /\ ops' = ops + 1
         /\ UNCHANGED control
         /\ \E mode \in Modes \cup {NoMode} :
              /\ Ask(mode)
              /\ \/ tool'[1] = "track" /\ tool'[2] = OPEN /\ tool'[3] = mode
                    /\ mode \in Modes
                 \/ /\ tool'[1] = "track" /\ tool'[2] = CLOSED /\ tool'[3] = CLOSED
                    /\ mode = NoMode
                 \/ tool'[1] = "track only" /\ tool'[2] = mode /\ mode \in Modes
                    /\ open_ = OPEN
<1>1. tool = <<"idle">> /\ ops' = ops + 1 /\ UNCHANGED control
  BY Zenon DEF set_aet_cmd, Begin
<1>2. tool[1] = "idle"
  BY <1>1, Zenon
<1>3. ASSUME NEW mode \in Modes, tool' = <<"track", OPEN, mode>>
      PROVE  tool'[1] = "track" /\ tool'[2] = OPEN /\ tool'[3] = mode
  BY <1>3, Zenon
<1>4. ASSUME tool' = <<"track", CLOSED, CLOSED>>
      PROVE  tool'[1] = "track" /\ tool'[2] = CLOSED /\ tool'[3] = CLOSED
  BY <1>4, Zenon
<1>5. ASSUME NEW mode \in Modes, tool' = <<"track only", mode>>
      PROVE  tool'[1] = "track only" /\ tool'[2] = mode
  BY <1>5, Zenon
<1>6. CASE \E mode \in Modes : Begin(<<"track", OPEN, mode>>) /\ Ask(mode)
  BY <1>1, <1>2, <1>3, <1>6, Zenon DEF Begin
<1>7. CASE Begin(<<"track", CLOSED, CLOSED>>) /\ Ask(NoMode)
  BY <1>1, <1>2, <1>4, <1>7, Zenon DEF Begin
<1>8. CASE \E mode \in Modes :
             open_ = OPEN /\ Begin(<<"track only", mode>>) /\ Ask(mode)
  BY <1>1, <1>2, <1>5, <1>8, Zenon DEF Begin
<1>9. QED
  BY <1>6, <1>7, <1>8, Zenon DEF set_aet_cmd

\* A store of a command, and what is left of the command after it.
LEMMA FlagStored ==
  ASSUME set_aet_track_open
  PROVE  \/ /\ tool[1] = "track" /\ track_' = tool[3] /\ UNCHANGED <<open_, before>>
            /\ tool'[1] = "open" /\ tool'[2] = tool[2]
         \/ /\ tool[1] = "open" /\ open_' = tool[2] /\ UNCHANGED track_
            /\ tool'[1] = "idle" /\ before' = session
         \/ /\ tool[1] = "track only" /\ track_' = tool[2] /\ UNCHANGED open_
            /\ tool'[1] = "idle" /\ before' = session
<1>1. CASE tool[1] = "track" /\ tool' = <<"open", tool[2]>>
  BY <1>1, Zenon DEF set_aet_track_open, StoreFlag, Done
<1>2. CASE tool[1] \in {"open", "track only"} /\ tool' = <<"idle">>
  BY <1>2, Zenon DEF set_aet_track_open, StoreFlag, Done
<1>3. QED
  BY <1>1, <1>2, Zenon DEF set_aet_track_open, StoreFlag, Done

\* Every step keeps the flags, the commands and the modes asked for typed.
LEMMA CommandStep ==
  ASSUME CommandOK, [Next]_vars PROVE CommandOK'
<1> USE ModesAssumption
    DEF CommandOK, CLOSED, OPEN, L1_TRACK, L4_TRACK, PAGE_FAULT_COUNT, Track,
        NoMode, Forget, control, command
<1>1. ASSUME NEW c \in Cpu, Exit(c) PROVE CommandOK'
  BY <1>1, Zenon DEF Exit
<1>2. ASSUME NEW c \in Cpu, HookTest(c) PROVE CommandOK'
  BY <1>2 DEF HookTest, LoadOpen, LoadTrack, Possible
<1>3. ASSUME NEW c \in Cpu, HookBegin(c) PROVE CommandOK'
  BY <1>3, Zenon DEF HookBegin
<1>4. ASSUME NEW c \in Cpu, HookPage(c) PROVE CommandOK'
  BY <1>4, Zenon DEF HookPage
<1>5. ASSUME NEW c \in Cpu, HookTag(c) PROVE CommandOK'
  BY <1>5, Zenon DEF HookTag
<1>6. ASSUME NEW c \in Cpu, HookNext(c) PROVE CommandOK'
  BY <1>6, Zenon DEF HookNext
<1>7. ASSUME NEW c \in Cpu, HookLeave(c) PROVE CommandOK'
  BY <1>7, Zenon DEF HookLeave
<1>8. ASSUME NEW c \in Cpu, HookClear(c) PROVE CommandOK'
  BY <1>8, Zenon DEF HookClear
<1>9. ASSUME NEW c \in Cpu, LogTest(c) PROVE CommandOK'
  BY <1>9, Zenon DEF LogTest
<1>10. ASSUME NEW c \in Cpu, LogAppend(c) PROVE CommandOK'
  BY <1>10, Zenon DEF LogAppend
<1>11. ASSUME NEW c \in Cpu, LogBump(c) PROVE CommandOK'
  BY <1>11, Zenon DEF LogBump
<1>12. ASSUME NEW c \in Cpu, Lock(c) PROVE CommandOK'
  BY <1>12, Zenon DEF Lock
<1>13. ASSUME NEW c \in Cpu, NEW mfn \in Mfn, TrackFound(c, mfn) PROVE CommandOK'
  BY <1>13, Zenon DEF TrackFound, CountedOutcome, Save
<1>14. ASSUME NEW c \in Cpu, NEW mfn \in Mfn, TrackInsert(c, mfn) PROVE CommandOK'
  BY <1>14, Zenon DEF TrackInsert, CountedOutcome, Save
<1>15. ASSUME NEW c \in Cpu, NEW mfn \in Mfn, TrackConflict(c, mfn) PROVE CommandOK'
  BY <1>15, Zenon DEF TrackConflict, CountedOutcome
<1>16. ASSUME NEW c \in Cpu, RequestTest(c) PROVE CommandOK'
  BY <1>16 DEF RequestTest, LoadOpen, LoadTrack, Possible
<1>17. ASSUME NEW c \in Cpu, PassMagic(c) PROVE CommandOK'
  BY <1>17, Zenon DEF PassMagic
<1>18. ASSUME NEW c \in Cpu, NEW sl1mfn \in Table, Search(c, sl1mfn) PROVE CommandOK'
  BY <1>18, Zenon DEF Search
<1>19. ASSUME NEW c \in Cpu, Room(c) PROVE CommandOK'
  BY <1>19, Zenon DEF Room
<1>20. ASSUME NEW c \in Cpu, Fill(c) PROVE CommandOK'
  BY <1>20, Zenon DEF Fill
<1>21. ASSUME NEW c \in Cpu, NumLoad(c) PROVE CommandOK'
  BY <1>21, Zenon DEF NumLoad
<1>22. ASSUME NEW c \in Cpu, NumStore(c) PROVE CommandOK'
  BY <1>22, Zenon DEF NumStore
<1>23. ASSUME NEW c \in Cpu, LogMagic(c) PROVE CommandOK'
  BY <1>23, Zenon DEF LogMagic
<1>24. ASSUME NEW c \in Cpu, Unlock(c) PROVE CommandOK'
  BY <1>24, Zenon DEF Unlock
<1>25. ASSUME set_aet_cmd PROVE CommandOK'
  <2>1. PICK mode \in Modes \cup {NoMode} : Ask(mode)
    BY <1>25, Zenon DEF set_aet_cmd
  <2>2. asked' \in [Cpu -> SUBSET (Track \cup {NoMode})]
    BY <2>1, Zenon DEF Ask
  <2>3. tool' \in ToolState
    <3>1. ASSUME NEW m \in Modes
          PROVE <<"track", OPEN, m>> \in ToolState /\ <<"track only", m>> \in ToolState
      BY Zenon DEF ToolState
    <3>2. <<"track", CLOSED, CLOSED>> \in ToolState
      BY Zenon DEF ToolState
    <3>3. QED
      BY <1>25, <3>1, <3>2, Zenon DEF set_aet_cmd, Begin
  <2>4. ops' = ops + 1
    BY <1>25, Zenon DEF set_aet_cmd, Begin
  <2>5. session' = mode /\ before' = session
    BY <2>1, Zenon DEF Ask
  <2>6. UNCHANGED control
    BY <1>25, Zenon DEF set_aet_cmd
  <2>7. QED
    BY <2>2, <2>3, <2>4, <2>5, <2>6
<1>26. ASSUME set_aet_track_open PROVE CommandOK'
  <2> USE DEF set_aet_track_open, StoreFlag, Done, ToolState
  <2>1. CASE tool[1] = "track"
    <3>1. CASE tool = <<"track", CLOSED, CLOSED>>
      BY <1>26, <3>1, Zenon
    <3>2. ASSUME NEW mode \in Modes, tool = <<"track", OPEN, mode>>
          PROVE  CommandOK'
      BY <1>26, <3>2, Zenon
    <3>3. QED
      BY <2>1, <3>1, <3>2, ToolKinds, Zenon
  <2>2. CASE tool[1] = "open"
    <3>1. CASE tool = <<"open", CLOSED>>
      BY <1>26, <3>1, Zenon
    <3>2. CASE tool = <<"open", OPEN>>
      BY <1>26, <3>2, Zenon
    <3>3. QED
      BY <2>2, <3>1, <3>2, ToolKinds, Zenon
  <2>3. ASSUME NEW mode \in Modes, tool = <<"track only", mode>>
        PROVE  CommandOK'
    BY <1>26, <2>3, Zenon
  <2>4. QED
    BY <1>26, <2>1, <2>2, <2>3, ToolKinds, Zenon
<1>27. ASSUME ResetBegin PROVE CommandOK'
  BY <1>27, SMTT(60) DEF ResetBegin, Begin, ToolState
<1>28. ASSUME reset PROVE CommandOK'
  <2>1. PICK k \in 1 .. 7 : tool = <<"reset", k>>
    BY <1>28, ToolKinds, Zenon DEF reset
  <2>2. tool' \in ToolState
    BY <1>28, <2>1 DEF reset, ToolState, Field
  <2>3. QED
    BY <1>28, <2>2, Zenon DEF reset
<1>29. ASSUME UNCHANGED vars PROVE CommandOK'
  BY <1>29, Zenon DEF vars, control, command
<1>30. ASSUME NEW c \in Cpu, Fault(c) PROVE CommandOK'
  BY <1>30, Zenon DEF Fault
<1>31. ASSUME NEW c \in Cpu, CountLoad(c) PROVE CommandOK'
  BY <1>31, Zenon DEF CountLoad
<1>32. ASSUME NEW c \in Cpu, CountStore(c) PROVE CommandOK'
  BY <1>32, Zenon DEF CountStore
<1>33. ASSUME NEW c \in Cpu, TrackLoad(c) PROVE CommandOK'
  BY <1>33, Zenon DEF TrackLoad
<1>34. QED
  BY <1>1, <1>2, <1>3, <1>4, <1>5, <1>6, <1>7, <1>8, <1>9, <1>10, <1>11, <1>12,
     <1>13, <1>14, <1>15, <1>16, <1>17, <1>18, <1>19, <1>20, <1>21, <1>22,
     <1>23, <1>24, <1>25, <1>26, <1>27, <1>28, <1>29, <1>30,
     <1>31, <1>32, <1>33, Zenon DEF Next, Tool, Handler

\* add_to_pending_page keeps the pending set sound at each of its four loads of
\* set_num, whatever the hooks of the other processors do between them.
LEMMA PendingStep ==
  ASSUME LocalOK, RecorderOK, PendingInv, [Next]_vars PROVE PendingInv'
<1> USE DEF LocalOK, HookPlace, CountPlace, LogPlace, LockPlace, InHandler, PendingInv, Distinct,
            Step, Load, Call, Return, local, pending
<1>0. MAX_PENDING_PAGE \in Nat
  BY SharedAssumption, Zenon
<1>1. ASSUME NEW c \in Cpu, HookClear(c) PROVE PendingInv'
  BY <1>1, <1>0, SMTT(60) DEF HookClear
<1>2. ASSUME NEW c \in Cpu, NEW sl1mfn \in Table, Search(c, sl1mfn) PROVE PendingInv'
  BY <1>2, <1>0, SMTT(60) DEF Search, RecorderOK
<1>3. ASSUME NEW c \in Cpu, Room(c) PROVE PendingInv'
  BY <1>3, <1>0, SMTT(60) DEF Room
<1>4. ASSUME NEW c \in Cpu, Fill(c) PROVE PendingInv'
  BY <1>4, <1>0, SMTT(60) DEF Fill, RecorderOK
<1>5. ASSUME NEW c \in Cpu, NumLoad(c) PROVE PendingInv'
  BY <1>5, <1>0, SMTT(60) DEF NumLoad
<1>6. ASSUME NEW c \in Cpu, NumStore(c) PROVE PendingInv'
  BY <1>6, <1>0, SMTT(60) DEF NumStore, RecorderOK
<1>7. ASSUME NEW c \in Cpu,
              \/ Exit(c) \/ HookTest(c) \/ HookBegin(c) \/ HookPage(c)
              \/ HookTag(c) \/ HookNext(c) \/ HookLeave(c) \/ LogTest(c)
      PROVE PendingInv'
  BY <1>7, SMTT(60) DEF Exit, HookTest, LoadOpen, LoadTrack, HookBegin,
     HookPage, HookTag, HookNext, HookLeave, LogTest
<1>8. ASSUME NEW c \in Cpu,
              \/ LogAppend(c) \/ LogBump(c) \/ Lock(c)
              \/ Fault(c) \/ CountLoad(c) \/ CountStore(c) \/ TrackLoad(c)
              \/ (\E mfn \in Mfn : TrackFound(c, mfn))
              \/ (\E mfn \in Mfn : TrackInsert(c, mfn))
              \/ (\E mfn \in Mfn : TrackConflict(c, mfn))
      PROVE PendingInv'
  BY <1>8, SMTT(60) DEF LogAppend, LogBump, Lock, Fault, CountLoad, CountStore,
     TrackLoad, TrackFound, CountedOutcome, TrackInsert, TrackConflict
<1>9. ASSUME NEW c \in Cpu,
              RequestTest(c) \/ PassMagic(c) \/ LogMagic(c) \/ Unlock(c)
      PROVE PendingInv'
  BY <1>9, SMTT(60) DEF RequestTest, LoadOpen, LoadTrack, PassMagic, LogMagic,
     Unlock
<1>10. ASSUME \/ set_aet_cmd \/ set_aet_track_open \/ ResetBegin \/ reset
              \/ UNCHANGED vars
       PROVE PendingInv'
  BY <1>10, ZenonT(60), Zenon DEF vars, set_aet_cmd, Begin, Ask,
     set_aet_track_open, StoreFlag, Done, ResetBegin, reset, Cleared, Field
<1>11. QED
  BY <1>1, <1>2, <1>3, <1>4, <1>5, <1>6, <1>7, <1>8, <1>9, <1>10, Zenon DEF
     Next, Tool, Handler


\* A handler under the lock and a reset exclude each other unless torn says so.
LEMMA HandlerExcludesReset ==
  ASSUME CountersInv, holder # {}, ~ torn PROVE tool[1] # "reset"
BY Zenon DEF CountersInv

\* The equations of CountersAgree survive an outcome of track_aet_fault: it is one
\* of a reference, a node and a conflict, and the hash grows by the node.
LEMMA OutcomeAgrees ==
  ASSUME RecorderOK, IsFiniteSet(hns), NEW c, NEW refs \in Nat, NEW added \in Nat,
         NEW conflicts \in Nat, refs + added + conflicts = 1,
         CountedOutcome(c, refs, added, conflicts),
         Cardinality(hns') = Cardinality(hns) + added
  PROVE  Agree => Agree'
<1>1. PICK m : m \in Nat /\ m = Cardinality(hns)
  BY FS_CardinalityType, Zenon
<1>2. /\ tot_ref' = tot_ref + refs /\ node_count' = node_count + added
      /\ hash_conflict_num' = hash_conflict_num + conflicts
      /\ tracked_aet_magic_count1' = tracked_aet_magic_count1 + 1
  BY Zenon DEF CountedOutcome
<1>3. /\ tot_ref \in Nat /\ node_count \in Nat /\ hash_conflict_num \in Nat
      /\ tracked_aet_magic_count1 \in Nat
  BY Zenon DEF RecorderOK
<1>4. Cardinality(hns') = m + added
  BY <1>1, Zenon
<1>5. QED
  BY <1>1, <1>2, <1>3, <1>4 DEF Agree

\* Every step keeps the counters in agreement, or keeps to the progress of a reset
\* that overlaps no handler.
LEMMA CountersStep ==
  ASSUME LocalOK, RecorderOK, CommandOK, CountersInv, [Next]_vars
  PROVE  CountersInv'
<1> USE DEF CountersInv, counters, recorder, nodes, command
<1>1. ASSUME NEW c \in Cpu, Lock(c) PROVE CountersInv'
  BY <1>1, Zenon DEF Lock, Agree
<1>2. ASSUME NEW c \in Cpu, NEW mfn \in Mfn, TrackFound(c, mfn) PROVE CountersInv'
  <2>1. holder # {}
    BY <1>2, Zenon DEF TrackFound, LocalOK, Step, Call, InHandler, LockPlace
  <2>2. ~ torn => tool[1] # "reset"
    BY <2>1, HandlerExcludesReset, Zenon
  <2>3. UNCHANGED <<torn, tool, holder>>
    BY <1>2, Zenon DEF TrackFound, CountedOutcome, Save
  <2>4. IsFiniteSet(hns') /\ Cardinality(hns') = Cardinality(hns) + 0
    BY <1>2, FS_CardinalityType DEF TrackFound
  <2>5. Agree => Agree'
    BY <1>2, <2>4, OutcomeAgrees DEF TrackFound
  <2>6. QED
    BY <2>1, <2>2, <2>3, <2>4, <2>5, Zenon
<1>3. ASSUME NEW c \in Cpu, NEW mfn \in Mfn, TrackInsert(c, mfn) PROVE CountersInv'
  <2>1. holder # {}
    BY <1>3, Zenon DEF TrackInsert, LocalOK, Step, Call, InHandler, LockPlace
  <2>2. ~ torn => tool[1] # "reset"
    BY <2>1, HandlerExcludesReset, Zenon
  <2>3. UNCHANGED <<torn, tool, holder>>
    BY <1>3, Zenon DEF TrackInsert, CountedOutcome, Save
  <2>4. IsFiniteSet(hns') /\ Cardinality(hns') = Cardinality(hns) + 1
    BY <1>3, FS_AddElement, Zenon DEF TrackInsert
  <2>5. Agree => Agree'
    BY <1>3, <2>4, OutcomeAgrees DEF TrackInsert
  <2>6. QED
    BY <2>1, <2>2, <2>3, <2>4, <2>5, Zenon
<1>4. ASSUME NEW c \in Cpu, NEW mfn \in Mfn, TrackConflict(c, mfn) PROVE CountersInv'
  <2>1. holder # {}
    BY <1>4, Zenon DEF TrackConflict, LocalOK, Step, Call, InHandler, LockPlace
  <2>2. ~ torn => tool[1] # "reset"
    BY <2>1, HandlerExcludesReset, Zenon
  <2>3. UNCHANGED <<torn, tool, holder>>
    BY <1>4, Zenon DEF TrackConflict, CountedOutcome
  <2>4. IsFiniteSet(hns') /\ Cardinality(hns') = Cardinality(hns) + 0
    BY <1>4, FS_CardinalityType DEF TrackConflict
  <2>5. Agree => Agree'
    BY <1>4, <2>4, OutcomeAgrees DEF TrackConflict
  <2>6. QED
    BY <2>1, <2>2, <2>3, <2>4, <2>5, Zenon
<1> USE DEF Agree
<1>5. ASSUME set_aet_cmd PROVE CountersInv'
  BY <1>5, CommandBegins, Zenon DEF set_aet_cmd
<1>6. ASSUME set_aet_track_open PROVE CountersInv'
  BY <1>6, FlagStored, Zenon DEF set_aet_track_open
<1>7. ASSUME ResetBegin PROVE CountersInv'
  <2>1. ~ torn' => holder = {}
    BY <1>7, Zenon DEF ResetBegin
  <2>2. UNCHANGED <<hns, holder>>
    BY <1>7, Zenon DEF ResetBegin
  <2>3. QED
    BY <1>7, <2>1, <2>2, ResetBegins, SMTT(60)
<1>8. ASSUME reset PROVE CountersInv'
  <2>1. tool[2] \in 1 .. 7 /\ tool[1] = "reset" /\ UNCHANGED <<torn, holder>>
    BY <1>8, ToolShape, Zenon DEF reset, CommandOK
  <2>2. IsFiniteSet(hns')
    BY <1>8, FS_EmptySet, Zenon DEF reset, Cleared
  <2>3. ASSUME ~ torn, tool[2] = 7 PROVE Agree'
    BY <1>8, <2>1, <2>3, FS_EmptySet, SMTT(60) DEF reset, Cleared, Field
  <2>4. ASSUME ~ torn, tool[2] < 7
        PROVE  /\ holder = {}
               /\ tool[2] + 1 > 2 => tracked_aet_magic_count1' = 0
               /\ tool[2] + 1 > 4 => hash_conflict_num' = 0
               /\ tool[2] + 1 > 5 => hns' = {}
               /\ tool[2] + 1 > 6 => node_count' = 0
    BY <1>8, <2>1, <2>4, SMTT(60) DEF reset, Cleared, Field
  <2>5. QED
    BY <1>8, <2>1, <2>2, <2>3, <2>4, ResetAdvances, Zenon DEF CommandOK
<1>9. ASSUME NEW c \in Cpu,
              \/ Exit(c) \/ HookTest(c) \/ HookBegin(c) \/ HookPage(c)
              \/ HookTag(c) \/ HookNext(c) \/ HookLeave(c) \/ HookClear(c)
              \/ LogTest(c) \/ LogAppend(c) \/ LogBump(c) \/ RequestTest(c)
              \/ PassMagic(c) \/ Room(c) \/ Fill(c) \/ NumLoad(c) \/ NumStore(c)
              \/ LogMagic(c) \/ Unlock(c)
              \/ Fault(c) \/ CountLoad(c) \/ CountStore(c) \/ TrackLoad(c)
              \/ (\E sl1mfn \in Table : Search(c, sl1mfn))
      PROVE CountersInv'
  BY <1>9, ZenonT(60), Zenon DEF Exit, HookTest, LoadOpen, LoadTrack,
     HookBegin, HookPage, HookTag, HookNext, HookLeave, HookClear, LogTest,
     LogAppend, LogBump, Fault, CountLoad, CountStore, TrackLoad, RequestTest,
     PassMagic, Search, Room, Fill, NumLoad, NumStore, LogMagic, Unlock
<1>10. ASSUME UNCHANGED vars PROVE CountersInv'
  BY <1>10, Zenon DEF vars
<1>11. QED
  BY <1>1, <1>2, <1>3, <1>4, <1>5, <1>6, <1>7, <1>8, <1>9, <1>10, Zenon DEF
     Next, Tool, Handler

\* A step that leaves the count and the saved ones alone keeps what is known of
\* them, if whoever is to store an increment or save a count stands where it did
\* and the tool neither begins nor ends a reset.
LEMMA FaultsUndisturbed ==
  ASSUME FaultsInv, UNCHANGED <<page_fault_count, pf, overtaken, raced>>,
         torn => torn',
         (tool'[1] = "reset") <=> (tool[1] = "reset"),
         tool[1] = "reset" => tool'[2] = tool[2],
         \A c \in Cpu : pc'[c] \in {"count_store", "note"} =>
                         pc'[c] = pc[c] /\ reg'[c] = reg[c]
  PROVE  FaultsInv'
BY Zenon DEF FaultsInv

\* An increment of page_fault_count that fewer than two others overtook raises it
\* or stores it again.
LEMMA CountStored ==
  ASSUME LocalOK, RecorderOK, FaultsInv, NEW c \in Cpu, CountStore(c)
  PROVE  FaultsInv'
<1> SUFFICES ASSUME ~ torn', ~ raced' PROVE FaultsInv'
  BY Zenon DEF FaultsInv
<1>1. /\ ~ torn /\ ~ raced /\ ~ (overtaken[c] >= 2)
      /\ pc[c] = "count_store" /\ page_fault_count' = reg[c] + 1
      /\ UNCHANGED <<tool, pf>>
  BY Zenon DEF CountStore, Step, command, nodes
<1>2. /\ reg[c] \in Nat /\ overtaken[c] \in Nat /\ page_fault_count \in Nat
      /\ reg[c] <= page_fault_count /\ page_fault_count <= reg[c] + overtaken[c]
      /\ tool[1] # "reset"
  BY <1>1, Zenon DEF LocalOK, RecorderOK, FaultsInv
<1>3. /\ page_fault_count' \in Nat /\ page_fault_count <= page_fault_count'
      /\ page_fault_count' <= page_fault_count + 1
  BY <1>1, <1>2
<1>4. ASSUME NEW d \in Cpu, pc'[d] \in {"count_store", "note"}
      PROVE  d # c /\ pc[d] = pc'[d] /\ reg'[d] = reg[d]
  BY <1>4, Zenon DEF CountStore, Step, Load, LocalOK
<1>5. ASSUME NEW d \in Cpu, pc'[d] = "count_store"
      PROVE  reg'[d] <= page_fault_count' /\ page_fault_count' <= reg'[d] + overtaken'[d]
  <2>1. d # c /\ pc[d] = "count_store" /\ reg'[d] = reg[d]
    BY <1>4, <1>5, Zenon
  <2>2. overtaken'[d] = overtaken[d] + 1
    BY <2>1, Zenon DEF CountStore
  <2>3. /\ reg[d] \in Nat /\ overtaken[d] \in Nat
        /\ reg[d] <= page_fault_count /\ page_fault_count <= reg[d] + overtaken[d]
    BY <1>1, <2>1, Zenon DEF LocalOK, RecorderOK, FaultsInv
  <2>4. QED
    BY <1>2, <1>3, <2>1, <2>2, <2>3
<1>6. ASSUME NEW d \in Cpu, pc'[d] = "note" PROVE reg'[d] <= page_fault_count'
  <2>1. reg'[d] = reg[d] /\ reg[d] \in Nat /\ reg[d] <= page_fault_count
    BY <1>1, <1>4, <1>6, Zenon DEF LocalOK, FaultsInv
  <2>2. QED
    BY <1>2, <1>3, <2>1
<1>7. ASSUME NEW mfn \in Mfn PROVE pf'[mfn] <= page_fault_count'
  <2>1. pf'[mfn] = pf[mfn] /\ pf[mfn] \in Nat /\ pf[mfn] <= page_fault_count
    BY <1>1, <1>2, Zenon DEF RecorderOK, FaultsInv
  <2>2. QED
    BY <1>2, <1>3, <2>1
<1>8. QED
  BY <1>1, <1>2, <1>5, <1>6, <1>7, Zenon DEF FaultsInv

\* A frame is saved with a count loaded under the lock, which no reset overlaps.
LEMMA CountSaved ==
  ASSUME LocalOK, RecorderOK, CountersInv, FaultsInv, NEW c \in Cpu, NEW mfn \in Mfn,
         pc[c] = "note", Save(c, mfn), UNCHANGED <<page_fault_count, overtaken, raced, torn, tool>>,
         \A d \in Cpu : pc'[d] \in {"count_store", "note"} =>
                         pc'[d] = pc[d] /\ reg'[d] = reg[d]
  PROVE  FaultsInv'
<1> SUFFICES ASSUME ~ torn, ~ raced
             PROVE \A m \in Mfn : pf'[m] <= page_fault_count'
  BY Zenon DEF FaultsInv
<1>1. tool[1] # "reset"
  BY Zenon DEF LocalOK, InHandler, LockPlace, CountersInv
<1>2. reg[c] <= page_fault_count /\ \A m \in Mfn : pf[m] <= page_fault_count
  BY <1>1, Zenon DEF FaultsInv
<1>3. QED
  BY <1>2, Zenon DEF Save, RecorderOK

\* Every step keeps the saved counts at or below the count, or keeps to the
\* progress of a reset that overlaps no fault.
LEMMA FaultsStep ==
  ASSUME LocalOK, RecorderOK, CommandOK, CountersInv, FaultsInv, [Next]_vars
  PROVE  FaultsInv'
<1> USE DEF counters, recorder, nodes, command
<1>1. ASSUME NEW c \in Cpu, CountLoad(c) PROVE FaultsInv'
  <2> SUFFICES ASSUME ~ torn', ~ raced' PROVE FaultsInv'
    BY Zenon DEF FaultsInv
  <2>1. /\ ~ torn /\ ~ raced /\ tool[1] # "reset"
        /\ UNCHANGED <<tool, page_fault_count, pf, overtaken>>
    BY <1>1, Zenon DEF CountLoad
  <2>2. /\ reg'[c] = page_fault_count /\ pc'[c] = "count_store"
        /\ \A d \in Cpu \ {c} : pc'[d] = pc[d] /\ reg'[d] = reg[d]
    BY <1>1, Zenon DEF CountLoad, Step, Load, LocalOK
  <2>3. page_fault_count <= page_fault_count
        /\ page_fault_count <= page_fault_count + overtaken[c]
    <3>1. overtaken[c] \in Nat /\ page_fault_count \in Nat
      BY Zenon DEF RecorderOK
    <3>2. QED
      BY <3>1
  <2>4. QED
    BY <2>1, <2>2, <2>3, Zenon DEF FaultsInv
<1>2. ASSUME NEW c \in Cpu, CountStore(c) PROVE FaultsInv'
  BY <1>2, CountStored, Zenon
<1>3. ASSUME NEW c \in Cpu, TrackLoad(c) PROVE FaultsInv'
  <2>1. UNCHANGED <<torn, raced, tool, page_fault_count, pf, overtaken>>
    BY <1>3, Zenon DEF TrackLoad
  <2>2. /\ reg'[c] = page_fault_count /\ pc'[c] = "note"
        /\ \A d \in Cpu \ {c} : pc'[d] = pc[d] /\ reg'[d] = reg[d]
    BY <1>3, Zenon DEF TrackLoad, Step, Load, LocalOK
  <2>3. page_fault_count <= page_fault_count
    BY DEF RecorderOK
  <2>4. QED
    BY <2>1, <2>2, <2>3, Zenon DEF FaultsInv
<1>4. ASSUME NEW c \in Cpu, NEW mfn \in Mfn, TrackFound(c, mfn) \/ TrackInsert(c, mfn)
      PROVE  FaultsInv'
  <2>1. /\ pc[c] = "note" /\ Save(c, mfn)
        /\ UNCHANGED <<page_fault_count, overtaken, raced, torn, tool>>
    BY <1>4, Zenon DEF TrackFound, TrackInsert, CountedOutcome, Step, Call
  <2>2. ASSUME NEW d \in Cpu, pc'[d] \in {"count_store", "note"}
        PROVE  pc'[d] = pc[d] /\ reg'[d] = reg[d]
    BY <1>4, <2>2, Zenon DEF TrackFound, TrackInsert, CountedOutcome, Step, Call,
       Load, LocalOK
  <2>3. QED
    BY <2>1, <2>2, CountSaved, Zenon
<1>5. ASSUME set_aet_cmd PROVE FaultsInv'
  <2>1. tool[1] = "idle" /\ tool'[1] # "reset"
    BY <1>5, CommandBegins, Zenon
  <2>2. UNCHANGED <<page_fault_count, pf, overtaken, raced, torn, pc, reg>>
    BY <1>5, Zenon DEF set_aet_cmd, local
  <2>3. QED
    BY <2>1, <2>2, FaultsUndisturbed, Zenon
<1>6. ASSUME set_aet_track_open PROVE FaultsInv'
  <2>1. tool[1] # "reset" /\ tool'[1] # "reset"
    BY <1>6, FlagStored, Zenon
  <2>2. UNCHANGED <<page_fault_count, pf, overtaken, raced, torn, pc, reg>>
    BY <1>6, Zenon DEF set_aet_track_open, local
  <2>3. QED
    BY <2>1, <2>2, FaultsUndisturbed, Zenon
<1>7. ASSUME ResetBegin PROVE FaultsInv'
  <2> SUFFICES ASSUME ~ torn', ~ raced' PROVE FaultsInv'
    BY Zenon DEF FaultsInv
  <2>1. holder = {} /\ pc' = pc /\ \A c \in Cpu : pc[c] # "count_store"
    BY <1>7, Zenon DEF ResetBegin
  <2>2. \A c \in Cpu : pc[c] # "note"
    BY <2>1, Zenon DEF LocalOK, InHandler, LockPlace
  <2>3. tool'[1] = "reset" /\ ~ (tool'[2] > 5)
    BY <1>7, ResetBegins
  <2>4. QED
    BY <2>1, <2>2, <2>3, Zenon DEF FaultsInv
<1>8. ASSUME reset PROVE FaultsInv'
  <2> SUFFICES ASSUME ~ torn', ~ raced' PROVE FaultsInv'
    BY Zenon DEF FaultsInv
  <2>1. ~ torn /\ ~ raced /\ pc' = pc /\ tool[1] = "reset" /\ tool[2] \in 1 .. 7
    BY <1>8, ToolShape, Zenon DEF reset, CommandOK
  <2>2. \A c \in Cpu : pc[c] # "count_store" /\ pc[c] # "note"
    BY <2>1, Zenon DEF LocalOK, InHandler, LockPlace, CountersInv, FaultsInv
  <2>3. ASSUME NEW mfn \in Mfn, tool'[1] = "reset" => tool'[2] > 5
        PROVE  pf'[mfn] <= page_fault_count'
    <3>1. tool[2] \in 5 .. 7
      BY <1>8, <2>1, <2>3, ResetAdvances DEF CommandOK
    <3>2. CASE tool[2] = 5
      <4>1. pf'[mfn] = 0 /\ page_fault_count' = page_fault_count
        BY <1>8, <3>2 DEF reset, Cleared, Field
      <4>2. QED
        BY <4>1 DEF RecorderOK
    <3>3. CASE tool[2] \in 6 .. 7
      <4>1. pf' = pf /\ page_fault_count' = page_fault_count
        BY <1>8, <3>3 DEF reset, Cleared, Field
      <4>2. tool[2] > 5
        BY <3>3
      <4>3. QED
        BY <2>1, <4>1, <4>2, Zenon DEF FaultsInv
    <3>4. QED
      BY <3>1, <3>2, <3>3
  <2>4. QED
    BY <2>1, <2>2, <2>3, Zenon DEF FaultsInv
<1>9. ASSUME NEW c \in Cpu,
              \/ Exit(c) \/ HookTest(c) \/ HookBegin(c) \/ HookPage(c) \/ HookTag(c)
      PROVE FaultsInv'
  <2>1. UNCHANGED <<page_fault_count, pf, overtaken, raced, tool, torn>>
    BY <1>9, ZenonT(60), Zenon DEF Exit, HookTest, LoadOpen, LoadTrack,
       HookBegin, HookPage, HookTag
  <2>2. ASSUME NEW d \in Cpu, pc'[d] \in {"count_store", "note"}
        PROVE  pc'[d] = pc[d] /\ reg'[d] = reg[d]
    BY <1>9, <2>2, SMTT(60) DEF Exit, HookTest, LoadOpen, LoadTrack, HookBegin,
       HookPage, HookTag, Step, Load, Call, Return, LocalOK, LogPlace, local
  <2>3. QED
    BY <2>1, <2>2, FaultsUndisturbed, Zenon
<1>10. ASSUME NEW c \in Cpu,
              \/ HookNext(c) \/ HookLeave(c) \/ HookClear(c) \/ Fault(c)
      PROVE FaultsInv'
  <2>1. UNCHANGED <<page_fault_count, pf, overtaken, raced, tool, torn>>
    BY <1>10, ZenonT(60), Zenon DEF HookNext, HookLeave, HookClear, Fault
  <2>2. ASSUME NEW d \in Cpu, pc'[d] \in {"count_store", "note"}
        PROVE  pc'[d] = pc[d] /\ reg'[d] = reg[d]
    BY <1>10, <2>2, SMTT(60) DEF HookNext, HookLeave, HookClear, Fault,
       Step, Load, Call, Return, LocalOK, LogPlace, local
  <2>3. QED
    BY <2>1, <2>2, FaultsUndisturbed, Zenon
<1>11. ASSUME NEW c \in Cpu,
              LogTest(c) \/ LogAppend(c) \/ LogBump(c)
      PROVE FaultsInv'
  <2>1. UNCHANGED <<page_fault_count, pf, overtaken, raced, tool, torn>>
    BY <1>11, ZenonT(60), Zenon DEF LogTest, LogAppend, LogBump
  <2>2. ASSUME NEW d \in Cpu, pc'[d] \in {"count_store", "note"}
        PROVE  pc'[d] = pc[d] /\ reg'[d] = reg[d]
    BY <1>11, <2>2, SMTT(60) DEF LogTest, LogAppend, LogBump, Step, Load, Call,
       Return, LocalOK, LogPlace, local
  <2>3. QED
    BY <2>1, <2>2, FaultsUndisturbed, Zenon
<1>12. ASSUME NEW c \in Cpu,
              \/ (\E mfn \in Mfn : TrackConflict(c, mfn))
              \/ RequestTest(c) \/ PassMagic(c)
              \/ (\E sl1mfn \in Table : Search(c, sl1mfn))
      PROVE FaultsInv'
  <2>1. UNCHANGED <<page_fault_count, pf, overtaken, raced, tool, torn>>
    BY <1>12, ZenonT(60), Zenon DEF TrackConflict, CountedOutcome, RequestTest,
       LoadOpen, LoadTrack, PassMagic, Search
  <2>2. ASSUME NEW d \in Cpu, pc'[d] \in {"count_store", "note"}
        PROVE  pc'[d] = pc[d] /\ reg'[d] = reg[d]
    BY <1>12, <2>2, SMTT(60) DEF TrackConflict, CountedOutcome, RequestTest,
       LoadOpen, LoadTrack, PassMagic, Search, Step, Load, Call, Return,
       LocalOK, LogPlace, local
  <2>3. QED
    BY <2>1, <2>2, FaultsUndisturbed, Zenon
<1>13. ASSUME NEW c \in Cpu,
              \/ Room(c) \/ Fill(c) \/ NumLoad(c) \/ NumStore(c) \/ LogMagic(c) \/ Unlock(c)
      PROVE FaultsInv'
  <2>1. UNCHANGED <<page_fault_count, pf, overtaken, raced, tool, torn>>
    BY <1>13, ZenonT(60), Zenon DEF Room, Fill, NumLoad, NumStore, LogMagic,
       Unlock
  <2>2. ASSUME NEW d \in Cpu, pc'[d] \in {"count_store", "note"}
        PROVE  pc'[d] = pc[d] /\ reg'[d] = reg[d]
    BY <1>13, <2>2, SMTT(60) DEF Room, Fill, NumLoad, NumStore, LogMagic,
       Unlock, Step, Load, Call, Return, LocalOK, LogPlace, local
  <2>3. QED
    BY <2>1, <2>2, FaultsUndisturbed, Zenon
<1>14. ASSUME NEW c \in Cpu, Lock(c) PROVE FaultsInv'
  <2>1. UNCHANGED <<page_fault_count, pf, overtaken, raced, tool>>
    BY <1>14, Zenon DEF Lock
  <2>2. torn => torn'
    BY <1>14, Zenon DEF Lock
  <2>3. ASSUME NEW d \in Cpu, pc'[d] \in {"count_store", "note"}
        PROVE  pc'[d] = pc[d] /\ reg'[d] = reg[d]
    BY <1>14, <2>3, Zenon DEF Lock, Step, Call, LocalOK
  <2>4. QED
    BY <2>1, <2>2, <2>3, FaultsUndisturbed, Zenon
<1>15. ASSUME UNCHANGED vars PROVE FaultsInv'
  BY <1>15, FaultsUndisturbed, Zenon DEF vars, local
<1>16. QED
  BY <1>1, <1>2, <1>3, <1>4, <1>5, <1>6, <1>7, <1>8, <1>9, <1>10, <1>11, <1>12,
     <1>13, <1>14, <1>15, Zenon DEF Next, Tool, Handler

\* The mode of a closed session is no mode, and the two values of open_ differ.
LEMMA ModesApart == NoMode \notin Modes /\ CLOSED # OPEN
BY ModesAssumption DEF NoMode, CLOSED, OPEN

\* Every step keeps the flags in the order of the tool's stores.
LEMMA FlagsStep ==
  ASSUME CommandOK, FlagsInv, [Next]_vars PROVE FlagsInv'
<1> USE DEF FlagsInv, InForce, control, command
<1>1. ASSUME set_aet_cmd PROVE FlagsInv'
  <2>1. PICK mode \in Modes \cup {NoMode} :
          /\ session' = mode /\ before' = session
          /\ \/ tool'[1] = "track" /\ tool'[2] = OPEN /\ tool'[3] = mode /\ mode \in Modes
             \/ tool'[1] = "track" /\ tool'[2] = CLOSED /\ tool'[3] = CLOSED
                /\ mode = NoMode
             \/ tool'[1] = "track only" /\ tool'[2] = mode /\ mode \in Modes
                /\ open_ = OPEN
    BY <1>1, CommandBegins, Zenon DEF Ask
  <2>2. tool[1] = "idle" /\ UNCHANGED control
    BY <1>1, CommandBegins, Zenon
  <2>3. CASE mode = NoMode
    <3>1. tool'[1] = "track" /\ tool'[2] = CLOSED /\ tool'[3] = CLOSED
      BY ModesApart, <2>1, <2>3, Zenon
    <3>2. QED
      BY ModesApart, <2>1, <2>2, <2>3, <3>1, Zenon
  <2>4. CASE mode \in Modes /\ tool'[1] = "track"
    BY ModesApart, <2>1, <2>2, <2>4, SMTT(60)
  <2>5. CASE mode \in Modes /\ tool'[1] = "track only"
    BY ModesApart, <2>1, <2>2, <2>5, Zenon
  <2>6. QED
    BY <2>1, <2>3, <2>4, <2>5, Zenon
<1>2. ASSUME set_aet_track_open PROVE FlagsInv'
  <2>1. session' = session
    BY <1>2, Zenon DEF set_aet_track_open
  <2>2. QED
    BY <1>2, <2>1, ModesApart, FlagStored, ToolShape, Zenon DEF CommandOK
<1>3. ASSUME ResetBegin PROVE FlagsInv'
  BY <1>3, ResetBegins, Zenon DEF ResetBegin
<1>4. ASSUME reset PROVE FlagsInv'
  <2>1. tool[1] = "reset" /\ UNCHANGED <<open_, track_, session, before>>
    BY <1>4, Zenon DEF reset
  <2>2. QED
    BY <1>4, <2>1, ResetAdvances, Zenon DEF CommandOK
<1>5. ASSUME NEW c \in Cpu,
              \/ Exit(c) \/ HookTest(c) \/ HookBegin(c) \/ HookPage(c)
              \/ HookTag(c) \/ HookNext(c) \/ HookLeave(c) \/ HookClear(c)
              \/ LogTest(c) \/ LogAppend(c) \/ LogBump(c) \/ Lock(c)
              \/ Fault(c) \/ CountLoad(c) \/ CountStore(c) \/ TrackLoad(c)
              \/ (\E mfn \in Mfn : TrackFound(c, mfn))
              \/ RequestTest(c) \/ PassMagic(c) \/ Room(c)
              \/ Fill(c) \/ NumLoad(c) \/ NumStore(c) \/ LogMagic(c) \/ Unlock(c)
              \/ (\E mfn \in Mfn : TrackInsert(c, mfn))
              \/ (\E mfn \in Mfn : TrackConflict(c, mfn))
              \/ (\E sl1mfn \in Table : Search(c, sl1mfn))
      PROVE FlagsInv'
  BY <1>5, ZenonT(60), Zenon DEF Exit, HookTest, LoadOpen, LoadTrack,
     HookBegin, HookPage, HookTag, HookNext, HookLeave, HookClear, LogTest,
     LogAppend, LogBump, Lock, Fault, CountLoad, CountStore, TrackLoad,
     TrackFound, CountedOutcome, TrackInsert, TrackConflict, RequestTest, PassMagic, Search, Room, Fill, NumLoad,
     NumStore, LogMagic, Unlock
<1>6. ASSUME UNCHANGED vars PROVE FlagsInv'
  BY <1>6, Zenon DEF vars
<1>7. QED
  BY <1>1, <1>2, <1>3, <1>4, <1>5, <1>6, Zenon DEF Next, Tool, Handler

\* A test that finds open_ set begins with every value track_ can have while it runs.
LEMMA PossibleCovers ==
  ASSUME CommandOK, FlagsInv, open_ = OPEN
  PROVE  /\ track_ \in Possible
         /\ tool[1] = "track" => tool[3] \in Possible
         /\ tool[1] = "track only" => tool[2] \in Possible
<1> USE DEF FlagsInv, InForce, Possible
<1>1. CASE tool[1] \in {"idle", "reset"}
  BY <1>1, ModesApart, Zenon
<1>2. CASE tool[1] = "track" /\ tool[2] = OPEN
  BY <1>2, ModesApart, Zenon
<1>3. CASE tool[1] = "track" /\ tool[2] = CLOSED
  BY <1>3, ModesApart, Zenon
<1>4. CASE tool[1] = "open" /\ tool[2] = OPEN
  BY <1>4, ModesApart, Zenon
<1>5. CASE tool[1] = "open" /\ tool[2] = CLOSED
  BY <1>5, ModesApart, Zenon
<1>6. CASE tool[1] = "track only"
  BY <1>6, ModesApart, Zenon
<1>7. QED
  BY <1>1, <1>2, <1>3, <1>4, <1>5, <1>6, ToolShape, Zenon DEF CommandOK

\* Every step keeps the mode a test will find, or has found, among those asked for.
LEMMA AskedStep ==
  ASSUME LocalOK, CommandOK, FlagsInv, AskedInv, [Next]_vars PROVE AskedInv'
<1> USE DEF LocalOK, LogPlace, AskedInv, control, command, Step, Call, Return,
            Forget, L1_TRACK
<1>0. asked \in [Cpu -> SUBSET (Track \cup {NoMode})]
  BY Zenon DEF CommandOK
<1>1. ASSUME NEW c \in Cpu, HookTest(c) PROVE AskedInv'
  <2>1. CASE LoadOpen(c, "hook", "hook_track", "exit")
    BY <1>0, <2>1, PossibleCovers, ZenonT(60), Zenon DEF LoadOpen
  <2>2. CASE LoadTrack(c, "hook_track", "hook_num", "exit")
    BY <1>0, <2>2, ZenonT(60), Zenon DEF LoadTrack
  <2>3. QED
    BY <1>1, <2>1, <2>2, Zenon DEF HookTest
<1>2. ASSUME NEW c \in Cpu, HookBegin(c) PROVE AskedInv'
  BY <1>2, <1>0, Zenon DEF HookBegin
<1>3. ASSUME NEW c \in Cpu, LogTest(c) PROVE AskedInv'
  <2>1. UNCHANGED <<track_, tool, asked>>
    BY <1>3, Zenon DEF LogTest
  <2>2. ASSUME NEW d \in Cpu, pc'[d] \in {"hook_track", "user_track", "hook_num", "scan"}
        PROVE  pc'[d] = pc[d]
    BY <1>3, <2>2, Zenon DEF LogTest
  <2>3. QED
    BY <2>1, <2>2, Zenon
<1>4. ASSUME NEW c \in Cpu, LogBump(c) PROVE AskedInv'
  <2>1. UNCHANGED <<track_, tool, asked>>
    BY <1>4, Zenon DEF LogBump
  <2>2. ASSUME NEW d \in Cpu, pc'[d] \in {"hook_track", "user_track", "hook_num", "scan"}
        PROVE  pc'[d] = pc[d]
    BY <1>4, <2>2, Zenon DEF LogBump
  <2>3. QED
    BY <2>1, <2>2, Zenon
<1>5. ASSUME NEW c \in Cpu, RequestTest(c) PROVE AskedInv'
  <2>1. CASE LoadOpen(c, "user", "user_track", "unlock")
    BY <1>0, <2>1, PossibleCovers, ZenonT(60), Zenon DEF LoadOpen
  <2>2. CASE LoadTrack(c, "user_track", "scan", "unlock")
    BY <1>0, <2>2, ZenonT(60), Zenon DEF LoadTrack
  <2>3. QED
    BY <1>5, <2>1, <2>2, Zenon DEF RequestTest
<1>6. ASSUME NEW c \in Cpu, PassMagic(c) PROVE AskedInv'
  BY <1>6, <1>0, Zenon DEF PassMagic
<1>7. ASSUME NEW c \in Cpu, NEW sl1mfn \in Table, Search(c, sl1mfn) PROVE AskedInv'
  BY <1>7, <1>0, Zenon DEF Search
<1>8. ASSUME set_aet_cmd PROVE AskedInv'
  <2>1. PICK mode \in Modes \cup {NoMode} :
          /\ Ask(mode)
          /\ \/ tool'[1] = "track" /\ tool'[3] = mode
             \/ tool'[1] = "track" /\ tool'[3] = CLOSED /\ mode = NoMode
             \/ tool'[1] = "track only" /\ tool'[2] = mode
    BY <1>8, CommandBegins, Zenon
  <2>2. UNCHANGED <<pc, track_>>
    BY <1>8, Zenon DEF set_aet_cmd
  <2>3. ASSUME NEW d \in Cpu, asked[d] # {}
        PROVE  /\ asked[d] \cup {mode} \subseteq asked'[d]
               /\ mode = NoMode => CLOSED \in asked'[d]
    BY <2>1, <2>3, Zenon DEF Ask
  <2>4. QED
    BY <2>1, <2>2, <2>3, Zenon
<1>9. ASSUME set_aet_track_open PROVE AskedInv'
  <2>1. UNCHANGED <<pc, asked>>
    BY <1>9, Zenon DEF set_aet_track_open
  <2>2. QED
    BY <1>9, <2>1, FlagStored, Zenon
<1>10. ASSUME ResetBegin PROVE AskedInv'
  BY <1>10, <1>0, Zenon DEF ResetBegin, Begin
<1>11. ASSUME reset PROVE AskedInv'
  BY <1>11, <1>0, Zenon DEF reset, Cleared, Field
<1>12. ASSUME NEW c \in Cpu,
              \/ Exit(c) \/ HookPage(c) \/ HookTag(c) \/ HookNext(c)
              \/ HookLeave(c) \/ HookClear(c)
      PROVE AskedInv'
  <2>1. UNCHANGED <<track_, tool, asked>>
    BY <1>12, Zenon DEF Exit, HookPage, HookTag, HookNext, HookLeave, HookClear
  <2>2. ASSUME NEW d \in Cpu, pc'[d] \in {"hook_track", "user_track", "hook_num", "scan"}
        PROVE  pc'[d] = pc[d]
    BY <1>12, <2>2, Zenon DEF Exit, HookPage, HookTag, HookNext, HookLeave,
       HookClear
  <2>3. QED
    BY <2>1, <2>2, Zenon
<1>13. ASSUME NEW c \in Cpu,
              \/ LogAppend(c) \/ Lock(c) \/ Room(c)
              \/ Fault(c) \/ CountLoad(c) \/ CountStore(c) \/ TrackLoad(c)
              \/ (\E mfn \in Mfn : TrackFound(c, mfn))
              \/ (\E mfn \in Mfn : TrackInsert(c, mfn))
              \/ (\E mfn \in Mfn : TrackConflict(c, mfn))
      PROVE AskedInv'
  <2>1. UNCHANGED <<track_, tool, asked>>
    BY <1>13, Zenon DEF LogAppend, Lock, Fault, CountLoad, CountStore, TrackLoad,
       TrackFound, CountedOutcome, TrackInsert, TrackConflict, Room
  <2>2. ASSUME NEW d \in Cpu, pc'[d] \in {"hook_track", "user_track", "hook_num", "scan"}
        PROVE  pc'[d] = pc[d]
    BY <1>13, <2>2, ZenonT(60), Zenon DEF LogAppend, Lock, Fault, CountLoad,
       CountStore, TrackLoad, TrackFound, CountedOutcome, TrackInsert,
       TrackConflict, Room
  <2>3. QED
    BY <2>1, <2>2, Zenon
<1>14. ASSUME NEW c \in Cpu,
              \/ Fill(c) \/ NumLoad(c) \/ NumStore(c) \/ LogMagic(c) \/ Unlock(c)
      PROVE AskedInv'
  <2>1. UNCHANGED <<track_, tool, asked>>
    BY <1>14, Zenon DEF Fill, NumLoad, NumStore, LogMagic, Unlock
  <2>2. ASSUME NEW d \in Cpu, pc'[d] \in {"hook_track", "user_track", "hook_num", "scan"}
        PROVE  pc'[d] = pc[d]
    BY <1>14, <2>2, ZenonT(60), Zenon DEF Fill, NumLoad, NumStore, LogMagic,
       Unlock
  <2>3. QED
    BY <2>1, <2>2, Zenon
<1>15. ASSUME UNCHANGED vars PROVE AskedInv'
  BY <1>15, <1>0, Zenon DEF vars
<1>16. QED
  BY <1>1, <1>2, <1>3, <1>4, <1>5, <1>6, <1>7, <1>8, <1>9, <1>10, <1>11, <1>12,
     <1>13, <1>14, <1>15, Zenon DEF Next, Tool, Handler

\* The room of the log, as a limit.
LEMMA LogRoom ==
  ASSUME CommandOK, LocalOK
  PROVE  LogLimit \in Int /\ Resets \in Int /\ (HasRoom <=> total_count < LogLimit)
<1>1. LogLimit \in Int
  BY SharedAssumption DEF LogLimit
<1>2. Resets \in Int
  BY DEF Resets, CommandOK
<1>3. HasRoom <=> total_count < LogLimit
  BY SharedAssumption DEF LogLimit, HasRoom, LocalOK
<1>4. QED
  BY <1>1, <1>2, <1>3, Zenon

\* `xc -r' clears total_count with its first store, and counts from then on.
LEMMA ResetClears ==
  ASSUME CommandOK, reset
  PROVE  /\ UNCHANGED <<pc, reg>>
         /\ \/ Resets' = Resets + 1 /\ total_count' = 0
            \/ Resets' = Resets /\ total_count' = total_count
<1>1. tool \in ToolState /\ ops \in Nat
  BY Zenon DEF CommandOK
<1>2. tool[2] \in 1 .. 7 /\ tool[1] = "reset"
  BY <1>1, ToolShape, Zenon DEF reset
<1>3. UNCHANGED <<pc, reg, ops>> /\ total_count' = Cleared("total_count", total_count, 0)
  BY Zenon DEF reset, local
<1>4. \/ tool[2] = 7 /\ tool'[1] = "idle"
      \/ tool[2] < 7 /\ tool'[1] = "reset" /\ tool'[2] = tool[2] + 1
  BY <1>1, ResetAdvances, Zenon
<1>5. PICK k \in 1 .. 7 : k = tool[2]
  BY <1>2, Zenon
<1>6. ~ (tool'[1] = "reset" /\ tool'[2] = 1)
  BY <1>4, <1>5
<1>7. Resets' = ops
  BY <1>3, <1>6, Zenon DEF Resets
<1>8. CASE k = 1
  <2>1. total_count' = 0
    BY <1>3, <1>5, <1>8 DEF Cleared, Field
  <2>2. Resets = ops - 1
    BY <1>2, <1>5, <1>8, Zenon DEF Resets
  <2>3. QED
    BY <1>1, <1>3, <1>7, <2>1, <2>2
<1>9. CASE k # 1
  <2>1. total_count' = total_count
    BY <1>3, <1>5, <1>9 DEF Cleared, Field
  <2>2. Resets = ops
    BY <1>5, <1>9, Zenon DEF Resets
  <2>3. QED
    BY <1>3, <1>7, <2>1, <2>2, Zenon
<1>10. QED
  BY <1>8, <1>9, Zenon

\* With two processors, the overshoot of the log grows by at most one a reset: to
\* store a stale total_count beyond the limit a processor must have loaded it before
\* the reset and store it after.
LEMMA LogStep ==
  ASSUME NEW a, NEW b, Cpu = {a, b},
         LocalOK, CommandOK, LogInv, [Next]_vars
  PROVE  LogInv'
<1>0. LogLimit \in Int /\ Resets \in Int /\ (HasRoom <=> total_count < LogLimit)
  BY LogRoom, Zenon
<1>r. reset => /\ UNCHANGED <<pc, reg>>
               /\ \/ Resets' = Resets + 1 /\ total_count' = 0
                  \/ Resets' = Resets /\ total_count' = total_count
  BY ResetClears, Zenon
<1> USE DEF LocalOK, LogPlace, LogInv, Appending, Step, Call, Return, Load
<1>1. ASSUME NEW c \in Cpu, LogTest(c) PROVE LogInv'
  <2>1. Resets' = Resets /\ total_count' = total_count
    BY <1>1, Zenon DEF LogTest, Resets, command, counters
  <2>2. QED
    BY <1>1, <1>0, <2>1, SMTT(60) DEF LogTest
<1>2. ASSUME NEW c \in Cpu, LogAppend(c) PROVE LogInv'
  <2>1. Resets' = Resets /\ total_count' = total_count
    BY <1>2, Zenon DEF LogAppend, Resets, command, counters
  <2>2. QED
    BY <1>2, <1>0, <2>1, SMTT(60) DEF LogAppend
<1>3. ASSUME NEW c \in Cpu, LogBump(c) PROVE LogInv'
  <2>1. Resets' = Resets
    BY <1>3, Zenon DEF LogBump, Resets, command, counters
  <2>2. QED
    BY <1>3, <1>0, <2>1, SMTT(60) DEF LogBump
<1>4. ASSUME set_aet_cmd PROVE LogInv'
  <2>1. tool[1] = "idle" /\ tool'[1] # "reset" /\ ops' = ops + 1
    BY <1>4, CommandBegins, Zenon
  <2>2. Resets' = Resets + 1
    BY <2>1, Zenon DEF Resets
  <2>3. UNCHANGED <<total_count, pc, reg>>
    BY <1>4, Zenon DEF set_aet_cmd, counters, local
  <2>4. QED
    BY <1>0, <2>2, <2>3, SMTT(60)
<1>5. ASSUME set_aet_track_open PROVE LogInv'
  <2>1. Resets' = Resets
    BY <1>5, FlagStored, Zenon DEF set_aet_track_open, Resets
  <2>2. QED
    BY <1>5, <1>0, <2>1, Zenon DEF set_aet_track_open, counters, local
<1>6. ASSUME ResetBegin PROVE LogInv'
  <2>1. Resets' = Resets
    BY <1>6, ResetBegins, SMTT(60) DEF Resets, CommandOK
  <2>2. QED
    BY <1>6, <1>0, <2>1, Zenon DEF ResetBegin, counters, local
<1>7. ASSUME reset PROVE LogInv'
  <2>1. CASE Resets' = Resets + 1 /\ total_count' = 0
    BY <1>0, <1>7, <1>r, <2>1, SMTT(60)
  <2>2. CASE Resets' = Resets /\ total_count' = total_count
    BY <1>0, <1>7, <1>r, <2>2, SMTT(60)
  <2>3. QED
    BY <1>7, <1>r, <2>1, <2>2, Zenon
<1>8. ASSUME NEW c \in Cpu,
              \/ Exit(c) \/ HookTest(c) \/ HookBegin(c) \/ HookPage(c)
              \/ HookTag(c) \/ HookNext(c)
      PROVE LogInv'
  <2>1. Resets' = Resets /\ total_count' = total_count
    BY <1>8, Zenon DEF Exit, HookTest, LoadOpen, LoadTrack, HookBegin,
       HookPage, HookTag, HookNext, Resets, command, counters
  <2>2. ASSUME NEW d \in Cpu, pc'[d] \in {"append", "bump"}
        PROVE  pc'[d] = pc[d] /\ reg'[d] = reg[d]
    BY <1>8, <2>2, ZenonT(60), Zenon DEF Exit, HookTest, LoadOpen, LoadTrack,
       HookBegin, HookPage, HookTag, HookNext, local
  <2>3. QED
    BY <1>0, <2>1, <2>2, ZenonT(60), Zenon
<1>9. ASSUME NEW c \in Cpu,
              \/ HookLeave(c) \/ HookClear(c) \/ Lock(c)
              \/ Fault(c) \/ CountLoad(c) \/ CountStore(c) \/ TrackLoad(c)
              \/ (\E mfn \in Mfn : TrackFound(c, mfn))
              \/ (\E mfn \in Mfn : TrackInsert(c, mfn))
              \/ (\E mfn \in Mfn : TrackConflict(c, mfn))
      PROVE LogInv'
  <2>1. Resets' = Resets /\ total_count' = total_count
    BY <1>9, Zenon DEF HookLeave, HookClear, Lock, Fault, CountLoad, CountStore,
       TrackLoad, TrackFound, CountedOutcome, TrackInsert, TrackConflict, Resets, command, counters
  <2>2. ASSUME NEW d \in Cpu, pc'[d] \in {"append", "bump"}
        PROVE  pc'[d] = pc[d] /\ reg'[d] = reg[d]
    BY <1>9, <2>2, ZenonT(60), Zenon DEF HookLeave, HookClear, Lock,
       Fault, CountLoad, CountStore, TrackLoad, TrackFound, CountedOutcome,
       TrackInsert, TrackConflict, local
  <2>3. QED
    BY <1>0, <2>1, <2>2, ZenonT(60), Zenon
<1>10. ASSUME NEW c \in Cpu,
              \/ RequestTest(c) \/ PassMagic(c) \/ Room(c) \/ Fill(c) \/ NumLoad(c)
              \/ (\E sl1mfn \in Table : Search(c, sl1mfn))
      PROVE LogInv'
  <2>1. Resets' = Resets /\ total_count' = total_count
    BY <1>10, Zenon DEF RequestTest, LoadOpen, LoadTrack, PassMagic, Search,
       Room, Fill, NumLoad, Resets, command, counters
  <2>2. ASSUME NEW d \in Cpu, pc'[d] \in {"append", "bump"}
        PROVE  pc'[d] = pc[d] /\ reg'[d] = reg[d]
    BY <1>10, <2>2, ZenonT(60), Zenon DEF RequestTest, LoadOpen, LoadTrack,
       PassMagic, Search, Room, Fill, NumLoad, local
  <2>3. QED
    BY <1>0, <2>1, <2>2, SMTT(60)
<1>11. ASSUME NEW c \in Cpu,
              \/ NumStore(c) \/ LogMagic(c) \/ Unlock(c)
      PROVE LogInv'
  <2>1. Resets' = Resets /\ total_count' = total_count
    BY <1>11, Zenon DEF NumStore, LogMagic, Unlock, Resets, command, counters
  <2>2. ASSUME NEW d \in Cpu, pc'[d] \in {"append", "bump"}
        PROVE  pc'[d] = pc[d] /\ reg'[d] = reg[d]
    BY <1>11, <2>2, SMTT(60) DEF NumStore, LogMagic, Unlock, local
  <2>3. QED
    BY <1>0, <2>1, <2>2, SMTT(60)
<1>12. ASSUME UNCHANGED vars PROVE LogInv'
  <2>1. Resets' = Resets
    BY <1>12, Zenon DEF vars, Resets, command
  <2>2. QED
    BY <1>12, <1>0, <2>1, Zenon DEF vars, counters, local
<1>13. QED
  BY <1>1, <1>2, <1>3, <1>4, <1>5, <1>6, <1>7, <1>8, <1>9, <1>10, <1>11,
     <1>12, Zenon DEF Next, Tool, Handler

-----------------------------------------------------------------------------
\* The inductive invariant.
SharedInv ==
  /\ LocalOK /\ RecorderOK /\ CommandOK
  /\ PendingInv /\ CountersInv /\ FaultsInv /\ FlagsInv /\ AskedInv

\* The inductive invariant holds when the domain starts.
LEMMA SharedInit == Init => SharedInv
<1> SUFFICES ASSUME Init PROVE SharedInv
  BY Zenon
<1> USE DEF Init
<1>1. LocalOK
  BY Zenon DEF LocalOK, HookPlace, CountPlace, LogPlace, LockPlace, InHandler
<1>2. RecorderOK
  <2>1. exits \in 0 .. ExitBound
    BY SharedAssumption
  <2>2. pds \in [0 .. (MAX_PENDING_PAGE - 1) -> Table \cup {NoTable}]
    BY Zenon
  <2>3. QED
    BY <2>1, <2>2, Zenon DEF RecorderOK
<1>3. tool[1] = "idle" /\ tool \in ToolState
  BY Zenon DEF ToolState
<1>4. CommandOK
  BY <1>3, ModesAssumption, Zenon DEF CommandOK, CLOSED, OPEN, L1_TRACK,
     L4_TRACK, PAGE_FAULT_COUNT, Track
<1>5. PendingInv
  BY SharedAssumption, SMTT(60) DEF PendingInv, Distinct
<1>6. CountersInv
  BY <1>3, FS_EmptySet, SMTT(60) DEF CountersInv, Agree
<1>7. FlagsInv
  BY <1>3, ModesApart, Zenon DEF FlagsInv, InForce
<1>8. AskedInv
  BY Zenon DEF AskedInv
<1>9. FaultsInv
  BY SMTT(60) DEF FaultsInv
<1>10. QED
  BY <1>1, <1>2, <1>4, <1>5, <1>6, <1>7, <1>8, <1>9, Zenon DEF SharedInv

\* The inductive invariant of the shared words, for every number of processors,
\* pages, frames and commands.
THEOREM SharedInvariant == Spec => []SharedInv
<1>1. SharedInv /\ [Next]_vars => SharedInv'
  BY LocalStep, RecorderStep, CommandStep, PendingStep, CountersStep,
     FaultsStep, FlagsStep, AskedStep, Zenon DEF SharedInv
<1>2. QED
  BY SharedInit, <1>1, PTL DEF Spec

\* The words of struct AET_ctrl keep their types, and the paging lock has one holder.
THEOREM SharedTypeCorrect == Spec => []TypeOK
<1>1. SharedInv => TypeOK
  BY Zenon DEF SharedInv, LocalOK, RecorderOK, CommandOK, TypeOK
<1>2. QED
  BY SharedInvariant, <1>1, PTL

\* set_num stays within pds[] and no page is queued twice, although set_pending_page
\* clears set_num without the lock.
THEOREM PendingAlwaysSound == Spec => []PendingSound
<1>1. SharedInv => PendingSound
  BY Zenon DEF SharedInv, PendingInv, Distinct, PendingSound
<1>2. QED
  BY SharedInvariant, <1>1, PTL

\* A processor acts on L1_TRACK only when it was in force or asked for since its
\* test began: set_aet_track_open stores track_ before open_.
THEOREM ModeAlwaysAsked == Spec => []ModeWasAsked
<1>1. SharedInv => ModeWasAsked
  BY Zenon DEF SharedInv, AskedInv, ModeWasAsked
<1>2. QED
  BY SharedInvariant, <1>1, PTL

\* Outside the handlers the counters agree, unless the last reset overlapped one.
THEOREM CountersAlwaysAgree == Spec => []CountersAgree
<1>1. SharedInv => CountersAgree
  BY Zenon DEF SharedInv, CountersInv, Agree, CountersAgree
<1>2. QED
  BY SharedInvariant, <1>1, PTL

\* The count saved with a frame is never ahead of page_fault_count, unless two
\* increments overtook a third or a reset overlapped a fault.
THEOREM SavedCountStaysBehind == Spec => []SavedCountNotAhead
<1>1. SharedInv => SavedCountNotAhead
  BY Zenon DEF SharedInv, RecorderOK, FaultsInv, SavedCountNotAhead
<1>2. QED
  BY SharedInvariant, <1>1, PTL

\* With two processors no append leaves tvs[] as long as the tool has given fewer
\* commands than there are entries kept free.  With a third one the bound fails.
THEOREM LogStaysWithinArray ==
  ASSUME NEW CONSTANT a, NEW CONSTANT b, Cpu = {a, b}
  PROVE  Spec => [](ops < LogSlack => LogWithinArray)
<1>1. Init => LogInv
  <2> SUFFICES ASSUME Init PROVE LogInv
    BY Zenon
  <2>1. Resets = 0
    BY Zenon DEF Init, Resets
  <2>2. QED
    BY <2>1 DEF Init, LogInv, Appending
<1>2. SharedInv /\ LogInv /\ [Next]_vars => LogInv'
  BY LogStep, Zenon DEF SharedInv
<1>3. SharedInv /\ LogInv => (ops < LogSlack => LogWithinArray)
  <2> SUFFICES ASSUME SharedInv, LogInv, ops < LogSlack,
                      NEW c \in Cpu, pc[c] = "append"
               PROVE  total_count < MAX_ARRAY_SIZE
    BY Zenon DEF LogWithinArray
  <2>1. total_count <= MAX_ARRAY_SIZE - LogSlack + Resets
    BY Zenon DEF LogInv, LogLimit
  <2>2. Resets <= ops /\ ops \in Nat /\ Resets \in Int /\ total_count \in Nat
    BY SMTT(60) DEF Resets, SharedInv, CommandOK, LocalOK
  <2>3. QED
    BY <2>1, <2>2, SharedAssumption
<1>4. QED
  BY SharedInvariant, <1>1, <1>2, <1>3, PTL DEF Spec
=============================================================================
