------------------------------- MODULE AetShared -------------------------------
(***************************************************************************)
(* The shared memory of struct AET_ctrl under concurrency.  Processors of  *)
(* the sampled domain run the VM-exit hook, which holds no lock, and the   *)
(* shadow fault handler, most of which holds the domain's paging lock; the *)
(* tool in dom0 opens and closes the session by hypercall and clears the   *)
(* counters in place (`xc -r').  Nothing else orders them, so every load   *)
(* and every store of a word that two of them use is a step of its own.    *)
(*                                                                         *)
(* The contents are abstracted: the hash is the set of its frames, the     *)
(* histogram is left out, a log entry is only its index, and an element of *)
(* the pending set only its shadow page; of a node there is the value of   *)
(* page_fault_count saved with its frame.                                  *)
(***************************************************************************)
EXTENDS Integers, Sequences, FiniteSets

CONSTANTS
  Cpu,                  \* processors that run a vCPU of the sampled domain
  Table, NoTable,       \* shadow L1 pages, and the zero of an unused element
  Mfn,                  \* frames that carry a tag
  HASH_CONFLICT_NUM,    \* room for them in the hash, one bucket
  MAX_PENDING_PAGE, MAX_ARRAY_SIZE,
  LogSlack,             \* free entries kept at the end of tvs (10)
  Modes,                \* modes the tool asks for
  ExitBound,            \* bound on the VM exits
  ToolBound             \* bound on the operations of the tool

ASSUME SharedAssumption ==
         {HASH_CONFLICT_NUM, MAX_PENDING_PAGE, MAX_ARRAY_SIZE, LogSlack,
          ExitBound, ToolBound} \subseteq Nat
ASSUME ModesAssumption == Modes \subseteq {0, 1, 2}

CLOSED == 0
OPEN == 1
L1_TRACK == 0
L4_TRACK == 1
PAGE_FAULT_COUNT == 2
Track == {L1_TRACK, L4_TRACK, PAGE_FAULT_COUNT}

NoMode == -1            \* the mode of a closed session

VARIABLES
  open_, track_,
  total_count, tracked_aet_magic_count1, hash_conflict_num,
  hns, node_count, tot_ref,
  page_fault_count,
  pf,                   \* the page_fault_count saved with a frame of the hash
  set_num, pds,
  holder,               \* processors that hold the paging lock
  pc, ret,              \* a processor's place, and where add_..._count returns
  reg, j,               \* its register, and the index of set_pending_page
  exits,
  tool,                 \* what the tool is doing
  ops,                  \* operations it has begun
  session, before,      \* the mode last asked for, and the one in force before
  asked,                \* modes a processor's test of the mode may report
  torn,                 \* the last `xc -r' overlapped a fault handler
  overtaken,            \* increments of page_fault_count stored by others
                        \*   during one of this processor
  raced                 \* since the last `xc -r', or during it, an increment was
                        \*   overtaken twice or overlapped that `xc -r'

control == <<open_, track_>>
pending == <<set_num, pds>>
nodes == <<tracked_aet_magic_count1, hash_conflict_num, hns, node_count, tot_ref, pf>>
recorder == <<nodes, page_fault_count, overtaken, raced>>
counters == <<total_count, recorder>>
local == <<ret, reg, j, exits>>
command == <<tool, ops, session, before>>
vars == <<control, counters, pending, holder, pc, local, command, asked, torn>>

Init ==
  /\ \/ open_ = CLOSED /\ track_ = CLOSED /\ session = NoMode
     \/ open_ = OPEN /\ track_ \in Modes /\ session = track_
  /\ before = session
  /\ total_count = 0
  /\ tracked_aet_magic_count1 = 0 /\ hash_conflict_num = 0
  /\ hns = {} /\ node_count = 0 /\ tot_ref = 0
  /\ page_fault_count = 0 /\ pf = [mfn \in Mfn |-> 0]
  /\ overtaken = [c \in Cpu |-> 0] /\ raced = FALSE
  /\ set_num = 0 /\ pds = [i \in 0 .. (MAX_PENDING_PAGE - 1) |-> NoTable]
  /\ holder = {}
  /\ pc = [c \in Cpu |-> "guest"]
  /\ ret = [c \in Cpu |-> "guest"]
  /\ reg = [c \in Cpu |-> 0]
  /\ j = [c \in Cpu |-> 0]
  /\ exits = 0
  /\ tool = <<"idle">> /\ ops = 0
  /\ asked = [c \in Cpu |-> {}]
  /\ torn = FALSE

HookPlace == {"hook", "hook_track", "hook_num", "tag", "page", "clear"}
LogPlace == {"log", "append", "bump"}
CountPlace == {"count", "count_store", "fault"}
LockPlace == {"track", "note", "user", "user_track", "scan", "room", "fill",
              "num", "num_store", "magic", "unlock"}

\* Processor c is in the part of the fault handler that holds the lock.
InHandler(c) == pc[c] \in LockPlace \/ ret[c] \in {"track", "user", "magic"}

\* What the tool can be in the middle of.
ToolState ==
  {<<"idle">>, <<"track", CLOSED, CLOSED>>, <<"open", CLOSED>>, <<"open", OPEN>>}
    \cup {<<"track", OPEN, mode>> : mode \in Modes}
    \cup {<<"track only", mode>> : mode \in Modes}
    \cup {<<"reset", k>> : k \in 1 .. 7}

\* Words and locals have their types, and the paging lock has one holder, who
\* is in the fault handler.
TypeOK ==
  /\ open_ \in {CLOSED, OPEN} /\ track_ \in Track
  /\ {total_count, tracked_aet_magic_count1, hash_conflict_num, node_count,
      tot_ref, page_fault_count, set_num, ops} \subseteq Nat
  /\ hns \subseteq Mfn /\ pf \in [Mfn -> Nat]
  /\ pds \in [0 .. (MAX_PENDING_PAGE - 1) -> Table \cup {NoTable}]
  /\ holder \subseteq Cpu /\ \A c, d \in holder : c = d
  /\ pc \in [Cpu -> {"guest", "exit"} \cup HookPlace \cup CountPlace \cup LogPlace
                     \cup LockPlace]
  /\ ret \in [Cpu -> {"guest", "page", "track", "user", "magic"}]
  /\ reg \in [Cpu -> Nat \cup Table] /\ j \in [Cpu -> Nat]
  /\ \A c \in Cpu :
       /\ InHandler(c) => c \in holder
       /\ pc[c] \in {"count_store", "note", "bump", "num_store"} => reg[c] \in Nat
       /\ pc[c] \in {"room", "fill"} => reg[c] \in Table
  /\ asked \in [Cpu -> SUBSET (Track \cup {NoMode})]
  /\ tool \in ToolState
  /\ exits \in 0 .. ExitBound
  /\ {session, before} \subseteq Modes \cup {NoMode}
  /\ torn \in BOOLEAN /\ raced \in BOOLEAN
  /\ overtaken \in [Cpu -> Nat]

\* Processor c goes from one place to another.
Step(c, from, to) == pc[c] = from /\ pc' = [pc EXCEPT ![c] = to]
Load(c, value) == reg' = [reg EXCEPT ![c] = value]
\* It calls the log with a place to return to, and returns there.
Call(c, from, to) == Step(c, from, "log") /\ ret' = [ret EXCEPT ![c] = to]
Return(c, from) == Step(c, from, ret[c]) /\ ret' = [ret EXCEPT ![c] = "guest"]
\* It is done with a test of the mode.
Forget(c) == asked' = [asked EXCEPT ![c] = {}]

-----------------------------------------------------------------------------
(* is_l1_track loads open_, then track_.                                   *)

\* The modes a test that begins now may report.  Closing stores CLOSED, which
\* is the value of L1_TRACK, in track_.
Possible ==
  {session, before} \cup (IF tool[1] # "idle" /\ session = NoMode
                          THEN {CLOSED} ELSE {})

LoadOpen(c, from, open, closed) ==
  /\ \/ open_ = OPEN /\ Step(c, from, open)
        /\ asked' = [asked EXCEPT ![c] = Possible]
     \/ open_ # OPEN /\ Step(c, from, closed) /\ UNCHANGED asked
  /\ UNCHANGED <<control, counters, pending, holder, local, command, torn>>

LoadTrack(c, from, yes, no) ==
  /\ \/ track_ = L1_TRACK /\ Step(c, from, yes) /\ UNCHANGED asked
     \/ track_ # L1_TRACK /\ Step(c, from, no) /\ Forget(c)
  /\ UNCHANGED <<control, counters, pending, holder, local, command, torn>>

-----------------------------------------------------------------------------
(* add_user_mode_fault_count and add_set_aet_magic_count append to tvs.    *)

\* Variant: no entry is kept free.
HasRoomNoSlack == total_count < MAX_ARRAY_SIZE

HasRoom == total_count + LogSlack < MAX_ARRAY_SIZE

LogTest(c) ==
  /\ \/ HasRoom /\ Step(c, "log", "append")
        /\ UNCHANGED ret
     \/ ~ HasRoom /\ Return(c, "log")
  /\ UNCHANGED <<control, counters, pending, holder, reg, j, exits, command, asked,
                 torn>>

\* Fills tvs[total_count] and loads total_count for the increment.
LogAppend(c) ==
  /\ Step(c, "append", "bump")
  /\ Load(c, total_count)
  /\ UNCHANGED <<control, counters, pending, holder, ret, j, exits, command,
                 asked, torn>>

LogBump(c) ==
  /\ Return(c, "bump")
  /\ total_count' = reg[c] + 1
  /\ Load(c, 0)
  /\ UNCHANGED <<control, recorder, pending, holder, j, exits, command, asked, torn>>

-----------------------------------------------------------------------------
(* The VM-exit hook: set_pending_page.                                     *)

Exit(c) ==
  /\ exits < ExitBound
  /\ exits' = exits + 1
  /\ \E from \in {"guest", "exit", "fault"} : Step(c, from, "hook")
  /\ UNCHANGED <<control, counters, pending, holder, ret, reg, j, command, asked,
                 torn>>

HookTest(c) ==
  \/ LoadOpen(c, "hook", "hook_track", "exit")
  \/ LoadTrack(c, "hook_track", "hook_num", "exit")

HookBegin(c) ==
  /\ Step(c, "hook_num", IF set_num = 0 THEN "exit" ELSE "tag")
  /\ Forget(c)
  /\ UNCHANGED <<control, counters, pending, holder, local, command, torn>>

HookPage(c) ==
  /\ j[c] < set_num
  /\ Step(c, "tag", "page")
  /\ UNCHANGED <<control, counters, pending, holder, local, command, asked, torn>>

\* An entry of the page of pds[j] is tagged and logged.  The page may have any
\* number of them.
HookTag(c) ==
  /\ Call(c, "page", "page")
  /\ UNCHANGED <<control, counters, pending, holder, reg, j, exits, command, asked,
                 torn>>

HookNext(c) ==
  /\ Step(c, "page", "tag")
  /\ j' = [j EXCEPT ![c] = @ + 1]
  /\ UNCHANGED <<control, counters, pending, holder, ret, reg, exits, command,
                 asked, torn>>

HookLeave(c) ==
  /\ ~ (j[c] < set_num)
  /\ Step(c, "tag", "clear")
  /\ j' = [j EXCEPT ![c] = 0]
  /\ UNCHANGED <<control, counters, pending, holder, ret, reg, exits, command,
                 asked, torn>>

HookClear(c) ==
  /\ Step(c, "clear", "exit")
  /\ set_num' = 0
  /\ UNCHANGED <<control, counters, pds, holder, local, command, asked, torn>>

-----------------------------------------------------------------------------
(* The fault handler.                                                      *)

\* The exit was a shadow fault: is_l1_track() || is_page_fault_count().  Its loads
\* of the flags are one step: nothing else is done between them, and the tool is
\* the only one to store.
Fault(c) ==
  /\ Step(c, "exit", IF open_ = OPEN /\ track_ \in {L1_TRACK, PAGE_FAULT_COUNT}
                     THEN "count" ELSE "fault")
  /\ UNCHANGED <<control, counters, pending, holder, local, command, asked, torn>>

\* add_page_fault_count, before the lock.
CountLoad(c) ==
  /\ Step(c, "count", "count_store")
  /\ Load(c, page_fault_count)
  /\ raced' = (raced \/ tool[1] = "reset")
  /\ UNCHANGED <<control, total_count, nodes, page_fault_count, overtaken, pending,
                 holder, ret, j, exits, command, asked, torn>>

CountStore(c) ==
  /\ Step(c, "count_store", "fault")
  /\ page_fault_count' = reg[c] + 1
  /\ Load(c, 0)
  /\ overtaken' = [d \in Cpu |-> IF d # c /\ pc[d] = "count_store"
                                 THEN overtaken[d] + 1 ELSE 0]
  /\ raced' = (raced \/ overtaken[c] >= 2)
  /\ UNCHANGED <<control, total_count, nodes, pending, holder, ret, j, exits,
                 command, asked, torn>>

\* Variant: the lock does not exclude.
LockShared(c) ==
  /\ holder' = holder \cup {c}
  /\ \/ Call(c, "fault", "track")
     \/ Step(c, "fault", "user") /\ UNCHANGED ret
  /\ torn' = (torn \/ tool[1] = "reset")
  /\ UNCHANGED <<control, counters, pending, reg, j, exits, command, asked>>

\* paging_lock; the entry is tagged, or not.
Lock(c) ==
  /\ holder = {}
  /\ holder' = {c}
  /\ \/ Call(c, "fault", "track")
     \/ Step(c, "fault", "user") /\ UNCHANGED ret
  /\ torn' = (torn \/ tool[1] = "reset")
  /\ UNCHANGED <<control, counters, pending, reg, j, exits, command, asked>>

\* track_aet_fault loads page_fault_count, to save it with the frame.
TrackLoad(c) ==
  /\ Step(c, "track", "note")
  /\ Load(c, page_fault_count)
  /\ UNCHANGED <<control, counters, pending, holder, ret, j, exits, command, asked,
                 torn>>

\* The outcome of track_aet_fault, and add_tracked_aet_magic_count1.  The lock
\* covers these words against everything but `xc -r'.
CountedOutcome(c, refs, added, conflicts) ==
  /\ tot_ref' = tot_ref + refs
  /\ node_count' = node_count + added
  /\ hash_conflict_num' = hash_conflict_num + conflicts
  /\ tracked_aet_magic_count1' = tracked_aet_magic_count1 + 1
  /\ Load(c, 0)
  /\ UNCHANGED <<control, total_count, page_fault_count, overtaken, raced, pending,
                 holder, j, exits, command, asked, torn>>

Save(c, mfn) == pf' = [pf EXCEPT ![mfn] = reg[c]]

\* A frame of the hash; a second log entry is made or not, as the counter is.
TrackFound(c, mfn) ==
  /\ mfn \in hns
  /\ CountedOutcome(c, 1, 0, 0)
  /\ \/ Call(c, "note", "user")
     \/ Step(c, "note", "user") /\ UNCHANGED ret
  /\ Save(c, mfn)
  /\ UNCHANGED hns

TrackInsert(c, mfn) ==
  /\ mfn \notin hns
  /\ Cardinality(hns) < HASH_CONFLICT_NUM
  /\ Step(c, "note", "user")
  /\ hns' = hns \cup {mfn}
  /\ CountedOutcome(c, 0, 1, 0)
  /\ Save(c, mfn)
  /\ UNCHANGED ret

\* The bucket is full, and page_fault_count is not loaded.
TrackConflict(c, mfn) ==
  /\ mfn \notin hns
  /\ Cardinality(hns) >= HASH_CONFLICT_NUM
  /\ Step(c, "track", "user")
  /\ CountedOutcome(c, 0, 0, 1)
  /\ UNCHANGED <<hns, pf, ret>>

\* A user-mode fault asks is_l1_track again before it queues the page.
RequestTest(c) ==
  \/ LoadOpen(c, "user", "user_track", "unlock")
  \/ LoadTrack(c, "user_track", "scan", "unlock")

\* set_aet_magic returns at once unless the page is one of the first of its
\* region.
PassMagic(c) ==
  /\ Step(c, "scan", "unlock")
  /\ Forget(c)
  /\ UNCHANGED <<control, counters, pending, holder, local, command, torn>>

\* add_to_pending_page loads set_num four times: for the search, for the bound,
\* for the store, and for the increment.
Search(c, sl1mfn) ==
  /\ Step(c, "scan", IF \E i \in 0 .. (set_num - 1) : pds[i] = sl1mfn
                     THEN "magic" ELSE "room")
  /\ Load(c, sl1mfn)
  /\ Forget(c)
  /\ UNCHANGED <<control, counters, pending, holder, ret, j, exits, command, torn>>

Room(c) ==
  /\ Step(c, "room", IF set_num >= MAX_PENDING_PAGE THEN "magic" ELSE "fill")
  /\ UNCHANGED <<control, counters, pending, holder, local, command, asked, torn>>

Fill(c) ==
  /\ Step(c, "fill", "num")
  /\ pds' = [pds EXCEPT ![set_num] = reg[c]]
  /\ UNCHANGED <<control, counters, set_num, holder, local, command, asked, torn>>

NumLoad(c) ==
  /\ Step(c, "num", "num_store")
  /\ Load(c, set_num)
  /\ UNCHANGED <<control, counters, pending, holder, ret, j, exits, command,
                 asked, torn>>

NumStore(c) ==
  /\ Step(c, "num_store", "magic")
  /\ set_num' = reg[c] + 1
  /\ Load(c, 0)
  /\ UNCHANGED <<control, counters, pds, holder, ret, j, exits, command, asked, torn>>

\* set_aet_magic logs the entries that are to be tagged.
LogMagic(c) ==
  /\ Call(c, "magic", "magic")
  /\ UNCHANGED <<control, counters, pending, holder, reg, j, exits, command, asked,
                 torn>>

Unlock(c) ==
  /\ \E from \in {"user", "magic", "unlock"} : Step(c, from, "guest")
  /\ holder' = {}
  /\ Load(c, 0)
  /\ UNCHANGED <<control, counters, pending, ret, j, exits, command, asked, torn>>

-----------------------------------------------------------------------------
(* The tool in dom0: SET_OPEN and SET_TRACK hypercalls, and `xc -r'.       *)

Begin(op) ==
  /\ tool = <<"idle">>
  /\ ops < ToolBound
  /\ ops' = ops + 1
  /\ tool' = op

\* Tests of the mode that are under way may report the mode asked for.
Ask(mode) ==
  /\ session' = mode
  /\ before' = session
  /\ asked' = [c \in Cpu |-> IF asked[c] = {} THEN {}
                             ELSE asked[c] \cup {mode} \cup
                                    (IF mode = NoMode THEN {CLOSED} ELSE {})]

set_aet_cmd ==
  /\ \/ \E mode \in Modes : Begin(<<"track", OPEN, mode>>) /\ Ask(mode)
     \/ Begin(<<"track", CLOSED, CLOSED>>) /\ Ask(NoMode)
     \/ \E mode \in Modes :
          open_ = OPEN /\ Begin(<<"track only", mode>>) /\ Ask(mode)
  /\ UNCHANGED <<control, counters, pending, holder, pc, local, torn>>

Done == tool' = <<"idle">> /\ before' = session

\* Variant: open_ first.
StoreFlagSwapped ==
  \/ /\ tool[1] = "track"
     /\ open_' = tool[2]
     /\ tool' = <<"open", tool[3]>>
     /\ UNCHANGED <<track_, before>>
  \/ tool[1] = "open" /\ track_' = tool[2] /\ Done /\ UNCHANGED open_
  \/ tool[1] = "track only" /\ track_' = tool[2] /\ Done /\ UNCHANGED open_

\* set_aet_track_open stores track_, then open_; set_track stores track_.
StoreFlag ==
  \/ /\ tool[1] = "track"
     /\ track_' = tool[3]
     /\ tool' = <<"open", tool[2]>>
     /\ UNCHANGED <<open_, before>>
  \/ tool[1] = "open" /\ open_' = tool[2] /\ Done /\ UNCHANGED track_
  \/ tool[1] = "track only" /\ track_' = tool[2] /\ Done /\ UNCHANGED open_

set_aet_track_open ==
  /\ StoreFlag
  /\ UNCHANGED <<counters, pending, holder, pc, local, ops, session, asked, torn>>

\* Variant: node_count_ is forgotten.
FieldForgotten ==
  <<"total_count", "tracked1", "page_faults", "conflicts", "hns", "tot_ref">>

\* Variant: hns_ is forgotten.
FieldHashKept ==
  <<"total_count", "tracked1", "page_faults", "conflicts", "node_count", "tot_ref">>

\* The fields `xc -r' clears, in its order.
Field == <<"total_count", "tracked1", "page_faults", "conflicts", "hns",
           "node_count", "tot_ref">>

ResetBegin ==
  /\ Begin(<<"reset", 1>>)
  /\ torn' = (holder # {})
  /\ raced' = (\E c \in Cpu : pc[c] = "count_store")
  /\ UNCHANGED <<control, total_count, nodes, page_fault_count, overtaken, pending,
                 holder, pc, local, session, before, asked>>

Cleared(field, value, zero) == IF Field[tool[2]] = field THEN zero ELSE value

reset ==
  /\ tool[1] = "reset"
  /\ total_count' = Cleared("total_count", total_count, 0)
  /\ tracked_aet_magic_count1' = Cleared("tracked1", tracked_aet_magic_count1, 0)
  /\ page_fault_count' = Cleared("page_faults", page_fault_count, 0)
  /\ hash_conflict_num' = Cleared("conflicts", hash_conflict_num, 0)
  /\ hns' = Cleared("hns", hns, {})
  /\ pf' = Cleared("hns", pf, [mfn \in Mfn |-> 0])
  /\ node_count' = Cleared("node_count", node_count, 0)
  /\ tot_ref' = Cleared("tot_ref", tot_ref, 0)
  /\ tool' = IF tool[2] = Len(Field) THEN <<"idle">> ELSE <<"reset", tool[2] + 1>>
  /\ UNCHANGED <<control, pending, holder, pc, local, ops, session, before, asked,
                 torn, overtaken, raced>>

-----------------------------------------------------------------------------
Handler(c) ==
  \/ Exit(c) \/ HookTest(c) \/ HookBegin(c) \/ HookPage(c) \/ HookTag(c)
  \/ HookNext(c) \/ HookLeave(c) \/ HookClear(c) \/ LogTest(c) \/ LogAppend(c) \/ LogBump(c)
  \/ Fault(c) \/ CountLoad(c) \/ CountStore(c) \/ Lock(c) \/ TrackLoad(c)
  \/ \E mfn \in Mfn :
       TrackFound(c, mfn) \/ TrackInsert(c, mfn) \/ TrackConflict(c, mfn)
  \/ RequestTest(c) \/ PassMagic(c) \/ \E sl1mfn \in Table : Search(c, sl1mfn)
  \/ Room(c) \/ Fill(c) \/ NumLoad(c) \/ NumStore(c) \/ LogMagic(c) \/ Unlock(c)

Tool == set_aet_cmd \/ set_aet_track_open \/ ResetBegin \/ reset

Next == Tool \/ \E c \in Cpu : Handler(c)

Spec == Init /\ [][Next]_vars

-----------------------------------------------------------------------------
\* An append to tvs stays in the array, although the hook appends without a
\* lock and `xc -r' clears total_count meanwhile: whatever total_count is
\* between the test and the increment, the slot it names exists.
LogWithinArray ==
  \A c \in Cpu : pc[c] = "append" => total_count < MAX_ARRAY_SIZE

\* The pending set keeps its bound, and no page is in it twice, although the
\* hooks of all processors clear set_num while a fault adds to the set.
PendingSound ==
  /\ set_num <= MAX_PENDING_PAGE
  /\ \A i, k \in 0 .. (set_num - 1) : pds[i] = pds[k] => i = k

\* A processor queues or tags pages only in a mode that was in force or asked
\* for since its test of the mode began: opening a session for counting page
\* faults never lets it act on the mode of an earlier session.  Only closing
\* does, since CLOSED is the value of L1_TRACK.
ModeWasAsked ==
  \A c \in Cpu : pc[c] \in {"hook_num", "scan"} => L1_TRACK \in asked[c]

\* The paging lock and `xc -r' keep the counters in agreement: outside the
\* handlers node_count_ is the number of frames in the hash and every tagged
\* fault is counted once, unless a reset overlapped a handler; the next one
\* that does not overlap repairs it.
CountersAgree ==
  holder = {} /\ tool[1] # "reset" /\ ~ torn =>
    /\ node_count = Cardinality(hns)
    /\ tracked_aet_magic_count1 = node_count + tot_ref + hash_conflict_num

\* No frame of the hash has more faults saved with it than are counted, so that
\* page_fault_diff, the count less the saved one, does not wrap, although every
\* fault increments the count before it takes the lock and `xc -r' clears the
\* count long before the hash.  Losing one increment does no harm: it takes an
\* increment overtaken by two others, or a reset that overlaps an increment or
\* a handler; the next reset that overlaps none repairs it.
SavedCountNotAhead ==
  tool[1] # "reset" /\ ~ torn /\ ~ raced =>
    \A mfn \in hns : pf[mfn] <= page_fault_count
=============================================================================
