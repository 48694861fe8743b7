------------------------------ MODULE AetShadow ------------------------------
(***************************************************************************)
(* Sampling on the shadow page tables of one HVM domain (domain 1).        *)
(*                                                                         *)
(* A sample starts when set_pending_page (aet.c) tags a shadow L1 entry    *)
(* with reserved bits at a VM exit, and ends when the next access faults   *)
(* and sh_page_fault (multi.c) takes the tag off.  In between the other    *)
(* users of the shadow tables run: guest page-table writes, removal of     *)
(* write access or of all mappings of a frame, and destruction of a table. *)
(*                                                                         *)
(* Those users hold the paging lock.  set_pending_page does not, and its   *)
(* read-modify-write of an entry is two steps here (HookScan, HookTag).    *)
(*                                                                         *)
(* A guest L1 table composed with the p2m is gl1: the frame behind each    *)
(* guest page.  All guest mappings are user-writable, since no other can   *)
(* be tagged.  Page-table frames hold tables of other regions or levels.   *)
(* Out-of-sync L1 tables are not modelled.                                 *)
(***************************************************************************)
EXTENDS Integers, Sequences, FiniteSets

CONSTANTS
  Cpu,                   \* processors, each running a vCPU of the domain
  Table,                 \* shadow pages for L1 tables (sl1mfn)
  Region,                \* the 2MB regions of guest address space
  SLOTS,                 \* entries of an L1 table
  Frame,                 \* guest frames
  Removable,             \* those that may be taken from the domain
  CONSECUTIVE_SET_PAGE, MAX_PENDING_PAGE,
  VPID,                  \* cpu_has_vmx_vpid: VM exits keep the guest's TLB
  TagBound,              \* bound on the number of tags set
  NoFrame, NoCpu, NoPage

ASSUME TableAssumption == IsFiniteSet(Table) /\ SLOTS \in Nat \ {0}
ASSUME SampleAssumption == /\ CONSECUTIVE_SET_PAGE \in 1 .. SLOTS
                           /\ MAX_PENDING_PAGE \in Nat
                           /\ TagBound \in Nat
                           /\ VPID \in BOOLEAN
ASSUME FrameAssumption == Removable \subseteq Frame
ASSUME NoneAssumption == NoFrame \notin Frame /\ NoCpu \notin Cpu

Slot == 0 .. (SLOTS - 1)
Page == Region \X Slot
ASSUME NoPageAssumption == NoPage \notin Page

\* A shadow L1 entry: the frame, _PAGE_RW, and the AET magic.  _PAGE_USER is
\* cleared with the magic set and set with it cleared.
Entry == [mfn : Frame \cup {NoFrame}, rw : BOOLEAN, magic : BOOLEAN]
Empty == [mfn |-> NoFrame, rw |-> FALSE, magic |-> FALSE]
Present(e) == e.mfn # NoFrame
pending_node == [sl1mfn : Table, va : Region]

VARIABLES
  gl1,                  \* the frame the guest maps at each page
  p2m,                  \* frames the domain has
  readonly,             \* frames used as guest page tables
  live, covers, sl1,    \* tables in use, the region of each, their entries
  count, type_count,    \* references, writable references held by shadows
  tlb,                  \* cached translations of each processor
  open,                 \* is_l1_track()
  pds,                  \* the pending set
  pc, page, node, slot, seen,   \* progress of each processor in a VM exit
  lock,                 \* holder of the paging lock
  tags,                 \* number of tags set
  crashed               \* domain_crash was called

guest == <<gl1, p2m, readonly>>
shadow == <<live, covers, sl1>>
refs == <<count, type_count>>
cpu == <<pc, page, node, slot, seen>>
vars == <<guest, shadow, refs, tlb, open, pds, cpu, lock, tags, crashed>>

TypeOK ==
  /\ gl1 \in [Page -> Frame \cup {NoFrame}]
  /\ p2m \in SUBSET Frame
  /\ readonly \in SUBSET Frame
  /\ live \in SUBSET Table
  /\ covers \in [Table -> Region]
  /\ sl1 \in [Table -> [Slot -> Entry]]
  /\ count \in [Frame -> Nat]
  /\ type_count \in [Frame -> Nat]
  /\ tlb \in [Cpu -> SUBSET [page : Page, mfn : Frame, rw : BOOLEAN]]
  /\ open \in BOOLEAN
  /\ pds \in Seq(pending_node)
  /\ pc \in [Cpu -> {"guest", "exit", "next", "scan", "tag", "dispatch", "set"}]
  /\ page \in [Cpu -> Page \cup {NoPage}]
  /\ node \in [Cpu -> Nat]
  /\ slot \in [Cpu -> 0 .. SLOTS]
  /\ seen \in [Cpu -> (pending_node \X Entry) \cup {<< >>}]
  /\ lock \in Cpu \cup {NoCpu}
  /\ tags \in Nat
  /\ crashed \in BOOLEAN

Init ==
  /\ gl1 = [p \in Page |-> NoFrame]
  /\ p2m = Frame
  /\ readonly = {}
  /\ live = {}
  /\ covers \in [Table -> Region]
  /\ sl1 = [t \in Table |-> [s \in Slot |-> Empty]]
  /\ count = [f \in Frame |-> 0]
  /\ type_count = [f \in Frame |-> 0]
  /\ tlb = [c \in Cpu |-> {}]
  /\ open = FALSE
  /\ pds = << >>
  /\ pc = [c \in Cpu |-> "guest"]
  /\ page = [c \in Cpu |-> NoPage]
  /\ node = [c \in Cpu |-> 1]
  /\ slot = [c \in Cpu |-> 0]
  /\ seen = [c \in Cpu |-> << >>]
  /\ lock = NoCpu
  /\ tags = 0
  /\ crashed = FALSE

-----------------------------------------------------------------------------
(* Shadow entries and the references they hold.                            *)

\* The table that shadows a region, if any.
TablesOf(r) == {t \in live : covers[t] = r}

\* l1e_propagate_from_guest: guest page tables are never mapped writable.
Propagated(f) ==
  IF f = NoFrame THEN Empty
  ELSE [mfn |-> f, rw |-> f \notin readonly, magic |-> FALSE]

At(table, ts) == table[ts[1]][ts[2]]
Mapping(table, f) == {ts \in Table \X Slot : At(table, ts).mfn = f}
Writable(table, f) == {ts \in Mapping(table, f) : At(table, ts).rw}

\* The frame of a tagged entry is not a valid one (its top bits are set), and
\* put_page_from_l1e returns early for such a frame.
Puttable(table, tss) == {ts \in tss : ~ At(table, ts).magic}

\* Variant: no new reference is taken when the entry keeps its frame, yet the
\* old one is dropped.
SetWithoutReference(old, new) ==
  LET set == {ts \in Table \X Slot : At(old, ts) # At(new, ts)}
      Moved == {ts \in set : At(old, ts).mfn # At(new, ts).mfn}
      Net(got, put) == Cardinality(got \cap Moved)
                         - Cardinality(Puttable(old, put \cap set))
  IN  /\ sl1' = new
      /\ count' = [f \in Frame |->
                     count[f] + Net(Mapping(new, f), Mapping(old, f))]
      /\ type_count' = [f \in Frame |->
                          type_count[f] + Net(Writable(new, f), Writable(old, f))]

\* shadow_set_l1e on every entry in which the tables differ: a reference for
\* each new entry, and the reference of the old one dropped.
shadow_set_l1e(old, new) ==
  LET set == {ts \in Table \X Slot : At(old, ts) # At(new, ts)}
      Net(got, put) == Cardinality(got \cap set)
                         - Cardinality(Puttable(old, put \cap set))
  IN  /\ sl1' = new
      /\ count' = [f \in Frame |->
                     count[f] + Net(Mapping(new, f), Mapping(old, f))]
      /\ type_count' = [f \in Frame |->
                          type_count[f] + Net(Writable(new, f), Writable(old, f))]

\* Variant: flush_tlb_mask is forgotten.
NoFlush == UNCHANGED tlb

\* flush_tlb_mask on the domain's dirty processors.
FlushAll == tlb' = [c \in Cpu |-> {}]

\* The place a processor is at; a crash of the domain ends the model.
In(c, place) == pc[c] = place /\ ~ crashed

-----------------------------------------------------------------------------
(* The processor in guest mode.                                            *)

\* The hardware caches a translation; a tagged entry has reserved bits set and
\* yields none.
Fill(c, p) ==
  /\ In(c, "guest")
  /\ \E t \in TablesOf(p[1]) :
       LET e == sl1[t][p[2]]
       IN  /\ Present(e)
           /\ ~ e.magic
           /\ tlb' = [tlb EXCEPT ![c] =
                        {x \in @ : x.page # p}
                          \cup {[page |-> p, mfn |-> e.mfn, rw |-> e.rw]}]
  /\ UNCHANGED <<guest, shadow, refs, open, pds, cpu, lock, tags, crashed>>

\* A VM exit, for a page fault at p or (NoPage) for any other reason.  A fault
\* drops the faulting translation; without VPIDs the exit drops all.
VmExit(c, p) ==
  /\ In(c, "guest")
  /\ p # NoPage =>
       /\ \A t \in TablesOf(p[1]) : sl1[t][p[2]].magic \/ ~ sl1[t][p[2]].rw
       /\ \A x \in tlb[c] : x.page = p => ~ x.rw
  /\ tlb' = [tlb EXCEPT ![c] = IF VPID THEN {x \in @ : x.page # p} ELSE {}]
  /\ pc' = [pc EXCEPT ![c] = "exit"]
  /\ page' = [page EXCEPT ![c] = p]
  /\ UNCHANGED <<guest, shadow, refs, open, pds, node, slot, seen, lock, tags,
                 crashed>>

-----------------------------------------------------------------------------
(* vmx_vmexit_handler's hook: set_pending_page, without the paging lock.   *)

\* No L1 sampling session, or set_num is 0.
SkipHook(c) ==
  /\ In(c, "exit")
  /\ ~ open \/ pds = << >>
  /\ pc' = [pc EXCEPT ![c] = "dispatch"]
  /\ UNCHANGED <<guest, shadow, refs, tlb, open, pds, page, node, slot, seen,
                 lock, tags, crashed>>

BeginHook(c) ==
  /\ In(c, "exit")
  /\ open /\ pds # << >>
  /\ tags < TagBound
  /\ pc' = [pc EXCEPT ![c] = "next"]
  /\ node' = [node EXCEPT ![c] = 1]
  /\ UNCHANGED <<guest, shadow, refs, tlb, open, pds, page, slot, seen,
                 lock, tags, crashed>>

\* The outer loop: skip a pending page that is no L1 shadow any more, or start
\* on its first CONSECUTIVE_SET_PAGE entries.
HookNext(c) ==
  /\ In(c, "next")
  /\ node[c] <= Len(pds)
  /\ node' = [node EXCEPT ![c] = @ + 1]
  /\ IF pds[node[c]].sl1mfn \in live
     THEN /\ pc' = [pc EXCEPT ![c] = "scan"]
          /\ slot' = [slot EXCEPT ![c] = 0]
          /\ seen' = [seen EXCEPT ![c] = <<pds[node[c]], Empty>>]
     ELSE UNCHANGED <<pc, slot, seen>>
  /\ UNCHANGED <<guest, shadow, refs, tlb, open, pds, page, lock, tags, crashed>>

\* The inner loop reads an entry and decides whether to tag it.
HookScan(c) ==
  LET pending == seen[c][1]
      e == sl1[pending.sl1mfn][slot[c]]
  IN  /\ In(c, "scan")
      /\ \/ /\ slot[c] < CONSECUTIVE_SET_PAGE
            /\ Present(e) /\ e.rw /\ ~ e.magic
            /\ seen' = [seen EXCEPT ![c] = <<pending, e>>]
            /\ pc' = [pc EXCEPT ![c] = "tag"]
            /\ UNCHANGED slot
         \/ /\ slot[c] < CONSECUTIVE_SET_PAGE
            /\ ~ (Present(e) /\ e.rw /\ ~ e.magic)
            /\ slot' = [slot EXCEPT ![c] = @ + 1]
            /\ UNCHANGED <<pc, seen>>
         \/ /\ slot[c] = CONSECUTIVE_SET_PAGE
            /\ pc' = [pc EXCEPT ![c] = "next"]
            /\ UNCHANGED <<slot, seen>>
      /\ UNCHANGED <<guest, shadow, refs, tlb, open, pds, page, node, lock, tags,
                     crashed>>

\* The tag is set, on the entry that was read or, if another processor wrote it
\* in between, on what is there now: the update is neither atomic nor locked.
\* The address (as recorded in the pending set) is flushed on this processor;
\* INVLPG in root mode does not reach translations of the guest's VPID.
HookTag(c) ==
  LET pending == seen[c][1]
      p == <<pending.va, slot[c]>>
  IN  /\ In(c, "tag")
      /\ \E e \in {seen[c][2], sl1[pending.sl1mfn][slot[c]]} :
           sl1' = [sl1 EXCEPT ![pending.sl1mfn][slot[c]] =
                     [e EXCEPT !.magic = TRUE]]
      /\ tlb' = IF VPID THEN tlb
                ELSE [tlb EXCEPT ![c] = {x \in @ : x.page # p}]
      /\ slot' = [slot EXCEPT ![c] = @ + 1]
      /\ tags' = tags + 1
      /\ pc' = [pc EXCEPT ![c] = "scan"]
      /\ UNCHANGED <<guest, live, covers, refs, open, pds, page, node, seen, lock,
                     crashed>>

HookEnd(c) ==
  /\ In(c, "next")
  /\ node[c] > Len(pds)
  /\ pds' = << >>
  /\ pc' = [pc EXCEPT ![c] = "dispatch"]
  /\ node' = [node EXCEPT ![c] = 1]
  /\ slot' = [slot EXCEPT ![c] = 0]
  /\ seen' = [seen EXCEPT ![c] = << >>]
  /\ UNCHANGED <<guest, shadow, refs, tlb, open, page, lock, tags, crashed>>

-----------------------------------------------------------------------------
(* sh_page_fault, with the paging lock.                                    *)

\* Variant: without the search for a duplicate.
QueuedTwice(t, p) ==
  IF p[2] < CONSECUTIVE_SET_PAGE /\ Len(pds) < MAX_PENDING_PAGE
  THEN Append(pds, [sl1mfn |-> t, va |-> p[1]]) ELSE pds

\* set_aet_magic, add_to_pending_page: the table is queued for tagging if the
\* page is among its first ones, the table is not queued yet and there is room.
Queued(t, p) ==
  IF /\ p[2] < CONSECUTIVE_SET_PAGE
     /\ \A n \in 1 .. Len(pds) : pds[n].sl1mfn # t
     /\ Len(pds) < MAX_PENDING_PAGE
  THEN Append(pds, [sl1mfn |-> t, va |-> p[1]]) ELSE pds

\* The guest maps nothing there: the fault is passed on to it.
PassFault(c) ==
  /\ In(c, "dispatch")
  /\ page[c] # NoPage
  /\ gl1[page[c]] = NoFrame
  /\ pc' = [pc EXCEPT ![c] = "guest"]
  /\ page' = [page EXCEPT ![c] = NoPage]
  /\ UNCHANGED <<guest, shadow, refs, tlb, open, pds, node, slot, seen, lock,
                 tags, crashed>>

\* Variant: the shadow page is handed out with its old contents.
MakeDirtyShadow(c) ==
  /\ In(c, "dispatch")
  /\ page[c] # NoPage
  /\ gl1[page[c]] # NoFrame
  /\ lock = NoCpu
  /\ TablesOf(page[c][1]) = {}
  /\ \E t \in Table \ live :
       /\ live' = live \cup {t}
       /\ covers' = [covers EXCEPT ![t] = page[c][1]]
  /\ FlushAll
  /\ UNCHANGED <<guest, refs, sl1, open, pds, cpu, lock, tags, crashed>>

\* Without a table for the region a free shadow page is cleared and becomes one;
\* the allocator flushes the TLBs before it hands the page out.
sh_make_shadow(c) ==
  /\ In(c, "dispatch")
  /\ page[c] # NoPage
  /\ gl1[page[c]] # NoFrame
  /\ lock = NoCpu
  /\ TablesOf(page[c][1]) = {}
  /\ \E t \in Table \ live :
       /\ live' = live \cup {t}
       /\ covers' = [covers EXCEPT ![t] = page[c][1]]
       /\ sl1' = [sl1 EXCEPT ![t] = [s \in Slot |-> Empty]]
  /\ FlushAll
  /\ UNCHANGED <<guest, refs, open, pds, cpu, lock, tags, crashed>>

\* The AET block of sh_page_fault: after a user-mode fault the table is queued
\* again, and a tagged entry is zeroed (reverse_l1_aet_magic).
AetBlock(c, user) ==
  /\ In(c, "dispatch")
  /\ page[c] # NoPage
  /\ gl1[page[c]] # NoFrame
  /\ lock = NoCpu
  /\ \E t \in TablesOf(page[c][1]) :
       /\ pds' = IF user /\ open THEN Queued(t, page[c]) ELSE pds
       /\ sl1' = IF sl1[t][page[c][2]].magic
                 THEN [sl1 EXCEPT ![t][page[c][2]] = Empty] ELSE sl1
  /\ lock' = c
  /\ pc' = [pc EXCEPT ![c] = "set"]
  /\ UNCHANGED <<guest, live, covers, refs, tlb, open, page, node, slot, seen,
                 tags, crashed>>

\* The entries from s on that one fault may fill: the faulting one and, until
\* an entry that is not empty or needs a fault of its own, those after it.
Fillable(t, s) ==
  {n \in Slot : n >= s /\ \A k \in (s + 1) .. n : ~ Present(sl1[t][k])}

\* The faulting entry is propagated from the guest's, following ones are
\* prefetched, and the lock is dropped.
SetEntry(c) ==
  /\ In(c, "set")
  /\ \E t \in TablesOf(page[c][1]) :
       \E last \in Fillable(t, page[c][2]) :
         shadow_set_l1e(sl1,
           [sl1 EXCEPT ![t] = [s \in Slot |->
              IF s \in page[c][2] .. last THEN Propagated(gl1[<<page[c][1], s>>])
              ELSE @[s]]])
  /\ lock' = NoCpu
  /\ pc' = [pc EXCEPT ![c] = "guest"]
  /\ page' = [page EXCEPT ![c] = NoPage]
  /\ UNCHANGED <<guest, live, covers, tlb, open, pds, node, slot, seen, tags,
                 crashed>>

-----------------------------------------------------------------------------
(* The other users of the shadow tables, in other VM exits, with the lock. *)

Locked(c) == In(c, "dispatch") /\ lock = NoCpu

\* The exit is handled; back to the guest.
Return(c) ==
  /\ In(c, "dispatch")
  /\ page[c] = NoPage
  /\ pc' = [pc EXCEPT ![c] = "guest"]
  /\ UNCHANGED <<guest, shadow, refs, tlb, open, pds, page, node, slot, seen,
                 lock, tags, crashed>>

\* An emulated guest page-table write (validate_gl1e), and the guest's own
\* flush of the address it changed.
GuestWrite(c, p, f) ==
  /\ Locked(c)
  /\ page[c] = NoPage
  /\ f \in p2m \cup {NoFrame}
  /\ gl1' = [gl1 EXCEPT ![p] = f]
  /\ shadow_set_l1e(sl1, [t \in Table |->
       IF t \in TablesOf(p[1]) THEN [sl1[t] EXCEPT ![p[2]] = Propagated(f)]
       ELSE sl1[t]])
  /\ FlushAll
  /\ UNCHANGED <<p2m, readonly, live, covers, open, pds, cpu, lock, tags, crashed>>

\* A frame stops being a page table.
shadow_demote(c, f) ==
  /\ Locked(c)
  /\ readonly' = readonly \ {f}
  /\ UNCHANGED <<gl1, p2m, shadow, refs, tlb, open, pds, cpu, lock, tags,
                 crashed>>

\* The entries sh_rm_write_access_from_l1 makes read-only, in the order of the
\* hash: it stops as soon as no writable reference is left.  A tagged entry is
\* untagged before it is looked at.
Excised(f) ==
  LET mapped == {ts \in Writable(sl1, f) : ts[1] \in live}
  IN  {P \in SUBSET mapped :
         Cardinality(P) = IF Cardinality(mapped) < type_count[f]
                          THEN Cardinality(mapped) ELSE type_count[f]}

\* Read-only entries the same walk may come across and untag; only a racing
\* set_pending_page tags one.
TaggedReadOnly(f) ==
  {ts \in Mapping(sl1, f) \ Writable(sl1, f) :
     ts[1] \in live /\ At(sl1, ts).magic}

With(table, P, e) ==
  [t \in Table |-> [s \in Slot |-> IF <<t, s>> \in P THEN e ELSE table[t][s]]]

\* sh_remove_write_access: level 1 when the frame becomes a page table, level 0
\* for other reasons, when it may fail.  A reference it cannot find crashes the
\* domain.
sh_remove_write_access(c, f, level) ==
  /\ Locked(c)
  /\ f \in p2m
  /\ readonly' = IF level = 0 THEN readonly ELSE readonly \cup {f}
  /\ IF f \in readonly \/ type_count[f] = 0
     THEN UNCHANGED <<sl1, refs, tlb, crashed>>
     ELSE \E P \in Excised(f), untagged \in SUBSET TaggedReadOnly(f) :
            LET entry(rw) == [mfn |-> f, rw |-> rw, magic |-> FALSE]
                walked == With(sl1, untagged, entry(FALSE))
            IN  /\ shadow_set_l1e(With(walked, P, entry(TRUE)),
                                  With(walked, P, entry(FALSE)))
                /\ crashed' = (level # 0 /\ type_count'[f] # 0)
                /\ IF level = 0 /\ type_count'[f] # 0
                   THEN UNCHANGED tlb ELSE FlushAll
  /\ UNCHANGED <<gl1, p2m, live, covers, open, pds, cpu, lock, tags>>

\* sh_unshadow_for_p2m_change, when a frame leaves the guest's p2m: it is no page
\* table any more, and sh_remove_all_mappings looks for the frame's number, which
\* a tagged entry does not show.
sh_remove_all_mappings(c, f) ==
  /\ Locked(c)
  /\ f \in p2m \cap Removable
  /\ p2m' = p2m \ {f}
  /\ gl1' = [p \in Page |-> IF gl1[p] = f THEN NoFrame ELSE gl1[p]]
  /\ IF count[f] = 0 THEN UNCHANGED <<sl1, refs, tlb>>
     ELSE /\ shadow_set_l1e(sl1,
               With(sl1, {ts \in Puttable(sl1, Mapping(sl1, f)) : ts[1] \in live},
                    Empty))
          /\ FlushAll
  /\ readonly' = readonly \ {f}
  /\ UNCHANGED <<live, covers, open, pds, cpu, lock, tags, crashed>>

\* A frame is given to the domain again, at some other address.
p2m_add_page(c, f) ==
  /\ Locked(c)
  /\ f \in Removable \ p2m
  /\ p2m' = p2m \cup {f}
  /\ UNCHANGED <<gl1, readonly, shadow, refs, tlb, open, pds, cpu, lock, tags,
                 crashed>>

\* sh_destroy_l1_shadow, and the flush of the caller that unhooked the table.
\* The contents stay in the page.
sh_destroy_l1_shadow(c, t) ==
  LET Held(tss) == Puttable(sl1, {ts \in tss : ts[1] = t})
  IN  /\ Locked(c)
      /\ t \in live
      /\ live' = live \ {t}
      /\ count' = [f \in Frame |->
                     count[f] - Cardinality(Held(Mapping(sl1, f)))]
      /\ type_count' = [f \in Frame |->
                          type_count[f] - Cardinality(Held(Writable(sl1, f)))]
      /\ FlushAll
      /\ UNCHANGED <<guest, covers, sl1, open, pds, cpu, lock, tags, crashed>>

\* SET_OPEN from dom0.
set_aet_track_open ==
  /\ ~ crashed
  /\ open' = ~ open
  /\ UNCHANGED <<guest, shadow, refs, tlb, pds, cpu, lock, tags, crashed>>

Hook(c) ==
  \/ SkipHook(c) \/ BeginHook(c) \/ HookNext(c) \/ HookScan(c) \/ HookTag(c)
  \/ HookEnd(c)

sh_page_fault(c) ==
  \/ PassFault(c) \/ sh_make_shadow(c) \/ SetEntry(c)
  \/ \E user \in BOOLEAN : AetBlock(c, user)

OtherExit(c) ==
  \/ Return(c)
  \/ \E p \in Page, f \in Frame \cup {NoFrame} : GuestWrite(c, p, f)
  \/ \E f \in Frame :
       \/ shadow_demote(c, f)
       \/ \E level \in {0, 1} : sh_remove_write_access(c, f, level)
       \/ sh_remove_all_mappings(c, f)
       \/ p2m_add_page(c, f)
  \/ \E t \in Table : sh_destroy_l1_shadow(c, t)

Next ==
  \/ \E c \in Cpu :
       \/ \E p \in Page : Fill(c, p)
       \/ \E p \in Page \cup {NoPage} : VmExit(c, p)
       \/ Hook(c)
       \/ sh_page_fault(c)
       \/ OtherExit(c)
  \/ set_aet_track_open

Spec == Init /\ [][Next]_vars

-----------------------------------------------------------------------------
LiveMapping(f) == {ts \in Mapping(sl1, f) : ts[1] \in live}
LiveWritable(f) == {ts \in Writable(sl1, f) : ts[1] \in live}

\* No frame is mapped by more shadow entries, tagged ones included, than it has
\* references: reverse_l1_aet_magic and the early return for tagged entries may
\* keep a reference too many, never one too few.
RefsCoverMappings ==
  \A f \in Frame :
    /\ count[f] >= Cardinality(LiveMapping(f))
    /\ type_count[f] >= Cardinality(LiveWritable(f))

\* A guest page table is not writable through any entry the hardware can use or
\* any cached translation, whatever tags were set and taken off in between.
PageTablesReadOnly ==
  \A f \in readonly :
    /\ Puttable(sl1, LiveWritable(f)) = {}
    /\ \A c \in Cpu : \A x \in tlb[c] : x.mfn = f => ~ x.rw

\* Entries the hardware can use, and cached translations, show what the guest
\* maps: an entry brought back by rm_write_access is never an outdated one.
TranslationsCurrent ==
  /\ \A t \in live, s \in Slot :
       LET e == sl1[t][s]
       IN  Present(e) /\ ~ e.magic => e.mfn = gl1[<<covers[t], s>>]
  /\ \A c \in Cpu : \A x \in tlb[c] : x.mfn = gl1[x.page]

\* The pending set holds each table once and never overflows its array.
PendingDistinct ==
  /\ Len(pds) <= MAX_PENDING_PAGE
  /\ \A m, n \in 1 .. Len(pds) : pds[m].sl1mfn = pds[n].sl1mfn => m = n

\* A frame whose write access cannot be removed has "some non-pagetable mapping":
\* there is none here, so the domain is not crashed.
OnlySpecialUseCrashes == ~ crashed
=============================================================================
