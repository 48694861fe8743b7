--------------------------- MODULE AetShadowProofs ---------------------------
(***************************************************************************)
(* The invariants of AetShadow for every set of tables, regions and frames, *)
(* every table size and every limit of the pending set.  Those of the      *)
(* pending set hold for any number of processors.  Those of references,    *)
(* write protection and translations are those of one processor: only then *)
(* is the entry that set_pending_page tags the one it has read.            *)
(***************************************************************************)
EXTENDS AetShadow, FiniteSetTheorems, TLAPS

\* The shapes of the tables, of cached translations, of what the hook has read and
\* of a processor's place.
Tables == [Table -> [Slot -> Entry]]
Translation == [page : Page, mfn : Frame, rw : BOOLEAN]
Sighting == pending_node \X Entry
Place == {"guest", "exit", "next", "scan", "tag", "dispatch", "set"}

\* The guest's mappings, frames and page tables.
GuestOK ==
  /\ gl1 \in [Page -> Frame \cup {NoFrame}]
  /\ p2m \in SUBSET Frame /\ readonly \in SUBSET Frame

\* A region has at most one table.
CoverOK ==
  /\ live \in SUBSET Table /\ covers \in [Table -> Region]
  /\ \A t, u \in live : covers[t] = covers[u] => t = u

EntriesOK == sl1 \in Tables
CachesOK == tlb \in [Cpu -> SUBSET Translation]

\* The pending set names each table once, and fits.
PendingOK ==
  /\ open \in BOOLEAN /\ pds \in Seq(pending_node) /\ PendingDistinct

\* A processor in the hook or the fault handler has the locals it works on.
PlaceOK(c) ==
  /\ pc[c] \in {"scan", "tag"} => seen[c] \in Sighting
  /\ pc[c] = "scan" => slot[c] <= CONSECUTIVE_SET_PAGE
  /\ pc[c] = "tag" => slot[c] < CONSECUTIVE_SET_PAGE
  /\ pc[c] = "set" => page[c] # NoPage

CpuOK ==
  /\ pc \in [Cpu -> Place]
  /\ page \in [Cpu -> Page \cup {NoPage}]
  /\ node \in [Cpu -> Nat \ {0}]
  /\ slot \in [Cpu -> 0 .. SLOTS]
  /\ seen \in [Cpu -> Sighting \cup {<< >>}]
  /\ lock \in Cpu \cup {NoCpu} /\ tags \in Nat /\ crashed \in BOOLEAN
  /\ \A c \in Cpu : PlaceOK(c)

\* One processor.
Uniprocessor == \A c, d \in Cpu : c = d

\* With one processor nobody writes an entry between HookScan and HookTag.
SeenCurrent ==
  \A c \in Cpu : pc[c] = "tag" => seen[c][2] = sl1[seen[c][1].sl1mfn][slot[c]]

\* The entry a fault is handled for is not writable, or tagged until the AET
\* block has zeroed it: setting it drops no writable reference.
FaultingEntry ==
  \A c \in Cpu : page[c] # NoPage =>
    \A t \in TablesOf(page[c][1]) :
      LET e == sl1[t][page[c][2]]
      IN  ~ e.rw \/ (e.magic /\ pc[c] # "set")

\* The counts are natural numbers and cover the entries.
CountsOK ==
  /\ count \in [Frame -> Nat] /\ type_count \in [Frame -> Nat]
  /\ RefsCoverMappings

\* A frame some processor has cached writable is no page table and has a writable
\* reference, which makes sh_remove_write_access flush.
CachedWritable ==
  \A c \in Cpu : \A x \in tlb[c] : x.rw => x.mfn \notin readonly /\ type_count[x.mfn] > 0

\* No entry the hardware can use maps a page table writable.
Usable ==
  \A t \in live, s \in Slot :
    sl1[t][s].rw /\ ~ sl1[t][s].magic => sl1[t][s].mfn \notin readonly

\* Tagged entries too hold what the guest maps, while no frame leaves the domain.
EntriesCurrent ==
  \A t \in live, s \in Slot :
    Present(sl1[t][s]) => sl1[t][s].mfn = gl1[<<covers[t], s>>]

\* Cached translations show what the guest maps.
CachedCurrent == \A c \in Cpu : \A x \in tlb[c] : x.mfn = gl1[x.page]

\* An entry made from a guest entry is well-formed and maps the guest's frame.
LEMMA PropagatedEntry ==
  ASSUME NEW f \in Frame \cup {NoFrame}
  PROVE  Propagated(f) \in Entry /\ Empty \in Entry /\ Propagated(f).mfn = f
BY Zenon DEF Propagated, Entry, Empty

\* l1e_propagate_from_guest never makes a page table writable.
LEMMA PropagatedReadOnly ==
  \A f : Propagated(f).rw => Propagated(f).mfn \notin readonly
BY Zenon DEF Propagated, Empty

\* An empty entry maps nothing and carries no tag.
LEMMA EmptyEntry == Empty \in Entry /\ Empty.mfn = NoFrame /\ ~ Empty.rw /\ ~ Empty.magic
BY Zenon DEF Entry, Empty

\* In the hook's inner loop the local copy of the pending node and of the entry
\* are well-formed.
LEMMA SeenShape ==
  ASSUME CpuOK, NEW c \in Cpu, pc[c] \in {"scan", "tag"}
  PROVE  /\ seen[c][1] \in pending_node /\ seen[c][2] \in Entry
         /\ seen[c][1].sl1mfn \in Table /\ seen[c][1].va \in Region
<1>1. seen[c] \in pending_node \X Entry
  BY Zenon DEF CpuOK, PlaceOK, Sighting
<1>2. QED
  BY <1>1, Zenon DEF pending_node

\* The sizes are natural numbers, and a sample fits into a table.
LEMMA Bounds ==
  /\ SLOTS \in Nat /\ CONSECUTIVE_SET_PAGE \in Nat /\ CONSECUTIVE_SET_PAGE > 0
  /\ CONSECUTIVE_SET_PAGE <= SLOTS /\ MAX_PENDING_PAGE \in Nat
BY TableAssumption, SampleAssumption

\* The region and the slot of a page.
LEMMA PageShape ==
  ASSUME NEW p \in Page
  PROVE  p[1] \in Region /\ p[2] \in Slot
BY Zenon DEF Page

\* Overwriting some entries with a well-formed one keeps the tables well-formed.
LEMMA WithTables ==
  ASSUME NEW table \in Tables, NEW P, NEW e \in Entry
  PROVE  With(table, P, e) \in Tables
BY Zenon DEF With, Tables

\* Every step keeps the guest's view well-formed.
LEMMA GuestStep ==
  ASSUME GuestOK, [Next]_vars PROVE GuestOK'
<1> USE DEF GuestOK, guest
<1>1. ASSUME NEW c \in Cpu, NEW p \in Page, NEW f \in Frame \cup {NoFrame},
             GuestWrite(c, p, f)
      PROVE  GuestOK'
  BY <1>1, Zenon DEF GuestWrite, Locked
<1>2. ASSUME NEW c \in Cpu, NEW f \in Frame,
             shadow_demote(c, f)
      PROVE  GuestOK'
  BY <1>2, Zenon DEF shadow_demote, Locked
<1>3. ASSUME NEW c \in Cpu, NEW f \in Frame, NEW level \in {0, 1},
             sh_remove_write_access(c, f, level)
      PROVE  GuestOK'
  BY <1>3, Zenon DEF sh_remove_write_access, Locked
<1>4. ASSUME NEW c \in Cpu, NEW f \in Frame,
             sh_remove_all_mappings(c, f)
      PROVE  GuestOK'
  BY <1>4, Zenon DEF sh_remove_all_mappings, Locked
<1>5. ASSUME NEW c \in Cpu, NEW f \in Frame,
             p2m_add_page(c, f)
      PROVE  GuestOK'
  BY <1>5, Zenon DEF p2m_add_page, Locked
<1>6. ASSUME NEW c \in Cpu,
              \/ (\E p \in Page : Fill(c, p))
              \/ (\E p \in Page \cup {NoPage} : VmExit(c, p)) \/ SkipHook(c)
              \/ BeginHook(c) \/ HookNext(c) \/ HookScan(c) \/ HookTag(c)
              \/ HookEnd(c) \/ PassFault(c) \/ sh_make_shadow(c)
              \/ (\E user \in BOOLEAN : AetBlock(c, user)) \/ SetEntry(c)
              \/ Return(c) \/ (\E t \in Table : sh_destroy_l1_shadow(c, t))
      PROVE  GuestOK'
  BY <1>6, Zenon DEF Fill, VmExit, SkipHook, BeginHook, HookNext, HookScan,
     HookTag, HookEnd, PassFault, sh_make_shadow, AetBlock, SetEntry, Return,
     sh_destroy_l1_shadow, Locked
<1>7. ASSUME set_aet_track_open \/ UNCHANGED vars PROVE GuestOK'
  BY <1>7, Zenon DEF set_aet_track_open, vars
<1>8. QED
  BY <1>1, <1>2, <1>3, <1>4, <1>5, <1>6, <1>7, Zenon DEF Next, Hook,
     sh_page_fault, OtherExit

\* No step gives a region a second table: sh_make_shadow runs only when there is
\* none, under the paging lock.
LEMMA CoverStep ==
  ASSUME CoverOK, CpuOK, [Next]_vars PROVE CoverOK'
<1> USE DEF CoverOK, shadow
<1>1. ASSUME NEW c \in Cpu, sh_make_shadow(c) PROVE CoverOK'
  <2>1. PICK t \in Table \ live :
          live' = live \cup {t} /\ covers' = [covers EXCEPT ![t] = page[c][1]]
    BY <1>1, Zenon DEF sh_make_shadow
  <2>2. page[c][1] \in Region /\ TablesOf(page[c][1]) = {}
    BY <1>1, PageShape, Zenon DEF sh_make_shadow, CpuOK
  <2>3. \A u \in live : covers[u] # page[c][1]
    BY <2>2, Zenon DEF TablesOf
  <2>4. QED
    BY <2>1, <2>2, <2>3
<1>2. ASSUME NEW c \in Cpu, NEW t \in Table,
             sh_destroy_l1_shadow(c, t)
      PROVE  CoverOK'
  BY <1>2, Zenon DEF sh_destroy_l1_shadow, Locked
<1>3. ASSUME NEW c \in Cpu,
              \/ (\E p \in Page : Fill(c, p))
              \/ (\E p \in Page \cup {NoPage} : VmExit(c, p)) \/ SkipHook(c)
              \/ BeginHook(c) \/ HookNext(c) \/ HookScan(c) \/ HookTag(c)
              \/ HookEnd(c) \/ PassFault(c)
              \/ (\E user \in BOOLEAN : AetBlock(c, user)) \/ SetEntry(c)
              \/ Return(c)
              \/ (\E p \in Page, f \in Frame \cup {NoFrame} : GuestWrite(c, p, f))
              \/ (\E f \in Frame : shadow_demote(c, f))
              \/ (\E f \in Frame, level \in {0, 1} : sh_remove_write_access(c, f, level))
              \/ (\E f \in Frame : sh_remove_all_mappings(c, f))
              \/ (\E f \in Frame : p2m_add_page(c, f))
      PROVE  CoverOK'
  BY <1>3, Zenon DEF Fill, VmExit, SkipHook, BeginHook, HookNext, HookScan,
     HookTag, HookEnd, PassFault, AetBlock, SetEntry, Return, GuestWrite,
     Locked, shadow_demote, sh_remove_write_access, sh_remove_all_mappings,
     p2m_add_page
<1>4. ASSUME set_aet_track_open \/ UNCHANGED vars PROVE CoverOK'
  BY <1>4, Zenon DEF set_aet_track_open, vars
<1>5. QED
  BY <1>1, <1>2, <1>3, <1>4, Zenon DEF Next, Hook, sh_page_fault, OtherExit

\* Every step keeps the cached translations well-formed.
LEMMA CachesStep ==
  ASSUME CachesOK, EntriesOK, CoverOK, [Next]_vars PROVE CachesOK'
<1> USE DEF CachesOK, FlushAll
<1>1. ASSUME NEW c \in Cpu, NEW p \in Page,
             Fill(c, p)
      PROVE  CachesOK'
  <2>1. PICK t \in live : /\ Present(sl1[t][p[2]])
                          /\ tlb' = [tlb EXCEPT ![c] =
                               {x \in @ : x.page # p}
                                 \cup {[page |-> p, mfn |-> sl1[t][p[2]].mfn, rw |-> sl1[t][p[2]].rw]}]
    BY <1>1, Zenon DEF Fill, TablesOf
  <2>2. sl1[t][p[2]] \in Entry
    BY PageShape, Zenon DEF EntriesOK, Tables, CoverOK
  <2>3. [page |-> p, mfn |-> sl1[t][p[2]].mfn, rw |-> sl1[t][p[2]].rw] \in Translation
    BY <2>1, <2>2, Zenon DEF Translation, Entry, Present
  <2>4. QED
    BY <2>1, <2>3, Zenon
<1>2. ASSUME NEW c \in Cpu, NEW p \in Page \cup {NoPage},
             VmExit(c, p)
      PROVE  CachesOK'
  BY <1>2, Zenon DEF VmExit
<1>3. ASSUME NEW c \in Cpu, HookTag(c) PROVE CachesOK'
  BY <1>3, Zenon DEF HookTag
<1>4. ASSUME NEW c \in Cpu, sh_make_shadow(c) PROVE CachesOK'
  BY <1>4, Zenon DEF sh_make_shadow
<1>5. ASSUME NEW c \in Cpu, NEW p \in Page, NEW f \in Frame \cup {NoFrame},
             GuestWrite(c, p, f)
      PROVE  CachesOK'
  BY <1>5, Zenon DEF GuestWrite, Locked
<1>6. ASSUME NEW c \in Cpu, NEW f \in Frame, NEW level \in {0, 1},
             sh_remove_write_access(c, f, level)
      PROVE  CachesOK'
  BY <1>6, Zenon DEF sh_remove_write_access, Locked
<1>7. ASSUME NEW c \in Cpu, NEW f \in Frame,
             sh_remove_all_mappings(c, f)
      PROVE  CachesOK'
  BY <1>7, Zenon DEF sh_remove_all_mappings, Locked
<1>8. ASSUME NEW c \in Cpu, NEW t \in Table,
             sh_destroy_l1_shadow(c, t)
      PROVE  CachesOK'
  BY <1>8, Zenon DEF sh_destroy_l1_shadow, Locked
<1>9. ASSUME NEW c \in Cpu,
              \/ SkipHook(c) \/ BeginHook(c) \/ HookNext(c) \/ HookScan(c)
              \/ HookEnd(c) \/ PassFault(c)
              \/ (\E user \in BOOLEAN : AetBlock(c, user)) \/ SetEntry(c)
              \/ Return(c) \/ (\E f \in Frame : shadow_demote(c, f))
              \/ (\E f \in Frame : p2m_add_page(c, f))
      PROVE  CachesOK'
  BY <1>9, Zenon DEF SkipHook, BeginHook, HookNext, HookScan, HookEnd,
     PassFault, AetBlock, SetEntry, Return, shadow_demote, Locked, p2m_add_page
<1>10. ASSUME set_aet_track_open \/ UNCHANGED vars PROVE CachesOK'
  BY <1>10, Zenon DEF set_aet_track_open, vars
<1>11. QED
  BY <1>1, <1>2, <1>3, <1>4, <1>5, <1>6, <1>7, <1>8, <1>9, <1>10, Zenon DEF
     Next, Hook, sh_page_fault, OtherExit

\* shadow_set_l1e writes the new tables.
LEMMA SetTables ==
  ASSUME NEW old, NEW new, shadow_set_l1e(old, new) PROVE sl1' = new
BY Zenon DEF shadow_set_l1e

\* HookTag tags one entry, the one read or the one found.
LEMMA TagTables ==
  ASSUME EntriesOK, CpuOK, NEW c \in Cpu, HookTag(c)
  PROVE  \E t \in Table, s \in Slot, e \in Entry :
           /\ t = seen[c][1].sl1mfn /\ s = slot[c] /\ e \in {seen[c][2], sl1[t][s]}
           /\ sl1' = [sl1 EXCEPT ![t][s] = [e EXCEPT !.magic = TRUE]]
<1>1. pc[c] = "tag"
  BY Zenon DEF HookTag, In
<1>2. slot[c] \in Slot
  BY <1>1, Bounds DEF CpuOK, PlaceOK, Slot
<1>3. seen[c][1].sl1mfn \in Table /\ seen[c][2] \in Entry
  BY <1>1, SeenShape, Zenon
<1>4. sl1[seen[c][1].sl1mfn][slot[c]] \in Entry
  BY <1>2, <1>3, Zenon DEF EntriesOK, Tables
<1>5. PICK e \in {seen[c][2], sl1[seen[c][1].sl1mfn][slot[c]]} :
             sl1' = [sl1 EXCEPT ![seen[c][1].sl1mfn][slot[c]] = [e EXCEPT !.magic = TRUE]]
  BY Zenon DEF HookTag
<1>6. e \in Entry
  BY <1>3, <1>4, Zenon
<1>7. QED
  BY <1>2, <1>3, <1>5, <1>6, Zenon

\* Every step keeps the shadow entries well-formed, raced tags included.
LEMMA EntriesStep ==
  ASSUME EntriesOK, CpuOK, GuestOK, CoverOK, [Next]_vars PROVE EntriesOK'
<1> USE DEF EntriesOK, shadow
<1>1. ASSUME NEW c \in Cpu, HookTag(c) PROVE EntriesOK'
  <2>1. PICK t \in Table, s \in Slot, e \in Entry :
               sl1' = [sl1 EXCEPT ![t][s] = [e EXCEPT !.magic = TRUE]]
    BY <1>1, TagTables
  <2>2. [e EXCEPT !.magic = TRUE] \in Entry
    BY Zenon DEF Entry
  <2>3. QED
    BY <2>1, <2>2, Zenon DEF Tables
<1>2. ASSUME NEW c \in Cpu, sh_make_shadow(c) PROVE EntriesOK'
  <2>1. Empty \in Entry
    BY PropagatedEntry, Zenon
  <2>2. QED
    BY <1>2, <2>1 DEF sh_make_shadow, Tables
<1>3. ASSUME NEW c \in Cpu, NEW user \in BOOLEAN,
             AetBlock(c, user)
      PROVE  EntriesOK'
  <2>1. page[c][2] \in Slot /\ Empty \in Entry
    BY <1>3, PageShape, PropagatedEntry, Zenon DEF AetBlock, CpuOK
  <2>2. QED
    BY <1>3, <2>1, SMTT(60) DEF AetBlock, Tables, TablesOf, CoverOK
<1>4. ASSUME NEW c \in Cpu, SetEntry(c) PROVE EntriesOK'
  <2>1. PICK t \in TablesOf(page[c][1]), last \in Slot :
               sl1' = [sl1 EXCEPT ![t] = [s \in Slot |->
                         IF s \in page[c][2] .. last
                           THEN Propagated(gl1[<<page[c][1], s>>])
                         ELSE @[s]]]
    BY <1>4, SetTables, Zenon DEF SetEntry, Fillable
  <2>2. page[c] \in Page
    BY <1>4, Zenon DEF SetEntry, In, CpuOK, PlaceOK
  <2>3. ASSUME NEW s \in Slot PROVE Propagated(gl1[<<page[c][1], s>>]) \in Entry
    BY <2>2, PropagatedEntry, Zenon DEF GuestOK, Page
  <2>4. QED
    BY <2>1, <2>3, Zenon DEF Tables
<1>5. ASSUME NEW c \in Cpu, NEW p \in Page, NEW f \in Frame \cup {NoFrame},
             GuestWrite(c, p, f)
      PROVE  EntriesOK'
  <2>1. sl1' = [t \in Table |->
                  IF t \in TablesOf(p[1]) THEN [sl1[t] EXCEPT ![p[2]] = Propagated(f)]
                  ELSE sl1[t]]
    BY <1>5, SetTables, Zenon DEF GuestWrite
  <2>2. QED
    BY <2>1, PropagatedEntry, Zenon DEF Tables
<1>6. ASSUME NEW c \in Cpu, NEW f \in Frame, NEW level \in {0, 1},
             sh_remove_write_access(c, f, level)
      PROVE  EntriesOK'
  <2>1. ASSUME NEW rw \in BOOLEAN PROVE [mfn |-> f, rw |-> rw, magic |-> FALSE] \in Entry
    BY <2>1, Zenon DEF Entry
  <2>2. CASE sl1' = sl1
    BY <2>2, Zenon
  <2>3. CASE ~ (f \in readonly \/ type_count[f] = 0)
    <3>1. PICK P, untagged :
            sl1' = With(With(sl1, untagged, [mfn |-> f, rw |-> FALSE, magic |-> FALSE]),
                        P, [mfn |-> f, rw |-> FALSE, magic |-> FALSE])
      BY <1>6, <2>3, SetTables, Zenon DEF sh_remove_write_access
    <3>2. QED
      BY <2>1, <3>1, WithTables, Zenon
  <2>4. QED
    BY <1>6, <2>2, <2>3, Zenon DEF sh_remove_write_access
<1>7. ASSUME NEW c \in Cpu, NEW f \in Frame,
             sh_remove_all_mappings(c, f)
      PROVE  EntriesOK'
  <2>1. \/ sl1' = sl1
        \/ \E P : sl1' = With(sl1, P, Empty)
    BY <1>7, SetTables, Zenon DEF sh_remove_all_mappings
  <2>2. QED
    BY <2>1, WithTables, PropagatedEntry, Zenon
<1>8. ASSUME NEW c \in Cpu,
              \/ (\E p \in Page : Fill(c, p))
              \/ (\E p \in Page \cup {NoPage} : VmExit(c, p)) \/ SkipHook(c)
              \/ BeginHook(c) \/ HookNext(c) \/ HookScan(c) \/ HookEnd(c)
              \/ PassFault(c) \/ Return(c)
              \/ (\E f \in Frame : shadow_demote(c, f))
              \/ (\E f \in Frame : p2m_add_page(c, f))
              \/ (\E t \in Table : sh_destroy_l1_shadow(c, t))
      PROVE  EntriesOK'
  BY <1>8, Zenon DEF Fill, VmExit, SkipHook, BeginHook, HookNext, HookScan,
     HookEnd, PassFault, Return, shadow_demote, Locked, p2m_add_page,
     sh_destroy_l1_shadow
<1>9. ASSUME set_aet_track_open \/ UNCHANGED vars PROVE EntriesOK'
  BY <1>9, Zenon DEF set_aet_track_open, vars
<1>10. QED
  BY <1>1, <1>2, <1>3, <1>4, <1>5, <1>6, <1>7, <1>8, <1>9, Zenon DEF Next,
     Hook, sh_page_fault, OtherExit

\* Every step keeps the pending set free of duplicates and within its array: the
\* search and the append of add_to_pending_page are under the paging lock, and the
\* hook only empties the set.
LEMMA PendingStep ==
  ASSUME PendingOK, CpuOK, CoverOK, [Next]_vars PROVE PendingOK'
<1> USE DEF PendingOK, PendingDistinct
<1>1. ASSUME NEW c \in Cpu, HookEnd(c) PROVE PendingOK'
  <2>1. pds' = << >> /\ UNCHANGED open
    BY <1>1, Zenon DEF HookEnd
  <2>2. pds' \in Seq(pending_node) /\ Len(pds') = 0
    BY <2>1
  <2>3. Len(pds') <= MAX_PENDING_PAGE /\ 1 .. Len(pds') = {}
    BY <2>2, Bounds
  <2>4. QED
    BY <2>1, <2>2, <2>3, Zenon
<1>2. ASSUME NEW c \in Cpu, NEW user \in BOOLEAN,
             AetBlock(c, user)
      PROVE  PendingOK'
  <2>1. PICK t \in Table : pds' = IF user /\ open THEN Queued(t, page[c]) ELSE pds
    BY <1>2, Zenon DEF AetBlock, TablesOf, CoverOK
  <2>2. page[c][1] \in Region
    BY <1>2, PageShape, Zenon DEF AetBlock, CpuOK
  <2>3. CASE /\ \A n \in 1 .. Len(pds) : pds[n].sl1mfn # t
             /\ Len(pds) < MAX_PENDING_PAGE
             /\ pds' = Append(pds, [sl1mfn |-> t, va |-> page[c][1]])
    <3>1. [sl1mfn |-> t, va |-> page[c][1]] \in pending_node
      BY <2>2, Zenon DEF pending_node
    <3>2. /\ pds' \in Seq(pending_node) /\ Len(pds') = Len(pds) + 1
          /\ \A n \in 1 .. Len(pds) : pds'[n] = pds[n]
          /\ pds'[Len(pds) + 1].sl1mfn = t
      BY <2>3, <3>1
    <3>3. Len(pds') <= MAX_PENDING_PAGE
      BY <2>3, <3>2, Bounds
    <3>4. ASSUME NEW m \in 1 .. Len(pds'), NEW n \in 1 .. Len(pds'),
                 pds'[m].sl1mfn = pds'[n].sl1mfn
          PROVE  m = n
      BY <2>3, <3>2, <3>4
    <3>5. QED
      BY <1>2, <3>2, <3>3, <3>4, Zenon DEF AetBlock
  <2>4. CASE pds' = pds
    BY <1>2, <2>4, Zenon DEF AetBlock
  <2>5. QED
    BY <2>1, <2>3, <2>4, Zenon DEF Queued
<1>3. ASSUME NEW c \in Cpu,
              \/ (\E p \in Page : Fill(c, p))
              \/ (\E p \in Page \cup {NoPage} : VmExit(c, p)) \/ SkipHook(c)
              \/ BeginHook(c) \/ HookNext(c) \/ HookScan(c) \/ HookTag(c)
              \/ PassFault(c) \/ sh_make_shadow(c) \/ SetEntry(c) \/ Return(c)
              \/ (\E p \in Page, f \in Frame \cup {NoFrame} : GuestWrite(c, p, f))
              \/ (\E f \in Frame : shadow_demote(c, f))
              \/ (\E f \in Frame, level \in {0, 1} : sh_remove_write_access(c, f, level))
              \/ (\E f \in Frame : sh_remove_all_mappings(c, f))
              \/ (\E f \in Frame : p2m_add_page(c, f))
              \/ (\E t \in Table : sh_destroy_l1_shadow(c, t))
      PROVE  PendingOK'
  BY <1>3, Zenon DEF Fill, VmExit, SkipHook, BeginHook, HookNext, HookScan,
     HookTag, PassFault, sh_make_shadow, SetEntry, Return, GuestWrite, Locked,
     shadow_demote, sh_remove_write_access, sh_remove_all_mappings,
     p2m_add_page, sh_destroy_l1_shadow
<1>4. ASSUME set_aet_track_open \/ UNCHANGED vars PROVE PendingOK'
  BY <1>4, Zenon DEF set_aet_track_open, vars
<1>5. QED
  BY <1>1, <1>2, <1>3, <1>4, Zenon DEF Next, Hook, sh_page_fault, OtherExit

\* Every step keeps each processor's locals fit for the place it is at.
LEMMA CpuStep ==
  ASSUME PendingOK, CpuOK, EntriesOK, [Next]_vars PROVE CpuOK'
<1> USE Bounds DEF CpuOK, PlaceOK, Place, In
<1>1. ASSUME NEW c \in Cpu, NEW p \in Page \cup {NoPage},
             VmExit(c, p)
      PROVE  CpuOK'
  BY <1>1, Zenon DEF VmExit
<1>2. ASSUME NEW c \in Cpu, SkipHook(c) PROVE CpuOK'
  BY <1>2, Zenon DEF SkipHook
<1>3. ASSUME NEW c \in Cpu, BeginHook(c) PROVE CpuOK'
  BY <1>3 DEF BeginHook
<1>4. ASSUME NEW c \in Cpu, HookNext(c) PROVE CpuOK'
  <2>1. pc[c] = "next" /\ node[c] <= Len(pds) /\ node' = [node EXCEPT ![c] = @ + 1]
        /\ UNCHANGED <<page, lock, tags, crashed>>
    BY <1>4, Zenon DEF HookNext
  <2>2. CASE UNCHANGED <<pc, slot, seen>>
    BY <2>1, <2>2
  <2>3. CASE /\ pds[node[c]].sl1mfn \in live /\ pc' = [pc EXCEPT ![c] = "scan"]
             /\ slot' = [slot EXCEPT ![c] = 0]
             /\ seen' = [seen EXCEPT ![c] = <<pds[node[c]], Empty>>]
    <3>1. node[c] \in 1 .. Len(pds)
      BY <2>1 DEF PendingOK
    <3>2. pds[node[c]] \in pending_node
      BY <3>1 DEF PendingOK
    <3>3. <<pds[node[c]], Empty>> \in Sighting
      BY <3>2, EmptyEntry, Zenon DEF Sighting
    <3>4. PICK x \in Sighting : seen' = [seen EXCEPT ![c] = x]
      BY <2>3, <3>3, Zenon
    <3>5. pc' = [pc EXCEPT ![c] = "scan"] /\ slot' = [slot EXCEPT ![c] = 0]
      BY <2>3, Zenon
    <3>6. QED
      BY <2>1, <3>4, <3>5
  <2>4. QED
    BY <1>4, <2>2, <2>3, Zenon DEF HookNext
<1>5. ASSUME NEW c \in Cpu, HookScan(c) PROVE CpuOK'
  <2>1. pc[c] = "scan" /\ seen[c][1] \in pending_node /\ seen[c][1].sl1mfn \in Table
    BY <1>5, SeenShape, Zenon DEF HookScan
  <2>0. UNCHANGED <<page, node, lock, tags, crashed>>
    BY <1>5, Zenon DEF HookScan
  <2>2. CASE slot[c] < CONSECUTIVE_SET_PAGE /\ pc' = [pc EXCEPT ![c] = "tag"]
    <3>1. slot[c] \in Slot
      BY <2>2 DEF Slot
    <3>2. sl1[seen[c][1].sl1mfn][slot[c]] \in Entry
      BY <2>1, <3>1, Zenon DEF EntriesOK, Tables
    <3>3. <<seen[c][1], sl1[seen[c][1].sl1mfn][slot[c]]>> \in Sighting
      BY <2>1, <3>2, Zenon DEF Sighting
    <3>4. QED
      BY <1>5, <2>1, <2>2, <3>3, ZenonT(60), Zenon DEF HookScan
  <2>3. CASE slot[c] < CONSECUTIVE_SET_PAGE /\ slot' = [slot EXCEPT ![c] = @ + 1]
               /\ UNCHANGED <<pc, seen>>
    BY <2>0, <2>1, <2>3
  <2>4. CASE pc' = [pc EXCEPT ![c] = "next"] /\ UNCHANGED <<slot, seen>>
    BY <2>0, <2>1, <2>4, Zenon
  <2>5. QED
    BY <1>5, <2>2, <2>3, <2>4, Zenon DEF HookScan
<1>6. ASSUME NEW c \in Cpu, HookTag(c) PROVE CpuOK'
  BY <1>6 DEF HookTag
<1>7. ASSUME NEW c \in Cpu, HookEnd(c) PROVE CpuOK'
  BY <1>7 DEF HookEnd
<1>8. ASSUME NEW c \in Cpu, PassFault(c) PROVE CpuOK'
  BY <1>8, Zenon DEF PassFault
<1>9. ASSUME NEW c \in Cpu, NEW user \in BOOLEAN,
             AetBlock(c, user)
      PROVE  CpuOK'
  BY <1>9, Zenon DEF AetBlock
<1>10. ASSUME NEW c \in Cpu, SetEntry(c) PROVE CpuOK'
  BY <1>10, Zenon DEF SetEntry
<1>11. ASSUME NEW c \in Cpu, Return(c) PROVE CpuOK'
  BY <1>11, Zenon DEF Return
<1>12. ASSUME NEW c \in Cpu,
              \/ (\E p \in Page : Fill(c, p)) \/ sh_make_shadow(c)
              \/ (\E p \in Page, f \in Frame \cup {NoFrame} : GuestWrite(c, p, f))
              \/ (\E f \in Frame : shadow_demote(c, f))
              \/ (\E f \in Frame, level \in {0, 1} : sh_remove_write_access(c, f, level))
              \/ (\E f \in Frame : sh_remove_all_mappings(c, f))
              \/ (\E f \in Frame : p2m_add_page(c, f))
              \/ (\E t \in Table : sh_destroy_l1_shadow(c, t))
      PROVE  CpuOK'
  BY <1>12, Zenon DEF Fill, sh_make_shadow, GuestWrite, Locked, shadow_demote,
     sh_remove_write_access, sh_remove_all_mappings, p2m_add_page,
     sh_destroy_l1_shadow, cpu
<1>13. ASSUME set_aet_track_open \/ UNCHANGED vars PROVE CpuOK'
  BY <1>13, Zenon DEF set_aet_track_open, vars, cpu
<1>14. QED
  BY <1>1, <1>2, <1>3, <1>4, <1>5, <1>6, <1>7, <1>8, <1>9, <1>10, <1>11, <1>12,
     <1>13, Zenon DEF Next, Hook, sh_page_fault, OtherExit

-----------------------------------------------------------------------------
(* References.                                                              *)

\* Places of entries, and those of the tables in L that map f.
Cell == Table \X Slot
Held(table, L, f) == {ts \in Mapping(table, f) : ts[1] \in L}
HeldRW(table, L, f) == {ts \in Writable(table, f) : ts[1] \in L}

\* The references cover the entries of the tables in L.
Covered(table, L) ==
  /\ count \in [Frame -> Nat] /\ type_count \in [Frame -> Nat]
  /\ \A f \in Frame : /\ count[f] >= Cardinality(Held(table, L, f))
                      /\ type_count[f] >= Cardinality(HeldRW(table, L, f))

\* RefsCoverMappings in the form the lemmas on tables use.
LEMMA CoveredIsCounts == CountsOK <=> Covered(sl1, live)
BY Zenon DEF CountsOK, Covered, RefsCoverMappings, Held, HeldRW, LiveMapping,
   LiveWritable

\* There are finitely many shadow entries.
LEMMA CellsFinite ==
  \A S \in SUBSET Cell : IsFiniteSet(S) /\ Cardinality(S) \in Nat
<1>1. IsFiniteSet(Slot)
  BY FS_Interval, Bounds DEF Slot
<1>2. IsFiniteSet(Cell)
  BY <1>1, TableAssumption, FS_Product, Zenon DEF Cell
<1>3. QED
  BY <1>2, FS_Subset, FS_CardinalityType, Zenon

\* An entry's place is a table and a slot.
LEMMA CellShape ==
  ASSUME NEW ts \in Cell PROVE ts[1] \in Table /\ ts[2] \in Slot /\ ts = <<ts[1], ts[2]>>
BY DEF Cell

\* D is what is left of A without B, with C added; Q is part of B.
\* D is at most A without B and with C added; Q is a part of B.
Swap(A, B, C, Q, D) ==
  /\ A \in SUBSET Cell /\ B \in SUBSET A /\ C \in SUBSET Cell
  /\ Q \in SUBSET B /\ D \in SUBSET ((A \ B) \cup C)

\* The set D is at most as large as A with C added and Q taken out.
LEMMA CardinalitySwap ==
  ASSUME NEW A, NEW B, NEW C, NEW Q, NEW D, Swap(A, B, C, Q, D)
  PROVE  /\ Cardinality(A) \in Nat /\ Cardinality(C) \in Nat /\ Cardinality(Q) \in Nat
         /\ Cardinality(D) \in Nat
         /\ Cardinality(D) <= Cardinality(A) + Cardinality(C) - Cardinality(Q)
<1>0. /\ A \in SUBSET Cell /\ B \in SUBSET A /\ C \in SUBSET Cell
      /\ Q \in SUBSET B /\ D \in SUBSET ((A \ B) \cup C)
  BY Zenon DEF Swap
<1>1. /\ IsFiniteSet(A) /\ IsFiniteSet(B) /\ IsFiniteSet(C) /\ IsFiniteSet(Q)
      /\ IsFiniteSet(A \ B) /\ IsFiniteSet((A \ B) \cup C) /\ IsFiniteSet(D)
  BY <1>0, CellsFinite, Zenon
<1>2. /\ Cardinality(A) \in Nat /\ Cardinality(B) \in Nat /\ Cardinality(C) \in Nat
      /\ Cardinality(Q) \in Nat /\ Cardinality(D) \in Nat /\ Cardinality(A \ B) \in Nat
      /\ Cardinality((A \ B) \cup C) \in Nat /\ Cardinality((A \ B) \cap C) \in Nat
      /\ Cardinality(A \cap B) \in Nat
  BY <1>0, CellsFinite, Zenon
<1>3. Cardinality(D) <= Cardinality((A \ B) \cup C)
  BY <1>0, <1>1, FS_Subset, Zenon
<1>4. Cardinality((A \ B) \cup C)
        = Cardinality(A \ B) + Cardinality(C) - Cardinality((A \ B) \cap C)
  BY <1>1, FS_Union, Zenon
<1>5. Cardinality(A \ B) = Cardinality(A) - Cardinality(A \cap B)
  BY <1>1, FS_Difference, Zenon
<1>6. Cardinality(A \cap B) = Cardinality(B)
  <2>1. A \cap B = B
    BY <1>0, Zenon
  <2>2. QED
    BY <2>1, Zenon
<1>7. Cardinality(Q) <= Cardinality(B)
  BY <1>0, <1>1, FS_Subset, Zenon
<1>8. QED
  BY <1>2, <1>3, <1>4, <1>5, <1>6, <1>7

\* shadow_set_l1e on entries of live tables keeps them covered: it takes the new
\* references and drops at most those of the entries it replaces.
LEMMA SetKeepsCovered ==
  ASSUME NEW old, NEW new, NEW L, Covered(old, L), shadow_set_l1e(old, new),
         \A ts \in Cell : At(old, ts) # At(new, ts) => ts[1] \in L
  PROVE  count' \in [Frame -> Nat] /\ type_count' \in [Frame -> Nat]
         /\ \A f \in Frame : /\ count'[f] >= Cardinality(Held(new, L, f))
                             /\ type_count'[f] >= Cardinality(HeldRW(new, L, f))
<1> DEFINE set == {ts \in Cell : At(old, ts) # At(new, ts)}
<1>1. /\ count' = [f \in Frame |->
                     count[f] + (Cardinality(Mapping(new, f) \cap set)
                                  - Cardinality(Puttable(old, Mapping(old, f) \cap set)))]
      /\ type_count' = [f \in Frame |->
                     type_count[f] + (Cardinality(Writable(new, f) \cap set)
                                  - Cardinality(Puttable(old, Writable(old, f) \cap set)))]
  BY Zenon DEF shadow_set_l1e, Cell
<1>2. ASSUME NEW f \in Frame
      PROVE  /\ count[f] + (Cardinality(Mapping(new, f) \cap set)
                   - Cardinality(Puttable(old, Mapping(old, f) \cap set))) \in Nat
             /\ count[f] + (Cardinality(Mapping(new, f) \cap set)
                   - Cardinality(Puttable(old, Mapping(old, f) \cap set)))
                  >= Cardinality(Held(new, L, f))
  <2>1. /\ Held(old, L, f) \in SUBSET Cell
        /\ Mapping(old, f) \cap set \in SUBSET Held(old, L, f)
        /\ Mapping(new, f) \cap set \in SUBSET Cell
        /\ Puttable(old, Mapping(old, f) \cap set) \in SUBSET (Mapping(old, f) \cap set)
    BY Zenon DEF Held, Mapping, Puttable, Cell
  <2>2. Held(new, L, f) \in SUBSET ((Held(old, L, f) \ (Mapping(old, f) \cap set))
                                     \cup (Mapping(new, f) \cap set))
    BY Zenon DEF Held, Mapping, Cell
  <2>3. count[f] \in Nat /\ count[f] >= Cardinality(Held(old, L, f))
    BY Zenon DEF Covered
  <2> HIDE DEF set
  <2>4. /\ Cardinality(Held(old, L, f)) \in Nat
        /\ Cardinality(Mapping(new, f) \cap set) \in Nat
        /\ Cardinality(Puttable(old, Mapping(old, f) \cap set)) \in Nat
        /\ Cardinality(Held(new, L, f)) \in Nat
        /\ Cardinality(Held(new, L, f)) <=
             Cardinality(Held(old, L, f)) + Cardinality(Mapping(new, f) \cap set)
               - Cardinality(Puttable(old, Mapping(old, f) \cap set))
    <3> DEFINE A == Held(old, L, f)
               B == Mapping(old, f) \cap set
               C == Mapping(new, f) \cap set
               Q == Puttable(old, B)
               D == Held(new, L, f)
    <3>1. Swap(A, B, C, Q, D)
      BY <2>1, <2>2, Zenon DEF Swap
    <3> HIDE DEF A, B, C, Q, D
    <3>2. /\ Cardinality(A) \in Nat /\ Cardinality(C) \in Nat /\ Cardinality(Q) \in Nat
          /\ Cardinality(D) \in Nat
          /\ Cardinality(D) <= Cardinality(A) + Cardinality(C) - Cardinality(Q)
      BY <3>1, CardinalitySwap, Zenon
    <3>3. QED
      BY <3>2, Zenon DEF A, B, C, Q, D
  <2>5. QED
    BY <2>3, <2>4
<1>3. ASSUME NEW f \in Frame
      PROVE  /\ type_count[f] + (Cardinality(Writable(new, f) \cap set)
                   - Cardinality(Puttable(old, Writable(old, f) \cap set))) \in Nat
             /\ type_count[f] + (Cardinality(Writable(new, f) \cap set)
                   - Cardinality(Puttable(old, Writable(old, f) \cap set)))
                  >= Cardinality(HeldRW(new, L, f))
  <2>1. /\ HeldRW(old, L, f) \in SUBSET Cell
        /\ Writable(old, f) \cap set \in SUBSET HeldRW(old, L, f)
        /\ Writable(new, f) \cap set \in SUBSET Cell
        /\ Puttable(old, Writable(old, f) \cap set) \in SUBSET (Writable(old, f) \cap set)
    BY Zenon DEF HeldRW, Writable, Mapping, Puttable, Cell
  <2>2. HeldRW(new, L, f) \in SUBSET ((HeldRW(old, L, f) \ (Writable(old, f) \cap set))
                                       \cup (Writable(new, f) \cap set))
    BY Zenon DEF HeldRW, Writable, Mapping, Cell
  <2>3. type_count[f] \in Nat /\ type_count[f] >= Cardinality(HeldRW(old, L, f))
    BY Zenon DEF Covered
  <2> HIDE DEF set
  <2>4. /\ Cardinality(HeldRW(old, L, f)) \in Nat
        /\ Cardinality(Writable(new, f) \cap set) \in Nat
        /\ Cardinality(Puttable(old, Writable(old, f) \cap set)) \in Nat
        /\ Cardinality(HeldRW(new, L, f)) \in Nat
        /\ Cardinality(HeldRW(new, L, f)) <=
             Cardinality(HeldRW(old, L, f)) + Cardinality(Writable(new, f) \cap set)
               - Cardinality(Puttable(old, Writable(old, f) \cap set))
    <3> DEFINE A == HeldRW(old, L, f)
               B == Writable(old, f) \cap set
               C == Writable(new, f) \cap set
               Q == Puttable(old, B)
               D == HeldRW(new, L, f)
    <3>1. Swap(A, B, C, Q, D)
      BY <2>1, <2>2, Zenon DEF Swap
    <3> HIDE DEF A, B, C, Q, D
    <3>2. /\ Cardinality(A) \in Nat /\ Cardinality(C) \in Nat /\ Cardinality(Q) \in Nat
          /\ Cardinality(D) \in Nat
          /\ Cardinality(D) <= Cardinality(A) + Cardinality(C) - Cardinality(Q)
      BY <3>1, CardinalitySwap, Zenon
    <3>3. QED
      BY <3>2, Zenon DEF A, B, C, Q, D
  <2>5. QED
    BY <2>3, <2>4
<1> HIDE DEF set
<1>4. QED
  BY <1>1, <1>2, <1>3, Zenon

\* Entries that disappear without a reference dropped stay covered.
LEMMA FewerKeepsCovered ==
  ASSUME NEW old, NEW L, NEW new, NEW M, Covered(old, L), UNCHANGED <<count, type_count>>,
         \A ts \in Cell : ts[1] \in M =>
           \/ At(new, ts).mfn = NoFrame
           \/ ts[1] \in L /\ At(new, ts).mfn = At(old, ts).mfn
              /\ At(new, ts).rw = At(old, ts).rw
  PROVE  /\ count' \in [Frame -> Nat] /\ type_count' \in [Frame -> Nat]
         /\ \A f \in Frame : /\ count'[f] >= Cardinality(Held(new, M, f))
                             /\ type_count'[f] >= Cardinality(HeldRW(new, M, f))
<1>1. ASSUME NEW f \in Frame
      PROVE  count[f] >= Cardinality(Held(new, M, f))
               /\ type_count[f] >= Cardinality(HeldRW(new, M, f))
  <2>1. /\ Held(new, M, f) \in SUBSET Held(old, L, f) /\ Held(old, L, f) \in SUBSET Cell
        /\ HeldRW(new, M, f) \in SUBSET HeldRW(old, L, f)
        /\ HeldRW(old, L, f) \in SUBSET Cell
    BY NoneAssumption, Zenon DEF Held, HeldRW, Writable, Mapping, Cell
  <2>2. /\ Cardinality(Held(new, M, f)) <= Cardinality(Held(old, L, f))
        /\ Cardinality(HeldRW(new, M, f)) <= Cardinality(HeldRW(old, L, f))
    BY <2>1, CellsFinite, FS_Subset, Zenon
  <2>3. /\ Cardinality(Held(new, M, f)) \in Nat /\ Cardinality(Held(old, L, f)) \in Nat
        /\ Cardinality(HeldRW(new, M, f)) \in Nat
        /\ Cardinality(HeldRW(old, L, f)) \in Nat
    BY <2>1, CellsFinite, Zenon
  <2>4. QED
    BY <2>2, <2>3 DEF Covered
<1>2. QED
  BY <1>1, Zenon DEF Covered

\* Covered for the next state.
LEMMA CountsNext ==
  ASSUME count' \in [Frame -> Nat], type_count' \in [Frame -> Nat],
         \A f \in Frame : /\ count'[f] >= Cardinality(Held(sl1', live', f))
                          /\ type_count'[f] >= Cardinality(HeldRW(sl1', live', f))
  PROVE  CountsOK'
BY Zenon DEF CountsOK, RefsCoverMappings, Held, HeldRW, LiveMapping,
   LiveWritable, Mapping, Writable, At

\* An entry of an overwritten table.
LEMMA AtWith ==
  ASSUME NEW table \in Tables, NEW P, NEW e, NEW ts \in Cell
  PROVE  At(With(table, P, e), ts) = IF ts \in P THEN e ELSE At(table, ts)
<1>1. ts[1] \in Table /\ ts[2] \in Slot /\ ts = <<ts[1], ts[2]>>
  BY CellShape, Zenon
<1>2. QED
  BY <1>1, Zenon DEF At, With

\* An entry of a table in which one entry is replaced.
LEMMA AtExcept ==
  ASSUME NEW table \in Tables, NEW t \in Table, NEW s \in Slot, NEW e, NEW ts \in Cell,
         NEW new, new = [table EXCEPT ![t][s] = e]
  PROVE  At(new, ts) = IF ts = <<t, s>> THEN e ELSE At(table, ts)
<1>1. ts[1] \in Table /\ ts[2] \in Slot /\ ts = <<ts[1], ts[2]>>
  BY CellShape, Zenon
<1>2. QED
  BY <1>1 DEF At, Tables

\* The tables with one entry tagged.
Tagged(table, t, s) == [table EXCEPT ![t][s] = [table[t][s] EXCEPT !.magic = TRUE]]

\* A tag leaves the frame and the write bit of every entry alone.
LEMMA TagCell ==
  ASSUME NEW table \in Tables, NEW t \in Table, NEW s \in Slot, NEW ts \in Cell
  PROVE  /\ At(Tagged(table, t, s), ts).mfn = At(table, ts).mfn
         /\ At(Tagged(table, t, s), ts).rw = At(table, ts).rw
         /\ ~ At(Tagged(table, t, s), ts).magic
            => At(Tagged(table, t, s), ts) = At(table, ts)
<1>1. ts[1] \in Table /\ ts[2] \in Slot /\ table[t][s] \in Entry
  BY CellShape, Zenon DEF Tables
<1>2. CASE ts[1] = t /\ ts[2] = s
  <2>1. Tagged(table, t, s)[t][s] = [table[t][s] EXCEPT !.magic = TRUE]
    BY Zenon DEF Tagged, Tables
  <2>2. QED
    BY <1>1, <1>2, <2>1, Zenon DEF At, Entry
<1>3. CASE ~ (ts[1] = t /\ ts[2] = s)
  <2>1. Tagged(table, t, s)[ts[1]][ts[2]] = table[ts[1]][ts[2]]
    BY <1>1, <1>3, Zenon DEF Tagged, Tables
  <2>2. QED
    BY <2>1, Zenon DEF At
<1>4. QED
  BY <1>2, <1>3, Zenon

\* With the entry unchanged since HookScan, HookTag tags what is there.
LEMMA TagSeen ==
  ASSUME EntriesOK, CpuOK, SeenCurrent, NEW c \in Cpu, HookTag(c)
  PROVE  \E t \in Table, s \in Slot : sl1' = Tagged(sl1, t, s)
<1>1. pc[c] = "tag"
  BY Zenon DEF HookTag, In
<1>2. seen[c][2] = sl1[seen[c][1].sl1mfn][slot[c]]
  BY <1>1, Zenon DEF SeenCurrent
<1>3. PICK t \in Table, s \in Slot, e \in Entry :
             /\ t = seen[c][1].sl1mfn /\ s = slot[c] /\ e \in {seen[c][2], sl1[t][s]}
             /\ sl1' = [sl1 EXCEPT ![t][s] = [e EXCEPT !.magic = TRUE]]
  BY TagTables, Zenon
<1>4. e = sl1[t][s]
  BY <1>2, <1>3, Zenon
<1>5. QED
  BY <1>3, <1>4, Zenon DEF Tagged

\* HookTag, entry by entry.
LEMMA TagKeeps ==
  ASSUME EntriesOK, CpuOK, SeenCurrent, NEW c \in Cpu, HookTag(c), NEW ts \in Cell
  PROVE  /\ At(sl1', ts).mfn = At(sl1, ts).mfn /\ At(sl1', ts).rw = At(sl1, ts).rw
         /\ ~ At(sl1', ts).magic => At(sl1', ts) = At(sl1, ts)
<1>1. PICK t \in Table, s \in Slot : sl1' = Tagged(sl1, t, s)
  BY TagSeen, Zenon
<1>2. sl1 \in Tables
  BY Zenon DEF EntriesOK
<1>3. QED
  BY <1>1, <1>2, TagCell, Zenon

\* SetEntry propagates guest entries into the faulting table, at the faulting slot
\* and at empty ones after it.
LEMMA SetEntryTables ==
  ASSUME GuestOK, EntriesOK, CpuOK, CoverOK, NEW c \in Cpu, SetEntry(c)
  PROVE  \E t \in live, new \in Tables :
           /\ shadow_set_l1e(sl1, new) /\ page[c] \in Page /\ t \in TablesOf(page[c][1])
           /\ \A ts \in Cell :
                \/ At(new, ts) = At(sl1, ts)
                \/ /\ ts[1] = t /\ (ts[2] = page[c][2] \/ ~ Present(At(sl1, ts)))
                   /\ At(new, ts) = Propagated(gl1[<<page[c][1], ts[2]>>])
<1>1. page[c] \in Page
  BY Zenon DEF SetEntry, In, CpuOK, PlaceOK
<1>2. PICK t \in TablesOf(page[c][1]), last \in Slot :
        /\ last \in Fillable(t, page[c][2])
        /\ shadow_set_l1e(sl1,
             [sl1 EXCEPT ![t] = [s \in Slot |->
                IF s \in page[c][2] .. last THEN Propagated(gl1[<<page[c][1], s>>])
                ELSE @[s]]])
  BY Zenon DEF SetEntry, Fillable
<1> DEFINE new == [sl1 EXCEPT ![t] = [s \in Slot |->
                     IF s \in page[c][2] .. last THEN Propagated(gl1[<<page[c][1], s>>])
                     ELSE @[s]]]
<1>3. new \in Tables
  <2>1. ASSUME NEW s \in Slot PROVE Propagated(gl1[<<page[c][1], s>>]) \in Entry
    BY <1>1, PropagatedEntry, Zenon DEF GuestOK, Page
  <2>2. QED
    BY <2>1, Zenon DEF Tables, EntriesOK
<1>4. t \in live /\ live \subseteq Table
  BY Zenon DEF TablesOf, CoverOK
<1>5. ASSUME NEW ts \in Cell
      PROVE  \/ At(new, ts) = At(sl1, ts)
             \/ /\ ts[1] = t /\ (ts[2] = page[c][2] \/ ~ Present(At(sl1, ts)))
                /\ At(new, ts) = Propagated(gl1[<<page[c][1], ts[2]>>])
  <2>1. ts[1] \in Table /\ ts[2] \in Slot
    BY CellShape, Zenon
  <2>2. ASSUME ts[1] = t, ts[2] \in page[c][2] .. last, ts[2] # page[c][2]
        PROVE  ~ Present(sl1[t][ts[2]])
    <3>1. page[c][2] \in Int /\ ts[2] \in Int /\ last \in Int
      BY <1>1, <2>1, PageShape, Bounds DEF Slot
    <3>2. ts[2] \in (page[c][2] + 1) .. last
      BY <2>2, <3>1
    <3>3. QED
      BY <1>2, <3>2, Zenon DEF Fillable
  <2>3. QED
    BY <1>4, <2>1, <2>2, Zenon DEF At, EntriesOK, Tables
<1>6. shadow_set_l1e(sl1, new)
  BY <1>2, Zenon
<1> HIDE DEF new
<1>7. QED
  BY <1>1, <1>3, <1>4, <1>5, <1>6, Zenon

\* Tables that map the same frames in the same way are covered alike.
LEMMA SameCovered ==
  ASSUME NEW old, NEW new, NEW L, Covered(old, L),
         \A ts \in Cell : At(new, ts).mfn = At(old, ts).mfn
           /\ At(new, ts).rw = At(old, ts).rw
  PROVE  Covered(new, L)
<1>1. ASSUME NEW f \in Frame
      PROVE  Held(new, L, f) = Held(old, L, f) /\ HeldRW(new, L, f) = HeldRW(old, L, f)
  BY Zenon DEF Held, HeldRW, Mapping, Writable, Cell
<1>2. QED
  BY <1>1, Zenon DEF Covered

\* A writable and a read-only entry of f, and the tables once the walk has untagged
\* some entries and written e over others.
On(f) == [mfn |-> f, rw |-> TRUE, magic |-> FALSE]
Off(f) == [mfn |-> f, rw |-> FALSE, magic |-> FALSE]
Walked(table, f, untagged, P, e) == With(With(table, untagged, Off(f)), P, e)

\* What sh_rm_write_access_from_l1 makes of the entry ts: old is the entry once it
\* is untagged, new the one written.
WalkedAt(table, L, f, P, old, new, ts) ==
  /\ At(old, ts).mfn = At(table, ts).mfn /\ At(old, ts).rw = At(table, ts).rw
  /\ ts \in P => ts[1] \in L /\ At(old, ts).mfn = f /\ At(new, ts) = Off(f)
  /\ ts \notin P => At(new, ts) = At(old, ts)
  /\ \/ At(new, ts) = At(table, ts)
     \/ At(table, ts).mfn = f /\ At(new, ts) = Off(f)

\* The walk of sh_rm_write_access_from_l1, entry by entry.
LEMMA WalkCell ==
  ASSUME NEW table \in Tables, NEW L, NEW f \in Frame,
         NEW P \in SUBSET {ts \in Writable(table, f) : ts[1] \in L},
         NEW untagged \in SUBSET (Mapping(table, f) \ Writable(table, f))
  PROVE  /\ Walked(table, f, untagged, P, On(f)) \in Tables
         /\ Walked(table, f, untagged, P, Off(f)) \in Tables
         /\ \A ts \in Cell :
              WalkedAt(table, L, f, P, Walked(table, f, untagged, P, On(f)),
                       Walked(table, f, untagged, P, Off(f)), ts)
<1>1. /\ On(f) \in Entry /\ On(f).mfn = f /\ On(f).rw = TRUE
      /\ Off(f) \in Entry /\ Off(f).mfn = f /\ Off(f).rw = FALSE
  BY Zenon DEF Entry, On, Off
<1>2. PICK walked \in Tables : walked = With(table, untagged, Off(f))
  BY <1>1, WithTables, Zenon
<1>3. ASSUME NEW e \in Entry
      PROVE  /\ Walked(table, f, untagged, P, e) \in Tables
             /\ Walked(table, f, untagged, P, e) = With(walked, P, e)
  BY <1>2, WithTables, Zenon DEF Walked
<1>4. ASSUME NEW ts \in Cell
      PROVE  WalkedAt(table, L, f, P, Walked(table, f, untagged, P, On(f)),
                      Walked(table, f, untagged, P, Off(f)), ts)
  <2>1. PICK old, new : /\ old = Walked(table, f, untagged, P, On(f))
                        /\ new = Walked(table, f, untagged, P, Off(f))
    BY Zenon
  <2>2. /\ At(walked, ts) = IF ts \in untagged THEN Off(f) ELSE At(table, ts)
        /\ At(old, ts) = IF ts \in P THEN On(f) ELSE At(walked, ts)
        /\ At(new, ts) = IF ts \in P THEN Off(f) ELSE At(walked, ts)
    <3>1. /\ old = With(walked, P, On(f)) /\ new = With(walked, P, Off(f))
      BY <1>1, <1>3, <2>1, Zenon
    <3>2. At(walked, ts) = IF ts \in untagged THEN Off(f) ELSE At(table, ts)
      BY <1>2, AtWith
    <3>3. At(old, ts) = IF ts \in P THEN On(f) ELSE At(walked, ts)
      BY <3>1, AtWith
    <3>4. At(new, ts) = IF ts \in P THEN Off(f) ELSE At(walked, ts)
      BY <3>1, AtWith
    <3>5. QED
      BY <3>2, <3>3, <3>4, Zenon
  <2>3. At(table, ts) \in Entry
    BY CellShape, Zenon DEF At, Tables
  <2>4. ts \in P => ts[1] \in L /\ At(table, ts).mfn = f /\ At(table, ts).rw = TRUE
    BY <2>3, Zenon DEF Writable, Mapping, Entry
  <2>5. ts \in untagged => At(table, ts).mfn = f /\ At(table, ts).rw = FALSE
    BY <2>3, Zenon DEF Writable, Mapping, Entry
  <2>6. WalkedAt(table, L, f, P, old, new, ts)
    BY <1>1, <2>2, <2>4, <2>5, Zenon DEF WalkedAt
  <2>7. QED
    BY <2>1, <2>6, Zenon
<1>5. QED
  BY <1>1, <1>3, <1>4, Zenon

\* sh_remove_write_access in terms of that walk.
LEMMA RemoveWrite ==
  ASSUME EntriesOK, NEW c \in Cpu, NEW f \in Frame, NEW level \in {0, 1},
         sh_remove_write_access(c, f, level), ~ (f \in readonly \/ type_count[f] = 0)
  PROVE  \E P \in Excised(f), old \in Tables, new \in Tables :
           /\ shadow_set_l1e(old, new)
           /\ crashed' = (level # 0 /\ type_count'[f] # 0)
           /\ IF level = 0 /\ type_count'[f] # 0 THEN UNCHANGED tlb ELSE FlushAll
           /\ \A ts \in Cell : WalkedAt(sl1, live, f, P, old, new, ts)
<1>1. PICK P \in Excised(f), untagged \in SUBSET TaggedReadOnly(f) :
        /\ shadow_set_l1e(Walked(sl1, f, untagged, P, On(f)),
                          Walked(sl1, f, untagged, P, Off(f)))
        /\ crashed' = (level # 0 /\ type_count'[f] # 0)
        /\ IF level = 0 /\ type_count'[f] # 0 THEN UNCHANGED tlb ELSE FlushAll
  BY Zenon DEF sh_remove_write_access, Walked, On, Off
<1>2. /\ P \in SUBSET {ts \in Writable(sl1, f) : ts[1] \in live}
      /\ untagged \in SUBSET (Mapping(sl1, f) \ Writable(sl1, f))
      /\ sl1 \in Tables
  BY Zenon DEF Excised, TaggedReadOnly, EntriesOK
<1>3. PICK old, new : /\ old = Walked(sl1, f, untagged, P, On(f))
                      /\ new = Walked(sl1, f, untagged, P, Off(f))
  BY Zenon
<1>4. /\ old \in Tables /\ new \in Tables
      /\ \A ts \in Cell : WalkedAt(sl1, live, f, P, old, new, ts)
  BY <1>2, <1>3, WalkCell, Zenon
<1>5. QED
  BY <1>1, <1>3, <1>4, Zenon

\* sh_destroy_l1_shadow drops at most the references of the entries it takes away.
LEMMA DestroyCovered ==
  ASSUME NEW table, NEW L, NEW t \in L, Covered(table, L), NEW f \in Frame,
         NEW put, put = Puttable(table, {ts \in Mapping(table, f) : ts[1] = t}),
         NEW putRW, putRW = Puttable(table, {ts \in Writable(table, f) : ts[1] = t})
  PROVE  /\ count[f] - Cardinality(put) \in Nat
         /\ count[f] - Cardinality(put) >= Cardinality(Held(table, L \ {t}, f))
         /\ type_count[f] - Cardinality(putRW) \in Nat
         /\ type_count[f] - Cardinality(putRW) >= Cardinality(HeldRW(table, L \ {t}, f))
<1>1. Cardinality({}) = 0 /\ {} \in SUBSET Cell
  BY FS_EmptySet, Zenon
<1>2. /\ count[f] - Cardinality(put) \in Nat
      /\ count[f] - Cardinality(put) >= Cardinality(Held(table, L \ {t}, f))
  <2> DEFINE A == Held(table, L, f)
             B == {ts \in A : ts[1] = t}
             D == Held(table, L \ {t}, f)
             none == {}
  <2>1. Swap(A, B, none, put, D)
    BY Zenon DEF Swap, Held, Mapping, Puttable, Cell
  <2>2. count[f] \in Nat /\ count[f] >= Cardinality(A) /\ Cardinality(none) = 0
    BY <1>1, Zenon DEF Covered
  <2> HIDE DEF A, B, D, none
  <2>3. /\ Cardinality(A) \in Nat /\ Cardinality(put) \in Nat /\ Cardinality(D) \in Nat
        /\ Cardinality(D) <= Cardinality(A) + Cardinality(none) - Cardinality(put)
    BY <2>1, CardinalitySwap, Zenon
  <2>4. count[f] - Cardinality(put) \in Nat
          /\ count[f] - Cardinality(put) >= Cardinality(D)
    BY <2>2, <2>3
  <2>5. QED
    BY <2>4, Zenon DEF D
<1>3. /\ type_count[f] - Cardinality(putRW) \in Nat
      /\ type_count[f] - Cardinality(putRW) >= Cardinality(HeldRW(table, L \ {t}, f))
  <2> DEFINE A == HeldRW(table, L, f)
             B == {ts \in A : ts[1] = t}
             D == HeldRW(table, L \ {t}, f)
             none == {}
  <2>1. Swap(A, B, none, putRW, D)
    BY Zenon DEF Swap, HeldRW, Writable, Mapping, Puttable, Cell
  <2>2. type_count[f] \in Nat /\ type_count[f] >= Cardinality(A) /\ Cardinality(none) = 0
    BY <1>1, Zenon DEF Covered
  <2> HIDE DEF A, B, D, none
  <2>3. /\ Cardinality(A) \in Nat /\ Cardinality(putRW) \in Nat /\ Cardinality(D) \in Nat
        /\ Cardinality(D) <= Cardinality(A) + Cardinality(none) - Cardinality(putRW)
    BY <2>1, CardinalitySwap, Zenon
  <2>4. type_count[f] - Cardinality(putRW) \in Nat
          /\ type_count[f] - Cardinality(putRW) >= Cardinality(D)
    BY <2>2, <2>3
  <2>5. QED
    BY <2>4, Zenon DEF D
<1>4. QED
  BY <1>2, <1>3, Zenon

\* Every step keeps the entries of live tables covered by references.  A tagged
\* entry that is zeroed or overwritten keeps its reference, which only makes the
\* count larger.
LEMMA CountsStep ==
  ASSUME CountsOK, SeenCurrent, GuestOK, EntriesOK, CpuOK, CoverOK, [Next]_vars
  PROVE  CountsOK'
<1>0. Covered(sl1, live)
  BY CoveredIsCounts, Zenon
<1>a. sl1 \in Tables /\ live \subseteq Table
  BY Zenon DEF EntriesOK, CoverOK
<1>1. ASSUME NEW c \in Cpu, HookTag(c) PROVE CountsOK'
  <2>1. UNCHANGED <<live, count, type_count>>
    BY <1>1, Zenon DEF HookTag, refs
  <2>2. ASSUME NEW ts \in Cell
        PROVE  At(sl1', ts).mfn = At(sl1, ts).mfn /\ At(sl1', ts).rw = At(sl1, ts).rw
    BY <1>1, TagKeeps, Zenon
  <2>3. QED
    BY <1>0, <2>1, <2>2, FewerKeepsCovered, CountsNext, SMTT(60)
<1>2. ASSUME NEW c \in Cpu, sh_make_shadow(c) PROVE CountsOK'
  <2>1. PICK t \in Table \ live : /\ live' = live \cup {t}
                                  /\ sl1' = [sl1 EXCEPT ![t] = [s \in Slot |-> Empty]]
    BY <1>2, Zenon DEF sh_make_shadow
  <2>2. UNCHANGED <<count, type_count>>
    BY <1>2, Zenon DEF sh_make_shadow, refs
  <2>3. ASSUME NEW ts \in Cell
        PROVE  IF ts[1] = t THEN At(sl1', ts).mfn = NoFrame
                 ELSE At(sl1', ts) = At(sl1, ts)
    BY <1>a, <2>1, CellShape, EmptyEntry, Zenon DEF At, Tables
  <2>4. QED
    BY <1>0, <2>1, <2>2, <2>3, FewerKeepsCovered, CountsNext, Zenon
<1>3. ASSUME NEW c \in Cpu, NEW user \in BOOLEAN,
             AetBlock(c, user)
      PROVE  CountsOK'
  <2>1. UNCHANGED <<live, count, type_count>>
    BY <1>3, Zenon DEF AetBlock, refs
  <2>2. page[c][2] \in Slot
    BY <1>3, PageShape, Zenon DEF AetBlock, CpuOK
  <2>3. PICK t \in live : sl1' = sl1 \/ sl1' = [sl1 EXCEPT ![t][page[c][2]] = Empty]
    BY <1>3, Zenon DEF AetBlock, TablesOf
  <2>4. ASSUME NEW ts \in Cell
        PROVE  At(sl1', ts).mfn = NoFrame \/ At(sl1', ts) = At(sl1, ts)
    BY <1>a, <2>2, <2>3, AtExcept, EmptyEntry, SMTT(60)
  <2>5. QED
    BY <1>0, <2>1, <2>4, FewerKeepsCovered, CountsNext, Zenon
<1>4. ASSUME NEW c \in Cpu, SetEntry(c) PROVE CountsOK'
  <2>1. PICK t \in live, new \in Tables :
           /\ shadow_set_l1e(sl1, new)
           /\ \A ts \in Cell : At(new, ts) = At(sl1, ts) \/ ts[1] = t
    BY <1>4, SetEntryTables, Zenon
  <2>2. sl1' = new /\ live' = live
    BY <1>4, <2>1, SetTables, Zenon DEF SetEntry
  <2>3. QED
    BY <1>0, <2>1, <2>2, SetKeepsCovered, CountsNext, SMTT(60)
<1>5. ASSUME NEW c \in Cpu, NEW p \in Page, NEW f \in Frame \cup {NoFrame},
             GuestWrite(c, p, f)
      PROVE  CountsOK'
  <2> DEFINE new == [t \in Table |->
                       IF t \in TablesOf(p[1])
                         THEN [sl1[t] EXCEPT ![p[2]] = Propagated(f)]
                       ELSE sl1[t]]
  <2>1. shadow_set_l1e(sl1, new) /\ live' = live
    BY <1>5, Zenon DEF GuestWrite
  <2>2. \A ts \in Cell : At(sl1, ts) # At(new, ts) => ts[1] \in live
    BY CellShape, Zenon DEF At, TablesOf
  <2> HIDE DEF new
  <2>3. QED
    BY <1>0, <2>1, <2>2, SetTables, SetKeepsCovered, CountsNext
<1>6. ASSUME NEW c \in Cpu, NEW f \in Frame, NEW level \in {0, 1},
             sh_remove_write_access(c, f, level)
      PROVE  CountsOK'
  <2>1. CASE UNCHANGED <<sl1, refs>>
    BY <1>6, <1>0, <2>1, FewerKeepsCovered, CountsNext, Zenon DEF
       sh_remove_write_access, refs
  <2>2. CASE ~ (f \in readonly \/ type_count[f] = 0)
    <3>1. PICK P \in Excised(f), old \in Tables, new \in Tables :
                 /\ shadow_set_l1e(old, new)
                 /\ \A ts \in Cell : WalkedAt(sl1, live, f, P, old, new, ts)
      BY <1>6, <2>2, RemoveWrite, Zenon
    <3>a. \A ts \in Cell :
            /\ At(old, ts).mfn = At(sl1, ts).mfn /\ At(old, ts).rw = At(sl1, ts).rw
            /\ At(old, ts) # At(new, ts) => ts[1] \in live
      BY <3>1, Zenon DEF WalkedAt
    <3>2. Covered(old, live)
      BY <1>0, <3>a, SameCovered
    <3>3. sl1' = new /\ live' = live
      BY <1>6, <3>1, SetTables, Zenon DEF sh_remove_write_access
    <3>4. QED
      BY <3>1, <3>a, <3>2, <3>3, SetKeepsCovered, CountsNext, SMTT(60)
  <2>3. QED
    BY <1>6, <2>1, <2>2, Zenon DEF sh_remove_write_access
<1>7. ASSUME NEW c \in Cpu, NEW f \in Frame,
             sh_remove_all_mappings(c, f)
      PROVE  CountsOK'
  <2>1. CASE UNCHANGED <<sl1, refs>>
    BY <1>7, <1>0, <2>1, FewerKeepsCovered, CountsNext, Zenon DEF
       sh_remove_all_mappings, refs
  <2>2. CASE count[f] # 0
    <3> DEFINE P == {ts \in Puttable(sl1, Mapping(sl1, f)) : ts[1] \in live}
    <3>1. shadow_set_l1e(sl1, With(sl1, P, Empty)) /\ live' = live
      BY <1>7, <2>2, Zenon DEF sh_remove_all_mappings
    <3>2. \A ts \in Cell : At(sl1, ts) # At(With(sl1, P, Empty), ts) => ts[1] \in live
      BY <1>a, AtWith
    <3> HIDE DEF P
    <3>3. QED
      BY <1>0, <3>1, <3>2, SetTables, SetKeepsCovered, CountsNext, SMTT(60)
  <2>3. QED
    BY <1>7, <2>1, <2>2, Zenon DEF sh_remove_all_mappings
<1>8. ASSUME NEW c \in Cpu, NEW t \in Table,
             sh_destroy_l1_shadow(c, t)
      PROVE  CountsOK'
  <2>1. /\ sl1' = sl1 /\ live' = live \ {t} /\ t \in live
        /\ count' = [f \in Frame |-> count[f] -
             Cardinality(Puttable(sl1, {ts \in Mapping(sl1, f) : ts[1] = t}))]
        /\ type_count' = [f \in Frame |-> type_count[f] -
             Cardinality(Puttable(sl1, {ts \in Writable(sl1, f) : ts[1] = t}))]
    BY <1>8, Zenon DEF sh_destroy_l1_shadow
  <2>2. ASSUME NEW f \in Frame
        PROVE  /\ count'[f] \in Nat /\ count'[f] >= Cardinality(Held(sl1, live \ {t}, f))
               /\ type_count'[f] \in Nat
               /\ type_count'[f] >= Cardinality(HeldRW(sl1, live \ {t}, f))
    <3>1. PICK put, putRW : /\ put = Puttable(sl1, {ts \in Mapping(sl1, f) : ts[1] = t})
                            /\ putRW = Puttable(sl1, {ts \in Writable(sl1, f) : ts[1] = t})
      BY Zenon
    <3>2. /\ count'[f] = count[f] - Cardinality(put)
          /\ type_count'[f] = type_count[f] - Cardinality(putRW)
      BY <2>1, <3>1, Zenon
    <3>3. /\ count[f] - Cardinality(put) \in Nat
          /\ count[f] - Cardinality(put) >= Cardinality(Held(sl1, live \ {t}, f))
          /\ type_count[f] - Cardinality(putRW) \in Nat
          /\ type_count[f] - Cardinality(putRW) >= Cardinality(HeldRW(sl1, live \ {t}, f))
      BY <1>0, <2>1, <3>1, DestroyCovered, Zenon
    <3>4. QED
      BY <3>2, <3>3, Zenon
  <2>3. count' \in [Frame -> Nat] /\ type_count' \in [Frame -> Nat]
    BY <2>1, <2>2, Zenon
  <2>4. QED
    BY <2>1, <2>2, <2>3, CountsNext, Zenon
<1>9. ASSUME NEW c \in Cpu,
              \/ (\E p \in Page : Fill(c, p))
              \/ (\E p \in Page \cup {NoPage} : VmExit(c, p)) \/ SkipHook(c)
              \/ BeginHook(c) \/ HookNext(c) \/ HookScan(c) \/ HookEnd(c)
              \/ PassFault(c) \/ Return(c)
              \/ (\E f \in Frame : shadow_demote(c, f))
              \/ (\E f \in Frame : p2m_add_page(c, f))
      PROVE  CountsOK'
  BY <1>9, CoveredIsCounts, Zenon DEF Fill, VmExit, SkipHook, BeginHook,
     HookNext, HookScan, HookEnd, PassFault, Return, shadow_demote, Locked,
     p2m_add_page, shadow, refs, CountsOK, RefsCoverMappings, LiveMapping,
     LiveWritable, Mapping, Writable, At
<1>10. ASSUME set_aet_track_open \/ UNCHANGED vars PROVE CountsOK'
  BY <1>10, CoveredIsCounts, Zenon DEF set_aet_track_open, vars, shadow, refs,
     CountsOK, RefsCoverMappings, LiveMapping, LiveWritable, Mapping, Writable,
     At
<1>11. QED
  BY <1>1, <1>2, <1>3, <1>4, <1>5, <1>6, <1>7, <1>8, <1>9, <1>10, Zenon DEF
     Next, Hook, sh_page_fault, OtherExit

-----------------------------------------------------------------------------
(* One processor.                                                           *)

\* With one processor, nothing runs between HookScan and HookTag.
LEMMA SeenStep ==
  ASSUME Uniprocessor, CpuOK, SeenCurrent, [Next]_vars PROVE SeenCurrent'
<1> USE DEF Uniprocessor, SeenCurrent, In
<1>1. ASSUME NEW c \in Cpu, pc'[c] # "tag" PROVE SeenCurrent'
  BY <1>1, Zenon
<1>2. ASSUME NEW c \in Cpu, HookScan(c) PROVE SeenCurrent'
  <2>1. UNCHANGED <<sl1, slot>> \/ pc'[c] # "tag"
    BY <1>2, Zenon DEF HookScan, shadow, CpuOK
  <2>2. CASE pc'[c] = "tag"
    <3>1. PICK e : e = sl1[seen[c][1].sl1mfn][slot[c]]
      BY Zenon
    <3>2. seen' = [seen EXCEPT ![c] = <<seen[c][1], e>>] /\ UNCHANGED <<sl1, slot>>
      BY <1>2, <2>2, <3>1, Zenon DEF HookScan, shadow, CpuOK
    <3>3. seen'[c] = <<seen[c][1], e>>
      BY <3>2, Zenon DEF CpuOK
    <3>4. seen'[c][1] = seen[c][1] /\ seen'[c][2] = e
      BY <3>3
    <3>5. sl1'[seen'[c][1].sl1mfn][slot'[c]] = sl1[seen[c][1].sl1mfn][slot[c]]
      BY <3>2, <3>4, Zenon
    <3>6. seen'[c][2] = sl1'[seen'[c][1].sl1mfn][slot'[c]]
      BY <3>1, <3>4, <3>5, Zenon
    <3>7. QED
      BY <3>6, Zenon
  <2>3. QED
    BY <1>1, <2>2, Zenon
<1>3. ASSUME NEW c \in Cpu,
              \/ \E p \in Page : Fill(c, p)
              \/ \E p \in Page \cup {NoPage} : VmExit(c, p)
              \/ SkipHook(c) \/ BeginHook(c) \/ HookNext(c) \/ HookTag(c) \/ HookEnd(c)
              \/ sh_page_fault(c) \/ OtherExit(c)
      PROVE  SeenCurrent'
  <2>1. pc'[c] # "tag"
    BY <1>3, Zenon DEF Fill, VmExit, SkipHook, BeginHook, HookNext, HookTag,
       HookEnd, sh_page_fault, PassFault, sh_make_shadow, AetBlock, SetEntry,
       OtherExit, Return, GuestWrite, shadow_demote, sh_remove_write_access,
       sh_remove_all_mappings, p2m_add_page, sh_destroy_l1_shadow, Locked,
       CpuOK, cpu
  <2>2. QED
    BY <1>1, <2>1, Zenon
<1>4. ASSUME set_aet_track_open \/ UNCHANGED vars PROVE SeenCurrent'
  BY <1>4, Zenon DEF set_aet_track_open, vars, cpu, shadow
<1>5. QED
  BY <1>2, <1>3, <1>4, Zenon DEF Next, Hook

\* An entry by table and slot.
LEMMA AtPair ==
  ASSUME NEW t \in Table, NEW s \in Slot
  PROVE  /\ <<t, s>> \in Cell /\ <<t, s>>[1] = t /\ <<t, s>>[2] = s
         /\ \A table : At(table, <<t, s>>) = table[t][s]
BY Zenon DEF Cell, At

\* The cell of a table and a slot.
LEMMA CellOf ==
  ASSUME NEW t \in Table, NEW s \in Slot
  PROVE  \E ts \in Cell : /\ ts = <<t, s>> /\ ts[1] = t /\ ts[2] = s
                         /\ \A table : At(table, ts) = table[t][s]
<1>1. PICK ts \in Cell : ts = <<t, s>>
  BY AtPair, Zenon
<1>2. /\ ts[1] = t /\ ts[2] = s
      /\ \A table : At(table, ts) = table[t][s]
  BY <1>1, AtPair
<1>3. QED
  BY <1>1, <1>2, Zenon

\* TagKeeps by table and slot.
LEMMA TagEntry ==
  ASSUME EntriesOK, CpuOK, SeenCurrent, NEW c \in Cpu, HookTag(c),
         NEW t \in Table, NEW s \in Slot
  PROVE  /\ sl1'[t][s].mfn = sl1[t][s].mfn /\ sl1'[t][s].rw = sl1[t][s].rw
         /\ ~ sl1'[t][s].magic => sl1'[t][s] = sl1[t][s]
<1>1. PICK ts \in Cell : \A table : At(table, ts) = table[t][s]
  BY CellOf
<1>2. /\ At(sl1', ts).mfn = At(sl1, ts).mfn /\ At(sl1', ts).rw = At(sl1, ts).rw
      /\ ~ At(sl1', ts).magic => At(sl1', ts) = At(sl1, ts)
  BY TagKeeps, Zenon
<1>3. At(sl1', ts) = sl1'[t][s] /\ At(sl1, ts) = sl1[t][s]
  BY <1>1, Zenon
<1>4. QED
  BY <1>2, <1>3, Zenon

\* The entry the walk writes is read-only and untagged.
LEMMA OffEntry ==
  ASSUME NEW f PROVE ~ Off(f).rw /\ ~ Off(f).magic /\ Off(f).mfn = f
BY Zenon DEF Off

\* sh_remove_write_access leaves an entry alone or makes it read-only, in place.
LEMMA WalkEntry ==
  ASSUME EntriesOK, NEW c \in Cpu, NEW f \in Frame, NEW level \in {0, 1},
         sh_remove_write_access(c, f, level), NEW t \in Table, NEW s \in Slot
  PROVE  \/ sl1'[t][s] = sl1[t][s]
         \/ sl1[t][s].mfn = f /\ sl1'[t][s] = Off(f)
<1>1. CASE f \in readonly \/ type_count[f] = 0
  BY <1>1, Zenon DEF sh_remove_write_access
<1>2. CASE ~ (f \in readonly \/ type_count[f] = 0)
  <2>1. PICK P \in Excised(f), old \in Tables, new \in Tables :
          /\ shadow_set_l1e(old, new)
          /\ \A ts \in Cell : WalkedAt(sl1, live, f, P, old, new, ts)
    BY <1>2, RemoveWrite, Zenon
  <2>2. sl1' = new
    BY <2>1, SetTables, Zenon
  <2>3. PICK ts \in Cell : \A table : At(table, ts) = table[t][s]
    BY CellOf
  <2>4. \/ At(new, ts) = At(sl1, ts)
        \/ At(sl1, ts).mfn = f /\ At(new, ts) = Off(f)
    BY <2>1, Zenon DEF WalkedAt
  <2>5. At(new, ts) = sl1'[t][s] /\ At(sl1, ts) = sl1[t][s]
    BY <2>2, <2>3, Zenon
  <2>6. QED
    BY <2>4, <2>5, Zenon
<1>3. QED
  BY <1>1, <1>2, Zenon

\* sh_remove_all_mappings leaves an entry alone or empties it.
LEMMA UnmapEntry ==
  ASSUME EntriesOK, NEW c \in Cpu, NEW f \in Frame, sh_remove_all_mappings(c, f),
         NEW t \in Table, NEW s \in Slot
  PROVE  sl1'[t][s] = sl1[t][s] \/ sl1'[t][s] = Empty
<1>1. \/ sl1' = sl1
      \/ \E P : sl1' = With(sl1, P, Empty)
  BY SetTables, Zenon DEF sh_remove_all_mappings
<1>2. QED
  BY <1>1, Zenon DEF With

\* The AET block empties the faulting entry if it is tagged, and no other.
LEMMA ZeroEntry ==
  ASSUME EntriesOK, CpuOK, CoverOK, NEW c \in Cpu, NEW user \in BOOLEAN, 
         AetBlock(c, user), NEW t \in Table, NEW s \in Slot
  PROVE  /\ sl1'[t][s] = sl1[t][s] \/ sl1'[t][s] = Empty
         /\ t \in TablesOf(page[c][1]) /\ s = page[c][2] /\ sl1[t][s].magic
            => sl1'[t][s] = Empty
<1>1. page[c][2] \in Slot
  BY PageShape, Zenon DEF AetBlock, CpuOK
<1>2. PICK u \in TablesOf(page[c][1]) :
             sl1' = IF sl1[u][page[c][2]].magic
                    THEN [sl1 EXCEPT ![u][page[c][2]] = Empty] ELSE sl1
  BY Zenon DEF AetBlock
<1>3. t \in TablesOf(page[c][1]) => t = u
  BY Zenon DEF TablesOf, CoverOK
<1>4. u \in Table
  BY Zenon DEF TablesOf, CoverOK
<1>5. QED
  BY <1>1, <1>2, <1>3, <1>4, Zenon DEF EntriesOK, Tables

\* sh_make_shadow adds one table, empty.
LEMMA MakeEntry ==
  ASSUME EntriesOK, NEW c \in Cpu, sh_make_shadow(c)
  PROVE  \E u \in Table \ live :
           /\ live' = live \cup {u}
           /\ covers' = [covers EXCEPT ![u] = page[c][1]]
           /\ \A s \in Slot : sl1'[u][s] = Empty
           /\ \A t \in Table \ {u}, s \in Slot : sl1'[t][s] = sl1[t][s]
<1>1. PICK u \in Table \ live :
             /\ live' = live \cup {u} /\ covers' = [covers EXCEPT ![u] = page[c][1]]
             /\ sl1' = [sl1 EXCEPT ![u] = [s \in Slot |-> Empty]]
  BY Zenon DEF sh_make_shadow
<1>2. QED
  BY <1>1, Zenon DEF EntriesOK, Tables

\* SetEntry, by table and slot.
LEMMA FillEntry ==
  ASSUME GuestOK, EntriesOK, CpuOK, CoverOK, NEW c \in Cpu, SetEntry(c),
         NEW t \in Table, NEW s \in Slot
  PROVE  \/ sl1'[t][s] = sl1[t][s]
         \/ /\ covers[t] = page[c][1] /\ page[c] \in Page
            /\ sl1'[t][s] = Propagated(gl1[<<page[c][1], s>>])
<1>1. PICK u \in live, new \in Tables :
           /\ shadow_set_l1e(sl1, new) /\ page[c] \in Page /\ u \in TablesOf(page[c][1])
           /\ \A ts \in Cell :
                \/ At(new, ts) = At(sl1, ts)
                \/ /\ ts[1] = u
                   /\ At(new, ts) = Propagated(gl1[<<page[c][1], ts[2]>>])
  BY SetEntryTables, Zenon
<1>2. sl1' = new
  BY <1>1, SetTables, Zenon
<1>3. PICK ts \in Cell : ts[1] = t /\ ts[2] = s /\ \A table : At(table, ts) = table[t][s]
  BY CellOf
<1>4. At(new, ts) = sl1'[t][s] /\ At(sl1, ts) = sl1[t][s]
  BY <1>2, <1>3, Zenon
<1>5. \/ At(new, ts) = At(sl1, ts)
      \/ ts[1] = u /\ At(new, ts) = Propagated(gl1[<<page[c][1], ts[2]>>])
  BY <1>1, Zenon
<1>6. covers[u] = page[c][1] /\ page[c] \in Page
  BY <1>1, Zenon DEF TablesOf
<1>7. QED
  BY <1>3, <1>4, <1>5, <1>6, Zenon

\* An emulated guest write changes the entries of the page written.
LEMMA WriteEntry ==
  ASSUME EntriesOK, NEW c \in Cpu, NEW p \in Page, NEW f \in Frame \cup {NoFrame},
         GuestWrite(c, p, f), NEW t \in Table, NEW s \in Slot
  PROVE  /\ t \in TablesOf(p[1]) /\ s = p[2] => sl1'[t][s] = Propagated(f)
         /\ ~ (t \in TablesOf(p[1]) /\ s = p[2]) => sl1'[t][s] = sl1[t][s]
<1>1. sl1' = [u \in Table |->
                IF u \in TablesOf(p[1]) THEN [sl1[u] EXCEPT ![p[2]] = Propagated(f)]
                ELSE sl1[u]]
  BY SetTables, Zenon DEF GuestWrite
<1>2. QED
  BY <1>1, Zenon DEF EntriesOK, Tables

\* A frame that a live entry maps writable has a writable reference.
LEMMA HasWritable ==
  ASSUME CountsOK, EntriesOK, CoverOK, NEW t \in live, NEW s \in Slot,
         sl1[t][s].rw, sl1[t][s].mfn \in Frame
  PROVE  type_count[sl1[t][s].mfn] > 0
<1>1. PICK f \in Frame : f = sl1[t][s].mfn
  BY Zenon
<1>2. <<t, s>> \in LiveWritable(f) /\ LiveWritable(f) \in SUBSET Cell
  BY <1>1, AtPair, SMTT(60) DEF LiveWritable, Writable, Mapping, CoverOK, Cell
<1>3. Cardinality(LiveWritable(f)) # 0 /\ Cardinality(LiveWritable(f)) \in Nat
  BY <1>2, CellsFinite, FS_EmptySet, Zenon
<1>4. type_count[f] \in Nat /\ type_count[f] >= Cardinality(LiveWritable(f))
  BY Zenon DEF CountsOK, RefsCoverMappings
<1>5. QED
  BY <1>1, <1>3, <1>4, SMTT(60)

\* With enough references the walk of sh_rm_write_access_from_l1 does not stop
\* early: it finds every writable entry of the frame.
LEMMA ExcisedAll ==
  ASSUME CountsOK, NEW f \in Frame, NEW P \in Excised(f)
  PROVE  P = LiveWritable(f)
<1>1. LiveWritable(f) \in SUBSET Cell /\ P \in SUBSET LiveWritable(f)
  BY Zenon DEF LiveWritable, Writable, Mapping, Cell, Excised
<1>2. IsFiniteSet(LiveWritable(f)) /\ Cardinality(LiveWritable(f)) \in Nat
  BY <1>1, CellsFinite, Zenon
<1>3. type_count[f] \in Nat /\ type_count[f] >= Cardinality(LiveWritable(f))
  BY Zenon DEF CountsOK, RefsCoverMappings
<1>4. Cardinality(P) = IF Cardinality(LiveWritable(f)) < type_count[f]
                       THEN Cardinality(LiveWritable(f)) ELSE type_count[f]
  BY Zenon DEF Excised, LiveWritable
<1>5. Cardinality(P) = Cardinality(LiveWritable(f))
  BY <1>2, <1>3, <1>4
<1>6. QED
  BY <1>1, <1>2, <1>5, FS_Subset, Zenon

\* Until a fault is handled no other step makes its entry writable and usable.
LEMMA FaultStep ==
  ASSUME Uniprocessor, EntriesOK, CpuOK, CoverOK, SeenCurrent, FaultingEntry, [Next]_vars
  PROVE  FaultingEntry'
<1> USE DEF Uniprocessor, FaultingEntry, In, TablesOf
<1>a. \A c \in Cpu : page[c] # NoPage => page[c][1] \in Region /\ page[c][2] \in Slot
  BY PageShape, Zenon DEF CpuOK
<1>b. live \subseteq Table
  BY Zenon DEF CoverOK
<1>1. ASSUME NEW c \in Cpu, NEW p \in Page \cup {NoPage},
             VmExit(c, p)
      PROVE  FaultingEntry'
  <2>1. CASE p = NoPage
    BY <1>1, <2>1, Zenon DEF VmExit, CpuOK
  <2>2. CASE p # NoPage
    <3>1. /\ page'[c] = p /\ pc'[c] = "exit" /\ UNCHANGED <<sl1, live, covers>>
          /\ \A t \in TablesOf(p[1]) : sl1[t][p[2]].magic \/ ~ sl1[t][p[2]].rw
      BY <1>1, <2>2, Zenon DEF VmExit, CpuOK, shadow
    <3>2. QED
      BY <3>1, Zenon
  <2>3. QED
    BY <2>1, <2>2, Zenon
<1>2. ASSUME NEW c \in Cpu, HookTag(c) PROVE FaultingEntry'
  <2>1. UNCHANGED <<page, live, covers>> /\ pc'[c] # "set" /\ pc[c] # "set"
    BY <1>2, Zenon DEF HookTag, CpuOK
  <2>2. ASSUME NEW t \in Table, NEW s \in Slot
        PROVE  sl1'[t][s].rw = sl1[t][s].rw
                 /\ (~ sl1'[t][s].magic => sl1'[t][s] = sl1[t][s])
    BY <1>2, TagEntry, Zenon
  <2>3. QED
    BY <1>a, <1>b, <2>1, <2>2, SMTT(60)
<1>3. ASSUME NEW c \in Cpu, PassFault(c) PROVE FaultingEntry'
  BY <1>3, Zenon DEF PassFault, CpuOK
<1>4. ASSUME NEW c \in Cpu, sh_make_shadow(c) PROVE FaultingEntry'
  <2>1. UNCHANGED <<page, pc>>
    BY <1>4, Zenon DEF sh_make_shadow, cpu
  <2>2. PICK u \in Table \ live :
           /\ live' = live \cup {u} /\ covers' = [covers EXCEPT ![u] = page[c][1]]
           /\ \A s \in Slot : sl1'[u][s] = Empty
           /\ \A t \in Table \ {u}, s \in Slot : sl1'[t][s] = sl1[t][s]
    BY <1>4, MakeEntry, Zenon
  <2>3. ASSUME NEW d \in Cpu, page[d] # NoPage, NEW t \in live',
               covers'[t] = page[d][1]
        PROVE  \/ ~ sl1'[t][page[d][2]].rw
               \/ sl1'[t][page[d][2]].magic /\ pc[d] # "set"
    <3>1. page[d][2] \in Slot
      BY <1>a, <2>3, Zenon
    <3>2. CASE t = u
      BY <2>2, <3>1, <3>2, EmptyEntry, Zenon
    <3>3. CASE t # u
      <4>1. t \in live /\ covers[t] = page[d][1]
        BY <1>b, <2>2, <2>3, <3>3, Zenon DEF CoverOK
      <4>2. sl1'[t][page[d][2]] = sl1[t][page[d][2]]
        BY <1>b, <2>2, <3>1, <3>3, <4>1, Zenon
      <4>3. QED
        BY <2>3, <4>1, <4>2, Zenon
    <3>4. QED
      BY <3>2, <3>3, Zenon
  <2>4. QED
    BY <2>1, <2>3, Zenon
<1>5. ASSUME NEW c \in Cpu, NEW user \in BOOLEAN,
             AetBlock(c, user)
      PROVE  FaultingEntry'
  <2>1. UNCHANGED <<page, live, covers>> /\ pc[c] = "dispatch" /\ page[c] # NoPage
    BY <1>5, Zenon DEF AetBlock
  <2>2. ASSUME NEW t \in TablesOf(page[c][1]) PROVE ~ sl1'[t][page[c][2]].rw
    <3>0. page[c][2] \in Slot /\ t \in Table
      BY <1>a, <1>b, <2>1, Zenon
    <3>1. /\ sl1'[t][page[c][2]] = sl1[t][page[c][2]] \/ sl1'[t][page[c][2]] = Empty
          /\ sl1[t][page[c][2]].magic => sl1'[t][page[c][2]] = Empty
      BY <1>5, <3>0, ZeroEntry
    <3>2. QED
      BY <2>1, <3>1, EmptyEntry, Zenon
  <2>3. QED
    BY <2>1, <2>2, Zenon
<1>6. ASSUME NEW c \in Cpu, SetEntry(c) PROVE FaultingEntry'
  BY <1>6, Zenon DEF SetEntry, CpuOK
<1>7. ASSUME NEW c \in Cpu, NEW p \in Page, NEW f \in Frame \cup {NoFrame},
             GuestWrite(c, p, f)
      PROVE  FaultingEntry'
  BY <1>7, Zenon DEF GuestWrite, Locked, cpu
<1>8. ASSUME NEW c \in Cpu, NEW f \in Frame, NEW level \in {0, 1},
             sh_remove_write_access(c, f, level)
      PROVE  FaultingEntry'
  <2>1. UNCHANGED <<page, pc, live, covers>>
    BY <1>8, Zenon DEF sh_remove_write_access, cpu
  <2>2. ASSUME NEW t \in Table, NEW s \in Slot
        PROVE  sl1'[t][s] = sl1[t][s] \/ ~ sl1'[t][s].rw
    <3>1. sl1'[t][s] = sl1[t][s] \/ sl1'[t][s] = Off(f)
      BY <1>8, WalkEntry
    <3>2. QED
      BY <3>1, OffEntry, Zenon
  <2>3. QED
    BY <1>a, <1>b, <2>1, <2>2, Zenon
<1>9. ASSUME NEW c \in Cpu, NEW f \in Frame,
             sh_remove_all_mappings(c, f)
      PROVE  FaultingEntry'
  <2>1. UNCHANGED <<page, pc, live, covers>>
    BY <1>9, Zenon DEF sh_remove_all_mappings, cpu
  <2>2. ASSUME NEW t \in Table, NEW s \in Slot
        PROVE  sl1'[t][s] = sl1[t][s] \/ ~ sl1'[t][s].rw
    BY <1>9, UnmapEntry, EmptyEntry, Zenon
  <2>3. QED
    BY <1>a, <1>b, <2>1, <2>2, Zenon
<1>10. ASSUME NEW c \in Cpu, NEW t \in Table,
             sh_destroy_l1_shadow(c, t)
      PROVE  FaultingEntry'
  BY <1>10, Zenon DEF sh_destroy_l1_shadow, cpu
<1>11. ASSUME NEW c \in Cpu,
              \/ (\E p \in Page : Fill(c, p)) \/ SkipHook(c) \/ BeginHook(c)
              \/ HookNext(c) \/ HookScan(c) \/ HookEnd(c) \/ Return(c)
              \/ (\E f \in Frame : shadow_demote(c, f))
              \/ (\E f \in Frame : p2m_add_page(c, f))
      PROVE  FaultingEntry'
  BY <1>11, ZenonT(60), Zenon DEF Fill, SkipHook, BeginHook, HookNext,
     HookScan, HookEnd, Return, shadow_demote, Locked, p2m_add_page, shadow,
     cpu, CpuOK
<1>12. ASSUME set_aet_track_open \/ UNCHANGED vars PROVE FaultingEntry'
  BY <1>12, Zenon DEF set_aet_track_open, vars, shadow, cpu, CpuOK
<1>13. QED
  BY <1>1, <1>2, <1>3, <1>4, <1>5, <1>6, <1>7, <1>8, <1>9, <1>10, <1>11, <1>12,
     ZenonT(60), Zenon DEF Next, Hook, sh_page_fault, OtherExit

\* SetEntry drops no writable reference, which is why it needs no flush.
LEMMA SetEntryKeepsWritable ==
  ASSUME GuestOK, EntriesOK, CpuOK, CoverOK, CountsOK, FaultingEntry,
         NEW c \in Cpu, SetEntry(c), NEW f \in Frame
  PROVE  type_count'[f] >= type_count[f]
<1>1. PICK t \in live, new \in Tables :
           /\ shadow_set_l1e(sl1, new) /\ page[c] \in Page /\ t \in TablesOf(page[c][1])
           /\ \A ts \in Cell :
                \/ At(new, ts) = At(sl1, ts)
                \/ ts[1] = t /\ (ts[2] = page[c][2] \/ ~ Present(At(sl1, ts)))
  BY SetEntryTables, Zenon
<1>2. ASSUME NEW ts \in Cell, At(sl1, ts) # At(new, ts) PROVE ts \notin Writable(sl1, f)
  <2>1. CASE ~ Present(At(sl1, ts))
    BY <2>1, NoneAssumption, Zenon DEF Present, Writable, Mapping
  <2>2. CASE ts[1] = t /\ ts[2] = page[c][2]
    <3>1. At(sl1, ts) = sl1[t][page[c][2]]
      BY <2>2, Zenon DEF At
    <3>2. pc[c] = "set" /\ page[c] # NoPage
      BY NoPageAssumption, <1>1, Zenon DEF SetEntry, In
    <3>3. ~ sl1[t][page[c][2]].rw
      BY <1>1, <3>2, Zenon DEF FaultingEntry
    <3>4. QED
      BY <3>1, <3>3, Zenon DEF Writable
  <2>3. QED
    BY <1>1, <1>2, <2>1, <2>2, Zenon
<1>3. PICK set : set = {ts \in Cell : At(sl1, ts) # At(new, ts)}
  BY Zenon
<1>4. type_count'[f] = type_count[f] + (Cardinality(Writable(new, f) \cap set)
                                   - Cardinality(Puttable(sl1, Writable(sl1, f) \cap set)))
  BY <1>1, <1>3, Zenon DEF shadow_set_l1e, Cell
<1>5. Puttable(sl1, Writable(sl1, f) \cap set) = {}
  BY <1>2, <1>3, Zenon DEF Puttable
<1>6. Cardinality({}) = 0 /\ Cardinality(Writable(new, f) \cap set) \in Nat
  <2>1. Writable(new, f) \cap set \in SUBSET Cell
    BY <1>3, Zenon
  <2>2. QED
    BY <2>1, CellsFinite, FS_EmptySet, Zenon
<1>7. type_count[f] \in Nat
  BY Zenon DEF CountsOK
<1>8. Cardinality(Puttable(sl1, Writable(sl1, f) \cap set)) = 0
  BY <1>5, <1>6, Zenon
<1>9. PICK gained, lost :
        /\ gained \in Nat /\ gained = Cardinality(Writable(new, f) \cap set)
        /\ lost = Cardinality(Puttable(sl1, Writable(sl1, f) \cap set))
  BY <1>6, Zenon
<1>10. type_count'[f] = type_count[f] + (gained - lost) /\ lost = 0
  BY <1>4, <1>8, <1>9, Zenon
<1>11. QED
  BY <1>7, <1>9, <1>10

\* sh_remove_write_access drops no writable reference of another frame.
LEMMA WalkKeepsOthers ==
  ASSUME EntriesOK, CountsOK, NEW c \in Cpu, NEW f \in Frame, NEW level \in {0, 1},
         sh_remove_write_access(c, f, level), NEW g \in Frame, g # f
  PROVE  type_count'[g] = type_count[g]
<1>1. CASE f \in readonly \/ type_count[f] = 0
  BY <1>1, Zenon DEF sh_remove_write_access, refs
<1>2. CASE ~ (f \in readonly \/ type_count[f] = 0)
  <2>1. PICK P \in Excised(f), old \in Tables, new \in Tables :
          /\ shadow_set_l1e(old, new)
          /\ \A ts \in Cell : WalkedAt(sl1, live, f, P, old, new, ts)
    BY <1>2, RemoveWrite, Zenon
  <2>2. PICK set : set = {ts \in Cell : At(old, ts) # At(new, ts)}
    BY Zenon
  <2>3. type_count'[g] = type_count[g] + (Cardinality(Writable(new, g) \cap set)
                                     - Cardinality(Puttable(old, Writable(old, g) \cap set)))
    BY <2>1, <2>2, Zenon DEF shadow_set_l1e, Cell
  <2>4. ASSUME NEW ts \in set PROVE At(old, ts).mfn = f /\ At(new, ts).mfn = f
    BY <2>1, <2>2, OffEntry, Zenon DEF WalkedAt
  <2>5. Writable(new, g) \cap set = {} /\ Puttable(old, Writable(old, g) \cap set) = {}
    BY <2>4, Zenon DEF Puttable, Writable, Mapping
  <2>6. Cardinality({}) = 0
    BY FS_EmptySet, Zenon
  <2>7. type_count[g] \in Nat
    BY Zenon DEF CountsOK
  <2>8. /\ Cardinality(Writable(new, g) \cap set) = 0
        /\ Cardinality(Puttable(old, Writable(old, g) \cap set)) = 0
    BY <2>5, <2>6, Zenon
  <2>9. PICK gained, lost :
          /\ gained = Cardinality(Writable(new, g) \cap set)
          /\ lost = Cardinality(Puttable(old, Writable(old, g) \cap set))
    BY Zenon
  <2>10. type_count'[g] = type_count[g] + (gained - lost) /\ gained = 0 /\ lost = 0
    BY <2>3, <2>8, <2>9, Zenon
  <2>11. QED
    BY <2>7, <2>10
<1>3. QED
  BY <1>1, <1>2, Zenon

\* Every step keeps page tables from being writable through a usable entry.
LEMMA UsableStep ==
  ASSUME GuestOK, EntriesOK, CpuOK, CoverOK, SeenCurrent, CountsOK, Usable, [Next]_vars
  PROVE  Usable'
<1> USE DEF Usable
<1>b. live \subseteq Table
  BY Zenon DEF CoverOK
<1>1. ASSUME NEW c \in Cpu, HookTag(c) PROVE Usable'
  <2>1. UNCHANGED <<readonly, live>>
    BY <1>1, Zenon DEF HookTag, guest
  <2>2. ASSUME NEW t \in Table, NEW s \in Slot
        PROVE  ~ sl1'[t][s].magic => sl1'[t][s] = sl1[t][s]
    BY <1>1, TagEntry, Zenon
  <2>3. QED
    BY <1>b, <2>1, <2>2, Zenon
<1>2. ASSUME NEW c \in Cpu, sh_make_shadow(c) PROVE Usable'
  <2>1. UNCHANGED readonly
    BY <1>2, Zenon DEF sh_make_shadow, guest
  <2>2. PICK u \in Table \ live :
           /\ live' = live \cup {u}
           /\ \A s \in Slot : sl1'[u][s] = Empty
           /\ \A t \in Table \ {u}, s \in Slot : sl1'[t][s] = sl1[t][s]
    BY <1>2, MakeEntry, Zenon
  <2>3. QED
    BY <1>b, <2>1, <2>2, EmptyEntry, SMTT(60)
<1>3. ASSUME NEW c \in Cpu, NEW user \in BOOLEAN,
             AetBlock(c, user)
      PROVE  Usable'
  <2>1. UNCHANGED <<readonly, live>>
    BY <1>3, Zenon DEF AetBlock, guest
  <2>2. ASSUME NEW t \in Table, NEW s \in Slot
        PROVE  sl1'[t][s] = sl1[t][s] \/ sl1'[t][s] = Empty
    BY <1>3, ZeroEntry, Zenon
  <2>3. QED
    BY <1>b, <2>1, <2>2, EmptyEntry, Zenon
<1>4. ASSUME NEW c \in Cpu, SetEntry(c) PROVE Usable'
  <2>1. UNCHANGED <<readonly, live>>
    BY <1>4, Zenon DEF SetEntry, guest
  <2>2. ASSUME NEW t \in Table, NEW s \in Slot
        PROVE  \/ sl1'[t][s] = sl1[t][s]
               \/ sl1'[t][s].rw => sl1'[t][s].mfn \notin readonly
    <3>1. sl1'[t][s] = sl1[t][s] \/ \E g : sl1'[t][s] = Propagated(g)
      BY <1>4, FillEntry, Zenon
    <3>2. QED
      BY <3>1, PropagatedReadOnly, Zenon
  <2>3. QED
    BY <1>b, <2>1, <2>2, Zenon
<1>5. ASSUME NEW c \in Cpu, NEW p \in Page, NEW f \in Frame \cup {NoFrame},
             GuestWrite(c, p, f)
      PROVE  Usable'
  <2>1. UNCHANGED <<readonly, live>>
    BY <1>5, Zenon DEF GuestWrite
  <2>2. ASSUME NEW t \in Table, NEW s \in Slot
        PROVE  sl1'[t][s] = sl1[t][s] \/ sl1'[t][s] = Propagated(f)
    BY <1>5, WriteEntry, ZenonT(60), Zenon
  <2>3. QED
    BY <1>b, <2>1, <2>2, PropagatedReadOnly, Zenon
<1>6. ASSUME NEW c \in Cpu, NEW f \in Frame, NEW level \in {0, 1},
             sh_remove_write_access(c, f, level)
      PROVE  Usable'
  <2>1. live' = live /\ readonly' \subseteq readonly \cup {f}
    BY <1>6, Zenon DEF sh_remove_write_access
  <2>2. ASSUME NEW t \in Table, NEW s \in Slot
        PROVE  sl1'[t][s] = sl1[t][s] \/ ~ sl1'[t][s].rw
    <3>1. sl1'[t][s] = sl1[t][s] \/ sl1'[t][s] = Off(f)
      BY <1>6, WalkEntry, Zenon
    <3>2. QED
      BY <3>1, OffEntry, Zenon
  <2>3. ASSUME NEW t \in live, NEW s \in Slot, f \notin readonly, sl1'[t][s].mfn = f
        PROVE  ~ sl1'[t][s].rw
    <3>1. CASE type_count[f] = 0
      <4>1. sl1' = sl1
        BY <1>6, <3>1, Zenon DEF sh_remove_write_access
      <4>2. QED
        BY <2>3, <3>1, <4>1, HasWritable, SMTT(60)
    <3>2. CASE type_count[f] # 0
      <4>1. PICK P \in Excised(f), old \in Tables, new \in Tables :
              /\ shadow_set_l1e(old, new)
              /\ \A ts \in Cell : WalkedAt(sl1, live, f, P, old, new, ts)
        BY <1>6, <2>3, <3>2, RemoveWrite, Zenon
      <4>2. PICK ts \in Cell : ts = <<t, s>> /\ \A table : At(table, ts) = table[t][s]
        BY <1>b, CellOf
      <4>3. sl1' = new /\ P = LiveWritable(f)
        BY <4>1, SetTables, ExcisedAll, Zenon
      <4>4. /\ ts \in P => At(new, ts) = Off(f)
            /\ At(new, ts) = At(sl1, ts) \/ At(new, ts) = Off(f)
        BY <4>1, Zenon DEF WalkedAt
      <4>5. At(new, ts) = sl1'[t][s] /\ At(sl1, ts) = sl1[t][s]
        BY <4>2, <4>3, Zenon
      <4>6. sl1[t][s].mfn = f /\ sl1[t][s].rw => ts \in P
        BY <4>2, <4>3, <4>5, Zenon DEF LiveWritable, Writable, Mapping, Cell
      <4>7. QED
        BY <2>3, <4>4, <4>5, <4>6, OffEntry, Zenon
    <3>3. QED
      BY <3>1, <3>2, Zenon
  <2>4. QED
    BY <1>b, <2>1, <2>2, <2>3, ZenonT(60), Zenon
<1>7. ASSUME NEW c \in Cpu, NEW f \in Frame,
             sh_remove_all_mappings(c, f)
      PROVE  Usable'
  <2>1. live' = live /\ readonly' \subseteq readonly
    BY <1>7, Zenon DEF sh_remove_all_mappings
  <2>2. ASSUME NEW t \in Table, NEW s \in Slot
        PROVE  sl1'[t][s] = sl1[t][s] \/ ~ sl1'[t][s].rw
    BY <1>7, UnmapEntry, EmptyEntry, Zenon
  <2>3. QED
    BY <1>b, <2>1, <2>2, Zenon
<1>8. ASSUME NEW c \in Cpu,
              \/ (\E p \in Page : Fill(c, p))
              \/ (\E p \in Page \cup {NoPage} : VmExit(c, p)) \/ SkipHook(c)
              \/ BeginHook(c) \/ HookNext(c) \/ HookScan(c) \/ HookEnd(c)
              \/ PassFault(c) \/ Return(c)
              \/ (\E f \in Frame : shadow_demote(c, f))
              \/ (\E f \in Frame : p2m_add_page(c, f))
              \/ (\E t \in Table : sh_destroy_l1_shadow(c, t))
      PROVE  Usable'
  BY <1>8, Zenon DEF Fill, VmExit, SkipHook, BeginHook, HookNext, HookScan,
     HookEnd, PassFault, Return, shadow_demote, Locked, p2m_add_page,
     sh_destroy_l1_shadow, shadow, guest
<1>9. ASSUME set_aet_track_open \/ UNCHANGED vars PROVE Usable'
  BY <1>9, Zenon DEF set_aet_track_open, vars, shadow, guest
<1>10. QED
  BY <1>1, <1>2, <1>3, <1>4, <1>5, <1>6, <1>7, <1>8, <1>9, Zenon DEF Next, Hook,
     sh_page_fault, OtherExit

\* Every step keeps page tables from being writable through a cached translation:
\* the step that takes the last writable reference of a frame flushes.
LEMMA CachedStep ==
  ASSUME GuestOK, EntriesOK, CpuOK, CoverOK, CachesOK, CountsOK, CountsOK', FaultingEntry,
         Usable, CachedWritable, [Next]_vars
  PROVE  CachedWritable'
<1> USE DEF CachedWritable, FlushAll
<1>a. \A c \in Cpu : \A x \in tlb[c] : x.mfn \in Frame
  BY DEF CachesOK, Translation
<1>b. live \subseteq Table
  BY Zenon DEF CoverOK
<1>1. ASSUME NEW c \in Cpu, NEW p \in Page,
             Fill(c, p)
      PROVE  CachedWritable'
  <2>1. UNCHANGED <<readonly, type_count>>
    BY <1>1, Zenon DEF Fill, guest, refs
  <2>2. PICK t \in live :
          /\ Present(sl1[t][p[2]]) /\ ~ sl1[t][p[2]].magic
          /\ tlb' = [tlb EXCEPT ![c] =
               {x \in @ : x.page # p}
                 \cup {[page |-> p, mfn |-> sl1[t][p[2]].mfn, rw |-> sl1[t][p[2]].rw]}]
    BY <1>1, Zenon DEF Fill, TablesOf
  <2>3. p[2] \in Slot /\ sl1[t][p[2]] \in Entry
    BY <1>b, PageShape, Zenon DEF EntriesOK, Tables
  <2>4. sl1[t][p[2]].mfn \in Frame
    BY <2>2, <2>3, Zenon DEF Entry, Present
  <2>5. sl1[t][p[2]].rw => /\ sl1[t][p[2]].mfn \notin readonly
                           /\ type_count[sl1[t][p[2]].mfn] > 0
    BY <2>2, <2>3, <2>4, HasWritable, Zenon DEF Usable
  <2>6. ASSUME NEW d \in Cpu, NEW x \in tlb'[d]
        PROVE  \/ x \in tlb[d]
               \/ x.mfn = sl1[t][p[2]].mfn /\ x.rw = sl1[t][p[2]].rw
    <3>1. PICK e : e = [page |-> p, mfn |-> sl1[t][p[2]].mfn, rw |-> sl1[t][p[2]].rw]
      BY Zenon
    <3>2. e.mfn = sl1[t][p[2]].mfn /\ e.rw = sl1[t][p[2]].rw
      BY <3>1, Zenon
    <3>3. tlb' = [tlb EXCEPT ![c] = {y \in tlb[c] : y.page # p} \cup {e}]
      BY <2>2, <3>1, Zenon
    <3>4. x \in tlb[d] \/ x = e
      BY <2>6, <3>3, Zenon DEF CachesOK
    <3>5. QED
      BY <3>2, <3>4, Zenon
  <2>7. QED
    BY <2>1, <2>5, <2>6, Zenon
<1>2. ASSUME NEW c \in Cpu, NEW p \in Page \cup {NoPage},
             VmExit(c, p)
      PROVE  CachedWritable'
  <2>1. UNCHANGED <<readonly, type_count>> /\ \A d \in Cpu : tlb'[d] \subseteq tlb[d]
    BY <1>2, Zenon DEF VmExit, guest, refs, CachesOK
  <2>2. QED
    BY <2>1, Zenon
<1>3. ASSUME NEW c \in Cpu, HookTag(c) PROVE CachedWritable'
  <2>1. UNCHANGED <<readonly, type_count>> /\ \A d \in Cpu : tlb'[d] \subseteq tlb[d]
    BY <1>3, Zenon DEF HookTag, guest, refs, CachesOK
  <2>2. QED
    BY <2>1, Zenon
<1>4. ASSUME NEW c \in Cpu, sh_make_shadow(c) PROVE CachedWritable'
  BY <1>4, Zenon DEF sh_make_shadow
<1>5. ASSUME NEW c \in Cpu, SetEntry(c) PROVE CachedWritable'
  <2>1. UNCHANGED <<readonly, tlb>>
    BY <1>5, Zenon DEF SetEntry, guest
  <2>2. ASSUME NEW f \in Frame PROVE type_count[f] > 0 => type_count'[f] > 0
    <3>1. type_count[f] \in Nat /\ type_count'[f] \in Nat
      BY Zenon DEF CountsOK
    <3>2. type_count'[f] >= type_count[f]
      BY <1>5, SetEntryKeepsWritable, Zenon
    <3>3. QED
      BY <3>1, <3>2
  <2>3. QED
    BY <1>a, <2>1, <2>2, Zenon
<1>6. ASSUME NEW c \in Cpu, NEW p \in Page, NEW f \in Frame \cup {NoFrame},
             GuestWrite(c, p, f)
      PROVE  CachedWritable'
  BY <1>6, Zenon DEF GuestWrite, Locked
<1>7. ASSUME NEW c \in Cpu, NEW f \in Frame,
             shadow_demote(c, f)
      PROVE  CachedWritable'
  BY <1>7, Zenon DEF shadow_demote, refs
<1>8. ASSUME NEW c \in Cpu, NEW f \in Frame, NEW level \in {0, 1},
             sh_remove_write_access(c, f, level)
      PROVE  CachedWritable'
  <2>1. CASE f \in readonly \/ type_count[f] = 0
    <3>1. UNCHANGED <<type_count, tlb>> /\ readonly' \subseteq readonly \cup {f}
      BY <1>8, <2>1, Zenon DEF sh_remove_write_access, refs
    <3>2. QED
      BY <2>1, <3>1, SMTT(60)
  <2>2. CASE ~ (f \in readonly \/ type_count[f] = 0)
    <3>1. IF level = 0 /\ type_count'[f] # 0 THEN UNCHANGED tlb ELSE FlushAll
      BY <1>8, <2>2, RemoveWrite, Zenon
    <3>2. CASE level = 0 /\ type_count'[f] # 0
      <4>1. UNCHANGED <<readonly, tlb>>
        BY <1>8, <3>1, <3>2, Zenon DEF sh_remove_write_access
      <4>2. type_count'[f] > 0
        BY <3>2, SMTT(60) DEF CountsOK
      <4>3. ASSUME NEW g \in Frame, g # f PROVE type_count'[g] = type_count[g]
        BY <1>8, <4>3, WalkKeepsOthers, Zenon
      <4>4. QED
        BY <1>a, <4>1, <4>2, <4>3, Zenon
    <3>3. CASE FlushAll
      BY <3>3, Zenon
    <3>4. QED
      BY <3>1, <3>2, <3>3, Zenon
  <2>3. QED
    BY <2>1, <2>2, Zenon
<1>9. ASSUME NEW c \in Cpu, NEW f \in Frame,
             sh_remove_all_mappings(c, f)
      PROVE  CachedWritable'
  <2>1. readonly' \subseteq readonly /\ (FlushAll \/ UNCHANGED <<type_count, tlb>>)
    BY <1>9, Zenon DEF sh_remove_all_mappings, refs
  <2>2. QED
    BY <2>1, Zenon
<1>10. ASSUME NEW c \in Cpu, NEW t \in Table,
             sh_destroy_l1_shadow(c, t)
      PROVE  CachedWritable'
  BY <1>10, Zenon DEF sh_destroy_l1_shadow, Locked
<1>11. ASSUME NEW c \in Cpu,
              \/ SkipHook(c) \/ BeginHook(c) \/ HookNext(c) \/ HookScan(c)
              \/ HookEnd(c) \/ PassFault(c)
              \/ (\E user \in BOOLEAN : AetBlock(c, user)) \/ Return(c)
              \/ (\E f \in Frame : p2m_add_page(c, f))
      PROVE  CachedWritable'
  BY <1>11, Zenon DEF SkipHook, BeginHook, HookNext, HookScan, HookEnd,
     PassFault, AetBlock, Return, p2m_add_page, Locked, guest, refs
<1>12. ASSUME set_aet_track_open \/ UNCHANGED vars PROVE CachedWritable'
  BY <1>12, Zenon DEF set_aet_track_open, vars, guest, refs
<1>13. QED
  BY <1>1, <1>2, <1>3, <1>4, <1>5, <1>6, <1>7, <1>8, <1>9, <1>10, <1>11, <1>12,
     Zenon DEF Next, Hook, sh_page_fault, OtherExit

\* Without removals every step keeps the entries, tagged ones included, equal to
\* what the guest maps.
LEMMA CurrentStep ==
  ASSUME Removable = {}, GuestOK, EntriesOK, CpuOK, CoverOK, SeenCurrent, EntriesCurrent,
         [Next]_vars
  PROVE  EntriesCurrent'
<1> USE DEF EntriesCurrent
<1>b. live \subseteq Table
  BY Zenon DEF CoverOK
<1>c. ~ Present(Empty)
  BY EmptyEntry, Zenon DEF Present
<1>1. ASSUME NEW c \in Cpu, HookTag(c) PROVE EntriesCurrent'
  <2>1. UNCHANGED <<gl1, live, covers>>
    BY <1>1, Zenon DEF HookTag, guest
  <2>2. ASSUME NEW t \in Table, NEW s \in Slot PROVE sl1'[t][s].mfn = sl1[t][s].mfn
    BY <1>1, TagEntry, Zenon
  <2>3. QED
    BY <1>b, <2>1, <2>2, SMTT(60) DEF Present
<1>2. ASSUME NEW c \in Cpu, sh_make_shadow(c) PROVE EntriesCurrent'
  <2>1. UNCHANGED gl1
    BY <1>2, Zenon DEF sh_make_shadow, guest
  <2>2. PICK u \in Table \ live :
           /\ live' = live \cup {u} /\ covers' = [covers EXCEPT ![u] = page[c][1]]
           /\ \A s \in Slot : sl1'[u][s] = Empty
           /\ \A t \in Table \ {u}, s \in Slot : sl1'[t][s] = sl1[t][s]
    BY <1>2, MakeEntry, Zenon
  <2>3. ASSUME NEW t \in live', NEW s \in Slot, Present(sl1'[t][s])
        PROVE  sl1'[t][s].mfn = gl1[<<covers'[t], s>>]
    <3>1. t # u
      BY <1>c, <2>2, <2>3, Zenon
    <3>2. t \in live /\ covers'[t] = covers[t]
      BY <1>b, <2>2, <3>1, Zenon DEF CoverOK
    <3>3. sl1'[t][s] = sl1[t][s]
      BY <1>b, <2>2, <3>1, <3>2, Zenon
    <3>4. QED
      BY <2>3, <3>2, <3>3, Zenon
  <2>4. QED
    BY <2>1, <2>3, Zenon
<1>3. ASSUME NEW c \in Cpu, NEW user \in BOOLEAN,
             AetBlock(c, user)
      PROVE  EntriesCurrent'
  <2>1. UNCHANGED <<gl1, live, covers>>
    BY <1>3, Zenon DEF AetBlock, guest
  <2>2. ASSUME NEW t \in Table, NEW s \in Slot
        PROVE  sl1'[t][s] = sl1[t][s] \/ sl1'[t][s] = Empty
    BY <1>3, ZeroEntry, Zenon
  <2>3. QED
    BY <1>b, <1>c, <2>1, <2>2, Zenon
<1>4. ASSUME NEW c \in Cpu, SetEntry(c) PROVE EntriesCurrent'
  <2>1. UNCHANGED <<gl1, live, covers>>
    BY <1>4, Zenon DEF SetEntry, guest
  <2>2. ASSUME NEW t \in Table, NEW s \in Slot
        PROVE  sl1'[t][s] = sl1[t][s] \/ sl1'[t][s].mfn = gl1[<<covers[t], s>>]
    <3>1. CASE sl1'[t][s] = sl1[t][s]
      BY <3>1, Zenon
    <3>2. CASE /\ covers[t] = page[c][1] /\ page[c] \in Page
               /\ sl1'[t][s] = Propagated(gl1[<<page[c][1], s>>])
      <4>1. gl1[<<page[c][1], s>>] \in Frame \cup {NoFrame}
        BY <3>2, Zenon DEF GuestOK, Page
      <4>2. QED
        BY <3>2, <4>1, PropagatedEntry, Zenon
    <3>3. QED
      BY <1>4, <3>1, <3>2, FillEntry, Zenon
  <2>3. QED
    BY <1>b, <2>1, <2>2, ZenonT(60), Zenon
<1>5. ASSUME NEW c \in Cpu, NEW p \in Page, NEW f \in Frame \cup {NoFrame},
             GuestWrite(c, p, f)
      PROVE  EntriesCurrent'
  <2>1. UNCHANGED <<live, covers>> /\ gl1' = [gl1 EXCEPT ![p] = f]
    BY <1>5, Zenon DEF GuestWrite
  <2>2. ASSUME NEW t \in live, NEW s \in Slot, Present(sl1'[t][s])
        PROVE  sl1'[t][s].mfn = gl1'[<<covers[t], s>>]
    <3>0. p = <<p[1], p[2]>> /\ Propagated(f).mfn = f /\ gl1'[p] = f
      BY <2>1, PropagatedEntry DEF Page, GuestOK
    <3>1. /\ t \in TablesOf(p[1]) /\ s = p[2] => sl1'[t][s] = Propagated(f)
          /\ ~ (t \in TablesOf(p[1]) /\ s = p[2]) => sl1'[t][s] = sl1[t][s]
      BY <1>5, <1>b, WriteEntry, Zenon
    <3>2. CASE t \in TablesOf(p[1]) /\ s = p[2]
      <4>1. covers[t] = p[1]
        BY <3>2, Zenon DEF TablesOf
      <4>2. QED
        BY <3>0, <3>1, <3>2, <4>1, Zenon
    <3>3. CASE ~ (t \in TablesOf(p[1]) /\ s = p[2])
      <4>1. <<covers[t], s>> # p /\ <<covers[t], s>> \in Page
        BY <1>b, <3>3, SMTT(60) DEF TablesOf, CoverOK, Page
      <4>2. gl1'[<<covers[t], s>>] = gl1[<<covers[t], s>>]
        BY <2>1, <4>1, Zenon DEF GuestOK
      <4>3. QED
        BY <2>2, <3>1, <3>3, <4>2, Zenon
    <3>4. QED
      BY <3>2, <3>3, Zenon
  <2>3. QED
    BY <2>1, <2>2, ZenonT(60), Zenon
<1>6. ASSUME NEW c \in Cpu, NEW f \in Frame, NEW level \in {0, 1},
             sh_remove_write_access(c, f, level)
      PROVE  EntriesCurrent'
  <2>1. UNCHANGED <<gl1, live, covers>>
    BY <1>6, Zenon DEF sh_remove_write_access
  <2>2. ASSUME NEW t \in Table, NEW s \in Slot PROVE sl1'[t][s].mfn = sl1[t][s].mfn
    <3>1. \/ sl1'[t][s] = sl1[t][s]
          \/ sl1[t][s].mfn = f /\ sl1'[t][s] = Off(f)
      BY <1>6, WalkEntry, Zenon
    <3>2. QED
      BY <3>1, OffEntry, Zenon
  <2>3. QED
    BY <1>b, <2>1, <2>2, Zenon DEF Present
<1>7. ASSUME NEW c \in Cpu, NEW t \in Table,
             sh_destroy_l1_shadow(c, t)
      PROVE  EntriesCurrent'
  BY <1>7, Zenon DEF sh_destroy_l1_shadow, guest
<1>8. ASSUME NEW c \in Cpu,
              \/ (\E p \in Page : Fill(c, p))
              \/ (\E p \in Page \cup {NoPage} : VmExit(c, p)) \/ SkipHook(c)
              \/ BeginHook(c) \/ HookNext(c) \/ HookScan(c) \/ HookEnd(c)
              \/ PassFault(c) \/ Return(c)
              \/ (\E f \in Frame : shadow_demote(c, f))
              \/ (\E f \in Frame : sh_remove_all_mappings(c, f))
              \/ (\E f \in Frame : p2m_add_page(c, f))
      PROVE  EntriesCurrent'
  BY <1>8, Zenon DEF Fill, VmExit, SkipHook, BeginHook, HookNext, HookScan,
     HookEnd, PassFault, Return, shadow_demote, Locked, sh_remove_all_mappings,
     p2m_add_page, shadow, guest
<1>9. ASSUME set_aet_track_open \/ UNCHANGED vars PROVE EntriesCurrent'
  BY <1>9, Zenon DEF set_aet_track_open, vars, shadow, guest
<1>10. QED
  BY <1>1, <1>2, <1>3, <1>4, <1>5, <1>6, <1>7, <1>8, <1>9, Zenon DEF Next,
     Hook, sh_page_fault, OtherExit

\* The same for cached translations.
LEMMA CachedCurrentStep ==
  ASSUME Removable = {}, GuestOK, EntriesOK, CachesOK, CoverOK, EntriesCurrent,
         CachedCurrent, [Next]_vars
  PROVE  CachedCurrent'
<1> USE DEF CachedCurrent, FlushAll
<1>b. live \subseteq Table
  BY Zenon DEF CoverOK
<1>1. ASSUME NEW c \in Cpu, NEW p \in Page,
             Fill(c, p)
      PROVE  CachedCurrent'
  <2>1. UNCHANGED gl1
    BY <1>1, Zenon DEF Fill, guest
  <2>2. PICK t \in live :
          /\ Present(sl1[t][p[2]]) /\ covers[t] = p[1]
          /\ tlb' = [tlb EXCEPT ![c] =
               {x \in @ : x.page # p}
                 \cup {[page |-> p, mfn |-> sl1[t][p[2]].mfn, rw |-> sl1[t][p[2]].rw]}]
    BY <1>1, Zenon DEF Fill, TablesOf
  <2>3. p[2] \in Slot /\ p = <<p[1], p[2]>>
    BY DEF Page
  <2>4. sl1[t][p[2]].mfn = gl1[p]
    BY <2>2, <2>3, Zenon DEF EntriesCurrent
  <2>5. ASSUME NEW d \in Cpu, NEW x \in tlb'[d]
        PROVE  x \in tlb[d] \/ (x.mfn = sl1[t][p[2]].mfn /\ x.page = p)
    <3>1. PICK e : e = [page |-> p, mfn |-> sl1[t][p[2]].mfn, rw |-> sl1[t][p[2]].rw]
      BY Zenon
    <3>2. e.mfn = sl1[t][p[2]].mfn /\ e.page = p
      BY <3>1, Zenon
    <3>3. tlb' = [tlb EXCEPT ![c] = {y \in tlb[c] : y.page # p} \cup {e}]
      BY <2>2, <3>1, Zenon
    <3>4. x \in tlb[d] \/ x = e
      BY <2>5, <3>3, Zenon DEF CachesOK
    <3>5. QED
      BY <3>2, <3>4, Zenon
  <2>6. QED
    BY <2>1, <2>4, <2>5, Zenon
<1>2. ASSUME NEW c \in Cpu, NEW p \in Page \cup {NoPage},
             VmExit(c, p)
      PROVE  CachedCurrent'
  <2>1. UNCHANGED gl1 /\ \A d \in Cpu : tlb'[d] \subseteq tlb[d]
    BY <1>2, Zenon DEF VmExit, guest, CachesOK
  <2>2. QED
    BY <2>1, Zenon
<1>3. ASSUME NEW c \in Cpu, HookTag(c) PROVE CachedCurrent'
  <2>1. UNCHANGED gl1 /\ \A d \in Cpu : tlb'[d] \subseteq tlb[d]
    BY <1>3, Zenon DEF HookTag, guest, CachesOK
  <2>2. QED
    BY <2>1, Zenon
<1>4. ASSUME NEW c \in Cpu, sh_make_shadow(c) PROVE CachedCurrent'
  BY <1>4, Zenon DEF sh_make_shadow
<1>5. ASSUME NEW c \in Cpu, NEW p \in Page, NEW f \in Frame \cup {NoFrame},
             GuestWrite(c, p, f)
      PROVE  CachedCurrent'
  BY <1>5, Zenon DEF GuestWrite, Locked
<1>6. ASSUME NEW c \in Cpu, NEW f \in Frame, NEW level \in {0, 1},
             sh_remove_write_access(c, f, level)
      PROVE  CachedCurrent'
  <2>1. UNCHANGED gl1 /\ (FlushAll \/ UNCHANGED tlb)
    BY <1>6, Zenon DEF sh_remove_write_access
  <2>2. QED
    BY <2>1, Zenon
<1>7. ASSUME NEW c \in Cpu, NEW t \in Table,
             sh_destroy_l1_shadow(c, t)
      PROVE  CachedCurrent'
  BY <1>7, Zenon DEF sh_destroy_l1_shadow, Locked
<1>8. ASSUME NEW c \in Cpu,
              \/ SkipHook(c) \/ BeginHook(c) \/ HookNext(c) \/ HookScan(c)
              \/ HookEnd(c) \/ PassFault(c)
              \/ (\E user \in BOOLEAN : AetBlock(c, user)) \/ SetEntry(c)
              \/ Return(c) \/ (\E f \in Frame : shadow_demote(c, f))
              \/ (\E f \in Frame : sh_remove_all_mappings(c, f))
              \/ (\E f \in Frame : p2m_add_page(c, f))
      PROVE  CachedCurrent'
  BY <1>8, Zenon DEF SkipHook, BeginHook, HookNext, HookScan, HookEnd,
     PassFault, AetBlock, SetEntry, Return, shadow_demote, Locked,
     sh_remove_all_mappings, p2m_add_page, guest
<1>9. ASSUME set_aet_track_open \/ UNCHANGED vars PROVE CachedCurrent'
  BY <1>9, Zenon DEF set_aet_track_open, vars, guest
<1>10. QED
  BY <1>1, <1>2, <1>3, <1>4, <1>5, <1>6, <1>7, <1>8, <1>9, Zenon DEF Next,
     Hook, sh_page_fault, OtherExit

-----------------------------------------------------------------------------
(* The theorems.                                                           *)

\* What holds for any number of processors.
ShapeInv == GuestOK /\ CoverOK /\ EntriesOK /\ CachesOK /\ PendingOK /\ CpuOK

\* What holds of one processor.
UniInv ==
  SeenCurrent /\ FaultingEntry /\ CountsOK /\ Usable /\ CachedWritable

\* The invariants hold initially.
LEMMA InitShape == Init => ShapeInv
<1> SUFFICES ASSUME Init PROVE ShapeInv
  BY Zenon
<1>1. GuestOK /\ CoverOK /\ CachesOK
  BY Zenon DEF Init, GuestOK, CoverOK, CachesOK
<1>2. EntriesOK
  BY EmptyEntry, Zenon DEF Init, EntriesOK, Tables
<1>3. PendingOK
  <2>1. open \in BOOLEAN /\ pds = << >>
    BY Zenon DEF Init
  <2>2. pds \in Seq(pending_node) /\ Len(pds) = 0
    BY <2>1
  <2>3. QED
    BY <2>1, <2>2, Bounds, SMTT(60) DEF PendingOK, PendingDistinct
<1>4. CpuOK
  <2>1. /\ pc \in [Cpu -> Place] /\ page \in [Cpu -> Page \cup {NoPage}]
        /\ node \in [Cpu -> Nat \ {0}] /\ slot \in [Cpu -> 0 .. SLOTS]
    BY Bounds, SMTT(60) DEF Init, Place
  <2>2. seen \in [Cpu -> Sighting \cup {<< >>}]
    BY Zenon DEF Init
  <2>3. lock \in Cpu \cup {NoCpu} /\ tags \in Nat /\ crashed \in BOOLEAN
    BY Zenon DEF Init
  <2>4. \A c \in Cpu : PlaceOK(c)
    BY Zenon DEF Init, PlaceOK
  <2>5. QED
    BY <2>1, <2>2, <2>3, <2>4, Zenon DEF CpuOK
<1>5. QED
  BY <1>1, <1>2, <1>3, <1>4, Zenon DEF ShapeInv

\* The invariants of one processor hold initially.
LEMMA InitUni == Init => UniInv
<1> SUFFICES ASSUME Init PROVE UniInv
  BY Zenon
<1>1. SeenCurrent /\ FaultingEntry /\ Usable /\ CachedWritable
  BY Zenon DEF Init, SeenCurrent, FaultingEntry, Usable, CachedWritable
<1>2. ASSUME NEW f \in Frame PROVE LiveMapping(f) = {} /\ LiveWritable(f) = {}
  BY Zenon DEF Init, LiveMapping, LiveWritable
<1>3. Cardinality({}) = 0
  BY FS_EmptySet, Zenon
<1>4. CountsOK
  <2>1. /\ count \in [Frame -> Nat] /\ type_count \in [Frame -> Nat]
        /\ \A f \in Frame : count[f] = 0 /\ type_count[f] = 0
    BY Zenon DEF Init
  <2>2. \A f \in Frame : /\ Cardinality(LiveMapping(f)) = 0
                         /\ Cardinality(LiveWritable(f)) = 0
    BY <1>2, <1>3, Zenon
  <2>3. QED
    BY <2>1, <2>2 DEF CountsOK, RefsCoverMappings
<1>5. QED
  BY <1>1, <1>4, Zenon DEF UniInv

\* The invariant for any number of processors, however HookScan and HookTag
\* interleave with the users of the paging lock.
THEOREM ShapeInvariant == Spec => []ShapeInv
<1>1. Init => ShapeInv
  BY InitShape, Zenon
<1>2. ShapeInv /\ [Next]_vars => ShapeInv'
  BY GuestStep, CoverStep, EntriesStep, CachesStep, PendingStep, CpuStep, Zenon
     DEF ShapeInv
<1>3. QED
  BY <1>1, <1>2, PTL DEF Spec

\* For any number of processors, tables and limits, add_to_pending_page never
\* queues a table twice and never writes past the end of the pending set.
THEOREM PendingStaysDistinct == Spec => []PendingDistinct
<1>1. ShapeInv => PendingDistinct
  BY Zenon DEF ShapeInv, PendingOK
<1>2. QED
  BY <1>1, ShapeInvariant, PTL

\* The invariant for one processor.
THEOREM UniprocessorInvariant ==
  ASSUME Uniprocessor PROVE Spec => []UniInv
<1>1. Init => UniInv
  BY InitUni, Zenon
<1>2. ASSUME ShapeInv, UniInv, [Next]_vars PROVE UniInv'
  <2>1. SeenCurrent' /\ FaultingEntry' /\ CountsOK' /\ Usable'
    BY <1>2, SeenStep, FaultStep, CountsStep, UsableStep, Zenon DEF ShapeInv,
       UniInv
  <2>2. CachedWritable'
    BY <1>2, <2>1, CachedStep, Zenon DEF ShapeInv, UniInv
  <2>3. QED
    BY <2>1, <2>2, Zenon DEF UniInv
<1>3. QED
  BY <1>1, <1>2, ShapeInvariant, PTL DEF Spec

\* With one processor everything has its type; no reference count goes below zero.
THEOREM ShadowTypeCorrect ==
  ASSUME Uniprocessor PROVE Spec => []TypeOK
<1>1. ShapeInv /\ UniInv => TypeOK
  BY Zenon DEF ShapeInv, UniInv, TypeOK, GuestOK, CoverOK, EntriesOK, CachesOK,
     PendingOK, CpuOK, CountsOK, Tables, Translation, Sighting, Place
<1>2. QED
  BY <1>1, ShapeInvariant, UniprocessorInvariant, PTL

\* With one processor no shadow entry, tagged or not, maps a frame without a
\* reference for it, for all tables, frames and limits.  With two, a tag that races
\* shadow_set_l1e loses references.
THEOREM RefsAlwaysCover ==
  ASSUME Uniprocessor PROVE Spec => []RefsCoverMappings
<1>1. UniInv => RefsCoverMappings
  BY Zenon DEF UniInv, CountsOK
<1>2. QED
  BY <1>1, UniprocessorInvariant, PTL

\* With one processor the guest never gets write access to a frame used as its page
\* table, through an entry that was tagged and untagged or through a stale
\* translation, with VPIDs or without.
THEOREM PageTablesStayReadOnly ==
  ASSUME Uniprocessor PROVE Spec => []PageTablesReadOnly
<1>1. ASSUME ShapeInv, UniInv PROVE PageTablesReadOnly
  <2>0. Usable
    BY <1>1, Zenon DEF UniInv
  <2>1. ASSUME NEW f \in readonly PROVE Puttable(sl1, LiveWritable(f)) = {}
    <3>1. ASSUME NEW ts \in Puttable(sl1, LiveWritable(f)) PROVE FALSE
      <4>1. /\ ts[1] \in live /\ ts[2] \in Slot
            /\ sl1[ts[1]][ts[2]].rw /\ ~ sl1[ts[1]][ts[2]].magic
            /\ sl1[ts[1]][ts[2]].mfn = f
        BY <3>1, Zenon DEF Puttable, LiveWritable, Writable, Mapping, At
      <4>2. QED
        BY <2>0, <4>1, Zenon DEF Usable
    <3>2. QED
      BY <3>1, Zenon
  <2>2. QED
    BY <1>1, <2>1, Zenon DEF UniInv, CachedWritable, PageTablesReadOnly
<1>2. QED
  BY <1>1, ShapeInvariant, UniprocessorInvariant, PTL

\* With one processor, and no frame taken from the domain, the hardware sees what
\* the guest maps.  Both are needed: a tagged entry survives
\* sh_remove_all_mappings and is brought back by rm_write_access.
THEOREM TranslationsStayCurrent ==
  ASSUME Uniprocessor, Removable = {} PROVE Spec => []TranslationsCurrent
<1>1. Init => EntriesCurrent /\ CachedCurrent
  BY Zenon DEF Init, EntriesCurrent, CachedCurrent
<1>2. /\ ShapeInv /\ UniInv /\ EntriesCurrent /\ CachedCurrent /\ [Next]_vars
      => (EntriesCurrent /\ CachedCurrent)'
  BY CurrentStep, CachedCurrentStep, Zenon DEF ShapeInv, UniInv
<1>3. EntriesCurrent /\ CachedCurrent => TranslationsCurrent
  BY Zenon DEF EntriesCurrent, CachedCurrent, TranslationsCurrent
<1>4. QED
  BY <1>1, <1>2, <1>3, ShapeInvariant, UniprocessorInvariant, PTL DEF Spec
=============================================================================
