------------------------------- MODULE AetRetry -------------------------------
(***************************************************************************)
(* Progress of the guest while its pages are sampled.  paging_fault tells  *)
(* the guest to retry after every fault that sampling caused; meanwhile    *)
(* the VM exits themselves set new tags (set_pending_page).  This module   *)
(* asks whether the retried instruction ever completes.                    *)
(*                                                                         *)
(* It follows one shadow L1 table whose pages the guest maps user-writable,*)
(* on processors without VPIDs: every VM exit drops the guest's TLB, and   *)
(* an instruction completes when all its operands' entries are usable at   *)
(* once.  Shadow memory is not short, so the table is never reclaimed.  The *)
(* lock, references and the entries' other users are in AetShadow.         *)
(***************************************************************************)
EXTENDS Integers, FiniteSets

CONSTANTS
  Cpu,                    \* processors running vCPUs of domain 1
  SLOTS,                  \* entries of the table
  CONSECUTIVE_SET_PAGE,
  Operands,               \* the sets of pages that instructions touch
  NoSlot

Slot == 0 .. (SLOTS - 1)
ASSUME SlotAssumption == /\ SLOTS \in Nat \ {0}
                         /\ CONSECUTIVE_SET_PAGE \in 1 .. SLOTS
ASSUME OperandsAssumption == Operands \subseteq (SUBSET Slot) \ {{}}
ASSUME NoSlotAssumption == NoSlot \notin Slot

VARIABLES
  entry,          \* the shadow entries: empty, mapped or tagged
  queued,         \* the table is in the pending set
  open,           \* is_l1_track()
  pc,             \* where each processor is
  need, user,     \* pages its current instruction needs, and its mode
  at              \* the page of its last fault

vars == <<entry, queued, open, pc, need, user, at>>

TypeOK ==
  /\ entry \in [Slot -> {"empty", "mapped", "tagged"}]
  /\ queued \in BOOLEAN
  /\ open \in BOOLEAN
  /\ pc \in [Cpu -> {"guest", "exit", "fault"}]
  /\ need \in [Cpu -> SUBSET Slot]
  /\ user \in [Cpu -> BOOLEAN]
  /\ at \in [Cpu -> Slot \cup {NoSlot}]

Init ==
  /\ entry = [s \in Slot |-> "empty"]
  /\ queued = FALSE
  /\ open = TRUE
  /\ pc = [c \in Cpu |-> "guest"]
  /\ need = [c \in Cpu |-> {}]
  /\ user = [c \in Cpu |-> FALSE]
  /\ at = [c \in Cpu |-> NoSlot]

-----------------------------------------------------------------------------
\* The guest starts its next instruction.
Issue(c) ==
  /\ pc[c] = "guest"
  /\ need[c] = {}
  /\ \E operands \in Operands : need' = [need EXCEPT ![c] = operands]
  /\ \E mode \in BOOLEAN : user' = [user EXCEPT ![c] = mode]
  /\ UNCHANGED <<entry, queued, open, pc, at>>

Complete(c) ==
  /\ pc[c] = "guest"
  /\ need[c] # {}
  /\ \A s \in need[c] : entry[s] = "mapped"
  /\ need' = [need EXCEPT ![c] = {}]
  /\ UNCHANGED <<entry, queued, open, pc, user, at>>

\* Operands are accessed in order of their addresses; the first whose entry is
\* empty or tagged makes the instruction exit with a fault.
Fault(c, s) ==
  /\ pc[c] = "guest"
  /\ s \in need[c]
  /\ entry[s] # "mapped"
  /\ \A q \in need[c] : q < s => entry[q] = "mapped"
  /\ at' = [at EXCEPT ![c] = s]
  /\ pc' = [pc EXCEPT ![c] = "exit"]
  /\ UNCHANGED <<entry, queued, open, need, user>>

\* A VM exit for another reason.
Interrupt(c) ==
  /\ pc[c] = "guest"
  /\ at' = [at EXCEPT ![c] = NoSlot]
  /\ pc' = [pc EXCEPT ![c] = "exit"]
  /\ UNCHANGED <<entry, queued, open, need, user>>

\* vmx_vmexit_handler first runs set_pending_page, which tags every mapped page
\* among the first ones of a queued table, then handles the exit.
set_pending_page(c) ==
  /\ pc[c] = "exit"
  /\ IF open /\ queued
     THEN /\ entry' = [s \in Slot |->
                         IF s < CONSECUTIVE_SET_PAGE /\ entry[s] = "mapped"
                         THEN "tagged" ELSE entry[s]]
          /\ queued' = FALSE
     ELSE UNCHANGED <<entry, queued>>
  /\ pc' = [pc EXCEPT ![c] = IF at[c] = NoSlot THEN "guest" ELSE "fault"]
  /\ UNCHANGED <<open, need, user, at>>

\* set_aet_magic: a user-mode fault on one of the first pages queues the table.
Requeue(c) ==
  queued' = (queued \/ (open /\ user[c] /\ at[c] < CONSECUTIVE_SET_PAGE))

\* Variant: the page is tagged again by the handler itself.
TagAtOnce(c) ==
  /\ pc[c] = "fault"
  /\ Requeue(c)
  /\ entry' = [entry EXCEPT ![at[c]] = "tagged"]
  /\ pc' = [pc EXCEPT ![c] = "guest"]
  /\ at' = [at EXCEPT ![c] = NoSlot]
  /\ UNCHANGED <<open, need, user>>

\* Variant: the prefetch runs past the end of the table.
PrefetchPastEnd(c) ==
  /\ pc[c] = "fault"
  /\ Requeue(c)
  /\ entry' = [s \in 0 .. SLOTS |-> IF s >= at[c] THEN "mapped" ELSE entry[s]]
  /\ pc' = [pc EXCEPT ![c] = "guest"]
  /\ at' = [at EXCEPT ![c] = NoSlot]
  /\ UNCHANGED <<open, need, user>>

\* sh_page_fault: the entry is mapped again, and empty ones after it may be
\* prefetched.
sh_page_fault(c) ==
  /\ pc[c] = "fault"
  /\ Requeue(c)
  /\ \E last \in at[c] .. (SLOTS - 1) :
       /\ \A s \in (at[c] + 1) .. last : entry[s] = "empty"
       /\ entry' = [s \in Slot |->
                      IF s \in at[c] .. last THEN "mapped" ELSE entry[s]]
  /\ pc' = [pc EXCEPT ![c] = "guest"]
  /\ at' = [at EXCEPT ![c] = NoSlot]
  /\ UNCHANGED <<open, need, user>>

\* SET_OPEN from dom0.
set_aet_track_open ==
  /\ open' = ~ open
  /\ UNCHANGED <<entry, queued, pc, need, user, at>>

Next ==
  \/ \E c \in Cpu :
       \/ Issue(c) \/ Complete(c) \/ Interrupt(c)
       \/ \E s \in Slot : Fault(c, s)
       \/ set_pending_page(c) \/ sh_page_fault(c)
  \/ set_aet_track_open

\* Exits are handled, and instructions run: interrupts and the exits of other
\* processors do not come before every single access, so what an instruction
\* can do again and again (complete, or fault on a page) it eventually does.
Fairness ==
  \A c \in Cpu :
    /\ WF_vars(set_pending_page(c)) /\ WF_vars(sh_page_fault(c))
    /\ SF_vars(Complete(c)) /\ \A s \in Slot : SF_vars(Fault(c, s))

Spec == Init /\ [][Next]_vars /\ Fairness

-----------------------------------------------------------------------------
\* "Returns 1 if this fault was an artefact of the paging code (and the guest
\* should retry)": an instruction that keeps retrying completes.
InstructionsComplete == \A c \in Cpu : need[c] # {} ~> need[c] = {}
=============================================================================
