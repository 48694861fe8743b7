---------------------------- MODULE AetRetryProofs ----------------------------
(***************************************************************************)
(* Type correctness of AetRetry for every table size, number of processors *)
(* and set of instructions.                                                *)
(***************************************************************************)
EXTENDS AetRetry, TLAPS

\* The fault handler runs only for an exit that a page fault caused, and for a
\* page its instruction touches: at[c] is then an entry of the table.
Faulting == \A c \in Cpu : pc[c] = "fault" => at[c] \in Slot

\* Every step keeps the types and the handler's page.
LEMMA RetryStep ==
  ASSUME TypeOK, Faulting, [Next]_vars PROVE TypeOK' /\ Faulting'
<1> USE DEF TypeOK, Faulting
<1>1. ASSUME NEW c \in Cpu, Issue(c) PROVE TypeOK' /\ Faulting'
  BY <1>1, OperandsAssumption DEF Issue
<1>2. ASSUME NEW c \in Cpu, Complete(c) PROVE TypeOK' /\ Faulting'
  BY <1>2 DEF Complete
<1>3. ASSUME NEW c \in Cpu, Interrupt(c) PROVE TypeOK' /\ Faulting'
  BY <1>3 DEF Interrupt
<1>4. ASSUME NEW c \in Cpu, NEW s \in Slot, Fault(c, s) PROVE TypeOK' /\ Faulting'
  BY <1>4 DEF Fault
<1>5. ASSUME NEW c \in Cpu, set_pending_page(c) PROVE TypeOK' /\ Faulting'
  BY <1>5 DEF set_pending_page
<1>6. ASSUME NEW c \in Cpu, sh_page_fault(c) PROVE TypeOK' /\ Faulting'
  <2>1. /\ queued' \in BOOLEAN
        /\ UNCHANGED <<open, need, user>>
        /\ pc' = [pc EXCEPT ![c] = "guest"] /\ at' = [at EXCEPT ![c] = NoSlot]
    BY <1>6 DEF sh_page_fault, Requeue
  <2>2. entry' \in [Slot -> {"empty", "mapped", "tagged"}]
    BY <1>6 DEF sh_page_fault
  <2>3. QED
    BY <2>1, <2>2
<1>7. CASE set_aet_track_open
  BY <1>7 DEF set_aet_track_open
<1>8. CASE UNCHANGED vars
  BY <1>8 DEF vars
<1>9. QED
  BY <1>1, <1>2, <1>3, <1>4, <1>5, <1>6, <1>7, <1>8 DEF Next

\* sh_page_fault maps pages of the table and nothing else, prefetched ones
\* included: no prefetch runs past the end of the L1 table.
THEOREM RetryTypeCorrect == Spec => []TypeOK
<1>1. Init => TypeOK /\ Faulting
  BY DEF Init, TypeOK, Faulting
<1>2. TypeOK /\ Faulting /\ [Next]_vars => (TypeOK /\ Faulting)'
  BY RetryStep
<1>3. QED
  BY <1>1, <1>2, PTL DEF Spec
=============================================================================
