-------------------------------- MODULE PmuCall --------------------------------
(***************************************************************************)
(* How the hypervisor reads and programs the memory-reference counters.    *)
(* pmu_mem_return, start_pmu and stop_pmu (xc_reserved_op.c) access MSRs   *)
(* of one processor, whatever processor they run on, each with a call of   *)
(* on_selected_cpus (common/smp.c): take call_lock, publish the request,   *)
(* interrupt the target, spin until it has answered.  hc_set_debug_reg     *)
(* (aet.c) calls it too.                                                   *)
(*                                                                         *)
(* It is called with interrupts on under the paging lock (sh_page_fault)   *)
(* and in dom0's hypercall, and with interrupts still off from the hook at *)
(* the start of vmx_vmexit_handler (set_pending_page).  The build is one   *)
(* without assertions.  A processor in guest mode takes an interrupt as a  *)
(* VM exit: it is handled after the hook.                                  *)
(***************************************************************************)
EXTENDS Integers, Sequences, FiniteSets

CONSTANTS
  Cpu,
  Guest,         \* processors that run vCPUs of guests; the others run dom0
  Target,        \* the processor whose counters are read (CPU 1)
  Sampled,       \* those that run domain 1 in an open session: pages may be pending
  CountBound,    \* bound on each counter
  NoCpu

ASSUME CpuAssumption == Sampled \subseteq Guest /\ Guest \subseteq Cpu
                        /\ Target \in Cpu /\ NoCpu \notin Cpu
ASSUME BoundAssumption == CountBound \in Nat

VARIABLES
  pc, ctx,          \* where each processor is, and what it makes calls for
  irq,              \* interrupts are enabled
  handling,         \* progress in smp_call_function_interrupt
  call_lock, paging_lock,
  selected, info,   \* call_data: who must answer, and whose request it is
  ipi,              \* processors with CALL_FUNCTION_VECTOR pending
  pmc, counting,    \* the counters of the target, and those enabled
  todo, val, sum,   \* locals: the requests left, msr.val, the sum so far
  began,            \* the total when the calls began, -1 if counters were cleared since
  phase             \* what dom0 has last done with the counters

locals == <<todo, val, sum, began>>
call_data == <<selected, info>>
pmu == <<pmc, counting>>
vars == <<pc, ctx, irq, handling, call_lock, paging_lock, call_data, ipi, pmu,
          locals, phase>>

\* MEM_UOP_RETIRED_ALL1 and ALL2 (loads and stores), the two of the five MSRs
\* read whose values are used.
Msr == {1, 3}
Total == pmc[1] + pmc[3]

(* What is asked of the target: to read a counter, to clear it, to write its *)
(* event selector without or with the enable bit, or to set debug registers. *)
rd(m) == <<"rd", m>>
zero(m) == <<"zero", m>>
off(m) == <<"off", m>>
on(m) == <<"on", m>>

\* Variant: one of the two counters is read twice.
ReadsOneTwice == <<rd(1), rd(1)>>

\* pmu_mem_return, and stop_pmu that does not clean up.
Reads == <<rd(1), rd(3)>>

\* Variant: a counter is cleared before it is disabled.
StopsLate == Reads \o <<zero(1), off(1), zero(3), off(3)>>

\* stop_pmu that cleans up.
Stops == Reads \o <<off(1), zero(1), off(3), zero(3)>>

\* start_pmu: init_evtsel for each counter, then enable each.
Starts == <<off(1), zero(1), off(3), zero(3), on(1), on(3)>>

Debugs == <<<<"debugreg", 0>>>>

Program(for) ==
  CASE for = "start" -> Starts
    [] for = "stop" -> Stops
    [] for = "debug" -> Debugs
    [] OTHER -> Reads

Command == {"read", "start", "stop", "debug"}

TypeOK ==
  /\ pc \in [Cpu -> {"run", "exit", "dispatch", "contend", "lock", "send",
                     "wait", "done"}]
  /\ ctx \in [Cpu -> {"none", "hook", "fault"} \cup Command]
  /\ irq \in [Cpu -> BOOLEAN]
  /\ handling \in [Cpu -> {"no", "call", "clear"}]
  /\ call_lock \in Cpu \cup {NoCpu}
  /\ paging_lock \in Cpu \cup {NoCpu}
  /\ selected \in SUBSET {Target}
  /\ info \in Cpu \cup {NoCpu}
  /\ ipi \in SUBSET {Target}
  /\ pmc \in [Msr -> 0 .. CountBound]
  /\ counting \in SUBSET Msr
  /\ \A c \in Cpu : Len(todo[c]) <= 6
  /\ val \in [Cpu -> 0 .. CountBound]
  /\ sum \in [Cpu -> Nat]
  /\ began \in [Cpu -> Nat \cup {-1}]
  /\ phase \in {"off", "changing", "on"}

Init ==
  /\ pc = [c \in Cpu |-> "run"]
  /\ ctx = [c \in Cpu |-> "none"]
  /\ irq = [c \in Cpu |-> TRUE]
  /\ handling = [c \in Cpu |-> "no"]
  /\ call_lock = NoCpu
  /\ paging_lock = NoCpu
  /\ selected = {}
  /\ info = NoCpu
  /\ ipi = {}
  /\ pmc = [m \in Msr |-> 0]
  /\ counting = {}
  /\ todo = [c \in Cpu |-> <<>>]
  /\ val = [c \in Cpu |-> 0]
  /\ sum = [c \in Cpu |-> 0]
  /\ began = [c \in Cpu |-> 0]
  /\ phase = "off"

At(c, label) == pc[c] = label /\ handling[c] = "no"
Goto(c, label) == pc' = [pc EXCEPT ![c] = label]

-----------------------------------------------------------------------------
(* What the processors do besides calls.                                   *)

\* Code on the target retires loads and stores.
Retire(m) ==
  /\ At(Target, "run")
  /\ m \in counting
  /\ pmc[m] < CountBound
  /\ pmc' = [pmc EXCEPT ![m] = @ + 1]
  /\ UNCHANGED <<pc, ctx, irq, handling, call_lock, paging_lock, call_data, ipi,
                 counting, locals, phase>>

\* The first of a function's calls.
Call(c, for) ==
  /\ Goto(c, "lock")
  /\ ctx' = [ctx EXCEPT ![c] = for]
  /\ todo' = [todo EXCEPT ![c] = Program(for)]
  /\ began' = [began EXCEPT ![c] = Total]
  /\ UNCHANGED <<val, sum>>

\* A VM exit, interrupts off; set_pending_page reads the counter if pages are
\* pending.
VmExit(c) ==
  /\ c \in Guest
  /\ At(c, "run")
  /\ irq' = [irq EXCEPT ![c] = FALSE]
  /\ \/ c \in Sampled /\ Call(c, "hook")
     \/ Goto(c, "exit") /\ UNCHANGED <<ctx, locals>>
  /\ UNCHANGED <<handling, call_lock, paging_lock, call_data, ipi, pmu, phase>>

\* "Now enable interrupts so it's safe to take locks."
EnableInterrupts(c) ==
  /\ At(c, "exit")
  /\ irq' = [irq EXCEPT ![c] = TRUE]
  /\ Goto(c, "dispatch")
  /\ UNCHANGED <<ctx, handling, call_lock, paging_lock, call_data, ipi, pmu,
                 locals, phase>>

\* The exit is a page fault, or it is handled otherwise.
Dispatch(c) ==
  /\ At(c, "dispatch")
  /\ Goto(c, "contend") \/ Goto(c, "run")
  /\ UNCHANGED <<ctx, irq, handling, call_lock, paging_lock, call_data, ipi, pmu,
                 locals, phase>>

\* sh_page_fault takes the paging lock and reads the counter.
PagingLock(c) ==
  /\ At(c, "contend")
  /\ paging_lock = NoCpu
  /\ paging_lock' = c
  /\ Call(c, "fault")
  /\ UNCHANGED <<irq, handling, call_lock, call_data, ipi, pmu, phase>>

\* PMU_CMD and DEBUGREG_CMD of dom0; "read" is stop_pmu without cleaning up.
do_xc_reserved_op(c, cmd) ==
  /\ c \notin Guest
  /\ At(c, "run")
  /\ Call(c, cmd)
  /\ phase' = IF cmd \in {"start", "stop"} THEN "changing" ELSE phase
  /\ UNCHANGED <<irq, handling, call_lock, paging_lock, call_data, ipi, pmu>>

\* The function has returned; its locals are gone.
Return(c) ==
  /\ At(c, "done")
  /\ Goto(c, IF ctx[c] = "hook" THEN "exit" ELSE "run")
  /\ paging_lock' = IF ctx[c] = "fault" THEN NoCpu ELSE paging_lock
  /\ phase' = CASE ctx[c] = "start" -> "on"
                [] ctx[c] = "stop" -> "off"
                [] OTHER -> phase
  /\ ctx' = [ctx EXCEPT ![c] = "none"]
  /\ val' = [val EXCEPT ![c] = 0]
  /\ sum' = [sum EXCEPT ![c] = 0]
  /\ began' = [began EXCEPT ![c] = 0]
  /\ UNCHANGED <<irq, handling, call_lock, call_data, ipi, pmu, todo>>

-----------------------------------------------------------------------------
(* on_selected_cpus and smp_call_function_interrupt.                       *)

SpinLock(c) ==
  /\ At(c, "lock")
  /\ call_lock = NoCpu
  /\ call_lock' = c
  /\ Goto(c, "send")
  /\ UNCHANGED <<ctx, irq, handling, paging_lock, call_data, ipi, pmu, locals,
                 phase>>

\* __rdmsr_on_cpu, __wrmsr_on_cpu or __hc_set_debug_reg: the function that c
\* asks for runs on the target.
Perform(c) ==
  LET op == Head(todo[c])[1]
      m == Head(todo[c])[2]
  IN  /\ val' = [val EXCEPT ![c] = IF op = "rd" THEN pmc[m] ELSE 0]
      /\ pmc' = IF op = "zero" THEN [pmc EXCEPT ![m] = 0] ELSE pmc
      /\ counting' = CASE op = "on" -> counting \cup {m}
                       [] op = "off" -> counting \ {m}
                       [] OTHER -> counting
      /\ began' = IF op = "zero"
                   THEN [p \in Cpu |-> IF ctx[p] = "none" THEN began[p] ELSE -1]
                   ELSE began
      /\ UNCHANGED <<todo, sum>>

\* Variant: the caller is in the mask too.
MaskWithCaller(c) == {Target, c}

\* The mask the callers set up.
Mask(c) == {Target}

\* The target answers itself at once, and then enables its interrupts; any other
\* processor interrupts the target.
Send(c) ==
  /\ At(c, "send")
  /\ info' = c
  /\ Goto(c, "wait")
  /\ IF c = Target
     THEN /\ Perform(c)
          /\ irq' = [irq EXCEPT ![c] = TRUE]
          /\ selected' = {}
          /\ UNCHANGED ipi
     ELSE /\ selected' = Mask(c)
          /\ ipi' = ipi \cup Mask(c)
          /\ UNCHANGED <<irq, pmu, locals>>
  /\ UNCHANGED <<ctx, handling, call_lock, paging_lock, phase>>

\* The target has answered: the value is added up, and the next request is
\* another call.
Unlock(c) ==
  /\ At(c, "wait")
  /\ selected = {}
  /\ call_lock' = NoCpu
  /\ sum' = [sum EXCEPT ![c] = @ + val[c]]
  /\ val' = [val EXCEPT ![c] = 0]
  /\ todo' = [todo EXCEPT ![c] = Tail(@)]
  /\ Goto(c, IF Len(todo[c]) > 1 THEN "lock" ELSE "done")
  /\ UNCHANGED <<ctx, irq, handling, paging_lock, call_data, ipi, pmu, began, phase>>

\* call_function_interrupt on the target.
Interrupt ==
  /\ handling[Target] = "no"
  /\ Target \in ipi
  /\ irq[Target]
  /\ Target \in Guest => pc[Target] # "run"
  /\ ipi' = ipi \ {Target}
  /\ handling' = [handling EXCEPT ![Target] =
                    IF Target \in selected THEN "call" ELSE "no"]
  /\ UNCHANGED <<pc, ctx, irq, call_lock, paging_lock, call_data, pmu, locals, phase>>

\* The function of the request.
RunFunction ==
  /\ handling[Target] = "call"
  /\ Perform(info)
  /\ handling' = [handling EXCEPT ![Target] = "clear"]
  /\ UNCHANGED <<pc, ctx, irq, call_lock, paging_lock, call_data, ipi, phase>>

\* Variant: the target's bit stays set.
LeaveSelected ==
  /\ handling[Target] = "clear"
  /\ handling' = [handling EXCEPT ![Target] = "no"]
  /\ UNCHANGED <<pc, ctx, irq, call_lock, paging_lock, call_data, ipi, pmu, locals,
                 phase>>

\* The target's bit is cleared once the function has run: wait is -1.
ClearSelected ==
  /\ handling[Target] = "clear"
  /\ selected' = {}
  /\ handling' = [handling EXCEPT ![Target] = "no"]
  /\ UNCHANGED <<pc, ctx, irq, call_lock, paging_lock, info, ipi, pmu, locals, phase>>

smp_call_function_interrupt == Interrupt \/ RunFunction \/ ClearSelected

on_selected_cpus(c) == SpinLock(c) \/ Send(c) \/ Unlock(c)

Next ==
  \/ \E m \in Msr : Retire(m)
  \/ smp_call_function_interrupt
  \/ \E c \in Cpu :
       \/ VmExit(c) \/ EnableInterrupts(c) \/ Dispatch(c) \/ PagingLock(c)
       \/ \E cmd \in Command : do_xc_reserved_op(c, cmd)
       \/ Return(c) \/ on_selected_cpus(c)

\* A processor executes its code; it is at one place at a time, so one condition
\* covers all steps that wait for nothing but themselves or the target's answer.
Proceed(c) ==
  EnableInterrupts(c) \/ Dispatch(c) \/ Send(c) \/ Unlock(c) \/ Return(c)

\* A pending interrupt ends guest mode and is taken when interrupts are enabled,
\* not put off each time until they are disabled again.  Nothing is assumed of
\* who wins a spin lock.
Fairness ==
  /\ SF_vars(Interrupt) /\ WF_vars(RunFunction \/ ClearSelected)
  /\ WF_vars(Target \in ipi /\ VmExit(Target))
  /\ \A c \in Cpu : WF_vars(Proceed(c))

Spec == Init /\ [][Next]_vars /\ Fairness

-----------------------------------------------------------------------------
\* What pmu_mem_return returns is a count the target had between the call and
\* the return, unless dom0 cleared the counters meanwhile, though it is the sum
\* of values read in several calls while the target may be running, and the
\* answers go through one global call_data.
CountWithinCall ==
  \A c \in Cpu :
    pc[c] = "done" /\ Program(ctx[c]) = Reads /\ began[c] >= 0 =>
      began[c] <= sum[c] /\ sum[c] <= Total

\* When stop_pmu with cleaning up has returned, the counters are zero and stay
\* so until the next start_pmu, though the target runs on while they are
\* disabled and cleared one by one.
StoppedMeansZero == phase = "off" => Total = 0

\* Whoever takes call_lock gets its answer and releases it: the target is never
\* kept from answering by a processor that waits for that answer.
CallLockReleased ==
  \A c \in Cpu : call_lock = c ~> call_lock # c
=============================================================================
