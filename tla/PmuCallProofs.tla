----------------------------- MODULE PmuCallProofs -----------------------------
(***************************************************************************)
(* The invariants of PmuCall, for every set of processors and every bound  *)
(* on the counters; StoppedMeansZero for a dom0 that gives one command at  *)
(* a time.  The inductive invariant says who owns call_data, which of its  *)
(* requests a caller has had answered, and what it has added up by then.   *)
(***************************************************************************)
EXTENDS PmuCall, TLAPS

Place == {"run", "exit", "dispatch", "contend", "lock", "send", "wait", "done"}
Reading == {"hook", "fault", "read"}
Request ==
  {<<op, m>> : op \in {"rd", "zero", "off", "on"}, m \in Msr} \cup {<<"debugreg", 0>>}

\* The processors and the locks.  The holder of call_lock is the one between
\* SpinLock and Unlock, call_data carries its request, and the target is in the
\* interrupt only while it has not answered.
CallInv ==
  /\ pc \in [Cpu -> Place] /\ ctx \in [Cpu -> {"none", "hook", "fault"} \cup Command]
  /\ handling \in [Cpu -> {"no", "call", "clear"}]
  /\ call_lock \in Cpu \cup {NoCpu} /\ paging_lock \in Cpu \cup {NoCpu}
  /\ selected \in SUBSET {Target} /\ ipi \in SUBSET {Target}
  /\ info \in Cpu \cup {NoCpu}
  /\ \A c \in Cpu :
       /\ pc[c] \in {"send", "wait"} <=> call_lock = c
       /\ pc[c] = "wait" => info = c
       /\ ctx[c] = "none" <=> pc[c] \in {"run", "exit", "dispatch", "contend"}
       /\ ctx[c] \in Command => c \notin Guest
  /\ selected # {} => \E c \in Cpu \ {Target} : pc[c] = "wait"
  /\ handling[Target] # "no" => selected = {Target}

\* The number of requests c has left, the one it is making included.
Left(c) == Len(todo[c])

\* A caller has the last requests of its function left.
TodoOf(c) ==
  /\ Len(todo[c]) <= Len(Program(ctx[c]))
  /\ Len(todo[c]) > 0 <=> pc[c] \in {"lock", "send", "wait"}
  /\ \A k \in 1 .. Len(todo[c]) :
       todo[c][k] = Program(ctx[c])[Len(Program(ctx[c])) - Len(todo[c]) + k]

TodoInv == todo \in [Cpu -> Seq(Request)] /\ \A c \in Cpu : TodoOf(c)

\* The target has performed the request that c waits for.
Performed(c) ==
  pc[c] = "wait" /\ (selected = {} \/ handling[Target] = "clear")

\* What c has added up and read.  A counter that has been read can only have
\* grown since, unless it was cleared.
CountOf(c) ==
  /\ ctx[c] = "none" => sum[c] = 0
  /\ ~ Performed(c) => val[c] = 0
  /\ ctx[c] \in Reading /\ began[c] >= 0 =>
       /\ Left(c) = 2 /\ ~ Performed(c) => sum[c] = 0 /\ began[c] <= pmc[1] + pmc[3]
       /\ Left(c) = 2 /\ Performed(c) =>
            sum[c] = 0 /\ val[c] <= pmc[1] /\ began[c] <= val[c] + pmc[3]
       /\ Left(c) = 1 /\ ~ Performed(c) =>
            sum[c] <= pmc[1] /\ began[c] <= sum[c] + pmc[3]
       /\ Left(c) = 1 /\ Performed(c) =>
            /\ sum[c] <= pmc[1] /\ val[c] <= pmc[3]
            /\ began[c] <= sum[c] + val[c]
       /\ Left(c) = 0 => began[c] <= sum[c] /\ sum[c] <= pmc[1] + pmc[3]

CountInv ==
  /\ pmc \in [Msr -> 0 .. CountBound] /\ counting \in SUBSET Msr
  /\ val \in [Cpu -> 0 .. CountBound] /\ sum \in [Cpu -> Nat]
  /\ began \in [Cpu -> Nat \cup {-1}]
  /\ \A c \in Cpu : CountOf(c)

\* The requests of c that the target has still to perform.
Undone(c) == IF Performed(c) THEN Left(c) - 1 ELSE Left(c)

\* stop_pmu disables a counter before it clears it, so a cleared one stays zero.
StopInv ==
  /\ phase \in {"off", "changing", "on"}
  /\ phase = "off" => counting = {} /\ pmc[1] = 0 /\ pmc[3] = 0
  /\ \A c \in Cpu :
       /\ ctx[c] \in {"start", "stop"} => phase = "changing"
       /\ ctx[c] = "stop" =>
            /\ Undone(c) <= 3 => 1 \notin counting
            /\ Undone(c) <= 2 => pmc[1] = 0
            /\ Undone(c) <= 1 => 3 \notin counting
            /\ Undone(c) <= 0 => pmc[3] = 0

\* The interrupt flags and the phase of the counters.
FlagsOK == irq \in [Cpu -> BOOLEAN] /\ phase \in {"off", "changing", "on"}

\* Every step keeps the ownership of call_lock and call_data: only the holder of
\* call_lock has published a request, and the target answers that one.
LEMMA CallStep ==
  ASSUME CallInv, [Next]_vars PROVE CallInv'
<1> USE CpuAssumption DEF CallInv, Place, Command, At, Goto, Call, call_data
<1>1. ASSUME NEW m \in Msr, Retire(m) PROVE CallInv'
  BY <1>1, Zenon DEF Retire
<1>2. ASSUME Interrupt PROVE CallInv'
  BY <1>2 DEF Interrupt
<1>3. ASSUME RunFunction PROVE CallInv'
  BY <1>3, Zenon DEF RunFunction
<1>4. ASSUME ClearSelected PROVE CallInv'
  BY <1>4, Zenon DEF ClearSelected
<1>5. ASSUME NEW c \in Cpu, VmExit(c) PROVE CallInv'
  BY <1>5 DEF VmExit
<1>6. ASSUME NEW c \in Cpu, EnableInterrupts(c) PROVE CallInv'
  BY <1>6 DEF EnableInterrupts
<1>7. ASSUME NEW c \in Cpu, Dispatch(c) PROVE CallInv'
  BY <1>7 DEF Dispatch
<1>8. ASSUME NEW c \in Cpu, PagingLock(c) PROVE CallInv'
  BY <1>8 DEF PagingLock
<1>9. ASSUME NEW c \in Cpu, NEW cmd \in Command, do_xc_reserved_op(c, cmd) PROVE CallInv'
  BY <1>9 DEF do_xc_reserved_op
<1>10. ASSUME NEW c \in Cpu, Return(c) PROVE CallInv'
  BY <1>10 DEF Return
<1>11. ASSUME NEW c \in Cpu, SpinLock(c) PROVE CallInv'
  BY <1>11 DEF SpinLock
<1>12. ASSUME NEW c \in Cpu, Send(c) PROVE CallInv'
  BY <1>12 DEF Send, Mask
<1>13. ASSUME NEW c \in Cpu, Unlock(c) PROVE CallInv'
  BY <1>13 DEF Unlock
<1>14. ASSUME UNCHANGED vars PROVE CallInv'
  BY <1>14, Zenon DEF vars, call_data, pmu, locals
<1>15. QED
  BY <1>1, <1>2, <1>3, <1>4, <1>5, <1>6, <1>7, <1>8, <1>9, <1>10, <1>11, <1>12,
     <1>13, <1>14, ZenonT(60), Zenon DEF Next, smp_call_function_interrupt,
     on_selected_cpus

\* pmu_mem_return makes two requests: it reads the two counters in this order.
LEMMA ReadsShape == Len(Reads) = 2 /\ Reads[1] = rd(1) /\ Reads[2] = rd(3)
BY Zenon DEF Reads

\* hc_set_debug_reg makes one request.
LEMMA DebugsShape == Len(Debugs) = 1 /\ Debugs[1] = <<"debugreg", 0>>
BY Zenon DEF Debugs

\* stop_pmu reads both counters and then disables each before it clears it.
LEMMA StopsShape ==
  /\ Len(Stops) = 6
  /\ Stops[1] = rd(1) /\ Stops[2] = rd(3) /\ Stops[3] = off(1)
  /\ Stops[4] = zero(1) /\ Stops[5] = off(3) /\ Stops[6] = zero(3)
BY DEF Stops, Reads

\* start_pmu makes six requests.
LEMMA StartsLen == Len(Starts) = 6
BY Zenon DEF Starts

\* Every function makes between one and six requests.
LEMMA ProgramIsSeq ==
  ASSUME NEW for PROVE Program(for) \in Seq(Request) /\ Len(Program(for)) \in 1 .. 6
<1>1. Reads \in Seq(Request)
  BY DEF Reads, Request, rd, Msr
<1>2. Debugs \in Seq(Request)
  BY DEF Debugs, Request, Msr
<1>3. Starts \in Seq(Request)
  BY DEF Starts, Request, off, zero, on, Msr
<1>4. Stops \in Seq(Request)
  BY <1>1 DEF Stops, Request, off, zero, Msr
<1>5. QED
  BY <1>1, <1>2, <1>3, <1>4, ReadsShape, DebugsShape, StopsShape, StartsLen
  DEF Program

\* A processor has requests left exactly while it is in on_selected_cpus.
LEMMA TodoLen ==
  ASSUME TodoInv, NEW c \in Cpu
  PROVE  /\ todo[c] \in Seq(Request) /\ Len(todo[c]) \in Nat
         /\ pc[c] \notin {"lock", "send", "wait"} => Len(todo[c]) = 0
         /\ pc[c] \in {"lock", "send", "wait"} => Len(todo[c]) > 0
<1>1. todo[c] \in Seq(Request) /\ TodoOf(c)
  BY Zenon DEF TodoInv
<1>2. Len(todo[c]) \in Nat
  BY <1>1
<1>3. QED
  BY <1>1, <1>2 DEF TodoOf

\* A function that has just been called has all its requests left.
LEMMA CallTodo ==
  ASSUME CallInv, TodoInv, NEW c \in Cpu, NEW for, Call(c, for)
  PROVE  TodoInv'
<1>1. /\ todo' = [todo EXCEPT ![c] = Program(for)]
      /\ pc' = [pc EXCEPT ![c] = "lock"] /\ ctx' = [ctx EXCEPT ![c] = for]
  BY Zenon DEF Call, Goto
<1>2. todo' \in [Cpu -> Seq(Request)]
  BY <1>1, ProgramIsSeq, Zenon DEF TodoInv
<1>3. TodoOf(c)'
  <2>1. todo'[c] = Program(for) /\ ctx'[c] = for /\ pc'[c] = "lock"
    BY <1>1, Zenon DEF TodoInv, CallInv
  <2>2. Len(Program(for)) \in 1 .. 6
    BY ProgramIsSeq, Zenon
  <2>3. QED
    BY <2>1, <2>2 DEF TodoOf
<1>4. ASSUME NEW d \in Cpu, d # c PROVE TodoOf(d)'
  BY <1>1, <1>4 DEF TodoInv, TodoOf, CallInv
<1>5. QED
  BY <1>2, <1>3, <1>4, Zenon DEF TodoInv

\* A step that touches no caller's requests, function or place.
LEMMA TodoSame ==
  ASSUME TodoInv, UNCHANGED <<todo, ctx, pc>> PROVE TodoInv'
<1>1. ASSUME NEW d \in Cpu PROVE TodoOf(d)'
  BY <1>1, Zenon DEF TodoInv, TodoOf
<1>2. QED
  BY <1>1, Zenon DEF TodoInv

\* A step of a caller that stays among, or out of, the places of a call.
LEMMA TodoMoves ==
  ASSUME CallInv, TodoInv, NEW c \in Cpu, NEW to, UNCHANGED <<todo, ctx>>,
         pc' = [pc EXCEPT ![c] = to],
         to \in {"lock", "send", "wait"} <=> pc[c] \in {"lock", "send", "wait"}
  PROVE  TodoInv'
<1>1. ASSUME NEW d \in Cpu
      PROVE  pc'[d] \in {"lock", "send", "wait"} <=> pc[d] \in {"lock", "send", "wait"}
  <2>1. pc'[d] = IF d = c THEN to ELSE pc[d]
    BY Zenon DEF CallInv
  <2>2. CASE d = c
    BY <2>1, <2>2, Zenon
  <2>3. CASE d # c
    BY <2>1, <2>3, Zenon
  <2>4. QED
    BY <2>2, <2>3, Zenon
<1>2. ASSUME NEW d \in Cpu PROVE TodoOf(d)'
  BY <1>1, <1>2, Zenon DEF TodoInv, TodoOf
<1>3. QED
  BY <1>2, Zenon DEF TodoInv

\* Every step leaves each caller with the last requests of its function: Unlock
\* takes off the one that was answered, and nothing else touches them.
LEMMA TodoStep ==
  ASSUME CallInv, TodoInv, [Next]_vars PROVE TodoInv'
<1> USE DEF CallInv, TodoInv, At, Goto, locals
<1>1. ASSUME NEW m \in Msr, Retire(m) PROVE TodoInv'
  BY <1>1, TodoSame, Zenon DEF Retire
<1>2. ASSUME Interrupt PROVE TodoInv'
  BY <1>2, TodoSame, Zenon DEF Interrupt
<1>3. ASSUME RunFunction PROVE TodoInv'
  BY <1>3, TodoSame, Zenon DEF RunFunction, Perform
<1>4. ASSUME ClearSelected PROVE TodoInv'
  BY <1>4, TodoSame, Zenon DEF ClearSelected
<1>5. ASSUME NEW c \in Cpu, VmExit(c) PROVE TodoInv'
  <2>1. CASE Call(c, "hook")
    BY <2>1, CallTodo, Zenon
  <2>2. CASE Goto(c, "exit") /\ UNCHANGED <<ctx, locals>>
    <3>1. pc[c] = "run"
      BY <1>5, Zenon DEF VmExit
    <3>2. QED
      BY <2>2, <3>1, TodoMoves, Zenon
  <2>3. QED
    BY <1>5, <2>1, <2>2, Zenon DEF VmExit
<1>6. ASSUME NEW c \in Cpu, EnableInterrupts(c) PROVE TodoInv'
  BY <1>6, TodoMoves, Zenon DEF EnableInterrupts
<1>7. ASSUME NEW c \in Cpu, Dispatch(c) PROVE TodoInv'
  <2>1. pc[c] = "dispatch" /\ UNCHANGED <<todo, ctx>>
    BY <1>7, Zenon DEF Dispatch
  <2>2. CASE Goto(c, "contend")
    BY <2>1, <2>2, TodoMoves, Zenon
  <2>3. CASE Goto(c, "run")
    BY <2>1, <2>3, TodoMoves, Zenon
  <2>4. QED
    BY <1>7, <2>2, <2>3, Zenon DEF Dispatch
<1>8. ASSUME NEW c \in Cpu, PagingLock(c) PROVE TodoInv'
  BY <1>8, CallTodo, Zenon DEF PagingLock
<1>9. ASSUME NEW c \in Cpu, NEW cmd \in Command, do_xc_reserved_op(c, cmd) PROVE TodoInv'
  BY <1>9, CallTodo, Zenon DEF do_xc_reserved_op
<1>10. ASSUME NEW c \in Cpu, Return(c) PROVE TodoInv'
  <2>0. pc[c] = "done" /\ UNCHANGED todo /\ Len(todo[c]) \in Nat
    BY <1>10, TodoLen, Zenon DEF Return
  <2>1. Len(todo[c]) = 0
    BY <2>0, TodoLen, Zenon
  <2>2. TodoOf(c)'
    BY <1>10, <2>0, <2>1, ProgramIsSeq DEF Return, TodoOf
  <2>3. ASSUME NEW d \in Cpu, d # c PROVE TodoOf(d)'
    BY <1>10, <2>0, <2>3 DEF Return, TodoOf
  <2>4. QED
    BY <2>0, <2>2, <2>3, Zenon
<1>11. ASSUME NEW c \in Cpu, SpinLock(c) PROVE TodoInv'
  BY <1>11, TodoMoves, Zenon DEF SpinLock
<1>12. ASSUME NEW c \in Cpu, Send(c) PROVE TodoInv'
  BY <1>12, TodoMoves, Zenon DEF Send, Perform
<1>13. ASSUME NEW c \in Cpu, Unlock(c) PROVE TodoInv'
  <2>1. /\ todo' = [todo EXCEPT ![c] = Tail(todo[c])] /\ ctx' = ctx
        /\ pc' = [pc EXCEPT ![c] = IF Len(todo[c]) > 1 THEN "lock" ELSE "done"]
    BY <1>13, Zenon DEF Unlock
  <2>2. todo[c] \in Seq(Request) /\ Len(todo[c]) > 0
    BY <1>13, TodoLen, Zenon DEF Unlock, TodoOf
  <2>3. /\ Tail(todo[c]) \in Seq(Request) /\ Len(Tail(todo[c])) = Len(todo[c]) - 1
        /\ \A k \in 1 .. (Len(todo[c]) - 1) : Tail(todo[c])[k] = todo[c][k + 1]
    BY <2>2
  <2>4. todo'[c] = Tail(todo[c]) /\ ctx'[c] = ctx[c]
    BY <2>1, Zenon
  <2>5. TodoOf(c)'
    <3> DEFINE all == Len(Program(ctx[c]))
    <3>1. all \in Nat /\ Len(todo[c]) \in Nat /\ Len(todo[c]) <= all
      BY <2>2, ProgramIsSeq DEF TodoOf
    <3>2. ASSUME NEW k \in 1 .. Len(todo'[c])
          PROVE  todo'[c][k] = Program(ctx[c])[all - Len(todo'[c]) + k]
      <4>1. k + 1 \in 1 .. Len(todo[c]) /\ k \in 1 .. (Len(todo[c]) - 1)
        BY <2>3, <2>4, <3>1, SMTT(60)
      <4>2. todo'[c][k] = Program(ctx[c])[all - Len(todo[c]) + (k + 1)]
        BY <2>3, <2>4, <4>1 DEF TodoOf
      <4>3. all - Len(todo[c]) + (k + 1) = all - Len(todo'[c]) + k
        BY <2>3, <2>4, <3>1, <4>1
      <4>4. QED
        BY <4>2, <4>3, Zenon
    <3>3. pc'[c] \in {"lock", "send", "wait"} <=> Len(todo'[c]) > 0
      BY <2>1, <2>3, <2>4, <3>1
    <3>4. Len(todo'[c]) <= all
      BY <2>3, <2>4, <3>1
    <3>5. QED
      BY <2>4, <3>2, <3>3, <3>4, Zenon DEF TodoOf
  <2>6. ASSUME NEW d \in Cpu, d # c PROVE TodoOf(d)'
    BY <2>1, <2>6 DEF TodoOf
  <2>7. QED
    BY <2>1, <2>3, <2>5, <2>6, Zenon
<1>14. ASSUME UNCHANGED vars PROVE TodoInv'
  BY <1>14, TodoSame, Zenon DEF vars, call_data, pmu
<1>15. QED
  BY <1>1, <1>2, <1>3, <1>4, <1>5, <1>6, <1>7, <1>8, <1>9, <1>10, <1>11, <1>12,
     <1>13, <1>14, Zenon DEF Next, smp_call_function_interrupt, on_selected_cpus

\* Which request a caller makes, from how many it has left.
LEMMA NextRequest ==
  ASSUME CallInv, TodoInv, NEW c \in Cpu, pc[c] \in {"send", "wait"}
  PROVE  /\ ctx[c] \in Reading =>
              \/ Left(c) = 2 /\ Head(todo[c]) = rd(1)
              \/ Left(c) = 1 /\ Head(todo[c]) = rd(3)
         /\ ctx[c] = "debug" => Head(todo[c]) = <<"debugreg", 0>>
         /\ ctx[c] = "stop" =>
              \/ Left(c) = 6 /\ Head(todo[c]) = rd(1)
              \/ Left(c) = 5 /\ Head(todo[c]) = rd(3)
              \/ Left(c) = 4 /\ Head(todo[c]) = off(1)
              \/ Left(c) = 3 /\ Head(todo[c]) = zero(1)
              \/ Left(c) = 2 /\ Head(todo[c]) = off(3)
              \/ Left(c) = 1 /\ Head(todo[c]) = zero(3)
         /\ Head(todo[c]) \in Request
<1>1. todo[c] \in Seq(Request) /\ Left(c) \in Nat /\ Left(c) > 0
  BY TodoLen, Zenon DEF Left
<1>2. Left(c) <= Len(Program(ctx[c]))
  BY Zenon DEF TodoInv, TodoOf, Left
<1>3. Head(todo[c]) = todo[c][1] /\ 1 \in 1 .. Len(todo[c])
  BY <1>1 DEF Left
<1>4. todo[c][1] = Program(ctx[c])[Len(Program(ctx[c])) - Left(c) + 1]
  BY <1>3, Zenon DEF TodoInv, TodoOf, Left
<1>5. ASSUME ctx[c] \in Reading
      PROVE  \/ Left(c) = 2 /\ Head(todo[c]) = rd(1)
             \/ Left(c) = 1 /\ Head(todo[c]) = rd(3)
  <2>1. Program(ctx[c]) = Reads
    BY <1>5, Zenon DEF Program, Reading
  <2>2. Left(c) <= 2 /\ Head(todo[c]) = Reads[3 - Left(c)]
    BY <1>1, <1>2, <1>3, <1>4, <2>1, ReadsShape
  <2>3. Left(c) = 1 \/ Left(c) = 2
    BY <1>1, <2>2
  <2>4. QED
    BY <2>2, <2>3, ReadsShape
<1>6. ASSUME ctx[c] = "debug" PROVE Head(todo[c]) = <<"debugreg", 0>>
  <2>1. Program(ctx[c]) = Debugs
    BY <1>6, Zenon DEF Program
  <2>2. Left(c) <= 1 /\ Head(todo[c]) = Debugs[2 - Left(c)]
    BY <1>1, <1>2, <1>3, <1>4, <2>1, DebugsShape
  <2>3. Left(c) = 1
    BY <1>1, <2>2
  <2>4. QED
    BY <2>2, <2>3, DebugsShape
<1>7. ASSUME ctx[c] = "stop"
      PROVE  \/ Left(c) = 6 /\ Head(todo[c]) = rd(1)
             \/ Left(c) = 5 /\ Head(todo[c]) = rd(3)
             \/ Left(c) = 4 /\ Head(todo[c]) = off(1)
             \/ Left(c) = 3 /\ Head(todo[c]) = zero(1)
             \/ Left(c) = 2 /\ Head(todo[c]) = off(3)
             \/ Left(c) = 1 /\ Head(todo[c]) = zero(3)
  <2>1. Program(ctx[c]) = Stops
    BY <1>7, Zenon DEF Program
  <2>2. Left(c) <= 6 /\ Head(todo[c]) = Stops[7 - Left(c)]
    BY <1>1, <1>2, <1>3, <1>4, <2>1, StopsShape
  <2>3. \/ Left(c) = 1 \/ Left(c) = 2 \/ Left(c) = 3
        \/ Left(c) = 4 \/ Left(c) = 5 \/ Left(c) = 6
    BY <1>1, <2>2
  <2>4. QED
    BY <2>2, <2>3, StopsShape
<1>8. Head(todo[c]) \in Request
  BY <1>1, <1>3 DEF Left
<1>9. QED
  BY <1>5, <1>6, <1>7, <1>8, Zenon

\* What performing a caller's request does to the counters and to the value it
\* gets back, from how many requests the caller has left.
LEMMA PerformEffect ==
  ASSUME CallInv, TodoInv, CountInv, NEW c \in Cpu, pc[c] \in {"send", "wait"},
         Perform(c)
  PROVE  /\ UNCHANGED <<todo, sum>>
         /\ pmc' \in [Msr -> 0 .. CountBound] /\ counting' \in SUBSET Msr
         /\ val' \in [Cpu -> 0 .. CountBound] /\ \A d \in Cpu \ {c} : val'[d] = val[d]
         /\ began' \in [Cpu -> Nat \cup {-1}]
         /\ \/ UNCHANGED <<pmc, began>>
            \/ \A d \in Cpu : ctx[d] # "none" => began'[d] = -1
         /\ ctx[c] \in Reading =>
              /\ UNCHANGED <<pmc, counting, began>>
              /\ Left(c) = 2 => val'[c] = pmc[1]
              /\ Left(c) = 1 => val'[c] = pmc[3]
         /\ ctx[c] = "debug" => UNCHANGED <<pmc, counting>>
         /\ ctx[c] = "stop" =>
              /\ Left(c) \in 1 .. 6
              /\ counting' = CASE Left(c) = 4 -> counting \ {1}
                               [] Left(c) = 2 -> counting \ {3}
                               [] OTHER -> counting
              /\ pmc'[1] = IF Left(c) = 3 THEN 0 ELSE pmc[1]
              /\ pmc'[3] = IF Left(c) = 1 THEN 0 ELSE pmc[3]
<1> DEFINE op == Head(todo[c])[1]
           m == Head(todo[c])[2]
<1>1. /\ val' = [val EXCEPT ![c] = IF op = "rd" THEN pmc[m] ELSE 0]
      /\ pmc' = IF op = "zero" THEN [pmc EXCEPT ![m] = 0] ELSE pmc
      /\ counting' = CASE op = "on" -> counting \cup {m}
                       [] op = "off" -> counting \ {m}
                       [] OTHER -> counting
      /\ began' = IF op = "zero"
                   THEN [p \in Cpu |-> IF ctx[p] = "none" THEN began[p] ELSE -1]
                   ELSE began
      /\ UNCHANGED <<todo, sum>>
  BY Zenon DEF Perform
<1>2. op \in {"rd", "zero", "off", "on", "debugreg"} /\ (op # "debugreg" => m \in Msr)
  <2>1. Head(todo[c]) \in Request
    BY NextRequest, Zenon
  <2>2. CASE Head(todo[c]) = <<"debugreg", 0>>
    BY <2>2
  <2>3. ASSUME NEW o \in {"rd", "zero", "off", "on"}, NEW n \in Msr,
               Head(todo[c]) = <<o, n>>
        PROVE  op = o /\ m = n
    BY <2>3
  <2>4. QED
    BY <2>1, <2>2, <2>3 DEF Request
<1>3. ASSUME ctx[c] \in Reading
      PROVE  op = "rd" /\ (Left(c) = 2 => m = 1) /\ (Left(c) = 1 => m = 3)
  BY <1>3, NextRequest DEF rd
<1>4. ASSUME ctx[c] = "debug" PROVE op = "debugreg"
  BY <1>4, NextRequest
<1>5. ASSUME ctx[c] = "stop"
      PROVE  \/ Left(c) \in {5, 6} /\ op = "rd"
             \/ Left(c) = 4 /\ op = "off" /\ m = 1
             \/ Left(c) = 3 /\ op = "zero" /\ m = 1
             \/ Left(c) = 2 /\ op = "off" /\ m = 3
             \/ Left(c) = 1 /\ op = "zero" /\ m = 3
  BY <1>5, NextRequest DEF rd, off, zero
<1> HIDE DEF op, m
<1>6. val' \in [Cpu -> 0 .. CountBound] /\ \A d \in Cpu \ {c} : val'[d] = val[d]
  BY <1>1, <1>2, BoundAssumption DEF CountInv
<1>7. pmc' \in [Msr -> 0 .. CountBound] /\ counting' \in SUBSET Msr
  BY <1>1, <1>2, BoundAssumption DEF CountInv
<1>8. /\ began' \in [Cpu -> Nat \cup {-1}]
      /\ \/ UNCHANGED <<pmc, began>>
         \/ \A d \in Cpu : ctx[d] # "none" => began'[d] = -1
  BY <1>1, Zenon DEF CountInv
<1>9. ASSUME ctx[c] \in Reading
      PROVE  /\ UNCHANGED <<pmc, counting, began>>
             /\ Left(c) = 2 => val'[c] = pmc[1]
             /\ Left(c) = 1 => val'[c] = pmc[3]
  BY <1>1, <1>3, <1>9, Zenon DEF CountInv
<1>10. ASSUME ctx[c] = "debug" PROVE UNCHANGED <<pmc, counting>>
  BY <1>1, <1>4, <1>10, Zenon
<1>11. ASSUME ctx[c] = "stop"
       PROVE  /\ Left(c) \in 1 .. 6
              /\ counting' = CASE Left(c) = 4 -> counting \ {1}
                               [] Left(c) = 2 -> counting \ {3}
                               [] OTHER -> counting
              /\ pmc'[1] = IF Left(c) = 3 THEN 0 ELSE pmc[1]
              /\ pmc'[3] = IF Left(c) = 1 THEN 0 ELSE pmc[3]
  BY <1>1, <1>5, <1>11, SMTT(60) DEF CountInv, Msr
<1>12. QED
  BY <1>1, <1>6, <1>7, <1>8, <1>9, <1>10, <1>11, Zenon

\* Only one processor is between SpinLock and Unlock, so only one can have a
\* request published or answered.
LEMMA OneCaller ==
  ASSUME CallInv, NEW c \in Cpu, NEW d \in Cpu,
         pc[c] \in {"send", "wait"}, pc[d] \in {"send", "wait"}
  PROVE  c = d
BY Zenon DEF CallInv

\* A caller starts with an empty sum and the total of the counters as its mark.
LEMMA CallCount ==
  ASSUME CallInv, TodoInv, CountInv, NEW c \in Cpu, NEW for, Call(c, for),
         pc[c] \in {"run", "contend"}, UNCHANGED <<pmc, counting, selected, handling>>
  PROVE  CountInv'
<1>1. /\ pc' = [pc EXCEPT ![c] = "lock"] /\ ctx' = [ctx EXCEPT ![c] = for]
      /\ todo' = [todo EXCEPT ![c] = Program(for)]
      /\ began' = [began EXCEPT ![c] = pmc[1] + pmc[3]] /\ UNCHANGED <<val, sum>>
  BY Zenon DEF Call, Goto, Total
<1>2. pmc[1] + pmc[3] \in Nat
  BY BoundAssumption DEF CountInv, Msr
<1>3. sum[c] = 0 /\ val[c] = 0
  BY Zenon DEF CallInv, CountInv, CountOf, Performed
<1>4. for \in Reading => Left(c)' = 2
  BY <1>1, ReadsShape, Zenon DEF Program, Reading, Left, TodoInv
<1>5. CountOf(c)'
  <2>1. ~ Performed(c)' /\ began'[c] = pmc[1] + pmc[3]
    BY <1>1, Zenon DEF Performed, CallInv, CountInv
  <2>2. sum'[c] = 0 /\ val'[c] = 0 /\ ctx'[c] = for
    BY <1>1, <1>3, Zenon DEF CallInv
  <2>3. QED
    BY <1>2, <1>4, <2>1, <2>2, SMTT(60) DEF CountOf
<1>6. ASSUME NEW d \in Cpu, d # c PROVE CountOf(d)'
  BY <1>1, <1>6, Zenon DEF CountOf, CallInv, CountInv, TodoInv, Left, Performed
<1>7. began' \in [Cpu -> Nat \cup {-1}]
  BY <1>1, <1>2, Zenon DEF CountInv
<1>8. QED
  BY <1>1, <1>5, <1>6, <1>7, Zenon DEF CountInv

\* Performing the request of c keeps what every caller has added up within what
\* the counters had: a read takes the value of the moment, and clearing a counter
\* withdraws the marks of the calls in progress.
LEMMA PerformCount ==
  ASSUME CallInv, TodoInv, CountInv, NEW c \in Cpu, pc[c] \in {"send", "wait"},
         Perform(c), UNCHANGED ctx, ~ Performed(c), Performed(c)',
         \A d \in Cpu \ {c} : ~ Performed(d) /\ ~ Performed(d)'
  PROVE  CountInv'
<1>0. pmc[1] \in Nat /\ pmc[3] \in Nat
  BY BoundAssumption DEF CountInv, Msr
<1>1. ASSUME NEW d \in Cpu PROVE Left(d)' = Left(d) /\ sum'[d] = sum[d]
  BY PerformEffect, Zenon DEF Left
<1>2. CountOf(c)'
  <2>1. CASE ctx[c] \in Reading
    <3>1. UNCHANGED <<pmc, began>>
      BY <2>1, PerformEffect, Zenon
    <3>2. sum[c] \in Nat /\ began[c] \in Int
      BY DEF CountInv
    <3>3. CASE Left(c) = 2
      <4>1. val'[c] = pmc[1]
        BY <2>1, <3>3, PerformEffect, Zenon
      <4>2. QED
        BY <1>0, <1>1, <2>1, <3>1, <3>2, <3>3, <4>1, SMTT(60) DEF CountOf,
           CountInv, Reading
    <3>4. CASE Left(c) = 1
      <4>1. val'[c] = pmc[3]
        BY <2>1, <3>4, PerformEffect, Zenon
      <4>2. QED
        BY <1>0, <1>1, <2>1, <3>1, <3>2, <3>4, <4>1, SMTT(60) DEF CountOf,
           CountInv, Reading
    <3>5. QED
      BY <2>1, <3>3, <3>4, NextRequest, Zenon
  <2>2. CASE ctx[c] \notin Reading
    BY <1>1, <2>2, Zenon DEF CountOf, CountInv, CallInv
  <2>3. QED
    BY <2>1, <2>2, Zenon
<1>3. ASSUME NEW d \in Cpu \ {c} PROVE CountOf(d)'
  <2>1. val'[d] = val[d]
    BY PerformEffect, Zenon
  <2>2. CASE UNCHANGED <<pmc, began>>
    BY <1>1, <2>1, <2>2, Zenon DEF CountOf, CountInv
  <2>3. CASE ctx[d] # "none" => began'[d] = -1
    BY <1>1, <2>1, <2>3, SMTT(60) DEF CountOf, CountInv, Reading
  <2>4. QED
    BY <2>2, <2>3, PerformEffect, Zenon
<1>4. sum' = sum
  BY PerformEffect, Zenon
<1>5. QED
  BY <1>2, <1>3, <1>4, PerformEffect, Zenon DEF CountInv

\* Every step keeps the sums and marks right, with the target counting on between
\* the two reads of a caller.
LEMMA CountStep ==
  ASSUME CallInv, TodoInv, CountInv, [Next]_vars PROVE CountInv'
<1> USE BoundAssumption DEF CallInv, At, Goto, locals, pmu, call_data
<1>1. ASSUME NEW m \in Msr, Retire(m) PROVE CountInv'
  <2>1. /\ pmc' \in [Msr -> 0 .. CountBound] /\ pmc'[1] >= pmc[1] /\ pmc'[3] >= pmc[3]
        /\ pmc[1] \in Nat /\ pmc[3] \in Nat /\ pmc'[1] \in Nat /\ pmc'[3] \in Nat
    BY <1>1 DEF Retire, CountInv, Msr
  <2>2. ASSUME NEW d \in Cpu PROVE CountOf(d)'
    <3>1. /\ Left(d)' = Left(d) /\ Performed(d)' = Performed(d)
          /\ UNCHANGED <<ctx, sum, val, began>>
      BY <1>1, Zenon DEF Retire, Left, Performed
    <3>2. sum[d] \in Nat /\ val[d] \in Nat /\ began[d] \in Int
      BY DEF CountInv
    <3>3. QED
      BY <2>1, <3>1, <3>2, SMTT(60) DEF CountInv, CountOf
  <2>3. QED
    BY <1>1, <2>1, <2>2, Zenon DEF Retire, CountInv
<1>2. ASSUME Interrupt PROVE CountInv'
  <2>1. ASSUME NEW d \in Cpu PROVE CountOf(d)'
    <3>1. Left(d)' = Left(d) /\ Performed(d)' = Performed(d)
      BY <1>2 DEF Interrupt, Left, Performed
    <3>2. QED
      BY <1>2, <3>1, Zenon DEF Interrupt, CountInv, CountOf
  <2>2. QED
    BY <1>2, <2>1, Zenon DEF Interrupt, CountInv
<1>3. ASSUME RunFunction PROVE CountInv'
  <2>1. PICK c \in Cpu : pc[c] = "wait"
    BY <1>3, Zenon DEF RunFunction
  <2>2. info = c /\ Perform(c) /\ UNCHANGED <<pc, ctx, selected>>
    BY <1>3, <2>1, Zenon DEF RunFunction
  <2>3. ~ Performed(c) /\ Performed(c)'
    BY <1>3, <2>1, <2>2, CpuAssumption, Zenon DEF RunFunction, Performed
  <2>4. \A d \in Cpu \ {c} : ~ Performed(d) /\ ~ Performed(d)'
    BY <2>1, <2>2, OneCaller, Zenon DEF Performed
  <2>5. QED
    BY <2>1, <2>2, <2>3, <2>4, PerformCount, Zenon
<1>4. ASSUME ClearSelected PROVE CountInv'
  <2>1. ASSUME NEW d \in Cpu PROVE CountOf(d)'
    <3>1. Left(d)' = Left(d) /\ Performed(d)' = Performed(d)
      BY <1>4, CpuAssumption, Zenon DEF ClearSelected, Left, Performed
    <3>2. QED
      BY <1>4, <3>1, Zenon DEF ClearSelected, CountInv, CountOf
  <2>2. QED
    BY <1>4, <2>1, Zenon DEF ClearSelected, CountInv
<1>5. ASSUME NEW c \in Cpu, VmExit(c) PROVE CountInv'
  <2>1. CASE Call(c, "hook")
    BY <1>5, <2>1, CallCount, Zenon DEF VmExit
  <2>2. CASE Goto(c, "exit") /\ UNCHANGED <<ctx, locals>>
    BY <1>5, <2>2, SMTT(60) DEF VmExit, CountInv, CountOf, Performed, Left
  <2>3. QED
    BY <1>5, <2>1, <2>2, Zenon DEF VmExit
<1>6. ASSUME NEW c \in Cpu, EnableInterrupts(c) PROVE CountInv'
  BY <1>6, SMTT(60) DEF EnableInterrupts, CountInv, CountOf, Performed, Left
<1>7. ASSUME NEW c \in Cpu, Dispatch(c) PROVE CountInv'
  BY <1>7, SMTT(60) DEF Dispatch, CountInv, CountOf, Performed, Left
<1>8. ASSUME NEW c \in Cpu, PagingLock(c) PROVE CountInv'
  BY <1>8, CallCount, Zenon DEF PagingLock
<1>9. ASSUME NEW c \in Cpu, NEW cmd \in Command, do_xc_reserved_op(c, cmd) PROVE CountInv'
  BY <1>9, CallCount, Zenon DEF do_xc_reserved_op
<1>10. ASSUME NEW c \in Cpu, Return(c) PROVE CountInv'
  <2>1. /\ UNCHANGED <<pmc, counting, todo, selected, handling>>
        /\ ctx' = [ctx EXCEPT ![c] = "none"] /\ sum' = [sum EXCEPT ![c] = 0]
        /\ val' = [val EXCEPT ![c] = 0] /\ began' = [began EXCEPT ![c] = 0]
        /\ pc' = [pc EXCEPT ![c] = IF ctx[c] = "hook" THEN "exit" ELSE "run"]
    BY <1>10, Zenon DEF Return
  <2>2. CountOf(c)'
    BY <2>1, Zenon DEF CountInv, CountOf, Reading
  <2>3. ASSUME NEW d \in Cpu, d # c PROVE CountOf(d)'
    BY <2>1, <2>3, SMTT(60) DEF CountInv, CountOf, Performed, Left
  <2>4. /\ val' \in [Cpu -> 0 .. CountBound] /\ sum' \in [Cpu -> Nat]
        /\ began' \in [Cpu -> Nat \cup {-1}]
    BY <2>1 DEF CountInv
  <2>5. QED
    BY <2>1, <2>2, <2>3, <2>4, Zenon DEF CountInv
<1>11. ASSUME NEW c \in Cpu, SpinLock(c) PROVE CountInv'
  BY <1>11, SMTT(60) DEF SpinLock, CountInv, CountOf, Performed, Left
<1>12. ASSUME NEW c \in Cpu, Send(c) PROVE CountInv'
  <2>1. pc[c] = "send" /\ pc' = [pc EXCEPT ![c] = "wait"] /\ UNCHANGED <<ctx, handling>>
    BY <1>12, Zenon DEF Send
  <2>2. \A d \in Cpu \ {c} : ~ Performed(d) /\ ~ Performed(d)'
    BY <2>1, OneCaller, Zenon DEF Performed
  <2>3. ~ Performed(c)
    BY <2>1, Zenon DEF Performed
  <2>4. CASE c = Target
    <3>1. Perform(c) /\ selected' = {}
      BY <1>12, <2>4, Zenon DEF Send
    <3>2. Performed(c)'
      BY <2>1, <3>1, Zenon DEF Performed
    <3>3. QED
      BY <2>1, <2>2, <2>3, <3>1, <3>2, PerformCount, Zenon
  <2>5. CASE c # Target
    <3>1. selected = {} /\ selected' = {Target} /\ UNCHANGED <<pmu, locals>>
      BY <1>12, <2>1, <2>5, OneCaller, Zenon DEF Send, Mask
    <3>2. ~ Performed(c)'
      BY <2>1, <3>1, Zenon DEF Performed
    <3>3. ASSUME NEW d \in Cpu PROVE CountOf(d)'
      <4>1. ~ Performed(d) /\ ~ Performed(d)' /\ Left(d)' = Left(d)
        BY <2>2, <2>3, <3>1, <3>2, Zenon DEF Left
      <4>2. QED
        BY <2>1, <3>1, <4>1, Zenon DEF CountInv, CountOf
    <3>4. QED
      BY <3>1, <3>3, Zenon DEF CountInv
  <2>6. QED
    BY <2>4, <2>5, Zenon
<1>13. ASSUME NEW c \in Cpu, Unlock(c) PROVE CountInv'
  <2>1. /\ UNCHANGED <<pmc, counting, ctx, began, selected, handling>> /\ selected = {}
        /\ pc[c] = "wait"
        /\ sum' = [sum EXCEPT ![c] = sum[c] + val[c]] /\ val' = [val EXCEPT ![c] = 0]
        /\ todo' = [todo EXCEPT ![c] = Tail(todo[c])]
        /\ pc' = [pc EXCEPT ![c] = IF Len(todo[c]) > 1 THEN "lock" ELSE "done"]
    BY <1>13, Zenon DEF Unlock
  <2>2. Left(c) \in Nat /\ Left(c) > 0 /\ Left(c)' = Left(c) - 1
    BY <2>1, TodoLen DEF Left, TodoInv
  <2>3. sum[c] \in Nat /\ val[c] \in Nat /\ began[c] \in Int
    BY DEF CountInv
  <2>4. pmc[1] \in Nat /\ pmc[3] \in Nat
    BY DEF CountInv, Msr
  <2>5. CountOf(c)'
    <3>1. Performed(c) /\ ~ Performed(c)'
      BY <2>1, Zenon DEF Performed
    <3>2. sum'[c] = sum[c] + val[c] /\ val'[c] = 0
      BY <2>1, Zenon DEF CountInv
    <3>3. ctx[c] # "none"
      BY <2>1, Zenon
    <3>4. CASE ctx[c] \notin Reading
      BY <2>1, <3>1, <3>2, <3>3, <3>4, Zenon DEF CountOf
    <3>5. CASE ctx[c] \in Reading /\ Left(c) = 2
      <4>1. Left(c)' = 1
        BY <2>2, <3>5
      <4>2. QED
        BY <2>1, <2>3, <2>4, <3>1, <3>2, <3>3, <3>5, <4>1, SMTT(60) DEF
           CountInv, CountOf
    <3>6. CASE ctx[c] \in Reading /\ Left(c) = 1
      <4>1. Left(c)' = 0
        BY <2>2, <3>6
      <4>2. QED
        BY <2>1, <2>3, <2>4, <3>1, <3>2, <3>3, <3>6, <4>1, SMTT(60) DEF
           CountInv, CountOf
    <3>7. QED
      BY <2>1, <3>4, <3>5, <3>6, NextRequest, Zenon
  <2>6. ASSUME NEW d \in Cpu, d # c PROVE CountOf(d)'
    BY <2>1, <2>6, Zenon DEF CountInv, CountOf, Performed, Left, TodoInv
  <2>7. sum' \in [Cpu -> Nat] /\ val' \in [Cpu -> 0 .. CountBound]
    BY <2>1, <2>3 DEF CountInv
  <2>8. QED
    BY <2>1, <2>5, <2>6, <2>7, Zenon DEF CountInv
<1>14. ASSUME UNCHANGED vars PROVE CountInv'
  BY <1>14, SMTT(60) DEF vars, CountInv, CountOf, Performed, Left
<1>15. QED
  BY <1>1, <1>2, <1>3, <1>4, <1>5, <1>6, <1>7, <1>8, <1>9, <1>10, <1>11, <1>12,
     <1>13, <1>14, Zenon DEF Next, smp_call_function_interrupt, on_selected_cpus

\* A step that leaves the counters alone, and the requests still to be performed
\* of a start or stop, keeps StopInv.
LEMMA StopKept ==
  ASSUME StopInv, UNCHANGED <<pmc, counting, phase>>,
         \A d \in Cpu : ctx'[d] \in {"start", "stop"} =>
           ctx'[d] = ctx[d] /\ Undone(d)' = Undone(d)
  PROVE  StopInv'
BY Zenon DEF StopInv

\* Performing the request of c keeps StopInv: the requests of stop_pmu disable
\* a counter before they clear it, and no other command is in progress.
LEMMA PerformStop ==
  ASSUME \A p, q \in Cpu \ Guest : p = q,
         CallInv, TodoInv, CountInv, StopInv, NEW c \in Cpu, pc[c] \in {"send", "wait"},
         Perform(c), UNCHANGED <<ctx, phase>>, ~ Performed(c), Performed(c)',
         \A d \in Cpu \ {c} : ~ Performed(d) /\ ~ Performed(d)'
  PROVE  StopInv'
<1>0. ctx[c] \in Reading \cup {"debug", "start", "stop"}
  BY Zenon DEF CallInv, Reading, Command
<1>1. ASSUME NEW d \in Cpu PROVE Left(d)' = Left(d)
  BY PerformEffect, Zenon DEF Left
<1>2. CASE ctx[c] \in Reading \cup {"debug"}
  <2>1. UNCHANGED <<pmc, counting>>
    BY <1>2, PerformEffect, Zenon
  <2>2. ASSUME NEW d \in Cpu, ctx[d] \in {"start", "stop"} PROVE Undone(d)' = Undone(d)
    <3>1. d # c
      BY <1>2, <2>2, Zenon DEF Reading
    <3>2. QED
      BY <1>1, <3>1, Zenon DEF Undone
  <2>3. QED
    BY <2>1, <2>2, StopKept, Zenon
<1>3. ASSUME ctx[c] \in {"start", "stop"}
      PROVE  phase = "changing" /\ \A d \in Cpu : ctx[d] \in {"start", "stop"} => d = c
  BY <1>3 DEF StopInv, CallInv, Command
<1>4. CASE ctx[c] = "start"
  BY <1>3, <1>4, Zenon DEF StopInv
<1>5. CASE ctx[c] = "stop"
  <2>1. Left(c) \in 1 .. 6 /\ Undone(c) = Left(c) /\ Undone(c)' = Left(c) - 1
    BY <1>1, <1>5, PerformEffect, Zenon DEF Undone
  <2>2. /\ counting' = CASE Left(c) = 4 -> counting \ {1}
                         [] Left(c) = 2 -> counting \ {3}
                         [] OTHER -> counting
        /\ pmc'[1] = IF Left(c) = 3 THEN 0 ELSE pmc[1]
        /\ pmc'[3] = IF Left(c) = 1 THEN 0 ELSE pmc[3]
    BY <1>5, PerformEffect, Zenon
  <2>3. /\ Left(c) - 1 <= 3 => 1 \notin counting'
        /\ Left(c) - 1 <= 2 => pmc'[1] = 0
        /\ Left(c) - 1 <= 1 => 3 \notin counting'
        /\ Left(c) - 1 <= 0 => pmc'[3] = 0
    BY <1>5, <2>1, <2>2 DEF StopInv
  <2>4. QED
    BY <1>3, <1>5, <2>1, <2>3, Zenon DEF StopInv
<1>6. QED
  BY <1>0, <1>2, <1>4, <1>5, Zenon

\* Every step keeps StopInv when dom0 gives one command at a time: a counter that
\* stop_pmu has disabled does not count, though the target runs on.
LEMMA StopStep ==
  ASSUME \A c, d \in Cpu \ Guest : c = d,
         CallInv, TodoInv, CountInv, StopInv, [Next]_vars
  PROVE  StopInv'
<1> USE DEF CallInv, At, Goto, locals, pmu, call_data
<1>1. ASSUME NEW m \in Msr, Retire(m) PROVE StopInv'
  <2>1. ASSUME NEW d \in Cpu PROVE Undone(d)' = Undone(d)
    BY <1>1, Zenon DEF Retire, Undone, Left, Performed
  <2>2. m \in counting /\ UNCHANGED <<counting, ctx, phase>>
    BY <1>1, Zenon DEF Retire
  <2>3. (1 \notin counting => pmc'[1] = pmc[1]) /\ (3 \notin counting => pmc'[3] = pmc[3])
    BY <1>1 DEF Retire, CountInv, Msr
  <2>4. ASSUME NEW d \in Cpu PROVE Undone(d) \in Int
    BY TodoLen DEF Undone, Left
  <2>5. ASSUME NEW d \in Cpu, ctx[d] = "stop"
        PROVE  /\ Undone(d)' <= 3 => 1 \notin counting'
               /\ Undone(d)' <= 2 => pmc'[1] = 0
               /\ Undone(d)' <= 1 => 3 \notin counting'
               /\ Undone(d)' <= 0 => pmc'[3] = 0
    BY <2>1, <2>2, <2>3, <2>4, <2>5 DEF StopInv
  <2>6. QED
    BY <2>2, <2>5, Zenon DEF StopInv
<1>2. ASSUME Interrupt PROVE StopInv'
  <2>1. ASSUME NEW d \in Cpu, ctx'[d] \in {"start", "stop"}
        PROVE  ctx'[d] = ctx[d] /\ Undone(d)' = Undone(d)
    BY <1>2, <2>1 DEF Interrupt, Undone, Left, Performed
  <2>2. UNCHANGED <<pmc, counting, phase>>
    BY <1>2, Zenon DEF Interrupt
  <2>3. QED
    BY <2>1, <2>2, StopKept, Zenon
<1>3. ASSUME RunFunction PROVE StopInv'
  <2>1. PICK c \in Cpu : pc[c] = "wait"
    BY <1>3, Zenon DEF RunFunction
  <2>2. info = c /\ Perform(c) /\ UNCHANGED <<pc, ctx, selected, phase>>
    BY <1>3, <2>1, Zenon DEF RunFunction
  <2>3. ~ Performed(c) /\ Performed(c)'
    BY <1>3, <2>1, <2>2, CpuAssumption DEF RunFunction, Performed
  <2>4. \A d \in Cpu \ {c} : ~ Performed(d) /\ ~ Performed(d)'
    BY <2>1, <2>2, OneCaller, Zenon DEF Performed
  <2>5. QED
    BY <2>1, <2>2, <2>3, <2>4, PerformStop, Zenon
<1>4. ASSUME ClearSelected PROVE StopInv'
  <2>1. ASSUME NEW d \in Cpu, ctx'[d] \in {"start", "stop"}
        PROVE  ctx'[d] = ctx[d] /\ Undone(d)' = Undone(d)
    BY <1>4, <2>1, CpuAssumption, Zenon DEF ClearSelected, Undone, Left,
       Performed
  <2>2. UNCHANGED <<pmc, counting, phase>>
    BY <1>4, Zenon DEF ClearSelected
  <2>3. QED
    BY <2>1, <2>2, StopKept, Zenon
<1>5. ASSUME NEW c \in Cpu, VmExit(c) PROVE StopInv'
  <2>1. ASSUME NEW d \in Cpu, ctx'[d] \in {"start", "stop"}
        PROVE  ctx'[d] = ctx[d] /\ Undone(d)' = Undone(d)
    BY <1>5, <2>1, CpuAssumption, SMTT(60) DEF VmExit, Call, Command, TodoInv,
       Undone, Left, Performed
  <2>2. UNCHANGED <<pmc, counting, phase>>
    BY <1>5, Zenon DEF VmExit, Call
  <2>3. QED
    BY <2>1, <2>2, StopKept, Zenon
<1>6. ASSUME NEW c \in Cpu, EnableInterrupts(c) PROVE StopInv'
  <2>1. ASSUME NEW d \in Cpu, ctx'[d] \in {"start", "stop"}
        PROVE  ctx'[d] = ctx[d] /\ Undone(d)' = Undone(d)
    BY <1>6, <2>1 DEF EnableInterrupts, Undone, Left, Performed
  <2>2. UNCHANGED <<pmc, counting, phase>>
    BY <1>6, Zenon DEF EnableInterrupts
  <2>3. QED
    BY <2>1, <2>2, StopKept, Zenon
<1>7. ASSUME NEW c \in Cpu, Dispatch(c) PROVE StopInv'
  <2>1. ASSUME NEW d \in Cpu, ctx'[d] \in {"start", "stop"}
        PROVE  ctx'[d] = ctx[d] /\ Undone(d)' = Undone(d)
    BY <1>7, <2>1 DEF Dispatch, Undone, Left, Performed
  <2>2. UNCHANGED <<pmc, counting, phase>>
    BY <1>7, Zenon DEF Dispatch
  <2>3. QED
    BY <2>1, <2>2, StopKept, Zenon
<1>8. ASSUME NEW c \in Cpu, PagingLock(c) PROVE StopInv'
  <2>1. ASSUME NEW d \in Cpu, ctx'[d] \in {"start", "stop"}
        PROVE  ctx'[d] = ctx[d] /\ Undone(d)' = Undone(d)
    BY <1>8, <2>1, SMTT(60) DEF PagingLock, Call, TodoInv, Undone, Left,
       Performed
  <2>2. UNCHANGED <<pmc, counting, phase>>
    BY <1>8, Zenon DEF PagingLock, Call
  <2>3. QED
    BY <2>1, <2>2, StopKept, Zenon
<1>9. ASSUME NEW c \in Cpu, NEW cmd \in Command, do_xc_reserved_op(c, cmd) PROVE StopInv'
  <2>1. /\ ctx' = [ctx EXCEPT ![c] = cmd]
        /\ UNCHANGED <<pmc, counting, handling, selected>>
        /\ todo' = [todo EXCEPT ![c] = Program(cmd)] /\ pc' = [pc EXCEPT ![c] = "lock"]
        /\ phase' = IF cmd \in {"start", "stop"} THEN "changing" ELSE phase
    BY <1>9, Zenon DEF do_xc_reserved_op, Call
  <2>2. ASSUME NEW d \in Cpu, d # c PROVE Undone(d)' = Undone(d)
    BY <2>1, <2>2 DEF Undone, Left, Performed, TodoInv
  <2>3. cmd = "stop" => Undone(c)' = 6
    BY <2>1, StopsShape, Zenon DEF Undone, Left, Performed, Program, TodoInv
  <2>4. \A d \in Cpu : ctx[d] \in {"start", "stop"} => d = c
    BY <1>9 DEF do_xc_reserved_op, Command
  <2>5. QED
    BY <2>1, <2>2, <2>3, <2>4, SMTT(60) DEF StopInv
<1>10. ASSUME NEW c \in Cpu, Return(c) PROVE StopInv'
  <2>1. /\ ctx' = [ctx EXCEPT ![c] = "none"] /\ UNCHANGED <<pmc, counting>>
        /\ phase' = CASE ctx[c] = "start" -> "on"
                      [] ctx[c] = "stop" -> "off"
                      [] OTHER -> phase
    BY <1>10, Zenon DEF Return
  <2>2. ASSUME NEW d \in Cpu, d # c PROVE Undone(d)' = Undone(d)
    BY <1>10, <2>2 DEF Return, Undone, Left, Performed, TodoInv
  <2>3. CASE ctx[c] \in {"start", "stop"}
    <3>1. \A d \in Cpu : ctx'[d] \notin {"start", "stop"}
      BY <2>1, <2>3 DEF Command
    <3>2. Undone(c) = 0
      BY <1>10, TodoLen, Zenon DEF Return, Undone, Left, Performed
    <3>3. ctx[c] = "stop" => counting = {} /\ pmc[1] = 0 /\ pmc[3] = 0
      BY <3>2 DEF StopInv, CountInv, Msr
    <3>4. QED
      BY <2>1, <2>3, <3>1, <3>3, Zenon DEF StopInv
  <2>4. CASE ctx[c] \notin {"start", "stop"}
    BY <2>1, <2>2, <2>4, StopKept
  <2>5. QED
    BY <2>3, <2>4, Zenon
<1>11. ASSUME NEW c \in Cpu, SpinLock(c) PROVE StopInv'
  <2>1. ASSUME NEW d \in Cpu, ctx'[d] \in {"start", "stop"}
        PROVE  ctx'[d] = ctx[d] /\ Undone(d)' = Undone(d)
    BY <1>11, <2>1 DEF SpinLock, Undone, Left, Performed
  <2>2. UNCHANGED <<pmc, counting, phase>>
    BY <1>11, Zenon DEF SpinLock
  <2>3. QED
    BY <2>1, <2>2, StopKept, Zenon
<1>12. ASSUME NEW c \in Cpu, Send(c) PROVE StopInv'
  <2>1. pc[c] = "send" /\ pc' = [pc EXCEPT ![c] = "wait"]
          /\ UNCHANGED <<ctx, handling, phase>>
    BY <1>12, Zenon DEF Send
  <2>2. ~ Performed(c)
    BY <2>1, Zenon DEF Performed
  <2>3. CASE c = Target
    <3>1. Perform(c) /\ selected' = {}
      BY <1>12, <2>3, Zenon DEF Send
    <3>2. Performed(c)'
      BY <2>1, <3>1 DEF Performed
    <3>3. \A d \in Cpu \ {c} : ~ Performed(d) /\ ~ Performed(d)'
      BY <2>1, OneCaller, SMTT(60) DEF Performed
    <3>4. QED
      BY <2>1, <2>2, <3>1, <3>2, <3>3, PerformStop, Zenon
  <2>4. CASE c # Target
    <3>1. selected = {} /\ selected' = {Target} /\ UNCHANGED <<pmu, locals>>
      BY <1>12, <2>1, <2>4, OneCaller, Zenon DEF Send, Mask
    <3>2. ASSUME NEW d \in Cpu PROVE Undone(d)' = Undone(d)
      BY <2>1, <3>1, OneCaller, Zenon DEF Undone, Left, Performed
    <3>3. QED
      BY <2>1, <3>1, <3>2, SMTT(60) DEF StopInv
  <2>5. QED
    BY <2>3, <2>4, Zenon
<1>13. ASSUME NEW c \in Cpu, Unlock(c) PROVE StopInv'
  <2>1. /\ UNCHANGED <<pmc, counting, ctx, phase, selected, handling>> /\ selected = {}
        /\ pc[c] = "wait" /\ todo' = [todo EXCEPT ![c] = Tail(todo[c])]
        /\ pc' = [pc EXCEPT ![c] = IF Len(todo[c]) > 1 THEN "lock" ELSE "done"]
    BY <1>13, Zenon DEF Unlock
  <2>2. Left(c)' = Left(c) - 1
    BY <2>1, TodoLen DEF Left, TodoInv
  <2>3. ASSUME NEW d \in Cpu PROVE Undone(d)' = Undone(d)
    <3>1. CASE d = c
      <4>1. Performed(c) /\ ~ Performed(c)'
        BY <2>1 DEF Performed
      <4>2. QED
        BY <2>2, <3>1, <4>1, Zenon DEF Undone
    <3>2. CASE d # c
      BY <2>1, <3>2 DEF Undone, Left, Performed, TodoInv
    <3>3. QED
      BY <3>1, <3>2, Zenon
  <2>4. QED
    BY <2>1, <2>3, StopKept, Zenon
<1>14. ASSUME UNCHANGED vars PROVE StopInv'
  BY <1>14, Zenon DEF vars, StopInv, Undone, Performed, Left
<1>15. QED
  BY <1>1, <1>2, <1>3, <1>4, <1>5, <1>6, <1>7, <1>8, <1>9, <1>10, <1>11, <1>12,
     <1>13, <1>14, Zenon DEF Next, smp_call_function_interrupt, on_selected_cpus

\* The invariants hold when no call has been made.
LEMMA CallsInit ==
  ASSUME Init
  PROVE  CallInv /\ FlagsOK /\ TodoInv /\ CountInv /\ StopInv
<1>1. CallInv
  BY CpuAssumption, Zenon DEF Init, CallInv, Place, Command
<1>2. FlagsOK
  <2>1. irq \in [Cpu -> BOOLEAN]
    BY Zenon DEF Init
  <2>2. QED
    BY <2>1, Zenon DEF Init, FlagsOK
<1>3. TodoInv
  <2>1. todo \in [Cpu -> Seq(Request)]
    BY DEF Init
  <2>2. ASSUME NEW c \in Cpu PROVE TodoOf(c)
    <3>1. todo[c] = <<>> /\ pc[c] = "run"
      BY Zenon DEF Init
    <3>2. Len(Program(ctx[c])) \in Nat
      BY ProgramIsSeq
    <3>3. Len(todo[c]) = 0
      BY <3>1
    <3>4. QED
      BY <3>1, <3>2, <3>3 DEF TodoOf
  <2>3. QED
    BY <2>1, <2>2, Zenon DEF TodoInv
<1>4. CountInv
  BY BoundAssumption, SMTT(60) DEF Init, CountInv, CountOf, Performed, Reading,
     Msr
<1>5. StopInv
  BY Zenon DEF Init, StopInv, Msr
<1>6. QED
  BY <1>1, <1>2, <1>3, <1>4, <1>5, Zenon

\* Every step keeps the interrupt flags and the phase typed.
LEMMA FlagsStep ==
  ASSUME FlagsOK, [Next]_vars PROVE FlagsOK'
<1> USE DEF FlagsOK
<1>1. ASSUME NEW m \in Msr, Retire(m) PROVE FlagsOK'
  BY <1>1, Zenon DEF Retire
<1>2. ASSUME Interrupt PROVE FlagsOK'
  BY <1>2, Zenon DEF Interrupt
<1>3. ASSUME RunFunction PROVE FlagsOK'
  BY <1>3, Zenon DEF RunFunction
<1>4. ASSUME ClearSelected PROVE FlagsOK'
  BY <1>4, Zenon DEF ClearSelected
<1>5. ASSUME NEW c \in Cpu, VmExit(c) PROVE FlagsOK'
  BY <1>5, Zenon DEF VmExit
<1>6. ASSUME NEW c \in Cpu, EnableInterrupts(c) PROVE FlagsOK'
  BY <1>6, Zenon DEF EnableInterrupts
<1>7. ASSUME NEW c \in Cpu, Dispatch(c) PROVE FlagsOK'
  BY <1>7, Zenon DEF Dispatch
<1>8. ASSUME NEW c \in Cpu, PagingLock(c) PROVE FlagsOK'
  BY <1>8, Zenon DEF PagingLock
<1>9. ASSUME NEW c \in Cpu, NEW cmd \in Command, do_xc_reserved_op(c, cmd) PROVE FlagsOK'
  BY <1>9, Zenon DEF do_xc_reserved_op
<1>10. ASSUME NEW c \in Cpu, Return(c) PROVE FlagsOK'
  BY <1>10, Zenon DEF Return
<1>11. ASSUME NEW c \in Cpu, SpinLock(c) PROVE FlagsOK'
  BY <1>11, Zenon DEF SpinLock
<1>12. ASSUME NEW c \in Cpu, Send(c) PROVE FlagsOK'
  BY <1>12, Zenon DEF Send
<1>13. ASSUME NEW c \in Cpu, Unlock(c) PROVE FlagsOK'
  BY <1>13, Zenon DEF Unlock
<1>14. ASSUME UNCHANGED vars PROVE FlagsOK'
  BY <1>14, Zenon DEF vars, call_data, pmu, locals
<1>15. QED
  BY <1>1, <1>2, <1>3, <1>4, <1>5, <1>6, <1>7, <1>8, <1>9, <1>10, <1>11, <1>12,
     <1>13, <1>14, Zenon DEF Next, smp_call_function_interrupt, on_selected_cpus

\* The inductive invariant of the calls always holds: call_data belongs to the
\* holder of call_lock, a caller has the last requests of its function left, and
\* what it has added up lies within what the counters had.
THEOREM CallsInvariant == Spec => [](CallInv /\ TodoInv /\ CountInv)
<1>1. Init => CallInv /\ TodoInv /\ CountInv
  BY CallsInit, Zenon
<1>2. CallInv /\ TodoInv /\ CountInv /\ [Next]_vars => (CallInv /\ TodoInv /\ CountInv)'
  BY CallStep, TodoStep, CountStep, Zenon
<1>3. QED
  BY <1>1, <1>2, PTL DEF Spec

\* Type correctness of on_selected_cpus and its callers.
THEOREM CallsTypeCorrect == Spec => []TypeOK
<1>1. Init => FlagsOK
  BY CallsInit, Zenon
<1>2. FlagsOK /\ [Next]_vars => FlagsOK'
  BY FlagsStep, Zenon
<1>3. ASSUME CallInv, TodoInv, CountInv, FlagsOK PROVE TypeOK
  <2>1. ASSUME NEW c \in Cpu PROVE Len(todo[c]) <= 6
    <3>1. Len(todo[c]) \in Nat /\ Len(Program(ctx[c])) \in 1 .. 6
      BY <1>3, TodoLen, ProgramIsSeq, Zenon
    <3>2. Len(todo[c]) <= Len(Program(ctx[c]))
      BY <1>3, Zenon DEF TodoInv, TodoOf
    <3>3. \A p \in Nat, q \in 1 .. 6 : p <= q => p <= 6
      OBVIOUS
    <3>4. QED
      BY <3>1, <3>2, <3>3, Zenon
  <2>2. QED
    BY <1>3, <2>1, Zenon DEF TypeOK, CallInv, CountInv, FlagsOK, Place
<1>4. QED
  BY <1>1, <1>2, <1>3, CallsInvariant, PTL DEF Spec

\* pmu_mem_return returns a count that the target had between the call and the
\* return, unless the counters were cleared meanwhile: for any number of
\* processors reading through the one call_data, and any counts.
THEOREM ReadsWithinCall == Spec => []CountWithinCall
<1>1. ASSUME CallInv, TodoInv, CountInv PROVE CountWithinCall
  <2>1. SUFFICES ASSUME NEW c \in Cpu, pc[c] = "done", Program(ctx[c]) = Reads,
                        began[c] >= 0
                 PROVE  began[c] <= sum[c] /\ sum[c] <= Total
    BY Zenon DEF CountWithinCall
  <2>2. ctx[c] \in Reading
    <3>1. Len(Reads) = 2 /\ Len(Stops) = 6 /\ Len(Starts) = 6 /\ Len(Debugs) = 1
      BY ReadsShape, StopsShape, StartsLen, DebugsShape, Zenon
    <3>2. ctx[c] \in Reading \cup {"start", "stop", "debug"}
      BY <1>1, <2>1, Zenon DEF CallInv, Reading, Command
    <3>3. QED
      BY <2>1, <3>1, <3>2 DEF Program
  <2>3. Left(c) = 0 /\ ~ Performed(c)
    BY <1>1, <2>1, TodoLen, Zenon DEF Left, Performed
  <2>4. QED
    BY <1>1, <2>1, <2>2, <2>3, Zenon DEF CountInv, CountOf, Total
<1>2. QED
  BY <1>1, CallsInvariant, PTL

\* After stop_pmu with cleaning up has returned the counters are zero until the
\* next start_pmu, for a dom0 that gives one command at a time.  Nothing in
\* do_xc_reserved_op keeps two processors from doing so at once: the requests of
\* a start and of a stop would then be mixed, and the counters could be left on.
THEOREM StoppedStaysZero ==
  ASSUME \A c, d \in Cpu \ Guest : c = d
  PROVE  Spec => []StoppedMeansZero
<1>1. Init => StopInv
  BY CallsInit, Zenon
<1>2. CallInv /\ TodoInv /\ CountInv /\ StopInv /\ [Next]_vars => StopInv'
  BY StopStep, Zenon
<1>3. StopInv => StoppedMeansZero
  BY DEF StopInv, StoppedMeansZero, Total
<1>4. QED
  BY <1>1, <1>2, <1>3, CallsInvariant, PTL DEF Spec
=============================================================================
