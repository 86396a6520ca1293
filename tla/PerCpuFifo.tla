----------------------------- MODULE PerCpuFifo ----------------------------
(***************************************************************************)
(* The per-CPU FIFO policy, modules/fifo_benchs/fifo.c (the same file is   *)
(* modules/saakm_central/fifo.c): one runqueue per core, a quantum counted *)
(* at each tick, no load balancing.                                        *)
(*                                                                         *)
(* One action is one event handler; SaaKM delivers an event with the lock  *)
(* of the core (or of the thread, for *_prepare) held, so a handler is     *)
(* atomic and what interleaves are the handlers: the two phases of a       *)
(* placement, ticks, schedules, migrations and hotplug on several CPUs.    *)
(*                                                                         *)
(* A definition introduced by "mutant" is a wrong variant of the one after *)
(* it, which the properties must reject; the specification does not use it.*)
(***************************************************************************)
EXTENDS SaakmCore

CONSTANTS
  Pid,          \* [Tasks -> Nat], p->pid
  Quantum,      \* QUANTUM_NS, in clock units
  HotplugCpus,  \* bound: the CPUs that may go down and come back
  MaxTickGap    \* bound: the clock advances by 1 .. MaxTickGap between ticks

ASSUME PidAssumption == Pid \in [Tasks -> Nat]
ASSUME HotplugAssumption == HotplugCpus \subseteq Cpus
ASSUME QuantumAssumption == Quantum \in Nat \ {0} /\ MaxTickGap \in Nat \ {0}

VARIABLES
  fp,        \* [Tasks -> struct fifo_process], fields state and rq
  quantum,   \* [Tasks -> Nat], fp->current_quantum_ns
  ran,       \* [Cpus -> Nat], time of the last tick minus fp->last_sched_ns of
             \* the running thread; 0 when none runs (last_sched_ns is not read)
  fcur,      \* [Cpus -> Tasks \cup {Null}], fc->_current
  cstate,    \* [Cpus -> core state], fc->state
  onlineCores \* the cpumask online_cores

policyVars == <<fp, quantum, ran, fcur, cstate, onlineCores>>
vars == <<coreVars, policyVars>>

ProcessState == ThreadState \cup {"READY_TICK"}

(* policy_metadata is not allocated, or was freed.                         *)
NoProcess == [state |-> "FREED", rq |-> Null]

Process == [state : ProcessState, rq : Cpus \cup {Null}] \cup {NoProcess}

CoreState == {"ACTIVE", "IDLE"}

-----------------------------------------------------------------------------
NumOnlineCpus == Cardinality(online)

SelectCpu(t, prevCpu, wfExec) ==
  IF wfExec THEN prevCpu ELSE Pid[t] % NumOnlineCpus

(* current_quantum_ns after a tick, gap after the previous one (or after   *)
(* the thread was scheduled): now - last_sched_ns is added at each tick,   *)
(* and last_sched_ns is not moved by a tick.                               *)
\* mutant: the operands of the subtraction swapped
UsedBackwards(t, c, gap) == quantum[t] - (ran[c] + gap)
\* mutant: assigned instead of accumulated
UsedInLastGap(t, c, gap) == gap
Used(t, c, gap) == quantum[t] + (ran[c] + gap)

(* The thread schedule picks: the head of the runqueue of the core.        *)
\* mutant: the tail instead of the head
NewestTask(c) == IF rq[c] = <<>> THEN Null ELSE Last(rq[c])
NextTask(c) == FirstTask(rq[c])

(* fifo_enqueue_task: cpu is task_cpu of t.                                *)
\* mutant: fp->rq not recorded
EnqueueForgetsRq(t, cpu, nextRq, state) ==
  /\ fcur' = IF state = "READY_TICK" THEN [fcur EXCEPT ![cpu] = Null] ELSE fcur
  /\ fp' = [fp EXCEPT ![t].state = state]
  /\ ChangeState(t, state, cpu, nextRq)
EnqueueTask(t, cpu, nextRq, state) ==
  /\ fcur' = IF state = "READY_TICK" THEN [fcur EXCEPT ![cpu] = Null] ELSE fcur
  /\ fp' = [fp EXCEPT ![t] = [state |-> state, rq |-> nextRq]]
  /\ ChangeState(t, state, cpu, nextRq)

Init ==
  /\ CoreInit(Cpus)
  /\ fp = [t \in Tasks |-> NoProcess]
  /\ quantum = [t \in Tasks |-> 0]
  /\ ran = [c \in Cpus |-> 0]
  /\ fcur = [c \in Cpus |-> Null]
  /\ cstate = [c \in Cpus |-> "ACTIVE"]
  /\ onlineCores = Cpus

(* The thread of a core that no longer has a current stops running.        *)
StopClock == ran' = [c \in Cpus |-> IF curr'[c] = Null THEN 0 ELSE ran[c]]

-----------------------------------------------------------------------------
(* Thread events.                                                          *)

(* A thread is forked (or executes a new image, wfExec), or switches to    *)
(* the class.  When kzalloc fails the handler returns -1 before any change *)
(* and the thread does not enter the class: a step that changes nothing.   *)
NewPrepare(t, wfExec) ==
  /\ st[t] \in {"NOT_QUEUED", "TERMINATED"}
  /\ target[t] = Null
  /\ st' = [st EXCEPT ![t] = "NOT_QUEUED"]
  /\ fp' = [fp EXCEPT ![t] = [state |-> "NOT_QUEUED", rq |-> Null]]
  /\ quantum' = [quantum EXCEPT ![t] = 0]
  /\ \E c \in AllowedTargets(SelectCpu(t, tcpu[t], wfExec)) :
       target' = [target EXCEPT ![t] = c]
  /\ UNCHANGED <<tcpu, rq, curr, online, active, ran, fcur, cstate, onlineCores>>

(* The kernel sets task_cpu to the CPU chosen, then delivers *_place.      *)
Place(t, from) ==
  /\ st[t] = from
  /\ target[t] # Null
  /\ tcpu' = [tcpu EXCEPT ![t] = target[t]]
  /\ target' = [target EXCEPT ![t] = Null]
  /\ EnqueueTask(t, target[t], target[t], "READY")
  /\ UNCHANGED <<online, active, quantum, ran, cstate, onlineCores>>

NewPlace(t) == Place(t, "NOT_QUEUED")

UnblockPlace(t) == Place(t, "BLOCKED")

UnblockPrepare(t) ==
  /\ st[t] = "BLOCKED"
  /\ target[t] = Null
  /\ \E c \in AllowedTargets(SelectCpu(t, tcpu[t], FALSE)) :
       target' = [target EXCEPT ![t] = c]
  /\ UNCHANGED <<st, tcpu, rq, curr, online, active, policyVars>>

(* The timer tick of c.                                                    *)
Tick(c, gap) ==
  LET t == curr[c]
      used == Used(t, c, gap)
  IN
  /\ c \in online
  /\ t # Null
  /\ \/ /\ used >= Quantum
        /\ ran' = [ran EXCEPT ![c] = 0]
        /\ quantum' = [quantum EXCEPT ![t] = 0]
        /\ EnqueueTask(t, tcpu[t], tcpu[t], "READY_TICK")
     \/ /\ used < Quantum
        /\ ran' = [ran EXCEPT ![c] = @ + gap]
        /\ quantum' = [quantum EXCEPT ![t] = used]
        /\ UNCHANGED <<st, rq, curr, fp, fcur>>
  /\ UNCHANGED <<tcpu, target, online, active, cstate, onlineCores>>

(* sched_yield(), or the kernel preempts the current thread of c.          *)
Yield(c) ==
  LET t == curr[c] IN
  /\ c \in online
  /\ t # Null
  /\ EnqueueTask(t, tcpu[t], tcpu[t], "READY")
  /\ StopClock
  /\ UNCHANGED <<tcpu, target, online, active, quantum, cstate, onlineCores>>

(* fifo_block.                                                             *)
\* mutant: fp->rq passed to change_state instead of NULL
BlockKeepsRq(t) ==
  /\ fp' = [fp EXCEPT ![t] = [state |-> "BLOCKED", rq |-> Null]]
  /\ fcur' = [fcur EXCEPT ![tcpu[t]] = Null]
  /\ ChangeState(t, "BLOCKED", tcpu[t], fp[t].rq)
  /\ StopClock
  /\ UNCHANGED <<tcpu, online, active, quantum, cstate, onlineCores>>
BlockTask(t) ==
  /\ fp' = [fp EXCEPT ![t] = [state |-> "BLOCKED", rq |-> Null]]
  /\ fcur' = [fcur EXCEPT ![tcpu[t]] = Null]
  /\ ChangeState(t, "BLOCKED", tcpu[t], Null)
  /\ StopClock
  /\ UNCHANGED <<tcpu, online, active, quantum, cstate, onlineCores>>

Block(t) ==
  /\ st[t] = "RUNNING"
  /\ BlockTask(t)
  /\ UNCHANGED target

(* An affinity change or a CPU going down moves a queued or running thread *)
(* to another CPU (OUSTED): SaaKM delivers block, and unblock_place there. *)
Oust(t, cpu) ==
  /\ st[t] \in {"READY", "RUNNING"}
  /\ cpu \in active \ {tcpu[t]}
  /\ BlockTask(t)
  /\ target' = [target EXCEPT ![t] = cpu]

(* The thread dies, or switches to another scheduling class.               *)
Terminate(t) ==
  /\ st[t] \in {"READY", "RUNNING", "BLOCKED"}
  /\ target[t] = Null
  /\ fcur' = IF fp[t].state = "RUNNING"
             THEN [fcur EXCEPT ![tcpu[t]] = Null] ELSE fcur
  /\ ChangeState(t, "TERMINATED", tcpu[t], Null)
  /\ fp' = [fp EXCEPT ![t] = NoProcess]
  /\ StopClock
  /\ UNCHANGED <<tcpu, target, online, active, quantum, cstate, onlineCores>>

(* fifo_schedule on a core with a thread to run; without one it returns.   *)
Schedule(c) ==
  LET next == NextTask(c) IN
  /\ c \in online
  /\ curr[c] = Null
  /\ next # Null
  /\ fp' = [fp EXCEPT ![next] = [state |-> "RUNNING", rq |-> Null]]
  /\ quantum' = [quantum EXCEPT ![next] = 0]
  /\ ran' = [ran EXCEPT ![c] = 0]
  /\ fcur' = [fcur EXCEPT ![c] = next]
  /\ ChangeState(next, "RUNNING", tcpu[next], Null)
  /\ UNCHANGED <<tcpu, target, online, active, cstate, onlineCores>>

-----------------------------------------------------------------------------
(* Core events.                                                            *)

(* schedule found nothing; newly_idle does nothing; then enter_idle.       *)
EnterIdle(c) ==
  /\ c \in online
  /\ curr[c] = Null /\ rq[c] = <<>>
  /\ cstate[c] = "ACTIVE"
  /\ cstate' = [cstate EXCEPT ![c] = "IDLE"]
  /\ UNCHANGED <<coreVars, fp, quantum, ran, fcur, onlineCores>>

ExitIdle(c) ==
  /\ c \in online
  /\ rq[c] # <<>>
  /\ cstate[c] = "IDLE"
  /\ cstate' = [cstate EXCEPT ![c] = "ACTIVE"]
  /\ UNCHANGED <<coreVars, fp, quantum, ran, fcur, onlineCores>>

(* c starts to go down: the kernel no longer places threads on it, but it  *)
(* is still counted as online, and still runs, until it is empty.          *)
CoreExit(c) ==
  /\ c \in HotplugCpus \cap active
  /\ active # {c}
  /\ active' = active \ {c}
  /\ cstate' = [cstate EXCEPT ![c] = "IDLE"]
  /\ onlineCores' = onlineCores \ {c}
  /\ UNCHANGED <<st, tcpu, rq, curr, target, online, fp, quantum, ran, fcur>>

CpuDead(c) ==
  /\ c \in online \ active
  /\ Drained(c)
  /\ online' = online \ {c}
  /\ UNCHANGED <<st, tcpu, rq, curr, target, active, policyVars>>

CoreEntry(c) ==
  /\ c \notin online
  /\ online' = online \cup {c}
  /\ active' = active \cup {c}
  /\ cstate' = [cstate EXCEPT ![c] = "ACTIVE"]
  /\ onlineCores' = onlineCores \cup {c}
  /\ UNCHANGED <<st, tcpu, rq, curr, target, fp, quantum, ran, fcur>>

-----------------------------------------------------------------------------
TickOf(c) == \E gap \in 1..MaxTickGap : Tick(c, gap)

TaskNext(t) ==
  \/ \E wfExec \in BOOLEAN : NewPrepare(t, wfExec)
  \/ NewPlace(t)
  \/ UnblockPrepare(t)
  \/ UnblockPlace(t)
  \/ Block(t)
  \/ \E c \in Cpus : Oust(t, c)
  \/ Terminate(t)

CpuNext(c) ==
  \/ TickOf(c)
  \/ Yield(c)
  \/ Schedule(c)
  \/ EnterIdle(c)
  \/ ExitIdle(c)
  \/ CoreExit(c)
  \/ CpuDead(c)
  \/ CoreEntry(c)

Next ==
  \/ \E t \in Tasks : TaskNext(t)
  \/ \E c \in Cpus : CpuNext(c)

Spec == Init /\ [][Next]_vars

(* The timer of a CPU keeps ticking while a thread runs there; a CPU that  *)
(* gave up its thread calls schedule; a placement begun is completed.      *)
Fairness ==
  /\ \A c \in Cpus : WF_vars(TickOf(c)) /\ WF_vars(Schedule(c))
  /\ \A t \in Tasks : WF_vars(NewPlace(t) \/ UnblockPlace(t))

FairSpec == Spec /\ Fairness

-----------------------------------------------------------------------------
TypeOK ==
  /\ st \in [Tasks -> ThreadState]
  /\ tcpu \in [Tasks -> Cpus]
  /\ rq \in [Cpus -> Seq(Tasks)]
  /\ curr \in [Cpus -> Tasks \cup {Null}]
  /\ target \in [Tasks -> Cpus \cup {Null}]
  /\ online \subseteq Cpus /\ active \subseteq online
  /\ fp \in [Tasks -> Process]
  /\ quantum \in [Tasks -> Nat]
  /\ ran \in [Cpus -> Nat]
  /\ fcur \in [Cpus -> Tasks \cup {Null}]
  /\ cstate \in [Cpus -> CoreState]
  /\ onlineCores \subseteq Cpus

-----------------------------------------------------------------------------
(* Every thread is exactly where its state says: a READY thread is queued  *)
(* once, in the runqueue of its own CPU; a RUNNING thread is the current   *)
(* of its own CPU and of no other; any other thread is nowhere.  fifo.c    *)
(* relies on it when schedule passes task_cpu(next) rather than cpu to     *)
(* change_state (lines 319-334), and when tick and yield requeue on        *)
(* task_cpu (lines 227, 238).                                              *)
Placement == Placed

(* The state and runqueue the policy records in struct fifo_process agree  *)
(* with the kernel's, through every handler and every migration, and a     *)
(* thread the kernel queues or runs has a struct that was not freed (the   *)
(* handlers and the debug file dereference it unconditionally).            *)
MetadataAgrees ==
  \A t \in Tasks :
    /\ st[t] = "READY" => fp[t].state \in {"READY", "READY_TICK"} /\ fp[t].rq = tcpu[t]
    /\ st[t] \in {"RUNNING", "BLOCKED"} => fp[t] = [state |-> st[t], rq |-> Null]
    /\ st[t] = "NOT_QUEUED" => fp[t].state \in {"NOT_QUEUED", "FREED"}
    /\ st[t] = "TERMINATED" => fp[t] = NoProcess

(* A running thread is never left on the CPU by a tick with its quantum    *)
(* used: the counter stays below QUANTUM_NS and never undercounts the time *)
(* the thread really ran since it was scheduled (lines 215-229).           *)
QuantumNeverOverrun ==
  \A c \in Cpus : curr[c] # Null =>
    /\ ran[c] <= quantum[curr[c]]
    /\ quantum[curr[c]] < Quantum

(* While a CPU is out of the online mask nothing is queued on it, runs on  *)
(* it or is on its way to it, even though select_cpu picks CPUs from       *)
(* num_online_cpus() alone (line 133) and a placement spans two steps.     *)
NothingOnDeadCpu ==
  /\ \A c \in Cpus \ online : curr[c] = Null /\ rq[c] = <<>>
  /\ \A t \in Tasks : target[t] # Null => target[t] \in online

-----------------------------------------------------------------------------
(* Whatever the handlers' bookkeeping, the policy serves the runqueue of   *)
(* each core first-in first-out (FifoLines).                               *)
Lines == INSTANCE FifoLines WITH
  Lines <- Cpus, LineOf <- [c \in Cpus |-> c], line <- rq, serving <- curr

ServesInOrder == Lines!Spec

(* No READY thread waits for ever: it runs, or leaves the runqueue because *)
(* it terminates or is moved.  The quantum makes every thread ahead of it  *)
(* give the CPU back.                                                      *)
NoStarvation == \A t \in Tasks : (st[t] = "READY") ~> (st[t] # "READY")

=============================================================================
