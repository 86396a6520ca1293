------------------------------- MODULE Central -----------------------------
(***************************************************************************)
(* The central policy, modules/saakm_central/saakm_central.c: select_cpu   *)
(* always returns CPU 0, whose runqueue is "the central runqueue".  Each   *)
(* CPU schedules from a runqueue of its own; those of the other CPUs hold  *)
(* only threads the kernel has moved there.                                *)
(*                                                                         *)
(* Handlers are one action, but for entry_idle and exit_idle: they hold    *)
(* the lock of their core, and the two idle masks belong to all the cores. *)
(* A step there is one bit of a mask, or one access to a word of it.       *)
(* newly_idle and balancing_select do nothing.                             *)
(***************************************************************************)
EXTENDS SaakmCore

CONSTANTS
  Siblings,     \* [Cpus -> SUBSET Cpus], cpu_smt_mask(cpu)
  Slice,        \* DEFAULT_SLICE, in clock units
  Times,        \* bound: what ktime_get_ns() returns at a tick
  HotplugCpus   \* bound: the CPUs that may go down and come back

ASSUME SiblingsAssumption ==
  /\ Siblings \in [Cpus -> SUBSET Cpus] /\ \A c \in Cpus : c \in Siblings[c]
  /\ HotplugCpus \subseteq Cpus

(* The clock counts from the boot, and a slice is two milliseconds: the    *)
(* machine has been up for longer when a thread of the class ticks.        *)
ASSUME ClockAssumption ==
  Slice \in Nat \ {0} /\ Times \subseteq Nat /\ \A now \in Times : now >= Slice

VARIABLES
  ce,           \* [Tasks -> struct central_entity], fields state and rq
  slice,        \* [Tasks -> Nat], ce->current_slice_ns
  entity,       \* [Cpus -> Tasks \cup {Null}], cc->current_entity
  cstate,       \* [Cpus -> core state], cc->state
  idle, smt,    \* the cpumasks central_idle_cpus.cpus and central_idle_cpus.smt
  pc,           \* [Cpus -> where the CPU is in entry_idle or exit_idle]
  word,         \* [Cpus -> SUBSET Cpus], what it has read of smt
  oops          \* the CPU that has dereferenced a NULL pointer, or Null

masks == <<idle, smt, pc, word>>
policyVars == <<ce, slice, entity, cstate, masks, oops>>
vars == <<coreVars, policyVars>>

NoEntity == [state |-> "FREED", rq |-> Null]
Entity == [state : {"READY", "READY_TICK"}, rq : Cpus] \cup {NoEntity}
            \cup [state : {"NOT_QUEUED", "RUNNING", "BLOCKED"}, rq : {Null}]
CoreState == {"ACTIVE", "IDLE"}
IdlePc == {"out", "subset", "or", "orStore", "andnot", "andnotStore"}

-----------------------------------------------------------------------------
CentralCpu == 0

SelectCpu(prevCpu) == CentralCpu

(* ce->current_slice_ns after a tick: now - current_slice_ns is added.     *)
Used(t, now) == slice[t] + (now - slice[t])

(* What saakm_first_task returns to schedule.                              *)
\* mutant: the tail instead of the head
NewestTask(c) == IF rq[c] = <<>> THEN Null ELSE Last(rq[c])
NextTask(c) == FirstTask(rq[c])

(* schedule returns when it has found no thread, except on the central CPU.*)
ReturnsWithoutThread(c) == c # CentralCpu

(* The kernel runs, and the lock of c's runqueue is free.                  *)
CoreFree(c) == oops = Null /\ pc[c] = "out"

(* central_enqueue_task; the current_entity is that of the central CPU.    *)
\* mutant: the runqueue of the central CPU, whichever the caller gives
EnqueueCentrally(t, nextRq, state) ==
  /\ ce' = [ce EXCEPT ![t] = [state |-> state, rq |-> nextRq]]
  /\ entity' = IF state = "READY_TICK" THEN [entity EXCEPT ![CentralCpu] = Null] ELSE entity
  /\ ChangeState(t, state, CentralCpu, CentralCpu)
EnqueueTask(t, nextRq, state) ==
  /\ ce' = [ce EXCEPT ![t] = [state |-> state, rq |-> nextRq]]
  /\ entity' = IF state = "READY_TICK" THEN [entity EXCEPT ![CentralCpu] = Null] ELSE entity
  /\ ChangeState(t, state, CentralCpu, nextRq)

Init ==
  /\ CoreInit(Cpus)
  /\ ce = [t \in Tasks |-> NoEntity]
  /\ slice = [t \in Tasks |-> 0]
  /\ entity = [c \in Cpus |-> Null]
  /\ cstate = [c \in Cpus |-> "ACTIVE"]
  /\ idle = {} /\ smt = {}
  /\ pc = [c \in Cpus |-> "out"]
  /\ word = [c \in Cpus |-> {}]
  /\ oops = Null

-----------------------------------------------------------------------------
(* Thread events.                                                          *)

NewPrepare(t) ==
  /\ oops = Null
  /\ st[t] \in {"NOT_QUEUED", "TERMINATED"}
  /\ target[t] = Null
  /\ st' = [st EXCEPT ![t] = "NOT_QUEUED"]
  /\ ce' = [ce EXCEPT ![t] = [state |-> "NOT_QUEUED", rq |-> Null]]
  /\ slice' = [slice EXCEPT ![t] = 0]
  /\ \E c \in AllowedTargets(SelectCpu(tcpu[t])) : target' = [target EXCEPT ![t] = c]
  /\ UNCHANGED <<tcpu, rq, curr, online, active, entity, cstate, masks, oops>>

(* new_place and unblock_place: task_cpu is set, the thread is queued.     *)
Place(t, from) ==
  /\ st[t] = from
  /\ target[t] # Null
  /\ CoreFree(target[t])
  /\ tcpu' = [tcpu EXCEPT ![t] = target[t]]
  /\ target' = [target EXCEPT ![t] = Null]
  /\ EnqueueTask(t, target[t], "READY")
  /\ UNCHANGED <<online, active, slice, cstate, masks, oops>>

NewPlace(t) == Place(t, "NOT_QUEUED")

UnblockPlace(t) == Place(t, "BLOCKED")

UnblockPrepare(t) ==
  /\ oops = Null
  /\ st[t] = "BLOCKED"
  /\ target[t] = Null
  /\ \E c \in AllowedTargets(SelectCpu(tcpu[t])) : target' = [target EXCEPT ![t] = c]
  /\ UNCHANGED <<st, tcpu, rq, curr, online, active, policyVars>>

Tick(c, now) ==
  LET t == curr[c]
      expired == Used(t, now) >= Slice
  IN
  /\ c \in online
  /\ t # Null
  /\ CoreFree(c)
  /\ slice' = [slice EXCEPT ![t] = IF expired THEN 0 ELSE Used(t, now)]
  /\ IF expired THEN EnqueueTask(t, tcpu[t], "READY_TICK")
                ELSE UNCHANGED <<st, rq, curr, ce, entity>>
  /\ UNCHANGED <<tcpu, target, online, active, cstate, masks, oops>>

(* sched_yield(), or the kernel preempts the current thread of c.          *)
Yield(c) ==
  LET t == curr[c] IN
  /\ c \in online
  /\ t # Null
  /\ CoreFree(c)
  /\ EnqueueTask(t, tcpu[t], "READY")
  /\ UNCHANGED <<tcpu, target, online, active, slice, cstate, masks, oops>>

\* mutant: the thread is not taken out of its runqueue
BlockKeepsRq(t) ==
  /\ CoreFree(tcpu[t])
  /\ ce' = [ce EXCEPT ![t].state = "BLOCKED"]
  /\ entity' = [entity EXCEPT ![tcpu[t]] = Null]
  /\ ChangeState(t, "BLOCKED", tcpu[t], ce[t].rq)
  /\ UNCHANGED <<tcpu, online, active, slice, cstate, masks, oops>>
BlockTask(t) ==
  /\ CoreFree(tcpu[t])
  /\ ce' = [ce EXCEPT ![t] = [state |-> "BLOCKED", rq |-> Null]]
  /\ entity' = [entity EXCEPT ![tcpu[t]] = Null]
  /\ ChangeState(t, "BLOCKED", tcpu[t], Null)
  /\ UNCHANGED <<tcpu, online, active, slice, cstate, masks, oops>>

Block(t) ==
  /\ st[t] = "RUNNING"
  /\ BlockTask(t)
  /\ UNCHANGED target

(* An affinity change, or a CPU going down, moves the thread: SaaKM        *)
(* delivers block, and unblock_place on another CPU (OUSTED).              *)
Oust(t, cpu) ==
  /\ st[t] \in {"READY", "RUNNING"}
  /\ cpu \in active \ {tcpu[t]}
  /\ BlockTask(t)
  /\ target' = [target EXCEPT ![t] = cpu]

(* The thread dies, or switches to another scheduling class.               *)
\* mutant: the struct is not freed
TerminateKeepsEntity(t) ==
  /\ st[t] \in {"READY", "RUNNING", "BLOCKED"}
  /\ target[t] = Null
  /\ CoreFree(tcpu[t])
  /\ entity' = IF ce[t].state = "RUNNING"
               THEN [entity EXCEPT ![tcpu[t]] = Null] ELSE entity
  /\ ChangeState(t, "TERMINATED", tcpu[t], Null)
  /\ UNCHANGED <<tcpu, target, online, active, ce, slice, cstate, masks, oops>>
Terminate(t) ==
  /\ st[t] \in {"READY", "RUNNING", "BLOCKED"}
  /\ target[t] = Null
  /\ CoreFree(tcpu[t])
  /\ entity' = IF ce[t].state = "RUNNING"
               THEN [entity EXCEPT ![tcpu[t]] = Null] ELSE entity
  /\ ChangeState(t, "TERMINATED", tcpu[t], Null)
  /\ ce' = [ce EXCEPT ![t] = NoEntity]
  /\ UNCHANGED <<tcpu, target, online, active, slice, cstate, masks, oops>>

(* schedule gives the CPU to next; curr[c] is Null, so that the branch for *)
(* a running thread only prints.                                           *)
\* mutant: the entity recorded for the central CPU
ElectForCentral(c, next) ==
  /\ ce' = [ce EXCEPT ![next] = [state |-> "RUNNING", rq |-> Null]]
  /\ slice' = [slice EXCEPT ![next] = 0]
  /\ entity' = [entity EXCEPT ![CentralCpu] = next]
  /\ ChangeState(next, "RUNNING", c, Null)
  /\ UNCHANGED oops
Elect(c, next) ==
  /\ ce' = [ce EXCEPT ![next] = [state |-> "RUNNING", rq |-> Null]]
  /\ slice' = [slice EXCEPT ![next] = 0]
  /\ entity' = [entity EXCEPT ![c] = next]
  /\ ChangeState(next, "RUNNING", c, Null)
  /\ UNCHANGED oops

Schedule(c) ==
  LET next == NextTask(c) IN
  /\ c \in online
  /\ curr[c] = Null
  /\ CoreFree(c)
  /\ \/ next # Null /\ Elect(c, next)
     \/ /\ next = Null /\ ~ ReturnsWithoutThread(c)
        /\ oops' = c                 \* policy_metadata(NULL)
        /\ UNCHANGED <<st, rq, curr, ce, slice, entity>>
  /\ UNCHANGED <<tcpu, target, online, active, cstate, masks>>

-----------------------------------------------------------------------------
(* Core events.                                                            *)

GoesTo(c, next) == pc' = [pc EXCEPT ![c] = next]

notIdle == <<coreVars, ce, slice, entity, oops>>

(* schedule has found nothing for c and has returned.                      *)
EntryIdle(c) ==
  /\ c \in online
  /\ curr[c] = Null /\ rq[c] = <<>>
  /\ ReturnsWithoutThread(c)
  /\ CoreFree(c)
  /\ cstate[c] = "ACTIVE"
  /\ cstate' = [cstate EXCEPT ![c] = "IDLE"]
  /\ idle' = idle \cup {c}
  /\ GoesTo(c, "subset")
  /\ UNCHANGED <<smt, word, notIdle>>

EntryIdleSubset(c) ==
  /\ oops = Null /\ pc[c] = "subset"
  /\ GoesTo(c, IF Siblings[c] \subseteq idle THEN "or" ELSE "out")
  /\ UNCHANGED <<cstate, idle, smt, word, notIdle>>

(* cpumask_or reads a word of the mask and writes it.                      *)
EntryIdleOr(c) ==
  /\ oops = Null /\ pc[c] = "or"
  /\ word' = [word EXCEPT ![c] = smt \cup Siblings[c]]
  /\ GoesTo(c, "orStore")
  /\ UNCHANGED <<cstate, idle, smt, notIdle>>

(* So does cpumask_andnot.                                                 *)
ExitIdleAndnot(c) ==
  /\ oops = Null /\ pc[c] = "andnot"
  /\ word' = [word EXCEPT ![c] = smt \ Siblings[c]]
  /\ GoesTo(c, "andnotStore")
  /\ UNCHANGED <<cstate, idle, smt, notIdle>>

StoreWord(c) ==
  /\ oops = Null /\ pc[c] \in {"orStore", "andnotStore"}
  /\ smt' = word[c]
  /\ word' = [word EXCEPT ![c] = {}]
  /\ GoesTo(c, "out")
  /\ UNCHANGED <<cstate, idle, notIdle>>

(* A thread is about to run on c.                                          *)
ExitIdle(c) ==
  /\ c \in online
  /\ rq[c] # <<>>
  /\ CoreFree(c)
  /\ cstate[c] = "IDLE"
  /\ cstate' = [cstate EXCEPT ![c] = "ACTIVE"]
  /\ idle' = idle \ {c}
  /\ GoesTo(c, "andnot")
  /\ UNCHANGED <<smt, word, notIdle>>

(* The core that leaves is recorded as active.                             *)
CoreExit(c) ==
  /\ c \in HotplugCpus \cap active
  /\ active # {c}
  /\ CoreFree(c)
  /\ active' = active \ {c}
  /\ cstate' = [cstate EXCEPT ![c] = "ACTIVE"]
  /\ idle' = idle \ {c} /\ smt' = smt \ {c}
  /\ UNCHANGED <<st, tcpu, rq, curr, target, online, ce, slice, entity, pc, word, oops>>

CpuDead(c) ==
  /\ c \in online \ active
  /\ Drained(c)
  /\ CoreFree(c)
  /\ online' = online \ {c}
  /\ UNCHANGED <<st, tcpu, rq, curr, target, active, policyVars>>

CoreEntry(c) ==
  /\ c \notin online
  /\ oops = Null
  /\ online' = online \cup {c}
  /\ active' = active \cup {c}
  /\ cstate' = [cstate EXCEPT ![c] = "ACTIVE"]
  /\ UNCHANGED <<st, tcpu, rq, curr, target, ce, slice, entity, masks, oops>>

-----------------------------------------------------------------------------
TickOf(c) == \E now \in Times : Tick(c, now)

IdleStep(c) ==
  \/ EntryIdleSubset(c)
  \/ EntryIdleOr(c)
  \/ ExitIdleAndnot(c)
  \/ StoreWord(c)

TaskNext(t) ==
  \/ NewPrepare(t)
  \/ NewPlace(t)
  \/ UnblockPrepare(t)
  \/ UnblockPlace(t)
  \/ Block(t)
  \/ \E c \in Cpus : Oust(t, c)
  \/ Terminate(t)

CpuNext(c) ==
  \/ TickOf(c)
  \/ Yield(c)
  \/ Schedule(c)
  \/ EntryIdle(c)
  \/ ExitIdle(c)
  \/ IdleStep(c)
  \/ CoreExit(c)
  \/ CpuDead(c)
  \/ CoreEntry(c)

Next ==
  \/ \E t \in Tasks : TaskNext(t)
  \/ \E c \in Cpus : CpuNext(c)

Spec == Init /\ [][Next]_vars

(* While the kernel runs, ticks come, a CPU without a thread schedules, a  *)
(* handler returns and a placement begun is completed; both wait for the   *)
(* lock of a core, a queued spinlock, while it is in an idle transition.   *)
Fairness ==
  /\ \A c \in Cpus : WF_vars(IdleStep(c)) /\ SF_vars(TickOf(c)) /\ SF_vars(Schedule(c))
  /\ \A t \in Tasks : SF_vars(NewPlace(t) \/ UnblockPlace(t))

FairSpec == Spec /\ Fairness

-----------------------------------------------------------------------------
TypeOK ==
  /\ st \in [Tasks -> ThreadState]
  /\ tcpu \in [Tasks -> Cpus]
  /\ rq \in [Cpus -> Seq(Tasks)]
  /\ curr \in [Cpus -> Tasks \cup {Null}]
  /\ target \in [Tasks -> Cpus \cup {Null}]
  /\ online \subseteq Cpus /\ active \subseteq online
  /\ ce \in [Tasks -> Entity]
  /\ slice \in [Tasks -> Nat]
  /\ entity \in [Cpus -> Tasks \cup {Null}]
  /\ cstate \in [Cpus -> CoreState]
  /\ idle \subseteq Cpus /\ smt \subseteq Cpus
  /\ pc \in [Cpus -> IdlePc]
  /\ word \in [Cpus -> SUBSET Cpus]
  /\ oops \in Cpus \cup {Null}

-----------------------------------------------------------------------------
(* A READY thread is queued once, on its own CPU, a RUNNING one is the     *)
(* current of its own CPU, any other is nowhere: schedule elects the head  *)
(* of its runqueue on cpu without looking at task_cpu (lines 309-324),     *)
(* tick and yield requeue on task_cpu (lines 274, 289), and change_state   *)
(* is given CPU 0 whichever runqueue it queues on (line 182).              *)
Placement == Placed

(* struct central_entity says what the kernel knows, through migrations    *)
(* and hotplug, and is allocated as long as the thread may be scheduled:   *)
(* schedule and tick dereference it without a test (lines 315, 284), and   *)
(* terminate decides by its state (line 259).                              *)
MetadataAgrees ==
  \A t \in Tasks :
    /\ st[t] = "READY" => ce[t].state \in {"READY", "READY_TICK"} /\ ce[t].rq = tcpu[t]
    /\ st[t] \in {"RUNNING", "BLOCKED"} => ce[t] = [state |-> st[t], rq |-> Null]
    /\ st[t] = "TERMINATED" => ce[t] = NoEntity

(* The current_entity of a CPU with a thread is that thread's or NULL,     *)
(* never another's: although a tick anywhere clears that of CPU 0 and      *)
(* leaves that of its own CPU (line 175), and block clears it for a queued *)
(* thread (line 227), what is left over is of CPUs without a thread.       *)
EntityIsNoOther ==
  \A c \in Cpus : curr[c] # Null => entity[c] \in {curr[c], Null}

(* While a CPU is out of the online mask nothing is queued on it, runs on  *)
(* it or is on its way to it, CPU 0 included, which select_cpu returns     *)
(* whether it is online or not (line 156).                                 *)
NothingOnDeadCpu ==
  /\ \A c \in Cpus \ online : curr[c] = Null /\ rq[c] = <<>>
  /\ \A t \in Tasks : target[t] # Null => target[t] \in online

(* Each CPU serves its runqueue first-in first-out (FifoLines).            *)
Lines == INSTANCE FifoLines WITH
  Lines <- Cpus, LineOf <- [c \in Cpus |-> c], line <- rq, serving <- curr

ServesInOrder == Lines!Spec

(* As long as the kernel runs, no READY thread waits for ever: the thread  *)
(* before it does not keep the CPU over its ticks (lines 282-290).         *)
NoStarvation == \A t \in Tasks : (st[t] = "READY") ~> (st[t] # "READY" \/ oops # Null)

-----------------------------------------------------------------------------
(* What comments of saakm_central.c say and the code does not do.          *)

(* "If one logical SMTs are not idle anymore, clear it from the smt idle   *)
(* mask" (lines 133-134): while no idle transition is under way, a CPU is  *)
(* in that mask only if all its siblings are idle.                         *)
SmtMeansCoreIdle ==
  (\A c \in Cpus : pc[c] = "out") => \A c \in smt : Siblings[c] \subseteq idle
=============================================================================
