---------------------------- MODULE FifoOneQueue ---------------------------
(***************************************************************************)
(* The FIFO policy with one queue, modules/fifo_one_queue/fifo_one_queue.c.*)
(* Every runnable thread waits in one runqueue; a core with nothing to run *)
(* moves its head to its local runqueue in newly_idle, from which schedule *)
(* then takes it.  select_cpu looks for an idle core in a cpumask.         *)
(*                                                                         *)
(* A handler holds the lock of the runqueue for all it does and is one     *)
(* action, enabled while the lock is free.  newly_idle also takes and      *)
(* gives back the locks of two local runqueues, one after the other, and   *)
(* is two actions when it migrates the thread.                             *)
(*                                                                         *)
(* fp->state, fc->_current and online_cores are written by the handlers    *)
(* and decide nothing (_current and fp->state choose only whether to write *)
(* _current or a message): they are left out.                              *)
(***************************************************************************)
EXTENDS SaakmCore

CONSTANTS
  Global,       \* fifo_runqueue.rq; runqueue c is per_cpu(core, c).rq
  Quantum,      \* the number of ticks after which a thread is requeued
  HotplugCpus   \* bound: the CPUs that may go down and come back

ASSUME OneQueueAssumption ==
  /\ Global \notin Cpus \cup {Null}
  /\ Quantum \in Nat \ {0}
  /\ HotplugCpus \subseteq Cpus

VARIABLES
  fp,           \* the threads whose struct fifo_process is allocated
  quantum,      \* [Tasks -> 0 .. Quantum - 1], fp->current_quantum_ns, which
                \* counts ticks and is read modulo Quantum only
  cstate,       \* [Cpus -> core state], fc->state
  idleCores,    \* the cpumask idle_cores
  glock,        \* the CPU whose newly_idle holds fifo_runqueue.rq.lock, or Null
  migrating     \* [Cpus -> Tasks \cup {Null}], next in newly_idle, between its
                \* two change_state

vars == <<coreVars, fp, quantum, cstate, idleCores, glock, migrating>>
coreInfo == <<cstate, idleCores>>
newlyIdle == <<glock, migrating>>

CoreState == {"ACTIVE", "IDLE"}

-----------------------------------------------------------------------------
(* LOCK_RQ would not wait.                                                 *)
\* mutant: the lock is not taken
Unlocked == TRUE
LockFree == glock = Null

(* The CPUs select_cpu may return.  When prev_cpu is not idle the result   *)
(* of cpumask_any_but is dropped and cpu is read uninitialized: any value, *)
(* of which those from nr_cpu_ids on are replaced by prev_cpu.             *)
SelectCpu(prevCpu) == IF prevCpu \in idleCores THEN {prevCpu} ELSE Cpus

(* The head of a runqueue, for schedule and for newly_idle.                *)
\* mutant: the tail instead of the head
NewestTask(q) == IF rq[q] = <<>> THEN Null ELSE Last(rq[q])
NextTask(q) == FirstTask(rq[q])

(* fifo_enqueue_lock.                                                      *)
\* mutant: the local runqueue of the thread's core
EnqueueLocally(t, state) == LockFree /\ ChangeState(t, state, tcpu'[t], tcpu'[t])
EnqueueLock(t, state) == LockFree /\ ChangeState(t, state, tcpu'[t], Global)

Init ==
  /\ CoreInit(Cpus \cup {Global})
  /\ fp = {}
  /\ quantum = [t \in Tasks |-> 0]
  /\ cstate = [c \in Cpus |-> "ACTIVE"]
  /\ idleCores = Cpus
  /\ glock = Null
  /\ migrating = [c \in Cpus |-> Null]

-----------------------------------------------------------------------------
(* Thread events.                                                          *)

(* select_cpu has chosen cpu for t, and the kernel has accepted it or not. *)
Chosen(t, cpu) ==
  /\ LockFree
  /\ idleCores' = idleCores \ {cpu}
  /\ \E c \in AllowedTargets(cpu) : target' = [target EXCEPT ![t] = c]

NewPrepare(t, wfExec) ==
  /\ st[t] \in {"NOT_QUEUED", "TERMINATED"}
  /\ target[t] = Null
  /\ st' = [st EXCEPT ![t] = "NOT_QUEUED"]
  /\ fp' = fp \cup {t}
  /\ quantum' = [quantum EXCEPT ![t] = 0]
  /\ IF wfExec
     THEN /\ \E c \in AllowedTargets(tcpu[t]) : target' = [target EXCEPT ![t] = c]
          /\ UNCHANGED idleCores
     ELSE \E cpu \in SelectCpu(tcpu[t]) : Chosen(t, cpu)
  /\ UNCHANGED <<tcpu, rq, curr, online, active, cstate, newlyIdle>>

(* new_place and unblock_place: task_cpu is set, the thread is queued.     *)
Place(t, from) ==
  /\ st[t] = from
  /\ target[t] # Null
  /\ tcpu' = [tcpu EXCEPT ![t] = target[t]]
  /\ target' = [target EXCEPT ![t] = Null]
  /\ EnqueueLock(t, "READY")
  /\ UNCHANGED <<online, active, fp, quantum, coreInfo, newlyIdle>>

NewPlace(t) == Place(t, "NOT_QUEUED")

UnblockPlace(t) == Place(t, "BLOCKED")

UnblockPrepare(t) ==
  /\ st[t] = "BLOCKED"
  /\ target[t] = Null
  /\ \E cpu \in SelectCpu(tcpu[t]) : Chosen(t, cpu)
  /\ UNCHANGED <<st, tcpu, rq, curr, online, active, fp, quantum, cstate, newlyIdle>>

(* The counter is never reset: a thread is requeued when it has seen a     *)
(* multiple of Quantum ticks since it was forked.                          *)
\* mutant: requeued at one tick of its life only
TicksSinceFork(t) == quantum[t] + 1
TicksAfter(t) == (quantum[t] + 1) % Quantum

Tick(c) ==
  LET t == curr[c]
      ticks == TicksAfter(t)
  IN
  /\ c \in online
  /\ t # Null
  /\ quantum' = [quantum EXCEPT ![t] = ticks]
  /\ IF ticks = 0 THEN EnqueueLock(t, "READY_TICK")
                  ELSE UNCHANGED <<st, rq, curr>>
  /\ UNCHANGED <<tcpu, target, online, active, fp, coreInfo, newlyIdle>>

(* sched_yield(), or the kernel preempts the current thread of c.          *)
Yield(c) ==
  /\ c \in online
  /\ curr[c] # Null
  /\ UNCHANGED tcpu
  /\ EnqueueLock(curr[c], "READY")
  /\ UNCHANGED <<target, online, active, fp, quantum, coreInfo, newlyIdle>>

BlockTask(t) ==
  /\ LockFree
  /\ ChangeState(t, "BLOCKED", tcpu[t], Null)
  /\ UNCHANGED <<tcpu, online, active, fp, quantum, coreInfo, newlyIdle>>

Block(t) ==
  /\ st[t] = "RUNNING"
  /\ BlockTask(t)
  /\ UNCHANGED target

(* SaaKM delivers block, and unblock_place on another CPU (OUSTED).        *)
Oust(t, cpu) ==
  /\ st[t] \in {"READY", "RUNNING"}
  /\ cpu \in active \ {tcpu[t]}
  /\ BlockTask(t)
  /\ target' = [target EXCEPT ![t] = cpu]

(* The thread dies, or switches to another scheduling class.               *)
\* mutant: the struct is freed, the thread left where it is
TerminateKeepsQueued(t) ==
  /\ st[t] \in {"READY", "RUNNING", "BLOCKED"}
  /\ target[t] = Null
  /\ LockFree
  /\ st' = [st EXCEPT ![t] = "TERMINATED"]
  /\ fp' = fp \ {t}
  /\ UNCHANGED <<tcpu, rq, curr, target, online, active, quantum, coreInfo, newlyIdle>>
Terminate(t) ==
  /\ st[t] \in {"READY", "RUNNING", "BLOCKED"}
  /\ target[t] = Null
  /\ LockFree
  /\ ChangeState(t, "TERMINATED", tcpu[t], Null)
  /\ fp' = fp \ {t}
  /\ UNCHANGED <<tcpu, target, online, active, quantum, coreInfo, newlyIdle>>

(* fifo_schedule: the local runqueue first; then the head of the global    *)
(* one, if it is a thread of this core.                                    *)
Schedule(c) ==
  /\ c \in online
  /\ curr[c] = Null
  /\ migrating[c] = Null
  /\ \/ NextTask(c) # Null /\ ChangeState(NextTask(c), "RUNNING", c, Null)
     \/ /\ NextTask(c) = Null
        /\ LockFree
        /\ NextTask(Global) # Null
        /\ tcpu[NextTask(Global)] = c
        /\ ChangeState(NextTask(Global), "RUNNING", c, Null)
  /\ UNCHANGED <<tcpu, target, online, active, fp, quantum, coreInfo, newlyIdle>>

-----------------------------------------------------------------------------
(* Core events.                                                            *)

(* schedule found nothing for c, so that its local runqueue is empty.      *)
CallsNewlyIdle(c) ==
  /\ c \in online
  /\ curr[c] = Null /\ rq[c] = <<>>
  /\ LockFree
  /\ NextTask(Global) # Null

(* The head is a thread of this core.                                      *)
NewlyIdleLocal(c) ==
  LET next == NextTask(Global) IN
  /\ CallsNewlyIdle(c)
  /\ tcpu[next] = c
  /\ ChangeState(next, "READY", c, c)
  /\ UNCHANGED <<tcpu, target, online, active, fp, quantum, coreInfo, newlyIdle>>

(* The head is a thread of another core: it is migrated under the lock of  *)
(* that core's local runqueue, ...                                         *)
NewlyIdleMigrate(c) ==
  LET next == NextTask(Global) IN
  /\ CallsNewlyIdle(c)
  /\ tcpu[next] # c
  /\ glock' = c
  /\ migrating' = [migrating EXCEPT ![c] = next]
  /\ tcpu' = [tcpu EXCEPT ![next] = c]
  /\ ChangeState(next, "MIGRATING", c, Null)
  /\ UNCHANGED <<target, online, active, fp, quantum, coreInfo>>

(* ... and queued under the lock of its own.                               *)
NewlyIdleQueue(c) ==
  /\ migrating[c] # Null
  /\ ChangeState(migrating[c], "READY", c, c)
  /\ glock' = Null
  /\ migrating' = [migrating EXCEPT ![c] = Null]
  /\ UNCHANGED <<tcpu, target, online, active, fp, quantum, coreInfo>>

EnterIdle(c) ==
  /\ c \in online
  /\ curr[c] = Null /\ rq[c] = <<>> /\ migrating[c] = Null
  /\ cstate[c] = "ACTIVE"
  /\ cstate' = [cstate EXCEPT ![c] = "IDLE"]
  /\ idleCores' = idleCores \cup {c}
  /\ UNCHANGED <<coreVars, fp, quantum, newlyIdle>>

(* A thread is about to run on c.                                          *)
ExitIdle(c) ==
  /\ c \in online
  /\ rq[c] # <<>> \/ rq[Global] # <<>>
  /\ cstate[c] = "IDLE"
  /\ cstate' = [cstate EXCEPT ![c] = "ACTIVE"]
  /\ idleCores' = idleCores \ {c}
  /\ UNCHANGED <<coreVars, fp, quantum, newlyIdle>>

CoreExit(c) ==
  /\ c \in HotplugCpus \cap active
  /\ active # {c}
  /\ active' = active \ {c}
  /\ cstate' = [cstate EXCEPT ![c] = "IDLE"]
  /\ idleCores' = idleCores \ {c}
  /\ UNCHANGED <<st, tcpu, rq, curr, target, online, fp, quantum, newlyIdle>>

CpuDead(c) ==
  /\ c \in online \ active
  /\ Drained(c)
  /\ migrating[c] = Null
  /\ online' = online \ {c}
  /\ UNCHANGED <<st, tcpu, rq, curr, target, active, fp, quantum, coreInfo, newlyIdle>>

CoreEntry(c) ==
  /\ c \notin online
  /\ online' = online \cup {c}
  /\ active' = active \cup {c}
  /\ cstate' = [cstate EXCEPT ![c] = "ACTIVE"]
  /\ idleCores' = idleCores \cup {c}
  /\ UNCHANGED <<st, tcpu, rq, curr, target, fp, quantum, newlyIdle>>

-----------------------------------------------------------------------------
TaskNext(t) ==
  \/ \E wfExec \in BOOLEAN : NewPrepare(t, wfExec)
  \/ NewPlace(t)
  \/ UnblockPrepare(t)
  \/ UnblockPlace(t)
  \/ Block(t)
  \/ \E c \in Cpus : Oust(t, c)
  \/ Terminate(t)

CpuNext(c) ==
  \/ Tick(c)
  \/ Yield(c)
  \/ Schedule(c)
  \/ NewlyIdleLocal(c)
  \/ NewlyIdleMigrate(c)
  \/ NewlyIdleQueue(c)
  \/ EnterIdle(c)
  \/ ExitIdle(c)
  \/ CoreExit(c)
  \/ CpuDead(c)
  \/ CoreEntry(c)

Next ==
  \/ \E t \in Tasks : TaskNext(t)
  \/ \E c \in Cpus : CpuNext(c)

Spec == Init /\ [][Next]_vars

(* A CPU that gave up its thread calls schedule, then newly_idle if it     *)
(* found none; its timer ticks while a thread runs; a placement begun is   *)
(* completed.  The lock is a queued spinlock: a handler that waits for it  *)
(* gets it, however often others take it in between (strong fairness).     *)
Fairness ==
  /\ \A c \in Cpus : /\ SF_vars(Tick(c)) /\ SF_vars(Schedule(c))
                     /\ SF_vars(NewlyIdleLocal(c) \/ NewlyIdleMigrate(c))
                     /\ WF_vars(NewlyIdleQueue(c))
  /\ \A t \in Tasks : SF_vars(NewPlace(t) \/ UnblockPlace(t))

FairSpec == Spec /\ Fairness

-----------------------------------------------------------------------------
TypeOK ==
  /\ st \in [Tasks -> ThreadState \cup {"MIGRATING"}]
  /\ tcpu \in [Tasks -> Cpus]
  /\ rq \in [Cpus \cup {Global} -> Seq(Tasks)]
  /\ curr \in [Cpus -> Tasks \cup {Null}]
  /\ target \in [Tasks -> Cpus \cup {Null}]
  /\ online \subseteq Cpus /\ active \subseteq online
  /\ fp \subseteq Tasks
  /\ quantum \in [Tasks -> 0 .. Quantum - 1]
  /\ cstate \in [Cpus -> CoreState]
  /\ idleCores \subseteq Cpus
  /\ glock \in Cpus \cup {Null}
  /\ migrating \in [Cpus -> Tasks \cup {Null}]

-----------------------------------------------------------------------------
Queues == Cpus \cup {Global}

(* A READY thread is at exactly one position of one runqueue, a MIGRATING  *)
(* one in the newly_idle of one core, any other in neither, whichever      *)
(* threads terminate or are moved between the two steps of newly_idle; and *)
(* local runqueues and currents hold threads of their own CPU              *)
(* (lines 188-213, 425-452).                                               *)
InOnePlace ==
  \A t \in Tasks :
    LET places == UNION {{q} \X {i \in DOMAIN rq[q] : rq[q][i] = t} : q \in Queues}
    IN /\ Cardinality(places) = IF st[t] = "READY" THEN 1 ELSE 0
       /\ Cardinality({c \in Cpus : migrating[c] = t}) = IF st[t] = "MIGRATING" THEN 1 ELSE 0
       /\ \A c \in Cpus : Contains(rq[c], t) \/ migrating[c] = t => tcpu[t] = c
       /\ \A c \in Cpus : curr[c] = t <=> st[t] = "RUNNING" /\ tcpu[t] = c

(* "only newly_idle can put one" in the local runqueue (line 424), and it  *)
(* puts at most one before schedule takes it, without ever running while   *)
(* the core has a current thread.                                          *)
LocalHoldsOne ==
  \A c \in Cpus :
    Len(rq[c]) + Cardinality({migrating[c], curr[c]} \ {Null}) <= 1

(* A thread the policy has terminated does not become READY until it is a  *)
(* new one: its struct is freed (line 403), and every handler that takes   *)
(* it from a runqueue afterwards would read the struct.                    *)
FreedIsNotScheduled ==
  \A t \in Tasks \ fp :
    /\ st[t] \in {"NOT_QUEUED", "TERMINATED"}
    /\ \A q \in Queues : ~ Contains(rq[q], t)

(* The thread that newly_idle of c is moving, or has moved.                *)
Slot(c) == IF migrating[c] # Null THEN migrating[c] ELSE FirstTask(rq[c])

(* The policy is one waiting line for all the cores (SharedLine); the head *)
(* that newly_idle has moved, or is moving, is reserved for its core.      *)
Line == INSTANCE SharedLine WITH
  line <- rq[Global], reserved <- [c \in Cpus |-> Slot(c)], serving <- curr

ServesSharedLine == Line!Spec

(* No READY thread waits for ever, even behind a head that belongs to      *)
(* another core, which schedule leaves in place (lines 446-453).           *)
NoStarvation == \A t \in Tasks : (st[t] = "READY") ~> (st[t] # "READY")

=============================================================================
