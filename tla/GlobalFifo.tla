----------------------------- MODULE GlobalFifo ----------------------------
(***************************************************************************)
(* The global FIFO policy, modules/global_fifo/global_fifo.c: woken and    *)
(* preempted threads queue in one runqueue shared by all the cores, behind *)
(* a spinlock; each core also has a runqueue of its own, into which it     *)
(* pulls from the global one in newly_idle and in balancing_select.        *)
(*                                                                         *)
(* A handler that takes the global lock and gives it back is one action,   *)
(* enabled while the lock is free.  The pull is several: it reads the head *)
(* under the lock, removes it, releases the lock, reads the thread's CPU,  *)
(* and only then puts the thread in the local runqueue.                    *)
(***************************************************************************)
EXTENDS SaakmCore

CONSTANTS
  Global,       \* global_fifo_runqueue.rq; runqueue c is per_cpu(core, c).rq
  Pid,          \* [Tasks -> Nat], p->pid
  Quantum,      \* QUANTUM_NS, in clock units
  Word,         \* bound: the unsigned counters count modulo Word (2^64 ns)
  MaxTickGap,   \* bound: the clock advances by 1 .. MaxTickGap between ticks
  HotplugCpus,  \* bound: the CPUs that may go down and come back
  Leavers       \* the threads that may be moved to another CPU or leave the
                \* class while they are READY; the others leave while RUNNING
                \* or BLOCKED only

ASSUME GlobalAssumption == Global \notin Cpus \cup {Null}
ASSUME GlobalPidAssumption == Pid \in [Tasks -> Nat]
ASSUME WordAssumption ==
  /\ Quantum \in Nat \ {0} /\ MaxTickGap \in Nat \ {0} /\ Word \in Nat
  /\ Quantum + MaxTickGap < Word
ASSUME LeaversAssumption == Leavers \subseteq Tasks /\ HotplugCpus \subseteq Cpus

VARIABLES
  fp,           \* [Tasks -> fp->state], or "NO_STRUCT" before the struct exists
  quantum,      \* [Tasks -> 0 .. Word - 1], fp->current_quantum_ns
  fcur,         \* [Cpus -> Tasks \cup {Null}], fc->_current
  cstate,       \* [Cpus -> core state], fc->state
  onlineCores, idleCores, \* the cpumasks online_cores and idle_cores
  glock,        \* the CPU that holds global_fifo_runqueue.lock, or Null
  pc,           \* [Cpus -> where the CPU is in newly_idle]
  next,         \* [Cpus -> Tasks \cup {Null}], next in newly_idle
  taskCpu       \* [Cpus -> Cpus \cup {Null}], current_task_cpu in newly_idle

coreInfo == <<cstate, onlineCores, idleCores>>
pull == <<glock, pc, next, taskCpu>>
vars == <<coreVars, fp, quantum, fcur, coreInfo, pull>>

PullPc == {"out", "locked", "taken", "moving"}

ProcessState == {"NO_STRUCT", "NOT_QUEUED", "TERMINATED"}

CoreState == {"ACTIVE", "IDLE"}

-----------------------------------------------------------------------------
SelectCpu(t) == Pid[t] % Cardinality(online)

(* current_quantum_ns after a tick: the code subtracts now, which is gap   *)
(* later, from last_sched_ns, in unsigned arithmetic.                      *)
\* mutant: signed counters
UsedSigned(t, gap) == quantum[t] - gap
Used(t, gap) == (quantum[t] + Word - gap) % Word

(* LOCK_GLOBAL_RQ would not wait.                                          *)
\* mutant: the lock is not taken
Unlocked == TRUE
GlobalLockFree == glock = Null

(* The head of a runqueue, for schedule and for newly_idle.                *)
\* mutant: the tail instead of the head
NewestTask(q) == IF rq[q] = <<>> THEN Null ELSE Last(rq[q])
NextTask(q) == FirstTask(rq[q])

Init ==
  /\ CoreInit(Cpus \cup {Global})
  /\ fp = [t \in Tasks |-> "NO_STRUCT"]
  /\ quantum = [t \in Tasks |-> 0]
  /\ fcur = [c \in Cpus |-> Null]
  /\ cstate = [c \in Cpus |-> "ACTIVE"]
  /\ onlineCores = Cpus /\ idleCores = Cpus
  /\ glock = Null
  /\ pc = [c \in Cpus |-> "out"]
  /\ next = [c \in Cpus |-> Null]
  /\ taskCpu = [c \in Cpus |-> Null]

-----------------------------------------------------------------------------
(* Thread events.                                                          *)

NewPrepare(t) ==
  /\ st[t] \in {"NOT_QUEUED", "TERMINATED"}
  /\ target[t] = Null
  /\ st' = [st EXCEPT ![t] = "NOT_QUEUED"]
  /\ fp' = [fp EXCEPT ![t] = "NOT_QUEUED"]
  /\ quantum' = [quantum EXCEPT ![t] = 0]
  /\ \E c \in AllowedTargets(SelectCpu(t)) : target' = [target EXCEPT ![t] = c]
  /\ UNCHANGED <<tcpu, rq, curr, online, active, fcur, coreInfo, pull>>

(* new_place and unblock_place: task_cpu is set, the thread is queued.     *)
Place(t, from) ==
  /\ st[t] = from
  /\ target[t] # Null
  /\ GlobalLockFree
  /\ tcpu' = [tcpu EXCEPT ![t] = target[t]]
  /\ target' = [target EXCEPT ![t] = Null]
  /\ ChangeState(t, "READY", target[t], Global)
  /\ UNCHANGED <<online, active, fp, quantum, fcur, coreInfo, pull>>

NewPlace(t) == Place(t, "NOT_QUEUED")

UnblockPlace(t) == Place(t, "BLOCKED")

UnblockPrepare(t) ==
  /\ st[t] = "BLOCKED"
  /\ target[t] = Null
  /\ \E c \in AllowedTargets(tcpu[t]) : target' = [target EXCEPT ![t] = c]
  /\ UNCHANGED <<st, tcpu, rq, curr, online, active, fp, quantum, fcur, coreInfo, pull>>

(* The runqueue the tick sends the thread back to.                         *)
RequeueOn(c) == IF rq[c] = <<>> THEN c ELSE Global

(* The timer tick of c.  It may interrupt a pull of c, except while c      *)
(* holds the global lock, which the tick could then never take.            *)
Tick(c, gap) ==
  LET t == curr[c]
      expired == Used(t, gap) >= Quantum
  IN
  /\ c \in online
  /\ t # Null
  /\ pc[c] # "locked"
  /\ expired /\ RequeueOn(c) = Global => GlobalLockFree
  /\ quantum' = [quantum EXCEPT ![t] = IF expired THEN 0 ELSE Used(t, gap)]
  /\ IF expired THEN ChangeState(t, "READY_TICK", tcpu[t], RequeueOn(c))
                ELSE UNCHANGED <<st, rq, curr>>
  /\ UNCHANGED <<tcpu, target, online, active, fp, fcur, coreInfo, pull>>

(* sched_yield(), or the kernel preempts the current thread of c.          *)
Yield(c) ==
  LET t == curr[c] IN
  /\ c \in online
  /\ t # Null
  /\ pc[c] = "out"
  /\ GlobalLockFree
  /\ ChangeState(t, "READY", tcpu[t], Global)
  /\ UNCHANGED <<tcpu, target, online, active, fp, quantum, fcur, coreInfo, pull>>

BlockTask(t) ==
  /\ GlobalLockFree
  /\ ChangeState(t, "BLOCKED", tcpu[t], Null)
  /\ UNCHANGED <<tcpu, online, active, fp, quantum, fcur, coreInfo, pull>>

Block(t) ==
  /\ st[t] = "RUNNING"
  /\ pc[tcpu[t]] = "out"
  /\ BlockTask(t)
  /\ UNCHANGED target

(* The states the kernel may move t from, or take it out of the class from.*)
LeavesFrom(t) == IF t \in Leavers THEN {"READY", "RUNNING"} ELSE {"RUNNING"}

(* SaaKM delivers block, and unblock_place on another CPU (OUSTED).        *)
Oust(t, cpu) ==
  /\ st[t] \in LeavesFrom(t)
  /\ st[t] = "RUNNING" => pc[tcpu[t]] = "out"
  /\ cpu \in active \ {tcpu[t]}
  /\ BlockTask(t)
  /\ target' = [target EXCEPT ![t] = cpu]

(* The thread dies or switches to another class: no global lock, and the   *)
(* struct is not freed.                                                    *)
Terminate(t) ==
  /\ st[t] \in LeavesFrom(t) \cup {"BLOCKED"}
  /\ target[t] = Null
  /\ fcur' = IF fp[t] = "RUNNING" THEN [fcur EXCEPT ![tcpu[t]] = Null] ELSE fcur
  /\ fp' = [fp EXCEPT ![t] = "TERMINATED"]
  /\ ChangeState(t, "TERMINATED", tcpu[t], Null)
  /\ UNCHANGED <<tcpu, target, online, active, quantum, coreInfo, pull>>

(* t, in runqueue q, is elected on c.  TASK_RUNNING, a constant of the     *)
(* kernel with the value of IPANEMA_NOT_QUEUED, is stored in fp->state.    *)
Elect(c, t) ==
  /\ fp' = [fp EXCEPT ![t] = "NOT_QUEUED"]
  /\ quantum' = [quantum EXCEPT ![t] = 0]
  /\ fcur' = [fcur EXCEPT ![c] = t]
  /\ ChangeState(t, "RUNNING", c, Null)
  /\ UNCHANGED <<tcpu, target, online, active, coreInfo, pull>>

(* fifo_schedule: the local runqueue first; then the head of the global    *)
(* one, if it is a thread of this core.                                    *)
Schedule(c) ==
  /\ c \in online
  /\ curr[c] = Null
  /\ pc[c] = "out"
  /\ \/ NextTask(c) # Null /\ Elect(c, NextTask(c))
     \/ /\ NextTask(c) = Null
        /\ GlobalLockFree
        /\ NextTask(Global) # Null
        /\ tcpu[NextTask(Global)] = c
        /\ Elect(c, NextTask(Global))

-----------------------------------------------------------------------------
(* Core events.                                                            *)

(* fifo_newly_idle on c, when it has nothing to run, and fifo_load_balance *)
(* at any time.  With nothing in the global runqueue it returns.           *)
PullFirst(c) ==
  /\ c \in online
  /\ pc[c] = "out"
  /\ GlobalLockFree
  /\ NextTask(Global) # Null
  /\ glock' = c
  /\ next' = [next EXCEPT ![c] = NextTask(Global)]
  /\ pc' = [pc EXCEPT ![c] = "locked"]
  /\ UNCHANGED <<coreVars, fp, quantum, fcur, coreInfo, taskCpu>>

(* The thread stays READY, in no runqueue.                                 *)
PullRemove(c) ==
  /\ pc[c] = "locked"
  /\ rq' = [rq EXCEPT ![Global] = Without(@, next[c])]
  /\ glock' = Null
  /\ pc' = [pc EXCEPT ![c] = "taken"]
  /\ UNCHANGED <<st, tcpu, curr, target, online, active, fp, quantum, fcur, coreInfo, next, taskCpu>>

PullReadCpu(c) ==
  /\ pc[c] = "taken"
  /\ taskCpu' = [taskCpu EXCEPT ![c] = tcpu[next[c]]]
  /\ pc' = [pc EXCEPT ![c] = "moving"]
  /\ UNCHANGED <<coreVars, fp, quantum, fcur, coreInfo, glock, next>>

(* The CPU of the pulled thread, from READY through MIGRATING to READY.    *)
\* mutant: the thread is queued but not migrated
StaysOn(t, c, from) == tcpu[t]
MigratesTo(t, c, from) == IF from = c THEN tcpu[t] ELSE c

PullMove(c) ==
  LET t == next[c] IN
  /\ pc[c] = "moving"
  /\ tcpu' = [tcpu EXCEPT ![t] = MigratesTo(t, c, taskCpu[c])]
  /\ ChangeState(t, "READY", c, c)
  /\ pc' = [pc EXCEPT ![c] = "out"]
  /\ next' = [next EXCEPT ![c] = Null]
  /\ taskCpu' = [taskCpu EXCEPT ![c] = Null]
  /\ UNCHANGED <<target, online, active, fp, quantum, fcur, coreInfo, glock>>

EnterIdle(c) ==
  /\ c \in online
  /\ curr[c] = Null /\ rq[c] = <<>> /\ pc[c] = "out"
  /\ cstate[c] = "ACTIVE"
  /\ cstate' = [cstate EXCEPT ![c] = "IDLE"]
  /\ idleCores' = idleCores \cup {c}
  /\ UNCHANGED <<coreVars, fp, quantum, fcur, onlineCores, pull>>

(* A thread is about to run on c.  The core leaves online_cores as well.   *)
ExitIdle(c) ==
  /\ c \in online
  /\ rq[c] # <<>> \/ rq[Global] # <<>>
  /\ cstate[c] = "IDLE"
  /\ cstate' = [cstate EXCEPT ![c] = "ACTIVE"]
  /\ onlineCores' = onlineCores \ {c}
  /\ idleCores' = idleCores \ {c}
  /\ UNCHANGED <<coreVars, fp, quantum, fcur, pull>>

CoreExit(c) ==
  /\ c \in HotplugCpus \cap active
  /\ active # {c}
  /\ active' = active \ {c}
  /\ cstate' = [cstate EXCEPT ![c] = "IDLE"]
  /\ onlineCores' = onlineCores \ {c}
  /\ idleCores' = idleCores \ {c}
  /\ UNCHANGED <<st, tcpu, rq, curr, target, online, fp, quantum, fcur, pull>>

CpuDead(c) ==
  /\ c \in online \ active
  /\ Drained(c)
  /\ pc[c] = "out"
  /\ online' = online \ {c}
  /\ UNCHANGED <<st, tcpu, rq, curr, target, active, fp, quantum, fcur, coreInfo, pull>>

CoreEntry(c) ==
  /\ c \notin online
  /\ online' = online \cup {c}
  /\ active' = active \cup {c}
  /\ cstate' = [cstate EXCEPT ![c] = "ACTIVE"]
  /\ onlineCores' = onlineCores \cup {c}
  /\ idleCores' = idleCores \cup {c}
  /\ UNCHANGED <<st, tcpu, rq, curr, target, fp, quantum, fcur, pull>>

-----------------------------------------------------------------------------
TickOf(c) == \E gap \in 1..MaxTickGap : Tick(c, gap)

PullStep(c) == PullRemove(c) \/ PullReadCpu(c) \/ PullMove(c)

TaskNext(t) ==
  \/ NewPrepare(t)
  \/ NewPlace(t)
  \/ UnblockPrepare(t)
  \/ UnblockPlace(t)
  \/ Block(t)
  \/ \E c \in Cpus : Oust(t, c)
  \/ Terminate(t)

CpuNext(c) ==
  \/ TickOf(c)
  \/ Yield(c)
  \/ Schedule(c)
  \/ PullFirst(c)
  \/ PullStep(c)
  \/ EnterIdle(c)
  \/ ExitIdle(c)
  \/ CoreExit(c)
  \/ CpuDead(c)
  \/ CoreEntry(c)

Next ==
  \/ \E t \in Tasks : TaskNext(t)
  \/ \E c \in Cpus : CpuNext(c)

Spec == Init /\ [][Next]_vars

(* A pull begun ends, and the periodic balancing starts one again.  The    *)
(* pull comes and goes, so the tick and the schedule of its core get       *)
(* strong fairness: they run as soon as it returns.                        *)
Fairness ==
  /\ \A c \in Cpus : /\ SF_vars(TickOf(c)) /\ SF_vars(Schedule(c))
                     /\ WF_vars(PullFirst(c)) /\ WF_vars(PullStep(c))
  /\ \A t \in Tasks : SF_vars(NewPlace(t) \/ UnblockPlace(t))

FairSpec == Spec /\ Fairness

-----------------------------------------------------------------------------
TypeOK ==
  /\ st \in [Tasks -> ThreadState]
  /\ tcpu \in [Tasks -> Cpus]
  /\ rq \in [Cpus \cup {Global} -> Seq(Tasks)]
  /\ curr \in [Cpus -> Tasks \cup {Null}]
  /\ target \in [Tasks -> Cpus \cup {Null}]
  /\ online \subseteq Cpus /\ active \subseteq online
  /\ fp \in [Tasks -> ProcessState]
  /\ quantum \in [Tasks -> 0 .. Word - 1]
  /\ fcur \in [Cpus -> Tasks \cup {Null}]
  /\ cstate \in [Cpus -> CoreState]
  /\ onlineCores \subseteq Cpus /\ idleCores \subseteq Cpus
  /\ glock \in Cpus \cup {Null}
  /\ pc \in [Cpus -> PullPc]
  /\ next \in [Cpus -> Tasks \cup {Null}]
  /\ taskCpu \in [Cpus -> Cpus \cup {Null}]

-----------------------------------------------------------------------------
(* c has removed t from the global runqueue and not queued it yet          *)
(* (lines 122-147).                                                        *)
Carries(c, t) == pc[c] \in {"taken", "moving"} /\ next[c] = t

Queues == Cpus \cup {Global}

(* The threads that leave a runqueue only to run.                          *)
Steady == Tasks \ Leavers

Positions(t) == UNION {{q} \X {i \in DOMAIN rq[q] : rq[q][i] = t} : q \in Queues}
Carriers(t) == {c \in Cpus : Carries(c, t)}

(* No thread is lost or duplicated, although the pull drops the global     *)
(* lock between removing a thread and queueing it: a RUNNING thread is the *)
(* current of one CPU, a READY one is queued once or carried, any other is *)
(* in no runqueue, even if it leaves or is moved in the middle of a pull.  *)
(* A thread that does not do so is carried by one core, when not queued.   *)
NoThreadLost ==
  \A t \in Tasks :
    /\ Cardinality({c \in Cpus : curr[c] = t}) = IF st[t] = "RUNNING" THEN 1 ELSE 0
    /\ Cardinality(Positions(t)) <= IF st[t] = "READY" THEN 1 ELSE 0
    /\ st[t] = "READY" => Positions(t) # {} \/ Carriers(t) # {}
    /\ t \in Steady =>
         Cardinality(Positions(t)) + Cardinality(Carriers(t)) = IF st[t] = "READY" THEN 1 ELSE 0

(* A core's own runqueue holds threads whose task_cpu is that core, and a  *)
(* RUNNING thread is the current of its own CPU only: tick and yield       *)
(* requeue on task_cpu (lines 236-249), schedule elects the local head on  *)
(* cpu without looking at its task_cpu (line 326).                         *)
LocalThreadsAreLocal ==
  \A c \in Cpus, t \in Steady :
    /\ Contains(rq[c], t) => tcpu[t] = c
    /\ curr[c] = t <=> st[t] = "RUNNING" /\ tcpu[t] = c

(* While a core holds the lock the head it has read stays the head: the    *)
(* remove of line 122 takes out what line 114 read.  global_fifo.c says of *)
(* the lock "whenever we en/dequeue, we need to lock it" (lines 37-38);    *)
(* fifo_terminate does not.                                                *)
HeldHeadStaysQueued ==
  \A c \in Cpus :
    pc[c] = "locked" /\ next[c] \in Steady => FirstTask(rq[Global]) = next[c]

(* While a CPU is out of the online mask nothing runs on it, is on its way *)
(* to it, or is carried by it, although unblock_prepare returns the CPU    *)
(* the thread had when it blocked (line 267) and a core pulls without      *)
(* looking at online_cores; and nothing waits for it in its runqueue.      *)
NothingOnDeadCpu ==
  /\ \A c \in Cpus \ online :
       /\ curr[c] = Null /\ pc[c] = "out"
       /\ \A t \in Steady : ~ Contains(rq[c], t)
  /\ \A t \in Tasks : target[t] # Null => target[t] \in online
  /\ \A t \in Steady : st[t] = "READY" => tcpu[t] \in online

(* A core serves its own runqueue first-in first-out, and pulls from the   *)
(* head of the global one to the tail of its own, in two steps between     *)
(* which any other handler may run; a thread that leaves in between        *)
(* changes nothing for the others (TieredLines).                           *)
Tiers == INSTANCE TieredLines WITH
  Shared <- Global, line <- rq, serving <- curr,
  hand <- [c \in Cpus |-> IF pc[c] \in {"taken", "moving"} THEN next[c] ELSE Null]

ServesInOrder == Tiers!Spec

(* No READY thread waits for ever, whichever runqueue it is in and however *)
(* often it is carried from one to the other.  It needs the periodic       *)
(* balancing: a core that is never idle and whose running thread finds its *)
(* own runqueue empty at each tick never looks at the global one.          *)
NoStarvation == \A t \in Tasks : (st[t] = "READY") ~> (st[t] # "READY")

-----------------------------------------------------------------------------
(* What a comment of global_fifo.c says and the code does not do.          *)

NoneComesBack(threads) ==
  \A t \in threads : st[t] = "TERMINATED" => st'[t] \in {"TERMINATED", "NOT_QUEUED"}

(* terminate is for when "the task is dying, therefore we need to remove   *)
(* it" (line 291): it does not become READY again until it is a new one.   *)
TerminatedStaysOut == [][NoneComesBack(Tasks)]_vars
=============================================================================
