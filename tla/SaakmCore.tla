----------------------------- MODULE SaakmCore -----------------------------
(***************************************************************************)
(* What a SaaKM (Ipanema) scheduling policy sees of the kernel it is       *)
(* loaded in.  None of this is code of the repository: it is the kernel    *)
(* side (include/linux/ipanema.h and kernel/sched), modelled from how the  *)
(* policies under modules/ use it and from docs/ipanema-documentation.     *)
(*                                                                         *)
(*  - every thread has a SaaKM state, a CPU (task_cpu) and sits in at most *)
(*    one runqueue or is the SaaKM current of one CPU;                     *)
(*  - a policy moves threads only with change_state();                     *)
(*  - the kernel chooses a CPU in two phases: a *_prepare event returns a  *)
(*    CPU, then, under another lock, a *_place event enqueues the thread.  *)
(***************************************************************************)
EXTENDS Naturals, Sequences, FiniteSets, SequencesExt

CONSTANTS
  Tasks,     \* the threads that may enter the scheduling class
  NumCpus,   \* number of possible CPUs, numbered 0 .. NumCpus - 1
  Null       \* the C NULL: no thread, no runqueue, no CPU

ASSUME NumCpusAssumption == NumCpus \in Nat \ {0}

Cpus == 0 .. (NumCpus - 1)

ASSUME NullAssumption == Null \notin Tasks /\ Null \notin Nat

VARIABLES
  st,       \* [Tasks -> ThreadState], sched_ipanema_entity.state
  tcpu,     \* [Tasks -> Cpus], task_cpu(p)
  rq,       \* [runqueue -> Seq(Tasks)], the FIFO runqueues of the policy
  curr,     \* [Cpus -> Tasks \cup {Null}], get_ipanema_current(cpu)
  target,   \* [Tasks -> Cpus \cup {Null}], CPU chosen by a *_prepare event whose
            \* *_place event has not been delivered yet
  online,   \* cpu_online_mask, what num_online_cpus() counts
  active    \* cpu_active_mask, the CPUs the kernel accepts to place threads on

coreVars == <<st, tcpu, rq, curr, target, online, active>>

(* READY_TICK is not stored: it is READY, plus the request to reschedule.  *)
ThreadState == {"NOT_QUEUED", "READY", "RUNNING", "BLOCKED", "TERMINATED"}

-----------------------------------------------------------------------------
(* Runqueues of type FIFO: change_state appends at the tail, takes a       *)
(* thread out wherever it is, and ipanema_first_task reads the head.       *)

PositionOf(q, t) == CHOOSE i \in 1..Len(q) : q[i] = t

Without(q, t) == IF Contains(q, t) THEN RemoveAt(q, PositionOf(q, t)) ELSE q

FirstTask(q) == IF q = <<>> THEN Null ELSE Head(q)

(***************************************************************************)
(* change_state(t, next_state, next_cpu, next_rq): the thread leaves the   *)
(* runqueue or the CPU it is on, is appended to next_rq if there is one,   *)
(* and becomes the current of next_cpu if its new state is RUNNING.        *)
(***************************************************************************)
ChangeState(t, state, cpu, nextRq) ==
  /\ st' = [st EXCEPT ![t] = IF state = "READY_TICK" THEN "READY" ELSE state]
  /\ rq' = [q \in DOMAIN rq |->
              IF q = nextRq THEN Append(Without(rq[q], t), t)
                            ELSE Without(rq[q], t)]
  /\ curr' = [c \in Cpus |->
                IF state = "RUNNING" /\ c = cpu THEN t
                ELSE IF curr[c] = t THEN Null ELSE curr[c]]

-----------------------------------------------------------------------------
(* select_task_rq() of the kernel overrides a CPU that is not active.      *)
AllowedTargets(cpu) == IF cpu \in active THEN {cpu} ELSE active

(* A CPU that is going down is emptied before it leaves the online mask.   *)
Drained(c) ==
  /\ curr[c] = Null
  /\ \A t \in Tasks : /\ target[t] # c
                      /\ tcpu[t] = c => st[t] # "READY"

CoreInit(queues) ==
  /\ st = [t \in Tasks |-> "NOT_QUEUED"]
  /\ tcpu \in [Tasks -> Cpus]
  /\ rq = [q \in queues |-> <<>>]
  /\ curr = [c \in Cpus |-> Null]
  /\ target = [t \in Tasks |-> Null]
  /\ online = Cpus
  /\ active = Cpus
-----------------------------------------------------------------------------
(* Where the threads are, in a policy with one runqueue per CPU: a READY   *)
(* thread is queued once, in the runqueue of its own CPU, a RUNNING thread *)
(* is the current of its own CPU and of no other, any other is nowhere.    *)
QueuedIffReady ==
  \A c \in Cpus, t \in Tasks :
    Contains(rq[c], t) <=> st[t] = "READY" /\ tcpu[t] = c

QueuedOnce ==
  \A c \in Cpus : \A i, j \in 1..Len(rq[c]) : rq[c][i] = rq[c][j] => i = j

CurrentIffRunning ==
  \A c \in Cpus, t \in Tasks :
    curr[c] = t <=> st[t] = "RUNNING" /\ tcpu[t] = c

Placed == QueuedIffReady /\ QueuedOnce /\ CurrentIffRunning
=============================================================================
