-------------------------- MODULE GlobalFifoProofs --------------------------
(***************************************************************************)
(* Theorems about GlobalFifo, for every set of threads, number of CPUs,    *)
(* pid assignment, quantum and width of the counters, whichever threads    *)
(* leave or are moved while they wait (Leavers).                           *)
(*                                                                         *)
(* The invariant says where a READY thread may be while cores pull from    *)
(* the global runqueue, and what a core that is in a pull has read: the    *)
(* lock keeps the head in place between PullFirst and PullRemove, and      *)
(* afterwards a steady thread that is READY and in no runqueue is nobody   *)
(* else's to move, which is what makes the pull correct without the lock.  *)
(* A thread that leaves may be carried by a core that does not know: of it *)
(* the invariant says less, and none of it is spoilt for the others.       *)
(***************************************************************************)
EXTENDS GlobalFifo, SaakmCoreProofs, FiniteSetTheorems

(* A queued thread is READY and in one runqueue.  A steady one is in the   *)
(* global runqueue or that of its CPU, and is carried by no core.          *)
QueuedThreads ==
  \A q \in Queues, t \in Tasks : Contains(rq[q], t) =>
    /\ st[t] = "READY"
    /\ \A r \in Queues : Contains(rq[r], t) => r = q
    /\ t \in Steady => /\ q = Global \/ q = tcpu[t]
                       /\ \A c \in Cpus : ~ Carries(c, t)

(* A steady thread that is carried is READY, carried by one core, which    *)
(* knows its CPU.                                                          *)
CarriedThreads ==
  \A c \in Cpus : pc[c] \in {"taken", "moving"} =>
    /\ next[c] \in Tasks
    /\ next[c] \in Steady =>
         /\ st[next[c]] = "READY"
         /\ \A d \in Cpus : Carries(d, next[c]) => d = c
         /\ pc[c] = "moving" => taskCpu[c] = tcpu[next[c]]

ReadyIsSomewhere ==
  \A t \in Tasks : st[t] = "READY" =>
    (\E q \in Queues : Contains(rq[q], t)) \/ (\E c \in Cpus : Carries(c, t))

QueuedOnceIn == \A q \in Queues : NoDuplicate(rq[q])

(* The threads that run are the currents, each of one CPU; a steady one is *)
(* that of its own CPU.                                                    *)
CurrentThreads ==
  \A t \in Tasks :
    /\ st[t] = "RUNNING" => \E c \in Cpus : curr[c] = t
    /\ \A c \in Cpus : curr[c] = t =>
         /\ st[t] = "RUNNING"
         /\ \A d \in Cpus : curr[d] = t => d = c
         /\ t \in Steady => tcpu[t] = c

LockIsHeld ==
  \A c \in Cpus : /\ pc[c] = "locked" <=> glock = c
                  /\ pc[c] = "locked" => next[c] \in Tasks

Located ==
  /\ QueuedThreads
  /\ CarriedThreads
  /\ ReadyIsSomewhere
  /\ QueuedOnceIn
  /\ CurrentThreads

IInv ==
  /\ TypeOK
  /\ Located
  /\ LockIsHeld
  /\ HeldHeadStaysQueued
  /\ NothingOnDeadCpu

-----------------------------------------------------------------------------
(* The global runqueue is none of the local ones.                          *)
LEMMA GlobalIsOther == Global \notin Cpus /\ Global # Null /\ Null \notin Queues
BY GlobalAssumption, NullAssumption DEF Cpus, Queues

(* A freshly loaded module: nothing is queued, running or placed.          *)
THEOREM InitIInv == Init => IInv
<1> SUFFICES ASSUME Init PROVE IInv
  OBVIOUS
<1> USE DEF Init, CoreInit
<1>1. TypeOK
  <2>1. 0 \in 0 .. Word - 1
    BY WordAssumption
  <2> QED BY <2>1 DEF TypeOK, ThreadState, ProcessState, CoreState, PullPc
<1>2. Located
  <2>1. \A q \in Queues, t \in Tasks : ~ Contains(rq[q], t)
    BY DEF Contains, Queues
  <2>2. QueuedThreads /\ CarriedThreads /\ ReadyIsSomewhere
    BY <2>1 DEF QueuedThreads, CarriedThreads, ReadyIsSomewhere
  <2>3. QueuedOnceIn
    BY DEF QueuedOnceIn, NoDuplicate, Queues
  <2>4. CurrentThreads
    BY NullAssumption DEF CurrentThreads
  <2> QED BY <2>2, <2>3, <2>4 DEF Located
<1>3. LockIsHeld /\ HeldHeadStaysQueued
  BY NullAssumption DEF LockIsHeld, HeldHeadStaysQueued, Cpus
<1>4. NothingOnDeadCpu
  BY DEF NothingOnDeadCpu, Steady
<1> QED BY <1>1, <1>2, <1>3, <1>4 DEF IInv

-----------------------------------------------------------------------------
(* What the moves of a thread have in common.                              *)

(* change_state runs t on the CPU given, if it is free, and nowhere else.  *)
LEMMA MoveCurrent ==
  ASSUME TypeOK, CurrentThreads,
         NEW t \in Tasks, NEW state \in ThreadState \cup {"READY_TICK"}, NEW cpu, NEW nextRq,
         ChangeState(t, state, cpu, nextRq),
         \A u \in Tasks \ {t} : tcpu'[u] = tcpu[u],
         state = "RUNNING" => /\ cpu \in Cpus /\ curr[cpu] = Null
                              /\ (t \in Steady => cpu = tcpu'[t])
  PROVE  /\ st' \in [Tasks -> ThreadState]
         /\ st' = [st EXCEPT ![t] = IF state = "READY_TICK" THEN "READY" ELSE state]
         /\ curr' \in [Cpus -> Tasks \cup {Null}]
         /\ CurrentThreads'
<1>1. /\ st' \in [Tasks -> ThreadState]
      /\ st' = [st EXCEPT ![t] = IF state = "READY_TICK" THEN "READY" ELSE state]
  BY DEF ChangeState, TypeOK, ThreadState
<1>2. /\ st'[t] = "RUNNING" <=> state = "RUNNING"
      /\ \A u \in Tasks : u # t => st'[u] = st[u]
  BY <1>1 DEF TypeOK
<1>3. /\ curr' \in [Cpus -> Tasks \cup {Null}]
      /\ \A c \in Cpus : curr'[c] = IF state = "RUNNING" /\ c = cpu THEN t
                                    ELSE IF curr[c] = t THEN Null ELSE curr[c]
  BY DEF ChangeState, TypeOK
<1>4. CurrentThreads'
  <2> SUFFICES ASSUME NEW u \in Tasks
               PROVE  /\ st'[u] = "RUNNING" => \E c \in Cpus : curr'[c] = u
                      /\ \A c \in Cpus : curr'[c] = u =>
                           /\ st'[u] = "RUNNING"
                           /\ \A d \in Cpus : curr'[d] = u => d = c
                           /\ u \in Steady => tcpu'[u] = c
    BY DEF CurrentThreads
  <2>0. u # Null
    BY NullAssumption
  <2>1. CASE u = t
    BY <1>2, <1>3, <2>0, <2>1
  <2>2. CASE u # t
    <3>1. \A c \in Cpus : curr'[c] = u <=> curr[c] = u
      BY <1>3, <2>0, <2>2
    <3> QED BY <1>2, <2>2, <3>1 DEF CurrentThreads
  <2> QED BY <2>1, <2>2
<1> QED BY <1>1, <1>3, <1>4

(* change_state puts t in the runqueue given, if any, and in no other; the *)
(* other threads stay where they are.                                      *)
LEMMA MovePlaces ==
  ASSUME TypeOK, Located,
         NEW t \in Tasks, NEW state \in ThreadState \cup {"READY_TICK"}, NEW cpu, NEW nextRq,
         ChangeState(t, state, cpu, nextRq),
         \A u \in Tasks \ {t} : tcpu'[u] = tcpu[u],
         state \in {"READY", "READY_TICK"} =>
           /\ nextRq \in Queues
           /\ (t \in Steady => nextRq \in {Global, tcpu'[t]}),
         state \notin {"READY", "READY_TICK"} => nextRq = Null,
         state = "RUNNING" => /\ cpu \in Cpus /\ curr[cpu] = Null
                              /\ (t \in Steady => cpu = tcpu'[t]),
         t \in Steady => (\A c \in Cpus : ~ Carries(c, t)'),
         \A c \in Cpus : \A u \in Tasks \ {t} : Carries(c, u)' <=> Carries(c, u)
  PROVE  /\ st' \in [Tasks -> ThreadState]
         /\ st' = [st EXCEPT ![t] = IF state = "READY_TICK" THEN "READY" ELSE state]
         /\ rq' \in [Cpus \cup {Global} -> Seq(Tasks)]
         /\ curr' \in [Cpus -> Tasks \cup {Null}]
         /\ QueuedThreads' /\ ReadyIsSomewhere' /\ QueuedOnceIn' /\ CurrentThreads'
<1>1. /\ rq' \in [Queues -> Seq(Tasks)]
      /\ \A q \in Queues : NoDuplicate(rq'[q])
      /\ \A q \in Queues : \A x : Contains(rq'[q], x) <=>
              \/ x # t /\ Contains(rq[q], x)
              \/ x = t /\ q = nextRq
  <2>1. rq \in [Queues -> Seq(Tasks)] /\ \A q \in Queues : NoDuplicate(rq[q])
    BY DEF TypeOK, Queues, Located, QueuedOnceIn
  <2> QED BY <2>1, ChangeStateQueues
<1>2. /\ st' \in [Tasks -> ThreadState]
      /\ st' = [st EXCEPT ![t] = IF state = "READY_TICK" THEN "READY" ELSE state]
      /\ curr' \in [Cpus -> Tasks \cup {Null}]
      /\ CurrentThreads'
  BY MoveCurrent DEF Located
<1>3. \A u \in Tasks : u # t => st'[u] = st[u]
  BY <1>2 DEF TypeOK
<1>4. st'[t] = "READY" <=> state \in {"READY", "READY_TICK"}
  BY <1>2 DEF TypeOK
<1>6. QueuedThreads'
  <2> SUFFICES ASSUME NEW q \in Queues, NEW u \in Tasks, Contains(rq'[q], u)
               PROVE  /\ st'[u] = "READY"
                      /\ \A r \in Queues : Contains(rq'[r], u) => r = q
                      /\ u \in Steady => /\ q = Global \/ q = tcpu'[u]
                                         /\ \A c \in Cpus : ~ Carries(c, u)'
    BY DEF QueuedThreads
  <2>1. CASE u = t
    <3>1. q = nextRq /\ nextRq # Null
      BY <1>1, <2>1, GlobalIsOther
    <3> QED BY <1>1, <1>4, <2>1, <3>1
  <2>2. CASE u # t
    BY <1>1, <1>3, <2>2 DEF Located, QueuedThreads
  <2> QED BY <2>1, <2>2
<1>7. ReadyIsSomewhere'
  <2> SUFFICES ASSUME NEW u \in Tasks, st'[u] = "READY"
               PROVE  \/ \E q \in Queues : Contains(rq'[q], u)
                      \/ \E c \in Cpus : Carries(c, u)'
    BY DEF ReadyIsSomewhere
  <2>1. CASE u = t
    BY <1>1, <1>4, <2>1
  <2>2. CASE u # t
    BY <1>1, <1>3, <2>2 DEF Located, ReadyIsSomewhere
  <2> QED BY <2>1, <2>2
<1>8. QueuedOnceIn'
  BY <1>1 DEF QueuedOnceIn
<1> QED BY <1>1, <1>2, <1>6, <1>7, <1>8 DEF Queues

(* A steady thread that is not READY, or is queued, is carried by no core. *)
LEMMA NotCarried ==
  ASSUME Located, NEW t \in Steady,
         st[t] # "READY" \/ \E q \in Queues : Contains(rq[q], t)
  PROVE  \A c \in Cpus : ~ Carries(c, t)
BY DEF Steady, Located, QueuedThreads, CarriedThreads, Carries

(* A runqueue that change_state leaves alone.                              *)
LEMMA QueueUntouched ==
  ASSUME TypeOK, NEW t \in Tasks, NEW state, NEW cpu, NEW nextRq, NEW q \in Queues,
         ChangeState(t, state, cpu, nextRq),
         q # nextRq, ~ Contains(rq[q], t)
  PROVE  rq'[q] = rq[q]
BY DEF TypeOK, ChangeState, Without, Queues

(* Taking another thread out of a runqueue leaves its head.                *)
LEMMA HeadStays ==
  ASSUME NEW q \in Seq(Tasks), NEW t \in Tasks, FirstTask(q) # Null, FirstTask(q) # t
  PROVE  FirstTask(Without(q, t)) = FirstTask(q)
<1>1. q # <<>> /\ FirstTask(q) = q[1]
  BY DEF FirstTask
<1>2. CASE ~ Contains(q, t)
  BY <1>2 DEF Without
<1>3. CASE Contains(q, t)
  <2> DEFINE i == PositionOf(q, t)
             r == RemoveAt(q, i)
  <2>1. i \in 1..Len(q) /\ q[i] = t
    BY <1>3 DEF Contains, PositionOf
  <2>2. Without(q, t) = r
    BY <1>3 DEF Without
  <2> HIDE DEF i
  <2>3. i # 1 /\ 1 \in 1..(i - 1) /\ Len(q) > 1
    BY <1>1, <2>1
  <2>4. r \in Seq(Tasks) /\ Len(r) = Len(q) - 1 /\ r[1] = q[1]
    BY <2>1, <2>3, RemoveAtFacts
  <2> HIDE DEF r
  <2>5. r # <<>> /\ Head(r) = r[1]
    BY <2>3, <2>4
  <2> QED BY <1>1, <2>2, <2>4, <2>5 DEF FirstTask
<1> QED BY <1>2, <1>3

(* A move keeps the head that a core has read under the global lock: the   *)
(* runqueue is left alone, or only a thread that leaves is taken out.      *)
LEMMA MoveKeepsHead ==
  ASSUME TypeOK, LockIsHeld, HeldHeadStaysQueued,
         NEW t \in Tasks, NEW state, NEW cpu, NEW nextRq,
         ChangeState(t, state, cpu, nextRq),
         glock = Null \/ (nextRq # Global /\ (Contains(rq[Global], t) => t \in Leavers)),
         NEW c \in Cpus, pc[c] = "locked", next[c] \in Steady
  PROVE  FirstTask(rq'[Global]) = next[c]
<1>1. /\ glock = c /\ glock # Null /\ FirstTask(rq[Global]) = next[c] /\ next[c] # Null
      /\ Global \in Queues /\ rq[Global] \in Seq(Tasks)
  BY NullAssumption DEF TypeOK, LockIsHeld, HeldHeadStaysQueued, Steady, Queues, Cpus
<1>2. CASE ~ Contains(rq[Global], t)
  BY <1>1, <1>2, QueueUntouched
<1>3. CASE t \in Leavers
  <2>1. rq'[Global] = Without(rq[Global], t)
    BY <1>1 DEF ChangeState, TypeOK
  <2>2. next[c] # t
    BY <1>3 DEF Steady
  <2> QED BY <1>1, <2>1, <2>2, HeadStays
<1> QED BY <1>1, <1>2, <1>3

(* Every handler but those of the pull moves at most one thread, and if it *)
(* is a steady one, which no core carries, to an online CPU; it touches    *)
(* the global runqueue only while nobody holds its lock, or takes out of   *)
(* it a thread that leaves.                                                *)
LEMMA MoveIInv ==
  ASSUME IInv,
         NEW t \in Tasks, NEW state \in ThreadState \cup {"READY_TICK"}, NEW cpu, NEW nextRq,
         ChangeState(t, state, cpu, nextRq),
         t \in Steady => st[t] # "READY" \/ \E q \in Queues : Contains(rq[q], t),
         tcpu' \in [Tasks -> Cpus],
         \A u \in Tasks \ {t} : tcpu'[u] = tcpu[u],
         state \in {"READY", "READY_TICK"} =>
           /\ nextRq \in Queues
           /\ (t \in Steady => nextRq \in {Global, tcpu'[t]} /\ tcpu'[t] \in online),
         state \notin {"READY", "READY_TICK"} => nextRq = Null,
         state = "RUNNING" => /\ cpu \in online /\ curr[cpu] = Null
                              /\ (t \in Steady => cpu = tcpu'[t]),
         glock = Null \/ (nextRq # Global /\ (Contains(rq[Global], t) => t \in Leavers)),
         target' \in [Tasks -> Cpus \cup {Null}],
         \A u \in Tasks : target'[u] # Null => target'[u] \in online,
         fp' \in [Tasks -> ProcessState], quantum' \in [Tasks -> 0 .. Word - 1],
         fcur' \in [Cpus -> Tasks \cup {Null}],
         UNCHANGED <<online, active, coreInfo, pull>>
  PROVE  IInv'
<1>1. /\ UNCHANGED <<online, active, cstate, onlineCores, idleCores>>
      /\ UNCHANGED <<glock, pc, next, taskCpu>>
  BY DEF coreInfo, pull
<1>2. /\ \A c \in Cpus : \A u \in Tasks : Carries(c, u)' <=> Carries(c, u)
      /\ t \in Steady => \A c \in Cpus : ~ Carries(c, t) /\ ~ Carries(c, t)'
  BY <1>1, NotCarried DEF IInv, Carries
<1>3. /\ st' \in [Tasks -> ThreadState]
      /\ st' = [st EXCEPT ![t] = IF state = "READY_TICK" THEN "READY" ELSE state]
      /\ rq' \in [Cpus \cup {Global} -> Seq(Tasks)]
      /\ curr' \in [Cpus -> Tasks \cup {Null}]
      /\ QueuedThreads' /\ ReadyIsSomewhere' /\ QueuedOnceIn' /\ CurrentThreads'
  <2>1. online \subseteq Cpus
    BY DEF IInv, TypeOK
  <2> QED BY <1>2, <2>1, MovePlaces DEF IInv
<1>4. \A u \in Tasks : u # t => st'[u] = st[u]
  BY <1>3 DEF IInv, TypeOK
<1>5. TypeOK'
  BY <1>1, <1>3 DEF IInv, TypeOK
<1>6. CarriedThreads'
  <2> SUFFICES ASSUME NEW c \in Cpus, pc'[c] \in {"taken", "moving"}
               PROVE  /\ next'[c] \in Tasks
                      /\ next'[c] \in Steady =>
                           /\ st'[next'[c]] = "READY"
                           /\ \A d \in Cpus : Carries(d, next[c])' => d = c
                           /\ pc'[c] = "moving" => taskCpu'[c] = tcpu'[next'[c]]
    BY <1>1 DEF CarriedThreads
  <2>1. next[c] \in Tasks /\ Carries(c, next[c])
    BY <1>1 DEF IInv, Located, CarriedThreads, Carries
  <2>2. next[c] \in Steady => next[c] # t
    BY <1>2, <2>1
  <2> QED BY <1>1, <1>2, <1>4, <2>1, <2>2 DEF IInv, Located, CarriedThreads
<1>7. LockIsHeld'
  BY <1>1 DEF IInv, LockIsHeld
<1>8. HeldHeadStaysQueued'
  <2> SUFFICES ASSUME NEW c \in Cpus, pc[c] = "locked", next[c] \in Steady
               PROVE  FirstTask(rq'[Global]) = next[c]
    BY <1>1 DEF HeldHeadStaysQueued
  <2> QED BY MoveKeepsHead DEF IInv
<1>9. NothingOnDeadCpu'
  <2>1. ASSUME NEW u \in Steady, st'[u] = "READY" PROVE tcpu'[u] \in online'
    <3>1. CASE u = t
      BY <1>1, <1>3, <2>1, <3>1 DEF IInv, TypeOK
    <3>2. CASE u # t
      BY <1>1, <1>4, <2>1, <3>2 DEF IInv, NothingOnDeadCpu, Steady
    <3> QED BY <3>1, <3>2
  <2>2. ASSUME NEW c \in Cpus \ online' PROVE curr'[c] = Null
    BY <1>1, <2>2 DEF ChangeState, IInv, NothingOnDeadCpu
  <2>3. ASSUME NEW c \in Cpus \ online', NEW u \in Steady PROVE ~ Contains(rq'[c], u)
    <3>1. c \in Cpus /\ c \notin online'
      BY <2>3
    <3>2. Contains(rq'[c], u) => st'[u] = "READY" /\ tcpu'[u] = c
      BY <1>3, <3>1, GlobalIsOther DEF QueuedThreads, Queues, Steady
    <3> QED BY <2>1, <3>1, <3>2
  <2> QED BY <1>1, <2>1, <2>2, <2>3 DEF IInv, NothingOnDeadCpu
<1> QED BY <1>3, <1>5, <1>6, <1>7, <1>8, <1>9 DEF IInv, Located

-----------------------------------------------------------------------------
(* Thread events.                                                          *)

(* The current of a CPU is RUNNING there and nowhere else.                 *)
LEMMA CurrentIsRunning ==
  ASSUME IInv, NEW c \in Cpus, curr[c] # Null
  PROVE  /\ curr[c] \in Tasks
         /\ st[curr[c]] = "RUNNING" /\ c \in online
         /\ curr[c] \in Steady => tcpu[curr[c]] = c
BY DEF IInv, TypeOK, Located, CurrentThreads, NothingOnDeadCpu

(* A thread that is not READY is in no runqueue.                           *)
LEMMA OnlyReadyIsQueued ==
  ASSUME IInv, NEW t \in Tasks, st[t] # "READY", NEW q \in Queues
  PROVE  ~ Contains(rq[q], t)
BY DEF IInv, Located, QueuedThreads

(* new_prepare touches a thread that is neither queued nor running.        *)
LEMMA NewPrepareIInv ==
  ASSUME IInv, NEW t \in Tasks, NewPrepare(t)
  PROVE  IInv'
<1>1. /\ st[t] \in {"NOT_QUEUED", "TERMINATED"} /\ st' = [st EXCEPT ![t] = "NOT_QUEUED"]
      /\ UNCHANGED <<tcpu, rq, curr, online, active>>
      /\ UNCHANGED <<cstate, onlineCores, idleCores, glock, pc, next, taskCpu>>
  BY DEF NewPrepare, coreInfo, pull
<1>2. PICK d \in AllowedTargets(SelectCpu(t)) : target' = [target EXCEPT ![t] = d]
  BY DEF NewPrepare
<1>3. d \in online /\ d \in Cpus
  BY <1>2 DEF AllowedTargets, IInv, TypeOK
<1>4. TypeOK'
  <2>1. /\ quantum' \in [Tasks -> 0 .. Word - 1] /\ fp' \in [Tasks -> ProcessState]
        /\ st' \in [Tasks -> ThreadState]
    BY WordAssumption DEF NewPrepare, IInv, TypeOK, ThreadState, ProcessState
  <2> QED BY <1>1, <1>2, <1>3, <2>1 DEF NewPrepare, IInv, TypeOK
<1>5. \A u \in Tasks : /\ st'[u] = "READY" <=> st[u] = "READY"
                       /\ st'[u] = "RUNNING" <=> st[u] = "RUNNING"
  BY <1>1 DEF IInv, TypeOK
<1>6. \A c \in Cpus, u \in Tasks : Carries(c, u)' <=> Carries(c, u)
  BY <1>1 DEF Carries
<1>7. Located'
  <2>1. QueuedThreads'
    BY <1>1, <1>5, <1>6 DEF IInv, Located, QueuedThreads
  <2>2. CarriedThreads'
    BY <1>1, <1>5, <1>6 DEF IInv, Located, CarriedThreads, Steady
  <2>3. ReadyIsSomewhere'
    BY <1>1, <1>5, <1>6 DEF IInv, Located, ReadyIsSomewhere
  <2>4. QueuedOnceIn' /\ CurrentThreads'
    BY <1>1, <1>5 DEF IInv, Located, QueuedOnceIn, CurrentThreads
  <2> QED BY <2>1, <2>2, <2>3, <2>4 DEF Located
<1>8. LockIsHeld' /\ HeldHeadStaysQueued'
  BY <1>1 DEF IInv, LockIsHeld, HeldHeadStaysQueued
<1>9. NothingOnDeadCpu'
  BY <1>1, <1>2, <1>3, <1>5 DEF IInv, TypeOK, NothingOnDeadCpu, Steady
<1> QED BY <1>4, <1>7, <1>8, <1>9 DEF IInv

(* *_place appends a thread that was nowhere to the global runqueue.       *)
LEMMA PlaceIInv ==
  ASSUME IInv, NEW t \in Tasks, NEW from \in {"NOT_QUEUED", "BLOCKED"}, Place(t, from)
  PROVE  IInv'
<1>1. /\ st[t] # "READY" /\ target[t] \in Cpus /\ target[t] \in online
      /\ ChangeState(t, "READY", target[t], Global)
      /\ tcpu' = [tcpu EXCEPT ![t] = target[t]]
      /\ target' = [target EXCEPT ![t] = Null]
      /\ glock = Null
      /\ UNCHANGED <<fp, quantum, fcur>>
      /\ UNCHANGED <<online, active, coreInfo, pull>>
  BY DEF Place, GlobalLockFree, IInv, TypeOK, NothingOnDeadCpu
<1>2. /\ tcpu' \in [Tasks -> Cpus] /\ tcpu'[t] = target[t]
      /\ \A u \in Tasks \ {t} : tcpu'[u] = tcpu[u]
      /\ target' \in [Tasks -> Cpus \cup {Null}]
      /\ \A u \in Tasks : target'[u] # Null => target'[u] \in online
      /\ fp' \in [Tasks -> ProcessState] /\ quantum' \in [Tasks -> 0 .. Word - 1]
      /\ fcur' \in [Cpus -> Tasks \cup {Null}]
  BY <1>1 DEF IInv, TypeOK, NothingOnDeadCpu
<1>3. "READY" \in ThreadState \cup {"READY_TICK"} /\ Global \in Queues
  BY DEF ThreadState, Queues
<1> QED BY <1>1, <1>2, <1>3, MoveIInv

(* What the other handlers that move t leave alone.                        *)
LEMMA StayIInv ==
  ASSUME IInv,
         NEW t \in Tasks, NEW state \in {"READY", "READY_TICK", "BLOCKED", "TERMINATED"},
         NEW nextRq,
         ChangeState(t, state, tcpu[t], nextRq),
         st[t] # "READY" \/ t \in Leavers,
         state \in {"READY", "READY_TICK"} =>
           /\ nextRq \in Queues
           /\ (t \in Steady => nextRq \in {Global, tcpu[t]} /\ tcpu[t] \in online),
         state \notin {"READY", "READY_TICK"} => nextRq = Null,
         glock = Null \/ nextRq # Global,
         target' \in [Tasks -> Cpus \cup {Null}],
         \A u \in Tasks : target'[u] # Null => target'[u] \in online,
         fp' \in [Tasks -> ProcessState], quantum' \in [Tasks -> 0 .. Word - 1],
         fcur' \in [Cpus -> Tasks \cup {Null}],
         UNCHANGED <<tcpu, online, active, coreInfo, pull>>
  PROVE  IInv'
<1>1. /\ state \in ThreadState \cup {"READY_TICK"} /\ state # "RUNNING"
      /\ tcpu' \in [Tasks -> Cpus] /\ tcpu' = tcpu
      /\ Contains(rq[Global], t) => t \in Leavers
      /\ t \in Steady => st[t] # "READY"
  BY OnlyReadyIsQueued DEF ThreadState, IInv, TypeOK, Queues, Steady
<1>2. UNCHANGED <<online, active, coreInfo, pull>>
  OBVIOUS
<1> QED BY <1>1, <1>2, MoveIInv

(* A tick at the quantum requeues the thread, on its own CPU if nothing    *)
(* waits there; without the lock only then.                                *)
LEMMA TickIInv ==
  ASSUME IInv, NEW c \in Cpus, NEW gap \in 1..MaxTickGap, Tick(c, gap)
  PROVE  IInv'
<1> DEFINE t == curr[c]
<1>1. /\ t \in Tasks /\ st[t] = "RUNNING" /\ c \in online
      /\ t \in Steady => tcpu[t] = c
  BY CurrentIsRunning DEF Tick
<1>2. Used(t, gap) \in 0 .. Word - 1 /\ 0 \in 0 .. Word - 1
  <2>1. quantum[t] \in Nat /\ Word \in Nat /\ Word > 0 /\ gap \in Nat /\ gap < Word
    BY <1>1, WordAssumption DEF IInv, TypeOK
  <2>2. quantum[t] + Word - gap \in Nat
    BY <2>1
  <2> QED BY <2>1, <2>2 DEF Used
<1>3. /\ quantum' \in [Tasks -> 0 .. Word - 1]
      /\ fp' \in [Tasks -> ProcessState] /\ fcur' \in [Cpus -> Tasks \cup {Null}]
      /\ target' \in [Tasks -> Cpus \cup {Null}]
      /\ \A u \in Tasks : target'[u] # Null => target'[u] \in online
      /\ tcpu' = tcpu
      /\ UNCHANGED <<tcpu, online, active, coreInfo, pull>>
  BY <1>1, <1>2 DEF Tick, IInv, TypeOK, NothingOnDeadCpu
<1>4. CASE Used(t, gap) >= Quantum
  <2>1. /\ ChangeState(t, "READY_TICK", tcpu[t], RequeueOn(c))
        /\ RequeueOn(c) \in {Global, c} /\ RequeueOn(c) \in Queues
        /\ glock = Null \/ RequeueOn(c) # Global
    BY <1>1, <1>4 DEF Tick, RequeueOn, GlobalLockFree, Queues
  <2> QED BY <1>1, <1>3, <2>1, StayIInv
<1>5. CASE ~ (Used(t, gap) >= Quantum)
  <2>1. UNCHANGED <<st, rq, curr>>
    BY <1>5 DEF Tick
  <2>2. /\ UNCHANGED <<st, tcpu, rq, curr, online, active>>
        /\ UNCHANGED <<cstate, onlineCores, idleCores, glock, pc, next, taskCpu>>
    BY <1>3, <2>1 DEF coreInfo, pull
  <2>3. TypeOK'
    BY <1>3, <2>2 DEF IInv, TypeOK
  <2>4. Located'
    BY <2>2 DEF IInv, Located, QueuedThreads, CarriedThreads, ReadyIsSomewhere, QueuedOnceIn,
                CurrentThreads, Carries
  <2>5. LockIsHeld' /\ HeldHeadStaysQueued' /\ NothingOnDeadCpu'
    BY <1>3, <2>2 DEF IInv, LockIsHeld, HeldHeadStaysQueued, NothingOnDeadCpu
  <2> QED BY <2>3, <2>4, <2>5 DEF IInv
<1> QED BY <1>4, <1>5

(* A yield appends the thread to the global runqueue.                      *)
LEMMA YieldIInv ==
  ASSUME IInv, NEW c \in Cpus, Yield(c)
  PROVE  IInv'
<1> DEFINE t == curr[c]
<1>1. /\ t \in Tasks /\ st[t] = "RUNNING" /\ c \in online /\ Global \in Queues
      /\ t \in Steady => tcpu[t] = c
  BY CurrentIsRunning DEF Yield, Queues
<1>2. /\ ChangeState(t, "READY", tcpu[t], Global) /\ glock = Null
      /\ quantum' \in [Tasks -> 0 .. Word - 1]
      /\ fp' \in [Tasks -> ProcessState] /\ fcur' \in [Cpus -> Tasks \cup {Null}]
      /\ target' \in [Tasks -> Cpus \cup {Null}]
      /\ \A u \in Tasks : target'[u] # Null => target'[u] \in online
      /\ UNCHANGED <<tcpu, online, active, coreInfo, pull>>
  BY DEF Yield, GlobalLockFree, IInv, TypeOK, NothingOnDeadCpu
<1> QED BY <1>1, <1>2, StayIInv

(* fifo_block, for a thread that blocks and for one that is moved away.    *)
LEMMA BlockTaskIInv ==
  ASSUME IInv, NEW t \in Tasks, st[t] # "READY" \/ t \in Leavers, BlockTask(t),
         target' \in [Tasks -> Cpus \cup {Null}],
         \A u \in Tasks : target'[u] # Null => target'[u] \in online
  PROVE  IInv'
<1>1. /\ ChangeState(t, "BLOCKED", tcpu[t], Null) /\ Null # Global
      /\ quantum' \in [Tasks -> 0 .. Word - 1]
      /\ fp' \in [Tasks -> ProcessState] /\ fcur' \in [Cpus -> Tasks \cup {Null}]
      /\ UNCHANGED <<tcpu, online, active, coreInfo, pull>>
  BY GlobalIsOther DEF BlockTask, IInv, TypeOK
<1> QED BY <1>1, StayIInv

(* terminate takes the thread out of where it waits, without the lock.     *)
LEMMA TerminateIInv ==
  ASSUME IInv, NEW t \in Tasks, Terminate(t)
  PROVE  IInv'
<1>1. st[t] # "READY" \/ t \in Leavers
  BY DEF Terminate, LeavesFrom
<1>2. /\ ChangeState(t, "TERMINATED", tcpu[t], Null) /\ Null # Global
      /\ quantum' \in [Tasks -> 0 .. Word - 1]
      /\ fp' \in [Tasks -> ProcessState] /\ fcur' \in [Cpus -> Tasks \cup {Null}]
      /\ target' \in [Tasks -> Cpus \cup {Null}]
      /\ \A u \in Tasks : target'[u] # Null => target'[u] \in online
      /\ UNCHANGED <<tcpu, online, active, coreInfo, pull>>
  BY GlobalIsOther DEF Terminate, IInv, TypeOK, ProcessState, NothingOnDeadCpu
<1> QED BY <1>1, <1>2, StayIInv

(* schedule runs a thread of its own CPU, from either runqueue.            *)
LEMMA ElectIInv ==
  ASSUME IInv, NEW c \in Cpus, NEW q \in {c, Global}, NEW t,
         t = NextTask(q), t # Null, c \in online, curr[c] = Null,
         q = Global => tcpu[t] = c /\ glock = Null,
         Elect(c, t)
  PROVE  IInv'
<1>1. rq[q] \in Seq(Tasks) /\ q \in Queues
  BY DEF IInv, TypeOK, Queues
<1>2. rq[q] # <<>> /\ t = rq[q][1]
  BY <1>1 DEF NextTask, FirstTask
<1>3. t \in Tasks /\ Contains(rq[q], t)
  <2>1. 1 \in 1..Len(rq[q]) /\ rq[q][1] \in Tasks
    BY <1>1, <1>2
  <2> QED BY <1>2, <2>1 DEF Contains
<1>4. /\ t \in Steady => tcpu[t] = c
      /\ glock = Null \/ ~ Contains(rq[Global], t)
  BY <1>1, <1>3, GlobalIsOther DEF IInv, Located, QueuedThreads, Queues
<1>5. /\ ChangeState(t, "RUNNING", c, Null) /\ Null # Global
      /\ quantum' = [quantum EXCEPT ![t] = 0]
      /\ fp' = [fp EXCEPT ![t] = "NOT_QUEUED"]
      /\ fcur' = [fcur EXCEPT ![c] = t]
      /\ UNCHANGED <<tcpu, target>>
      /\ UNCHANGED <<online, active, coreInfo, pull>>
  BY GlobalIsOther DEF Elect
<1>6. /\ tcpu' \in [Tasks -> Cpus] /\ tcpu' = tcpu
      /\ quantum' \in [Tasks -> 0 .. Word - 1]
      /\ fp' \in [Tasks -> ProcessState] /\ fcur' \in [Cpus -> Tasks \cup {Null}]
      /\ target' \in [Tasks -> Cpus \cup {Null}]
      /\ \A u \in Tasks : target'[u] # Null => target'[u] \in online
  <2>1. 0 \in 0 .. Word - 1
    BY WordAssumption
  <2> QED BY <1>3, <1>5, <2>1 DEF IInv, TypeOK, ProcessState, NothingOnDeadCpu
<1>7. "RUNNING" \in ThreadState \cup {"READY_TICK"}
  BY DEF ThreadState
<1> QED BY <1>1, <1>3, <1>4, <1>5, <1>6, <1>7, MoveIInv

LEMMA ScheduleIInv ==
  ASSUME IInv, NEW c \in Cpus, Schedule(c)
  PROVE  IInv'
<1>1. CASE NextTask(c) # Null /\ Elect(c, NextTask(c))
  BY <1>1, ElectIInv, GlobalIsOther DEF Schedule
<1>2. CASE /\ GlobalLockFree /\ NextTask(Global) # Null
           /\ tcpu[NextTask(Global)] = c /\ Elect(c, NextTask(Global))
  BY <1>2, ElectIInv DEF Schedule, GlobalLockFree
<1> QED BY <1>1, <1>2 DEF Schedule

-----------------------------------------------------------------------------
(* The steps of a pull.                                                    *)

(* The core takes the lock and reads the head.                             *)
LEMMA PullFirstIInv ==
  ASSUME IInv, NEW c \in Cpus, PullFirst(c)
  PROVE  IInv'
<1> DEFINE t == NextTask(Global)
<1>1. /\ pc[c] = "out" /\ glock = Null /\ t # Null /\ c \in online
      /\ glock' = c
      /\ next' = [next EXCEPT ![c] = t]
      /\ pc' = [pc EXCEPT ![c] = "locked"]
      /\ UNCHANGED <<st, tcpu, rq, curr, target, online, active, fp, quantum, fcur>>
      /\ UNCHANGED <<cstate, onlineCores, idleCores, taskCpu>>
  BY DEF PullFirst, GlobalLockFree, coreVars, coreInfo
<1>2. t \in Tasks
  <2>1. rq[Global] \in Seq(Tasks) /\ rq[Global] # <<>> /\ t = Head(rq[Global])
    BY <1>1 DEF NextTask, FirstTask, IInv, TypeOK
  <2> QED BY <2>1
<1>3. TypeOK'
  BY <1>1, <1>2 DEF IInv, TypeOK, PullPc
<1>4. \A d \in Cpus, u \in Tasks : Carries(d, u)' <=> Carries(d, u)
  BY <1>1 DEF Carries, IInv, TypeOK
<1>5. Located'
  <2>1. QueuedThreads' /\ ReadyIsSomewhere' /\ QueuedOnceIn' /\ CurrentThreads'
    BY <1>1, <1>4 DEF IInv, Located, QueuedThreads, ReadyIsSomewhere, QueuedOnceIn, CurrentThreads
  <2>2. CarriedThreads'
    BY <1>1, <1>4 DEF IInv, TypeOK, Located, CarriedThreads, Steady
  <2> QED BY <2>1, <2>2 DEF Located
<1>6. LockIsHeld'
  BY <1>1, <1>2, NullAssumption DEF IInv, TypeOK, LockIsHeld, Cpus
<1>7. HeldHeadStaysQueued'
  <2>1. \A d \in Cpus : pc[d] # "locked"
    BY <1>1, NullAssumption DEF IInv, LockIsHeld, Cpus
  <2> QED BY <1>1, <2>1 DEF IInv, TypeOK, HeldHeadStaysQueued, NextTask
<1>8. NothingOnDeadCpu'
  BY <1>1 DEF IInv, TypeOK, NothingOnDeadCpu
<1> QED BY <1>3, <1>5, <1>6, <1>7, <1>8 DEF IInv

(* Under the lock, the head that was read is still in the runqueue, if it  *)
(* is a steady thread: once removed, it is in no other.  One that has left *)
(* in the meantime is taken out if it is there, and carried.               *)
LEMMA PullRemoveIInv ==
  ASSUME IInv, NEW c \in Cpus, PullRemove(c)
  PROVE  IInv'
<1> DEFINE t == next[c]
<1>1. /\ pc[c] = "locked"
      /\ rq' = [rq EXCEPT ![Global] = Without(@, t)]
      /\ glock' = Null
      /\ pc' = [pc EXCEPT ![c] = "taken"]
      /\ UNCHANGED <<st, tcpu, curr, target, online, active, fp, quantum, fcur>>
      /\ UNCHANGED <<cstate, onlineCores, idleCores, next, taskCpu>>
  BY DEF PullRemove, coreInfo
<1>2. /\ t \in Tasks /\ glock = c /\ t # Null /\ rq[Global] \in Seq(Tasks)
      /\ t \in Steady => FirstTask(rq[Global]) = t
  BY <1>1, NullAssumption DEF IInv, TypeOK, LockIsHeld, HeldHeadStaysQueued
<1>3. t \in Steady => Contains(rq[Global], t)
  <2> SUFFICES ASSUME t \in Steady PROVE Contains(rq[Global], t)
    OBVIOUS
  <2>1. rq[Global] # <<>> /\ t = rq[Global][1]
    BY <1>2 DEF FirstTask
  <2>2. 1 \in 1..Len(rq[Global])
    BY <1>2, <2>1
  <2> QED BY <2>1, <2>2 DEF Contains
<1>4. t \in Steady => /\ st[t] = "READY"
                      /\ \A r \in Queues : Contains(rq[r], t) => r = Global
                      /\ \A d \in Cpus : ~ Carries(d, t)
  BY <1>2, <1>3 DEF IInv, Located, QueuedThreads, Queues
<1>5. /\ rq'[Global] \in Seq(Tasks) /\ NoDuplicate(rq'[Global])
      /\ \A x : Contains(rq'[Global], x) <=> Contains(rq[Global], x) /\ x # t
  <2>1. rq'[Global] = Without(rq[Global], t)
    BY <1>1 DEF IInv, TypeOK
  <2>2. NoDuplicate(rq[Global])
    BY DEF IInv, Located, QueuedOnceIn, Queues
  <2> QED BY <1>2, <2>1, <2>2, WithoutFacts
<1>6. \A q \in Queues : q # Global => rq'[q] = rq[q]
  BY <1>1 DEF IInv, TypeOK, Queues
<1>7. /\ \A q \in Queues, u \in Tasks : Contains(rq'[q], u) => Contains(rq[q], u)
      /\ \A q \in Queues, u \in Tasks : u # t => (Contains(rq'[q], u) <=> Contains(rq[q], u))
      /\ t \in Steady => \A q \in Queues : ~ Contains(rq'[q], t)
  BY <1>4, <1>5, <1>6
<1>8. \A d \in Cpus, u \in Tasks : Carries(d, u)' <=> Carries(d, u) \/ (d = c /\ u = t)
  BY <1>1 DEF Carries, IInv, TypeOK
<1> HIDE DEF t
<1>9. TypeOK'
  BY <1>1, <1>5 DEF IInv, TypeOK, PullPc
<1>10. Located'
  <2>1. QueuedThreads'
    BY <1>1, <1>7, <1>8 DEF IInv, Located, QueuedThreads, Steady
  <2>2. CarriedThreads'
    <3> SUFFICES ASSUME NEW d \in Cpus, pc'[d] \in {"taken", "moving"}
                 PROVE  /\ next[d] \in Tasks
                        /\ next[d] \in Steady =>
                             /\ st[next[d]] = "READY"
                             /\ \A e \in Cpus : Carries(e, next[d])' => e = d
                             /\ pc'[d] = "moving" => taskCpu[d] = tcpu[next[d]]
      BY <1>1 DEF CarriedThreads
    <3>1. CASE d = c
      BY <1>1, <1>2, <1>4, <1>8, <3>1 DEF IInv, TypeOK, t
    <3>2. CASE d # c
      <4>1. pc[d] \in {"taken", "moving"} /\ pc'[d] = pc[d] /\ next[d] \in Tasks /\ Carries(d, next[d])
        BY <1>1, <3>2 DEF IInv, TypeOK, Located, CarriedThreads, Carries
      <4>2. next[d] \in Steady => next[d] # t
        BY <1>4, <4>1
      <4>3. next[d] \in Steady => \A e \in Cpus : Carries(e, next[d])' <=> Carries(e, next[d])
        BY <1>1, <1>8, <4>1, <4>2
      <4> QED BY <4>1, <4>3 DEF IInv, Located, CarriedThreads
    <3> QED BY <3>1, <3>2
  <2>3. ReadyIsSomewhere'
    <3> SUFFICES ASSUME NEW u \in Tasks, st[u] = "READY"
                 PROVE  \/ \E q \in Queues : Contains(rq'[q], u)
                        \/ \E d \in Cpus : Carries(d, u)'
      BY <1>1 DEF ReadyIsSomewhere
    <3>1. CASE u = t
      BY <1>8, <3>1
    <3>2. CASE u # t
      BY <1>7, <1>8, <3>2 DEF IInv, Located, ReadyIsSomewhere
    <3> QED BY <3>1, <3>2
  <2>4. QueuedOnceIn' /\ CurrentThreads'
    BY <1>1, <1>5, <1>6 DEF IInv, Located, QueuedOnceIn, CurrentThreads
  <2> QED BY <2>1, <2>2, <2>3, <2>4 DEF Located
<1>11. \A d \in Cpus : pc'[d] # "locked"
  BY <1>1, <1>2 DEF IInv, TypeOK, LockIsHeld
<1>12. LockIsHeld' /\ HeldHeadStaysQueued'
  BY <1>1, <1>11, NullAssumption DEF LockIsHeld, HeldHeadStaysQueued, Cpus
<1>13. NothingOnDeadCpu'
  <2>1. \A d \in Cpus : d \in Queues /\ d # Global
    BY GlobalIsOther DEF Queues
  <2> QED BY <1>1, <1>6, <2>1 DEF IInv, TypeOK, NothingOnDeadCpu
<1> QED BY <1>9, <1>10, <1>12, <1>13 DEF IInv

(* The CPU of the thread is read without a lock: nobody else moves it,     *)
(* unless it leaves.                                                       *)
LEMMA PullReadCpuIInv ==
  ASSUME IInv, NEW c \in Cpus, PullReadCpu(c)
  PROVE  IInv'
<1>1. /\ pc[c] = "taken"
      /\ taskCpu' = [taskCpu EXCEPT ![c] = tcpu[next[c]]]
      /\ pc' = [pc EXCEPT ![c] = "moving"]
      /\ UNCHANGED <<st, tcpu, rq, curr, target, online, active, fp, quantum, fcur>>
      /\ UNCHANGED <<cstate, onlineCores, idleCores, glock, next>>
  BY DEF PullReadCpu, coreVars, coreInfo
<1>2. next[c] \in Tasks
  BY <1>1 DEF IInv, Located, CarriedThreads
<1>3. TypeOK'
  BY <1>1, <1>2 DEF IInv, TypeOK, PullPc
<1>4. \A d \in Cpus, u \in Tasks : Carries(d, u)' <=> Carries(d, u)
  BY <1>1 DEF Carries, IInv, TypeOK
<1>5. Located'
  <2>1. QueuedThreads' /\ ReadyIsSomewhere' /\ QueuedOnceIn' /\ CurrentThreads'
    BY <1>1, <1>4 DEF IInv, Located, QueuedThreads, ReadyIsSomewhere, QueuedOnceIn, CurrentThreads
  <2>2. CarriedThreads'
    BY <1>1, <1>4 DEF IInv, TypeOK, Located, CarriedThreads, Steady
  <2> QED BY <2>1, <2>2 DEF Located
<1>6. \A d \in Cpus : pc'[d] = "locked" <=> pc[d] = "locked"
  BY <1>1 DEF IInv, TypeOK
<1>7. LockIsHeld' /\ HeldHeadStaysQueued'
  BY <1>1, <1>6 DEF IInv, LockIsHeld, HeldHeadStaysQueued
<1>8. NothingOnDeadCpu'
  BY <1>1 DEF IInv, TypeOK, NothingOnDeadCpu
<1> QED BY <1>3, <1>5, <1>7, <1>8 DEF IInv

(* The carried thread is migrated if it was of another CPU, and queued on  *)
(* the core that carries it, wherever it is by then if it has left.        *)
LEMMA PullMoveIInv ==
  ASSUME IInv, NEW c \in Cpus, PullMove(c)
  PROVE  IInv'
<1>0. PICK t \in Tasks : t = next[c]
  BY DEF PullMove, IInv, Located, CarriedThreads
<1>1. /\ pc[c] = "moving"
      /\ tcpu' = [tcpu EXCEPT ![t] = MigratesTo(t, c, taskCpu[c])]
      /\ ChangeState(t, "READY", c, c)
      /\ pc' = [pc EXCEPT ![c] = "out"]
      /\ next' = [next EXCEPT ![c] = Null]
      /\ taskCpu' = [taskCpu EXCEPT ![c] = Null]
      /\ UNCHANGED <<target, online, active, fp, quantum, fcur, glock>>
      /\ UNCHANGED <<cstate, onlineCores, idleCores>>
  BY <1>0 DEF PullMove, coreInfo
<1>2. /\ Carries(c, t)
      /\ t \in Steady => /\ st[t] = "READY"
                         /\ \A d \in Cpus : Carries(d, t) => d = c
                         /\ taskCpu[c] = tcpu[t]
  BY <1>0, <1>1 DEF IInv, Located, CarriedThreads, Carries
<1>3. /\ tcpu' \in [Tasks -> Cpus] /\ (t \in Steady => tcpu'[t] = c)
      /\ \A u \in Tasks \ {t} : tcpu'[u] = tcpu[u]
  BY <1>1, <1>2 DEF MigratesTo, IInv, TypeOK
<1>4. \A d \in Cpus, u \in Tasks : Carries(d, u)' <=> Carries(d, u) /\ d # c
  BY <1>1 DEF Carries, IInv, TypeOK
<1>5. /\ t \in Steady => \A d \in Cpus : ~ Carries(d, t)'
      /\ \A d \in Cpus : \A u \in Tasks \ {t} : Carries(d, u)' <=> Carries(d, u)
  BY <1>2, <1>4 DEF Carries
<1>6. /\ t \in Steady => ~ Contains(rq[Global], t)
      /\ c # Global /\ Global \in Queues /\ c \in Queues
  BY <1>2, GlobalIsOther DEF IInv, Located, QueuedThreads, Queues
<1>7. /\ st' \in [Tasks -> ThreadState]
      /\ st' = [st EXCEPT ![t] = "READY"]
      /\ rq' \in [Cpus \cup {Global} -> Seq(Tasks)]
      /\ curr' \in [Cpus -> Tasks \cup {Null}]
      /\ QueuedThreads' /\ ReadyIsSomewhere' /\ QueuedOnceIn' /\ CurrentThreads'
  <2>1. "READY" \in ThreadState \cup {"READY_TICK"} /\ TypeOK /\ Located
    BY DEF ThreadState, IInv
  <2> QED BY <1>1, <1>3, <1>5, <1>6, <2>1, MovePlaces
<1>8. \A u \in Tasks : u # t => st'[u] = st[u]
  BY <1>7 DEF IInv, TypeOK
<1>9. TypeOK'
  BY <1>1, <1>3, <1>7 DEF IInv, TypeOK, PullPc
<1>10. CarriedThreads'
  <2> SUFFICES ASSUME NEW d \in Cpus, pc'[d] \in {"taken", "moving"}
               PROVE  /\ next'[d] \in Tasks
                      /\ next'[d] \in Steady =>
                           /\ st'[next'[d]] = "READY"
                           /\ \A e \in Cpus : Carries(e, next[d])' => e = d
                           /\ pc'[d] = "moving" => taskCpu'[d] = tcpu'[next'[d]]
    BY DEF CarriedThreads
  <2>1. d # c /\ pc'[d] = pc[d] /\ next'[d] = next[d] /\ taskCpu'[d] = taskCpu[d]
    BY <1>1 DEF IInv, TypeOK
  <2>2. /\ next[d] \in Tasks /\ Carries(d, next[d])
        /\ next[d] \in Steady => next[d] # t
    BY <1>2, <2>1 DEF IInv, Located, CarriedThreads, Carries
  <2>3. next[d] \in Steady => \A e \in Cpus : Carries(e, next[d])' => e = d
    <3>1. next[d] \in Steady => \A e \in Cpus : Carries(e, next[d])' => Carries(e, next[d])
      BY <1>4, <2>1, <2>2
    <3> QED BY <2>1, <3>1 DEF IInv, Located, CarriedThreads
  <2> QED BY <1>3, <1>8, <2>1, <2>2, <2>3 DEF IInv, Located, CarriedThreads
<1>11. \A d \in Cpus : pc'[d] = "locked" <=> pc[d] = "locked"
  BY <1>1 DEF IInv, TypeOK
<1>12. \A d \in Cpus : pc[d] = "locked" => next'[d] = next[d]
  BY <1>1 DEF IInv, TypeOK
<1>13. LockIsHeld' /\ HeldHeadStaysQueued'
  <2>1. LockIsHeld'
    BY <1>1, <1>11, <1>12 DEF IInv, LockIsHeld
  <2>2. ASSUME NEW d \in Cpus, pc[d] = "locked", next[d] \in Steady
        PROVE  FirstTask(rq'[Global]) = next[d]
    <3>1. Contains(rq[Global], t) => t \in Leavers
      BY <1>6 DEF Steady
    <3> QED BY <1>1, <1>6, <2>2, <3>1, MoveKeepsHead DEF IInv
  <2> QED BY <1>11, <1>12, <2>1, <2>2 DEF HeldHeadStaysQueued
<1>14. NothingOnDeadCpu'
  <2>1. c \in online
    BY <1>1 DEF IInv, NothingOnDeadCpu
  <2>2. \A u \in Steady : st'[u] = "READY" => tcpu'[u] \in online'
    BY <1>1, <1>3, <1>8, <2>1 DEF IInv, NothingOnDeadCpu, Steady
  <2>3. ASSUME NEW d \in Cpus \ online' PROVE curr'[d] = Null /\ pc'[d] = "out"
    BY <1>1, <2>1, <2>3 DEF ChangeState, IInv, TypeOK, NothingOnDeadCpu
  <2>4. ASSUME NEW d \in Cpus \ online', NEW u \in Steady PROVE ~ Contains(rq'[d], u)
    <3>1. d \in Queues /\ d # Global /\ d \notin online' /\ u \in Tasks
      BY <2>4, GlobalIsOther DEF Queues, Steady
    <3>2. Contains(rq'[d], u) => st'[u] = "READY" /\ d = tcpu'[u]
      BY <1>7, <3>1 DEF QueuedThreads
    <3> QED BY <2>2, <3>1, <3>2
  <2> QED BY <1>1, <2>2, <2>3, <2>4 DEF IInv, NothingOnDeadCpu
<1> QED BY <1>7, <1>9, <1>10, <1>13, <1>14 DEF IInv, Located

-----------------------------------------------------------------------------
(* What moves no thread.                                                   *)

(* unblock_prepare only chooses a CPU, among those that are active.        *)
LEMMA UnblockPrepareIInv ==
  ASSUME IInv, NEW t \in Tasks, UnblockPrepare(t)
  PROVE  IInv'
<1>1. PICK d \in AllowedTargets(tcpu[t]) : target' = [target EXCEPT ![t] = d]
  BY DEF UnblockPrepare
<1>2. d \in online /\ d \in Cpus
  BY <1>1 DEF AllowedTargets, IInv, TypeOK
<1>3. /\ UNCHANGED <<st, tcpu, rq, curr, online, active, fp, quantum, fcur>>
      /\ UNCHANGED <<cstate, onlineCores, idleCores, glock, pc, next, taskCpu>>
  BY DEF UnblockPrepare, coreInfo, pull
<1>4. TypeOK' /\ NothingOnDeadCpu'
  BY <1>1, <1>2, <1>3 DEF IInv, TypeOK, NothingOnDeadCpu
<1>5. Located'
  BY <1>3 DEF IInv, Located, QueuedThreads, CarriedThreads, ReadyIsSomewhere, QueuedOnceIn,
              CurrentThreads, Carries
<1>6. LockIsHeld' /\ HeldHeadStaysQueued'
  BY <1>3 DEF IInv, LockIsHeld, HeldHeadStaysQueued
<1> QED BY <1>4, <1>5, <1>6 DEF IInv

(* Idle and hotplug events: a CPU leaves the online mask only when it is   *)
(* drained and in no pull.                                                 *)
LEMMA CoreEventIInv ==
  ASSUME IInv, NEW c \in Cpus,
         EnterIdle(c) \/ ExitIdle(c) \/ CoreExit(c) \/ CpuDead(c) \/ CoreEntry(c)
  PROVE  IInv'
<1>1. /\ UNCHANGED <<st, tcpu, rq, curr, target, fp, quantum, fcur>>
      /\ UNCHANGED <<glock, pc, next, taskCpu>>
  BY DEF EnterIdle, ExitIdle, CoreExit, CpuDead, CoreEntry, coreVars, pull
<1>2. Located'
  BY <1>1 DEF IInv, Located, QueuedThreads, CarriedThreads, ReadyIsSomewhere, QueuedOnceIn,
              CurrentThreads, Carries
<1>3. LockIsHeld' /\ HeldHeadStaysQueued'
  BY <1>1 DEF IInv, LockIsHeld, HeldHeadStaysQueued
<1>4. TypeOK'
  <2>1. /\ online' \subseteq Cpus /\ active' \subseteq online'
        /\ cstate' \in [Cpus -> CoreState]
        /\ onlineCores' \subseteq Cpus /\ idleCores' \subseteq Cpus
    <3>1. CASE EnterIdle(c)
      BY <3>1 DEF EnterIdle, coreVars, IInv, TypeOK, CoreState
    <3>2. CASE ExitIdle(c)
      BY <3>2 DEF ExitIdle, coreVars, IInv, TypeOK, CoreState
    <3>3. CASE CoreExit(c)
      BY <3>3 DEF CoreExit, IInv, TypeOK, CoreState
    <3>4. CASE CpuDead(c)
      BY <3>4 DEF CpuDead, coreInfo, IInv, TypeOK
    <3>5. CASE CoreEntry(c)
      BY <3>5 DEF CoreEntry, IInv, TypeOK, CoreState
    <3> QED BY <3>1, <3>2, <3>3, <3>4, <3>5
  <2> QED BY <1>1, <2>1 DEF IInv, TypeOK
<1>5. ASSUME online \subseteq online' PROVE NothingOnDeadCpu'
  <2>1. \A d \in Cpus \ online' : d \in Cpus \ online
    BY <1>5
  <2>2. /\ \A t \in Tasks : target'[t] # Null => target'[t] \in online'
        /\ \A t \in Steady : st'[t] = "READY" => tcpu'[t] \in online'
    BY <1>1, <1>5 DEF IInv, NothingOnDeadCpu
  <2> QED BY <1>1, <2>1, <2>2 DEF IInv, NothingOnDeadCpu
<1>6. ASSUME CpuDead(c) PROVE NothingOnDeadCpu'
  <2>1. online' = online \ {c} /\ Drained(c) /\ pc[c] = "out"
    BY <1>6 DEF CpuDead
  <2>2. /\ \A t \in Tasks : target'[t] # Null => target'[t] \in online'
        /\ \A t \in Steady : st'[t] = "READY" => tcpu'[t] \in online'
    BY <1>1, <2>1 DEF Drained, IInv, TypeOK, NothingOnDeadCpu, Steady
  <2>3. ASSUME NEW t \in Steady PROVE ~ Contains(rq[c], t)
    BY <2>1, GlobalIsOther DEF Drained, IInv, Located, QueuedThreads, Queues, Steady
  <2>4. \A d \in Cpus \ online' : /\ curr'[d] = Null /\ pc'[d] = "out"
                                   /\ \A t \in Steady : ~ Contains(rq'[d], t)
    <3> SUFFICES ASSUME NEW d \in Cpus \ online'
                 PROVE  /\ curr[d] = Null /\ pc[d] = "out"
                        /\ \A t \in Steady : ~ Contains(rq[d], t)
      BY <1>1
    <3> QED BY <2>1, <2>3 DEF Drained, IInv, NothingOnDeadCpu
  <2> QED BY <2>2, <2>4 DEF NothingOnDeadCpu
<1>7. CpuDead(c) \/ online \subseteq online'
  BY DEF EnterIdle, ExitIdle, CoreExit, CoreEntry, coreVars
<1> QED BY <1>2, <1>3, <1>4, <1>5, <1>6, <1>7 DEF IInv

-----------------------------------------------------------------------------
(* Every handler preserves the invariant (one step per action).            *)
THEOREM NextIInv == IInv /\ [Next]_vars => IInv'
<1> SUFFICES ASSUME IInv, [Next]_vars PROVE IInv'
  OBVIOUS
<1>1. ASSUME NEW t \in Tasks, TaskNext(t) PROVE IInv'
  <2>1. CASE NewPrepare(t)
    BY <2>1, NewPrepareIInv
  <2>2. CASE NewPlace(t) \/ UnblockPlace(t)
    BY <2>2, PlaceIInv DEF NewPlace, UnblockPlace
  <2>3. CASE UnblockPrepare(t)
    BY <2>3, UnblockPrepareIInv
  <2>4. CASE Block(t)
    <3>1. st[t] # "READY" /\ BlockTask(t) /\ target' = target
      BY <2>4 DEF Block
    <3> QED BY <3>1, BlockTaskIInv DEF IInv, TypeOK, NothingOnDeadCpu
  <2>5. ASSUME NEW c \in Cpus, Oust(t, c) PROVE IInv'
    <3>1. /\ st[t] # "READY" \/ t \in Leavers
          /\ BlockTask(t)
          /\ target' = [target EXCEPT ![t] = c] /\ c \in online
      BY <2>5 DEF Oust, LeavesFrom, IInv, TypeOK
    <3> QED BY <3>1, BlockTaskIInv DEF IInv, TypeOK, NothingOnDeadCpu
  <2>6. CASE Terminate(t)
    BY <2>6, TerminateIInv
  <2> QED BY <1>1, <2>1, <2>2, <2>3, <2>4, <2>5, <2>6 DEF TaskNext
<1>2. ASSUME NEW c \in Cpus, CpuNext(c) PROVE IInv'
  <2>1. CASE TickOf(c)
    BY <2>1, TickIInv DEF TickOf
  <2>2. CASE Yield(c)
    BY <2>2, YieldIInv
  <2>3. CASE Schedule(c)
    BY <2>3, ScheduleIInv
  <2>4. CASE PullFirst(c)
    BY <2>4, PullFirstIInv
  <2>5. CASE PullStep(c)
    BY <2>5, PullRemoveIInv, PullReadCpuIInv, PullMoveIInv DEF PullStep
  <2>6. CASE EnterIdle(c) \/ ExitIdle(c) \/ CoreExit(c) \/ CpuDead(c) \/ CoreEntry(c)
    BY <2>6, CoreEventIInv
  <2> QED BY <1>2, <2>1, <2>2, <2>3, <2>4, <2>5, <2>6 DEF CpuNext
<1>3. CASE UNCHANGED vars
  <2>1. /\ UNCHANGED <<st, tcpu, rq, curr, target, online, active, fp, quantum, fcur>>
        /\ UNCHANGED <<cstate, onlineCores, idleCores, glock, pc, next, taskCpu>>
    BY <1>3 DEF vars, coreVars, coreInfo, pull
  <2>2. TypeOK' /\ NothingOnDeadCpu'
    BY <2>1 DEF IInv, TypeOK, NothingOnDeadCpu
  <2>3. Located'
    BY <2>1 DEF IInv, Located, QueuedThreads, CarriedThreads, ReadyIsSomewhere, QueuedOnceIn,
                CurrentThreads, Carries
  <2>4. LockIsHeld' /\ HeldHeadStaysQueued'
    BY <2>1 DEF IInv, LockIsHeld, HeldHeadStaysQueued
  <2> QED BY <2>2, <2>3, <2>4 DEF IInv
<1> QED BY <1>1, <1>2, <1>3 DEF Next

(* The inductive invariant holds in every reachable state.                 *)
THEOREM AlwaysIInv == Spec => []IInv
BY InitIInv, NextIInv, PTL DEF Spec

(* The variables keep their types.                                         *)
THEOREM TypeCorrect == Spec => []TypeOK
<1>1. IInv => TypeOK
  BY DEF IInv
<1> QED BY <1>1, AlwaysIInv, PTL

(* A local runqueue holds threads of its CPU, a CPU runs its own threads,  *)
(* but for those that leave or are moved while READY.                      *)
THEOREM LocalHolds == Spec => []LocalThreadsAreLocal
<1>1. IInv => LocalThreadsAreLocal
  <2> SUFFICES ASSUME IInv, NEW c \in Cpus, NEW t \in Steady
               PROVE  /\ Contains(rq[c], t) => tcpu[t] = c
                      /\ curr[c] = t <=> st[t] = "RUNNING" /\ tcpu[t] = c
    BY DEF LocalThreadsAreLocal
  <2>1. Contains(rq[c], t) => tcpu[t] = c
    BY GlobalIsOther DEF IInv, Located, QueuedThreads, Queues, Steady
  <2>2. curr[c] = t <=> st[t] = "RUNNING" /\ tcpu[t] = c
    BY DEF IInv, Located, CurrentThreads, Steady
  <2> QED BY <2>1, <2>2
<1> QED BY <1>1, AlwaysIInv, PTL

(* The head that newly_idle read stays the head until it is removed.       *)
THEOREM HeadHolds == Spec => []HeldHeadStaysQueued
<1>1. IInv => HeldHeadStaysQueued
  BY DEF IInv
<1> QED BY <1>1, AlwaysIInv, PTL

(* Nothing is queued on, runs on, or is carried by an offline CPU.         *)
THEOREM HotplugHolds == Spec => []NothingOnDeadCpu
<1>1. IInv => NothingOnDeadCpu
  BY DEF IInv
<1> QED BY <1>1, AlwaysIInv, PTL

-----------------------------------------------------------------------------
(* Counting the places of a thread.                                        *)

(* The one CPU whose current is t, if t is RUNNING.                        *)
LEMMA CurrentCount ==
  ASSUME IInv, NEW t \in Tasks
  PROVE  Cardinality({c \in Cpus : curr[c] = t}) = IF st[t] = "RUNNING" THEN 1 ELSE 0
<1> DEFINE on == {c \in Cpus : curr[c] = t}
<1> SUFFICES Cardinality(on) = IF st[t] = "RUNNING" THEN 1 ELSE 0
  OBVIOUS
<1>1. CASE st[t] = "RUNNING"
  <2>1. PICK c \in Cpus : curr[c] = t
    BY <1>1 DEF IInv, Located, CurrentThreads
  <2>2. \A d \in Cpus : curr[d] = t => d = c
    BY <2>1 DEF IInv, Located, CurrentThreads
  <2>3. on = {c}
    BY <2>1, <2>2
  <2> HIDE DEF on
  <2> QED BY <1>1, <2>3, FS_Singleton
<1>2. CASE st[t] # "RUNNING"
  <2>1. \A c \in Cpus : curr[c] # t
    BY <1>2 DEF IInv, Located, CurrentThreads
  <2>2. on = {}
    BY <2>1
  <2> HIDE DEF on
  <2> QED BY <1>2, <2>2, FS_EmptySet
<1> QED BY <1>1, <1>2

(* The one position of t, if it is in a runqueue.                          *)
LEMMA PositionCount ==
  ASSUME IInv, NEW t \in Tasks
  PROVE  /\ Cardinality(Positions(t)) = IF Positions(t) = {} THEN 0 ELSE 1
         /\ Positions(t) # {} <=> \E q \in Queues : Contains(rq[q], t)
<1> DEFINE at(q) == {q} \X {i \in DOMAIN rq[q] : rq[q][i] = t}
<1>1. Positions(t) = UNION {at(q) : q \in Queues}
  BY DEF Positions
<1>2. \A q \in Queues : rq[q] \in Seq(Tasks) /\ DOMAIN rq[q] = 1..Len(rq[q])
  BY DEF IInv, TypeOK, Queues
<1>3. \A q \in Queues : ~ Contains(rq[q], t) => at(q) = {}
  <2> SUFFICES ASSUME NEW q \in Queues, ~ Contains(rq[q], t)
               PROVE  {i \in DOMAIN rq[q] : rq[q][i] = t} = {}
    OBVIOUS
  <2> QED BY <1>2 DEF Contains
<1>4. CASE \E q \in Queues : Contains(rq[q], t)
  <2>1. PICK q \in Queues : Contains(rq[q], t)
    BY <1>4
  <2>2. PICK i \in 1..Len(rq[q]) : rq[q][i] = t
    BY <2>1 DEF Contains
  <2>3. \A r \in Queues : Contains(rq[r], t) => r = q
    BY <2>1 DEF IInv, Located, QueuedThreads
  <2>4. \A j \in 1..Len(rq[q]) : rq[q][j] = t => j = i
    BY <2>2 DEF IInv, Located, QueuedOnceIn, NoDuplicate
  <2>5. at(q) = {<<q, i>>}
    BY <1>2, <2>2, <2>4
  <2>6. \A r \in Queues : r # q => at(r) = {}
    BY <1>3, <2>3
  <2> HIDE DEF at
  <2>7. Positions(t) = {<<q, i>>}
    BY <1>1, <2>5, <2>6
  <2>8. Cardinality({<<q, i>>}) = 1 /\ {<<q, i>>} # {}
    BY FS_Singleton
  <2> QED BY <1>4, <2>7, <2>8
<1>5. CASE \A q \in Queues : ~ Contains(rq[q], t)
  <2>1. \A q \in Queues : at(q) = {}
    BY <1>3, <1>5
  <2> HIDE DEF at
  <2>2. Positions(t) = {}
    BY <1>1, <2>1
  <2> QED BY <1>5, <2>2, FS_EmptySet
<1> QED BY <1>4, <1>5

(* The one core that carries t, if t is steady, READY and in no runqueue.  *)
LEMMA CarrierCount ==
  ASSUME IInv, NEW t \in Steady
  PROVE  Cardinality(Carriers(t)) =
           IF st[t] = "READY" /\ (\A q \in Queues : ~ Contains(rq[q], t)) THEN 1 ELSE 0
<1> DEFINE waits == st[t] = "READY" /\ (\A q \in Queues : ~ Contains(rq[q], t))
<1>1. CASE waits
  <2>1. PICK c \in Cpus : Carries(c, t)
    BY <1>1 DEF IInv, Located, ReadyIsSomewhere, Steady
  <2>2. \A d \in Cpus : Carries(d, t) => d = c
    <3>1. pc[c] \in {"taken", "moving"} /\ next[c] = t
      BY <2>1 DEF Carries
    <3>2. \A d \in Cpus : Carries(d, next[c]) => d = c
      BY <3>1 DEF IInv, Located, CarriedThreads
    <3> QED BY <3>1, <3>2
  <2>3. Carriers(t) = {c}
    BY <2>1, <2>2 DEF Carriers
  <2> QED BY <1>1, <2>3, FS_Singleton
<1>2. CASE ~ waits
  <2>1. Carriers(t) = {}
    BY <1>2, NotCarried DEF IInv, Carriers
  <2> HIDE DEF waits
  <2>2. Cardinality(Carriers(t)) = 0
    BY <2>1, FS_EmptySet
  <2> QED BY <1>2, <2>2 DEF waits
<1> QED BY <1>1, <1>2

LEMMA NoThreadLostFollows ==
  ASSUME IInv
  PROVE  NoThreadLost
<1> SUFFICES ASSUME NEW t \in Tasks
             PROVE  /\ Cardinality({c \in Cpus : curr[c] = t}) = IF st[t] = "RUNNING" THEN 1 ELSE 0
                    /\ Cardinality(Positions(t)) <= IF st[t] = "READY" THEN 1 ELSE 0
                    /\ st[t] = "READY" => Positions(t) # {} \/ Carriers(t) # {}
                    /\ t \in Steady => Cardinality(Positions(t)) + Cardinality(Carriers(t)) =
                                         IF st[t] = "READY" THEN 1 ELSE 0
  BY DEF NoThreadLost
<1>1. Positions(t) # {} => st[t] = "READY"
  BY PositionCount DEF IInv, Located, QueuedThreads
<1>2. Cardinality(Positions(t)) <= IF st[t] = "READY" THEN 1 ELSE 0
  BY <1>1, PositionCount
<1>3. st[t] = "READY" => Positions(t) # {} \/ Carriers(t) # {}
  BY PositionCount DEF IInv, Located, ReadyIsSomewhere, Carriers
<1>4. t \in Steady => Cardinality(Positions(t)) + Cardinality(Carriers(t)) =
                        IF st[t] = "READY" THEN 1 ELSE 0
  BY <1>1, PositionCount, CarrierCount
<1> QED BY <1>2, <1>3, <1>4, CurrentCount

(* Nothing that runs or waits is lost or duplicated, whatever leaves in    *)
(* the middle of a pull.                                                   *)
THEOREM NoThreadLostHolds == Spec => []NoThreadLost
<1>1. IInv => NoThreadLost
  BY NoThreadLostFollows
<1> QED BY <1>1, AlwaysIInv, PTL

-----------------------------------------------------------------------------
(* GlobalFifo implements TieredLines: the global runqueue is the shared    *)
(* line, a core holds in its hand the thread that it carries.              *)

Hand == [c \in Cpus |-> IF pc[c] \in {"taken", "moving"} THEN next[c] ELSE Null]

(* The abstract names for where a thread is.                               *)
LEMMA TierNames ==
  ASSUME TypeOK, NEW t \in Tasks
  PROVE  /\ Tiers!Lines = Queues /\ DOMAIN rq = Queues
         /\ Tiers!Waits(t) <=> \E q \in Queues : Contains(rq[q], t)
         /\ Tiers!InHand(t) <=> \E c \in Cpus : Carries(c, t)
         /\ \A q : Tiers!Without(q, t) = Without(q, t)
<1>1. Tiers!Lines = Queues /\ DOMAIN rq = Queues
  BY DEF Tiers!Lines, Queues, TypeOK
<1>2. Tiers!Waits(t) <=> \E q \in Queues : Contains(rq[q], t)
  BY <1>1 DEF Tiers!Waits, Tiers!Contains, Contains
<1>3. Tiers!InHand(t) <=> \E c \in Cpus : Carries(c, t)
  BY NullAssumption DEF Tiers!InHand, Carries
<1>4. \A q : Tiers!Without(q, t) = Without(q, t)
  BY DEF Tiers!Without, Tiers!Contains, Tiers!RemoveAt, Without, Contains, RemoveAt, PositionOf
<1> QED BY <1>1, <1>2, <1>3, <1>4

(* change_state moves a thread from wherever it is to where it is told.    *)
LEMMA MoveRefines ==
  ASSUME TypeOK, NEW t \in Tasks, NEW state, NEW cpu, NEW nextRq,
         ChangeState(t, state, cpu, nextRq), state # "RUNNING"
  PROVE  Tiers!Move(t, nextRq)
<1>1. rq' = [q \in Tiers!Lines |-> IF q = nextRq THEN Append(Tiers!Without(rq[q], t), t)
                                                 ELSE Tiers!Without(rq[q], t)]
  BY TierNames DEF ChangeState
<1>2. curr' = [c \in Cpus |-> IF curr[c] = t THEN Null ELSE curr[c]]
  BY DEF ChangeState
<1> QED BY <1>1, <1>2 DEF Tiers!Move

(* A thread that waits nowhere is appended to the runqueue it is given.    *)
LEMMA AppendOnly ==
  ASSUME TypeOK, NEW t \in Tasks, NEW state, NEW cpu, NEW q \in Queues,
         ChangeState(t, state, cpu, q),
         \A r \in Queues : ~ Contains(rq[r], t)
  PROVE  rq' = [rq EXCEPT ![q] = Append(@, t)]
<1>1. DOMAIN rq = Queues /\ \A r \in Queues : Without(rq[r], t) = rq[r]
  BY DEF TypeOK, Queues, Without
<1>2. rq' = [r \in Queues |-> IF r = q THEN Append(rq[r], t) ELSE rq[r]]
  BY <1>1 DEF ChangeState
<1> QED BY <1>1, <1>2

(* A thread that blocks, terminates or is moved leaves the place it is in, *)
(* but not the hand that a thread which may leave while READY is in.       *)
LEMMA LeavesWhileNotReady ==
  ASSUME IInv, NEW t \in Tasks, Block(t) \/ (\E c \in Cpus : Oust(t, c)) \/ Terminate(t)
  PROVE  /\ t \in Leavers \/ st[t] \in {"RUNNING", "BLOCKED"}
         /\ \E state \in {"BLOCKED", "TERMINATED"} : ChangeState(t, state, tcpu[t], Null)
         /\ UNCHANGED <<pc, next>>
BY DEF Block, Oust, Terminate, BlockTask, LeavesFrom, pull

LEMMA LeaveRefines ==
  ASSUME IInv, NEW t \in Tasks, Block(t) \/ (\E c \in Cpus : Oust(t, c)) \/ Terminate(t)
  PROVE  Tiers!Next
<1>1. PICK state \in {"BLOCKED", "TERMINATED"} : ChangeState(t, state, tcpu[t], Null)
  BY LeavesWhileNotReady
<1>2. Tiers!Move(t, Null)
  BY <1>1, MoveRefines DEF IInv
<1>3. t \in Leavers \/ ~ (Tiers!Waits(t) \/ Tiers!InHand(t))
  <2> SUFFICES ASSUME t \notin Leavers PROVE ~ (Tiers!Waits(t) \/ Tiers!InHand(t))
    OBVIOUS
  <2>1. t \in Steady /\ st[t] # "READY"
    BY LeavesWhileNotReady DEF Steady
  <2> QED BY <2>1, OnlyReadyIsQueued, NotCarried, TierNames DEF IInv
<1>4. Hand' = Hand
  BY LeavesWhileNotReady DEF Hand
<1>5. Tiers!Leave(t)
  BY <1>2, <1>3, <1>4 DEF Tiers!Leave, Hand
<1> QED BY <1>5 DEF Tiers!Next

(* *_place lets a thread that is nowhere arrive at the shared line.        *)
LEMMA PlaceRefines ==
  ASSUME IInv, NEW t \in Tasks, NEW from \in {"NOT_QUEUED", "BLOCKED"}, Place(t, from)
  PROVE  Tiers!Next
<1>1. /\ st[t] \notin {"READY", "RUNNING"} /\ ChangeState(t, "READY", target[t], Global)
      /\ UNCHANGED <<pc, next>>
  BY DEF Place, pull
<1>2. /\ \A q \in Queues : ~ Contains(rq[q], t)
      /\ \A c \in Cpus : curr[c] # t
      /\ t \in Steady => \A c \in Cpus : ~ Carries(c, t)
  BY <1>1, OnlyReadyIsQueued, NotCarried DEF IInv, Located, CurrentThreads
<1>3. ~ Tiers!Waits(t) /\ ~ Tiers!Served(t) /\ (t \in Leavers \/ ~ Tiers!InHand(t))
  BY <1>2, TierNames DEF IInv, Tiers!Served, Steady
<1>4. rq' = [rq EXCEPT ![Global] = Append(@, t)]
  BY <1>1, <1>2, AppendOnly DEF IInv, Queues
<1>5. curr' = curr
  <2>1. curr' = [c \in Cpus |-> curr[c]]
    BY <1>1, <1>2 DEF ChangeState
  <2> QED BY <2>1 DEF IInv, TypeOK
<1>6. Hand' = Hand
  BY <1>1 DEF Hand
<1>7. Tiers!Arrive(t)
  BY <1>3, <1>4, <1>5, <1>6 DEF Tiers!Arrive, Hand
<1> QED BY <1>7 DEF Tiers!Next

(* A running thread that is requeued frees its CPU and goes to the tail of *)
(* the shared line, or to the empty line of the CPU.                       *)
LEMMA RequeueRefines ==
  ASSUME IInv, NEW c \in Cpus, curr[c] # Null, NEW state \in {"READY", "READY_TICK"}, NEW cpu,
         NEW q \in {Global, c}, q = c => rq[c] = <<>>,
         ChangeState(curr[c], state, cpu, q), UNCHANGED <<pc, next>>
  PROVE  Tiers!Next
<1> DEFINE t == curr[c]
<1>1. t \in Tasks /\ st[t] = "RUNNING" /\ q \in Queues
  BY CurrentIsRunning DEF Queues
<1>2. rq' = [rq EXCEPT ![q] = Append(@, t)]
  BY <1>1, OnlyReadyIsQueued, AppendOnly DEF IInv
<1>3. curr' = [curr EXCEPT ![c] = Null]
  <2>1. \A d \in Cpus : curr[d] = t => d = c
    BY <1>1 DEF IInv, Located, CurrentThreads
  <2>2. curr' = [d \in Cpus |-> IF d = c THEN Null ELSE curr[d]]
    BY <2>1 DEF ChangeState
  <2> QED BY <2>2 DEF IInv, TypeOK
<1>4. Hand' = Hand
  BY DEF Hand
<1>5. Tiers!Requeue(c, q)
  BY <1>2, <1>3, <1>4 DEF Tiers!Requeue, Hand
<1> QED BY <1>1, <1>5, TierNames DEF Tiers!Next, IInv

(* The thread that NextTask returns is the head of the runqueue, waits     *)
(* only there, and runs nowhere.                                           *)
LEMMA NextTaskWaits ==
  ASSUME IInv, NEW q \in Queues, NEW t, t = NextTask(q), t # Null
  PROVE  /\ t \in Tasks /\ st[t] = "READY"
         /\ rq[q] # <<>> /\ t = Head(rq[q])
         /\ \A r \in Queues : Contains(rq[r], t) <=> r = q
         /\ \A d \in Cpus : curr[d] # t
<1>1. rq[q] \in Seq(Tasks) /\ rq[q] # <<>> /\ t = rq[q][1] /\ t = Head(rq[q])
  BY DEF NextTask, FirstTask, IInv, TypeOK, Queues
<1>2. 1 \in 1..Len(rq[q]) /\ rq[q][1] \in Tasks
  BY <1>1
<1>3. t \in Tasks /\ Contains(rq[q], t)
  BY <1>1, <1>2 DEF Contains
<1>4. st[t] = "READY" /\ \A r \in Queues : Contains(rq[r], t) <=> r = q
  BY <1>3 DEF IInv, Located, QueuedThreads
<1> QED BY <1>1, <1>3, <1>4 DEF IInv, Located, CurrentThreads

(* schedule serves the head of the line of its CPU, or of the shared line. *)
LEMMA ElectRefines ==
  ASSUME IInv, NEW c \in Cpus, curr[c] = Null, NEW q \in {c, Global}, q = Global => rq[c] = <<>>,
         NEW t, t = NextTask(q), t # Null, Elect(c, t)
  PROVE  Tiers!Next
<1>1. /\ ChangeState(t, "RUNNING", c, Null) /\ UNCHANGED <<pc, next>> /\ q \in Queues
      /\ rq[q] \in Seq(Tasks) /\ NoDuplicate(rq[q]) /\ DOMAIN rq = Queues
  BY DEF Elect, pull, Queues, IInv, TypeOK, Located, QueuedOnceIn
<1>2. rq' = [rq EXCEPT ![q] = Tail(@)]
  <2>1. Without(rq[q], t) = Tail(rq[q])
    BY <1>1, NextTaskWaits, WithoutHead
  <2>2. \A r \in Queues : r # Null /\ (r # q => Without(rq[r], t) = rq[r])
    BY <1>1, NextTaskWaits, GlobalIsOther DEF Without
  <2>3. rq' = [r \in Queues |-> IF r = q THEN Tail(rq[q]) ELSE rq[r]]
    BY <1>1, <2>1, <2>2 DEF ChangeState
  <2> QED BY <1>1, <2>3
<1>3. curr' = [curr EXCEPT ![c] = t]
  <2>1. curr' = [d \in Cpus |-> IF d = c THEN t ELSE curr[d]]
    BY <1>1, NextTaskWaits DEF ChangeState
  <2> QED BY <2>1 DEF IInv, TypeOK
<1>4. Hand' = Hand
  BY <1>1 DEF Hand
<1>5. rq[q] # <<>> /\ t = Head(rq[q])
  BY <1>1, NextTaskWaits
<1>6. Tiers!Serve(c, q)
  BY <1>2, <1>3, <1>4, <1>5 DEF Tiers!Serve, Hand
<1> QED BY <1>1, <1>6, TierNames, NextTaskWaits DEF Tiers!Next, IInv

LEMMA ScheduleRefines ==
  ASSUME IInv, NEW c \in Cpus, Schedule(c)
  PROVE  Tiers!Next
<1>1. c \in Queues /\ Global \in Queues
  BY DEF Queues
<1>2. CASE NextTask(c) # Null /\ Elect(c, NextTask(c))
  BY <1>1, <1>2, ElectRefines, GlobalIsOther DEF Schedule
<1>3. CASE /\ NextTask(c) = Null /\ NextTask(Global) # Null
           /\ Elect(c, NextTask(Global))
  <2>1. rq[c] = <<>>
    <3> SUFFICES ASSUME rq[c] # <<>> PROVE FALSE
      OBVIOUS
    <3>1. rq[c] \in Seq(Tasks) /\ Head(rq[c]) \in Tasks /\ NextTask(c) = Head(rq[c])
      BY DEF NextTask, FirstTask, IInv, TypeOK
    <3> QED BY <1>3, <3>1, NullAssumption
  <2> QED BY <1>3, <2>1, ElectRefines DEF Schedule
<1> QED BY <1>2, <1>3 DEF Schedule

(* The removal takes into the hand the head that was read, or a thread     *)
(* that has left since.                                                    *)
LEMMA PullRemoveRefines ==
  ASSUME IInv, NEW c \in Cpus, PullRemove(c)
  PROVE  Tiers!Next
<1> DEFINE t == next[c]
<1>1. /\ pc[c] = "locked" /\ t \in Tasks /\ t # Null
      /\ rq' = [rq EXCEPT ![Global] = Without(@, t)]
      /\ pc' = [pc EXCEPT ![c] = "taken"] /\ UNCHANGED <<curr, next>>
  BY NullAssumption DEF PullRemove, IInv, LockIsHeld
<1>2. Hand[c] = Null /\ Hand' = [Hand EXCEPT ![c] = t]
  <2>1. \A d \in Cpus : d # c => pc'[d] = pc[d]
    BY <1>1 DEF IInv, TypeOK
  <2>2. pc'[c] = "taken"
    BY <1>1 DEF IInv, TypeOK
  <2>3. Hand' = [d \in Cpus |-> IF d = c THEN t ELSE Hand[d]]
    BY <1>1, <2>1, <2>2 DEF Hand
  <2> QED BY <1>1, <2>3 DEF Hand
<1>3. CASE t \in Leavers
  <2>1. rq' = [rq EXCEPT ![Global] = Tiers!Without(@, t)]
    BY <1>1, TierNames DEF IInv
  <2>2. \E u \in Tasks : Tiers!TakeGone(c, u)
    BY <1>1, <1>2, <1>3, <2>1 DEF Tiers!TakeGone, Hand
  <2> QED BY <2>2 DEF Tiers!Next
<1>4. CASE t \notin Leavers
  <2>1. t = FirstTask(rq[Global])
    BY <1>1, <1>4 DEF IInv, HeldHeadStaysQueued, Steady
  <2>2. /\ rq[Global] \in Seq(Tasks) /\ rq[Global] # <<>> /\ NoDuplicate(rq[Global])
        /\ t = Head(rq[Global])
    BY <1>1, <2>1 DEF FirstTask, IInv, TypeOK, Located, QueuedOnceIn, Queues
  <2>3. rq' = [rq EXCEPT ![Global] = Tail(@)]
    BY <1>1, <2>2, WithoutHead
  <2>4. Tiers!Take(c)
    BY <1>1, <1>2, <2>2, <2>3 DEF Tiers!Take, Hand
  <2> QED BY <2>4 DEF Tiers!Next
<1> QED BY <1>3, <1>4

(* The thread in the hand is put at the tail of the line of the CPU.       *)
LEMMA PullMoveRefines ==
  ASSUME IInv, NEW c \in Cpus, PullMove(c)
  PROVE  Tiers!Next
<1> DEFINE t == next[c]
<1>1. /\ pc[c] = "moving" /\ ChangeState(t, "READY", c, c)
      /\ pc' = [pc EXCEPT ![c] = "out"] /\ next' = [next EXCEPT ![c] = Null]
  BY DEF PullMove
<1>2. t \in Tasks /\ Carries(c, t) /\ c \in Queues
  BY <1>1 DEF IInv, Located, CarriedThreads, Carries, Queues
<1>3. Hand[c] = t /\ t # Null /\ Hand' = [Hand EXCEPT ![c] = Null]
  <2>1. \A d \in Cpus : d # c => pc'[d] = pc[d] /\ next'[d] = next[d]
    BY <1>1 DEF IInv, TypeOK
  <2>2. pc'[c] = "out"
    BY <1>1 DEF IInv, TypeOK
  <2>3. Hand' = [d \in Cpus |-> IF d = c THEN Null ELSE Hand[d]]
    BY <2>1, <2>2 DEF Hand
  <2> QED BY <1>1, <1>2, <2>3, NullAssumption DEF Hand
<1>4. CASE t \in Leavers
  <2>1. Tiers!Move(t, c)
    BY <1>1, <1>2, MoveRefines DEF IInv
  <2>2. Tiers!PutGone(c)
    BY <1>3, <1>4, <2>1 DEF Tiers!PutGone, Hand
  <2> QED BY <2>2 DEF Tiers!Next
<1>5. CASE t \notin Leavers
  <2>1. /\ st[t] = "READY"
        /\ \A q \in Queues : ~ Contains(rq[q], t)
        /\ \A d \in Cpus : curr[d] # t
    BY <1>2, <1>5 DEF IInv, Located, CarriedThreads, QueuedThreads, CurrentThreads, Steady, Carries
  <2>2. rq' = [rq EXCEPT ![c] = Append(@, t)]
    BY <1>1, <1>2, <2>1, AppendOnly DEF IInv
  <2>3. curr' = curr
    <3>1. curr' = [d \in Cpus |-> curr[d]]
      BY <1>1, <2>1 DEF ChangeState
    <3> QED BY <3>1 DEF IInv, TypeOK
  <2>4. ~ Tiers!Waits(t) /\ ~ Tiers!Served(t)
    BY <1>2, <2>1, TierNames DEF IInv, Tiers!Served
  <2>5. Tiers!Put(c)
    BY <1>3, <2>2, <2>3, <2>4 DEF Tiers!Put, Hand
  <2> QED BY <2>5 DEF Tiers!Next
<1> QED BY <1>4, <1>5

(* Every handler, and every step of a pull, is a step of TieredLines or a  *)
(* stutter.                                                                *)
THEOREM StepRefines == IInv /\ [Next]_vars => [Tiers!Next]_(Tiers!vars)
<1> SUFFICES ASSUME IInv, [Next]_vars PROVE [Tiers!Next]_(Tiers!vars)
  OBVIOUS
<1>0. ASSUME UNCHANGED <<rq, curr>>, Hand' = Hand PROVE UNCHANGED Tiers!vars
  BY <1>0 DEF Tiers!vars, Hand
<1>1. ASSUME NEW t \in Tasks, TaskNext(t) PROVE [Tiers!Next]_(Tiers!vars)
  <2>1. CASE NewPrepare(t) \/ UnblockPrepare(t)
    BY <1>0, <2>1 DEF NewPrepare, UnblockPrepare, pull, Hand
  <2>2. CASE NewPlace(t) \/ UnblockPlace(t)
    BY <2>2, PlaceRefines DEF NewPlace, UnblockPlace
  <2>3. CASE Block(t) \/ (\E c \in Cpus : Oust(t, c)) \/ Terminate(t)
    BY <2>3, LeaveRefines
  <2> QED BY <1>1, <2>1, <2>2, <2>3 DEF TaskNext
<1>2. ASSUME NEW c \in Cpus, CpuNext(c) PROVE [Tiers!Next]_(Tiers!vars)
  <2>1. ASSUME NEW gap \in 1..MaxTickGap, Tick(c, gap) PROVE [Tiers!Next]_(Tiers!vars)
    <3>1. curr[c] # Null /\ UNCHANGED <<pc, next>>
      BY <2>1 DEF Tick, pull
    <3>2. CASE UNCHANGED <<rq, curr>>
      BY <1>0, <3>1, <3>2 DEF Hand
    <3>3. CASE ChangeState(curr[c], "READY_TICK", tcpu[curr[c]], RequeueOn(c))
      <4>1. RequeueOn(c) \in {Global, c} /\ (RequeueOn(c) = c => rq[c] = <<>>)
        BY GlobalIsOther DEF RequeueOn
      <4> QED BY <3>1, <3>3, <4>1, RequeueRefines
    <3> QED BY <2>1, <3>2, <3>3 DEF Tick
  <2>2. CASE Yield(c)
    <3>1. /\ curr[c] # Null /\ UNCHANGED <<pc, next>>
          /\ ChangeState(curr[c], "READY", tcpu[curr[c]], Global)
      BY <2>2 DEF Yield, pull
    <3> QED BY <3>1, RequeueRefines, GlobalIsOther
  <2>3. CASE Schedule(c)
    BY <2>3, ScheduleRefines
  <2>4. CASE PullFirst(c) \/ PullReadCpu(c)
    <3>1. UNCHANGED <<rq, curr>>
      BY <2>4 DEF PullFirst, PullReadCpu, coreVars
    <3>2. \A d \in Cpus : /\ pc'[d] \in {"taken", "moving"} <=> pc[d] \in {"taken", "moving"}
                          /\ pc[d] \in {"taken", "moving"} => next'[d] = next[d]
      BY <2>4 DEF PullFirst, PullReadCpu, IInv, TypeOK
    <3>3. Hand' = Hand
      BY <3>2 DEF Hand
    <3> QED BY <1>0, <3>1, <3>3
  <2>5. CASE PullRemove(c) \/ PullMove(c)
    BY <2>5, PullRemoveRefines, PullMoveRefines
  <2>6. CASE EnterIdle(c) \/ ExitIdle(c) \/ CoreExit(c) \/ CpuDead(c) \/ CoreEntry(c)
    BY <1>0, <2>6 DEF EnterIdle, ExitIdle, CoreExit, CpuDead, CoreEntry, coreVars, pull, Hand
  <2> QED BY <1>2, <2>1, <2>2, <2>3, <2>4, <2>5, <2>6 DEF CpuNext, TickOf, PullStep
<1>3. CASE UNCHANGED vars
  BY <1>0, <1>3 DEF vars, coreVars, pull, Hand
<1> QED BY <1>1, <1>2, <1>3 DEF Next

(* Each core serves its own runqueue first-in first-out, and pulls from    *)
(* the head of the global one, whatever runs in the middle of a pull.      *)
THEOREM ImplementsTieredLines == Spec => ServesInOrder
<1>1. Init => Tiers!Init
  BY TierNames DEF Init, CoreInit, Tiers!Init, Tiers!Lines
<1> QED BY <1>1, StepRefines, AlwaysIInv, PTL DEF Spec, ServesInOrder, Tiers!Spec

(* A thread that was in no runqueue goes to the tail of one.               *)
LEMMA AppendInTurn ==
  ASSUME rq \in [Queues -> Seq(Tasks)], NEW t \in Tasks, NEW l \in Queues,
         \A q \in Queues : ~ Contains(rq[q], t),
         rq' = [rq EXCEPT ![l] = Append(@, t)],
         \A c \in Cpus : curr'[c] \in {curr[c], Null}
  PROVE  InTurn(Queues, Steady)
<1>1. \A q \in Queues : rq'[q] = IF q = l THEN Append(rq[q], t) ELSE rq[q]
  OBVIOUS
<1>2. ASSUME NEW q \in Queues, NEW x \in Steady, Contains(rq[q], x)
      PROVE  \A u : Before(rq'[q], u, x) => Before(rq[q], u, x)
  BY <1>1, <1>2, TurnKept
<1> QED BY <1>2 DEF InTurn

(* A steady thread that waits is never overtaken, in whichever runqueue,   *)
(* although threads come to them from two sides; and nobody is elected who *)
(* was not the first of a runqueue.                                        *)
THEOREM ServedInTurn == Spec => [][InTurn(Queues, Steady)]_vars
<1>1. ASSUME IInv, [Next]_vars PROVE InTurn(Queues, Steady)
  <2>0. /\ rq \in [Queues -> Seq(Tasks)] /\ curr \in [Cpus -> Tasks \cup {Null}]
        /\ Steady = Tasks \ Leavers /\ Tiers!Lines = Queues
        /\ \A c \in Cpus, q \in Queues : curr[c] # Null => ~ Contains(rq[q], curr[c])
    <3>1. TypeOK
      BY <1>1 DEF IInv
    <3>2. ASSUME NEW c \in Cpus, NEW q \in Queues, curr[c] # Null PROVE ~ Contains(rq[q], curr[c])
      <4>1. curr[c] \in Tasks /\ st[curr[c]] = "RUNNING"
        BY <1>1, <3>2, CurrentIsRunning
      <4> QED BY <1>1, <4>1 DEF IInv, Located, QueuedThreads
    <3> QED BY <3>1, <3>2 DEF TypeOK, Steady, Tiers!Lines, Queues
  <2> DEFINE Kept(q) == \A t \in Steady : Contains(rq[q], t) =>
                          \A u : Before(rq'[q], u, t) => Before(rq[q], u, t)
  <2>1. CASE UNCHANGED Tiers!vars
    BY <2>0, <2>1 DEF InTurn, Tiers!vars
  <2>2. ASSUME NEW t \in Tasks, Tiers!Arrive(t) PROVE InTurn(Queues, Steady)
    <3>1. \A q \in Queues : ~ Contains(rq[q], t)
      BY <2>0, <2>2 DEF Tiers!Arrive, Tiers!Waits, Tiers!Contains, Contains
    <3>2. rq' = [rq EXCEPT ![Global] = Append(@, t)] /\ UNCHANGED curr
      BY <2>2 DEF Tiers!Arrive
    <3> QED BY <2>0, <3>1, <3>2, AppendInTurn DEF Queues
  <2>3. ASSUME NEW t \in Tasks, NEW l, Tiers!Move(t, l), t \notin Steady \/ l = Null
        PROVE  InTurn(Queues, Steady)
    <3>1. ASSUME NEW q \in Queues PROVE Kept(q)
      <4> DEFINE w == Tiers!Without(rq[q], t)
      <4>1. w \in Seq(Tasks) /\ \A x, u : Before(w, u, x) => Before(rq[q], u, x)
        <5>1. CASE ~ Contains(rq[q], t)
          BY <2>0, <5>1 DEF Tiers!Without, Tiers!Contains, Contains
        <5>2. CASE Contains(rq[q], t)
          <6>1. PICK i \in 1..Len(rq[q]) : w = RemoveAt(rq[q], i)
            BY <5>2 DEF Tiers!Without, Tiers!Contains, Contains, Tiers!RemoveAt, RemoveAt
          <6>2. w \in Seq(Tasks)
            BY <2>0, <6>1, RemoveAtFacts
          <6>3. \A x, u : Before(w, u, x) => Before(rq[q], u, x)
            BY <2>0, <6>1, TurnKept
          <6> QED BY <6>2, <6>3
        <5> QED BY <5>1, <5>2
      <4>2. rq'[q] = w \/ (q = l /\ rq'[q] = Append(w, t))
        BY <2>0, <2>3, <3>1 DEF Tiers!Move
      <4> HIDE DEF w
      <4>3. CASE rq'[q] = w
        BY <4>1, <4>3
      <4>4. CASE q = l /\ rq'[q] = Append(w, t)
        <5>1. t \notin Steady
          BY <2>3, <4>4, GlobalIsOther DEF Queues
        <5>2. \A x \in Steady : \A u : Before(Append(w, t), u, x) => Before(w, u, x)
          BY <2>0, <4>1, <5>1, TurnKept
        <5> QED BY <4>1, <4>4, <5>2
      <4> QED BY <4>2, <4>3, <4>4
    <3>2. \A c \in Cpus : curr'[c] \in {curr[c], Null}
      BY <2>3 DEF Tiers!Move
    <3> QED BY <3>1, <3>2 DEF InTurn
  <2>4. ASSUME NEW t \in Tasks, Tiers!Leave(t) PROVE InTurn(Queues, Steady)
    BY <2>3, <2>4 DEF Tiers!Leave
  <2>5. ASSUME NEW c \in Cpus, Tiers!Take(c) PROVE InTurn(Queues, Steady)
    BY <2>0, <2>5, TurnKept DEF InTurn, Tiers!Take
  <2>6. ASSUME NEW c \in Cpus, Tiers!Put(c) PROVE InTurn(Queues, Steady)
    <3>1. PICK t \in Tasks : t = Hand[c]
      BY <1>1, <2>6 DEF Tiers!Put, Hand, IInv, TypeOK
    <3>2. \A q \in Queues : ~ Contains(rq[q], t)
      BY <2>0, <2>6, <3>1 DEF Tiers!Put, Tiers!Waits, Tiers!Contains, Contains, Hand
    <3>3. rq' = [rq EXCEPT ![c] = Append(@, t)] /\ UNCHANGED curr
      BY <2>6, <3>1 DEF Tiers!Put, Hand
    <3> QED BY <2>0, <3>2, <3>3, AppendInTurn DEF Queues
  <2>7. ASSUME NEW c \in Cpus, Tiers!PutGone(c) PROVE InTurn(Queues, Steady)
    BY <2>0, <2>3, <2>7, LeaversAssumption DEF Tiers!PutGone
  <2>8. ASSUME NEW c \in Cpus, NEW t \in Tasks, Tiers!TakeGone(c, t) PROVE InTurn(Queues, Steady)
    BY <2>0, <2>8, TurnKept DEF InTurn, Tiers!TakeGone, Tiers!Without, Tiers!Contains,
                                Contains, Tiers!RemoveAt, RemoveAt
  <2>9. ASSUME NEW c \in Cpus, NEW l \in Queues, Tiers!Serve(c, l) PROVE InTurn(Queues, Steady)
    BY <2>0, <2>9, TurnKept DEF InTurn, Tiers!Serve
  <2>10. ASSUME NEW c \in Cpus, NEW l \in Queues, Tiers!Requeue(c, l) PROVE InTurn(Queues, Steady)
    <3>1. PICK t \in Tasks : t = curr[c]
      BY <2>0, <2>10 DEF Tiers!Requeue
    <3>2. /\ rq' = [rq EXCEPT ![l] = Append(@, t)] /\ t # Null
          /\ \A d \in Cpus : curr'[d] \in {curr[d], Null}
      BY <2>0, <2>10, <3>1 DEF Tiers!Requeue
    <3> QED BY <2>0, <3>1, <3>2, AppendInTurn
  <2> QED BY <1>1, <2>0, <2>1, <2>2, <2>4, <2>5, <2>6, <2>7, <2>8, <2>9, <2>10, StepRefines
          DEF Tiers!Next
<1> QED BY <1>1, AlwaysIInv, PTL DEF Spec

-----------------------------------------------------------------------------
(* The threads that have left.                                             *)

LEMMA StepKeepsTerminated ==
  ASSUME IInv, Next
  PROVE  NoneComesBack(Steady)
<1> SUFFICES ASSUME NEW u \in Steady, st[u] = "TERMINATED"
             PROVE  st'[u] \in {"TERMINATED", "NOT_QUEUED"}
  BY DEF NoneComesBack
<1>0. u \in Tasks /\ u \notin Leavers
  BY DEF Steady
<1>1. ASSUME NEW t \in Tasks, t # u,
             NEW state, NEW cpu, NEW q, ChangeState(t, state, cpu, q)
      PROVE  st'[u] = "TERMINATED"
  BY <1>0, <1>1 DEF ChangeState, IInv, TypeOK
<1>2. ASSUME NEW t \in Tasks, TaskNext(t) PROVE st'[u] \in {"TERMINATED", "NOT_QUEUED"}
  <2>1. CASE NewPrepare(t) \/ UnblockPrepare(t)
    BY <1>0, <2>1 DEF NewPrepare, UnblockPrepare, IInv, TypeOK
  <2>2. CASE NewPlace(t) \/ UnblockPlace(t)
    BY <1>1, <2>2 DEF NewPlace, UnblockPlace, Place
  <2>3. CASE Block(t) \/ (\E c \in Cpus : Oust(t, c)) \/ Terminate(t)
    BY <1>0, <1>1, <2>3, LeavesWhileNotReady
  <2> QED BY <1>2, <2>1, <2>2, <2>3 DEF TaskNext
<1>3. ASSUME NEW c \in Cpus, CpuNext(c) PROVE st'[u] \in {"TERMINATED", "NOT_QUEUED"}
  <2>1. CASE TickOf(c) \/ Yield(c)
    <3>1. curr[c] # Null
      BY <2>1 DEF TickOf, Tick, Yield
    <3>2. curr[c] \in Tasks /\ st[curr[c]] = "RUNNING"
      BY <3>1, CurrentIsRunning
    <3>3. \/ st' = st
          \/ \E state, q : ChangeState(curr[c], state, tcpu[curr[c]], q)
      BY <2>1 DEF TickOf, Tick, Yield
    <3> QED BY <1>1, <3>2, <3>3
  <2>2. ASSUME NEW q \in Queues, NextTask(q) # Null, Elect(c, NextTask(q))
        PROVE  st'[u] = "TERMINATED"
    <3>1. PICK t : t = NextTask(q)
      OBVIOUS
    <3>2. t \in Tasks /\ st[t] = "READY"
      BY <2>2, <3>1, NextTaskWaits
    <3>3. ChangeState(t, "RUNNING", c, Null)
      BY <2>2, <3>1 DEF Elect
    <3> QED BY <1>1, <3>2, <3>3
  <2>3. CASE Schedule(c)
    BY <2>2, <2>3 DEF Schedule, Queues
  <2>4. CASE PullFirst(c) \/ PullRemove(c) \/ PullReadCpu(c)
    BY <2>4 DEF PullFirst, PullRemove, PullReadCpu, coreVars
  <2>5. CASE PullMove(c)
    <3>1. /\ next[c] \in Tasks /\ (next[c] \in Steady => st[next[c]] = "READY")
          /\ ChangeState(next[c], "READY", c, c)
      BY <2>5 DEF PullMove, IInv, Located, CarriedThreads
    <3> QED BY <1>1, <3>1
  <2>6. CASE EnterIdle(c) \/ ExitIdle(c) \/ CoreExit(c) \/ CpuDead(c) \/ CoreEntry(c)
    BY <2>6 DEF EnterIdle, ExitIdle, CoreExit, CpuDead, CoreEntry, coreVars
  <2> QED BY <1>3, <2>1, <2>3, <2>4, <2>5, <2>6 DEF CpuNext, PullStep
<1> QED BY <1>2, <1>3 DEF Next

(* Line 291 holds of a thread that leaves while RUNNING or BLOCKED only,   *)
(* whatever the others do: once terminated it comes back as a new one.     *)
(* TerminatedStaysOut says it of all, and is false.                        *)
THEOREM TerminatedHolds == Spec => [][NoneComesBack(Steady)]_vars
<1>1. IInv /\ [Next]_vars => [NoneComesBack(Steady)]_vars
  BY StepKeepsTerminated
<1> QED BY <1>1, AlwaysIInv, PTL DEF Spec
=============================================================================
