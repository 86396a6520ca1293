------------------------- MODULE FifoOneQueueProofs ------------------------
(***************************************************************************)
(* Theorems about FifoOneQueue, for every set of threads, number of CPUs   *)
(* and quantum.                                                            *)
(*                                                                         *)
(* The invariant ties three things together: the state of a thread and     *)
(* where it is (a runqueue, the newly_idle of a core, a CPU), the slot a   *)
(* core has for the thread it goes to run (its local runqueue, its         *)
(* newly_idle or its current, at most one of the three in use), and the    *)
(* lock of the shared runqueue, held while a thread is migrating.          *)
(***************************************************************************)
EXTENDS FifoOneQueue, SaakmCoreProofs, FiniteSetTheorems

State == ThreadState \cup {"MIGRATING"}

(* A queued thread is READY, in one runqueue, the shared one or its CPU's. *)
QueuedThreads ==
  \A q \in Queues, t \in Tasks : Contains(rq[q], t) =>
    /\ st[t] = "READY"
    /\ q = Global \/ q = tcpu[t]
    /\ \A r \in Queues : Contains(rq[r], t) => r = q

ReadyIsQueued == \A t \in Tasks : st[t] = "READY" => \E q \in Queues : Contains(rq[q], t)

QueuedOnceIn == \A q \in Queues : NoDuplicate(rq[q])

MigratingThreads ==
  \A c \in Cpus, t \in Tasks : migrating[c] = t <=> st[t] = "MIGRATING" /\ tcpu[t] = c

(* A core has one thread to run at most: queued, migrating or current.     *)
LocalSlot ==
  \A c \in Cpus :
    /\ \A t, u \in Tasks : Contains(rq[c], t) /\ Contains(rq[c], u) => t = u
    /\ curr[c] # Null \/ migrating[c] # Null => \A t \in Tasks : ~ Contains(rq[c], t)
    /\ curr[c] = Null \/ migrating[c] = Null

LockIsHeld == \A c \in Cpus : migrating[c] # Null => glock = c

(* A thread without a struct is out of the class, and not on its way in.   *)
FreedIsOut ==
  \A t \in Tasks \ fp : st[t] \in {"NOT_QUEUED", "TERMINATED"} /\ target[t] = Null

Places ==
  /\ QueuedThreads
  /\ ReadyIsQueued
  /\ QueuedOnceIn
  /\ CurrentIffRunning

IInv ==
  /\ TypeOK
  /\ Places
  /\ MigratingThreads
  /\ LocalSlot
  /\ LockIsHeld
  /\ FreedIsOut

-----------------------------------------------------------------------------
(* The shared runqueue is none of the local ones.                          *)
LEMMA GlobalIsOther == Global \notin Cpus /\ Global # Null /\ Null \notin Queues
BY OneQueueAssumption, NullAssumption DEF Cpus, Queues

(* A freshly loaded module: nothing is queued, running or placed.          *)
THEOREM InitIInv == Init => IInv
<1> SUFFICES ASSUME Init PROVE IInv
  OBVIOUS
<1> USE DEF Init, CoreInit
<1>1. TypeOK
  <2>1. 0 \in 0 .. Quantum - 1
    BY OneQueueAssumption
  <2> QED BY <2>1 DEF TypeOK, ThreadState, CoreState
<1>2. \A q \in Queues, t \in Tasks : ~ Contains(rq[q], t)
  BY DEF Contains, Queues
<1>3. Places
  <2>1. QueuedThreads /\ ReadyIsQueued
    BY <1>2 DEF QueuedThreads, ReadyIsQueued
  <2>2. QueuedOnceIn
    BY DEF QueuedOnceIn, NoDuplicate, Queues
  <2>3. CurrentIffRunning
    BY NullAssumption DEF CurrentIffRunning
  <2> QED BY <2>1, <2>2, <2>3 DEF Places
<1>4. MigratingThreads /\ LockIsHeld /\ FreedIsOut
  BY NullAssumption DEF MigratingThreads, LockIsHeld, FreedIsOut
<1>5. LocalSlot
  BY <1>2 DEF LocalSlot, Queues
<1> QED BY <1>1, <1>3, <1>4, <1>5 DEF IInv

-----------------------------------------------------------------------------
(* What the moves of a thread have in common.                              *)

(* change_state puts t in the runqueue given, if any, and in no other; the *)
(* other threads stay where they are.                                      *)
LEMMA MovePlaces ==
  ASSUME TypeOK, Places,
         NEW t \in Tasks, NEW state \in State \cup {"READY_TICK"}, NEW cpu, NEW nextRq,
         ChangeState(t, state, cpu, nextRq),
         tcpu' \in [Tasks -> Cpus],
         \A u \in Tasks \ {t} : tcpu'[u] = tcpu[u],
         state \in {"READY", "READY_TICK"} => nextRq \in {Global, tcpu'[t]},
         state \notin {"READY", "READY_TICK"} => nextRq = Null,
         state = "RUNNING" => cpu = tcpu'[t] /\ curr[cpu] = Null
  PROVE  /\ st' \in [Tasks -> State]
         /\ st' = [st EXCEPT ![t] = IF state = "READY_TICK" THEN "READY" ELSE state]
         /\ rq' \in [Cpus \cup {Global} -> Seq(Tasks)]
         /\ \A q \in Queues : \A x : Contains(rq'[q], x) <=>
              \/ x # t /\ Contains(rq[q], x)
              \/ x = t /\ q = nextRq
         /\ curr' \in [Cpus -> Tasks \cup {Null}]
         /\ Places'
<1>1. /\ rq' \in [Queues -> Seq(Tasks)]
      /\ \A q \in Queues : NoDuplicate(rq'[q])
      /\ \A q \in Queues : \A x : Contains(rq'[q], x) <=>
              \/ x # t /\ Contains(rq[q], x)
              \/ x = t /\ q = nextRq
  <2>1. rq \in [Queues -> Seq(Tasks)] /\ \A q \in Queues : NoDuplicate(rq[q])
    BY DEF TypeOK, Queues, Places, QueuedOnceIn
  <2> QED BY <2>1, ChangeStateQueues
<1>2. /\ st' \in [Tasks -> State]
      /\ st' = [st EXCEPT ![t] = IF state = "READY_TICK" THEN "READY" ELSE state]
      /\ curr' \in [Cpus -> Tasks \cup {Null}]
      /\ CurrentIffRunning'
  <2>1. "READY" \in State /\ st \in [Tasks -> State]
    BY DEF State, ThreadState, TypeOK
  <2> QED BY <2>1, ChangeStateCurrent DEF TypeOK, Places
<1>3. \A u \in Tasks : u # t => st'[u] = st[u]
  BY <1>2 DEF TypeOK
<1>4. st'[t] = "READY" <=> state \in {"READY", "READY_TICK"}
  BY <1>2 DEF TypeOK
<1>5. state \in {"READY", "READY_TICK"} => nextRq \in Queues
  BY DEF Queues
<1>6. QueuedThreads'
  <2> SUFFICES ASSUME NEW q \in Queues, NEW u \in Tasks, Contains(rq'[q], u)
               PROVE  /\ st'[u] = "READY"
                      /\ q = Global \/ q = tcpu'[u]
                      /\ \A r \in Queues : Contains(rq'[r], u) => r = q
    BY DEF QueuedThreads
  <2>1. CASE u = t
    <3>1. q = nextRq /\ nextRq # Null
      BY <1>1, <2>1, GlobalIsOther
    <3> QED BY <1>1, <1>4, <2>1, <3>1
  <2>2. CASE u # t
    BY <1>1, <1>3, <2>2 DEF Places, QueuedThreads
  <2> QED BY <2>1, <2>2
<1>7. ReadyIsQueued'
  <2> SUFFICES ASSUME NEW u \in Tasks, st'[u] = "READY"
               PROVE  \E q \in Queues : Contains(rq'[q], u)
    BY DEF ReadyIsQueued
  <2>1. CASE u = t
    BY <1>1, <1>4, <1>5, <2>1
  <2>2. CASE u # t
    BY <1>1, <1>3, <2>2 DEF Places, ReadyIsQueued
  <2> QED BY <2>1, <2>2
<1>8. QueuedOnceIn'
  BY <1>1 DEF QueuedOnceIn
<1> QED BY <1>1, <1>2, <1>6, <1>7, <1>8 DEF Queues, Places

(* Every handler but newly_idle when it migrates moves at most one thread, *)
(* to the shared runqueue, to the slot of a core that is empty, or out.    *)
LEMMA MoveIInv ==
  ASSUME IInv,
         NEW t \in Tasks, st[t] # "MIGRATING",
         NEW state \in {"READY", "READY_TICK", "RUNNING", "BLOCKED", "TERMINATED"},
         NEW cpu, NEW nextRq,
         ChangeState(t, state, cpu, nextRq),
         tcpu' \in [Tasks -> Cpus],
         \A u \in Tasks \ {t} : tcpu'[u] = tcpu[u],
         state \in {"READY", "READY_TICK"} =>
           \/ nextRq = Global
           \/ /\ nextRq = tcpu'[t] /\ rq[nextRq] = <<>>
              /\ curr[nextRq] = Null /\ migrating[nextRq] = Null,
         state \notin {"READY", "READY_TICK"} => nextRq = Null,
         state = "RUNNING" =>
           /\ cpu = tcpu'[t] /\ curr[cpu] = Null /\ migrating[cpu] = Null
           /\ \A u \in Tasks \ {t} : ~ Contains(rq[cpu], u),
         fp' \subseteq Tasks,
         target' \in [Tasks -> Cpus \cup {Null}],
         \A u \in Tasks \ fp' : /\ target'[u] = Null
                                /\ IF u = t THEN state = "TERMINATED" ELSE u \notin fp,
         quantum' \in [Tasks -> 0 .. Quantum - 1],
         UNCHANGED <<online, active, coreInfo, newlyIdle>>
  PROVE  IInv'
<1>1. UNCHANGED <<online, active, cstate, idleCores, glock, migrating>>
  BY DEF coreInfo, newlyIdle
<1>2. /\ st' \in [Tasks -> State]
      /\ st' = [st EXCEPT ![t] = IF state = "READY_TICK" THEN "READY" ELSE state]
      /\ rq' \in [Cpus \cup {Global} -> Seq(Tasks)]
      /\ \A q \in Queues : \A x : Contains(rq'[q], x) <=>
              \/ x # t /\ Contains(rq[q], x)
              \/ x = t /\ q = nextRq
      /\ curr' \in [Cpus -> Tasks \cup {Null}]
      /\ Places'
  <2>1. state \in State \cup {"READY_TICK"} /\ TypeOK /\ Places
    BY DEF State, ThreadState, IInv
  <2> QED BY <2>1, MovePlaces
<1>3. /\ \A u \in Tasks : u # t => st'[u] = st[u]
      /\ st'[t] = IF state = "READY_TICK" THEN "READY" ELSE state
      /\ st'[t] # "MIGRATING"
  BY <1>2 DEF IInv, TypeOK
<1>4. TypeOK'
  BY <1>1, <1>2 DEF IInv, TypeOK, State
<1>5. MigratingThreads'
  BY <1>1, <1>3 DEF IInv, MigratingThreads
<1>6. LocalSlot'
  <2> SUFFICES ASSUME NEW c \in Cpus
               PROVE  /\ \A u, v \in Tasks : Contains(rq'[c], u) /\ Contains(rq'[c], v) => u = v
                      /\ curr'[c] # Null \/ migrating[c] # Null =>
                           \A u \in Tasks : ~ Contains(rq'[c], u)
                      /\ curr'[c] = Null \/ migrating[c] = Null
    BY <1>1 DEF LocalSlot
  <2>1. c \in Queues /\ c # Global /\ c # Null
    BY GlobalIsOther, NullAssumption DEF Queues, Cpus
  <2>2. curr'[c] = IF state = "RUNNING" /\ c = cpu THEN t
                   ELSE IF curr[c] = t THEN Null ELSE curr[c]
    BY DEF ChangeState
  <2>3. CASE nextRq = c
    <3>1. state # "RUNNING" /\ curr[c] = Null /\ migrating[c] = Null
      BY <2>1, <2>3
    <3>2. \A x : ~ Contains(rq[c], x)
      BY <2>1, <2>3 DEF Contains
    <3> QED BY <1>2, <2>1, <2>2, <3>1, <3>2
  <2>4. CASE nextRq # c
    <3>1. \A u \in Tasks : Contains(rq'[c], u) <=> Contains(rq[c], u) /\ u # t
      BY <1>2, <2>1, <2>4
    <3>2. CASE state = "RUNNING" /\ c = cpu
      BY <3>1, <3>2
    <3>3. CASE ~ (state = "RUNNING" /\ c = cpu)
      BY <2>2, <3>1, <3>3 DEF IInv, LocalSlot
    <3> QED BY <3>2, <3>3
  <2> QED BY <2>3, <2>4
<1>7. LockIsHeld'
  BY <1>1 DEF IInv, LockIsHeld
<1>8. FreedIsOut'
  BY <1>3 DEF IInv, FreedIsOut
<1> QED BY <1>2, <1>4, <1>5, <1>6, <1>7, <1>8 DEF IInv

-----------------------------------------------------------------------------
(* Thread events.                                                          *)

(* The current of a CPU is RUNNING there.                                  *)
LEMMA CurrentIsRunning ==
  ASSUME IInv, NEW c \in Cpus, curr[c] # Null
  PROVE  curr[c] \in Tasks /\ st[curr[c]] = "RUNNING" /\ tcpu[curr[c]] = c
BY DEF IInv, TypeOK, Places, CurrentIffRunning

(* The head of a runqueue is a READY thread of that runqueue.              *)
LEMMA HeadIsQueued ==
  ASSUME IInv, NEW q \in Queues, NextTask(q) # Null
  PROVE  /\ rq[q] \in Seq(Tasks) /\ rq[q] # <<>> /\ NextTask(q) = Head(rq[q])
         /\ NextTask(q) \in Tasks /\ Contains(rq[q], NextTask(q))
         /\ st[NextTask(q)] = "READY"
<1>1. rq[q] \in Seq(Tasks) /\ rq[q] # <<>> /\ NextTask(q) = Head(rq[q]) /\ NextTask(q) = rq[q][1]
  BY DEF NextTask, FirstTask, IInv, TypeOK, Queues
<1>2. 1 \in 1..Len(rq[q]) /\ rq[q][1] \in Tasks
  BY <1>1
<1>3. NextTask(q) \in Tasks /\ Contains(rq[q], NextTask(q))
  BY <1>1, <1>2 DEF Contains
<1> QED BY <1>1, <1>3 DEF IInv, Places, QueuedThreads

(* What the handlers that move t out or to the shared runqueue leave alone.*)
LEMMA StayIInv ==
  ASSUME IInv,
         NEW t \in Tasks, st[t] # "MIGRATING",
         NEW state \in {"READY", "READY_TICK", "BLOCKED", "TERMINATED"}, NEW nextRq,
         ChangeState(t, state, tcpu[t], nextRq),
         nextRq = IF state \in {"READY", "READY_TICK"} THEN Global ELSE Null,
         fp' \subseteq Tasks,
         target' \in [Tasks -> Cpus \cup {Null}],
         \A u \in Tasks \ fp' : /\ target'[u] = Null
                                /\ IF u = t THEN state = "TERMINATED" ELSE u \notin fp,
         quantum' \in [Tasks -> 0 .. Quantum - 1],
         UNCHANGED <<tcpu, online, active, coreInfo, newlyIdle>>
  PROVE  IInv'
<1>1. /\ state \in {"READY", "READY_TICK", "RUNNING", "BLOCKED", "TERMINATED"} /\ state # "RUNNING"
      /\ tcpu' \in [Tasks -> Cpus] /\ tcpu' = tcpu
      /\ UNCHANGED <<online, active, coreInfo, newlyIdle>>
  BY DEF IInv, TypeOK
<1> QED BY <1>1, MoveIInv

(* new_prepare touches a thread that is neither queued nor running.        *)
LEMMA NewPrepareIInv ==
  ASSUME IInv, NEW t \in Tasks, NEW wfExec \in BOOLEAN, NewPrepare(t, wfExec)
  PROVE  IInv'
<1>1. /\ st[t] \in {"NOT_QUEUED", "TERMINATED"} /\ st' = [st EXCEPT ![t] = "NOT_QUEUED"]
      /\ fp' = fp \cup {t}
      /\ UNCHANGED <<tcpu, rq, curr, online, active, cstate, glock, migrating>>
  BY DEF NewPrepare, newlyIdle
<1>2. \E d \in Cpus : target' = [target EXCEPT ![t] = d]
  <2>1. \A cpu \in Cpus : AllowedTargets(cpu) \subseteq Cpus
    BY DEF AllowedTargets, IInv, TypeOK
  <2>2. tcpu[t] \in Cpus /\ SelectCpu(tcpu[t]) \subseteq Cpus
    BY DEF SelectCpu, IInv, TypeOK
  <2> QED BY <2>1, <2>2 DEF NewPrepare, Chosen
<1>3. idleCores' \subseteq Cpus
  BY DEF NewPrepare, Chosen, IInv, TypeOK
<1>4. TypeOK'
  <2>1. quantum' \in [Tasks -> 0 .. Quantum - 1] /\ st' \in [Tasks -> ThreadState \cup {"MIGRATING"}]
    BY OneQueueAssumption DEF NewPrepare, IInv, TypeOK, ThreadState
  <2> QED BY <1>1, <1>2, <1>3, <2>1 DEF IInv, TypeOK
<1>5. \A u \in Tasks : /\ u # t => st'[u] = st[u] /\ target'[u] = target[u]
                       /\ \A s \in {"READY", "RUNNING", "MIGRATING"} : st'[u] = s <=> st[u] = s
  BY <1>1, <1>2 DEF IInv, TypeOK
<1>6. Places'
  <2>1. QueuedThreads' /\ ReadyIsQueued'
    BY <1>1, <1>5 DEF IInv, Places, QueuedThreads, ReadyIsQueued
  <2>2. QueuedOnceIn' /\ CurrentIffRunning'
    BY <1>1, <1>5 DEF IInv, Places, QueuedOnceIn, CurrentIffRunning
  <2> QED BY <2>1, <2>2 DEF Places
<1>7. MigratingThreads' /\ LocalSlot' /\ LockIsHeld'
  BY <1>1, <1>5 DEF IInv, MigratingThreads, LocalSlot, LockIsHeld
<1>8. FreedIsOut'
  BY <1>1, <1>5 DEF IInv, FreedIsOut
<1> QED BY <1>4, <1>6, <1>7, <1>8 DEF IInv

(* unblock_prepare only chooses a CPU, for a thread that has its struct.   *)
LEMMA UnblockPrepareIInv ==
  ASSUME IInv, NEW t \in Tasks, UnblockPrepare(t)
  PROVE  IInv'
<1>1. /\ st[t] = "BLOCKED"
      /\ UNCHANGED <<st, tcpu, rq, curr, online, active, fp, quantum, cstate, glock, migrating>>
  BY DEF UnblockPrepare, newlyIdle
<1>2. PICK d \in Cpus : target' = [target EXCEPT ![t] = d]
  <2>1. \A cpu \in Cpus : AllowedTargets(cpu) \subseteq Cpus
    BY DEF AllowedTargets, IInv, TypeOK
  <2>2. SelectCpu(tcpu[t]) \subseteq Cpus
    BY DEF SelectCpu, IInv, TypeOK
  <2> QED BY <2>1, <2>2 DEF UnblockPrepare, Chosen
<1>3. idleCores' \subseteq Cpus
  BY DEF UnblockPrepare, Chosen, IInv, TypeOK
<1>4. TypeOK'
  BY <1>1, <1>2, <1>3 DEF IInv, TypeOK
<1>5. Places'
  BY <1>1 DEF IInv, Places, QueuedThreads, ReadyIsQueued, QueuedOnceIn, CurrentIffRunning
<1>6. MigratingThreads' /\ LocalSlot' /\ LockIsHeld'
  BY <1>1 DEF IInv, MigratingThreads, LocalSlot, LockIsHeld
<1>7. FreedIsOut'
  BY <1>1, <1>2 DEF IInv, TypeOK, FreedIsOut
<1> QED BY <1>4, <1>5, <1>6, <1>7 DEF IInv

(* *_place appends a thread that was nowhere to the shared runqueue.       *)
LEMMA PlaceIInv ==
  ASSUME IInv, NEW t \in Tasks, NEW from \in {"NOT_QUEUED", "BLOCKED"}, Place(t, from)
  PROVE  IInv'
<1>1. /\ st[t] # "MIGRATING" /\ target[t] \in Cpus
      /\ tcpu' = [tcpu EXCEPT ![t] = target[t]]
      /\ target' = [target EXCEPT ![t] = Null]
      /\ ChangeState(t, "READY", tcpu'[t], Global)
      /\ UNCHANGED <<fp, quantum>>
      /\ UNCHANGED <<online, active, coreInfo, newlyIdle>>
  BY DEF Place, EnqueueLock, IInv, TypeOK
<1>2. /\ tcpu' \in [Tasks -> Cpus]
      /\ \A u \in Tasks \ {t} : tcpu'[u] = tcpu[u]
      /\ target' \in [Tasks -> Cpus \cup {Null}]
      /\ fp' \subseteq Tasks /\ quantum' \in [Tasks -> 0 .. Quantum - 1]
  BY <1>1 DEF IInv, TypeOK
<1>3. \A u \in Tasks \ fp' : target'[u] = Null /\ u # t /\ u \notin fp
  <2>1. t \in fp
    BY <1>1, NullAssumption DEF IInv, FreedIsOut, Cpus
  <2> QED BY <1>1, <2>1 DEF IInv, TypeOK, FreedIsOut
<1> QED BY <1>1, <1>2, <1>3, MoveIInv

(* A tick may send the running thread to the tail of the shared runqueue.  *)
LEMMA TickIInv ==
  ASSUME IInv, NEW c \in Cpus, Tick(c)
  PROVE  IInv'
<1>0. PICK t \in Tasks : t = curr[c]
  BY CurrentIsRunning DEF Tick
<1>1. st[t] = "RUNNING" /\ tcpu[t] = c
  BY <1>0, CurrentIsRunning DEF Tick
<1>2. TicksAfter(t) \in 0 .. Quantum - 1
  <2>1. quantum[t] \in Nat /\ Quantum \in Nat \ {0}
    BY OneQueueAssumption DEF IInv, TypeOK
  <2> QED BY <2>1 DEF TicksAfter
<1>3. /\ quantum' \in [Tasks -> 0 .. Quantum - 1]
      /\ target' \in [Tasks -> Cpus \cup {Null}]
      /\ fp' \subseteq Tasks
      /\ \A u \in Tasks \ fp' : target'[u] = Null /\ u # t /\ u \notin fp
      /\ UNCHANGED <<tcpu, online, active, coreInfo, newlyIdle>>
      /\ tcpu' = tcpu
  BY <1>0, <1>1, <1>2 DEF Tick, IInv, TypeOK, FreedIsOut
<1>4. CASE TicksAfter(t) = 0
  <2>1. ChangeState(t, "READY_TICK", tcpu[t], Global)
    BY <1>0, <1>3, <1>4 DEF Tick, EnqueueLock
  <2> QED BY <1>1, <1>3, <2>1, StayIInv
<1>5. CASE TicksAfter(t) # 0
  <2>1. UNCHANGED <<st, tcpu, rq, curr, target, online, active, fp, cstate, idleCores, glock, migrating>>
    BY <1>0, <1>5 DEF Tick, coreInfo, newlyIdle
  <2>2. TypeOK'
    BY <1>3, <2>1 DEF IInv, TypeOK
  <2>3. Places'
    BY <2>1 DEF IInv, Places, QueuedThreads, ReadyIsQueued, QueuedOnceIn, CurrentIffRunning
  <2>4. MigratingThreads' /\ LocalSlot' /\ LockIsHeld' /\ FreedIsOut'
    BY <2>1 DEF IInv, MigratingThreads, LocalSlot, LockIsHeld, FreedIsOut
  <2> QED BY <2>2, <2>3, <2>4 DEF IInv
<1> QED BY <1>4, <1>5

(* A yield appends the thread to the shared runqueue.                      *)
LEMMA YieldIInv ==
  ASSUME IInv, NEW c \in Cpus, Yield(c)
  PROVE  IInv'
<1>0. PICK t \in Tasks : t = curr[c]
  BY CurrentIsRunning DEF Yield
<1>1. st[t] = "RUNNING"
  BY <1>0, CurrentIsRunning DEF Yield
<1>2. /\ ChangeState(t, "READY", tcpu[t], Global)
      /\ quantum' \in [Tasks -> 0 .. Quantum - 1]
      /\ target' \in [Tasks -> Cpus \cup {Null}]
      /\ fp' \subseteq Tasks
      /\ \A u \in Tasks \ fp' : target'[u] = Null /\ u # t /\ u \notin fp
      /\ UNCHANGED <<tcpu, online, active, coreInfo, newlyIdle>>
  BY <1>0, <1>1 DEF Yield, EnqueueLock, IInv, TypeOK, FreedIsOut
<1> QED BY <1>1, <1>2, StayIInv

(* fifo_block, for a thread that blocks and for one that is moved away.    *)
LEMMA BlockTaskIInv ==
  ASSUME IInv, NEW t \in Tasks, st[t] \in {"READY", "RUNNING"}, BlockTask(t),
         target' \in [Tasks -> Cpus \cup {Null}],
         \A u \in Tasks \ {t} : target'[u] = target[u]
  PROVE  IInv'
<1>1. /\ ChangeState(t, "BLOCKED", tcpu[t], Null)
      /\ quantum' \in [Tasks -> 0 .. Quantum - 1]
      /\ fp' \subseteq Tasks
      /\ \A u \in Tasks \ fp' : target'[u] = Null /\ u # t /\ u \notin fp
      /\ UNCHANGED <<tcpu, online, active, coreInfo, newlyIdle>>
  BY DEF BlockTask, IInv, TypeOK, FreedIsOut
<1> QED BY <1>1, StayIInv

(* terminate frees the struct of a thread that is not on its way in.       *)
LEMMA TerminateIInv ==
  ASSUME IInv, NEW t \in Tasks, Terminate(t)
  PROVE  IInv'
<1>1. /\ st[t] # "MIGRATING"
      /\ ChangeState(t, "TERMINATED", tcpu[t], Null)
      /\ quantum' \in [Tasks -> 0 .. Quantum - 1]
      /\ target' \in [Tasks -> Cpus \cup {Null}]
      /\ fp' \subseteq Tasks
      /\ UNCHANGED <<tcpu, online, active, coreInfo, newlyIdle>>
  BY DEF Terminate, IInv, TypeOK
<1>2. \A u \in Tasks \ fp' : target'[u] = Null /\ (u # t => u \notin fp)
  BY DEF Terminate, IInv, FreedIsOut
<1> QED BY <1>1, <1>2, StayIInv

-----------------------------------------------------------------------------
(* schedule and newly_idle.                                                *)

(* schedule empties the slot of its core, or finds it empty.               *)
LEMMA ScheduleIInv ==
  ASSUME IInv, NEW c \in Cpus, Schedule(c)
  PROVE  IInv'
<1>1. PICK q \in {c, Global} : /\ NextTask(q) # Null
                               /\ q = Global => NextTask(c) = Null /\ tcpu[NextTask(q)] = c
                               /\ ChangeState(NextTask(q), "RUNNING", c, Null)
  BY GlobalIsOther DEF Schedule
<1>2. q \in Queues /\ c \in Queues /\ (q = c => q # Global)
  BY GlobalIsOther DEF Queues
<1>3. PICK t \in Tasks : t = NextTask(q)
  BY <1>1, <1>2, HeadIsQueued
<1>4. Contains(rq[q], t) /\ st[t] = "READY"
  BY <1>1, <1>2, <1>3, HeadIsQueued
<1>5. tcpu[t] = c
  BY <1>1, <1>2, <1>3, <1>4 DEF IInv, Places, QueuedThreads
<1>6. \A u \in Tasks \ {t} : ~ Contains(rq[c], u)
  <2>1. CASE q = c
    BY <1>4, <2>1 DEF IInv, LocalSlot
  <2>2. CASE q = Global
    <3>1. rq[c] = <<>> \/ Head(rq[c]) = Null
      BY <1>1, <2>2 DEF NextTask, FirstTask
    <3>2. rq[c] \in Seq(Tasks)
      BY DEF IInv, TypeOK
    <3>3. rq[c] = <<>>
      <4>1. rq[c] # <<>> => Head(rq[c]) \in Tasks
        BY <3>2
      <4> QED BY <3>1, <4>1, NullAssumption
    <3> QED BY <3>3 DEF Contains
  <2> QED BY <2>1, <2>2
<1>7. /\ ChangeState(t, "RUNNING", c, Null)
      /\ curr[c] = Null /\ migrating[c] = Null
      /\ tcpu' \in [Tasks -> Cpus] /\ tcpu' = tcpu
      /\ quantum' \in [Tasks -> 0 .. Quantum - 1]
      /\ target' \in [Tasks -> Cpus \cup {Null}]
      /\ fp' \subseteq Tasks
      /\ \A u \in Tasks \ fp' : target'[u] = Null /\ u # t /\ u \notin fp
      /\ UNCHANGED <<online, active, coreInfo, newlyIdle>>
  BY <1>1, <1>3, <1>4 DEF Schedule, IInv, TypeOK, FreedIsOut
<1> QED BY <1>4, <1>5, <1>6, <1>7, MoveIInv

(* newly_idle puts a thread of its core in the slot, which is empty since  *)
(* nobody else holds the lock.                                             *)
LEMMA NewlyIdleLocalIInv ==
  ASSUME IInv, NEW c \in Cpus, NewlyIdleLocal(c)
  PROVE  IInv'
<1>1. Global \in Queues
  BY DEF Queues
<1>2. PICK t \in Tasks : t = NextTask(Global)
  BY <1>1, HeadIsQueued DEF NewlyIdleLocal, CallsNewlyIdle
<1>3. st[t] = "READY" /\ tcpu[t] = c
  BY <1>1, <1>2, HeadIsQueued DEF NewlyIdleLocal, CallsNewlyIdle
<1>4. /\ ChangeState(t, "READY", c, c)
      /\ rq[c] = <<>> /\ curr[c] = Null /\ migrating[c] = Null
      /\ tcpu' \in [Tasks -> Cpus] /\ tcpu' = tcpu
      /\ quantum' \in [Tasks -> 0 .. Quantum - 1]
      /\ target' \in [Tasks -> Cpus \cup {Null}]
      /\ fp' \subseteq Tasks
      /\ \A u \in Tasks \ fp' : target'[u] = Null /\ u # t /\ u \notin fp
      /\ UNCHANGED <<online, active, coreInfo, newlyIdle>>
  <2>1. migrating[c] = Null
    BY NullAssumption DEF NewlyIdleLocal, CallsNewlyIdle, LockFree, IInv, LockIsHeld, Cpus
  <2> QED BY <1>2, <1>3, <2>1 DEF NewlyIdleLocal, CallsNewlyIdle, IInv, TypeOK, FreedIsOut
<1> QED BY <1>3, <1>4, MoveIInv

(* It takes the head of another core out, and keeps the lock ...           *)
LEMMA NewlyIdleMigrateIInv ==
  ASSUME IInv, NEW c \in Cpus, NewlyIdleMigrate(c)
  PROVE  IInv'
<1>1. Global \in Queues
  BY DEF Queues
<1>2. PICK t \in Tasks : t = NextTask(Global)
  BY <1>1, HeadIsQueued DEF NewlyIdleMigrate, CallsNewlyIdle
<1>3. /\ st[t] = "READY" /\ Contains(rq[Global], t)
      /\ curr[c] = Null /\ rq[c] = <<>> /\ glock = Null
      /\ glock' = c
      /\ migrating' = [migrating EXCEPT ![c] = t]
      /\ tcpu' = [tcpu EXCEPT ![t] = c]
      /\ ChangeState(t, "MIGRATING", c, Null)
      /\ UNCHANGED <<target, online, active, fp, quantum, cstate, idleCores>>
  BY <1>1, <1>2, HeadIsQueued DEF NewlyIdleMigrate, CallsNewlyIdle, LockFree, coreInfo
<1>4. /\ tcpu' \in [Tasks -> Cpus] /\ tcpu'[t] = c
      /\ \A u \in Tasks \ {t} : tcpu'[u] = tcpu[u]
  BY <1>3 DEF IInv, TypeOK
<1>5. /\ st' \in [Tasks -> State]
      /\ st' = [st EXCEPT ![t] = "MIGRATING"]
      /\ rq' \in [Cpus \cup {Global} -> Seq(Tasks)]
      /\ \A q \in Queues : \A x : Contains(rq'[q], x) <=> x # t /\ Contains(rq[q], x)
      /\ curr' \in [Cpus -> Tasks \cup {Null}]
      /\ Places'
  <2>1. PICK state \in State \cup {"READY_TICK"} : state = "MIGRATING"
    BY DEF State
  <2>2. TypeOK /\ Places
    BY DEF IInv
  <2>3. /\ state \notin {"READY", "READY_TICK"} /\ state # "RUNNING"
        /\ ChangeState(t, state, c, Null)
    BY <1>3, <2>1
  <2>4. /\ st' \in [Tasks -> State]
        /\ st' = [st EXCEPT ![t] = IF state = "READY_TICK" THEN "READY" ELSE state]
        /\ rq' \in [Cpus \cup {Global} -> Seq(Tasks)]
        /\ \A q \in Queues : \A x : Contains(rq'[q], x) <=>
              \/ x # t /\ Contains(rq[q], x)
              \/ x = t /\ q = Null
        /\ curr' \in [Cpus -> Tasks \cup {Null}]
        /\ Places'
    BY <1>4, <2>2, <2>3, MovePlaces
  <2> QED BY <2>1, <2>4, GlobalIsOther
<1>6. \A d \in Cpus : migrating[d] = Null
  BY <1>3, NullAssumption DEF IInv, LockIsHeld, Cpus
<1>7. TypeOK'
  BY <1>3, <1>4, <1>5 DEF IInv, TypeOK, State
<1>8. MigratingThreads'
  <2>1. \A d \in Cpus : migrating'[d] = IF d = c THEN t ELSE Null
    BY <1>3, <1>6 DEF IInv, TypeOK
  <2>2. \A u \in Tasks : u # t => st'[u] = st[u] /\ st[u] # "MIGRATING"
    BY <1>5, <1>6, NullAssumption DEF IInv, TypeOK, MigratingThreads
  <2> QED BY <1>4, <1>5, <2>1, <2>2, NullAssumption DEF IInv, TypeOK, MigratingThreads
<1>9. LocalSlot'
  <2> SUFFICES ASSUME NEW d \in Cpus
               PROVE  /\ \A u, v \in Tasks : Contains(rq'[d], u) /\ Contains(rq'[d], v) => u = v
                      /\ curr'[d] # Null \/ migrating'[d] # Null =>
                           \A u \in Tasks : ~ Contains(rq'[d], u)
                      /\ curr'[d] = Null \/ migrating'[d] = Null
    BY DEF LocalSlot
  <2>1. d \in Queues
    BY DEF Queues
  <2>2. curr'[d] = IF curr[d] = t THEN Null ELSE curr[d]
    BY <1>3 DEF ChangeState
  <2>3. CASE d = c
    <3>1. \A u \in Tasks : ~ Contains(rq[d], u)
      BY <1>3, <2>3 DEF Contains
    <3> QED BY <1>3, <1>5, <2>1, <2>2, <2>3, <3>1
  <2>4. CASE d # c
    <3>1. migrating'[d] = Null
      BY <1>3, <1>6, <2>4 DEF IInv, TypeOK
    <3> QED BY <1>5, <2>1, <2>2, <3>1 DEF IInv, LocalSlot
  <2> QED BY <2>3, <2>4
<1>10. LockIsHeld'
  BY <1>3, <1>6 DEF IInv, TypeOK, LockIsHeld
<1>11. FreedIsOut'
  BY <1>3, <1>5 DEF IInv, TypeOK, FreedIsOut
<1> QED BY <1>5, <1>7, <1>8, <1>9, <1>10, <1>11 DEF IInv

(* ... until it has queued it in its own slot.                             *)
LEMMA NewlyIdleQueueIInv ==
  ASSUME IInv, NEW c \in Cpus, NewlyIdleQueue(c)
  PROVE  IInv'
<1>1. PICK t \in Tasks : t = migrating[c]
  BY DEF NewlyIdleQueue, IInv, TypeOK
<1>2. /\ st[t] = "MIGRATING" /\ tcpu[t] = c /\ glock = c
      /\ ChangeState(t, "READY", c, c)
      /\ glock' = Null
      /\ migrating' = [migrating EXCEPT ![c] = Null]
      /\ UNCHANGED <<tcpu, target, online, active, fp, quantum, cstate, idleCores>>
  BY <1>1 DEF NewlyIdleQueue, coreInfo, IInv, MigratingThreads, LockIsHeld
<1>3. /\ st' \in [Tasks -> State]
      /\ st' = [st EXCEPT ![t] = "READY"]
      /\ rq' \in [Cpus \cup {Global} -> Seq(Tasks)]
      /\ \A q \in Queues : \A x : Contains(rq'[q], x) <=>
              \/ x # t /\ Contains(rq[q], x)
              \/ x = t /\ q = c
      /\ curr' \in [Cpus -> Tasks \cup {Null}]
      /\ Places'
  <2>1. PICK state \in State \cup {"READY_TICK"} : state = "READY"
    BY DEF State, ThreadState
  <2>2. /\ TypeOK /\ Places
        /\ tcpu' \in [Tasks -> Cpus] /\ \A u \in Tasks \ {t} : tcpu'[u] = tcpu[u]
    BY <1>2 DEF IInv, TypeOK
  <2>3. /\ state \in {"READY", "READY_TICK"} /\ state # "RUNNING" /\ c \in {Global, tcpu'[t]}
        /\ ChangeState(t, state, c, c)
    BY <1>2, <2>1
  <2>4. /\ st' \in [Tasks -> State]
        /\ st' = [st EXCEPT ![t] = IF state = "READY_TICK" THEN "READY" ELSE state]
        /\ rq' \in [Cpus \cup {Global} -> Seq(Tasks)]
        /\ \A q \in Queues : \A x : Contains(rq'[q], x) <=>
              \/ x # t /\ Contains(rq[q], x)
              \/ x = t /\ q = c
        /\ curr' \in [Cpus -> Tasks \cup {Null}]
        /\ Places'
    BY <2>2, <2>3, MovePlaces
  <2> QED BY <2>1, <2>4
<1>4. \A d \in Cpus : migrating'[d] = Null
  <2>1. \A d \in Cpus : d # c => migrating[d] = Null
    BY <1>2 DEF IInv, LockIsHeld
  <2> QED BY <1>2, <2>1 DEF IInv, TypeOK
<1>5. TypeOK'
  BY <1>2, <1>3 DEF IInv, TypeOK, State
<1>6. MigratingThreads'
  <2>1. \A u \in Tasks : st'[u] # "MIGRATING"
    <3>1. ASSUME NEW u \in Tasks, st[u] = "MIGRATING" PROVE u = t
      <4>1. tcpu[u] \in Cpus /\ migrating[tcpu[u]] = u /\ u # Null
        BY <3>1, NullAssumption DEF IInv, TypeOK, MigratingThreads
      <4>2. tcpu[u] = c
        BY <1>2, <4>1 DEF IInv, LockIsHeld
      <4> QED BY <1>1, <4>1, <4>2
    <3> QED BY <1>3, <3>1 DEF IInv, TypeOK
  <2> QED BY <1>4, <2>1, NullAssumption DEF MigratingThreads
<1>7. LocalSlot'
  <2> SUFFICES ASSUME NEW d \in Cpus
               PROVE  /\ \A u, v \in Tasks : Contains(rq'[d], u) /\ Contains(rq'[d], v) => u = v
                      /\ curr'[d] # Null => \A u \in Tasks : ~ Contains(rq'[d], u)
    BY <1>4 DEF LocalSlot
  <2>1. d \in Queues
    BY DEF Queues
  <2>2. curr'[d] = IF curr[d] = t THEN Null ELSE curr[d]
    BY <1>2 DEF ChangeState
  <2>3. CASE d = c
    <3>1. migrating[c] # Null
      BY DEF NewlyIdleQueue
    <3>2. curr[d] = Null /\ \A u \in Tasks : ~ Contains(rq[d], u)
      BY <2>3, <3>1 DEF IInv, LocalSlot
    <3> QED BY <1>3, <2>1, <2>2, <3>2
  <2>4. CASE d # c
    BY <1>3, <2>1, <2>2, <2>4 DEF IInv, LocalSlot
  <2> QED BY <2>3, <2>4
<1>8. LockIsHeld'
  BY <1>4 DEF LockIsHeld
<1>9. FreedIsOut'
  BY <1>2, <1>3 DEF IInv, TypeOK, FreedIsOut
<1> QED BY <1>3, <1>5, <1>6, <1>7, <1>8, <1>9 DEF IInv

(* Idle and hotplug events touch the core state and the masks only.        *)
LEMMA CoreEventIInv ==
  ASSUME IInv, NEW c \in Cpus,
         EnterIdle(c) \/ ExitIdle(c) \/ CoreExit(c) \/ CpuDead(c) \/ CoreEntry(c)
  PROVE  IInv'
<1>1. UNCHANGED <<st, tcpu, rq, curr, target, fp, quantum, glock, migrating>>
  BY DEF EnterIdle, ExitIdle, CoreExit, CpuDead, CoreEntry, coreVars, newlyIdle
<1>2. Places' /\ MigratingThreads' /\ LocalSlot' /\ LockIsHeld' /\ FreedIsOut'
  BY <1>1 DEF IInv, Places, QueuedThreads, ReadyIsQueued, QueuedOnceIn, CurrentIffRunning,
              MigratingThreads, LocalSlot, LockIsHeld, FreedIsOut
<1>3. /\ online' \subseteq Cpus /\ active' \subseteq online'
      /\ cstate' \in [Cpus -> CoreState] /\ idleCores' \subseteq Cpus
  <2>1. CASE EnterIdle(c) \/ ExitIdle(c)
    BY <2>1 DEF EnterIdle, ExitIdle, coreVars, IInv, TypeOK, CoreState
  <2>2. CASE CoreExit(c)
    BY <2>2 DEF CoreExit, IInv, TypeOK, CoreState
  <2>3. CASE CpuDead(c)
    BY <2>3 DEF CpuDead, coreInfo, IInv, TypeOK
  <2>4. CASE CoreEntry(c)
    BY <2>4 DEF CoreEntry, IInv, TypeOK, CoreState
  <2> QED BY <2>1, <2>2, <2>3, <2>4
<1>4. TypeOK'
  BY <1>1, <1>3 DEF IInv, TypeOK
<1> QED BY <1>2, <1>4 DEF IInv

-----------------------------------------------------------------------------
(* Every handler preserves the invariant (one step per action).            *)
THEOREM NextIInv == IInv /\ [Next]_vars => IInv'
<1> SUFFICES ASSUME IInv, [Next]_vars PROVE IInv'
  OBVIOUS
<1>1. ASSUME NEW t \in Tasks, TaskNext(t) PROVE IInv'
  <2>1. ASSUME NEW wfExec \in BOOLEAN, NewPrepare(t, wfExec) PROVE IInv'
    BY <2>1, NewPrepareIInv
  <2>2. CASE NewPlace(t) \/ UnblockPlace(t)
    BY <2>2, PlaceIInv DEF NewPlace, UnblockPlace
  <2>3. CASE UnblockPrepare(t)
    BY <2>3, UnblockPrepareIInv
  <2>4. CASE Block(t) \/ \E c \in Cpus : Oust(t, c)
    <3>1. /\ st[t] \in {"READY", "RUNNING"} /\ BlockTask(t)
          /\ target' \in [Tasks -> Cpus \cup {Null}]
          /\ \A u \in Tasks \ {t} : target'[u] = target[u]
      BY <2>4 DEF Block, Oust, IInv, TypeOK
    <3> QED BY <3>1, BlockTaskIInv
  <2>5. CASE Terminate(t)
    BY <2>5, TerminateIInv
  <2> QED BY <1>1, <2>1, <2>2, <2>3, <2>4, <2>5 DEF TaskNext
<1>2. ASSUME NEW c \in Cpus, CpuNext(c) PROVE IInv'
  <2>1. CASE Tick(c)
    BY <2>1, TickIInv
  <2>2. CASE Yield(c)
    BY <2>2, YieldIInv
  <2>3. CASE Schedule(c)
    BY <2>3, ScheduleIInv
  <2>4. CASE NewlyIdleLocal(c) \/ NewlyIdleMigrate(c) \/ NewlyIdleQueue(c)
    BY <2>4, NewlyIdleLocalIInv, NewlyIdleMigrateIInv, NewlyIdleQueueIInv
  <2>5. CASE EnterIdle(c) \/ ExitIdle(c) \/ CoreExit(c) \/ CpuDead(c) \/ CoreEntry(c)
    BY <2>5, CoreEventIInv
  <2> QED BY <1>2, <2>1, <2>2, <2>3, <2>4, <2>5 DEF CpuNext
<1>3. CASE UNCHANGED vars
  <2>1. UNCHANGED <<st, tcpu, rq, curr, target, online, active, fp, quantum, cstate,
                    idleCores, glock, migrating>>
    BY <1>3 DEF vars, coreVars
  <2>2. TypeOK' /\ Places'
    BY <2>1 DEF IInv, TypeOK, Places, QueuedThreads, ReadyIsQueued, QueuedOnceIn, CurrentIffRunning
  <2>3. MigratingThreads' /\ LocalSlot' /\ LockIsHeld' /\ FreedIsOut'
    BY <2>1 DEF IInv, MigratingThreads, LocalSlot, LockIsHeld, FreedIsOut
  <2> QED BY <2>2, <2>3 DEF IInv
<1> QED BY <1>1, <1>2, <1>3 DEF Next

(* The inductive invariant holds in every reachable state.                 *)
THEOREM AlwaysIInv == Spec => []IInv
BY InitIInv, NextIInv, PTL DEF Spec

(* The variables keep their types.                                         *)
THEOREM TypeCorrect == Spec => []TypeOK
<1>1. IInv => TypeOK
  BY DEF IInv
<1> QED BY <1>1, AlwaysIInv, PTL

(* A terminated thread is not scheduled until it is a new one.             *)
THEOREM FreedHolds == Spec => []FreedIsNotScheduled
<1>1. IInv => FreedIsNotScheduled
  BY DEF IInv, FreedIsOut, Places, QueuedThreads, FreedIsNotScheduled
<1> QED BY <1>1, AlwaysIInv, PTL

-----------------------------------------------------------------------------
(* Counting the places of a thread and the threads of a core.              *)

LEMMA InOnePlaceFollows ==
  ASSUME IInv
  PROVE  InOnePlace
<1> DEFINE at(q, t) == {q} \X {i \in DOMAIN rq[q] : rq[q][i] = t}
           places(t) == UNION {at(q, t) : q \in Queues}
           movers(t) == {c \in Cpus : migrating[c] = t}
<1> SUFFICES ASSUME NEW t \in Tasks
             PROVE  /\ Cardinality(places(t)) = IF st[t] = "READY" THEN 1 ELSE 0
                    /\ Cardinality(movers(t)) = IF st[t] = "MIGRATING" THEN 1 ELSE 0
                    /\ \A c \in Cpus : Contains(rq[c], t) \/ migrating[c] = t => tcpu[t] = c
                    /\ \A c \in Cpus : curr[c] = t <=> st[t] = "RUNNING" /\ tcpu[t] = c
  BY DEF InOnePlace
<1>1. Cardinality({}) = 0 /\ \A x : Cardinality({x}) = 1
  BY FS_EmptySet, FS_Singleton
<1>2. \A q \in Queues : rq[q] \in Seq(Tasks) /\ DOMAIN rq[q] = 1..Len(rq[q])
  BY DEF IInv, TypeOK, Queues
<1>3. \A q \in Queues : ~ Contains(rq[q], t) => at(q, t) = {}
  <2> SUFFICES ASSUME NEW q \in Queues, ~ Contains(rq[q], t)
               PROVE  {i \in DOMAIN rq[q] : rq[q][i] = t} = {}
    OBVIOUS
  <2> QED BY <1>2 DEF Contains
<1>4. Cardinality(places(t)) = IF st[t] = "READY" THEN 1 ELSE 0
  <2>1. CASE st[t] = "READY"
    <3>1. PICK q \in Queues : Contains(rq[q], t)
      BY <2>1 DEF IInv, Places, ReadyIsQueued
    <3>2. PICK i \in 1..Len(rq[q]) : rq[q][i] = t
      BY <3>1 DEF Contains
    <3>3. \A r \in Queues : Contains(rq[r], t) => r = q
      BY <3>1 DEF IInv, Places, QueuedThreads
    <3>4. \A j \in 1..Len(rq[q]) : rq[q][j] = t => j = i
      BY <3>2 DEF IInv, Places, QueuedOnceIn, NoDuplicate
    <3>5. at(q, t) = {<<q, i>>}
      BY <1>2, <3>2, <3>4
    <3>6. \A r \in Queues : r # q => at(r, t) = {}
      BY <1>3, <3>3
    <3> HIDE DEF at
    <3>7. places(t) = {<<q, i>>}
      BY <3>5, <3>6
    <3>8. Cardinality({<<q, i>>}) = 1
      BY <1>1
    <3> HIDE DEF places
    <3> QED BY <2>1, <3>7, <3>8
  <2>2. CASE st[t] # "READY"
    <3>1. \A q \in Queues : at(q, t) = {}
      BY <1>3, <2>2 DEF IInv, Places, QueuedThreads
    <3> HIDE DEF at
    <3>2. places(t) = {}
      BY <3>1
    <3> HIDE DEF places
    <3> QED BY <1>1, <2>2, <3>2
  <2> QED BY <2>1, <2>2
<1>5. Cardinality(movers(t)) = IF st[t] = "MIGRATING" THEN 1 ELSE 0
  <2>1. CASE st[t] = "MIGRATING"
    <3>1. tcpu[t] \in Cpus
      BY DEF IInv, TypeOK
    <3>2. movers(t) = {tcpu[t]}
      BY <2>1, <3>1 DEF IInv, MigratingThreads
    <3> HIDE DEF movers
    <3> QED BY <1>1, <2>1, <3>2
  <2>2. CASE st[t] # "MIGRATING"
    <3>1. movers(t) = {}
      BY <2>2 DEF IInv, MigratingThreads
    <3> HIDE DEF movers
    <3> QED BY <1>1, <2>2, <3>1
  <2> QED BY <2>1, <2>2
<1>6. \A c \in Cpus : Contains(rq[c], t) \/ migrating[c] = t => tcpu[t] = c
  BY GlobalIsOther DEF IInv, Places, QueuedThreads, MigratingThreads, Queues
<1>7. \A c \in Cpus : curr[c] = t <=> st[t] = "RUNNING" /\ tcpu[t] = c
  BY DEF IInv, Places, CurrentIffRunning
<1> QED BY <1>4, <1>5, <1>6, <1>7

(* A thread is in one place, whatever happens while one migrates.          *)
THEOREM InOnePlaceHolds == Spec => []InOnePlace
<1>1. IInv => InOnePlace
  BY InOnePlaceFollows
<1> QED BY <1>1, AlwaysIInv, PTL

LEMMA LocalHoldsOneFollows ==
  ASSUME IInv
  PROVE  LocalHoldsOne
<1> SUFFICES ASSUME NEW c \in Cpus
             PROVE  Len(rq[c]) + Cardinality({migrating[c], curr[c]} \ {Null}) <= 1
  BY DEF LocalHoldsOne
<1>1. Cardinality({}) = 0 /\ \A x : Cardinality({x}) = 1
  BY FS_EmptySet, FS_Singleton
<1>2. rq[c] \in Seq(Tasks) /\ NoDuplicate(rq[c])
  BY DEF IInv, TypeOK, Places, QueuedOnceIn, Queues
<1>3. Len(rq[c]) <= 1
  <2>1. Len(rq[c]) \in Nat
    BY <1>2
  <2> SUFFICES ASSUME Len(rq[c]) >= 2 PROVE FALSE
    BY <2>1
  <2>2. 1 \in 1..Len(rq[c]) /\ 2 \in 1..Len(rq[c])
    BY <2>1
  <2>3. /\ rq[c][1] \in Tasks /\ rq[c][2] \in Tasks
        /\ Contains(rq[c], rq[c][1]) /\ Contains(rq[c], rq[c][2])
    BY <1>2, <2>2 DEF Contains
  <2>4. rq[c][1] = rq[c][2]
    BY <2>3 DEF IInv, LocalSlot
  <2> QED BY <2>2, <2>4, <1>2 DEF NoDuplicate
<1>4. CASE curr[c] = Null /\ migrating[c] = Null
  <2>1. {migrating[c], curr[c]} \ {Null} = {}
    BY <1>4
  <2>2. Cardinality({migrating[c], curr[c]} \ {Null}) = Cardinality({})
    BY <2>1, Zenon
  <2>3. Len(rq[c]) \in Nat
    BY <1>2
  <2> QED BY <1>1, <1>3, <2>2, <2>3
<1>5. CASE curr[c] # Null \/ migrating[c] # Null
  <2>1. rq[c] = <<>>
    <3>1. \A t \in Tasks : ~ Contains(rq[c], t)
      BY <1>5 DEF IInv, LocalSlot
    <3> QED BY <1>2, <3>1, EmptyIff
  <2>2. Len(rq[c]) = 0
    BY <2>1
  <2>3. \E x : {migrating[c], curr[c]} \ {Null} = {x}
    <3>1. CASE curr[c] = Null
      <4>1. {migrating[c], curr[c]} \ {Null} = {migrating[c]}
        BY <1>5, <3>1
      <4> QED BY <4>1
    <3>2. CASE migrating[c] = Null
      <4>1. {migrating[c], curr[c]} \ {Null} = {curr[c]}
        BY <1>5, <3>2
      <4> QED BY <4>1
    <3> QED BY <3>1, <3>2 DEF IInv, LocalSlot
  <2>4. Cardinality({migrating[c], curr[c]} \ {Null}) = 1
    BY <1>1, <2>3
  <2> QED BY <2>2, <2>4
<1> QED BY <1>4, <1>5

(* A local runqueue holds at most the thread its core goes to run.         *)
THEOREM LocalHolds == Spec => []LocalHoldsOne
<1>1. IInv => LocalHoldsOne
  BY LocalHoldsOneFollows
<1> QED BY <1>1, AlwaysIInv, PTL

-----------------------------------------------------------------------------
(* FifoOneQueue implements SharedLine: one waiting line, and a slot for    *)
(* each core.                                                              *)

SlotIs ==
  \A c \in Cpus : /\ Slot(c) \in Tasks \cup {Null}
                  /\ \A t \in Tasks : Slot(c) = t <=> migrating[c] = t \/ Contains(rq[c], t)

LEMMA SlotInv == IInv => SlotIs
<1> SUFFICES ASSUME IInv, NEW c \in Cpus
             PROVE  /\ Slot(c) \in Tasks \cup {Null}
                    /\ \A t \in Tasks : Slot(c) = t <=> migrating[c] = t \/ Contains(rq[c], t)
  BY DEF SlotIs
<1>1. rq[c] \in Seq(Tasks) /\ migrating[c] \in Tasks \cup {Null}
  BY DEF IInv, TypeOK
<1>2. CASE migrating[c] # Null
  BY <1>1, <1>2 DEF IInv, LocalSlot, Slot
<1>3. CASE migrating[c] = Null /\ rq[c] = <<>>
  <2>1. \A t \in Tasks : ~ Contains(rq[c], t)
    BY <1>3 DEF Contains
  <2> QED BY <1>3, <2>1, NullAssumption DEF Slot, FirstTask
<1>4. CASE migrating[c] = Null /\ rq[c] # <<>>
  <2>1. 1 \in 1..Len(rq[c]) /\ rq[c][1] \in Tasks /\ Slot(c) = rq[c][1]
    BY <1>1, <1>4 DEF Slot, FirstTask
  <2>2. Contains(rq[c], Slot(c))
    BY <2>1 DEF Contains
  <2> QED BY <1>4, <2>1, <2>2, NullAssumption DEF IInv, LocalSlot
<1> QED BY <1>2, <1>3, <1>4

LEMMA SlotInvNext == IInv' => SlotIs'
BY SlotInv, PTL

(* A slot holds a READY or a MIGRATING thread of its core.                 *)
LEMMA SlotHolds ==
  ASSUME IInv, NEW c \in Cpus, NEW t \in Tasks, Slot(c) = t
  PROVE  st[t] \in {"READY", "MIGRATING"} /\ tcpu[t] = c /\ ~ Contains(rq[Global], t)
<1>1. migrating[c] = t \/ Contains(rq[c], t)
  BY SlotInv DEF SlotIs
<1>2. CASE migrating[c] = t
  BY <1>2 DEF IInv, MigratingThreads, Places, QueuedThreads, Queues
<1>3. CASE Contains(rq[c], t)
  BY <1>3, GlobalIsOther DEF IInv, Places, QueuedThreads, Queues
<1> QED BY <1>1, <1>2, <1>3

(* ChangeState on the runqueues of this policy.                            *)
LEMMA LinesAfter ==
  ASSUME IInv, NEW t \in Tasks, NEW state, NEW cpu, NEW nextRq,
         ChangeState(t, state, cpu, nextRq), NEW q \in Queues, NEW x
  PROVE  Contains(rq'[q], x) <=> \/ x # t /\ Contains(rq[q], x)
                                 \/ x = t /\ q = nextRq
<1>1. rq \in [Queues -> Seq(Tasks)] /\ \A p \in Queues : NoDuplicate(rq[p])
  BY DEF IInv, TypeOK, Places, QueuedOnceIn, Queues
<1>2. /\ rq' \in [Queues -> Seq(Tasks)]
      /\ \A p \in Queues : NoDuplicate(rq'[p])
      /\ \A p \in Queues : \A y : Contains(rq'[p], y) <=>
           \/ y # t /\ Contains(rq[p], y)
           \/ y = t /\ p = nextRq
  BY <1>1, ChangeStateQueues
<1> QED BY <1>2

(* A handler that moves t and puts nothing in the slot of c.               *)
LEMMA SlotAfter ==
  ASSUME IInv, IInv', NEW t \in Tasks, st[t] # "MIGRATING",
         NEW state, NEW cpu, NEW nextRq, ChangeState(t, state, cpu, nextRq),
         NEW c \in Cpus, migrating'[c] = migrating[c], nextRq # c
  PROVE  Slot(c)' = IF Slot(c) = t THEN Null ELSE Slot(c)
<1>1. \A x \in Tasks : Contains(rq'[c], x) <=> x # t /\ Contains(rq[c], x)
  <2>1. c \in Queues
    BY DEF Queues
  <2> QED BY <2>1, LinesAfter
<1>2. /\ Slot(c) \in Tasks \cup {Null}
      /\ \A x \in Tasks : Slot(c) = x <=> migrating[c] = x \/ Contains(rq[c], x)
  BY SlotInv DEF SlotIs
<1>3. /\ Slot(c)' \in Tasks \cup {Null}
      /\ \A x \in Tasks : Slot(c)' = x <=> migrating[c] = x \/ Contains(rq'[c], x)
  BY SlotInvNext DEF SlotIs
<1>4. migrating[c] # t
  BY DEF IInv, MigratingThreads
<1>5. CASE Slot(c) = t
  <2>1. \A x \in Tasks : Slot(c)' = x => x # t /\ (migrating[c] = x \/ Contains(rq[c], x))
    BY <1>1, <1>3, <1>4
  <2> QED BY <1>2, <1>3, <1>5, <2>1
<1>6. CASE Slot(c) # t
  <2>1. \A x \in Tasks : Slot(c)' = x <=> Slot(c) = x
    BY <1>1, <1>2, <1>3, <1>4, <1>6
  <2> QED BY <1>2, <1>3, <1>6, <2>1, NullAssumption
<1> QED BY <1>5, <1>6

(* A thread that becomes READY and is queued goes to the tail of the line. *)
LEMMA LineAppended ==
  ASSUME IInv, NEW t \in Tasks, st[t] # "READY",
         NEW state, NEW cpu, ChangeState(t, state, cpu, Global)
  PROVE  rq'[Global] = Append(rq[Global], t)
<1>1. rq \in [Queues -> Seq(Tasks)] /\ Global \in Queues /\ ~ Contains(rq[Global], t)
  BY DEF IInv, TypeOK, Places, QueuedThreads, Queues
<1> QED BY <1>1, ChangeStateOtherQueue

(* The head of the line leaves it, whatever becomes of it.                 *)
LEMMA LineServed ==
  ASSUME IInv, NEW t, t = NextTask(Global), t # Null,
         NEW state, NEW cpu, NEW nextRq, ChangeState(t, state, cpu, nextRq), nextRq # Global
  PROVE  rq[Global] # <<>> /\ t = Head(rq[Global]) /\ rq'[Global] = Tail(rq[Global])
<1>1. /\ Global \in Queues /\ rq[Global] \in Seq(Tasks) /\ NoDuplicate(rq[Global])
      /\ Global \in DOMAIN rq
  BY DEF IInv, TypeOK, Places, QueuedOnceIn, Queues
<1>2. rq[Global] # <<>> /\ t = Head(rq[Global])
  BY <1>1, HeadIsQueued
<1>3. rq'[Global] = Without(rq[Global], t)
  BY <1>1 DEF ChangeState
<1> QED BY <1>1, <1>2, <1>3, WithoutHead

(* What is in the slots when no READY thread is moved.                     *)
LEMMA SlotsUnchanged ==
  ASSUME IInv, IInv', NEW t \in Tasks, st[t] \notin {"READY", "MIGRATING"},
         NEW state, NEW cpu, ChangeState(t, state, cpu, Global), migrating' = migrating
  PROVE  \A c \in Cpus : Slot(c)' = Slot(c)
<1> SUFFICES ASSUME NEW c \in Cpus PROVE Slot(c)' = Slot(c)
  OBVIOUS
<1>1. Slot(c) # t
  BY SlotHolds
<1> QED BY <1>1, SlotAfter, GlobalIsOther

LEMMA PlaceRefines ==
  ASSUME IInv, IInv', NEW t \in Tasks, NEW from \in {"NOT_QUEUED", "BLOCKED"}, Place(t, from)
  PROVE  Line!Next
<1>1. /\ st[t] \notin {"READY", "RUNNING", "MIGRATING"}
      /\ ChangeState(t, "READY", tcpu'[t], Global)
      /\ migrating' = migrating
  BY DEF Place, EnqueueLock, newlyIdle
<1>2. rq'[Global] = Append(rq[Global], t) /\ \A c \in Cpus : Slot(c)' = Slot(c)
  BY <1>1, LineAppended, SlotsUnchanged
<1>3. /\ ~ Contains(rq[Global], t)
      /\ \A c \in Cpus : Slot(c) # t /\ curr[c] # t
  BY <1>1, SlotHolds DEF IInv, Places, QueuedThreads, CurrentIffRunning, Queues
<1>4. curr' = curr
  BY <1>1, <1>3 DEF ChangeState, IInv, TypeOK
<1>5. Line!Arrive(t)
  BY <1>2, <1>3, <1>4 DEF Line!Arrive, Line!Absent, Line!Contains, Contains
<1> QED BY <1>5 DEF Line!Next

LEMMA RequeueRefines ==
  ASSUME IInv, IInv', NEW c \in Cpus, curr[c] # Null, NEW state \in {"READY", "READY_TICK"},
         NEW cpu, ChangeState(curr[c], state, cpu, Global), migrating' = migrating
  PROVE  Line!Next
<1>1. PICK t \in Tasks : t = curr[c]
  BY CurrentIsRunning
<1>2. st[t] = "RUNNING" /\ tcpu[t] = c /\ ChangeState(t, state, cpu, Global)
  BY <1>1, CurrentIsRunning
<1>3. rq'[Global] = Append(rq[Global], t) /\ \A d \in Cpus : Slot(d)' = Slot(d)
  BY <1>2, LineAppended, SlotsUnchanged
<1>4. curr' = [curr EXCEPT ![c] = Null]
  <2>1. \A d \in Cpus : curr[d] = t <=> d = c
    BY <1>1, <1>2 DEF IInv, Places, CurrentIffRunning
  <2> QED BY <1>2, <2>1 DEF ChangeState, IInv, TypeOK
<1>5. Line!Requeue(c)
  BY <1>1, <1>3, <1>4 DEF Line!Requeue
<1> QED BY <1>5 DEF Line!Next

(* A thread that blocks, is moved or terminates leaves the line, its slot  *)
(* or its CPU, or nothing at all if it was blocked.                        *)
LEMMA DepartRefines ==
  ASSUME IInv, IInv', NEW t \in Tasks, st[t] # "MIGRATING",
         NEW state \in {"BLOCKED", "TERMINATED"},
         ChangeState(t, state, tcpu[t], Null), migrating' = migrating
  PROVE  Line!Next
<1>1. \A c \in Cpus : Slot(c)' = IF Slot(c) = t THEN Null ELSE Slot(c)
  <2>1. \A c \in Cpus : Null # c
    BY NullAssumption DEF Cpus
  <2> QED BY <2>1, SlotAfter
<1>2. curr' = [c \in Cpus |-> IF curr[c] = t THEN Null ELSE curr[c]]
  BY DEF ChangeState
<1>3. rq'[Global] = Without(rq[Global], t) /\ rq[Global] \in Seq(Tasks)
  BY GlobalIsOther DEF ChangeState, IInv, TypeOK
<1>4. \/ ~ Contains(rq[Global], t) /\ rq'[Global] = rq[Global]
      \/ \E i \in 1..Len(rq[Global]) :
           rq[Global][i] = t /\ rq'[Global] = RemoveAt(rq[Global], i)
  <2>1. CASE ~ Contains(rq[Global], t)
    BY <1>3, <2>1 DEF Without
  <2>2. CASE Contains(rq[Global], t)
    <3>1. PICK i : i = PositionOf(rq[Global], t)
      OBVIOUS
    <3>2. i \in 1..Len(rq[Global]) /\ rq[Global][i] = t
      BY <2>2, <3>1 DEF PositionOf, Contains
    <3>3. rq'[Global] = RemoveAt(rq[Global], i)
      BY <1>3, <2>2, <3>1 DEF Without
    <3> QED BY <3>2, <3>3
  <2> QED BY <2>1, <2>2
<1>5. Line!Leave(t)
  BY <1>1, <1>2, <1>4 DEF Line!Leave, Line!Contains, Contains, Line!RemoveAt, RemoveAt
<1> QED BY <1>5 DEF Line!Next

(* schedule serves what its slot holds, or the head of the line.           *)
LEMMA ScheduleRefines ==
  ASSUME IInv, IInv', NEW c \in Cpus, Schedule(c)
  PROVE  Line!Next
<1>1. PICK q \in {c, Global} : /\ NextTask(q) # Null
                               /\ q = Global => NextTask(c) = Null
                               /\ ChangeState(NextTask(q), "RUNNING", c, Null)
  BY GlobalIsOther DEF Schedule
<1>2. q \in Queues
  BY DEF Queues
<1>3. PICK t \in Tasks : t = NextTask(q)
  BY <1>1, <1>2, HeadIsQueued
<1>4. /\ Contains(rq[q], t) /\ st[t] = "READY"
      /\ ChangeState(t, "RUNNING", c, Null)
      /\ curr[c] = Null /\ migrating[c] = Null /\ migrating' = migrating
  BY <1>1, <1>2, <1>3, HeadIsQueued DEF Schedule, newlyIdle
<1>5. \A d \in Cpus : Slot(d)' = IF Slot(d) = t THEN Null ELSE Slot(d)
  <2>1. \A d \in Cpus : Null # d
    BY NullAssumption DEF Cpus
  <2> QED BY <1>4, <2>1, SlotAfter
<1>6. curr' = [curr EXCEPT ![c] = t]
  <2>1. \A d \in Cpus : curr[d] # t
    BY <1>4 DEF IInv, Places, CurrentIffRunning
  <2> QED BY <1>4, <2>1 DEF ChangeState, IInv, TypeOK
<1>7. CASE q = c
  <2>1. Slot(c) = t
    BY <1>4, <1>7, SlotInv DEF SlotIs
  <2>2. \A d \in Cpus : Slot(d) = t => d = c
    BY <2>1, SlotHolds
  <2>3. rq'[Global] = rq[Global]
    <3>1. rq \in [Queues -> Seq(Tasks)] /\ Global \in Queues /\ ~ Contains(rq[Global], t)
      BY <2>1, SlotHolds DEF IInv, TypeOK, Queues
    <3> QED BY <1>4, <3>1, ChangeStateOtherQueue, GlobalIsOther
  <2>4. t # Null
    BY NullAssumption
  <2>5. Line!ServeReserved(c)
    BY <1>4, <1>5, <1>6, <2>1, <2>2, <2>3, <2>4 DEF Line!ServeReserved
  <2> QED BY <2>5 DEF Line!Next
<1>8. CASE q = Global
  <2>1. rq[Global] # <<>> /\ t = Head(rq[Global]) /\ rq'[Global] = Tail(rq[Global])
    BY <1>1, <1>3, <1>4, <1>8, LineServed, GlobalIsOther
  <2>2. Slot(c) = Null
    BY <1>1, <1>4, <1>8 DEF Slot, NextTask
  <2>3. \A d \in Cpus : Slot(d) # t
    BY <1>4, <1>8, SlotHolds
  <2>4. Line!ServeHead(c)
    BY <1>4, <1>5, <1>6, <2>1, <2>2, <2>3 DEF Line!ServeHead
  <2> QED BY <2>4 DEF Line!Next
<1> QED BY <1>7, <1>8

(* newly_idle reserves the head of the line, in one step or in two, of     *)
(* which the second changes nothing that SharedLine sees.                  *)
LEMMA NewlyIdleRefines ==
  ASSUME IInv, IInv', NEW c \in Cpus, NewlyIdleLocal(c) \/ NewlyIdleMigrate(c)
  PROVE  Line!Next
<1>1. Global \in Queues /\ NextTask(Global) # Null
  BY DEF Queues, NewlyIdleLocal, NewlyIdleMigrate, CallsNewlyIdle
<1>2. PICK t \in Tasks : t = NextTask(Global)
  BY <1>1, HeadIsQueued
<1>3. /\ st[t] = "READY" /\ Contains(rq[Global], t)
      /\ curr[c] = Null /\ rq[c] = <<>> /\ glock = Null
  BY <1>1, <1>2, HeadIsQueued DEF NewlyIdleLocal, NewlyIdleMigrate, CallsNewlyIdle, LockFree
<1>4. PICK state, nextRq :
        /\ ChangeState(t, state, c, nextRq) /\ state # "RUNNING" /\ nextRq \in {c, Null}
        /\ \A d \in Cpus : d # c => migrating'[d] = migrating[d]
        /\ nextRq = c \/ migrating'[c] = t
  BY <1>2 DEF NewlyIdleLocal, NewlyIdleMigrate, newlyIdle, IInv, TypeOK
<1>5. /\ rq[Global] # <<>> /\ t = Head(rq[Global]) /\ rq'[Global] = Tail(rq[Global])
  BY <1>1, <1>2, <1>4, LineServed, GlobalIsOther
<1>6. curr' = curr
  <2>1. \A d \in Cpus : curr[d] # t
    BY <1>3 DEF IInv, Places, CurrentIffRunning
  <2> QED BY <1>4, <2>1 DEF ChangeState, IInv, TypeOK
<1>7. Slot(c) = Null
  BY <1>3, NullAssumption DEF Slot, FirstTask, IInv, LockIsHeld, Cpus
<1>8. Slot(c)' = t
  <2>1. nextRq = c => Contains(rq'[c], t)
    <3>1. c \in Queues
      BY DEF Queues
    <3> QED BY <1>4, <3>1, LinesAfter
  <2> QED BY <1>4, <2>1, SlotInvNext DEF SlotIs
<1>9. \A d \in Cpus : d # c => Slot(d)' = Slot(d)
  <2> SUFFICES ASSUME NEW d \in Cpus, d # c PROVE Slot(d)' = Slot(d)
    OBVIOUS
  <2>1. Slot(d) # t
    BY <1>3, SlotHolds
  <2>2. nextRq # d /\ migrating'[d] = migrating[d]
    BY <1>4, NullAssumption DEF Cpus
  <2> QED BY <1>3, <1>4, <2>1, <2>2, SlotAfter
<1>10. Line!Reserve(c)
  BY <1>3, <1>5, <1>6, <1>7, <1>8, <1>9 DEF Line!Reserve
<1> QED BY <1>10 DEF Line!Next

LEMMA NewlyIdleQueueRefines ==
  ASSUME IInv, IInv', NEW c \in Cpus, NewlyIdleQueue(c)
  PROVE  UNCHANGED Line!vars
<1>1. PICK t \in Tasks : t = migrating[c]
  BY DEF NewlyIdleQueue, IInv, TypeOK
<1>2. /\ st[t] = "MIGRATING" /\ tcpu[t] = c
      /\ ChangeState(t, "READY", c, c)
      /\ \A d \in Cpus : d # c => migrating'[d] = migrating[d]
  BY <1>1 DEF NewlyIdleQueue, IInv, TypeOK, MigratingThreads
<1>3. \A q \in Queues : ~ Contains(rq[q], t)
  BY <1>2 DEF IInv, Places, QueuedThreads
<1>4. rq \in [Queues -> Seq(Tasks)] /\ \A q \in Queues : NoDuplicate(rq[q])
  BY DEF IInv, TypeOK, Places, QueuedOnceIn, Queues
<1>5. \A q \in Queues : q # c => rq'[q] = rq[q]
  BY <1>2, <1>3, <1>4, ChangeStateOtherQueue
<1>6. curr' = curr
  <2>1. \A d \in Cpus : curr[d] # t
    BY <1>2 DEF IInv, Places, CurrentIffRunning
  <2> QED BY <1>2, <2>1 DEF ChangeState, IInv, TypeOK
<1>7. \A d \in Cpus : Slot(d)' = Slot(d)
  <2>1. ASSUME NEW d \in Cpus, d # c PROVE Slot(d)' = Slot(d)
    BY <1>2, <1>5, <2>1 DEF Slot, Queues
  <2>2. Slot(c) = t
    BY <1>1, SlotInv DEF SlotIs
  <2>3. Contains(rq'[c], t)
    <3>1. c \in Queues
      BY DEF Queues
    <3> QED BY <1>2, <1>4, <3>1, ChangeStateQueues
  <2>4. Slot(c)' = t
    BY <2>3, SlotInvNext DEF SlotIs
  <2> QED BY <2>1, <2>2, <2>4
<1>8. rq'[Global] = rq[Global]
  BY <1>5, GlobalIsOther DEF Queues
<1> QED BY <1>6, <1>7, <1>8 DEF Line!vars

(* Every handler is a step of SharedLine or a stutter.                     *)
LEMMA Stutters ==
  ASSUME UNCHANGED <<rq, curr, migrating>>
  PROVE  UNCHANGED Line!vars
BY DEF Line!vars, Slot

THEOREM StepRefines == IInv /\ [Next]_vars => [Line!Next]_(Line!vars)
<1> SUFFICES ASSUME IInv, [Next]_vars PROVE [Line!Next]_(Line!vars)
  OBVIOUS
<1>0. IInv'
  BY NextIInv
<1>1. ASSUME NEW t \in Tasks, TaskNext(t) PROVE [Line!Next]_(Line!vars)
  <2>1. ASSUME NEW wfExec \in BOOLEAN, NewPrepare(t, wfExec) PROVE [Line!Next]_(Line!vars)
    BY <2>1, Stutters DEF NewPrepare, newlyIdle
  <2>2. CASE UnblockPrepare(t)
    BY <2>2, Stutters DEF UnblockPrepare, newlyIdle
  <2>3. CASE NewPlace(t) \/ UnblockPlace(t)
    BY <1>0, <2>3, PlaceRefines DEF NewPlace, UnblockPlace
  <2>4. CASE Block(t) \/ (\E c \in Cpus : Oust(t, c)) \/ Terminate(t)
    <3>1. /\ st[t] # "MIGRATING" /\ migrating' = migrating
          /\ \E state \in {"BLOCKED", "TERMINATED"} : ChangeState(t, state, tcpu[t], Null)
      BY <2>4 DEF Block, Oust, BlockTask, Terminate, newlyIdle
    <3> QED BY <1>0, <3>1, DepartRefines
  <2> QED BY <1>1, <2>1, <2>2, <2>3, <2>4 DEF TaskNext
<1>2. ASSUME NEW c \in Cpus, CpuNext(c) PROVE [Line!Next]_(Line!vars)
  <2>1. CASE Tick(c) \/ Yield(c)
    <3>1. curr[c] # Null /\ migrating' = migrating
      BY <2>1 DEF Tick, Yield, newlyIdle
    <3>2. \/ UNCHANGED <<rq, curr>>
          \/ \E state \in {"READY", "READY_TICK"} : \E cpu : ChangeState(curr[c], state, cpu, Global)
      BY <2>1 DEF Tick, Yield, EnqueueLock
    <3>3. CASE UNCHANGED <<rq, curr>>
      BY <3>1, <3>3, Stutters
    <3> QED BY <1>0, <3>1, <3>2, <3>3, RequeueRefines
  <2>2. CASE Schedule(c)
    BY <1>0, <2>2, ScheduleRefines
  <2>3. CASE NewlyIdleLocal(c) \/ NewlyIdleMigrate(c)
    BY <1>0, <2>3, NewlyIdleRefines
  <2>4. CASE NewlyIdleQueue(c)
    BY <1>0, <2>4, NewlyIdleQueueRefines
  <2>5. CASE EnterIdle(c) \/ ExitIdle(c) \/ CoreExit(c) \/ CpuDead(c) \/ CoreEntry(c)
    BY <2>5, Stutters DEF EnterIdle, ExitIdle, CoreExit, CpuDead, CoreEntry, coreVars, newlyIdle
  <2> QED BY <1>2, <2>1, <2>2, <2>3, <2>4, <2>5 DEF CpuNext
<1>3. CASE UNCHANGED vars
  BY <1>3, Stutters DEF vars, coreVars
<1> QED BY <1>1, <1>2, <1>3 DEF Next

(* The policy is one waiting line for all the cores, with a slot for each. *)
THEOREM ImplementsSharedLine == Spec => ServesSharedLine
<1>1. Init => Line!Init
  BY DEF Init, CoreInit, Line!Init, Slot, FirstTask
<1> QED BY <1>1, StepRefines, AlwaysIInv, PTL DEF Spec, ServesSharedLine, Line!Spec

(* Only schedule gives a CPU another thread: the first of a runqueue.      *)
LEMMA ElectedIsFirst ==
  ASSUME IInv, Next, NEW c \in Cpus, curr'[c] \notin {curr[c], Null}
  PROVE  \E q \in Queues : rq[q] # <<>> /\ curr'[c] = Head(rq[q])
<1>1. ~ \E t, state, cpu, q : state # "RUNNING" /\ ChangeState(t, state, cpu, q)
  BY DEF ChangeState
<1>2. curr' # curr
  BY DEF IInv, TypeOK
<1>3. PICK d \in Cpus : Schedule(d)
  <2>1. ASSUME NEW t \in Tasks, TaskNext(t) PROVE FALSE
    <3>1. CASE (\E wfExec \in BOOLEAN : NewPrepare(t, wfExec)) \/ UnblockPrepare(t)
      BY <1>2, <3>1 DEF NewPrepare, UnblockPrepare
    <3>2. CASE NewPlace(t) \/ UnblockPlace(t)
      BY <1>1, <3>2 DEF NewPlace, UnblockPlace, Place, EnqueueLock
    <3>3. CASE Block(t) \/ (\E d \in Cpus : Oust(t, d)) \/ Terminate(t)
      BY <1>1, <3>3 DEF Block, Oust, BlockTask, Terminate
    <3> QED BY <2>1, <3>1, <3>2, <3>3 DEF TaskNext
  <2>2. ASSUME NEW d \in Cpus, CpuNext(d), ~ Schedule(d) PROVE FALSE
    <3>1. CASE Tick(d) \/ Yield(d)
      BY <1>1, <1>2, <3>1 DEF Tick, Yield, EnqueueLock
    <3>2. CASE NewlyIdleLocal(d) \/ NewlyIdleMigrate(d) \/ NewlyIdleQueue(d)
      BY <1>1, <3>2 DEF NewlyIdleLocal, NewlyIdleMigrate, NewlyIdleQueue
    <3>3. CASE EnterIdle(d) \/ ExitIdle(d) \/ CoreExit(d) \/ CpuDead(d) \/ CoreEntry(d)
      BY <1>2, <3>3 DEF EnterIdle, ExitIdle, CoreExit, CpuDead, CoreEntry, coreVars
    <3> QED BY <2>2, <3>1, <3>2, <3>3 DEF CpuNext
  <2> QED BY <2>1, <2>2 DEF Next
<1>4. PICK q \in {d, Global} : NextTask(q) # Null /\ ChangeState(NextTask(q), "RUNNING", d, Null)
  BY <1>3, GlobalIsOther DEF Schedule
<1>5. curr'[c] = NextTask(q)
  BY <1>4 DEF ChangeState
<1> QED BY <1>4, <1>5 DEF NextTask, FirstTask, Queues

(* A thread that waits is never overtaken: nobody gets before it in the    *)
(* shared runqueue, by whichever core that is served, and in a local one   *)
(* there is nobody else.                                                   *)
THEOREM ServedInTurn == Spec => [][InTurn(Queues, Tasks)]_vars
<1>1. ASSUME IInv, Next PROVE InTurn(Queues, Tasks)
  <2>0. IInv' /\ [Line!Next]_(Line!vars)
    BY <1>1, NextIInv, StepRefines
  <2>1. /\ rq \in [Queues -> Seq(Tasks)] /\ Global \in Queues
        /\ \A c \in Cpus : curr[c] # Null =>
             curr[c] \in Tasks /\ ~ Contains(rq[Global], curr[c])
    BY <1>1 DEF IInv, TypeOK, Queues, Places, QueuedThreads, CurrentIffRunning
  <2>2. ASSUME NEW t \in Tasks, Contains(rq[Global], t)
        PROVE  \A u : Before(rq'[Global], u, t) => Before(rq[Global], u, t)
    <3>1. \/ rq'[Global] = rq[Global]
          \/ rq[Global] # <<>> /\ rq'[Global] = Tail(rq[Global])
          \/ \E i \in 1..Len(rq[Global]) : rq'[Global] = RemoveAt(rq[Global], i)
          \/ \E x \in Tasks \ {t} : rq'[Global] = Append(rq[Global], x)
      <4>1. CASE UNCHANGED Line!vars
        BY <4>1 DEF Line!vars
      <4>2. ASSUME NEW x \in Tasks, Line!Arrive(x)
            PROVE  x # t /\ rq'[Global] = Append(rq[Global], x)
        BY <2>2, <4>2 DEF Line!Arrive, Line!Absent, Line!Contains, Contains
      <4>3. ASSUME NEW x \in Tasks, Line!Leave(x)
            PROVE  \/ rq'[Global] = rq[Global]
                   \/ \E i \in 1..Len(rq[Global]) : rq'[Global] = RemoveAt(rq[Global], i)
        BY <4>3 DEF Line!Leave, Line!RemoveAt, RemoveAt
      <4>4. ASSUME NEW c \in Cpus, Line!Requeue(c)
            PROVE  \E x \in Tasks \ {t} : rq'[Global] = Append(rq[Global], x)
        BY <2>1, <2>2, <4>4 DEF Line!Requeue
      <4>5. ASSUME NEW c \in Cpus, Line!Reserve(c) \/ Line!ServeReserved(c) \/ Line!ServeHead(c)
            PROVE  \/ rq'[Global] = rq[Global]
                   \/ rq[Global] # <<>> /\ rq'[Global] = Tail(rq[Global])
        BY <4>5 DEF Line!Reserve, Line!ServeReserved, Line!ServeHead
      <4> QED BY <2>0, <4>1, <4>2, <4>3, <4>4, <4>5 DEF Line!Next
    <3> QED BY <2>1, <3>1, TurnKept
  <2>3. ASSUME NEW c \in Cpus, NEW t \in Tasks, NEW u PROVE ~ Before(rq'[c], u, t)
    <3>1. NoDuplicate(rq'[c]) /\ rq'[c] \in Seq(Tasks)
      BY <2>0 DEF IInv, TypeOK, Queues, Places, QueuedOnceIn
    <3>2. \A x, y \in Tasks : Contains(rq'[c], x) /\ Contains(rq'[c], y) => x = y
      BY <2>0 DEF IInv, LocalSlot, Contains
    <3> QED BY <3>1, <3>2 DEF Before, NoDuplicate, Contains
  <2> QED BY <1>1, <2>2, <2>3, ElectedIsFirst DEF InTurn, Queues
<1> QED BY <1>1, AlwaysIInv, PTL DEF Spec
=============================================================================
