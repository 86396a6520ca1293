-------------------------- MODULE PerCpuFifoProofs -------------------------
(***************************************************************************)
(* Theorems about PerCpuFifo, for every set of threads, number of CPUs,    *)
(* pid assignment, quantum and tick gap.                                   *)
(*                                                                         *)
(* None of the invariants is inductive alone: a tick requeues on task_cpu, *)
(* which is the CPU of the tick only by Placement; the quantum of the      *)
(* thread scheduled next is fresh only because a READY thread is nobody's  *)
(* current.  So they are proved together, as the conjunction IInv.         *)
(***************************************************************************)
EXTENDS PerCpuFifo, SaakmCoreProofs

IInv ==
  /\ TypeOK
  /\ Placement
  /\ MetadataAgrees
  /\ QuantumNeverOverrun
  /\ NothingOnDeadCpu

-----------------------------------------------------------------------------
(* What the lemmas about the placement of threads need.                    *)
LEMMA Places == ASSUME IInv PROVE PlacementTypes /\ Placed
BY DEF IInv, TypeOK, PlacementTypes, Placement

(* A freshly loaded module: nothing is queued, running or placed.          *)
THEOREM InitIInv == Init => IInv
<1> SUFFICES ASSUME Init PROVE IInv
  OBVIOUS
<1> USE DEF Init, CoreInit
<1>1. TypeOK
  BY DEF TypeOK, ThreadState, Process, NoProcess, CoreState
<1>2. Placement
  <2>1. QueuedIffReady
    <3>1. \A c \in Cpus, t \in Tasks : ~ Contains(rq[c], t)
      BY DEF Contains
    <3> QED BY <3>1 DEF QueuedIffReady
  <2>2. QueuedOnce
    BY DEF QueuedOnce
  <2>3. CurrentIffRunning
    BY NullAssumption DEF CurrentIffRunning
  <2> QED BY <2>1, <2>2, <2>3 DEF Placement, Placed
<1>3. MetadataAgrees
  BY DEF MetadataAgrees, NoProcess
<1>4. QuantumNeverOverrun
  BY DEF QuantumNeverOverrun
<1>5. NothingOnDeadCpu
  BY DEF NothingOnDeadCpu
<1> QED BY <1>1, <1>2, <1>3, <1>4, <1>5 DEF IInv

-----------------------------------------------------------------------------
(* new_prepare touches a thread that is neither queued nor running.        *)
LEMMA NewPrepareIInv ==
  ASSUME IInv, NEW t \in Tasks, NEW wfExec \in BOOLEAN, NewPrepare(t, wfExec)
  PROVE  IInv'
<1> USE DEF NewPrepare
<1>1. PICK d \in AllowedTargets(SelectCpu(t, tcpu[t], wfExec)) :
        target' = [target EXCEPT ![t] = d]
  OBVIOUS
<1>2. d \in active /\ d \in online /\ d \in Cpus
  BY <1>1 DEF AllowedTargets, IInv, TypeOK
<1>3. st' \in [Tasks -> ThreadState] /\ fp' \in [Tasks -> Process]
  BY DEF IInv, TypeOK, ThreadState, Process, ProcessState
<1>4. TypeOK'
  BY <1>1, <1>2, <1>3 DEF IInv, TypeOK
<1>5. Placement'
  <2>1. QueuedIffReady'
    BY DEF IInv, TypeOK, Placement, Placed, QueuedIffReady
  <2>2. QueuedOnce'
    BY DEF IInv, Placement, Placed, QueuedOnce
  <2>3. CurrentIffRunning'
    BY DEF IInv, TypeOK, Placement, Placed, CurrentIffRunning
  <2> QED BY <2>1, <2>2, <2>3 DEF Placement, Placed
<1>6. MetadataAgrees'
  BY DEF IInv, TypeOK, MetadataAgrees
<1>7. QuantumNeverOverrun'
  <2> SUFFICES ASSUME NEW c \in Cpus, curr'[c] # Null
               PROVE  ran'[c] <= quantum'[curr'[c]] /\ quantum'[curr'[c]] < Quantum
    BY DEF QuantumNeverOverrun
  <2>1. curr[c] # t /\ curr[c] \in Tasks
    BY Places, CurrentIsUnique
  <2> QED BY <2>1 DEF IInv, TypeOK, QuantumNeverOverrun
<1>8. NothingOnDeadCpu'
  BY <1>1, <1>2 DEF IInv, TypeOK, NothingOnDeadCpu
<1> QED BY <1>4, <1>5, <1>6, <1>7, <1>8 DEF IInv

(* *_place enqueues a thread that was nowhere on the CPU chosen for it.    *)
LEMMA PlaceIInv ==
  ASSUME IInv, NEW t \in Tasks, NEW from \in {"NOT_QUEUED", "BLOCKED"}, Place(t, from)
  PROVE  IInv'
<1> DEFINE d == target[t]
<1>1. d \in Cpus /\ d \in online
  BY DEF Place, IInv, TypeOK, NothingOnDeadCpu
<1>2. ChangeState(t, "READY", d, d)
  BY DEF Place, EnqueueTask
<1>3. /\ tcpu' \in [Tasks -> Cpus]
      /\ tcpu'[t] = d
      /\ \A u \in Tasks \ {t} : tcpu'[u] = tcpu[u]
  BY <1>1 DEF Place, IInv, TypeOK
<1> HIDE DEF d
<1>4. /\ st' \in [Tasks -> ThreadState]
      /\ rq' \in [Cpus -> Seq(Tasks)]
      /\ curr' \in [Cpus -> Tasks \cup {Null}]
      /\ Placed'
  <2>1. PlacementTypes /\ Placed /\ "READY" \in ThreadState \cup {"READY_TICK"}
    BY Places DEF ThreadState
  <2> QED BY <1>2, <1>3, <2>1, ChangeStatePlacement
<1> USE DEF d, Place, EnqueueTask
<1>5. st' = [st EXCEPT ![t] = "READY"]
  BY <1>2 DEF ChangeState
<1>6. curr' = curr
  <2>1. \A c \in Cpus : curr[c] # t
    BY DEF IInv, Placement, Placed, CurrentIffRunning
  <2>2. \A c \in Cpus : curr'[c] = curr[c]
    BY <1>2, <2>1 DEF ChangeState
  <2> QED BY <1>4, <2>2 DEF IInv, TypeOK
<1>7. fp' \in [Tasks -> Process] /\ fcur' = fcur
  BY <1>1 DEF IInv, TypeOK, Process, ProcessState, ThreadState
<1>8. TypeOK'
  BY <1>3, <1>4, <1>7 DEF IInv, TypeOK
<1>9. MetadataAgrees'
  BY <1>1, <1>3, <1>5 DEF IInv, TypeOK, MetadataAgrees
<1>10. QuantumNeverOverrun'
  BY <1>6 DEF IInv, QuantumNeverOverrun
<1>11. NothingOnDeadCpu'
  <2>1. ASSUME NEW c \in Cpus \ online PROVE rq'[c] = <<>>
    <3>1. \A u \in Tasks : ~ Contains(rq[c], u) /\ c # d
      BY <1>1, <2>1, EmptyIff DEF IInv, TypeOK, NothingOnDeadCpu
    <3>2. \A u \in Tasks : ~ Contains(rq'[c], u)
      BY <1>3, <1>4, <1>5, <3>1 DEF IInv, TypeOK, Placement, Placed, QueuedIffReady
    <3> QED BY <1>4, <3>2, EmptyIff
  <2> QED BY <1>6, <2>1 DEF IInv, TypeOK, NothingOnDeadCpu
<1> QED BY <1>4, <1>8, <1>9, <1>10, <1>11 DEF IInv, Placement

(* What tick, yield, block, migration and terminate have in common: a      *)
(* thread stops running or waiting and is requeued on its CPU, or not at   *)
(* all; the threads running elsewhere keep their clock and their quantum.  *)
LEMMA LeaveIInv ==
  ASSUME IInv,
         NEW t \in Tasks,
         NEW state \in {"READY", "READY_TICK", "BLOCKED", "TERMINATED"},
         NEW nextRq,
         ChangeState(t, state, tcpu[t], nextRq),
         state \in {"READY", "READY_TICK"} => nextRq = tcpu[t] /\ tcpu[t] \in online,
         state \notin {"READY", "READY_TICK"} => nextRq = Null,
         fp' = [fp EXCEPT ![t] = IF state = "TERMINATED" THEN NoProcess
                                 ELSE [state |-> state, rq |-> nextRq]],
         quantum' \in [Tasks -> Nat],
         \A u \in Tasks \ {t} : quantum'[u] = quantum[u],
         ran' \in [Cpus -> Nat],
         \A c \in Cpus : curr'[c] # Null => ran'[c] = ran[c],
         fcur' \in [Cpus -> Tasks \cup {Null}],
         target' \in [Tasks -> Cpus \cup {Null}],
         \A u \in Tasks : target'[u] # Null => target'[u] \in online,
         UNCHANGED <<tcpu, online, active, cstate, onlineCores>>
  PROVE  IInv'
<1>1. /\ TypeOK /\ PlacementTypes /\ Placed
      /\ state \in ProcessState /\ state # "RUNNING"
      /\ state \in ThreadState \cup {"READY_TICK"}
  BY Places DEF IInv, ProcessState, ThreadState
<1>2. tcpu' \in [Tasks -> Cpus] /\ tcpu' = tcpu
  BY <1>1 DEF TypeOK
<1>3. /\ st' \in [Tasks -> ThreadState]
      /\ rq' \in [Cpus -> Seq(Tasks)]
      /\ curr' \in [Cpus -> Tasks \cup {Null}]
      /\ Placed'
  BY <1>1, <1>2, ChangeStatePlacement
<1>4. st' = [st EXCEPT ![t] = IF state = "READY_TICK" THEN "READY" ELSE state]
  BY DEF ChangeState
<1>5. \A c \in Cpus : curr'[c] # Null => curr'[c] = curr[c] /\ curr[c] # t
  BY <1>1 DEF ChangeState
<1>6. nextRq \in Cpus \cup {Null}
  BY <1>1 DEF TypeOK
<1>7. fp' \in [Tasks -> Process]
  BY <1>1, <1>6 DEF TypeOK, Process, NoProcess
<1>8. TypeOK'
  BY <1>1, <1>2, <1>3, <1>7 DEF TypeOK
<1>9. MetadataAgrees'
  <2> SUFFICES ASSUME NEW u \in Tasks
               PROVE  /\ st'[u] = "READY" => fp'[u].state \in {"READY", "READY_TICK"} /\ fp'[u].rq = tcpu'[u]
                      /\ st'[u] \in {"RUNNING", "BLOCKED"} => fp'[u] = [state |-> st'[u], rq |-> Null]
                      /\ st'[u] = "NOT_QUEUED" => fp'[u].state \in {"NOT_QUEUED", "FREED"}
                      /\ st'[u] = "TERMINATED" => fp'[u] = NoProcess
    BY DEF MetadataAgrees
  <2>1. CASE u = t
    BY <1>1, <1>2, <1>4, <2>1 DEF TypeOK
  <2>2. CASE u # t
    BY <1>1, <1>2, <1>4, <2>2 DEF IInv, TypeOK, MetadataAgrees
  <2> QED BY <2>1, <2>2
<1>10. QuantumNeverOverrun'
  BY <1>1, <1>5 DEF IInv, TypeOK, QuantumNeverOverrun
<1>11. NothingOnDeadCpu'
  <2>1. ASSUME NEW c \in Cpus \ online PROVE rq'[c] = <<>>
    <3>1. \A u \in Tasks : ~ (st[u] = "READY" /\ tcpu[u] = c)
      BY <1>1, <2>1, EmptyIff DEF IInv, TypeOK, NothingOnDeadCpu, Placement, Placed, QueuedIffReady
    <3>2. \A u \in Tasks : ~ (st'[u] = "READY" /\ tcpu'[u] = c)
      BY <1>1, <1>2, <1>4, <2>1, <3>1 DEF TypeOK
    <3>3. \A u \in Tasks : ~ Contains(rq'[c], u)
      BY <1>3, <3>2 DEF Placement, Placed, QueuedIffReady
    <3> QED BY <1>3, <3>3, EmptyIff
  <2>2. ASSUME NEW c \in Cpus \ online PROVE curr'[c] = Null
    BY <1>5, <2>2 DEF IInv, NothingOnDeadCpu
  <2> QED BY <2>1, <2>2 DEF NothingOnDeadCpu
<1> QED BY <1>3, <1>8, <1>9, <1>10, <1>11 DEF IInv, Placement

(* The clock of a CPU that keeps its current is untouched.                 *)
LEMMA StopClockFacts ==
  ASSUME TypeOK, StopClock
  PROVE  /\ ran' \in [Cpus -> Nat]
         /\ \A c \in Cpus : curr'[c] # Null => ran'[c] = ran[c]
BY DEF TypeOK, StopClock

(* A tick adds at least the time really run, and requeues at the quantum.  *)
LEMMA TickIInv ==
  ASSUME IInv, NEW c \in Cpus, NEW gap \in 1..MaxTickGap, Tick(c, gap)
  PROVE  IInv'
<1> DEFINE t == curr[c]
           used == Used(t, c, gap)
<1>1. /\ t \in Tasks /\ st[t] = "RUNNING" /\ tcpu[t] = c
      /\ \A d \in Cpus : curr[d] = t => d = c
      /\ c \in online
  BY Places, CurrentIsUnique DEF Tick
<1>2. used \in Nat /\ ran[c] + gap \in Nat /\ ran[c] + gap <= used
  BY <1>1, QuantumAssumption DEF IInv, TypeOK, Used
<1>3. UNCHANGED <<tcpu, target, online, active, cstate, onlineCores>>
  BY DEF Tick
<1>4. CASE used >= Quantum
  <2>1. /\ ran' = [ran EXCEPT ![c] = 0]
        /\ quantum' = [quantum EXCEPT ![t] = 0]
        /\ EnqueueTask(t, c, c, "READY_TICK")
    BY <1>1, <1>2, <1>4, QuantumAssumption DEF Tick
  <2>2. /\ ChangeState(t, "READY_TICK", tcpu[t], c)
        /\ fp' = [fp EXCEPT ![t] = [state |-> "READY_TICK", rq |-> c]]
        /\ fcur' = [fcur EXCEPT ![c] = Null]
    BY <1>1, <2>1 DEF EnqueueTask
  <2>3. \A d \in Cpus : curr'[d] # Null => ran'[d] = ran[d]
    BY <1>1, <2>1, <2>2 DEF ChangeState, IInv, TypeOK
  <2>4. /\ ran' \in [Cpus -> Nat]
        /\ quantum' \in [Tasks -> Nat]
        /\ \A u \in Tasks \ {t} : quantum'[u] = quantum[u]
        /\ fcur' \in [Cpus -> Tasks \cup {Null}]
        /\ target' \in [Tasks -> Cpus \cup {Null}]
        /\ \A u \in Tasks : target'[u] # Null => target'[u] \in online
    BY <1>1, <1>3, <2>1, <2>2 DEF IInv, TypeOK, NothingOnDeadCpu
  <2> QED BY <1>1, <1>3, <2>2, <2>3, <2>4, LeaveIInv
<1>5. CASE used < Quantum
  <2>1. /\ ran' = [ran EXCEPT ![c] = @ + gap]
        /\ quantum' = [quantum EXCEPT ![t] = used]
        /\ UNCHANGED <<st, rq, curr, fp, fcur>>
    BY <1>1, <1>2, <1>5, QuantumAssumption DEF Tick
  <2>2. TypeOK'
    BY <1>1, <1>2, <1>3, <2>1 DEF IInv, TypeOK
  <2>3. Placement' /\ MetadataAgrees' /\ NothingOnDeadCpu'
    BY <1>3, <2>1 DEF IInv, Placement, Placed, QueuedIffReady, QueuedOnce, CurrentIffRunning,
                      MetadataAgrees, NothingOnDeadCpu
  <2>4. QuantumNeverOverrun'
    <3> SUFFICES ASSUME NEW d \in Cpus, curr'[d] # Null
                 PROVE  ran'[d] <= quantum'[curr'[d]] /\ quantum'[curr'[d]] < Quantum
      BY DEF QuantumNeverOverrun
    <3>1. CASE d = c
      BY <1>1, <1>2, <1>5, <2>1, <3>1 DEF IInv, TypeOK
    <3>2. CASE d # c
      <4>1. curr[d] \in Tasks /\ curr[d] # t
        BY <1>1, <2>1, <3>2 DEF IInv, TypeOK
      <4> QED BY <1>1, <2>1, <3>2, <4>1 DEF IInv, TypeOK, QuantumNeverOverrun
    <3> QED BY <3>1, <3>2
  <2> QED BY <2>2, <2>3, <2>4 DEF IInv
<1>6. used >= Quantum \/ used < Quantum
  BY <1>2, QuantumAssumption
<1> QED BY <1>4, <1>5, <1>6

(* A yield requeues the current of c on c.                                 *)
LEMMA YieldIInv ==
  ASSUME IInv, NEW c \in Cpus, Yield(c)
  PROVE  IInv'
<1> DEFINE t == curr[c]
<1>1. /\ t \in Tasks /\ tcpu[t] = c /\ c \in online
      /\ EnqueueTask(t, c, c, "READY")
      /\ StopClock
      /\ UNCHANGED <<tcpu, target, online, active, quantum, cstate, onlineCores>>
  BY Places, CurrentIsUnique DEF Yield
<1>2. /\ ChangeState(t, "READY", tcpu[t], c)
      /\ fp' = [fp EXCEPT ![t] = [state |-> "READY", rq |-> c]]
      /\ fcur' = fcur
  BY <1>1 DEF EnqueueTask
<1>3. /\ ran' \in [Cpus -> Nat]
      /\ \A d \in Cpus : curr'[d] # Null => ran'[d] = ran[d]
  BY <1>1, StopClockFacts DEF IInv
<1>4. /\ quantum' \in [Tasks -> Nat]
      /\ \A u \in Tasks \ {t} : quantum'[u] = quantum[u]
      /\ fcur' \in [Cpus -> Tasks \cup {Null}]
      /\ target' \in [Tasks -> Cpus \cup {Null}]
      /\ \A u \in Tasks : target'[u] # Null => target'[u] \in online
  BY <1>1, <1>2 DEF IInv, TypeOK, NothingOnDeadCpu
<1> QED BY <1>1, <1>2, <1>3, <1>4, LeaveIInv

(* fifo_block, for a thread that blocks and for one that is moved away.    *)
LEMMA BlockTaskIInv ==
  ASSUME IInv, NEW t \in Tasks, BlockTask(t),
         target' \in [Tasks -> Cpus \cup {Null}],
         \A u \in Tasks : target'[u] # Null => target'[u] \in online
  PROVE  IInv'
<1>1. /\ ChangeState(t, "BLOCKED", tcpu[t], Null)
      /\ fp' = [fp EXCEPT ![t] = [state |-> "BLOCKED", rq |-> Null]]
      /\ fcur' \in [Cpus -> Tasks \cup {Null}]
      /\ StopClock
      /\ UNCHANGED <<tcpu, online, active, quantum, cstate, onlineCores>>
  BY DEF BlockTask, IInv, TypeOK
<1>2. /\ ran' \in [Cpus -> Nat]
      /\ \A d \in Cpus : curr'[d] # Null => ran'[d] = ran[d]
  BY <1>1, StopClockFacts DEF IInv
<1>3. quantum' \in [Tasks -> Nat] /\ \A u \in Tasks \ {t} : quantum'[u] = quantum[u]
  BY <1>1 DEF IInv, TypeOK
<1> QED BY <1>1, <1>2, <1>3, LeaveIInv

(* terminate frees a thread that is no longer queued or current anywhere.  *)
LEMMA TerminateIInv ==
  ASSUME IInv, NEW t \in Tasks, Terminate(t)
  PROVE  IInv'
<1>1. /\ ChangeState(t, "TERMINATED", tcpu[t], Null)
      /\ fp' = [fp EXCEPT ![t] = NoProcess]
      /\ fcur' \in [Cpus -> Tasks \cup {Null}]
      /\ StopClock
      /\ UNCHANGED <<tcpu, target, online, active, quantum, cstate, onlineCores>>
  BY DEF Terminate, IInv, TypeOK
<1>2. /\ ran' \in [Cpus -> Nat]
      /\ \A d \in Cpus : curr'[d] # Null => ran'[d] = ran[d]
  BY <1>1, StopClockFacts DEF IInv
<1>3. /\ quantum' \in [Tasks -> Nat]
      /\ \A u \in Tasks \ {t} : quantum'[u] = quantum[u]
      /\ target' \in [Tasks -> Cpus \cup {Null}]
      /\ \A u \in Tasks : target'[u] # Null => target'[u] \in online
  BY <1>1 DEF IInv, TypeOK, NothingOnDeadCpu
<1> QED BY <1>1, <1>2, <1>3, LeaveIInv

(* schedule runs the head of the runqueue of c on c, with a fresh quantum. *)
LEMMA ScheduleIInv ==
  ASSUME IInv, NEW c \in Cpus, Schedule(c)
  PROVE  IInv'
<1> DEFINE t == NextTask(c)
<1>1. /\ t \in Tasks /\ st[t] = "READY" /\ tcpu[t] = c
      /\ \A d \in Cpus : curr[d] # t
      /\ c \in online /\ curr[c] = Null
  BY Places, HeadIsReady DEF Schedule, NextTask
<1> HIDE DEF t
<1>2. /\ fp' = [fp EXCEPT ![t] = [state |-> "RUNNING", rq |-> Null]]
      /\ quantum' = [quantum EXCEPT ![t] = 0]
      /\ ran' = [ran EXCEPT ![c] = 0]
      /\ fcur' = [fcur EXCEPT ![c] = t]
      /\ ChangeState(t, "RUNNING", c, Null)
      /\ UNCHANGED <<tcpu, target, online, active, cstate, onlineCores>>
  BY <1>1 DEF Schedule, t
<1>3. /\ TypeOK /\ PlacementTypes /\ Placed /\ "RUNNING" \in ProcessState
      /\ "RUNNING" \in ThreadState \cup {"READY_TICK"}
  BY Places DEF IInv, ProcessState, ThreadState
<1>4. tcpu' \in [Tasks -> Cpus] /\ tcpu' = tcpu
  BY <1>2, <1>3 DEF TypeOK
<1>5. /\ st' \in [Tasks -> ThreadState]
      /\ rq' \in [Cpus -> Seq(Tasks)]
      /\ curr' \in [Cpus -> Tasks \cup {Null}]
      /\ Placed'
  BY <1>1, <1>2, <1>3, <1>4, ChangeStatePlacement
<1>6. /\ st' = [st EXCEPT ![t] = "RUNNING"]
      /\ curr' = [curr EXCEPT ![c] = t]
  <2>1. st' = [st EXCEPT ![t] = "RUNNING"]
    BY <1>2 DEF ChangeState
  <2>2. \A d \in Cpus : curr'[d] = IF d = c THEN t ELSE curr[d]
    BY <1>1, <1>2 DEF ChangeState
  <2>3. curr' = [curr EXCEPT ![c] = t]
    BY <1>3, <1>5, <2>2 DEF TypeOK
  <2> QED BY <2>1, <2>3
<1>7. fp' \in [Tasks -> Process]
  BY <1>2, <1>3 DEF TypeOK, Process
<1>8. TypeOK'
  BY <1>1, <1>2, <1>3, <1>4, <1>5, <1>7 DEF TypeOK
<1>9. MetadataAgrees'
  BY <1>1, <1>2, <1>4, <1>6 DEF IInv, TypeOK, MetadataAgrees
<1>10. QuantumNeverOverrun'
  <2> SUFFICES ASSUME NEW d \in Cpus, curr'[d] # Null
               PROVE  ran'[d] <= quantum'[curr'[d]] /\ quantum'[curr'[d]] < Quantum
    BY DEF QuantumNeverOverrun
  <2>1. CASE d = c
    BY <1>1, <1>2, <1>3, <1>6, <2>1, QuantumAssumption DEF TypeOK
  <2>2. CASE d # c
    BY <1>1, <1>2, <1>3, <1>6, <2>2 DEF IInv, TypeOK, QuantumNeverOverrun
  <2> QED BY <2>1, <2>2
<1>11. NothingOnDeadCpu'
  <2>1. ASSUME NEW d \in Cpus \ online PROVE rq'[d] = <<>>
    <3>1. \A u \in Tasks : ~ (st[u] = "READY" /\ tcpu[u] = d)
      BY <1>3, <2>1, EmptyIff DEF IInv, TypeOK, NothingOnDeadCpu, Placement, Placed, QueuedIffReady
    <3>2. \A u \in Tasks : ~ Contains(rq'[d], u)
      BY <1>3, <1>4, <1>5, <1>6, <3>1 DEF TypeOK, Placement, Placed, QueuedIffReady
    <3> QED BY <1>5, <3>2, EmptyIff
  <2>2. ASSUME NEW d \in Cpus \ online PROVE curr'[d] = Null
    BY <1>1, <1>3, <1>6, <2>2 DEF IInv, TypeOK, NothingOnDeadCpu
  <2> QED BY <1>2, <2>1, <2>2 DEF IInv, NothingOnDeadCpu
<1> QED BY <1>5, <1>8, <1>9, <1>10, <1>11 DEF IInv, Placement

(* unblock_prepare only chooses a CPU, among those that are active.        *)
LEMMA UnblockPrepareIInv ==
  ASSUME IInv, NEW t \in Tasks, UnblockPrepare(t)
  PROVE  IInv'
<1>1. PICK d \in AllowedTargets(SelectCpu(t, tcpu[t], FALSE)) :
        target' = [target EXCEPT ![t] = d]
  BY DEF UnblockPrepare
<1>2. d \in online /\ d \in Cpus
  BY <1>1 DEF AllowedTargets, IInv, TypeOK
<1>3. UNCHANGED <<st, tcpu, rq, curr, online, active, fp, quantum, ran, fcur, cstate, onlineCores>>
  BY DEF UnblockPrepare, policyVars
<1>4. TypeOK' /\ NothingOnDeadCpu'
  BY <1>1, <1>2, <1>3 DEF IInv, TypeOK, NothingOnDeadCpu
<1>5. Placement' /\ MetadataAgrees' /\ QuantumNeverOverrun'
  BY <1>3 DEF IInv, Placement, Placed, QueuedIffReady, QueuedOnce, CurrentIffRunning,
              MetadataAgrees, QuantumNeverOverrun
<1> QED BY <1>4, <1>5 DEF IInv

(* Idle and hotplug events: a CPU leaves the online mask only when it is   *)
(* drained.                                                                *)
LEMMA CoreEventIInv ==
  ASSUME IInv, NEW c \in Cpus,
         EnterIdle(c) \/ ExitIdle(c) \/ CoreExit(c) \/ CpuDead(c) \/ CoreEntry(c)
  PROVE  IInv'
<1>1. UNCHANGED <<st, tcpu, rq, curr, target, fp, quantum, ran, fcur>>
  BY DEF EnterIdle, ExitIdle, CoreExit, CpuDead, CoreEntry, coreVars, policyVars
<1>2. Placement' /\ MetadataAgrees' /\ QuantumNeverOverrun'
  BY <1>1 DEF IInv, Placement, Placed, QueuedIffReady, QueuedOnce, CurrentIffRunning,
              MetadataAgrees, QuantumNeverOverrun
<1>3. CASE EnterIdle(c) \/ ExitIdle(c) \/ CoreExit(c) \/ CoreEntry(c)
  <2>1. TypeOK'
    BY <1>1, <1>3 DEF IInv, TypeOK, CoreState, EnterIdle, ExitIdle, CoreExit, CoreEntry,
                      coreVars
  <2>2. online \subseteq online'
    BY <1>3 DEF EnterIdle, ExitIdle, CoreExit, CoreEntry, coreVars
  <2>3. NothingOnDeadCpu'
    BY <1>1, <2>2 DEF IInv, NothingOnDeadCpu
  <2> QED BY <1>2, <2>1, <2>3 DEF IInv
<1>4. CASE CpuDead(c)
  <2>1. /\ online' = online \ {c} /\ c \notin active
        /\ UNCHANGED <<active, cstate, onlineCores>>
        /\ Drained(c)
    BY <1>4 DEF CpuDead, policyVars
  <2>2. TypeOK'
    BY <1>1, <2>1 DEF IInv, TypeOK
  <2>3. rq[c] = <<>>
    <3>1. \A t \in Tasks : ~ Contains(rq[c], t)
      BY <2>1 DEF Drained, IInv, Placement, Placed, QueuedIffReady
    <3> QED BY <3>1, EmptyIff DEF IInv, TypeOK
  <2>4. NothingOnDeadCpu'
    BY <1>1, <2>1, <2>3 DEF Drained, IInv, NothingOnDeadCpu
  <2> QED BY <1>2, <2>2, <2>4 DEF IInv
<1> QED BY <1>3, <1>4

-----------------------------------------------------------------------------
(* Every handler preserves the invariant (one step per action).            *)
THEOREM NextIInv == IInv /\ [Next]_vars => IInv'
<1> SUFFICES ASSUME IInv, [Next]_vars PROVE IInv'
  OBVIOUS
<1>1. ASSUME NEW t \in Tasks, TaskNext(t) PROVE IInv'
  <2>1. CASE \E wfExec \in BOOLEAN : NewPrepare(t, wfExec)
    BY <2>1, NewPrepareIInv
  <2>2. CASE NewPlace(t) \/ UnblockPlace(t)
    BY <2>2, PlaceIInv DEF NewPlace, UnblockPlace
  <2>3. CASE UnblockPrepare(t)
    BY <2>3, UnblockPrepareIInv
  <2>4. CASE Block(t)
    <3>1. BlockTask(t) /\ target' = target /\ online' = online
      BY <2>4 DEF Block, BlockTask
    <3> QED BY <3>1, BlockTaskIInv DEF IInv, TypeOK, NothingOnDeadCpu
  <2>5. ASSUME NEW c \in Cpus, Oust(t, c) PROVE IInv'
    <3>1. BlockTask(t) /\ target' = [target EXCEPT ![t] = c] /\ c \in online
      BY <2>5 DEF Oust, IInv, TypeOK
    <3> QED BY <3>1, BlockTaskIInv DEF IInv, TypeOK, NothingOnDeadCpu
  <2>6. CASE Terminate(t)
    BY <2>6, TerminateIInv
  <2> QED BY <1>1, <2>1, <2>2, <2>3, <2>4, <2>5, <2>6 DEF TaskNext
<1>2. ASSUME NEW c \in Cpus, CpuNext(c) PROVE IInv'
  <2>1. CASE TickOf(c)
    BY <2>1, TickIInv DEF TickOf
  <2>2. CASE Yield(c)
    BY <2>2, YieldIInv
  <2>3. CASE Schedule(c)
    BY <2>3, ScheduleIInv
  <2>4. CASE EnterIdle(c) \/ ExitIdle(c) \/ CoreExit(c) \/ CpuDead(c) \/ CoreEntry(c)
    BY <2>4, CoreEventIInv
  <2> QED BY <1>2, <2>1, <2>2, <2>3, <2>4 DEF CpuNext
<1>3. CASE UNCHANGED vars
  BY <1>3 DEF vars, coreVars, policyVars, IInv, TypeOK, Placement, Placed, QueuedIffReady,
              QueuedOnce, CurrentIffRunning, MetadataAgrees, QuantumNeverOverrun,
              NothingOnDeadCpu
<1> QED BY <1>1, <1>2, <1>3 DEF Next

(* The inductive invariant holds in every reachable state.                 *)
THEOREM AlwaysIInv == Spec => []IInv
BY InitIInv, NextIInv, PTL DEF Spec

(* The variables keep their types.                                         *)
THEOREM TypeCorrect == Spec => []TypeOK
<1>1. IInv => TypeOK
  BY DEF IInv
<1> QED BY <1>1, AlwaysIInv, PTL

(* Every thread is exactly where its state says (fifo.c, schedule, tick    *)
(* and yield).                                                             *)
THEOREM PlacementHolds == Spec => []Placement
<1>1. IInv => Placement
  BY DEF IInv
<1> QED BY <1>1, AlwaysIInv, PTL

(* struct fifo_process agrees with the kernel's view of the thread.        *)
THEOREM MetadataHolds == Spec => []MetadataAgrees
<1>1. IInv => MetadataAgrees
  BY DEF IInv
<1> QED BY <1>1, AlwaysIInv, PTL

(* No tick leaves a thread running with its quantum used (fifo_tick).      *)
THEOREM QuantumHolds == Spec => []QuantumNeverOverrun
<1>1. IInv => QuantumNeverOverrun
  BY DEF IInv
<1> QED BY <1>1, AlwaysIInv, PTL

(* Nothing is queued on, runs on or is on its way to an offline CPU.       *)
THEOREM HotplugHolds == Spec => []NothingOnDeadCpu
<1>1. IInv => NothingOnDeadCpu
  BY DEF IInv
<1> QED BY <1>1, AlwaysIInv, PTL

-----------------------------------------------------------------------------
(* PerCpuFifo implements FifoLines with one line per CPU: the runqueues    *)
(* are the lines and the SaaKM current of a CPU is the thread it serves.   *)
(* Every handler is one step of FifoLines or leaves lines and CPUs alone.  *)

(* A thread that blocks, is moved or terminates leaves its CPU, its line,  *)
(* or nothing at all if it was blocked.                                    *)
LEMMA DepartRefines ==
  ASSUME IInv, NEW t \in Tasks, NEW state \in {"BLOCKED", "TERMINATED"},
         ChangeState(t, state, tcpu[t], Null)
  PROVE  [Lines!Next]_(Lines!vars)
<1>0. PlacementTypes /\ Placed
  BY Places
<1>1. CASE st[t] = "RUNNING"
  <2>1. rq' = rq
    BY <1>0, <1>1, LineUntouched
  <2>2. /\ tcpu[t] \in Cpus /\ curr[tcpu[t]] # Null
        /\ curr' = [curr EXCEPT ![tcpu[t]] = Null]
    BY <1>0, <1>1, CpuFreed
  <2>3. Lines!LeaveCpu(tcpu[t])
    BY <2>1, <2>2 DEF Lines!LeaveCpu
  <2> QED BY <2>2, <2>3 DEF Lines!Next
<1>2. CASE st[t] = "READY"
  <2> DEFINE l == tcpu[t]
             i == PositionOf(rq[l], t)
  <2>1. curr' = curr
    BY <1>0, <1>2, CpuUntouched
  <2>2. l \in Cpus /\ i \in 1..Len(rq[l]) /\ rq' = [rq EXCEPT ![l] = RemoveAt(@, i)]
    BY <1>0, <1>2, RemoveFromLine
  <2> HIDE DEF i
  <2>3. Lines!LeaveLine(l, i)
    BY <2>1, <2>2 DEF Lines!LeaveLine, Lines!RemoveAt, RemoveAt
  <2> QED BY <2>2, <2>3 DEF Lines!Next
<1>3. CASE st[t] \notin {"RUNNING", "READY"}
  <2>1. rq' = rq /\ curr' = curr
    BY <1>0, <1>3, LineUntouched, CpuUntouched
  <2> QED BY <2>1 DEF Lines!vars
<1> QED BY <1>1, <1>2, <1>3

(* A running thread that is requeued goes to the tail of its CPU's line.   *)
LEMMA RequeueRefines ==
  ASSUME IInv, NEW c \in Cpus, curr[c] # Null, NEW state \in {"READY", "READY_TICK"},
         ChangeState(curr[c], state, tcpu[curr[c]], tcpu[curr[c]])
  PROVE  Lines!Next
<1> DEFINE t == curr[c]
<1>1. PlacementTypes /\ Placed /\ t \in Tasks /\ st[t] = "RUNNING" /\ tcpu[t] = c
  BY Places, CurrentIsUnique
<1>2. rq' = [rq EXCEPT ![c] = Append(@, t)]
  BY <1>1, AppendToLine
<1>3. curr' = [curr EXCEPT ![c] = Null]
  BY <1>1, CpuFreed
<1>4. Lines!Requeue(c)
  BY <1>2, <1>3 DEF Lines!Requeue
<1> QED BY <1>4 DEF Lines!Next

(* *_place lets a thread that is neither waiting nor served arrive.        *)
LEMMA PlaceRefines ==
  ASSUME IInv, NEW t \in Tasks, NEW from \in {"NOT_QUEUED", "BLOCKED"}, Place(t, from)
  PROVE  Lines!Next
<1> DEFINE d == target[t]
<1>1. PlacementTypes /\ Placed /\ d \in Cpus /\ st[t] \notin {"READY", "RUNNING"}
  BY Places DEF Place, IInv, TypeOK
<1>2. ChangeState(t, "READY", d, d)
  BY DEF Place, EnqueueTask
<1>3. rq' = [rq EXCEPT ![d] = Append(@, t)] /\ curr' = curr
  BY <1>1, <1>2, AppendToLine, CpuUntouched
<1>4. ~ Lines!Waits(t) /\ ~ Lines!Served(t)
  BY <1>1 DEF Lines!Waits, Lines!Served, Lines!Contains, Contains, Placed, QueuedIffReady, CurrentIffRunning
<1>5. Lines!Arrive(t, d)
  BY <1>3, <1>4 DEF Lines!Arrive
<1> QED BY <1>1, <1>5 DEF Lines!Next

(* schedule serves the head of the line of its CPU.                        *)
LEMMA ScheduleRefines ==
  ASSUME IInv, NEW c \in Cpus, Schedule(c)
  PROVE  Lines!Next
<1> DEFINE t == NextTask(c)
<1>1. PlacementTypes /\ Placed
  BY Places
<1>2. t # Null /\ t = FirstTask(rq[c]) /\ curr[c] = Null /\ ChangeState(t, "RUNNING", c, Null)
  <2>1. t = FirstTask(rq[c])
    BY DEF NextTask
  <2>2. st[t] = "READY" /\ tcpu[t] = c
    BY <1>1, <2>1, HeadIsReady DEF Schedule
  <2> QED BY <2>1, <2>2 DEF Schedule
<1> HIDE DEF t
<1>3. Lines!Serve(c)
  BY <1>1, <1>2, ServeHead DEF Lines!Serve
<1> QED BY <1>3 DEF Lines!Next

-----------------------------------------------------------------------------
(* Every handler is a step of FifoLines or a stutter.                      *)
THEOREM StepRefines == IInv /\ [Next]_vars => [Lines!Next]_(Lines!vars)
<1> SUFFICES ASSUME IInv, [Next]_vars PROVE [Lines!Next]_(Lines!vars)
  OBVIOUS
<1>1. ASSUME NEW t \in Tasks, TaskNext(t) PROVE [Lines!Next]_(Lines!vars)
  <2>1. CASE (\E wfExec \in BOOLEAN : NewPrepare(t, wfExec)) \/ UnblockPrepare(t)
    BY <2>1 DEF NewPrepare, UnblockPrepare, Lines!vars
  <2>2. CASE NewPlace(t) \/ UnblockPlace(t)
    BY <2>2, PlaceRefines DEF NewPlace, UnblockPlace
  <2>3. CASE Block(t) \/ \E c \in Cpus : Oust(t, c)
    <3>1. ChangeState(t, "BLOCKED", tcpu[t], Null)
      BY <2>3 DEF Block, Oust, BlockTask
    <3> QED BY <3>1, DepartRefines
  <2>4. CASE Terminate(t)
    <3>1. ChangeState(t, "TERMINATED", tcpu[t], Null)
      BY <2>4 DEF Terminate
    <3> QED BY <3>1, DepartRefines
  <2> QED BY <1>1, <2>1, <2>2, <2>3, <2>4 DEF TaskNext
<1>2. ASSUME NEW c \in Cpus, CpuNext(c) PROVE [Lines!Next]_(Lines!vars)
  <2>1. ASSUME NEW gap \in 1..MaxTickGap, Tick(c, gap) PROVE [Lines!Next]_(Lines!vars)
    <3>1. CASE UNCHANGED <<rq, curr>>
      BY <3>1 DEF Lines!vars
    <3>2. CASE EnqueueTask(curr[c], tcpu[curr[c]], tcpu[curr[c]], "READY_TICK")
      <4>1. curr[c] # Null /\ ChangeState(curr[c], "READY_TICK", tcpu[curr[c]], tcpu[curr[c]])
        BY <2>1, <3>2 DEF Tick, EnqueueTask
      <4> QED BY <4>1, RequeueRefines
    <3> QED BY <2>1, <3>1, <3>2 DEF Tick
  <2>2. CASE Yield(c)
    <3>1. curr[c] # Null /\ ChangeState(curr[c], "READY", tcpu[curr[c]], tcpu[curr[c]])
      BY <2>2 DEF Yield, EnqueueTask
    <3> QED BY <3>1, RequeueRefines
  <2>3. CASE Schedule(c)
    BY <2>3, ScheduleRefines
  <2>4. CASE EnterIdle(c) \/ ExitIdle(c) \/ CoreExit(c) \/ CpuDead(c) \/ CoreEntry(c)
    BY <2>4 DEF EnterIdle, ExitIdle, CoreExit, CpuDead, CoreEntry, coreVars, Lines!vars
  <2> QED BY <1>2, <2>1, <2>2, <2>3, <2>4 DEF CpuNext, TickOf
<1>3. CASE UNCHANGED vars
  BY <1>3 DEF vars, coreVars, Lines!vars
<1> QED BY <1>1, <1>2, <1>3 DEF Next

(* The policy serves the runqueue of each CPU first-in first-out.          *)
THEOREM ImplementsFifoLines == Spec => ServesInOrder
<1>1. Init => Lines!Init
  BY DEF Init, CoreInit, Lines!Init
<1> QED BY <1>1, StepRefines, AlwaysIInv, PTL DEF Spec, ServesInOrder, Lines!Spec

(* A thread that waits is never overtaken: nobody gets before it in the    *)
(* runqueue of its CPU, nor is elected from elsewhere.                     *)
THEOREM ServedInTurn == Spec => [][InTurn(Cpus, Tasks)]_vars
<1>1. ASSUME IInv, [Next]_vars PROVE InTurn(Cpus, Tasks)
  <2>1. [CpuLines!Next]_(CpuLines!vars)
    BY <1>1, StepRefines DEF Lines!Next, Lines!vars, Lines!Arrive, Lines!Waits, Lines!Served,
         Lines!Contains, Lines!Serve, Lines!Requeue, Lines!LeaveCpu, Lines!LeaveLine,
         Lines!RemoveAt, CpuLines!Next, CpuLines!vars, CpuLines!Arrive, CpuLines!Waits,
         CpuLines!Served, CpuLines!Contains, CpuLines!Serve, CpuLines!Requeue,
         CpuLines!LeaveCpu, CpuLines!LeaveLine, CpuLines!RemoveAt
  <2> QED BY <1>1, <2>1, Places, LinesInTurn
<1> QED BY <1>1, AlwaysIInv, PTL DEF Spec
=============================================================================
