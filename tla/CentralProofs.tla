---------------------------- MODULE CentralProofs ---------------------------
(***************************************************************************)
(* Theorems about Central, for every set of threads, number of CPUs, slice *)
(* and topology.                                                           *)
(*                                                                         *)
(* Placement is what makes the others inductive: the entity of a CPU is    *)
(* not another thread's after schedule because the head of a runqueue is   *)
(* nobody's current, and a CPU that is drained keeps nothing because all   *)
(* its threads were in its own runqueue.                                   *)
(***************************************************************************)
EXTENDS Central, SaakmCoreProofs

IInv ==
  /\ TypeOK
  /\ Placement
  /\ MetadataAgrees
  /\ EntityIsNoOther
  /\ NothingOnDeadCpu

-----------------------------------------------------------------------------
(* What the lemmas about the placement of threads need.                    *)
LEMMA Places == ASSUME IInv PROVE PlacementTypes /\ Placed
BY DEF IInv, TypeOK, PlacementTypes, Placement

(* The central CPU exists.                                                 *)
LEMMA CentralExists == CentralCpu \in Cpus
BY NumCpusAssumption DEF CentralCpu, Cpus

(* A freshly loaded module: nothing is queued, running or placed.          *)
THEOREM InitIInv == Init => IInv
<1> SUFFICES ASSUME Init PROVE IInv
  OBVIOUS
<1> USE DEF Init, CoreInit
<1>1. TypeOK
  BY DEF TypeOK, ThreadState, Entity, NoEntity, CoreState, IdlePc
<1>2. Placement
  <2>1. QueuedIffReady
    <3>1. \A c \in Cpus, t \in Tasks : ~ Contains(rq[c], t)
      BY DEF Contains
    <3> QED BY <3>1 DEF QueuedIffReady
  <2>2. QueuedOnce
    BY DEF QueuedOnce
  <2>3. CurrentIffRunning
    BY NullAssumption DEF CurrentIffRunning
  <2> QED BY <2>1, <2>2, <2>3 DEF Placement, Placed
<1>3. MetadataAgrees /\ EntityIsNoOther /\ NothingOnDeadCpu
  BY DEF MetadataAgrees, EntityIsNoOther, NothingOnDeadCpu
<1> QED BY <1>1, <1>2, <1>3 DEF IInv

-----------------------------------------------------------------------------
(* new_prepare touches a thread that is neither queued nor running.        *)
LEMMA NewPrepareIInv ==
  ASSUME IInv, NEW t \in Tasks, NewPrepare(t)
  PROVE  IInv'
<1> USE DEF NewPrepare
<1>1. PICK d \in AllowedTargets(SelectCpu(tcpu[t])) : target' = [target EXCEPT ![t] = d]
  OBVIOUS
<1>2. d \in online /\ d \in Cpus
  BY <1>1 DEF AllowedTargets, IInv, TypeOK
<1>3. st' \in [Tasks -> ThreadState] /\ ce' \in [Tasks -> Entity]
  BY DEF IInv, TypeOK, ThreadState, Entity
<1>4. TypeOK'
  BY <1>1, <1>2, <1>3 DEF IInv, TypeOK, masks
<1>5. Placement'
  <2>1. QueuedIffReady'
    BY DEF IInv, TypeOK, Placement, Placed, QueuedIffReady
  <2>2. QueuedOnce'
    BY DEF IInv, Placement, Placed, QueuedOnce
  <2>3. CurrentIffRunning'
    BY DEF IInv, TypeOK, Placement, Placed, CurrentIffRunning
  <2> QED BY <2>1, <2>2, <2>3 DEF Placement, Placed
<1>6. MetadataAgrees'
  BY DEF IInv, TypeOK, MetadataAgrees
<1>7. EntityIsNoOther'
  BY DEF IInv, EntityIsNoOther
<1>8. NothingOnDeadCpu'
  BY <1>1, <1>2 DEF IInv, TypeOK, NothingOnDeadCpu
<1> QED BY <1>4, <1>5, <1>6, <1>7, <1>8 DEF IInv

(* *_place enqueues a thread that was nowhere on the CPU chosen for it.    *)
LEMMA PlaceIInv ==
  ASSUME IInv, NEW t \in Tasks, NEW from \in {"NOT_QUEUED", "BLOCKED"}, Place(t, from)
  PROVE  IInv'
<1> DEFINE d == target[t]
<1>1. d \in Cpus /\ d \in online
  BY DEF Place, IInv, TypeOK, NothingOnDeadCpu
<1>2. /\ ChangeState(t, "READY", CentralCpu, d)
      /\ ce' = [ce EXCEPT ![t] = [state |-> "READY", rq |-> d]]
      /\ entity' = entity
      /\ tcpu' = [tcpu EXCEPT ![t] = d]
      /\ target' = [target EXCEPT ![t] = Null]
      /\ st[t] = from
      /\ UNCHANGED <<online, active, slice, cstate, masks, oops>>
  BY DEF Place, EnqueueTask
<1> HIDE DEF d
<1>3. /\ tcpu' \in [Tasks -> Cpus]
      /\ tcpu'[t] = d
      /\ \A u \in Tasks \ {t} : tcpu'[u] = tcpu[u]
  BY <1>1, <1>2 DEF IInv, TypeOK
<1>4. PlacementTypes /\ Placed /\ "READY" \in ThreadState \cup {"READY_TICK"}
  BY Places DEF ThreadState
<1>5. /\ st' \in [Tasks -> ThreadState]
      /\ rq' \in [Cpus -> Seq(Tasks)]
      /\ curr' \in [Cpus -> Tasks \cup {Null}]
      /\ Placed'
  BY <1>2, <1>3, <1>4, ChangeStatePlacement
<1>6. st' = [st EXCEPT ![t] = "READY"] /\ curr' = curr
  <2>1. st' = [st EXCEPT ![t] = "READY"]
    BY <1>2 DEF ChangeState
  <2>2. st[t] # "RUNNING" /\ "READY" # "RUNNING"
    BY <1>2
  <2> QED BY <1>2, <1>4, <2>1, <2>2, CpuUntouched
<1>7. ce' \in [Tasks -> Entity]
  BY <1>1, <1>2 DEF IInv, TypeOK, Entity
<1>8. TypeOK'
  BY <1>2, <1>3, <1>5, <1>7 DEF IInv, TypeOK, masks
<1>9. MetadataAgrees'
  BY <1>2, <1>3, <1>6 DEF IInv, TypeOK, MetadataAgrees
<1>10. EntityIsNoOther'
  BY <1>2, <1>6 DEF IInv, EntityIsNoOther
<1>11. NothingOnDeadCpu'
  <2>1. ASSUME NEW c \in Cpus \ online PROVE rq'[c] = <<>>
    <3>1. \A u \in Tasks : ~ Contains(rq[c], u) /\ c # d
      BY <1>1, <2>1, EmptyIff DEF IInv, TypeOK, NothingOnDeadCpu
    <3>2. \A u \in Tasks : ~ Contains(rq'[c], u)
      <4>1. \A u \in Tasks : ~ (st'[u] = "READY" /\ tcpu'[u] = c)
        BY <1>3, <1>4, <1>6, <2>1, <3>1 DEF PlacementTypes, Placed, QueuedIffReady
      <4> QED BY <1>5, <2>1, <4>1 DEF Placed, QueuedIffReady
    <3> QED BY <1>5, <3>2, EmptyIff
  <2> QED BY <1>2, <1>6, <2>1 DEF IInv, TypeOK, NothingOnDeadCpu
<1> QED BY <1>5, <1>8, <1>9, <1>10, <1>11 DEF IInv, Placement

(* What tick, yield, block, migration and terminate have in common: a      *)
(* thread stops running or waiting and is requeued on its CPU, or not at   *)
(* all, and the current_entity of a CPU is kept or cleared.                *)
LEMMA LeaveIInv ==
  ASSUME IInv,
         NEW t \in Tasks,
         NEW state \in {"READY", "READY_TICK", "BLOCKED", "TERMINATED"},
         NEW cpu, NEW nextRq,
         ChangeState(t, state, cpu, nextRq),
         state \in {"READY", "READY_TICK"} => nextRq = tcpu[t] /\ tcpu[t] \in online,
         state \notin {"READY", "READY_TICK"} => nextRq = Null,
         ce' = [ce EXCEPT ![t] = IF state = "TERMINATED" THEN NoEntity
                                 ELSE [state |-> state, rq |-> nextRq]],
         slice' \in [Tasks -> Nat],
         entity' \in [Cpus -> Tasks \cup {Null}],
         \A c \in Cpus : entity'[c] \in {entity[c], Null},
         target' \in [Tasks -> Cpus \cup {Null}],
         \A u \in Tasks : target'[u] # Null => target'[u] \in online,
         UNCHANGED <<tcpu, online, active, cstate, masks, oops>>
  PROVE  IInv'
<1>1. /\ TypeOK /\ PlacementTypes /\ Placed
      /\ state # "RUNNING" /\ state \in ThreadState \cup {"READY_TICK"}
  BY Places DEF IInv, ThreadState
<1>2. tcpu' \in [Tasks -> Cpus] /\ tcpu' = tcpu
  BY <1>1 DEF TypeOK
<1>3. /\ st' \in [Tasks -> ThreadState]
      /\ rq' \in [Cpus -> Seq(Tasks)]
      /\ curr' \in [Cpus -> Tasks \cup {Null}]
      /\ Placed'
  BY <1>1, <1>2, ChangeStatePlacement
<1>4. st' = [st EXCEPT ![t] = IF state = "READY_TICK" THEN "READY" ELSE state]
  BY DEF ChangeState
<1>5. \A c \in Cpus : curr'[c] # Null => curr'[c] = curr[c]
  BY <1>1 DEF ChangeState
<1>6. ce' \in [Tasks -> Entity]
  BY <1>1 DEF TypeOK, Entity, NoEntity
<1>7. TypeOK'
  BY <1>1, <1>2, <1>3, <1>6 DEF TypeOK, masks
<1>8. MetadataAgrees'
  <2> SUFFICES ASSUME NEW u \in Tasks
               PROVE  /\ st'[u] = "READY" => ce'[u].state \in {"READY", "READY_TICK"} /\ ce'[u].rq = tcpu'[u]
                      /\ st'[u] \in {"RUNNING", "BLOCKED"} => ce'[u] = [state |-> st'[u], rq |-> Null]
                      /\ st'[u] = "TERMINATED" => ce'[u] = NoEntity
    BY DEF MetadataAgrees
  <2>1. CASE u = t
    BY <1>1, <1>2, <1>4, <2>1 DEF TypeOK
  <2>2. CASE u # t
    BY <1>1, <1>2, <1>4, <2>2 DEF IInv, TypeOK, MetadataAgrees
  <2> QED BY <2>1, <2>2
<1>9. EntityIsNoOther'
  BY <1>5 DEF IInv, EntityIsNoOther
<1>10. NothingOnDeadCpu'
  <2>1. ASSUME NEW c \in Cpus \ online PROVE rq'[c] = <<>>
    <3>1. \A u \in Tasks : ~ (st[u] = "READY" /\ tcpu[u] = c)
      BY <1>1, <2>1, EmptyIff DEF IInv, TypeOK, NothingOnDeadCpu, Placed, QueuedIffReady
    <3>2. \A u \in Tasks : ~ (st'[u] = "READY" /\ tcpu'[u] = c)
      BY <1>1, <1>2, <1>4, <2>1, <3>1 DEF TypeOK
    <3>3. \A u \in Tasks : ~ Contains(rq'[c], u)
      BY <1>3, <3>2 DEF Placed, QueuedIffReady
    <3> QED BY <1>3, <3>3, EmptyIff
  <2>2. ASSUME NEW c \in Cpus \ online PROVE curr'[c] = Null
    BY <1>5, <2>2 DEF IInv, NothingOnDeadCpu
  <2> QED BY <2>1, <2>2 DEF NothingOnDeadCpu
<1> QED BY <1>3, <1>7, <1>8, <1>9, <1>10 DEF IInv, Placement

(* A tick and a yield requeue the current of c on c; the tick clears the   *)
(* current_entity of the central CPU.                                      *)
LEMMA RequeueIInv ==
  ASSUME IInv, NEW c \in online, curr[c] # Null, NEW state \in {"READY", "READY_TICK"},
         EnqueueTask(curr[c], tcpu[curr[c]], state),
         slice' \in [Tasks -> Nat],
         UNCHANGED <<tcpu, target, online, active, cstate, masks, oops>>
  PROVE  IInv'
<1> DEFINE t == curr[c]
<1>1. c \in Cpus /\ t \in Tasks /\ tcpu[t] = c
  BY Places, CurrentIsUnique DEF IInv, TypeOK
<1>2. /\ ChangeState(t, state, CentralCpu, c)
      /\ ce' = [ce EXCEPT ![t] = [state |-> state, rq |-> c]]
      /\ entity' \in [Cpus -> Tasks \cup {Null}]
      /\ \A d \in Cpus : entity'[d] \in {entity[d], Null}
  BY <1>1, CentralExists DEF EnqueueTask, IInv, TypeOK
<1>3. /\ target' \in [Tasks -> Cpus \cup {Null}]
      /\ \A u \in Tasks : target'[u] # Null => target'[u] \in online
  BY DEF IInv, TypeOK, NothingOnDeadCpu
<1> HIDE DEF t
<1> QED BY <1>1, <1>2, <1>3, LeaveIInv

LEMMA TickIInv ==
  ASSUME IInv, NEW c \in Cpus, NEW now \in Times, Tick(c, now)
  PROVE  IInv'
<1> DEFINE t == curr[c]
<1>1. c \in online /\ t # Null /\ t \in Tasks
  BY DEF Tick, IInv, TypeOK
<1>2. slice[t] \in Nat /\ now \in Nat /\ Used(t, now) \in Nat
  BY <1>1, ClockAssumption DEF IInv, TypeOK, Used
<1>3. slice' \in [Tasks -> Nat]
  BY <1>2 DEF Tick, IInv, TypeOK
<1>4. Used(t, now) >= Slice
  BY <1>2, ClockAssumption DEF Used
<1>5. EnqueueTask(t, tcpu[t], "READY_TICK")
  BY <1>4 DEF Tick
<1>6. UNCHANGED <<tcpu, target, online, active, cstate, masks, oops>>
  BY DEF Tick
<1> QED BY <1>1, <1>3, <1>5, <1>6, RequeueIInv

LEMMA YieldIInv ==
  ASSUME IInv, NEW c \in Cpus, Yield(c)
  PROVE  IInv'
<1>1. slice' \in [Tasks -> Nat]
  BY DEF Yield, IInv, TypeOK
<1> QED BY <1>1, RequeueIInv DEF Yield

(* central_block, for a thread that blocks and for one that is moved away. *)
LEMMA BlockTaskIInv ==
  ASSUME IInv, NEW t \in Tasks, BlockTask(t),
         target' \in [Tasks -> Cpus \cup {Null}],
         \A u \in Tasks : target'[u] # Null => target'[u] \in online
  PROVE  IInv'
<1>1. /\ ChangeState(t, "BLOCKED", tcpu[t], Null)
      /\ ce' = [ce EXCEPT ![t] = [state |-> "BLOCKED", rq |-> Null]]
      /\ UNCHANGED <<tcpu, online, active, slice, cstate, masks, oops>>
  BY DEF BlockTask
<1>2. /\ entity' \in [Cpus -> Tasks \cup {Null}]
      /\ \A d \in Cpus : entity'[d] \in {entity[d], Null}
      /\ slice' \in [Tasks -> Nat]
  BY DEF BlockTask, IInv, TypeOK
<1> QED BY <1>1, <1>2, LeaveIInv

(* terminate frees a thread that is no longer queued or current anywhere.  *)
LEMMA TerminateIInv ==
  ASSUME IInv, NEW t \in Tasks, Terminate(t)
  PROVE  IInv'
<1>1. /\ ChangeState(t, "TERMINATED", tcpu[t], Null)
      /\ ce' = [ce EXCEPT ![t] = NoEntity]
      /\ UNCHANGED <<tcpu, target, online, active, slice, cstate, masks, oops>>
  BY DEF Terminate
<1>2. /\ entity' \in [Cpus -> Tasks \cup {Null}]
      /\ \A d \in Cpus : entity'[d] \in {entity[d], Null}
      /\ slice' \in [Tasks -> Nat]
      /\ target' \in [Tasks -> Cpus \cup {Null}]
      /\ \A u \in Tasks : target'[u] # Null => target'[u] \in online
  BY DEF Terminate, IInv, TypeOK, NothingOnDeadCpu
<1> QED BY <1>1, <1>2, LeaveIInv

(* schedule runs the head of the runqueue of c on c.                       *)
LEMMA ElectIInv ==
  ASSUME IInv, NEW c \in Cpus, NEW t, t = NextTask(c), t # Null,
         c \in online, curr[c] = Null, Elect(c, t),
         UNCHANGED <<tcpu, target, online, active, cstate, masks>>
  PROVE  IInv'
<1>1. /\ t \in Tasks /\ st[t] = "READY" /\ tcpu[t] = c
      /\ \A d \in Cpus : curr[d] # t
  BY Places, HeadIsReady DEF NextTask
<1>2. /\ ce' = [ce EXCEPT ![t] = [state |-> "RUNNING", rq |-> Null]]
      /\ slice' = [slice EXCEPT ![t] = 0]
      /\ entity' = [entity EXCEPT ![c] = t]
      /\ ChangeState(t, "RUNNING", c, Null)
      /\ oops' = oops
  BY DEF Elect
<1>3. TypeOK /\ PlacementTypes /\ Placed /\ "RUNNING" \in ThreadState \cup {"READY_TICK"}
  BY Places DEF IInv, ThreadState
<1>4. tcpu' \in [Tasks -> Cpus] /\ tcpu' = tcpu
  BY <1>3 DEF TypeOK
<1>5. /\ st' \in [Tasks -> ThreadState]
      /\ rq' \in [Cpus -> Seq(Tasks)]
      /\ curr' \in [Cpus -> Tasks \cup {Null}]
      /\ Placed'
  BY <1>1, <1>2, <1>3, <1>4, ChangeStatePlacement
<1>6. st' = [st EXCEPT ![t] = "RUNNING"]
  BY <1>2 DEF ChangeState
<1>7. \A d \in Cpus : curr'[d] = IF d = c THEN t ELSE curr[d]
  BY <1>1, <1>2 DEF ChangeState
<1>8. ce' \in [Tasks -> Entity]
  BY <1>1, <1>2, <1>3 DEF TypeOK, Entity
<1>9. TypeOK'
  BY <1>1, <1>2, <1>3, <1>4, <1>5, <1>8 DEF TypeOK, masks
<1>10. MetadataAgrees'
  BY <1>1, <1>2, <1>4, <1>6 DEF IInv, TypeOK, MetadataAgrees
<1>11. EntityIsNoOther'
  BY <1>2, <1>3, <1>7 DEF IInv, TypeOK, EntityIsNoOther
<1>12. NothingOnDeadCpu'
  <2>1. ASSUME NEW d \in Cpus \ online PROVE rq'[d] = <<>>
    <3>1. \A u \in Tasks : ~ (st[u] = "READY" /\ tcpu[u] = d)
      BY <1>3, <2>1, EmptyIff DEF IInv, TypeOK, NothingOnDeadCpu, Placed, QueuedIffReady
    <3>2. \A u \in Tasks : ~ Contains(rq'[d], u)
      BY <1>3, <1>4, <1>5, <1>6, <3>1 DEF TypeOK, Placed, QueuedIffReady
    <3> QED BY <1>5, <3>2, EmptyIff
  <2>2. ASSUME NEW d \in Cpus \ online PROVE curr'[d] = Null
    BY <1>7, <2>2 DEF IInv, NothingOnDeadCpu
  <2> QED BY <2>1, <2>2 DEF IInv, NothingOnDeadCpu
<1> QED BY <1>5, <1>9, <1>10, <1>11, <1>12 DEF IInv, Placement

(* Only the central CPU goes on without a thread.                          *)
LEMMA ScheduleIInv ==
  ASSUME IInv, NEW c \in Cpus, Schedule(c)
  PROVE  IInv'
<1>1. CASE NextTask(c) # Null /\ Elect(c, NextTask(c))
  BY <1>1, ElectIInv DEF Schedule
<1>2. CASE ~ ReturnsWithoutThread(c) /\ oops' = c /\ UNCHANGED <<st, rq, curr, ce, slice, entity>>
  <2>1. /\ c = CentralCpu /\ oops' = c
        /\ UNCHANGED <<st, rq, curr, ce, slice, entity, tcpu, target, online, active, cstate, masks>>
    BY <1>2 DEF Schedule, ReturnsWithoutThread
  <2>2. TypeOK' /\ Placement'
    BY <2>1 DEF IInv, TypeOK, masks, Placement, Placed, QueuedIffReady, QueuedOnce, CurrentIffRunning
  <2>3. MetadataAgrees' /\ EntityIsNoOther' /\ NothingOnDeadCpu'
    BY <2>1 DEF IInv, MetadataAgrees, EntityIsNoOther, NothingOnDeadCpu
  <2> QED BY <2>2, <2>3 DEF IInv
<1> QED BY <1>1, <1>2 DEF Schedule

(* unblock_prepare only chooses a CPU, among those that are active.        *)
LEMMA UnblockPrepareIInv ==
  ASSUME IInv, NEW t \in Tasks, UnblockPrepare(t)
  PROVE  IInv'
<1>1. PICK d \in AllowedTargets(SelectCpu(tcpu[t])) : target' = [target EXCEPT ![t] = d]
  BY DEF UnblockPrepare
<1>2. d \in online /\ d \in Cpus
  BY <1>1 DEF AllowedTargets, IInv, TypeOK
<1>3. /\ UNCHANGED <<st, tcpu, rq, curr, online, active, ce, slice, entity, cstate, oops>>
      /\ UNCHANGED <<idle, smt, pc, word>>
  BY DEF UnblockPrepare, policyVars, masks
<1>4. TypeOK' /\ NothingOnDeadCpu'
  BY <1>1, <1>2, <1>3 DEF IInv, TypeOK, NothingOnDeadCpu
<1>5. Placement' /\ MetadataAgrees' /\ EntityIsNoOther'
  BY <1>3 DEF IInv, Placement, Placed, QueuedIffReady, QueuedOnce, CurrentIffRunning,
              MetadataAgrees, EntityIsNoOther
<1> QED BY <1>4, <1>5 DEF IInv

(* Hotplug events: a CPU leaves the online mask only when it is drained.   *)
LEMMA HotplugIInv ==
  ASSUME IInv, NEW c \in Cpus, CoreExit(c) \/ CpuDead(c) \/ CoreEntry(c)
  PROVE  IInv'
<1>1. UNCHANGED <<st, tcpu, rq, curr, target, ce, slice, entity, oops, pc, word>>
  BY DEF CoreExit, CpuDead, CoreEntry, policyVars, masks
<1>2. Placement' /\ MetadataAgrees' /\ EntityIsNoOther'
  BY <1>1 DEF IInv, Placement, Placed, QueuedIffReady, QueuedOnce, CurrentIffRunning,
              MetadataAgrees, EntityIsNoOther
<1>3. TypeOK'
  <2>1. CASE CoreExit(c)
    BY <1>1, <2>1 DEF CoreExit, IInv, TypeOK, CoreState
  <2>2. CASE CpuDead(c)
    BY <1>1, <2>2 DEF CpuDead, policyVars, masks, IInv, TypeOK
  <2>3. CASE CoreEntry(c)
    BY <1>1, <2>3 DEF CoreEntry, masks, IInv, TypeOK, CoreState
  <2> QED BY <2>1, <2>2, <2>3
<1>4. ASSUME online \subseteq online' PROVE NothingOnDeadCpu'
  <2>1. \A d \in Cpus \ online' : curr'[d] = Null /\ rq'[d] = <<>>
    BY <1>1, <1>4 DEF IInv, NothingOnDeadCpu
  <2>2. \A t \in Tasks : target'[t] # Null => target'[t] \in online'
    BY <1>1, <1>4 DEF IInv, NothingOnDeadCpu
  <2> QED BY <2>1, <2>2 DEF NothingOnDeadCpu
<1>5. ASSUME CpuDead(c) PROVE NothingOnDeadCpu'
  <2>1. online' = online \ {c} /\ Drained(c)
    BY <1>5 DEF CpuDead
  <2>2. rq[c] = <<>>
    <3>1. \A t \in Tasks : ~ Contains(rq[c], t)
      BY <2>1 DEF Drained, IInv, Placement, Placed, QueuedIffReady
    <3> QED BY <3>1, EmptyIff DEF IInv, TypeOK
  <2>3. \A d \in Cpus \ online' : d = c \/ d \in Cpus \ online
    BY <2>1
  <2>4. \A d \in Cpus \ online' : curr'[d] = Null /\ rq'[d] = <<>>
    BY <1>1, <2>1, <2>2, <2>3 DEF Drained, IInv, NothingOnDeadCpu
  <2>5. \A t \in Tasks : target'[t] # Null => target'[t] \in online'
    BY <1>1, <2>1 DEF Drained, IInv, NothingOnDeadCpu
  <2> QED BY <2>4, <2>5 DEF NothingOnDeadCpu
<1>6. CpuDead(c) \/ online \subseteq online'
  BY DEF CoreExit, CoreEntry
<1> QED BY <1>2, <1>3, <1>4, <1>5, <1>6 DEF IInv

(* The idle transitions touch the state of the cores and the idle masks.   *)
LEMMA IdleIInv ==
  ASSUME IInv, NEW c \in Cpus, EntryIdle(c) \/ ExitIdle(c) \/ IdleStep(c)
  PROVE  IInv'
<1>1. /\ UNCHANGED <<st, tcpu, rq, curr, target, online, active>>
      /\ UNCHANGED <<ce, slice, entity, oops>>
  BY DEF EntryIdle, ExitIdle, IdleStep, EntryIdleSubset, EntryIdleOr, ExitIdleAndnot,
         StoreWord, notIdle, coreVars
<1>2. Siblings[c] \subseteq Cpus
  BY SiblingsAssumption
<1>3. TypeOK'
  <2>1. /\ cstate' \in [Cpus -> CoreState]
        /\ idle' \subseteq Cpus /\ smt' \subseteq Cpus
        /\ pc' \in [Cpus -> IdlePc]
        /\ word' \in [Cpus -> SUBSET Cpus]
    <3>1. CASE EntryIdle(c)
      BY <3>1 DEF EntryIdle, GoesTo, IInv, TypeOK, CoreState, IdlePc
    <3>2. CASE ExitIdle(c)
      BY <3>2 DEF ExitIdle, GoesTo, IInv, TypeOK, CoreState, IdlePc
    <3>3. CASE EntryIdleSubset(c)
      BY <3>3 DEF EntryIdleSubset, GoesTo, IInv, TypeOK, IdlePc
    <3>4. CASE EntryIdleOr(c)
      BY <1>2, <3>4 DEF EntryIdleOr, GoesTo, IInv, TypeOK, IdlePc
    <3>5. CASE ExitIdleAndnot(c)
      BY <3>5 DEF ExitIdleAndnot, GoesTo, IInv, TypeOK, IdlePc
    <3>6. CASE StoreWord(c)
      BY <3>6 DEF StoreWord, GoesTo, IInv, TypeOK, IdlePc
    <3> QED BY <3>1, <3>2, <3>3, <3>4, <3>5, <3>6 DEF IdleStep
  <2> QED BY <1>1, <2>1 DEF IInv, TypeOK
<1>4. Placement' /\ MetadataAgrees' /\ EntityIsNoOther' /\ NothingOnDeadCpu'
  BY <1>1 DEF IInv, Placement, Placed, QueuedIffReady, QueuedOnce, CurrentIffRunning,
              MetadataAgrees, EntityIsNoOther, NothingOnDeadCpu
<1> QED BY <1>3, <1>4 DEF IInv

-----------------------------------------------------------------------------
(* Every handler preserves the invariant (one step per action).            *)
THEOREM NextIInv == IInv /\ [Next]_vars => IInv'
<1> SUFFICES ASSUME IInv, [Next]_vars PROVE IInv'
  OBVIOUS
<1>1. ASSUME NEW t \in Tasks, TaskNext(t) PROVE IInv'
  <2>1. CASE NewPrepare(t)
    BY <2>1, NewPrepareIInv
  <2>2. CASE NewPlace(t) \/ UnblockPlace(t)
    BY <2>2, PlaceIInv DEF NewPlace, UnblockPlace
  <2>3. CASE UnblockPrepare(t)
    BY <2>3, UnblockPrepareIInv
  <2>4. CASE Block(t)
    <3>1. BlockTask(t) /\ target' = target
      BY <2>4 DEF Block
    <3> QED BY <3>1, BlockTaskIInv DEF IInv, TypeOK, NothingOnDeadCpu
  <2>5. ASSUME NEW c \in Cpus, Oust(t, c) PROVE IInv'
    <3>1. BlockTask(t) /\ target' = [target EXCEPT ![t] = c] /\ c \in online
      BY <2>5 DEF Oust, IInv, TypeOK
    <3> QED BY <3>1, BlockTaskIInv DEF IInv, TypeOK, NothingOnDeadCpu
  <2>6. CASE Terminate(t)
    BY <2>6, TerminateIInv
  <2> QED BY <1>1, <2>1, <2>2, <2>3, <2>4, <2>5, <2>6 DEF TaskNext
<1>2. ASSUME NEW c \in Cpus, CpuNext(c) PROVE IInv'
  <2>1. CASE TickOf(c)
    BY <2>1, TickIInv DEF TickOf
  <2>2. CASE Yield(c)
    BY <2>2, YieldIInv
  <2>3. CASE Schedule(c)
    BY <2>3, ScheduleIInv
  <2>4. CASE EntryIdle(c) \/ ExitIdle(c) \/ IdleStep(c)
    BY <2>4, IdleIInv
  <2>5. CASE CoreExit(c) \/ CpuDead(c) \/ CoreEntry(c)
    BY <2>5, HotplugIInv
  <2> QED BY <1>2, <2>1, <2>2, <2>3, <2>4, <2>5 DEF CpuNext
<1>3. CASE UNCHANGED vars
  <2>1. UNCHANGED <<st, tcpu, rq, curr, target, online, active, ce, slice, entity, oops>>
    BY <1>3 DEF vars, coreVars, policyVars
  <2>2. TypeOK'
    BY <1>3, <2>1 DEF vars, policyVars, masks, IInv, TypeOK
  <2>3. Placement' /\ MetadataAgrees' /\ EntityIsNoOther' /\ NothingOnDeadCpu'
    BY <2>1 DEF IInv, Placement, Placed, QueuedIffReady, QueuedOnce, CurrentIffRunning,
                MetadataAgrees, EntityIsNoOther, NothingOnDeadCpu
  <2> QED BY <2>2, <2>3 DEF IInv
<1> QED BY <1>1, <1>2, <1>3 DEF Next

(* The inductive invariant holds in every reachable state.                 *)
THEOREM AlwaysIInv == Spec => []IInv
BY InitIInv, NextIInv, PTL DEF Spec

(* The variables keep their types.                                         *)
THEOREM TypeCorrect == Spec => []TypeOK
<1>1. IInv => TypeOK
  BY DEF IInv
<1> QED BY <1>1, AlwaysIInv, PTL

(* Every thread is exactly where its state says (saakm_central.c,          *)
(* enqueue_task, schedule, tick and yield).                                *)
THEOREM PlacementHolds == Spec => []Placement
<1>1. IInv => Placement
  BY DEF IInv
<1> QED BY <1>1, AlwaysIInv, PTL

(* struct central_entity agrees with the kernel's view of the thread.      *)
THEOREM MetadataHolds == Spec => []MetadataAgrees
<1>1. IInv => MetadataAgrees
  BY DEF IInv
<1> QED BY <1>1, AlwaysIInv, PTL

(* current_entity is never another thread's than the one that runs there.  *)
THEOREM EntityHolds == Spec => []EntityIsNoOther
<1>1. IInv => EntityIsNoOther
  BY DEF IInv
<1> QED BY <1>1, AlwaysIInv, PTL

(* Nothing is queued on, runs on or is on its way to an offline CPU.       *)
THEOREM HotplugHolds == Spec => []NothingOnDeadCpu
<1>1. IInv => NothingOnDeadCpu
  BY DEF IInv
<1> QED BY <1>1, AlwaysIInv, PTL

-----------------------------------------------------------------------------
(* Central implements FifoLines with one line per CPU.  What is particular *)
(* to the policy is that change_state is given CPU 0 whichever runqueue it *)
(* queues on, and that schedule may stop the kernel.                       *)

(* A thread that blocks, is moved or terminates leaves its CPU, its line,  *)
(* or nothing at all if it was blocked.                                    *)
LEMMA DepartRefines ==
  ASSUME IInv, NEW t \in Tasks, NEW state \in {"BLOCKED", "TERMINATED"},
         ChangeState(t, state, tcpu[t], Null)
  PROVE  [Lines!Next]_(Lines!vars)
<1> DEFINE l == tcpu[t]
           i == PositionOf(rq[l], t)
<1>1. PlacementTypes /\ Placed
  BY Places
<1>2. CASE st[t] = "RUNNING"
  <2>1. /\ rq' = rq
        /\ l \in Cpus /\ curr[l] # Null
        /\ curr' = [curr EXCEPT ![l] = Null]
    BY <1>1, <1>2, LineUntouched, CpuFreed
  <2>2. Lines!LeaveCpu(l)
    BY <2>1 DEF Lines!LeaveCpu
  <2> QED BY <2>1, <2>2 DEF Lines!Next
<1>3. CASE st[t] = "READY"
  <2>1. /\ curr' = curr
        /\ l \in Cpus /\ i \in 1..Len(rq[l])
        /\ rq' = [rq EXCEPT ![l] = RemoveAt(@, i)]
    BY <1>1, <1>3, CpuUntouched, RemoveFromLine
  <2> HIDE DEF i
  <2>2. Lines!LeaveLine(l, i)
    BY <2>1 DEF Lines!LeaveLine, Lines!RemoveAt, RemoveAt
  <2> QED BY <2>1, <2>2 DEF Lines!Next
<1>4. CASE st[t] \notin {"RUNNING", "READY"}
  BY <1>1, <1>4, LineUntouched, CpuUntouched DEF Lines!vars
<1> QED BY <1>2, <1>3, <1>4

(* A running thread that is requeued goes to the tail of its CPU's line.   *)
LEMMA RequeueRefines ==
  ASSUME IInv, NEW c \in Cpus, curr[c] # Null, NEW state \in {"READY", "READY_TICK"},
         EnqueueTask(curr[c], tcpu[curr[c]], state)
  PROVE  Lines!Next
<1> DEFINE t == curr[c]
<1>1. PlacementTypes /\ Placed /\ t \in Tasks /\ st[t] = "RUNNING" /\ tcpu[t] = c
  BY Places, CurrentIsUnique
<1>2. ChangeState(t, state, CentralCpu, c)
  BY <1>1 DEF EnqueueTask
<1>3. rq' = [rq EXCEPT ![c] = Append(@, t)]
  BY <1>1, <1>2, AppendToLine
<1>4. curr' = [curr EXCEPT ![c] = Null]
  BY <1>1, <1>2, CpuFreed
<1>5. Lines!Requeue(c)
  BY <1>3, <1>4 DEF Lines!Requeue
<1> QED BY <1>5 DEF Lines!Next

(* *_place lets a thread that is neither waiting nor served arrive.        *)
LEMMA PlaceRefines ==
  ASSUME IInv, NEW t \in Tasks, NEW from \in {"NOT_QUEUED", "BLOCKED"}, Place(t, from)
  PROVE  Lines!Next
<1> DEFINE d == target[t]
<1>1. PlacementTypes /\ Placed /\ d \in Cpus /\ st[t] \notin {"READY", "RUNNING"}
  BY Places DEF Place, IInv, TypeOK
<1>2. ChangeState(t, "READY", CentralCpu, d)
  BY DEF Place, EnqueueTask
<1>3. rq' = [rq EXCEPT ![d] = Append(@, t)] /\ curr' = curr
  BY <1>1, <1>2, AppendToLine, CpuUntouched
<1>4. ~ Lines!Waits(t) /\ ~ Lines!Served(t)
  BY <1>1 DEF Lines!Waits, Lines!Served, Lines!Contains, Contains, Placed, QueuedIffReady, CurrentIffRunning
<1>5. Lines!Arrive(t, d)
  BY <1>3, <1>4 DEF Lines!Arrive
<1> QED BY <1>1, <1>5 DEF Lines!Next

(* schedule serves the head of the line of its CPU, or stops the kernel    *)
(* before it has touched any line.                                         *)
LEMMA ScheduleRefines ==
  ASSUME IInv, NEW c \in Cpus, Schedule(c)
  PROVE  [Lines!Next]_(Lines!vars)
<1> DEFINE t == NextTask(c)
<1>1. PlacementTypes /\ Placed
  BY Places
<1>2. CASE UNCHANGED <<st, rq, curr, ce, slice, entity>>
  BY <1>2 DEF Lines!vars
<1>3. CASE t # Null /\ Elect(c, t)
  <2>1. ChangeState(t, "RUNNING", c, Null) /\ curr[c] = Null /\ t = FirstTask(rq[c])
    BY <1>3 DEF Schedule, Elect, NextTask
  <2> HIDE DEF t
  <2>2. Lines!Serve(c)
    BY <1>1, <1>3, <2>1, ServeHead DEF Lines!Serve
  <2> QED BY <2>2 DEF Lines!Next
<1> QED BY <1>2, <1>3 DEF Schedule

-----------------------------------------------------------------------------
(* Every handler is a step of FifoLines or a stutter.                      *)
THEOREM StepRefines == IInv /\ [Next]_vars => [Lines!Next]_(Lines!vars)
<1> SUFFICES ASSUME IInv, [Next]_vars PROVE [Lines!Next]_(Lines!vars)
  OBVIOUS
<1>1. ASSUME NEW t \in Tasks, TaskNext(t) PROVE [Lines!Next]_(Lines!vars)
  <2>1. CASE NewPrepare(t) \/ UnblockPrepare(t)
    BY <2>1 DEF NewPrepare, UnblockPrepare, Lines!vars
  <2>2. CASE NewPlace(t) \/ UnblockPlace(t)
    BY <2>2, PlaceRefines DEF NewPlace, UnblockPlace
  <2>3. CASE Block(t) \/ \E c \in Cpus : Oust(t, c)
    <3>1. ChangeState(t, "BLOCKED", tcpu[t], Null)
      BY <2>3 DEF Block, Oust, BlockTask
    <3> QED BY <3>1, DepartRefines
  <2>4. CASE Terminate(t)
    <3>1. ChangeState(t, "TERMINATED", tcpu[t], Null)
      BY <2>4 DEF Terminate
    <3> QED BY <3>1, DepartRefines
  <2> QED BY <1>1, <2>1, <2>2, <2>3, <2>4 DEF TaskNext
<1>2. ASSUME NEW c \in Cpus, CpuNext(c) PROVE [Lines!Next]_(Lines!vars)
  <2>1. ASSUME NEW now \in Times, Tick(c, now) PROVE [Lines!Next]_(Lines!vars)
    <3>1. CASE UNCHANGED <<st, rq, curr, ce, entity>>
      BY <3>1 DEF Lines!vars
    <3>2. CASE EnqueueTask(curr[c], tcpu[curr[c]], "READY_TICK")
      BY <2>1, <3>2, RequeueRefines DEF Tick
    <3> QED BY <2>1, <3>1, <3>2 DEF Tick
  <2>2. CASE Yield(c)
    BY <2>2, RequeueRefines DEF Yield
  <2>3. CASE Schedule(c)
    BY <2>3, ScheduleRefines
  <2>4. CASE EntryIdle(c) \/ ExitIdle(c) \/ IdleStep(c)
    BY <2>4 DEF EntryIdle, ExitIdle, IdleStep, EntryIdleSubset, EntryIdleOr, ExitIdleAndnot,
                StoreWord, notIdle, coreVars, Lines!vars
  <2>5. CASE CoreExit(c) \/ CpuDead(c) \/ CoreEntry(c)
    BY <2>5 DEF CoreExit, CpuDead, CoreEntry, Lines!vars
  <2> QED BY <1>2, <2>1, <2>2, <2>3, <2>4, <2>5 DEF CpuNext, TickOf
<1>3. CASE UNCHANGED vars
  BY <1>3 DEF vars, coreVars, Lines!vars
<1> QED BY <1>1, <1>2, <1>3 DEF Next

(* The policy serves the runqueue of each CPU first-in first-out.          *)
THEOREM ImplementsFifoLines == Spec => ServesInOrder
<1>1. Init => Lines!Init
  BY DEF Init, CoreInit, Lines!Init
<1> QED BY <1>1, StepRefines, AlwaysIInv, PTL DEF Spec, ServesInOrder, Lines!Spec

(* A thread that waits is never overtaken: nobody gets before it in the    *)
(* runqueue of its CPU, nor is elected from elsewhere.                     *)
THEOREM ServedInTurn == Spec => [][InTurn(Cpus, Tasks)]_vars
<1>1. ASSUME IInv, [Next]_vars PROVE InTurn(Cpus, Tasks)
  <2>1. [CpuLines!Next]_(CpuLines!vars)
    BY <1>1, StepRefines DEF Lines!Next, Lines!vars, Lines!Arrive, Lines!Waits, Lines!Served,
         Lines!Contains, Lines!Serve, Lines!Requeue, Lines!LeaveCpu, Lines!LeaveLine,
         Lines!RemoveAt, CpuLines!Next, CpuLines!vars, CpuLines!Arrive, CpuLines!Waits,
         CpuLines!Served, CpuLines!Contains, CpuLines!Serve, CpuLines!Requeue,
         CpuLines!LeaveCpu, CpuLines!LeaveLine, CpuLines!RemoveAt
  <2> QED BY <1>1, <2>1, Places, LinesInTurn
<1> QED BY <1>1, AlwaysIInv, PTL DEF Spec
=============================================================================
