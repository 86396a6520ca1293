-------------------------------- MODULE Rusty ------------------------------
(***************************************************************************)
(* The Rusty policy, modules/rusty_saakm/rusty_saakm.c: one FIFO runqueue  *)
(* per core, a time slice, and a choice of CPU at each wake-up that looks  *)
(* for an idle one in two cpumasks, idle_masks.cpu and idle_masks.smt.     *)
(*                                                                         *)
(* No lock protects the masks: enter_idle and exit_idle write them under   *)
(* the lock of their core, rusty_select_cpu under that of the thread it    *)
(* places.  Handlers of cores and queues are one action; the choice of a   *)
(* CPU is one action for each access to a mask.  An operation on one bit   *)
(* is atomic; cpumask_andnot reads a word and writes it later.             *)
(*                                                                         *)
(* Left out, because nothing reads them to decide: rp->state and rp->rq,   *)
(* dispatch_local, dom_mask, dom_id; and what leads only to the searches   *)
(* beyond the domain, lines 517-576: all_cpus, all_cpumask and the tuner.  *)
(* They look at a NUMA node mask that is allocated and never filled: they  *)
(* find nothing, and change nothing.                                       *)
(***************************************************************************)
EXTENDS SaakmCore

CONSTANTS
  Siblings,     \* [Cpus -> SUBSET Cpus], cpu_smt_mask(cpu)
  NumDoms,      \* nr_doms
  Domain,       \* [Cpus -> 0 .. NumDoms - 1], c->dom_id
  Affinities,   \* the sets of CPUs that sched_setaffinity gives threads
  Slice,        \* SLICE_NS, in clock units
  HotplugCpus   \* bound: [BOOLEAN -> SUBSET Cpus], the CPUs that may go down and
                \* come back, without SMT and with it

ASSUME TopologyAssumption ==
  /\ Siblings \in [Cpus -> SUBSET Cpus] /\ \A c \in Cpus : c \in Siblings[c]
  /\ NumDoms \in Nat \ {0} /\ Domain \in [Cpus -> 0 .. NumDoms - 1]

(* The kernel widens the affinity of a thread rather than leave it without *)
(* an active CPU: here each thread is allowed on one that stays.           *)
ASSUME AffinityAssumption ==
  /\ HotplugCpus \in [BOOLEAN -> SUBSET Cpus]
  /\ Affinities \subseteq SUBSET Cpus
  /\ \A mask \in Affinities, s \in BOOLEAN : mask \ HotplugCpus[s] # {}

ASSUME SliceAssumption == Slice \in Nat \ {0}

VARIABLES
  smt,          \* ipanema_smt_active(), which no step changes
  smtMask,      \* the cpumask idle_masks.smt
  cpuMask,      \* the cpumask idle_masks.cpu
  cstate,       \* [Cpus -> core state], c->state
  allowed,      \* [Tasks -> Affinities], p->cpus_ptr
  pmask,        \* [Tasks -> SUBSET Cpus], rp->cpumask
  slice,        \* [Tasks -> 0 .. Slice], rp->slice
  sel,          \* [Tasks -> where rusty_select_cpu is for the thread, or Null]
  settled       \* history: the CPUs that have been idle since the module load

masks == <<smtMask, cpuMask>>
affinity == <<allowed, pmask>>
threadData == <<affinity, slice>>
rustyVars == <<smt, masks, cstate, threadData, sel, settled>>
vars == <<coreVars, rustyVars>>

CoreState == {"ACTIVE", "IDLE"}

(* The statements of rusty_select_cpu that look for a CPU, in order.       *)
Stage == {"syncPrev", "syncLocal", "hasIdle", "prevCore", "core", "prevCpu", "any", "last"}

(* Where one of them is: at its start; at the second mask of pick_idle_cpu;*)
(* in test_and_clear_cpu_idle.                                             *)
SelPc == {"start", "second", "siblings", "andnot", "store", "claim"}

Selection ==
  [by : Cpus \cup {Null}, stage : Stage, pc : SelPc, cpu : Cpus \cup {Null},
   word : SUBSET Cpus, hasIdle : BOOLEAN]

(* sel tells a search under way from none.                                 *)
ASSUME SelectionAssumption == Null \notin Selection

-----------------------------------------------------------------------------
DomainCpus(d) == {c \in Cpus : Domain[c] = d}

(* task_pick_domain: the domains are visited round robin from the one      *)
(* after start, and each that has an allowed CPU overwrites rp->cpumask.   *)
(* start, dom_rr_cur of the CPU, advances at each fork there, of threads   *)
(* of other programs too: it is any domain.                                *)
\* mutant: the first domain only
PickFirstDomain(t, start) == DomainCpus((start + 1) % NumDoms) \cap allowed[t]
PickDomain(t, start) ==
  LET At(i) == DomainCpus((start + i) % NumDoms) \cap allowed[t]
  IN At(Max({i \in 1..NumDoms : At(i) # {}}))

(* get_idle_cpumask.                                                       *)
IdleMask == IF smt THEN smtMask ELSE cpuMask

Domestic(t) == tcpu[t] \in pmask[t]

(* The kernel takes the CPU chosen if the thread may run there.            *)
Accepted(t, cpu) ==
  IF cpu \in active \cap allowed[t] THEN {cpu} ELSE active \cap allowed[t]

Init ==
  /\ CoreInit(Cpus)
  /\ allowed \in [Tasks -> Affinities]
  /\ \A t \in Tasks : tcpu[t] \in allowed[t]
  /\ smt \in BOOLEAN
  /\ smtMask = IF smt THEN UNION {Siblings[c] : c \in Cpus} ELSE {}
  /\ cpuMask = Cpus
  /\ cstate = [c \in Cpus |-> "ACTIVE"]
  /\ pmask = [t \in Tasks |-> {}]
  /\ slice = [t \in Tasks |-> 0]
  /\ sel = [t \in Tasks |-> Null]
  /\ settled = {}

-----------------------------------------------------------------------------
(* rusty_select_cpu, for the thread t.                                     *)

Selecting(t, stage, pc) == sel[t] # Null /\ sel[t].stage = stage /\ sel[t].pc = pc

(* It returns cpu.                                                         *)
Return(t, cpu) ==
  /\ \E c \in Accepted(t, cpu) : target' = [target EXCEPT ![t] = c]
  /\ sel' = [sel EXCEPT ![t] = Null]

(* Two of the statements begin with test_and_clear_cpu_idle(prev_cpu).     *)
Start(t, stage, by) ==
  LET prev == stage \in {"syncPrev", "prevCpu"} IN
  [by |-> by, stage |-> stage, hasIdle |-> FALSE, word |-> {},
   pc |-> IF ~ prev THEN "start" ELSE IF smt THEN "siblings" ELSE "claim",
   cpu |-> IF prev THEN tcpu[t] ELSE Null]

Goto(t, stage) ==
  /\ sel' = [sel EXCEPT ![t] =
               Start(t, stage, IF stage = "syncLocal" THEN @.by ELSE Null)]
  /\ UNCHANGED target

(* The next statement when the one at stage has found no CPU.              *)
Fails(t, stage) ==
  \/ stage = "syncPrev" /\ Goto(t, "syncLocal")
  \/ stage = "syncLocal" /\ Goto(t, "hasIdle")
  \/ stage = "prevCore" /\ Goto(t, IF sel[t].hasIdle THEN "core" ELSE "prevCpu")
  \/ stage = "core" /\ Goto(t, IF Domestic(t) THEN "prevCpu" ELSE "any")
  \/ stage = "prevCpu" /\ Goto(t, "any")
  \/ stage = "any" /\ IF Domestic(t) THEN Return(t, tcpu[t]) ELSE Goto(t, "last")
  \/ stage = "last" /\ \E cpu \in pmask[t] : Return(t, cpu)

(* A call of rusty_select_cpu by the CPU by, which is looked at only when  *)
(* the waker goes to sleep (IPANEMA_WF_SYNC).                              *)
Call(t, by, sync) ==
  IF Cardinality(allowed[t]) = 1
  THEN Return(t, tcpu[t])
  ELSE /\ sel' = [sel EXCEPT ![t] =
                    IF ~ sync THEN Start(t, "hasIdle", Null)
                    ELSE IF Domain[tcpu[t]] = Domain[by] THEN Start(t, "syncPrev", by)
                    ELSE Start(t, "syncLocal", by)]
       /\ UNCHANGED target

onlySel == <<st, tcpu, rq, curr, online, active, smt, cstate, threadData, settled>>

(* test_and_clear_cpu_idle(cpu) is called.                                 *)
TestAndClear(t, cpu) ==
  /\ sel' = [sel EXCEPT ![t].pc = IF smt THEN "siblings" ELSE "claim", ![t].cpu = cpu]
  /\ UNCHANGED target

(* try_sync_wakeup, when the previous CPU is not idle or shares no cache:  *)
(* this CPU, if its runqueue is empty and there is an idle one nearby.     *)
SyncLocal(t) ==
  LET by == sel[t].by IN
  /\ Selecting(t, "syncLocal", "start")
  /\ \/ /\ DomainCpus(Domain[by]) \cap IdleMask # {}
        /\ by \in allowed[t]
        /\ rq[by] = <<>>
        /\ Return(t, by)
     \/ Fails(t, "syncLocal")  \* one of these does not hold, or current exits
  /\ UNCHANGED <<masks, onlySel>>

HasIdle(t) ==
  LET found == IdleMask # {} IN
  /\ Selecting(t, "hasIdle", "start")
  /\ sel' = [sel EXCEPT ![t].hasIdle = found,
                        ![t].stage = IF Domestic(t) THEN "prevCore"
                                     ELSE IF found THEN "core" ELSE "any"]
  /\ UNCHANGED <<target, masks, onlySel>>

PrevCore(t) ==
  /\ Selecting(t, "prevCore", "start")
  /\ IF tcpu[t] \in IdleMask THEN TestAndClear(t, tcpu[t]) ELSE Fails(t, "prevCore")
  /\ UNCHANGED <<masks, onlySel>>

(* pick_idle_cpu(rp->cpumask, PICK_IDLE_CORE at stage core, 0 at the other *)
(* two): any CPU of the first mask; with PICK_IDLE_CORE and SMT, not of    *)
(* the second.                                                             *)
PickFirst(t, stage) ==
  /\ Selecting(t, stage, "start")
  /\ smt
  /\ IF smtMask \cap pmask[t] # {}
     THEN \E cpu \in smtMask \cap pmask[t] : TestAndClear(t, cpu)
     ELSE IF stage = "core" THEN Fails(t, stage)
     ELSE sel' = [sel EXCEPT ![t].pc = "second"] /\ UNCHANGED target
  /\ UNCHANGED <<masks, onlySel>>

\* mutant: the siblings of the previous CPU only
IdleSiblings(t) == cpuMask \cap Siblings[tcpu[t]]
IdleDomestic(t) == cpuMask \cap pmask[t]

PickSecond(t, stage) ==
  /\ Selecting(t, stage, IF smt THEN "second" ELSE "start")
  /\ IF IdleDomestic(t) # {}
     THEN \E cpu \in IdleDomestic(t) : TestAndClear(t, cpu)
     ELSE Fails(t, stage)
  /\ UNCHANGED <<masks, onlySel>>

(* test_and_clear_cpu_idle, with SMT: the siblings are removed from the    *)
(* mask by reading it (Andnot) and writing it (Store).                     *)
TestSiblings(t) ==
  /\ sel[t] # Null /\ sel[t].pc = "siblings"
  /\ IF Siblings[sel[t].cpu] \cap smtMask # {}
     THEN sel' = [sel EXCEPT ![t].pc = "andnot"] /\ UNCHANGED smtMask
     ELSE /\ sel' = [sel EXCEPT ![t].pc = "claim"]
          /\ smtMask' = smtMask \ {sel[t].cpu}
  /\ UNCHANGED <<target, cpuMask, onlySel>>

Andnot(t) ==
  /\ sel[t] # Null /\ sel[t].pc = "andnot"
  /\ sel' = [sel EXCEPT ![t].pc = "store", ![t].word = smtMask \ Siblings[sel[t].cpu]]
  /\ UNCHANGED <<target, masks, onlySel>>

Store(t) ==
  /\ sel[t] # Null /\ sel[t].pc = "store"
  /\ smtMask' = sel[t].word
  /\ sel' = [sel EXCEPT ![t].pc = "claim", ![t].word = {}]
  /\ UNCHANGED <<target, cpuMask, onlySel>>

(* cpumask_test_and_clear_cpu on the second mask gives the answer;         *)
(* pick_idle_cpu tries again when it is no.                                *)
Claim(t) ==
  LET cpu == sel[t].cpu
      stage == sel[t].stage
  IN
  /\ sel[t] # Null /\ sel[t].pc = "claim"
  /\ cpuMask' = cpuMask \ {cpu}
  /\ IF cpu \in cpuMask THEN Return(t, cpu)
     ELSE IF stage \in {"core", "any", "last"} THEN Goto(t, stage)
     ELSE Fails(t, stage)
  /\ UNCHANGED <<smtMask, onlySel>>

-----------------------------------------------------------------------------
(* Thread events.                                                          *)

(* The struct is allocated and the domains picked, then a CPU is chosen.   *)
NewPrepare(t, start, by, sync) ==
  /\ st[t] \in {"NOT_QUEUED", "TERMINATED"}
  /\ target[t] = Null /\ sel[t] = Null
  /\ sync => by \in online
  /\ st' = [st EXCEPT ![t] = "NOT_QUEUED"]
  /\ pmask' = [pmask EXCEPT ![t] = PickDomain(t, start)]
  /\ slice' = [slice EXCEPT ![t] = 0]
  /\ Call(t, by, sync)
  /\ UNCHANGED <<tcpu, rq, curr, online, active, smt, masks, cstate, allowed, settled>>

UnblockPrepare(t) ==
  /\ st[t] = "BLOCKED"
  /\ target[t] = Null /\ sel[t] = Null
  /\ Call(t, Null, FALSE)
  /\ UNCHANGED <<st, tcpu, rq, curr, online, active, smt, masks, cstate, threadData, settled>>

(* task_cpu is set to the CPU chosen, the thread is queued.                *)
Place(t, from) ==
  /\ st[t] = from
  /\ target[t] # Null
  /\ tcpu' = [tcpu EXCEPT ![t] = target[t]]
  /\ target' = [target EXCEPT ![t] = Null]
  /\ ChangeState(t, "READY", target[t], target[t])
  /\ UNCHANGED <<online, active, smt, masks, cstate, affinity, sel, settled>>

NewPlace(t) == Place(t, "NOT_QUEUED") /\ slice' = [slice EXCEPT ![t] = Slice]

UnblockPlace(t) == Place(t, "BLOCKED") /\ UNCHANGED slice

notQueues == <<online, active, smt, masks, cstate, affinity, sel, settled>>

(* The slice less the time since se.exec_start, and not below 0.           *)
\* mutant: no test
LeftSigned(t, delta) == slice[t] - delta
Left(t, delta) == IF slice[t] < delta THEN 0 ELSE slice[t] - delta

Tick(c, delta) ==
  LET t == curr[c] IN
  /\ c \in online
  /\ t # Null
  /\ slice' = [slice EXCEPT ![t] = Left(t, delta)]
  /\ IF Left(t, delta) = 0 THEN ChangeState(t, "READY_TICK", tcpu[t], tcpu[t])
                           ELSE UNCHANGED <<st, rq, curr>>
  /\ UNCHANGED <<tcpu, target, notQueues>>

Yield(c) ==
  LET t == curr[c] IN
  /\ c \in online
  /\ t # Null
  /\ ChangeState(t, "READY", tcpu[t], tcpu[t])
  /\ slice' = [slice EXCEPT ![t] = 0]
  /\ UNCHANGED <<tcpu, target, notQueues>>

Block(t) ==
  /\ st[t] = "RUNNING"
  /\ ChangeState(t, "BLOCKED", tcpu[t], Null)
  /\ UNCHANGED <<tcpu, target, slice, notQueues>>

(* sched_setaffinity, of which the policy is not told: pmask stays.  A     *)
(* wake-up holds the lock of the thread meanwhile, so it is never during   *)
(* one.  A thread that waits or runs where it may not is moved (Oust).     *)
SetAffinity(t, mask) ==
  /\ target[t] = Null /\ sel[t] = Null
  /\ allowed' = [allowed EXCEPT ![t] = mask]
  /\ UNCHANGED <<coreVars, smt, masks, cstate, pmask, slice, sel, settled>>

(* SaaKM delivers block, and unblock_place on another CPU (OUSTED).        *)
Oust(t, cpu) ==
  /\ st[t] \in {"READY", "RUNNING"}
  /\ cpu \in (active \cap allowed[t]) \ {tcpu[t]}
  /\ ChangeState(t, "BLOCKED", tcpu[t], Null)
  /\ target' = [target EXCEPT ![t] = cpu]
  /\ UNCHANGED <<tcpu, slice, notQueues>>

Terminate(t) ==
  /\ st[t] \in {"READY", "RUNNING", "BLOCKED"}
  /\ target[t] = Null /\ sel[t] = Null
  /\ ChangeState(t, "TERMINATED", tcpu[t], Null)
  /\ UNCHANGED <<tcpu, target, online, active, smt, masks, cstate, threadData, sel, settled>>

\* mutant: the tail instead of the head
NewestTask(c) == IF rq[c] = <<>> THEN Null ELSE Last(rq[c])
NextTask(c) == FirstTask(rq[c])

(* An idle core leaves the idle state before it schedules a thread.        *)
Schedule(c) ==
  LET next == NextTask(c) IN
  /\ c \in online
  /\ curr[c] = Null
  /\ next # Null
  /\ cstate[c] = "ACTIVE"
  /\ slice' = [slice EXCEPT ![next] = Slice]
  /\ ChangeState(next, "RUNNING", tcpu[next], Null)
  /\ UNCHANGED <<tcpu, target, notQueues>>

-----------------------------------------------------------------------------
(* Core events.                                                            *)

(* One bit of the mask the code has chosen for SMT or not.                 *)
SetIdle(c) ==
  IF smt THEN smtMask' = smtMask \cup {c} /\ UNCHANGED cpuMask
         ELSE cpuMask' = cpuMask \cup {c} /\ UNCHANGED smtMask

\* mutant: always the mask of cores
ClearSmt(c) == smtMask' = smtMask \ {c} /\ UNCHANGED cpuMask
ClearIdle(c) ==
  IF smt THEN smtMask' = smtMask \ {c} /\ UNCHANGED cpuMask
         ELSE cpuMask' = cpuMask \ {c} /\ UNCHANGED smtMask

notCore == <<st, tcpu, rq, curr, target, smt, threadData, sel>>

(* schedule found nothing to run on c, which may be idle already.          *)
EnterIdle(c) ==
  /\ c \in online
  /\ curr[c] = Null /\ rq[c] = <<>>
  /\ cstate' = [cstate EXCEPT ![c] = "IDLE"]
  /\ SetIdle(c)
  /\ settled' = settled \cup {c}
  /\ UNCHANGED <<online, active, notCore>>

ExitIdle(c) ==
  /\ c \in online
  /\ rq[c] # <<>>
  /\ cstate[c] = "IDLE"
  /\ cstate' = [cstate EXCEPT ![c] = "ACTIVE"]
  /\ ClearIdle(c)
  /\ UNCHANGED <<online, active, settled, notCore>>

(* The handler clears the bit c->idle, a time, of all_cpumask.             *)
CoreExit(c) ==
  /\ c \in HotplugCpus[smt] \cap active
  /\ active' = active \ {c}
  /\ cstate' = [cstate EXCEPT ![c] = "IDLE"]
  /\ ClearIdle(c)
  /\ settled' = settled \cup {c}
  /\ UNCHANGED <<online, notCore>>

CpuDead(c) ==
  /\ c \in online \ active
  /\ Drained(c)
  /\ \A t \in Tasks : sel[t] # Null => sel[t].by # c
  /\ online' = online \ {c}
  /\ UNCHANGED <<active, cstate, masks, settled, notCore>>

CoreEntry(c) ==
  /\ c \notin online
  /\ online' = online \cup {c}
  /\ active' = active \cup {c}
  /\ cstate' = [cstate EXCEPT ![c] = "ACTIVE"]
  /\ ClearIdle(c)
  /\ UNCHANGED <<settled, notCore>>

-----------------------------------------------------------------------------
SelectStep(t) ==
  \/ SyncLocal(t)
  \/ HasIdle(t)
  \/ PrevCore(t)
  \/ \E stage \in {"core", "any", "last"} : PickFirst(t, stage) \/ PickSecond(t, stage)
  \/ TestSiblings(t)
  \/ Andnot(t)
  \/ Store(t)
  \/ Claim(t)

TickOf(c) == \E delta \in 1..Slice : Tick(c, delta)

TaskNext(t) ==
  \/ \E start \in 0 .. NumDoms - 1, by \in Cpus, sync \in BOOLEAN :
       NewPrepare(t, start, by, sync)
  \/ NewPlace(t)
  \/ UnblockPrepare(t)
  \/ UnblockPlace(t)
  \/ SelectStep(t)
  \/ Block(t)
  \/ \E mask \in Affinities : SetAffinity(t, mask)
  \/ \E c \in Cpus : Oust(t, c)
  \/ Terminate(t)

CpuNext(c) ==
  \/ TickOf(c)
  \/ Yield(c)
  \/ Schedule(c)
  \/ EnterIdle(c)
  \/ ExitIdle(c)
  \/ CoreExit(c)
  \/ CpuDead(c)
  \/ CoreEntry(c)

Next ==
  \/ \E t \in Tasks : TaskNext(t)
  \/ \E c \in Cpus : CpuNext(c)

Spec == Init /\ [][Next]_vars

(* A CPU that finds nothing to run is delivered enter_idle, one that has a *)
(* thread runs it and ticks; the choice of a CPU goes on, and is followed  *)
(* by the placement.                                                       *)
Fairness ==
  /\ \A c \in Cpus : /\ WF_vars(EnterIdle(c)) /\ WF_vars(ExitIdle(c))
                     /\ WF_vars(Schedule(c)) /\ WF_vars(TickOf(c))
  /\ \A t \in Tasks : WF_vars(SelectStep(t)) /\ WF_vars(NewPlace(t) \/ UnblockPlace(t))

FairSpec == Spec /\ Fairness

-----------------------------------------------------------------------------
TypeOK ==
  /\ st \in [Tasks -> ThreadState]
  /\ tcpu \in [Tasks -> Cpus]
  /\ rq \in [Cpus -> Seq(Tasks)]
  /\ curr \in [Cpus -> Tasks \cup {Null}]
  /\ target \in [Tasks -> Cpus \cup {Null}]
  /\ online \subseteq Cpus /\ active \subseteq online
  /\ smt \in BOOLEAN
  /\ smtMask \subseteq Cpus /\ cpuMask \subseteq Cpus
  /\ cstate \in [Cpus -> CoreState]
  /\ allowed \in [Tasks -> Affinities]
  /\ pmask \in [Tasks -> SUBSET Cpus]
  /\ slice \in [Tasks -> 0 .. Slice]
  /\ sel \in [Tasks -> Selection \cup {Null}]
  /\ settled \subseteq Cpus

-----------------------------------------------------------------------------
(* Without SMT, a core that has been idle once is offered to wake-ups only *)
(* while it is idle, however their searches interleave with enter_idle,    *)
(* exit_idle and hotplug (lines 258-314): what it is given to run takes it *)
(* out of the mask first.  A core that was idle when it went down is       *)
(* offered all the same, since core_exit comes before its last enter_idle. *)
OfferedIsIdle ==
  ~ smt => \A c \in cpuMask \cap settled : cstate[c] = "IDLE" /\ curr[c] = Null

(* rp->cpumask is computed when the thread is created, from the affinity   *)
(* of that time, and never again (line 664): whatever the affinity becomes *)
(* and wherever the round of domains began, a search has a CPU of it left  *)
(* for its last resort (line 586), instead of returning -EBUSY as a CPU.   *)
SearchHasDomain == \A t \in Tasks : sel[t] # Null => pmask[t] # {}

(* "Looking for an idle cpu we can directly dispatch the task to" (line    *)
(* 485): a CPU that a search claims runs nothing.                          *)
DirectIsIdle ==
  [][\A t \in Tasks :
       /\ ~ smt
       /\ sel[t] # Null /\ sel[t].pc = "claim" /\ sel'[t] = Null
       => curr[sel[t].cpu] = Null]_vars

(* A thread is sent to its busy previous CPU, or to any one of its domain, *)
(* only when the search has just seen its "domestic domain fully booked"   *)
(* (line 510): no CPU of rp->cpumask is left to claim, whichever others    *)
(* have claimed or freed since it began.                                   *)
FallsBackWhenBooked ==
  [][\A t \in Tasks :
       /\ sel[t] # Null /\ sel'[t] = Null
       /\ sel[t].stage # "syncLocal" /\ sel[t].pc # "claim"
       => cpuMask \cap pmask[t] = {}]_vars

(* Each runqueue is served first-in first-out (FifoLines).                 *)
Lines == INSTANCE FifoLines WITH
  Lines <- Cpus, LineOf <- [c \in Cpus |-> c], line <- rq, serving <- curr

ServesInOrder == Lines!Spec

-----------------------------------------------------------------------------
(* "They'll all be idle at the begining and then everything will get into  *)
(* place on its own" (line 983): a core that stays without a thread ends   *)
(* up in the mask test_and_clear_cpu_idle answers from (line 335), so that *)
(* wake-ups find it again, as often as it becomes idle.                    *)
Idles(c) == c \in active /\ curr[c] = Null /\ rq[c] = <<>>

IdleIsFound == \A c \in Cpus : Idles(c) ~> (c \in cpuMask \/ ~ Idles(c))
=============================================================================
