----------------------------- MODULE RustyProofs ----------------------------
(***************************************************************************)
(* Theorems about Rusty, for every set of threads, number of CPUs,         *)
(* topology and slice, and whatever the affinities become.                 *)
(*                                                                         *)
(* A core the mask offers is idle because a search only takes cores out of *)
(* the mask, and because what makes a core busy, schedule, waits until it  *)
(* has left the idle state: that schedule runs the thread on the core      *)
(* whose state it looked at is where the placement of threads comes in.    *)
(*                                                                         *)
(* A search always has a CPU to end with because new_prepare goes round    *)
(* the domains until one has a CPU of the affinity, and because what makes *)
(* that answer out of date, sched_setaffinity, does not touch it.          *)
(***************************************************************************)
EXTENDS Rusty, SaakmCoreProofs, WellFoundedInduction

(* The CPU of a thread that waits or runs is online; the CPU chosen for    *)
(* one stays online, and allowed, until the thread is there.               *)
StaysOnline ==
  \A t \in Tasks :
    /\ target[t] # Null => target[t] \in allowed[t] \cap online
    /\ st[t] \in {"READY", "RUNNING"} => tcpu[t] \in online

InClass(t) ==
  sel[t] # Null \/ target[t] # Null \/ st[t] \in {"READY", "RUNNING", "BLOCKED"}

(* A thread has a domain as long as it may be looked for a CPU.            *)
HasDomain == \A t \in Tasks : InClass(t) => pmask[t] # {}

(* A search at its second statement has only just arrived there.           *)
SearchOk(s) == s.stage = "hasIdle" => s.pc = "start"

SearchesOk == \A t \in Tasks : sel[t] # Null => SearchOk(sel[t])

IInv ==
  /\ TypeOK
  /\ Placed
  /\ OfferedIsIdle
  /\ StaysOnline
  /\ HasDomain
  /\ SearchesOk

-----------------------------------------------------------------------------
(* What the lemmas about the placement of threads need.                    *)
LEMMA Places == ASSUME IInv PROVE PlacementTypes /\ Placed
BY DEF IInv, TypeOK, PlacementTypes

(* A freshly loaded module: nothing is queued, running or searched for.    *)
THEOREM InitIInv == Init => IInv
<1> SUFFICES ASSUME Init PROVE IInv
  OBVIOUS
<1> USE DEF Init, CoreInit
<1>1. TypeOK
  <2>1. smtMask \subseteq Cpus
    BY TopologyAssumption
  <2>2. slice \in [Tasks -> 0..Slice]
    BY SliceAssumption
  <2> QED BY <2>1, <2>2 DEF TypeOK, ThreadState, CoreState
<1>2. Placed
  <2>1. QueuedIffReady
    <3>1. \A c \in Cpus, t \in Tasks : ~ Contains(rq[c], t)
      BY DEF Contains
    <3> QED BY <3>1 DEF QueuedIffReady
  <2>2. QueuedOnce
    BY DEF QueuedOnce
  <2>3. CurrentIffRunning
    BY NullAssumption DEF CurrentIffRunning
  <2> QED BY <2>1, <2>2, <2>3 DEF Placed
<1>3. OfferedIsIdle /\ SearchesOk
  BY DEF OfferedIsIdle, SearchesOk
<1>4. StaysOnline /\ HasDomain
  BY DEF StaysOnline, HasDomain, InClass
<1> QED BY <1>1, <1>2, <1>3, <1>4 DEF IInv

-----------------------------------------------------------------------------
(* The domains.                                                            *)
Less == {p \in Nat \X Nat : p[1] < p[2]}

LEMMA LessIsWellFounded == IsWellFoundedOn(Less, Nat)
BY NatLessThanWellFounded DEF OpToRel, Less

(* A non-empty set of numbers up to n has a greatest one.                  *)
LEMMA MaxIsIn ==
  ASSUME NEW n \in Nat, NEW S \in SUBSET (1..n), S # {}
  PROVE  Max(S) \in S
<1> DEFINE T == {k \in 0..n : n - k \in S}
<1>1. T \subseteq Nat
  OBVIOUS
<1>2. T # {}
  <2>1. PICK x \in S : x \in 1..n
    OBVIOUS
  <2>2. n - x \in 0..n /\ n - (n - x) = x
    BY <2>1
  <2>3. n - x \in T
    BY <2>1, <2>2
  <2> QED BY <2>3
<1> HIDE DEF T
<1>3. PICK m \in T : \A k \in T : <<k, m>> \notin Less
  <2>1. \E m \in T : \A k \in T : ~ (<<k, m>> \in Less)
    BY <1>1, <1>2, LessIsWellFounded, WFMin
  <2> QED BY <2>1
<1>4. m \in 0..n /\ n - m \in S
  BY DEF T
<1>5. \A x \in S : n - m >= x
  <2> SUFFICES ASSUME NEW x \in S PROVE n - m >= x
    OBVIOUS
  <2>1. n - x \in Nat /\ n - x \in T /\ x \in Nat
    BY DEF T
  <2>2. <<n - x, m>> \notin Less /\ m \in Nat
    BY <1>3, <1>4, <2>1
  <2>3. \A k, l \in Nat : <<k, l>> \notin Less => ~ (k < l)
    BY DEF Less
  <2>4. ~ (n - x < m)
    BY <2>1, <2>2, <2>3
  <2> QED BY <1>4, <2>1, <2>4
<1>6. \E x \in S : \A y \in S : x >= y
  BY <1>4, <1>5
<1> QED BY <1>6 DEF Max

(* The round of task_pick_domain comes by every domain.                    *)
LEMMA RoundRobinReaches ==
  ASSUME NEW n \in Nat \ {0}, NEW a \in 0 .. n - 1, NEW d \in 0 .. n - 1
  PROVE  \E i \in 1..n : (a + i) % n = d
<1>1. CASE d > a
  <2>1. d - a \in 1..n /\ a + (d - a) = d /\ d % n = d
    BY <1>1
  <2> QED BY <2>1
<1>2. CASE d <= a
  <2>1. d - a + n \in 1..n /\ a + (d - a + n) = d + n
    BY <1>2
  <2>2. (d + n) % n = d
    OBVIOUS
  <2> QED BY <2>1, <2>2
<1> QED BY <1>1, <1>2

(* Whichever domain it starts after, task_pick_domain finds the thread a   *)
(* domain, and keeps the allowed CPUs of it.                               *)
LEMMA PickedIsAllowed ==
  ASSUME IInv, NEW t \in Tasks, NEW start \in 0 .. NumDoms - 1
  PROVE  PickDomain(t, start) \subseteq allowed[t] /\ PickDomain(t, start) # {}
<1> DEFINE At(i) == DomainCpus((start + i) % NumDoms) \cap allowed[t]
           S == {i \in 1..NumDoms : At(i) # {}}
<1>1. NumDoms \in Nat \ {0} /\ Domain \in [Cpus -> 0 .. NumDoms - 1]
  BY TopologyAssumption
<1>2. PickDomain(t, start) = At(Max(S))
  BY DEF PickDomain
<1>3. S # {}
  <2>1. PICK c \in allowed[t] : c \in Cpus
    BY AffinityAssumption DEF IInv, TypeOK
  <2>2. PICK i \in 1..NumDoms : (start + i) % NumDoms = Domain[c]
    BY <1>1, <2>1, RoundRobinReaches
  <2>3. c \in At(i)
    BY <2>1, <2>2 DEF DomainCpus
  <2> QED BY <2>2, <2>3
<1>4. Max(S) \in S
  <2>1. S \in SUBSET (1..NumDoms)
    OBVIOUS
  <2> HIDE DEF S
  <2> QED BY <1>1, <1>3, <2>1, MaxIsIn
<1> QED BY <1>2, <1>4

-----------------------------------------------------------------------------
(* The search for a CPU.                                                   *)

(* What a statement of rusty_select_cpu may do to a search: nothing but    *)
(* replace it by another one, or end it with a CPU chosen.                 *)
SearchGoesOn(t) ==
  /\ \E s \in Selection : SearchOk(s) /\ sel' = [sel EXCEPT ![t] = s]
  /\ target' = target

SearchEnds(t) ==
  /\ sel' = [sel EXCEPT ![t] = Null]
  /\ \E c \in active \cap allowed[t] : target' = [target EXCEPT ![t] = c]

LEMMA StartIsSearch ==
  ASSUME IInv, NEW t \in Tasks, NEW stage \in Stage, NEW by \in Cpus \cup {Null}
  PROVE  /\ Start(t, stage, by) \in Selection
         /\ SearchOk(Start(t, stage, by))
<1>1. tcpu[t] \in Cpus
  BY DEF IInv, TypeOK
<1> QED BY <1>1 DEF Start, Selection, SelPc, SearchOk

LEMMA ReturnEnds ==
  ASSUME IInv, NEW t \in Tasks, NEW cpu, Return(t, cpu)
  PROVE  SearchEnds(t)
<1>1. Accepted(t, cpu) \subseteq active \cap allowed[t]
  BY DEF Accepted
<1> QED BY <1>1 DEF Return, SearchEnds

LEMMA GotoGoesOn ==
  ASSUME IInv, NEW t \in Tasks, sel[t] # Null, NEW stage \in Stage, Goto(t, stage)
  PROVE  SearchGoesOn(t)
<1> DEFINE by == IF stage = "syncLocal" THEN sel[t].by ELSE Null
<1>1. sel \in [Tasks -> Selection \cup {Null}]
  BY DEF IInv, TypeOK
<1>2. by \in Cpus \cup {Null}
  BY <1>1 DEF Selection
<1>3. sel' = [sel EXCEPT ![t] = Start(t, stage, by)]
  BY <1>1 DEF Goto
<1> HIDE DEF by
<1>4. Start(t, stage, by) \in Selection /\ SearchOk(Start(t, stage, by))
  BY <1>2, StartIsSearch
<1> QED BY <1>3, <1>4 DEF SearchGoesOn, Goto

(* The statement after one that has found no CPU; only the last two choose *)
(* one then, the previous CPU or any of the domain.                        *)
LEMMA FailsGoesOn ==
  ASSUME IInv, NEW t \in Tasks, sel[t] # Null,
         NEW stage \in Stage \ {"hasIdle"}, Fails(t, stage)
  PROVE  SearchGoesOn(t) \/ (stage \in {"any", "last"} /\ SearchEnds(t))
<1>1. CASE \E next \in Stage : Goto(t, next)
  <2>1. PICK next \in Stage : Goto(t, next)
    BY <1>1
  <2> QED BY <2>1, GotoGoesOn
<1>2. CASE stage = "any" /\ Return(t, tcpu[t])
  BY <1>2, ReturnEnds
<1>3. CASE stage = "last" /\ \E cpu \in pmask[t] : Return(t, cpu)
  BY <1>3, ReturnEnds
<1>4. /\ "syncLocal" \in Stage /\ "hasIdle" \in Stage /\ "any" \in Stage /\ "last" \in Stage
      /\ (IF sel[t].hasIdle THEN "core" ELSE "prevCpu") \in Stage
      /\ (IF Domestic(t) THEN "prevCpu" ELSE "any") \in Stage
  BY DEF Stage
<1> QED BY <1>1, <1>2, <1>3, <1>4, Zenon DEF Fails

LEMMA TestAndClearGoesOn ==
  ASSUME IInv, NEW t \in Tasks, sel[t] # Null, sel[t].stage # "hasIdle",
         NEW cpu \in Cpus, TestAndClear(t, cpu)
  PROVE  SearchGoesOn(t)
<1> DEFINE s == [sel[t] EXCEPT !.pc = IF smt THEN "siblings" ELSE "claim", !.cpu = cpu]
<1>1. sel \in [Tasks -> Selection \cup {Null}] /\ sel[t] \in Selection
  BY DEF IInv, TypeOK
<1>2. s \in Selection /\ SearchOk(s)
  BY <1>1 DEF Selection, SelPc, SearchOk
<1>3. sel' = [sel EXCEPT ![t] = s]
  BY <1>1 DEF TestAndClear
<1> QED BY <1>2, <1>3 DEF SearchGoesOn, TestAndClear

(* A statement of the search that ends it without having claimed a CPU has *)
(* just seen that the mask offers none of the domain.                      *)
SearchStep(t) ==
  \/ SearchGoesOn(t)
  \/ /\ SearchEnds(t)
     /\ sel[t].stage = "syncLocal" \/ sel[t].pc = "claim" \/ cpuMask \cap pmask[t] = {}

LEMMA PickSearches ==
  ASSUME IInv, NEW t \in Tasks, sel[t] # Null, NEW stage \in {"core", "any", "last"},
         PickFirst(t, stage) \/ PickSecond(t, stage)
  PROVE  SearchStep(t)
<1>1. /\ sel \in [Tasks -> Selection \cup {Null}] /\ sel[t] \in Selection
      /\ pmask[t] \subseteq Cpus
  BY DEF IInv, TypeOK
<1>2. sel[t].stage = stage
  BY DEF PickFirst, PickSecond, Selecting
<1>3. CASE \E cpu \in pmask[t] : TestAndClear(t, cpu)
  BY <1>1, <1>2, <1>3, TestAndClearGoesOn DEF SearchStep
<1>4. CASE Fails(t, stage) /\ (stage = "core" \/ cpuMask \cap pmask[t] = {})
  BY <1>4, FailsGoesOn DEF SearchStep, Stage
<1>5. CASE sel' = [sel EXCEPT ![t].pc = "second"] /\ UNCHANGED target
  <2> DEFINE s == [sel[t] EXCEPT !.pc = "second"]
  <2>1. s \in Selection /\ SearchOk(s) /\ sel' = [sel EXCEPT ![t] = s]
    BY <1>1, <1>2, <1>5 DEF Selection, SelPc, SearchOk
  <2> QED BY <1>5, <2>1 DEF SearchStep, SearchGoesOn
<1> QED BY <1>3, <1>4, <1>5 DEF PickFirst, PickSecond, IdleDomestic

LEMMA SelectSearches ==
  ASSUME IInv, NEW t \in Tasks, SelectStep(t)
  PROVE  /\ sel[t] # Null
         /\ SearchStep(t)
         /\ cpuMask' \subseteq cpuMask /\ smtMask' \subseteq Cpus
         /\ UNCHANGED onlySel
<1>1. /\ sel \in [Tasks -> Selection \cup {Null}]
      /\ smtMask \subseteq Cpus /\ tcpu[t] \in Cpus
  BY DEF IInv, TypeOK
<1>2. /\ sel[t] # Null /\ sel[t] \in Selection /\ sel[t].stage \in Stage
      /\ SearchOk(sel[t])
  <2>1. sel[t] # Null
    BY DEF SelectStep, SyncLocal, HasIdle, PrevCore, PickFirst, PickSecond, Selecting,
           TestSiblings, Andnot, Store, Claim
  <2> QED BY <1>1, <2>1 DEF Selection, IInv, SearchesOk
<1>3. CASE SyncLocal(t)
  <2>1. Return(t, sel[t].by) \/ Fails(t, "syncLocal")
    BY <1>3 DEF SyncLocal
  <2>2. sel[t].stage = "syncLocal" /\ UNCHANGED <<masks, onlySel>>
    BY <1>3 DEF SyncLocal, Selecting
  <2>3. SearchStep(t)
    BY <1>2, <2>1, <2>2, ReturnEnds, FailsGoesOn DEF SearchStep, Stage
  <2> QED BY <1>1, <1>2, <2>2, <2>3 DEF masks
<1>4. CASE HasIdle(t)
  <2> DEFINE found == IdleMask # {}
             stage == IF Domestic(t) THEN "prevCore" ELSE IF found THEN "core" ELSE "any"
             s == [sel[t] EXCEPT !.hasIdle = found, !.stage = stage]
  <2>1. /\ sel' = [sel EXCEPT ![t].hasIdle = found, ![t].stage = stage]
        /\ found \in BOOLEAN /\ stage \in Stage \ {"hasIdle"}
        /\ sel[t].pc = "start"
    BY <1>4 DEF HasIdle, Selecting, Stage
  <2> HIDE DEF found, stage
  <2>2. s \in Selection /\ SearchOk(s) /\ sel' = [sel EXCEPT ![t] = s]
    BY <1>1, <1>2, <2>1 DEF Selection, SearchOk
  <2>3. SearchStep(t)
    BY <1>4, <2>2 DEF HasIdle, SearchStep, SearchGoesOn
  <2> QED BY <1>1, <1>2, <1>4, <2>3 DEF HasIdle, masks
<1>5. CASE PrevCore(t)
  <2>1. TestAndClear(t, tcpu[t]) \/ Fails(t, "prevCore")
    BY <1>5 DEF PrevCore
  <2>2. sel[t].stage = "prevCore" /\ UNCHANGED <<masks, onlySel>>
    BY <1>5 DEF PrevCore, Selecting
  <2>3. SearchStep(t)
    BY <1>1, <1>2, <2>1, <2>2, TestAndClearGoesOn, FailsGoesOn DEF SearchStep, Stage
  <2> QED BY <1>1, <1>2, <2>2, <2>3 DEF masks
<1>6. ASSUME NEW stage \in {"core", "any", "last"}, PickFirst(t, stage) \/ PickSecond(t, stage)
      PROVE  SearchStep(t) /\ UNCHANGED <<masks, onlySel>>
  BY <1>2, <1>6, PickSearches DEF PickFirst, PickSecond
<1>7. CASE TestSiblings(t)
  <2>1. PICK pc \in SelPc : sel' = [sel EXCEPT ![t].pc = pc]
    BY <1>7 DEF TestSiblings, SelPc
  <2>2. sel[t].stage # "hasIdle"
    BY <1>2, <1>7 DEF TestSiblings, SearchOk
  <2> DEFINE s == [sel[t] EXCEPT !.pc = pc]
  <2>3. s \in Selection /\ SearchOk(s) /\ sel' = [sel EXCEPT ![t] = s]
    BY <1>1, <1>2, <2>1, <2>2 DEF Selection, SearchOk
  <2>4. SearchStep(t)
    BY <1>7, <2>3 DEF TestSiblings, SearchStep, SearchGoesOn
  <2> QED BY <1>1, <1>2, <1>7, <2>4 DEF TestSiblings
<1>8. CASE Andnot(t)
  <2>1. PICK word \in SUBSET Cpus : sel' = [sel EXCEPT ![t].pc = "store", ![t].word = word]
    BY <1>1, <1>8 DEF Andnot
  <2>2. sel[t].stage # "hasIdle"
    BY <1>2, <1>8 DEF Andnot, SearchOk
  <2> DEFINE s == [sel[t] EXCEPT !.pc = "store", !.word = word]
  <2>3. s \in Selection /\ SearchOk(s) /\ sel' = [sel EXCEPT ![t] = s]
    BY <1>1, <1>2, <2>1, <2>2 DEF Selection, SelPc, SearchOk
  <2>4. SearchStep(t)
    BY <1>8, <2>3 DEF Andnot, SearchStep, SearchGoesOn
  <2> QED BY <1>1, <1>2, <1>8, <2>4 DEF Andnot, masks
<1>9. CASE Store(t)
  <2>1. sel[t].stage # "hasIdle"
    BY <1>2, <1>9 DEF Store, SearchOk
  <2> DEFINE s == [sel[t] EXCEPT !.pc = "claim", !.word = {}]
  <2>2. s \in Selection /\ SearchOk(s) /\ sel' = [sel EXCEPT ![t] = s]
    BY <1>1, <1>2, <1>9, <2>1 DEF Store, Selection, SelPc, SearchOk
  <2>3. SearchStep(t)
    BY <1>9, <2>2 DEF Store, SearchStep, SearchGoesOn
  <2>4. sel[t].word \subseteq Cpus
    BY <1>2 DEF Selection
  <2> QED BY <1>2, <1>9, <2>3, <2>4 DEF Store
<1>10. CASE Claim(t)
  <2>1. sel[t].stage # "hasIdle" /\ sel[t].pc = "claim"
    BY <1>2, <1>10 DEF Claim, SearchOk
  <2>2. Return(t, sel[t].cpu) \/ Goto(t, sel[t].stage) \/ Fails(t, sel[t].stage)
    BY <1>10 DEF Claim
  <2>3. SearchStep(t)
    BY <1>2, <2>1, <2>2, ReturnEnds, GotoGoesOn, FailsGoesOn DEF SearchStep
  <2> QED BY <1>1, <1>2, <1>10, <2>3 DEF Claim
<1> QED
  BY <1>1, <1>2, <1>3, <1>4, <1>5, <1>6, <1>7, <1>8, <1>9, <1>10 DEF SelectStep, masks

-----------------------------------------------------------------------------
(* A search begins or goes on: the threads stay where they are.            *)
LEMMA SearchIInv ==
  ASSUME IInv, NEW t \in Tasks,
         SearchGoesOn(t) \/ SearchEnds(t),
         cpuMask' \subseteq cpuMask, smtMask' \subseteq Cpus,
         st' \in [Tasks -> ThreadState], pmask' \in [Tasks -> SUBSET Cpus],
         pmask'[t] # {},
         \A u \in Tasks \ {t} : pmask'[u] = pmask[u],
         slice' \in [Tasks -> 0..Slice],
         \A u \in Tasks : st'[u] = st[u] \/ (st[u] = "TERMINATED" /\ st'[u] = "NOT_QUEUED"),
         UNCHANGED <<tcpu, rq, curr, online, active, smt, cstate, allowed, settled>>
  PROVE  IInv'
<1>1. /\ sel' \in [Tasks -> Selection \cup {Null}]
      /\ target' \in [Tasks -> Cpus \cup {Null}]
      /\ \A u \in Tasks \ {t} : sel'[u] = sel[u] /\ target'[u] = target[u]
      /\ target'[t] = target[t] \/ target'[t] \in active \cap allowed[t]
      /\ sel'[t] # Null => SearchOk(sel'[t])
  BY DEF SearchGoesOn, SearchEnds, IInv, TypeOK
<1>2. TypeOK'
  BY <1>1 DEF IInv, TypeOK
<1>3. Placed'
  <2>1. \A u \in Tasks : /\ st'[u] = "READY" <=> st[u] = "READY"
                        /\ st'[u] = "RUNNING" <=> st[u] = "RUNNING"
    OBVIOUS
  <2>2. QueuedIffReady'
    BY <2>1 DEF IInv, Placed, QueuedIffReady
  <2>3. QueuedOnce'
    BY DEF IInv, Placed, QueuedOnce
  <2>4. CurrentIffRunning'
    BY <2>1 DEF IInv, Placed, CurrentIffRunning
  <2> QED BY <2>2, <2>3, <2>4 DEF Placed
<1>4. OfferedIsIdle'
  BY DEF IInv, OfferedIsIdle
<1>5. StaysOnline'
  <2>1. active \subseteq online
    BY DEF IInv, TypeOK
  <2>2. \A u \in Tasks : st'[u] \in {"READY", "RUNNING"} => st'[u] = st[u]
    OBVIOUS
  <2> QED BY <1>1, <2>1, <2>2 DEF IInv, StaysOnline
<1>6. HasDomain'
  <2>1. \A u \in Tasks \ {t} : InClass(u)' => InClass(u)
    BY <1>1 DEF InClass
  <2> QED BY <2>1 DEF IInv, HasDomain
<1>7. SearchesOk'
  BY <1>1 DEF IInv, SearchesOk, SearchOk
<1> QED BY <1>2, <1>3, <1>4, <1>5, <1>6, <1>7 DEF IInv

LEMMA CallSearches ==
  ASSUME IInv, NEW t \in Tasks, NEW by \in Cpus \cup {Null}, NEW sync, Call(t, by, sync)
  PROVE  SearchGoesOn(t) \/ SearchEnds(t)
<1>1. CASE Return(t, tcpu[t])
  BY <1>1, ReturnEnds
<1>2. CASE UNCHANGED target /\ \E s \in {Start(t, "hasIdle", Null), Start(t, "syncPrev", by),
                                         Start(t, "syncLocal", by)} :
                                sel' = [sel EXCEPT ![t] = s]
  <2>1. \A s \in {Start(t, "hasIdle", Null), Start(t, "syncPrev", by),
                  Start(t, "syncLocal", by)} : s \in Selection /\ SearchOk(s)
    BY StartIsSearch DEF Stage
  <2> QED BY <1>2, <2>1 DEF SearchGoesOn
<1> QED BY <1>1, <1>2 DEF Call

(* new_prepare computes the cpumask of the thread, of its domains.         *)
LEMMA NewPrepareIInv ==
  ASSUME IInv, NEW t \in Tasks, NEW start \in 0 .. NumDoms - 1, NEW by \in Cpus, NEW sync,
         NewPrepare(t, start, by, sync)
  PROVE  IInv'
<1>1. PickDomain(t, start) \subseteq Cpus /\ PickDomain(t, start) # {}
  BY PickedIsAllowed, AffinityAssumption DEF IInv, TypeOK
<1>2. /\ pmask' \in [Tasks -> SUBSET Cpus] /\ slice' \in [Tasks -> 0..Slice]
      /\ pmask'[t] = PickDomain(t, start)
      /\ \A u \in Tasks \ {t} : pmask'[u] = pmask[u]
  <2>1. PICK domain \in SUBSET Cpus : domain = PickDomain(t, start)
    BY <1>1
  <2>2. pmask' = [pmask EXCEPT ![t] = domain] /\ pmask \in [Tasks -> SUBSET Cpus]
    BY <2>1 DEF NewPrepare, IInv, TypeOK
  <2>3. slice' \in [Tasks -> 0..Slice]
    BY SliceAssumption DEF NewPrepare, IInv, TypeOK
  <2> QED BY <2>1, <2>2, <2>3
<1>3. /\ st' \in [Tasks -> ThreadState]
      /\ \A u \in Tasks : st'[u] = st[u] \/ (st[u] = "TERMINATED" /\ st'[u] = "NOT_QUEUED")
  BY DEF NewPrepare, IInv, TypeOK, ThreadState
<1>4. SearchGoesOn(t) \/ SearchEnds(t)
  BY CallSearches DEF NewPrepare
<1>5. cpuMask' \subseteq cpuMask /\ smtMask' \subseteq Cpus
  BY DEF NewPrepare, masks, IInv, TypeOK
<1> QED BY <1>1, <1>2, <1>3, <1>4, <1>5, SearchIInv DEF NewPrepare

LEMMA UnblockPrepareIInv ==
  ASSUME IInv, NEW t \in Tasks, UnblockPrepare(t)
  PROVE  IInv'
<1>1. SearchGoesOn(t) \/ SearchEnds(t)
  BY CallSearches DEF UnblockPrepare
<1>2. pmask[t] # {}
  BY DEF UnblockPrepare, IInv, HasDomain, InClass
<1> QED BY <1>1, <1>2, SearchIInv DEF UnblockPrepare, threadData, affinity, masks, IInv, TypeOK

LEMMA SelectStepIInv ==
  ASSUME IInv, NEW t \in Tasks, SelectStep(t)
  PROVE  IInv'
<1>1. /\ sel[t] # Null
      /\ SearchGoesOn(t) \/ SearchEnds(t)
      /\ cpuMask' \subseteq cpuMask /\ smtMask' \subseteq Cpus
      /\ UNCHANGED onlySel
  BY SelectSearches DEF SearchStep
<1>2. pmask[t] # {}
  BY <1>1 DEF IInv, HasDomain, InClass
<1> QED BY <1>1, <1>2, SearchIInv DEF onlySel, threadData, affinity, IInv, TypeOK

-----------------------------------------------------------------------------
(* The handlers that move a thread: they send it to an online CPU it is    *)
(* allowed on, if at all.                                                  *)
TargetsKept(t) ==
  \E next \in (allowed[t] \cap online) \cup {target[t], Null} :
    target' = [target EXCEPT ![t] = next]

LEMMA MoveIInv ==
  ASSUME IInv,
         NEW t \in Tasks, NEW state \in ThreadState \cup {"READY_TICK"}, NEW cpu, NEW nextRq,
         ChangeState(t, state, cpu, nextRq),
         tcpu' \in [Tasks -> Cpus],
         \A u \in Tasks \ {t} : tcpu'[u] = tcpu[u],
         state \in {"READY", "READY_TICK"} => nextRq = tcpu'[t],
         state \notin {"READY", "READY_TICK"} => nextRq = Null,
         state = "RUNNING" => cpu = tcpu'[t] /\ curr[cpu] = Null /\ cstate[cpu] = "ACTIVE",
         state \in {"READY", "READY_TICK", "RUNNING"} => tcpu'[t] \in online,
         InClass(t),
         TargetsKept(t),
         slice' \in [Tasks -> 0..Slice],
         UNCHANGED <<online, active, smt, masks, cstate, affinity, sel, settled>>
  PROVE  IInv'
<1>1. /\ st' \in [Tasks -> ThreadState]
      /\ rq' \in [Cpus -> Seq(Tasks)]
      /\ curr' \in [Cpus -> Tasks \cup {Null}]
      /\ Placed'
  BY Places, ChangeStatePlacement
<1>0. /\ target' \in [Tasks -> Cpus \cup {Null}]
      /\ \A u \in Tasks \ {t} : target'[u] = target[u] /\ st'[u] = st[u]
      /\ target'[t] \in (allowed[t] \cap online) \cup {target[t], Null}
      /\ st'[t] = IF state = "READY_TICK" THEN "READY" ELSE state
  BY DEF TargetsKept, ChangeState, IInv, TypeOK
<1>2. TypeOK'
  BY <1>0, <1>1 DEF IInv, TypeOK, masks, affinity
<1>3. OfferedIsIdle'
  <2>1. \A c \in Cpus : curr[c] = Null /\ cstate[c] # "ACTIVE" => curr'[c] = Null
    BY DEF ChangeState, IInv, TypeOK
  <2> QED BY <2>1 DEF IInv, TypeOK, OfferedIsIdle, masks, CoreState
<1>4. StaysOnline'
  BY <1>0 DEF IInv, StaysOnline, affinity
<1>5. HasDomain'
  BY <1>0 DEF IInv, HasDomain, InClass, affinity
<1>6. SearchesOk'
  BY DEF IInv, SearchesOk, SearchOk
<1> QED BY <1>1, <1>2, <1>3, <1>4, <1>5, <1>6 DEF IInv

LEMMA PlaceIInv ==
  ASSUME IInv, NEW t \in Tasks, NEW from, Place(t, from), slice' \in [Tasks -> 0..Slice]
  PROVE  IInv'
<1>1. target[t] \in Cpus /\ target[t] \in allowed[t] \cap online
  BY DEF Place, IInv, TypeOK, StaysOnline
<1>2. /\ tcpu' \in [Tasks -> Cpus] /\ tcpu'[t] = target[t]
      /\ \A u \in Tasks \ {t} : tcpu'[u] = tcpu[u]
      /\ InClass(t) /\ TargetsKept(t)
  BY <1>1 DEF Place, IInv, TypeOK, InClass, TargetsKept
<1>3. "READY" \in ThreadState \cup {"READY_TICK"}
  BY DEF ThreadState
<1> QED BY <1>1, <1>2, <1>3, MoveIInv DEF Place

(* A thread that runs or waits is requeued on its CPU, or not at all.      *)
LEMMA LeaveIInv ==
  ASSUME IInv, NEW t \in Tasks,
         NEW state \in {"READY", "READY_TICK", "BLOCKED", "TERMINATED"}, NEW nextRq,
         ChangeState(t, state, tcpu[t], nextRq),
         nextRq = IF state \in {"READY", "READY_TICK"} THEN tcpu[t] ELSE Null,
         nextRq # Null => st[t] = "RUNNING",
         tcpu' = tcpu,
         InClass(t),
         TargetsKept(t),
         slice' \in [Tasks -> 0..Slice],
         UNCHANGED notQueues
  PROVE  IInv'
<1>1. state \in ThreadState \cup {"READY_TICK"} /\ state # "RUNNING"
  BY DEF ThreadState
<1>2. /\ tcpu' \in [Tasks -> Cpus] /\ \A u \in Tasks \ {t} : tcpu'[u] = tcpu[u]
      /\ tcpu[t] # Null
  BY NullAssumption DEF IInv, TypeOK, StaysOnline, Cpus
<1>3. state \in {"READY", "READY_TICK", "RUNNING"} => tcpu'[t] \in online
  BY <1>1, <1>2 DEF IInv, StaysOnline
<1> QED BY <1>1, <1>2, <1>3, MoveIInv DEF notQueues

LEMMA LeftIsSlice ==
  ASSUME IInv, NEW t \in Tasks, NEW delta \in 1..Slice
  PROVE  Left(t, delta) \in 0..Slice
<1>1. slice[t] \in 0..Slice /\ Slice \in Nat
  BY SliceAssumption DEF IInv, TypeOK
<1> QED BY <1>1 DEF Left

LEMMA TickIInv ==
  ASSUME IInv, NEW c \in Cpus, NEW delta \in 1..Slice, Tick(c, delta)
  PROVE  IInv'
<1> DEFINE t == curr[c]
<1>1. t \in Tasks /\ st[t] = "RUNNING"
  BY Places, CurrentIsUnique DEF Tick
<1>2. slice' \in [Tasks -> 0..Slice]
  BY <1>1, LeftIsSlice DEF Tick, IInv, TypeOK
<1>3. /\ tcpu' = tcpu /\ target' = target /\ UNCHANGED notQueues
      /\ InClass(t) /\ TargetsKept(t)
  BY <1>1 DEF Tick, IInv, TypeOK, InClass, TargetsKept
<1>4. CASE ChangeState(t, "READY_TICK", tcpu[t], tcpu[t])
  BY <1>1, <1>2, <1>3, <1>4, LeaveIInv
<1>5. CASE UNCHANGED <<st, rq, curr>>
  <2>1. TypeOK'
    BY <1>2, <1>3, <1>5 DEF IInv, TypeOK, notQueues, masks, affinity
  <2>2. Placed'
    BY <1>3, <1>5 DEF IInv, Placed, QueuedIffReady, QueuedOnce, CurrentIffRunning
  <2>3. OfferedIsIdle' /\ SearchesOk'
    BY <1>3, <1>5 DEF IInv, OfferedIsIdle, SearchesOk, SearchOk, notQueues, masks
  <2>4. StaysOnline' /\ HasDomain'
    BY <1>3, <1>5 DEF IInv, StaysOnline, HasDomain, InClass, notQueues, affinity
  <2> QED BY <2>1, <2>2, <2>3, <2>4 DEF IInv
<1> QED BY <1>4, <1>5 DEF Tick

LEMMA YieldIInv ==
  ASSUME IInv, NEW c \in Cpus, Yield(c)
  PROVE  IInv'
<1>1. curr[c] \in Tasks /\ st[curr[c]] = "RUNNING"
  BY Places, CurrentIsUnique DEF Yield
<1>2. slice' \in [Tasks -> 0..Slice] /\ InClass(curr[c]) /\ TargetsKept(curr[c])
  BY <1>1, SliceAssumption DEF Yield, IInv, TypeOK, InClass, TargetsKept
<1> QED BY <1>1, <1>2, LeaveIInv DEF Yield

LEMMA DepartIInv ==
  ASSUME IInv, NEW t \in Tasks, Block(t) \/ (\E c \in Cpus : Oust(t, c)) \/ Terminate(t)
  PROVE  IInv'
<1>1. /\ slice' \in [Tasks -> 0..Slice]
      /\ tcpu' = tcpu /\ UNCHANGED notQueues
      /\ InClass(t)
  BY DEF Block, Oust, Terminate, notQueues, threadData, affinity, IInv, TypeOK, InClass
<1>3. TargetsKept(t)
  <2>1. CASE target' = target
    BY <2>1 DEF TargetsKept, IInv, TypeOK
  <2>2. ASSUME NEW c \in Cpus, Oust(t, c) PROVE TargetsKept(t)
    BY <2>2 DEF Oust, TargetsKept, IInv, TypeOK
  <2> QED BY <2>1, <2>2 DEF Block, Terminate
<1>2. PICK state \in {"BLOCKED", "TERMINATED"} : ChangeState(t, state, tcpu[t], Null)
  BY DEF Block, Oust, Terminate
<1> QED BY <1>1, <1>2, <1>3, LeaveIInv

(* sched_setaffinity finds the thread without a CPU chosen, and leaves its *)
(* domain as it is.                                                        *)
LEMMA SetAffinityIInv ==
  ASSUME IInv, NEW t \in Tasks, NEW mask \in Affinities, SetAffinity(t, mask)
  PROVE  IInv'
<1>1. /\ UNCHANGED <<coreVars, smt, masks, cstate, pmask, slice, sel, settled>>
      /\ allowed' \in [Tasks -> Affinities]
      /\ target[t] = Null
      /\ \A u \in Tasks \ {t} : allowed'[u] = allowed[u]
  BY DEF SetAffinity, IInv, TypeOK
<1>2. TypeOK'
  BY <1>1 DEF IInv, TypeOK, coreVars, masks
<1>3. Placed' /\ OfferedIsIdle' /\ SearchesOk'
  BY <1>1 DEF IInv, Placed, QueuedIffReady, QueuedOnce, CurrentIffRunning, OfferedIsIdle,
              SearchesOk, SearchOk, coreVars, masks
<1>4. StaysOnline' /\ HasDomain'
  BY <1>1 DEF IInv, StaysOnline, HasDomain, InClass, coreVars
<1> QED BY <1>2, <1>3, <1>4 DEF IInv

(* schedule runs the head of the runqueue of a core that is not idle.      *)
LEMMA ScheduleIInv ==
  ASSUME IInv, NEW c \in Cpus, Schedule(c)
  PROVE  IInv'
<1>1. PICK t : t = NextTask(c)
  OBVIOUS
<1>2. t \in Tasks /\ st[t] = "READY" /\ tcpu[t] = c
  BY <1>1, Places, HeadIsReady DEF Schedule, NextTask
<1>3. /\ ChangeState(t, "RUNNING", c, Null) /\ curr[c] = Null /\ cstate[c] = "ACTIVE"
      /\ c \in online
  BY <1>1, <1>2 DEF Schedule
<1>4. slice' \in [Tasks -> 0..Slice]
  BY <1>1, <1>2, SliceAssumption DEF Schedule, IInv, TypeOK
<1>5. /\ tcpu' \in [Tasks -> Cpus] /\ tcpu' = tcpu
      /\ InClass(t) /\ TargetsKept(t) /\ UNCHANGED notQueues
  BY <1>2 DEF Schedule, IInv, TypeOK, StaysOnline, InClass, TargetsKept
<1>6. "RUNNING" \in ThreadState \cup {"READY_TICK"}
  BY DEF ThreadState
<1> QED BY <1>2, <1>3, <1>4, <1>5, <1>6, MoveIInv DEF notQueues

-----------------------------------------------------------------------------
(* The core events, which write the mask and the state of the core in one  *)
(* handler, under the lock of the core.                                    *)
LEMMA CoreEventIInv ==
  ASSUME IInv, NEW c \in Cpus,
         EnterIdle(c) \/ ExitIdle(c) \/ CoreExit(c) \/ CpuDead(c) \/ CoreEntry(c)
  PROVE  IInv'
<1>1. UNCHANGED notCore
  BY DEF EnterIdle, ExitIdle, CoreExit, CpuDead, CoreEntry
<1>2. /\ Placed'
      /\ SearchesOk' /\ HasDomain'
  BY <1>1 DEF IInv, Placed, QueuedIffReady, QueuedOnce, CurrentIffRunning, SearchesOk, SearchOk,
              HasDomain, InClass, notCore, threadData, affinity
<1>3. /\ smtMask' \subseteq Cpus /\ cpuMask' \subseteq Cpus
  BY DEF EnterIdle, ExitIdle, CoreExit, CpuDead, CoreEntry, SetIdle, ClearIdle, masks, IInv, TypeOK
<1>4. /\ online' \subseteq Cpus /\ active' \subseteq online'
      /\ cstate' \in [Cpus -> CoreState] /\ settled' \subseteq Cpus
  BY DEF EnterIdle, ExitIdle, CoreExit, CpuDead, CoreEntry, IInv, TypeOK, CoreState
<1>5. TypeOK'
  BY <1>1, <1>3, <1>4 DEF IInv, TypeOK, notCore, threadData, affinity
<1>6. OfferedIsIdle'
  <2> SUFFICES ASSUME ~ smt, NEW d \in cpuMask' \cap settled'
               PROVE  cstate'[d] = "IDLE" /\ curr[d] = Null
    BY <1>1 DEF OfferedIsIdle, notCore
  <2>1. d \in Cpus /\ cstate \in [Cpus -> CoreState]
    BY <1>3 DEF IInv, TypeOK
  <2>2. d \in cpuMask \cap settled => cstate[d] = "IDLE" /\ curr[d] = Null
    BY DEF IInv, OfferedIsIdle
  <2>3. CASE EnterIdle(c)
    BY <2>1, <2>2, <2>3 DEF EnterIdle, SetIdle
  <2>4. CASE ExitIdle(c) \/ CoreExit(c) \/ CoreEntry(c)
    BY <2>1, <2>2, <2>4 DEF ExitIdle, CoreExit, CoreEntry, ClearIdle
  <2>5. CASE CpuDead(c)
    BY <2>1, <2>2, <2>5 DEF CpuDead, masks
  <2> QED BY <2>3, <2>4, <2>5
<1>7. StaysOnline'
  <2>1. CASE CpuDead(c)
    <3>1. \A t \in Tasks : /\ target[t] # c
                           /\ st[t] \in {"READY", "RUNNING"} => tcpu[t] # c
      BY <2>1, NullAssumption DEF CpuDead, Drained, IInv, Placed, CurrentIffRunning
    <3> QED BY <1>1, <2>1, <3>1 DEF CpuDead, IInv, StaysOnline, notCore, threadData, affinity
  <2>2. CASE EnterIdle(c) \/ ExitIdle(c) \/ CoreExit(c) \/ CoreEntry(c)
    <3>1. online \subseteq online'
      BY <2>2 DEF EnterIdle, ExitIdle, CoreExit, CoreEntry
    <3> QED BY <1>1, <3>1 DEF IInv, StaysOnline, notCore, threadData, affinity
  <2> QED BY <2>1, <2>2
<1> QED BY <1>2, <1>5, <1>6, <1>7 DEF IInv

-----------------------------------------------------------------------------
(* Every handler preserves the invariant (one step per action).            *)
THEOREM NextIInv == IInv /\ [Next]_vars => IInv'
<1> SUFFICES ASSUME IInv, [Next]_vars PROVE IInv'
  OBVIOUS
<1>1. ASSUME NEW t \in Tasks, TaskNext(t) PROVE IInv'
  <2>1. ASSUME NEW start \in 0 .. NumDoms - 1, NEW by \in Cpus, NEW sync \in BOOLEAN,
               NewPrepare(t, start, by, sync)
        PROVE  IInv'
    BY <2>1, NewPrepareIInv
  <2>2. CASE NewPlace(t)
    <3>1. slice' \in [Tasks -> 0..Slice]
      BY <2>2, SliceAssumption DEF NewPlace, IInv, TypeOK
    <3> QED BY <2>2, <3>1, PlaceIInv DEF NewPlace
  <2>3. CASE UnblockPlace(t)
    <3>1. slice' \in [Tasks -> 0..Slice]
      BY <2>3 DEF UnblockPlace, IInv, TypeOK
    <3> QED BY <2>3, <3>1, PlaceIInv DEF UnblockPlace
  <2>4. CASE UnblockPrepare(t)
    BY <2>4, UnblockPrepareIInv
  <2>5. CASE SelectStep(t)
    BY <2>5, SelectStepIInv
  <2>6. CASE Block(t) \/ (\E c \in Cpus : Oust(t, c)) \/ Terminate(t)
    BY <2>6, DepartIInv
  <2>7. ASSUME NEW mask \in Affinities, SetAffinity(t, mask) PROVE IInv'
    BY <2>7, SetAffinityIInv
  <2> QED BY <1>1, <2>1, <2>2, <2>3, <2>4, <2>5, <2>6, <2>7 DEF TaskNext
<1>2. ASSUME NEW c \in Cpus, CpuNext(c) PROVE IInv'
  <2>1. ASSUME NEW delta \in 1..Slice, Tick(c, delta) PROVE IInv'
    BY <2>1, TickIInv
  <2>2. CASE Yield(c)
    BY <2>2, YieldIInv
  <2>3. CASE Schedule(c)
    BY <2>3, ScheduleIInv
  <2>4. CASE EnterIdle(c) \/ ExitIdle(c) \/ CoreExit(c) \/ CpuDead(c) \/ CoreEntry(c)
    BY <2>4, CoreEventIInv
  <2> QED BY <1>2, <2>1, <2>2, <2>3, <2>4 DEF CpuNext, TickOf
<1>3. CASE UNCHANGED vars
  <2> USE <1>3 DEF vars, coreVars, rustyVars, masks, threadData, affinity
  <2>1. TypeOK'
    BY DEF IInv, TypeOK
  <2>2. Placed'
    BY DEF IInv, Placed, QueuedIffReady, QueuedOnce, CurrentIffRunning
  <2>3. OfferedIsIdle' /\ SearchesOk'
    BY DEF IInv, OfferedIsIdle, SearchesOk, SearchOk
  <2>4. StaysOnline' /\ HasDomain'
    BY DEF IInv, StaysOnline, HasDomain, InClass
  <2> QED BY <2>1, <2>2, <2>3, <2>4 DEF IInv
<1> QED BY <1>1, <1>2, <1>3 DEF Next

(* The inductive invariant holds in every reachable state.                 *)
THEOREM AlwaysIInv == Spec => []IInv
BY InitIInv, NextIInv, PTL DEF Spec

(* The variables keep their types.                                         *)
THEOREM TypeCorrect == Spec => []TypeOK
<1>1. IInv => TypeOK
  BY DEF IInv
<1> QED BY <1>1, AlwaysIInv, PTL

(* Without SMT, a core that has been idle once is in the mask only while   *)
(* it is idle: enter_idle, exit_idle, hotplug and the searches write it in *)
(* any order.                                                              *)
THEOREM OfferedHolds == Spec => []OfferedIsIdle
<1>1. IInv => OfferedIsIdle
  BY DEF IInv
<1> QED BY <1>1, AlwaysIInv, PTL

(* Whatever becomes of the affinity of a thread after new_prepare has      *)
(* computed its domain, a search has CPUs to look at, and one to return.   *)
THEOREM SearchDomainHolds == Spec => []SearchHasDomain
<1>1. IInv => SearchHasDomain
  BY DEF IInv, HasDomain, InClass, SearchHasDomain
<1> QED BY <1>1, AlwaysIInv, PTL

-----------------------------------------------------------------------------
(* Affinity and hotplug.                                                   *)

(* A thread waits or runs on an online CPU only, and comes to wait on one  *)
(* that its affinity of that moment allows, though the CPU was chosen      *)
(* several handlers before.                                                *)
WaitsOnline ==
  \A t \in Tasks, c \in Cpus : Contains(rq[c], t) \/ curr[c] = t => c \in online

PlacedWhereAllowed ==
  [][\A t \in Tasks :
       st[t] \notin {"READY", "RUNNING"} /\ st'[t] = "READY"
       => tcpu'[t] \in allowed'[t] \cap online']_vars

LEMMA StepPlaces ==
  ASSUME IInv, Next, NEW t \in Tasks, st[t] \notin {"READY", "RUNNING"}, st'[t] = "READY"
  PROVE  tcpu'[t] \in allowed'[t] \cap online'
<1>0. st \in [Tasks -> ThreadState] /\ tcpu \in [Tasks -> Cpus]
  BY DEF IInv, TypeOK
<1>1. \A u, next : /\ next \in {"BLOCKED", "TERMINATED", "RUNNING", "NOT_QUEUED"} \/ u # t
                   /\ st' = [st EXCEPT ![u] = next]
                   => FALSE
  BY <1>0
<1>2. ASSUME NEW u \in Tasks, TaskNext(u) PROVE tcpu'[t] \in allowed'[t] \cap online'
  <2>1. CASE NewPlace(u) \/ UnblockPlace(u)
    <3>1. u = t
      BY <1>1, <2>1 DEF NewPlace, UnblockPlace, Place, ChangeState
    <3>2. target[t] \in allowed[t] \cap online
      BY <2>1, <3>1 DEF NewPlace, UnblockPlace, Place, IInv, StaysOnline
    <3> QED BY <1>0, <2>1, <3>1, <3>2 DEF NewPlace, UnblockPlace, Place, affinity
  <2>2. CASE SelectStep(u)
    BY <2>2, SelectSearches DEF onlySel
  <2>3. CASE UnblockPrepare(u) \/ \E mask \in Affinities : SetAffinity(u, mask)
    BY <2>3 DEF UnblockPrepare, SetAffinity, coreVars
  <2>4. CASE Block(u) \/ Terminate(u) \/ \E c \in Cpus : Oust(u, c)
    <3>1. PICK next \in {"BLOCKED", "TERMINATED"} : st' = [st EXCEPT ![u] = next]
      BY <2>4 DEF Block, Terminate, Oust, ChangeState
    <3> QED BY <1>1, <3>1
  <2>5. ASSUME NEW start \in 0 .. NumDoms - 1, NEW by \in Cpus, NEW sync \in BOOLEAN,
               NewPrepare(u, start, by, sync)
        PROVE  FALSE
    BY <1>1, <2>5 DEF NewPrepare
  <2> QED BY <1>2, <2>1, <2>2, <2>3, <2>4, <2>5 DEF TaskNext
<1>3. ASSUME NEW c \in Cpus, CpuNext(c) PROVE FALSE
  <2>1. curr[c] # t
    BY DEF IInv, Placed, CurrentIffRunning
  <2>2. CASE TickOf(c) \/ Yield(c)
    BY <1>0, <2>1, <2>2 DEF TickOf, Tick, Yield, ChangeState
  <2>3. CASE Schedule(c)
    BY <1>1, <2>3 DEF Schedule, ChangeState
  <2>4. CASE EnterIdle(c) \/ ExitIdle(c) \/ CoreExit(c) \/ CpuDead(c) \/ CoreEntry(c)
    BY <2>4 DEF EnterIdle, ExitIdle, CoreExit, CpuDead, CoreEntry, notCore
  <2> QED BY <1>3, <2>2, <2>3, <2>4 DEF CpuNext
<1> QED BY <1>2, <1>3 DEF Next

(* A thread waits or runs on an online CPU only, and is queued on one its  *)
(* affinity of that moment allows.                                         *)
THEOREM AffinityHolds == Spec => []WaitsOnline /\ PlacedWhereAllowed
<1>1. IInv => WaitsOnline
  BY DEF IInv, Placed, QueuedIffReady, CurrentIffRunning, StaysOnline, WaitsOnline
<1> DEFINE Place1 ==
      \A t \in Tasks :
        st[t] \notin {"READY", "RUNNING"} /\ st'[t] = "READY"
        => tcpu'[t] \in allowed'[t] \cap online'
<1>2. IInv /\ [Next]_vars => [Place1]_vars
  BY StepPlaces
<1> QED BY <1>1, <1>2, AlwaysIInv, PTL DEF Spec, PlacedWhereAllowed

-----------------------------------------------------------------------------
(* How a search ends.                                                      *)
LEMMA OtherSearches ==
  ASSUME IInv, NEW t \in Tasks, NEW u \in Tasks \ {t}, SearchGoesOn(u) \/ SearchEnds(u)
  PROVE  sel'[t] = sel[t]
BY DEF SearchGoesOn, SearchEnds, IInv, TypeOK

LEMMA OnlySearchEnds ==
  ASSUME IInv, Next, NEW t \in Tasks, sel[t] # Null, sel'[t] = Null
  PROVE  SelectStep(t) /\ ~ SearchGoesOn(t)
<1>1. ~ SearchGoesOn(t)
  BY SelectionAssumption DEF SearchGoesOn, IInv, TypeOK
<1>2. ASSUME sel'[t] = sel[t] PROVE FALSE
  BY <1>2
<1>3. ASSUME NEW u \in Tasks, TaskNext(u), ~ SelectStep(t) PROVE FALSE
  <2>1. CASE SelectStep(u)
    <3>1. u # t /\ (SearchGoesOn(u) \/ SearchEnds(u))
      BY <1>3, <2>1, SelectSearches DEF SearchStep
    <3> QED BY <1>2, <3>1, OtherSearches
  <2>2. ASSUME NEW start \in 0 .. NumDoms - 1, NEW by \in Cpus, NEW sync \in BOOLEAN,
               NewPrepare(u, start, by, sync)
        PROVE  FALSE
    <3>1. u # t /\ (SearchGoesOn(u) \/ SearchEnds(u))
      BY <2>2, CallSearches DEF NewPrepare
    <3> QED BY <1>2, <3>1, OtherSearches
  <2>3. CASE UnblockPrepare(u)
    <3>1. u # t /\ (SearchGoesOn(u) \/ SearchEnds(u))
      BY <2>3, CallSearches DEF UnblockPrepare
    <3> QED BY <1>2, <3>1, OtherSearches
  <2>4. CASE \/ NewPlace(u) \/ UnblockPlace(u) \/ Block(u) \/ Terminate(u)
             \/ \E c \in Cpus : Oust(u, c)
             \/ \E mask \in Affinities : SetAffinity(u, mask)
    BY <1>2, <2>4 DEF NewPlace, UnblockPlace, Place, Block, Oust, Terminate, SetAffinity, notQueues
  <2> QED BY <1>3, <2>1, <2>2, <2>3, <2>4 DEF TaskNext
<1>4. ASSUME NEW c \in Cpus, CpuNext(c) PROVE FALSE
  BY <1>2, <1>4 DEF CpuNext, TickOf, Tick, Yield, Schedule, EnterIdle, ExitIdle, CoreExit,
     CpuDead, CoreEntry, notQueues, notCore
<1> QED BY <1>1, <1>3, <1>4 DEF Next

LEMMA StepFallsBack ==
  ASSUME IInv, Next, NEW t \in Tasks, sel[t] # Null, sel'[t] = Null,
         sel[t].stage # "syncLocal", sel[t].pc # "claim"
  PROVE  cpuMask \cap pmask[t] = {}
BY OnlySearchEnds, SelectSearches DEF SearchStep

(* A search that ends at a claim has claimed the CPU it had at hand.       *)
LEMMA StepClaims ==
  ASSUME IInv, Next, NEW t \in Tasks, sel[t] # Null, sel'[t] = Null, sel[t].pc = "claim"
  PROVE  sel[t].cpu \in cpuMask
<1>1. SelectStep(t) /\ ~ SearchGoesOn(t)
  BY OnlySearchEnds
<1>2. Claim(t)
  BY <1>1 DEF SelectStep, SyncLocal, HasIdle, PrevCore, PickFirst, PickSecond, Selecting,
              TestSiblings, Andnot, Store
<1>3. sel[t].stage \in Stage \ {"hasIdle"}
  BY DEF IInv, TypeOK, Selection, SearchesOk, SearchOk
<1>4. ASSUME sel[t].cpu \notin cpuMask PROVE FALSE
  <2>1. CASE sel[t].stage \in {"core", "any", "last"}
    BY <1>1, <1>2, <1>3, <1>4, <2>1, GotoGoesOn DEF Claim
  <2>2. CASE sel[t].stage \notin {"core", "any", "last"}
    BY <1>1, <1>2, <1>3, <1>4, <2>2, FailsGoesOn DEF Claim
  <2> QED BY <2>1, <2>2
<1> QED BY <1>4

(* A thread is sent to a CPU that has not been claimed for it only when    *)
(* its domain is seen to have none to claim.                               *)
THEOREM FallsBackHolds == Spec => FallsBackWhenBooked
<1> DEFINE Booked ==
      \A t \in Tasks :
        /\ sel[t] # Null /\ sel'[t] = Null
        /\ sel[t].stage # "syncLocal" /\ sel[t].pc # "claim"
        => cpuMask \cap pmask[t] = {}
<1>1. IInv /\ [Next]_vars => [Booked]_vars
  BY StepFallsBack
<1> QED BY <1>1, AlwaysIInv, PTL DEF Spec, FallsBackWhenBooked

(* What is true of "an idle cpu we can directly dispatch the task to"      *)
(* (line 485), violated in the run rusty_busy: without SMT a CPU that a    *)
(* search claims is idle, unless it has never been idle since the module   *)
(* was loaded and is still in the mask it was put in then.                 *)
SettledIsIdle ==
  [][\A t \in Tasks :
       /\ ~ smt
       /\ sel[t] # Null /\ sel[t].pc = "claim" /\ sel'[t] = Null
       /\ sel[t].cpu \in settled
       => cstate[sel[t].cpu] = "IDLE" /\ curr[sel[t].cpu] = Null]_vars

(* A busy core is claimed only if it has not been idle since the load.     *)
THEOREM ClaimedHolds == Spec => SettledIsIdle
<1> DEFINE Claims ==
      \A t \in Tasks :
        /\ ~ smt
        /\ sel[t] # Null /\ sel[t].pc = "claim" /\ sel'[t] = Null
        /\ sel[t].cpu \in settled
        => cstate[sel[t].cpu] = "IDLE" /\ curr[sel[t].cpu] = Null
<1>1. IInv /\ [Next]_vars => [Claims]_vars
  BY StepClaims DEF IInv, OfferedIsIdle
<1> QED BY <1>1, AlwaysIInv, PTL DEF Spec, SettledIsIdle

-----------------------------------------------------------------------------
(* Rusty implements FifoLines with one line per CPU.                       *)

(* A thread that blocks, is moved or terminates leaves its CPU, its line,  *)
(* or nothing at all if it was blocked.                                    *)
LEMMA DepartRefines ==
  ASSUME IInv, NEW t \in Tasks, NEW state \in {"BLOCKED", "TERMINATED"},
         ChangeState(t, state, tcpu[t], Null)
  PROVE  [Lines!Next]_(Lines!vars)
<1> DEFINE l == tcpu[t]
           i == PositionOf(rq[l], t)
<1>1. PlacementTypes /\ Placed
  BY Places
<1>2. CASE st[t] = "RUNNING"
  <2>1. rq' = rq /\ l \in Cpus /\ curr[l] # Null /\ curr' = [curr EXCEPT ![l] = Null]
    BY <1>1, <1>2, LineUntouched, CpuFreed
  <2>2. Lines!LeaveCpu(l)
    BY <2>1 DEF Lines!LeaveCpu
  <2> QED BY <2>1, <2>2 DEF Lines!Next
<1>3. CASE st[t] = "READY"
  <2>1. /\ curr' = curr
        /\ l \in Cpus /\ i \in 1..Len(rq[l])
        /\ rq' = [rq EXCEPT ![l] = RemoveAt(@, i)]
    BY <1>1, <1>3, CpuUntouched, RemoveFromLine
  <2> HIDE DEF i
  <2>2. Lines!LeaveLine(l, i)
    BY <2>1 DEF Lines!LeaveLine, Lines!RemoveAt, RemoveAt
  <2> QED BY <2>1, <2>2 DEF Lines!Next
<1>4. CASE st[t] \notin {"RUNNING", "READY"}
  BY <1>1, <1>4, LineUntouched, CpuUntouched DEF Lines!vars
<1> QED BY <1>2, <1>3, <1>4

(* A running thread that is requeued goes to the tail of its CPU's line.   *)
LEMMA RequeueRefines ==
  ASSUME IInv, NEW c \in Cpus, curr[c] # Null, NEW state \in {"READY", "READY_TICK"},
         ChangeState(curr[c], state, tcpu[curr[c]], tcpu[curr[c]])
  PROVE  Lines!Next
<1> DEFINE t == curr[c]
<1>1. PlacementTypes /\ Placed /\ t \in Tasks /\ st[t] = "RUNNING" /\ tcpu[t] = c
  BY Places, CurrentIsUnique
<1>2. rq' = [rq EXCEPT ![c] = Append(@, t)] /\ curr' = [curr EXCEPT ![c] = Null]
  BY <1>1, AppendToLine, CpuFreed
<1>3. Lines!Requeue(c)
  BY <1>2 DEF Lines!Requeue
<1> QED BY <1>3 DEF Lines!Next

(* *_place lets a thread that is neither waiting nor served arrive.        *)
LEMMA PlaceRefines ==
  ASSUME IInv, NEW t \in Tasks, NEW from \in {"NOT_QUEUED", "BLOCKED"}, Place(t, from)
  PROVE  Lines!Next
<1> DEFINE d == target[t]
<1>1. PlacementTypes /\ Placed /\ d \in Cpus /\ st[t] \notin {"READY", "RUNNING"}
  BY Places DEF Place, IInv, TypeOK
<1>2. rq' = [rq EXCEPT ![d] = Append(@, t)] /\ curr' = curr
  BY <1>1, AppendToLine, CpuUntouched DEF Place
<1>3. ~ Lines!Waits(t) /\ ~ Lines!Served(t)
  BY <1>1 DEF Lines!Waits, Lines!Served, Lines!Contains, Contains, Placed, QueuedIffReady, CurrentIffRunning
<1>4. Lines!Arrive(t, d)
  BY <1>2, <1>3 DEF Lines!Arrive
<1> QED BY <1>1, <1>4 DEF Lines!Next

(* schedule serves the head of the line of its CPU.                        *)
LEMMA ScheduleRefines ==
  ASSUME IInv, NEW c \in Cpus, Schedule(c)
  PROVE  Lines!Next
<1>1. PICK t : t = NextTask(c)
  OBVIOUS
<1>2. PlacementTypes /\ Placed /\ t = FirstTask(rq[c]) /\ t # Null /\ tcpu[t] = c
  BY <1>1, Places, HeadIsReady DEF Schedule, NextTask
<1>3. ChangeState(t, "RUNNING", c, Null) /\ curr[c] = Null
  BY <1>1, <1>2 DEF Schedule
<1>4. Lines!Serve(c)
  BY <1>2, <1>3, ServeHead DEF Lines!Serve
<1> QED BY <1>4 DEF Lines!Next

(* Every handler is a step of FifoLines or a stutter.                      *)
THEOREM StepRefines == IInv /\ [Next]_vars => [Lines!Next]_(Lines!vars)
<1> SUFFICES ASSUME IInv, [Next]_vars PROVE [Lines!Next]_(Lines!vars)
  OBVIOUS
<1>1. ASSUME NEW t \in Tasks, TaskNext(t) PROVE [Lines!Next]_(Lines!vars)
  <2>1. CASE \/ \E start \in 0 .. NumDoms - 1, by \in Cpus, sync \in BOOLEAN :
                 NewPrepare(t, start, by, sync)
             \/ UnblockPrepare(t)
    BY <2>1 DEF NewPrepare, UnblockPrepare, Lines!vars
  <2>2. CASE NewPlace(t) \/ UnblockPlace(t)
    BY <2>2, PlaceRefines DEF NewPlace, UnblockPlace
  <2>3. CASE SelectStep(t)
    BY <2>3, SelectSearches DEF onlySel, Lines!vars
  <2>4. CASE Block(t) \/ \E c \in Cpus : Oust(t, c)
    <3>1. ChangeState(t, "BLOCKED", tcpu[t], Null)
      BY <2>4 DEF Block, Oust
    <3> QED BY <3>1, DepartRefines
  <2>5. CASE Terminate(t)
    <3>1. ChangeState(t, "TERMINATED", tcpu[t], Null)
      BY <2>5 DEF Terminate
    <3> QED BY <3>1, DepartRefines
  <2>6. CASE \E mask \in Affinities : SetAffinity(t, mask)
    BY <2>6 DEF SetAffinity, coreVars, Lines!vars
  <2> QED BY <1>1, <2>1, <2>2, <2>3, <2>4, <2>5, <2>6 DEF TaskNext
<1>2. ASSUME NEW c \in Cpus, CpuNext(c) PROVE [Lines!Next]_(Lines!vars)
  <2>1. ASSUME NEW delta \in 1..Slice, Tick(c, delta) PROVE [Lines!Next]_(Lines!vars)
    <3>1. CASE UNCHANGED <<st, rq, curr>>
      BY <3>1 DEF Lines!vars
    <3>2. CASE ChangeState(curr[c], "READY_TICK", tcpu[curr[c]], tcpu[curr[c]])
      BY <2>1, <3>2, RequeueRefines DEF Tick
    <3> QED BY <2>1, <3>1, <3>2 DEF Tick
  <2>2. CASE Yield(c)
    BY <2>2, RequeueRefines DEF Yield
  <2>3. CASE Schedule(c)
    BY <2>3, ScheduleRefines
  <2>4. CASE EnterIdle(c) \/ ExitIdle(c) \/ CoreExit(c) \/ CpuDead(c) \/ CoreEntry(c)
    BY <2>4 DEF EnterIdle, ExitIdle, CoreExit, CpuDead, CoreEntry, notCore, Lines!vars
  <2> QED BY <1>2, <2>1, <2>2, <2>3, <2>4 DEF CpuNext, TickOf
<1>3. CASE UNCHANGED vars
  BY <1>3 DEF vars, coreVars, Lines!vars
<1> QED BY <1>1, <1>2, <1>3 DEF Next

(* The policy serves the runqueue of each CPU first-in first-out.          *)
THEOREM ImplementsFifoLines == Spec => ServesInOrder
<1>1. Init => Lines!Init
  BY DEF Init, CoreInit, Lines!Init
<1> QED BY <1>1, StepRefines, AlwaysIInv, PTL DEF Spec, ServesInOrder, Lines!Spec

(* A thread that waits is never overtaken: nobody gets before it in the    *)
(* runqueue of its CPU, nor is elected from elsewhere.                     *)
THEOREM ServedInTurn == Spec => [][InTurn(Cpus, Tasks)]_vars
<1>1. ASSUME IInv, [Next]_vars PROVE InTurn(Cpus, Tasks)
  <2>1. [CpuLines!Next]_(CpuLines!vars)
    BY <1>1, StepRefines DEF Lines!Next, Lines!vars, Lines!Arrive, Lines!Waits, Lines!Served,
         Lines!Contains, Lines!Serve, Lines!Requeue, Lines!LeaveCpu, Lines!LeaveLine,
         Lines!RemoveAt, CpuLines!Next, CpuLines!vars, CpuLines!Arrive, CpuLines!Waits,
         CpuLines!Served, CpuLines!Contains, CpuLines!Serve, CpuLines!Requeue,
         CpuLines!LeaveCpu, CpuLines!LeaveLine, CpuLines!RemoveAt
  <2> QED BY <1>1, <2>1, Places, LinesInTurn
<1> QED BY <1>1, AlwaysIInv, PTL DEF Spec

-----------------------------------------------------------------------------
(* What the run rusty_smt shows, of every topology.                        *)

(* With SMT nothing puts a core back into the mask that                    *)
(* test_and_clear_cpu_idle answers from: each core is found idle by one    *)
(* search at most for as long as the module is loaded, since enter_idle    *)
(* (line 298) writes the other mask.                                       *)
ClaimedForGood == [][smt => smt' /\ cpuMask' \subseteq cpuMask]_vars

(* Searches only take cores out of it, and with SMT the core events do not *)
(* write it at all.                                                        *)
THEOREM ClaimedForGoodHolds == Spec => ClaimedForGood
<1>1. ASSUME IInv, Next, smt PROVE smt' /\ cpuMask' \subseteq cpuMask
  <2>1. ASSUME NEW t \in Tasks, TaskNext(t) PROVE smt' /\ cpuMask' \subseteq cpuMask
    <3>1. CASE SelectStep(t)
      BY <1>1, <3>1, SelectSearches DEF onlySel
    <3>2. CASE ~ SelectStep(t)
      BY <1>1, <2>1, <3>2 DEF TaskNext, NewPrepare, NewPlace, UnblockPrepare, UnblockPlace,
                              Place, Block, Oust, Terminate, SetAffinity, notQueues, masks
    <3> QED BY <3>1, <3>2
  <2>2. ASSUME NEW c \in Cpus, CpuNext(c) PROVE smt' /\ cpuMask' \subseteq cpuMask
    <3>1. CASE TickOf(c) \/ Yield(c) \/ Schedule(c) \/ CpuDead(c)
      BY <1>1, <3>1 DEF TickOf, Tick, Yield, Schedule, CpuDead, notQueues, notCore, masks
    <3>2. CASE EnterIdle(c) \/ ExitIdle(c) \/ CoreExit(c) \/ CoreEntry(c)
      BY <1>1, <3>2 DEF EnterIdle, ExitIdle, CoreExit, CoreEntry, SetIdle, ClearIdle, notCore
    <3> QED BY <2>2, <3>1, <3>2 DEF CpuNext
  <2> QED BY <1>1, <2>1, <2>2 DEF Next
<1>2. IInv /\ [Next]_vars => [smt => smt' /\ cpuMask' \subseteq cpuMask]_vars
  BY <1>1
<1> QED BY <1>2, AlwaysIInv, PTL DEF Spec, ClaimedForGood
=============================================================================
