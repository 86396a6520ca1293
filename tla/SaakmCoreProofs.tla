--------------------------- MODULE SaakmCoreProofs -------------------------
(***************************************************************************)
(* Lemmas about the runqueues of SaakmCore, for the proofs of the          *)
(* policies.  They reduce a runqueue to the threads it contains and the    *)
(* absence of duplicates.                                                  *)
(***************************************************************************)
EXTENDS SaakmCore, TLAPS, SequenceTheorems

NoDuplicate(q) == \A i, j \in 1..Len(q) : q[i] = q[j] => i = j

(* Taking the i-th element out of a sequence shifts those behind it.       *)
LEMMA RemoveAtFacts ==
  ASSUME NEW S, NEW q \in Seq(S), NEW i \in 1..Len(q)
  PROVE  /\ RemoveAt(q, i) \in Seq(S)
         /\ Len(RemoveAt(q, i)) = Len(q) - 1
         /\ \A j \in 1..(i - 1) : RemoveAt(q, i)[j] = q[j]
         /\ \A j \in i..(Len(q) - 1) : RemoveAt(q, i)[j] = q[j + 1]
<1> DEFINE a == SubSeq(q, 1, i - 1)
           b == SubSeq(q, i + 1, Len(q))
<1>1. a \in Seq(S) /\ Len(a) = i - 1 /\ \A j \in 1..(i - 1) : a[j] = q[j]
  OBVIOUS
<1>2. b \in Seq(S) /\ Len(b) = Len(q) - i /\ \A j \in 1..(Len(q) - i) : b[j] = q[i + j]
  OBVIOUS
<1>3. RemoveAt(q, i) = a \o b
  BY DEF RemoveAt
<1> HIDE DEF a, b
<1>4. a \o b \in Seq(S) /\ Len(a \o b) = Len(q) - 1
  <2>1. a \o b \in Seq(S)
    BY <1>1, <1>2
  <2>2. Len(a \o b) = Len(a) + Len(b)
    BY <1>1, <1>2, ConcatProperties
  <2>3. (i - 1) + (Len(q) - i) = Len(q) - 1
    OBVIOUS
  <2> QED BY <1>1, <1>2, <2>1, <2>2, <2>3
<1>5. \A j \in 1..(i - 1) : (a \o b)[j] = q[j]
  BY <1>1, <1>2
<1>6. \A j \in i..(Len(q) - 1) : (a \o b)[j] = q[j + 1]
  <2> TAKE j \in i..(Len(q) - 1)
  <2>1. (a \o b)[j] = b[j - (i - 1)] /\ j - (i - 1) \in 1..(Len(q) - i)
    BY <1>1, <1>2
  <2> QED BY <2>1, <1>2
<1> QED BY <1>3, <1>4, <1>5, <1>6

(* Appending adds one member.                                              *)
LEMMA AppendFacts ==
  ASSUME NEW S, NEW q \in Seq(S), NEW t \in S
  PROVE  /\ Append(q, t) \in Seq(S)
         /\ \A x : Contains(Append(q, t), x) <=> Contains(q, x) \/ x = t
         /\ NoDuplicate(q) /\ ~ Contains(q, t) => NoDuplicate(Append(q, t))
<1> DEFINE r == Append(q, t)
<1>1. r \in Seq(S) /\ Len(r) = Len(q) + 1 /\ r[Len(q) + 1] = t
  OBVIOUS
<1>2. \A i \in 1..Len(q) : r[i] = q[i]
  OBVIOUS
<1> HIDE DEF r
<1>3. \A x : Contains(r, x) <=> Contains(q, x) \/ x = t
  BY <1>1, <1>2 DEF Contains
<1>4. NoDuplicate(q) /\ ~ Contains(q, t) => NoDuplicate(r)
  BY <1>1, <1>2 DEF Contains, NoDuplicate
<1> QED BY <1>1, <1>3, <1>4 DEF r

(* Without(q, t) takes exactly t out of a queue without duplicates.        *)
LEMMA WithoutFacts ==
  ASSUME NEW S, NEW q \in Seq(S), NEW t, NoDuplicate(q)
  PROVE  /\ Without(q, t) \in Seq(S)
         /\ \A x : Contains(Without(q, t), x) <=> Contains(q, x) /\ x # t
         /\ NoDuplicate(Without(q, t))
<1>1. CASE ~ Contains(q, t)
  BY <1>1 DEF Without, Contains
<1>2. CASE Contains(q, t)
  <2> DEFINE i == PositionOf(q, t)
             r == RemoveAt(q, i)
  <2>1. i \in 1..Len(q) /\ q[i] = t
    BY <1>2 DEF Contains, PositionOf
  <2>2. Without(q, t) = r
    BY <1>2 DEF Without
  <2> HIDE DEF i
  <2>3. /\ r \in Seq(S)
        /\ Len(r) = Len(q) - 1
        /\ \A j \in 1..(i - 1) : r[j] = q[j]
        /\ \A j \in i..(Len(q) - 1) : r[j] = q[j + 1]
    BY <2>1, RemoveAtFacts
  <2> HIDE DEF r
  <2>4. NoDuplicate(r)
    BY <2>1, <2>3 DEF NoDuplicate
  <2>5. ASSUME NEW x, Contains(r, x) PROVE Contains(q, x) /\ x # t
    BY <2>1, <2>3, <2>5 DEF NoDuplicate, Contains
  <2>6. ASSUME NEW x, Contains(q, x), x # t PROVE Contains(r, x)
    <3>1. PICK j \in 1..Len(q) : q[j] = x
      BY <2>6 DEF Contains
    <3>2. CASE j < i
      BY <2>1, <2>3, <3>1, <3>2 DEF Contains
    <3>3. CASE j > i
      <4>1. j - 1 \in 1..Len(r) /\ r[j - 1] = x
        BY <2>1, <2>3, <3>1, <3>3
      <4> QED BY <4>1 DEF Contains
    <3> QED BY <2>1, <2>6, <3>1, <3>2, <3>3
  <2> QED BY <2>2, <2>3, <2>4, <2>5, <2>6
<1> QED BY <1>1, <1>2

(* change_state moves t, and only t: afterwards t is in next_rq and in no  *)
(* other runqueue.                                                         *)
LEMMA ChangeStateQueues ==
  ASSUME NEW Q, rq \in [Q -> Seq(Tasks)],
         \A q \in Q : NoDuplicate(rq[q]),
         NEW t \in Tasks, NEW state, NEW cpu, NEW nextRq,
         ChangeState(t, state, cpu, nextRq)
  PROVE  /\ rq' \in [Q -> Seq(Tasks)]
         /\ \A q \in Q : NoDuplicate(rq'[q])
         /\ \A q \in Q : \A x : Contains(rq'[q], x) <=>
              \/ x # t /\ Contains(rq[q], x)
              \/ x = t /\ q = nextRq
<1> DEFINE w(q) == Without(rq[q], t)
<1>1. rq' = [q \in Q |-> IF q = nextRq THEN Append(w(q), t) ELSE w(q)]
  BY DEF ChangeState
<1>2. \A q \in Q : /\ w(q) \in Seq(Tasks)
                   /\ \A x : Contains(w(q), x) <=> Contains(rq[q], x) /\ x # t
                   /\ NoDuplicate(w(q))
  BY WithoutFacts
<1> HIDE DEF w
<1>3. ASSUME NEW q \in Q, q = nextRq
      PROVE  /\ rq'[q] \in Seq(Tasks)
             /\ NoDuplicate(rq'[q])
             /\ \A x : Contains(rq'[q], x) <=> Contains(w(q), x) \/ x = t
  <2>1. rq'[q] = Append(w(q), t)
    BY <1>1, <1>3
  <2>2. w(q) \in Seq(Tasks) /\ NoDuplicate(w(q)) /\ ~ Contains(w(q), t)
    BY <1>2
  <2> QED BY <2>1, <2>2, AppendFacts
<1>4. ASSUME NEW q \in Q, q # nextRq
      PROVE  rq'[q] = w(q)
  BY <1>1, <1>4
<1>5. ASSUME NEW q \in Q
      PROVE  rq'[q] \in Seq(Tasks) /\ NoDuplicate(rq'[q])
  BY <1>2, <1>3, <1>4
<1>6. rq' \in [Q -> Seq(Tasks)]
  BY <1>1, <1>5
<1>7. ASSUME NEW q \in Q, NEW x
      PROVE  Contains(rq'[q], x) <=>
              \/ x # t /\ Contains(rq[q], x)
              \/ x = t /\ q = nextRq
  BY <1>2, <1>3, <1>4
<1> QED BY <1>5, <1>6, <1>7

(* A runqueue t is not in: unchanged, or t is appended to it.              *)
LEMMA ChangeStateOtherQueue ==
  ASSUME NEW Q, rq \in [Q -> Seq(Tasks)], NEW q \in Q,
         NEW t \in Tasks, NEW state, NEW cpu, NEW nextRq,
         ChangeState(t, state, cpu, nextRq),
         ~ Contains(rq[q], t)
  PROVE  rq'[q] = IF q = nextRq THEN Append(rq[q], t) ELSE rq[q]
BY DEF ChangeState, Without

-----------------------------------------------------------------------------
(* The types of what the placement of the threads is about.                *)
PlacementTypes ==
  /\ st \in [Tasks -> ThreadState]
  /\ tcpu \in [Tasks -> Cpus]
  /\ rq \in [Cpus -> Seq(Tasks)]
  /\ curr \in [Cpus -> Tasks \cup {Null}]

(* A change_state that runs a thread on its own, free, CPU when it becomes *)
(* RUNNING keeps the threads that run and the currents of the CPUs         *)
(* together, whatever the runqueues are.                                   *)
LEMMA ChangeStateCurrent ==
  ASSUME NEW S, st \in [Tasks -> S], "READY" \in S, tcpu \in [Tasks -> Cpus],
         curr \in [Cpus -> Tasks \cup {Null}], CurrentIffRunning,
         NEW t \in Tasks, NEW state \in S \cup {"READY_TICK"}, NEW cpu, NEW nextRq,
         ChangeState(t, state, cpu, nextRq),
         tcpu' \in [Tasks -> Cpus],
         \A u \in Tasks \ {t} : tcpu'[u] = tcpu[u],
         state = "RUNNING" => cpu = tcpu'[t] /\ curr[cpu] = Null
  PROVE  /\ st' \in [Tasks -> S]
         /\ st' = [st EXCEPT ![t] = IF state = "READY_TICK" THEN "READY" ELSE state]
         /\ curr' \in [Cpus -> Tasks \cup {Null}]
         /\ CurrentIffRunning'
<1> DEFINE new == IF state = "READY_TICK" THEN "READY" ELSE state
<1>1. /\ new \in S
      /\ st' = [st EXCEPT ![t] = new]
  BY DEF ChangeState
<1>2. /\ curr' \in [Cpus -> Tasks \cup {Null}]
      /\ \A c \in Cpus : curr'[c] = IF state = "RUNNING" /\ c = cpu THEN t
                                    ELSE IF curr[c] = t THEN Null ELSE curr[c]
  BY DEF ChangeState
<1>3. CurrentIffRunning'
  <2> SUFFICES ASSUME NEW c \in Cpus, NEW u \in Tasks
               PROVE  curr'[c] = u <=> st'[u] = "RUNNING" /\ tcpu'[u] = c
    BY DEF CurrentIffRunning
  <2>0. u # Null
    BY NullAssumption
  <2>1. CASE u = t
    BY <1>1, <1>2, <2>0, <2>1
  <2>2. CASE u # t
    BY <1>1, <1>2, <2>0, <2>2 DEF CurrentIffRunning
  <2> QED BY <2>1, <2>2
<1> QED BY <1>1, <1>2, <1>3

(* A change_state that enqueues a thread on its own CPU when it becomes    *)
(* READY, on no runqueue otherwise, and runs it on its own, free, CPU when *)
(* it becomes RUNNING, keeps every thread where its state says.            *)
LEMMA ChangeStatePlacement ==
  ASSUME PlacementTypes, Placed,
         NEW t \in Tasks, NEW state \in ThreadState \cup {"READY_TICK"}, NEW cpu, NEW nextRq,
         ChangeState(t, state, cpu, nextRq),
         tcpu' \in [Tasks -> Cpus],
         \A u \in Tasks \ {t} : tcpu'[u] = tcpu[u],
         state \in {"READY", "READY_TICK"} => nextRq = tcpu'[t],
         state \notin {"READY", "READY_TICK"} => nextRq = Null,
         state = "RUNNING" => cpu = tcpu'[t] /\ curr[cpu] = Null
  PROVE  /\ st' \in [Tasks -> ThreadState]
         /\ rq' \in [Cpus -> Seq(Tasks)]
         /\ curr' \in [Cpus -> Tasks \cup {Null}]
         /\ Placed'
<1>1. /\ rq' \in [Cpus -> Seq(Tasks)]
      /\ \A c \in Cpus : NoDuplicate(rq'[c])
      /\ \A c \in Cpus : \A x : Contains(rq'[c], x) <=>
              \/ x # t /\ Contains(rq[c], x)
              \/ x = t /\ c = nextRq
  BY ChangeStateQueues DEF PlacementTypes, Placed, QueuedOnce, NoDuplicate
<1>2. /\ st' \in [Tasks -> ThreadState]
      /\ st' = [st EXCEPT ![t] = IF state = "READY_TICK" THEN "READY" ELSE state]
      /\ curr' \in [Cpus -> Tasks \cup {Null}]
      /\ CurrentIffRunning'
  <2>1. "READY" \in ThreadState
    BY DEF ThreadState
  <2> QED BY <2>1, ChangeStateCurrent DEF PlacementTypes, Placed
<1>3. QueuedIffReady'
  <2> SUFFICES ASSUME NEW c \in Cpus, NEW u \in Tasks
               PROVE  Contains(rq'[c], u) <=> st'[u] = "READY" /\ tcpu'[u] = c
    BY DEF QueuedIffReady
  <2>1. CASE u = t
    <3>1. CASE state \in {"READY", "READY_TICK"}
      BY <1>1, <1>2, <2>1, <3>1 DEF PlacementTypes
    <3>2. CASE state \notin {"READY", "READY_TICK"}
      <4>1. c # Null
        BY NullAssumption DEF Cpus
      <4> QED BY <1>1, <1>2, <2>1, <3>2, <4>1 DEF PlacementTypes
    <3> QED BY <3>1, <3>2
  <2>2. CASE u # t
    BY <1>1, <1>2, <2>2 DEF PlacementTypes, Placed, QueuedIffReady
  <2> QED BY <2>1, <2>2
<1>4. QueuedOnce'
  BY <1>1 DEF QueuedOnce, NoDuplicate
<1> QED BY <1>1, <1>2, <1>3, <1>4 DEF Placed

(* A thread that is current of a CPU is current of no other one.           *)
LEMMA CurrentIsUnique ==
  ASSUME PlacementTypes, Placed, NEW c \in Cpus, curr[c] # Null
  PROVE  /\ curr[c] \in Tasks
         /\ st[curr[c]] = "RUNNING" /\ tcpu[curr[c]] = c
         /\ \A d \in Cpus : curr[d] = curr[c] => d = c
BY DEF PlacementTypes, Placed, CurrentIffRunning

(* An empty runqueue contains nothing, and conversely.                     *)
LEMMA EmptyIff ==
  ASSUME NEW q \in Seq(Tasks)
  PROVE  q = <<>> <=> \A t \in Tasks : ~ Contains(q, t)
<1>1. q = <<>> => \A t \in Tasks : ~ Contains(q, t)
  BY DEF Contains
<1>2. ASSUME q # <<>> PROVE \E t \in Tasks : Contains(q, t)
  <2>1. 1 \in 1..Len(q) /\ q[1] \in Tasks
    BY <1>2
  <2> QED BY <2>1 DEF Contains
<1> QED BY <1>1, <1>2

(* The head of the runqueue of c is a READY thread of c, so running it on  *)
(* task_cpu is running it on c.                                            *)
LEMMA HeadIsReady ==
  ASSUME PlacementTypes, Placed, NEW c \in Cpus, FirstTask(rq[c]) # Null
  PROVE  /\ rq[c] # <<>>
         /\ FirstTask(rq[c]) \in Tasks
         /\ st[FirstTask(rq[c])] = "READY" /\ tcpu[FirstTask(rq[c])] = c
         /\ \A d \in Cpus : curr[d] # FirstTask(rq[c])
<1>1. rq[c] \in Seq(Tasks) /\ rq[c] # <<>> /\ FirstTask(rq[c]) = rq[c][1]
  BY DEF PlacementTypes, FirstTask
<1>2. 1 \in 1..Len(rq[c]) /\ rq[c][1] \in Tasks
  BY <1>1
<1>3. Contains(rq[c], rq[c][1])
  BY <1>2 DEF Contains
<1> QED BY <1>1, <1>2, <1>3 DEF Placed, QueuedIffReady, CurrentIffRunning

-----------------------------------------------------------------------------
(* Turns: what first-in first-out means to a thread that waits.            *)

(* In the line q, u is before t.                                           *)
Before(q, u, t) == \E i, j \in 1..Len(q) : i < j /\ q[i] = u /\ q[j] = t

(* A step never puts another thread before one that waits already, and a   *)
(* CPU that gets another thread gets the first one of a line.              *)
InTurn(lines, threads) ==
  /\ \A l \in lines, t \in threads :
       Contains(rq[l], t) => \A u : Before(rq'[l], u, t) => Before(rq[l], u, t)
  /\ \A c \in Cpus :
       curr'[c] \in {curr[c], Null} \/ \E l \in lines : rq[l] # <<>> /\ curr'[c] = Head(rq[l])

(* The head of a line, a thread in its middle, or the addition of another  *)
(* thread at its tail: none of these puts anybody before t.                *)
LEMMA TurnKept ==
  ASSUME NEW q \in Seq(Tasks), NEW r, NEW t,
         \/ r = q
         \/ q # <<>> /\ r = Tail(q)
         \/ \E i \in 1..Len(q) : r = RemoveAt(q, i)
         \/ \E x \in Tasks \ {t} : r = Append(q, x)
  PROVE  \A u : Before(r, u, t) => Before(q, u, t)
<1> SUFFICES ASSUME NEW u, NEW i \in 1..Len(r), NEW j \in 1..Len(r),
                    i < j, r[i] = u, r[j] = t
             PROVE  \E k, l \in 1..Len(q) : k < l /\ q[k] = u /\ q[l] = t
  BY DEF Before
<1>1. CASE r = q
  BY <1>1
<1>2. CASE q # <<>> /\ r = Tail(q)
  <2>1. Len(r) = Len(q) - 1 /\ \A k \in 1..Len(r) : r[k] = q[k + 1]
    BY <1>2
  <2>2. i + 1 \in 1..Len(q) /\ j + 1 \in 1..Len(q) /\ i + 1 < j + 1
    BY <2>1
  <2> QED BY <2>1, <2>2
<1>3. ASSUME NEW p \in 1..Len(q), r = RemoveAt(q, p)
      PROVE  \E k, l \in 1..Len(q) : k < l /\ q[k] = u /\ q[l] = t
  <2>1. /\ Len(r) = Len(q) - 1
        /\ \A k \in 1..(p - 1) : r[k] = q[k]
        /\ \A k \in p..(Len(q) - 1) : r[k] = q[k + 1]
    BY <1>3, RemoveAtFacts
  <2> DEFINE at(k) == IF k < p THEN k ELSE k + 1
  <2>2. \A k \in 1..Len(r) : at(k) \in 1..Len(q) /\ q[at(k)] = r[k]
    BY <2>1
  <2>3. at(i) < at(j)
    BY <2>1
  <2> QED BY <2>2, <2>3
<1>4. ASSUME NEW x \in Tasks, x # t, r = Append(q, x)
      PROVE  \E k, l \in 1..Len(q) : k < l /\ q[k] = u /\ q[l] = t
  <2>1. /\ Len(r) = Len(q) + 1 /\ r[Len(q) + 1] = x
        /\ \A k \in 1..Len(q) : r[k] = q[k]
    BY <1>4
  <2>2. i \in 1..Len(q) /\ j \in 1..Len(q)
    BY <1>4, <2>1
  <2> QED BY <2>1, <2>2
<1> QED BY <1>1, <1>2, <1>3, <1>4

(* A policy with one runqueue for each CPU, as a set of lines.             *)
CpuLines == INSTANCE FifoLines WITH
  Lines <- Cpus, LineOf <- [c \in Cpus |-> c], line <- rq, serving <- curr

(* Whatever serves lines first-in first-out serves threads in turn, if a   *)
(* thread that runs is in no runqueue.                                     *)
LEMMA LinesInTurn ==
  ASSUME PlacementTypes, Placed, [CpuLines!Next]_(CpuLines!vars)
  PROVE  InTurn(Cpus, Tasks)
<1>0. /\ rq \in [Cpus -> Seq(Tasks)] /\ curr \in [Cpus -> Tasks \cup {Null}]
      /\ \A c \in Cpus, l \in Cpus, t \in Tasks :
           curr[c] # Null /\ Contains(rq[l], t) => t # curr[c]
  BY DEF PlacementTypes, Placed, QueuedIffReady, CurrentIffRunning
<1>1. CASE UNCHANGED CpuLines!vars
  BY <1>1, <1>0 DEF InTurn, CpuLines!vars
<1>2. ASSUME NEW t \in Tasks, NEW l \in Cpus, CpuLines!Arrive(t, l) PROVE InTurn(Cpus, Tasks)
  <2>1. ~ Contains(rq[l], t)
    BY <1>2 DEF CpuLines!Arrive, CpuLines!Waits, CpuLines!Contains, Contains
  <2> QED BY <1>0, <1>2, <2>1, TurnKept DEF InTurn, CpuLines!Arrive
<1>3. ASSUME NEW c \in Cpus, CpuLines!Serve(c) PROVE InTurn(Cpus, Tasks)
  BY <1>0, <1>3, TurnKept DEF InTurn, CpuLines!Serve
<1>4. ASSUME NEW c \in Cpus, CpuLines!Requeue(c) PROVE InTurn(Cpus, Tasks)
  <2>1. /\ curr[c] \in Tasks /\ curr[c] # Null
        /\ \A l \in Cpus : rq'[l] = IF l = c THEN Append(rq[c], curr[c]) ELSE rq[l]
        /\ \A d \in Cpus : curr'[d] \in {curr[d], Null}
    BY <1>0, <1>4 DEF CpuLines!Requeue
  <2>2. ASSUME NEW l \in Cpus, NEW t \in Tasks, Contains(rq[l], t)
        PROVE  \A u : Before(rq'[l], u, t) => Before(rq[l], u, t)
    BY <1>0, <2>1, <2>2, TurnKept
  <2> QED BY <2>1, <2>2 DEF InTurn
<1>5. ASSUME NEW c \in Cpus, CpuLines!LeaveCpu(c) PROVE InTurn(Cpus, Tasks)
  BY <1>0, <1>5, TurnKept DEF InTurn, CpuLines!LeaveCpu
<1>6. ASSUME NEW l \in Cpus, NEW i \in 1..Len(rq[l]), CpuLines!LeaveLine(l, i)
      PROVE  InTurn(Cpus, Tasks)
  BY <1>0, <1>6, TurnKept DEF InTurn, CpuLines!LeaveLine, CpuLines!RemoveAt, RemoveAt
<1> QED BY <1>1, <1>2, <1>3, <1>4, <1>5, <1>6 DEF CpuLines!Next

-----------------------------------------------------------------------------
(* What change_state does to the lines and to the CPUs they are served by. *)

(* Enqueueing a thread that was not queued appends it to one line.         *)
LEMMA AppendToLine ==
  ASSUME PlacementTypes, Placed, NEW t \in Tasks, NEW state, NEW cpu, NEW l \in Cpus,
         st[t] # "READY",
         ChangeState(t, state, cpu, l)
  PROVE  rq' = [rq EXCEPT ![l] = Append(@, t)]
<1>1. \A c \in Cpus : Without(rq[c], t) = rq[c]
  BY DEF Placed, QueuedIffReady, Without
<1>2. rq' = [c \in Cpus |-> IF c = l THEN Append(rq[c], t) ELSE rq[c]]
  BY <1>1 DEF ChangeState, PlacementTypes
<1> QED BY <1>2 DEF PlacementTypes

(* A thread that was not queued and is not enqueued leaves lines alone.    *)
LEMMA LineUntouched ==
  ASSUME PlacementTypes, Placed, NEW t \in Tasks, NEW state, NEW cpu,
         st[t] # "READY",
         ChangeState(t, state, cpu, Null)
  PROVE  rq' = rq
<1>1. \A c \in Cpus : Without(rq[c], t) = rq[c] /\ c # Null
  BY NullAssumption DEF Placed, QueuedIffReady, Without, Cpus
<1>2. rq' = [c \in Cpus |-> rq[c]]
  BY <1>1 DEF ChangeState, PlacementTypes
<1> QED BY <1>2 DEF PlacementTypes

(* A READY thread that stops waiting is taken out of the line of its CPU.  *)
LEMMA RemoveFromLine ==
  ASSUME PlacementTypes, Placed, NEW t \in Tasks, NEW state, NEW cpu,
         st[t] = "READY",
         ChangeState(t, state, cpu, Null)
  PROVE  LET l == tcpu[t]
             i == PositionOf(rq[l], t)
         IN  /\ l \in Cpus /\ i \in 1..Len(rq[l]) /\ rq[l][i] = t
             /\ rq' = [rq EXCEPT ![l] = RemoveAt(@, i)]
<1> DEFINE l == tcpu[t]
           i == PositionOf(rq[l], t)
<1>1. l \in Cpus /\ Contains(rq[l], t)
  BY DEF PlacementTypes, Placed, QueuedIffReady
<1>2. i \in 1..Len(rq[l]) /\ rq[l][i] = t
  BY <1>1 DEF Contains, PositionOf
<1>3. \A c \in Cpus : /\ c # Null
                      /\ Without(rq[c], t) = IF c = l THEN RemoveAt(rq[c], i) ELSE rq[c]
  BY <1>1, NullAssumption DEF Placed, QueuedIffReady, Without, Cpus
<1>4. rq' = [c \in Cpus |-> IF c = l THEN RemoveAt(rq[c], i) ELSE rq[c]]
  BY <1>3 DEF ChangeState, PlacementTypes
<1>5. rq' = [rq EXCEPT ![l] = RemoveAt(@, i)]
  BY <1>1, <1>4 DEF PlacementTypes
<1> QED BY <1>1, <1>2, <1>5

(* A thread that stops running frees its CPU, and only that one.           *)
LEMMA CpuFreed ==
  ASSUME PlacementTypes, Placed, NEW t \in Tasks, NEW state, NEW cpu, NEW n,
         st[t] = "RUNNING", state # "RUNNING",
         ChangeState(t, state, cpu, n)
  PROVE  /\ tcpu[t] \in Cpus /\ curr[tcpu[t]] = t /\ t # Null
         /\ curr' = [curr EXCEPT ![tcpu[t]] = Null]
<1>1. /\ tcpu[t] \in Cpus /\ t # Null
      /\ \A c \in Cpus : curr[c] = t <=> c = tcpu[t]
  BY NullAssumption DEF PlacementTypes, Placed, CurrentIffRunning
<1>2. curr' = [c \in Cpus |-> IF c = tcpu[t] THEN Null ELSE curr[c]]
  BY <1>1 DEF ChangeState
<1> QED BY <1>1, <1>2 DEF PlacementTypes

(* A thread that was not running leaves every CPU to its thread.           *)
LEMMA CpuUntouched ==
  ASSUME PlacementTypes, Placed, NEW t \in Tasks, NEW state, NEW cpu, NEW n,
         st[t] # "RUNNING", state # "RUNNING",
         ChangeState(t, state, cpu, n)
  PROVE  curr' = curr
<1>1. \A c \in Cpus : curr[c] # t
  BY DEF Placed, CurrentIffRunning
<1>2. curr' = [c \in Cpus |-> curr[c]]
  BY <1>1 DEF ChangeState
<1> QED BY <1>2 DEF PlacementTypes

(* Taking the head out of a runqueue leaves its tail.                      *)
LEMMA WithoutHead ==
  ASSUME NEW q \in Seq(Tasks), q # <<>>, NoDuplicate(q)
  PROVE  Without(q, Head(q)) = Tail(q)
<1>1. 1 \in 1..Len(q) /\ q[1] = Head(q)
  OBVIOUS
<1>2. PositionOf(q, Head(q)) = 1 /\ Contains(q, Head(q))
  BY <1>1 DEF PositionOf, NoDuplicate, Contains
<1>3. Without(q, Head(q)) = RemoveAt(q, 1)
  BY <1>2 DEF Without
<1>4. /\ RemoveAt(q, 1) \in Seq(Tasks)
      /\ Len(RemoveAt(q, 1)) = Len(q) - 1
      /\ \A j \in 1..(Len(q) - 1) : RemoveAt(q, 1)[j] = q[j + 1]
  BY <1>1, RemoveAtFacts
<1>5. /\ Tail(q) \in Seq(Tasks)
      /\ Len(Tail(q)) = Len(q) - 1
      /\ \A j \in 1..(Len(q) - 1) : Tail(q)[j] = q[j + 1]
  OBVIOUS
<1> QED BY <1>3, <1>4, <1>5, SeqEqual

(* Running the head of the runqueue of a free CPU takes it out of there.   *)
LEMMA ServeHead ==
  ASSUME PlacementTypes, Placed, NEW c \in Cpus, NEW t,
         t = FirstTask(rq[c]), t # Null,
         ChangeState(t, "RUNNING", c, Null)
  PROVE  /\ rq[c] # <<>> /\ t = Head(rq[c])
         /\ rq' = [rq EXCEPT ![c] = Tail(@)]
         /\ curr' = [curr EXCEPT ![c] = t]
<1>1. /\ rq[c] # <<>> /\ t = Head(rq[c])
      /\ t \in Tasks /\ st[t] = "READY" /\ tcpu[t] = c
      /\ \A d \in Cpus : curr[d] # t
  BY HeadIsReady DEF FirstTask
<1>2. rq' = [rq EXCEPT ![c] = Tail(@)]
  <2>1. Without(rq[c], t) = Tail(rq[c])
    BY <1>1, WithoutHead DEF PlacementTypes, Placed, QueuedOnce, NoDuplicate
  <2>2. \A d \in Cpus : d # Null /\ (d # c => Without(rq[d], t) = rq[d])
    BY <1>1, NullAssumption DEF Placed, QueuedIffReady, Without, Cpus
  <2>3. rq' = [d \in Cpus |-> IF d = c THEN Tail(rq[c]) ELSE rq[d]]
    BY <2>1, <2>2 DEF ChangeState, PlacementTypes
  <2> QED BY <2>3 DEF PlacementTypes
<1>3. curr' = [curr EXCEPT ![c] = t]
  <2>1. curr' = [d \in Cpus |-> IF d = c THEN t ELSE curr[d]]
    BY <1>1 DEF ChangeState
  <2> QED BY <2>1 DEF PlacementTypes
<1> QED BY <1>1, <1>2, <1>3
=============================================================================
