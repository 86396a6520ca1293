----------------------------- MODULE FifoLines -----------------------------
(***************************************************************************)
(* What a FIFO scheduling policy promises, whatever its bookkeeping: each  *)
(* CPU serves one waiting line; a thread waits in at most one line and     *)
(* never while it is served; a line is served strictly from its head, and  *)
(* a thread that gives its CPU back goes to the tail of the line.          *)
(***************************************************************************)
EXTENDS Naturals, Sequences, SequencesExt

CONSTANTS
  Tasks,
  Cpus,
  Lines,     \* the waiting lines
  LineOf,    \* [Cpus -> Lines], the line a CPU serves
  Null

VARIABLES
  line,      \* [Lines -> Seq(Tasks)]
  serving    \* [Cpus -> Tasks \cup {Null}]

vars == <<line, serving>>

Waits(t) == \E l \in Lines : Contains(line[l], t)
Served(t) == \E c \in Cpus : serving[c] = t

Init ==
  /\ line = [l \in Lines |-> <<>>]
  /\ serving = [c \in Cpus |-> Null]

(* A thread enters the class, or wakes up.                                 *)
Arrive(t, l) ==
  /\ ~ Waits(t) /\ ~ Served(t)
  /\ line' = [line EXCEPT ![l] = Append(@, t)]
  /\ UNCHANGED serving

Serve(c) ==
  LET l == LineOf[c] IN
  /\ serving[c] = Null
  /\ line[l] # <<>>
  /\ serving' = [serving EXCEPT ![c] = Head(line[l])]
  /\ line' = [line EXCEPT ![l] = Tail(@)]

(* The quantum is over, or the thread yields.                              *)
Requeue(c) ==
  /\ serving[c] # Null
  /\ line' = [line EXCEPT ![LineOf[c]] = Append(@, serving[c])]
  /\ serving' = [serving EXCEPT ![c] = Null]

(* The thread blocks, terminates, or is moved away, from where it is.      *)
LeaveCpu(c) ==
  /\ serving[c] # Null
  /\ serving' = [serving EXCEPT ![c] = Null]
  /\ UNCHANGED line

LeaveLine(l, i) ==
  /\ line' = [line EXCEPT ![l] = RemoveAt(@, i)]
  /\ UNCHANGED serving

Next ==
  \/ \E t \in Tasks, l \in Lines : Arrive(t, l)
  \/ \E c \in Cpus : Serve(c) \/ Requeue(c) \/ LeaveCpu(c)
  \/ \E l \in Lines : \E i \in 1..Len(line[l]) : LeaveLine(l, i)

Spec == Init /\ [][Next]_vars
=============================================================================
