---------------------------- MODULE TieredLines ----------------------------
(***************************************************************************)
(* What a FIFO policy with one shared line, and a line of its own for each *)
(* CPU, promises.  A thread that becomes ready goes to the tail of the     *)
(* shared line.  A CPU takes the head of the shared line into its hand,    *)
(* and later puts it at the tail of its own line; it serves the head of    *)
(* its own line, or that of the shared one when its own is empty.  A       *)
(* thread that gives its CPU back goes to the tail of the shared line, or  *)
(* to an empty line of the CPU.                                            *)
(*                                                                         *)
(* A thread is in one line, in one hand, or served by one CPU, never two   *)
(* of these, unless it is one of the Leavers: these may leave when they    *)
(* wait or are in a hand, and the CPU that has taken one, or is about to,  *)
(* does not notice.  Only their own place suffers from it.                 *)
(***************************************************************************)
EXTENDS Naturals, Sequences, SequencesExt

CONSTANTS Tasks, Cpus, Shared, Leavers, Null

VARIABLES
  line,      \* [Cpus \cup {Shared} -> Seq(Tasks)]
  hand,      \* [Cpus -> Tasks \cup {Null}]
  serving    \* [Cpus -> Tasks \cup {Null}]

vars == <<line, hand, serving>>

Lines == Cpus \cup {Shared}

Waits(t) == \E l \in Lines : Contains(line[l], t)
InHand(t) == \E c \in Cpus : hand[c] = t
Served(t) == \E c \in Cpus : serving[c] = t

Without(q, t) ==
  IF Contains(q, t) THEN RemoveAt(q, CHOOSE i \in 1..Len(q) : q[i] = t) ELSE q

(* t is taken from wherever it waits or is served, then put in line l, if  *)
(* that is one.                                                            *)
Move(t, l) ==
  /\ line' = [k \in Lines |-> IF k = l THEN Append(Without(line[k], t), t)
                                       ELSE Without(line[k], t)]
  /\ serving' = [c \in Cpus |-> IF serving[c] = t THEN Null ELSE serving[c]]

Init ==
  /\ line = [l \in Lines |-> <<>>]
  /\ hand = [c \in Cpus |-> Null]
  /\ serving = [c \in Cpus |-> Null]

(* A thread enters the class, or wakes up.                                 *)
Arrive(t) ==
  /\ ~ Waits(t) /\ ~ Served(t)
  /\ t \in Leavers \/ ~ InHand(t)
  /\ line' = [line EXCEPT ![Shared] = Append(@, t)]
  /\ UNCHANGED <<hand, serving>>

Take(c) ==
  /\ hand[c] = Null
  /\ line[Shared] # <<>>
  /\ hand' = [hand EXCEPT ![c] = Head(line[Shared])]
  /\ line' = [line EXCEPT ![Shared] = Tail(@)]
  /\ UNCHANGED serving

Put(c) ==
  /\ hand[c] # Null /\ ~ Waits(hand[c]) /\ ~ Served(hand[c])
  /\ line' = [line EXCEPT ![c] = Append(@, hand[c])]
  /\ hand' = [hand EXCEPT ![c] = Null]
  /\ UNCHANGED serving

Serve(c, l) ==
  /\ serving[c] = Null
  /\ l = c \/ (l = Shared /\ line[c] = <<>>)
  /\ line[l] # <<>>
  /\ serving' = [serving EXCEPT ![c] = Head(line[l])]
  /\ line' = [line EXCEPT ![l] = Tail(@)]
  /\ UNCHANGED hand

(* The quantum is over, or the thread yields.                              *)
Requeue(c, l) ==
  /\ serving[c] # Null
  /\ l = Shared \/ (l = c /\ line[c] = <<>>)
  /\ line' = [line EXCEPT ![l] = Append(@, serving[c])]
  /\ serving' = [serving EXCEPT ![c] = Null]
  /\ UNCHANGED hand

(* The thread blocks, terminates or is moved away, from where it is.       *)
Leave(t) ==
  /\ t \in Leavers \/ ~ (Waits(t) \/ InHand(t))
  /\ Move(t, Null)
  /\ UNCHANGED hand

(* The CPU has not noticed that the thread it takes, or puts, has left.    *)
TakeGone(c, t) ==
  /\ t \in Leavers /\ hand[c] = Null
  /\ hand' = [hand EXCEPT ![c] = t]
  /\ line' = [line EXCEPT ![Shared] = Without(@, t)]
  /\ UNCHANGED serving

PutGone(c) ==
  /\ hand[c] \in Leavers
  /\ Move(hand[c], c)
  /\ hand' = [hand EXCEPT ![c] = Null]

Next ==
  \/ \E t \in Tasks : Arrive(t) \/ Leave(t)
  \/ \E c \in Cpus : Take(c) \/ Put(c) \/ PutGone(c) \/ (\E t \in Tasks : TakeGone(c, t))
  \/ \E c \in Cpus, l \in Lines : Serve(c, l) \/ Requeue(c, l)

Spec == Init /\ [][Next]_vars
=============================================================================
