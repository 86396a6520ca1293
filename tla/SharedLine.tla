----------------------------- MODULE SharedLine ----------------------------
(***************************************************************************)
(* What a FIFO policy with one waiting line for all the CPUs promises: a   *)
(* thread that becomes ready goes to the tail of the line; a CPU that has  *)
(* no thread takes the head of the line, either to run it at once or to    *)
(* reserve it; a reserved thread runs on that CPU next.  A thread is in    *)
(* the line, reserved or served, never two of them.                        *)
(***************************************************************************)
EXTENDS Naturals, Sequences, SequencesExt

CONSTANTS Tasks, Cpus, Null

VARIABLES
  line,      \* Seq(Tasks)
  reserved,  \* [Cpus -> Tasks \cup {Null}]
  serving    \* [Cpus -> Tasks \cup {Null}]

vars == <<line, reserved, serving>>

Absent(t) ==
  /\ ~ Contains(line, t)
  /\ \A c \in Cpus : reserved[c] # t /\ serving[c] # t

Init ==
  /\ line = <<>>
  /\ reserved = [c \in Cpus |-> Null]
  /\ serving = [c \in Cpus |-> Null]

Arrive(t) ==
  /\ Absent(t)
  /\ line' = Append(line, t)
  /\ UNCHANGED <<reserved, serving>>

Requeue(c) ==
  /\ serving[c] # Null
  /\ line' = Append(line, serving[c])
  /\ serving' = [serving EXCEPT ![c] = Null]
  /\ UNCHANGED reserved

Reserve(c) ==
  /\ line # <<>> /\ reserved[c] = Null /\ serving[c] = Null
  /\ reserved' = [reserved EXCEPT ![c] = Head(line)]
  /\ line' = Tail(line)
  /\ UNCHANGED serving

ServeReserved(c) ==
  /\ reserved[c] # Null /\ serving[c] = Null
  /\ serving' = [serving EXCEPT ![c] = reserved[c]]
  /\ reserved' = [reserved EXCEPT ![c] = Null]
  /\ UNCHANGED line

ServeHead(c) ==
  /\ line # <<>> /\ reserved[c] = Null /\ serving[c] = Null
  /\ serving' = [serving EXCEPT ![c] = Head(line)]
  /\ line' = Tail(line)
  /\ UNCHANGED reserved

(* The thread blocks, terminates or is moved, from where it is.            *)
Leave(t) ==
  /\ \/ ~ Contains(line, t) /\ line' = line
     \/ \E i \in 1..Len(line) : line[i] = t /\ line' = RemoveAt(line, i)
  /\ reserved' = [c \in Cpus |-> IF reserved[c] = t THEN Null ELSE reserved[c]]
  /\ serving' = [c \in Cpus |-> IF serving[c] = t THEN Null ELSE serving[c]]

Next ==
  \/ \E t \in Tasks : Arrive(t) \/ Leave(t)
  \/ \E c \in Cpus : Requeue(c) \/ Reserve(c) \/ ServeReserved(c) \/ ServeHead(c)

Spec == Init /\ [][Next]_vars
=============================================================================
