--------------------------- MODULE MCFifoOneQueue --------------------------
(* Instances of FifoOneQueue for TLC.  select_cpu reads nothing of a thread *)
(* but its CPU: the threads are interchangeable.                           *)
EXTENDS FifoOneQueue

CONSTANTS t1, t2, t3

Threads == Permutations(Tasks)
=============================================================================
