------------------------------- MODULE MCRusty -----------------------------
(* Instances of Rusty for TLC: two CPUs, either in two domains, or the two *)
(* siblings of a core of one domain.                                       *)
EXTENDS Rusty

CONSTANTS t1, t2

MCOwnCore == [c \in Cpus |-> {c}]
MCOwnDomain == [c \in Cpus |-> c]
MCOneCore == [c \in Cpus |-> Cpus]
MCOneDomain == [c \in Cpus |-> 0]
MCFixed == {Cpus}
MCNarrowed == {Cpus, {0}}
MCAlwaysUp == [s \in BOOLEAN |-> {}]
MCLastMayGo == [s \in BOOLEAN |-> IF s THEN {} ELSE {NumCpus - 1}]

Threads == Permutations(Tasks)

(* schedule sets the slice, so that of a thread that does not run decides  *)
(* nothing; a thread that left is as one that has not come yet, and its    *)
(* cpumask, which new_prepare sets, decides nothing; nor does the history  *)
(* with SMT, or of a CPU out of the mask, which only enter_idle, a core    *)
(* event, puts there again.                                                *)
SchedulingView ==
  <<tcpu, rq, curr, target, online, active, smt, masks, cstate, sel, allowed,
    [t \in Tasks |-> IF st[t] = "TERMINATED" THEN <<"NOT_QUEUED", {}>>
                     ELSE <<st[t], pmask[t]>>],
    [t \in Tasks |-> IF st[t] = "RUNNING" THEN slice[t] ELSE 0],
    IF smt THEN {} ELSE settled \cap cpuMask>>
=============================================================================
