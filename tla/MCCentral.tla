------------------------------ MODULE MCCentral ----------------------------
(* Instances of Central for TLC: the CPUs other than 0 are siblings.       *)
EXTENDS Central

CONSTANTS t1, t2

MCSiblings == [c \in Cpus |-> IF c = CentralCpu THEN {c} ELSE Cpus \ {CentralCpu}]
MCTimes == {Slice, Slice + 1}
=============================================================================
