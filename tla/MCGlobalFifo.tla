---------------------------- MODULE MCGlobalFifo ---------------------------
(* Instances of GlobalFifo for TLC.                                        *)
EXTENDS GlobalFifo

CONSTANTS t1, t2, t3

MCPid == (t1 :> 2) @@ (t2 :> 3) @@ (t3 :> 4)
MCPid2 == (t1 :> 2) @@ (t2 :> 3)

(* The policy writes fp->state, _current, the core state and the cpumasks  *)
(* and never reads them to decide: states that differ in them alone have   *)
(* the same successors up to them, and are explored once.                  *)
SchedulingView == <<coreVars, quantum, pull>>
=============================================================================
