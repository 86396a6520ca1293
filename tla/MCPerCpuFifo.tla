---------------------------- MODULE MCPerCpuFifo ---------------------------
(* Instances of PerCpuFifo for TLC.                                        *)
EXTENDS PerCpuFifo

CONSTANTS t1, t2

(* They hash to different CPUs while two CPUs are online.                  *)
MCPid == (t1 :> 2) @@ (t2 :> 3)
=============================================================================
