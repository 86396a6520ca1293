---------------------------- MODULE MCModuleLifecycle ----------------------
(* Instances of ModuleLifecycle for TLC.                                   *)
EXTENDS ModuleLifecycle
=============================================================================
