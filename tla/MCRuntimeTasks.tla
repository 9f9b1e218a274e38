---------------------------- MODULE MCRuntimeTasks ----------------------------
(***************************************************************************)
(* Instances of RuntimeTasks for TLC.                                      *)
(***************************************************************************)
EXTENDS RuntimeTasks

CONSTANTS t1, t2

MCOneWorker == {1}

=============================================================================
