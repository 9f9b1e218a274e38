---------------------------- MODULE MCDurableQueue ----------------------------
(***************************************************************************)
(* Instances of DurableQueue for TLC.                                      *)
(***************************************************************************)
EXTENDS DurableQueue

CONSTANTS c1, c2

\* Both consumers pass the same worker_id, as threads of one worker do.
MCSharedWorker == [c \in Consumer |-> c1]
MCClaimId == 1..5

=============================================================================
