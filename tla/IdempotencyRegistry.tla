-------------------------- MODULE IdempotencyRegistry --------------------------
(***************************************************************************)
(* The idempotency records of the Durability authority                     *)
(* (IdempotencyRegistry, durability/recovery/idempotency.py): the record   *)
(* of one idempotency key and the executors that race to carry out the     *)
(* operation it stands for.                                                *)
(*                                                                         *)
(* transition_state is one transaction under the backend's mutex; a        *)
(* refused transition changes nothing.  An executor acts under the epoch   *)
(* of a fencing token, which is never another executor's.  Any of them may *)
(* ask for any transition with any expected state, except that one reports *)
(* COMMITTED or FAILED only for work it believes to be doing.  It may also *)
(* miss an answer and report again.                                        *)
(***************************************************************************)
EXTENDS Naturals

CONSTANTS Executor,     \* workers that carry out the operation
          Fingerprint,  \* input fingerprints
          MaxEpoch,     \* bound: fencing tokens issued
          None          \* no record; no expected state; no result

ASSUME EpochBound == MaxEpoch \in Nat

VARIABLES record,       \* row of idempotency_records for the key, or None
          epoch,        \* epoch of each executor's token; 0 before the first
          latest_epoch, \* the last epoch issued
          running,      \* executors that believe to be executing
          owner         \* history: epoch of the execution started last

idempotency_vars == <<record, epoch, latest_epoch, running, owner>>

State == {"RESERVED", "IN_PROGRESS", "COMMITTED", "FAILED", "ABANDONED"}
IdempotencyRecord == [state: State, fencing_epoch: Nat, input_fingerprint: Fingerprint,
                      result_hash: Nat \cup {None}]

ASSUME NoneIsNoRecord == None \notin IdempotencyRecord /\ None \notin State /\ None \notin Nat

IdempotencyTypeOK ==
    /\ record \in IdempotencyRecord \cup {None}
    /\ epoch \in [Executor -> Nat]
    /\ latest_epoch \in Nat
    /\ running \subseteq Executor
    /\ owner \in Nat

IdempotencyInit ==
    /\ record = None
    /\ epoch = [x \in Executor |-> 0]
    /\ latest_epoch = 0
    /\ running = {}
    /\ owner = 0

-----------------------------------------------------------------------------

ALLOWED_TRANSITIONS ==
    [RESERVED    |-> {"IN_PROGRESS", "ABANDONED"},
     IN_PROGRESS |-> {"COMMITTED", "FAILED", "ABANDONED"},
     FAILED      |-> {"IN_PROGRESS", "ABANDONED"},
     ABANDONED   |-> {"RESERVED", "IN_PROGRESS"},
     COMMITTED   |-> {}]

\* Mutant: the epoch of the request is not compared with the record's.
MayTransition_NoEpoch(expected, new, e, fp) ==
    IF record = None THEN expected = None
    ELSE /\ record.input_fingerprint = fp
         /\ expected \in {None, record.state}
         /\ new \in ALLOWED_TRANSITIONS[record.state]

\* The checks of transition_state.  A new record may start in any state.
MayTransition(expected, new, e, fp) ==
    IF record = None THEN expected = None
    ELSE /\ record.input_fingerprint = fp
         /\ e >= record.fencing_epoch
         /\ expected \in {None, record.state}
         /\ new \in ALLOWED_TRANSITIONS[record.state]

\* The row written.  The result an execution commits is known by its epoch.
Updated(new, e, fp) ==
    [state |-> new, fencing_epoch |-> e, input_fingerprint |-> fp,
     result_hash |-> IF new = "COMMITTED" THEN e ELSE None]

transition_state(expected, new, e, fp) ==
    /\ MayTransition(expected, new, e, fp)
    /\ record' = Updated(new, e, fp)

\* An executor starts, or restarts after a crash, with a token of its own.
TakeToken(x) ==
    /\ latest_epoch < MaxEpoch
    /\ latest_epoch' = latest_epoch + 1
    /\ epoch' = [epoch EXCEPT ![x] = latest_epoch']
    /\ running' = running \ {x}
    /\ UNCHANGED <<record, owner>>

Start(x, expected, fp) ==
    /\ epoch[x] # 0
    /\ transition_state(expected, "IN_PROGRESS", epoch[x], fp)
    /\ running' = running \cup {x}
    /\ owner' = epoch[x]
    /\ UNCHANGED <<epoch, latest_epoch>>

Report(x, expected, new, fp) ==
    /\ x \in running
    /\ transition_state(expected, new, epoch[x], fp)
    /\ running' \in {running, running \ {x}}
    /\ UNCHANGED <<epoch, latest_epoch, owner>>

\* Reserving and abandoning need not come from the one who executes.
Mark(x, expected, new, fp) ==
    /\ epoch[x] # 0
    /\ transition_state(expected, new, epoch[x], fp)
    /\ UNCHANGED <<epoch, latest_epoch, running, owner>>

IdempotencyNext ==
    \E x \in Executor :
        \/ TakeToken(x)
        \/ \E expected \in State \cup {None}, fp \in Fingerprint :
             \/ Start(x, expected, fp)
             \/ \E new \in {"COMMITTED", "FAILED"} : Report(x, expected, new, fp)
             \/ \E new \in {"RESERVED", "ABANDONED"} : Mark(x, expected, new, fp)

-----------------------------------------------------------------------------
\* Properties.

CanCommit(x) ==
    /\ x \in running
    /\ \E fp \in Fingerprint : MayTransition("IN_PROGRESS", "COMMITTED", epoch[x], fp)

\* Whatever was abandoned, failed, restarted or taken over, there is at most
\* one executor whose commit the registry would accept, and it is the one
\* that started last.
OneCanCommit ==
    \A x \in Executor :
        record # None /\ CanCommit(x) => epoch[x] = owner

\* The result on record is that of the execution that started last: no
\* superseded executor slips its own in.
CommitsNewestExecution ==
    record # None /\ record.state = "COMMITTED" => record.result_hash = owner

=============================================================================
