----------------------------- MODULE BatchRollback -----------------------------
(***************************************************************************)
(* The rollback of one transaction batch: the gateway's five-stage handler *)
(* (_handle_rollback_batch, gateway/routing/dispatcher.py) over the        *)
(* rollback operations of the Durability authority (durability/api.py),    *)
(* while executors of the batch go on with its idempotency record and      *)
(* workers of the migration save checkpoints.                              *)
(*                                                                         *)
(* The rollback operations run their statements in "with conn:" on a       *)
(* connection in autocommit mode, which opens no transaction: each         *)
(* statement is committed by itself, so each is a step here, and an error  *)
(* or a crash leaves the ones before it in place.                          *)
(*                                                                         *)
(* A checkpoint row is its job, its status column, the status inside its   *)
(* JSON document and the checksum, modelled by the JSON status it was      *)
(* computed from.  The idempotency key is the batch id.  The journal keeps *)
(* one record per operation id (the column is UNIQUE); only the three ids  *)
(* a rollback uses are modelled, and records are younger than the          *)
(* journal's retention.                                                    *)
(***************************************************************************)
EXTENDS IdempotencyRegistry

CONSTANTS Request       \* rollback requests, first tries and retries

VARIABLES checkpoint,   \* row of checkpoints for the migration
          journal,      \* operation ids in journal_records
          request,      \* progress of each request's handler
          with_writer,  \* requests that carry a target writer
          target_rollbacks  \* how often the target was physically rolled back

rollback_vars == <<checkpoint, journal, request, with_writer, target_rollbacks>>
vars == <<idempotency_vars, rollback_vars>>

JobId == {"batch", "next_batch"}
JsonStatus == {"SAVED", "PENDING_ROLLBACK", "ROLLBACK_FAILED", "ROLLED_BACK"}
OperationId == {"pending-rollback", "rollback-failed", "rollback"}
Checkpoint == [job_id: JobId, status: {"SAVED"}, json_status: JsonStatus,
               checksum: JsonStatus]
Stage == {"new", "stage_checkpoint", "stage_journal", "target",
          "fail_checkpoint", "fail_journal", "verify",
          "final_checkpoint", "final_idempotency", "final_journal",
          "success", "error"}

TypeOK ==
    /\ IdempotencyTypeOK
    /\ checkpoint \in Checkpoint \cup {None}
    /\ journal \subseteq OperationId
    /\ request \in [Request -> Stage]
    /\ with_writer \subseteq Request
    /\ target_rollbacks \in Nat

Init ==
    /\ IdempotencyInit
    /\ checkpoint = None
    /\ journal = {}
    /\ request = [r \in Request |-> "new"]
    /\ with_writer = {}
    /\ target_rollbacks = 0

-----------------------------------------------------------------------------
\* The rest of the system.

\* save_checkpoint replaces the whole row, perhaps for a later batch.
SaveCheckpoint(job) ==
    /\ checkpoint' = [job_id |-> job, status |-> "SAVED", json_status |-> "SAVED",
                      checksum |-> "SAVED"]
    /\ UNCHANGED <<journal, request, with_writer, target_rollbacks>>
    /\ UNCHANGED idempotency_vars

\* save_row_position keeps the document's status and renews the checksum.
SaveRowPosition ==
    /\ checkpoint # None
    /\ checkpoint' = [checkpoint EXCEPT !.checksum = checkpoint.json_status]
    /\ UNCHANGED <<journal, request, with_writer, target_rollbacks>>
    /\ UNCHANGED idempotency_vars

Execute == IdempotencyNext /\ UNCHANGED rollback_vars

-----------------------------------------------------------------------------
\* The handler.

HasCheckpoint == checkpoint # None /\ checkpoint.job_id = "batch"

\* No record has the bare batch id as its operation id.
verify_batch_exists == HasCheckpoint \/ record # None

\* UPDATE checkpoints SET checkpoint_json = json_set(...) WHERE job_id = batch:
\* neither the status column nor the checksum follows.
SetJsonStatus(s) ==
    checkpoint' = IF HasCheckpoint THEN [checkpoint EXCEPT !.json_status = s]
                  ELSE checkpoint

\* Mutant: an operation id may be used again.
MayAppend_Again(id) == TRUE

\* The UNIQUE constraint on operation_id.
MayAppend(id) == id \notin journal

\* append_record with an id; JournalCorruptError when it is taken.
Append(r, id, ok) ==
    IF MayAppend(id)
    THEN journal' = journal \cup {id} /\ request' = [request EXCEPT ![r] = ok]
    ELSE UNCHANGED journal /\ request' = [request EXCEPT ![r] = "error"]

Goto(r, stage) == request' = [request EXCEPT ![r] = stage]

\* Stages 1 and 2: the batch is known and a writer matches the endpoint in
\* the batch's checkpoint.
Admit(r, writer) ==
    /\ request[r] = "new"
    /\ verify_batch_exists
    /\ writer => HasCheckpoint
    /\ Goto(r, "stage_checkpoint")
    /\ with_writer' = IF writer THEN with_writer \cup {r} ELSE with_writer
    /\ UNCHANGED <<checkpoint, journal, target_rollbacks>>
    /\ UNCHANGED idempotency_vars

\* Stage 3, stage_pending_rollback: two statements.
StageCheckpoint(r) ==
    /\ request[r] = "stage_checkpoint"
    /\ SetJsonStatus("PENDING_ROLLBACK")
    /\ Goto(r, "stage_journal")
    /\ UNCHANGED <<journal, with_writer, target_rollbacks>>
    /\ UNCHANGED idempotency_vars

StageJournal(r) ==
    /\ request[r] = "stage_journal"
    /\ Append(r, "pending-rollback", "target")
    /\ UNCHANGED <<checkpoint, with_writer, target_rollbacks>>
    /\ UNCHANGED idempotency_vars

ReadyForTarget(r) == request[r] = "target"

\* Mutant: a failed rollback of the target is finalized all the same.
AfterTarget_Ignored(ok) == "verify"

AfterTarget(ok) == IF ok THEN "verify" ELSE "fail_checkpoint"

\* Stage 4: the writer rolls its transaction back or raises; without a writer
\* nothing can roll the target back.
TargetRollback(r, ok) ==
    /\ ReadyForTarget(r)
    /\ ok => r \in with_writer
    /\ target_rollbacks' = IF ok THEN target_rollbacks + 1 ELSE target_rollbacks
    /\ Goto(r, AfterTarget(ok))
    /\ UNCHANGED <<checkpoint, journal, with_writer>>
    /\ UNCHANGED idempotency_vars

\* record_rollback_failure: two statements, and the handler raises.
FailCheckpoint(r) ==
    /\ request[r] = "fail_checkpoint"
    /\ SetJsonStatus("ROLLBACK_FAILED")
    /\ Goto(r, "fail_journal")
    /\ UNCHANGED <<journal, with_writer, target_rollbacks>>
    /\ UNCHANGED idempotency_vars

\* Mutant: the handler does not raise and goes on to finalize.
AfterFailure_GoesOn == "verify"

AfterFailure == "error"

FailJournal(r) ==
    /\ request[r] = "fail_journal"
    /\ Append(r, "rollback-failed", AfterFailure)
    /\ UNCHANGED <<checkpoint, with_writer, target_rollbacks>>
    /\ UNCHANGED idempotency_vars

\* Stage 5, rollback_batch: its check and its three statements.
FinalVerify(r) ==
    /\ request[r] = "verify"
    /\ Goto(r, IF verify_batch_exists THEN "final_checkpoint" ELSE "error")
    /\ UNCHANGED <<checkpoint, journal, with_writer, target_rollbacks>>
    /\ UNCHANGED idempotency_vars

FinalCheckpoint(r) ==
    /\ request[r] = "final_checkpoint"
    /\ SetJsonStatus("ROLLED_BACK")
    /\ Goto(r, "final_idempotency")
    /\ UNCHANGED <<journal, with_writer, target_rollbacks>>
    /\ UNCHANGED idempotency_vars

\* Mutant: the abandoned record also takes epoch 0.
Abandoned_ResetsEpoch == [record EXCEPT !.state = "ABANDONED", !.fencing_epoch = 0]

Abandoned == [record EXCEPT !.state = "ABANDONED"]

\* UPDATE idempotency_records SET state = 'ABANDONED', whatever it was.
FinalIdempotency(r) ==
    /\ request[r] = "final_idempotency"
    /\ record' = IF record = None THEN None ELSE Abandoned
    /\ Goto(r, "final_journal")
    /\ UNCHANGED <<checkpoint, journal, with_writer, target_rollbacks>>
    /\ UNCHANGED <<epoch, latest_epoch, running, owner>>

FinalJournal(r) ==
    /\ request[r] = "final_journal"
    /\ Append(r, "rollback", "success")
    /\ UNCHANGED <<checkpoint, with_writer, target_rollbacks>>
    /\ UNCHANGED idempotency_vars

\* The gateway process dies; what it had committed stays.
Crash ==
    /\ request' = [r \in Request |->
                     IF request[r] \in {"new", "success"} THEN request[r] ELSE "error"]
    /\ UNCHANGED <<checkpoint, journal, with_writer, target_rollbacks>>
    /\ UNCHANGED idempotency_vars

Next ==
    \/ \E job \in JobId : SaveCheckpoint(job)
    \/ SaveRowPosition
    \/ Execute
    \/ Crash
    \/ \E r \in Request :
         \/ \E b \in BOOLEAN : Admit(r, b) \/ TargetRollback(r, b)
         \/ StageCheckpoint(r) \/ StageJournal(r)
         \/ FailCheckpoint(r) \/ FailJournal(r)
         \/ FinalVerify(r) \/ FinalCheckpoint(r) \/ FinalIdempotency(r) \/ FinalJournal(r)

Spec == Init /\ [][Next]_vars

-----------------------------------------------------------------------------
\* Properties.

\* Concurrent requests, retries after an error and retries after a crash roll
\* the target back at most once between them.
TargetRolledBackOnce == target_rollbacks <= 1

\* The intent is durable before the target is touched, so a crash in between
\* leaves a trace.
StagedBeforeTarget == target_rollbacks > 0 => "pending-rollback" \in journal

\* The journal never holds both outcomes for one batch, whoever raced.
OneOutcome == ~ {"rollback", "rollback-failed"} \subseteq journal

\* A tombstone is only written for a batch whose target was rolled back.
TombstoneTellsTruth == "rollback" \in journal => target_rollbacks > 0

\* COMMITTED is terminal for every executor, late or repeated reports included;
\* only the rollback's own statement takes a record out of it.
CommittedUntilRolledBack ==
    [][record # None /\ record.state = "COMMITTED" =>
         \/ record' = record
         \/ \E r \in Request : request[r] = "final_idempotency"
                               /\ request'[r] = "final_journal"]_vars

=============================================================================
