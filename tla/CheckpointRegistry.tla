-------------------------- MODULE CheckpointRegistry --------------------------
(***************************************************************************)
(* The checkpoints, row positions and watermarks of the Durability         *)
(* authority (MigrationCheckpointRegistry,                                 *)
(* durability/checkpoint/registry.py), written under fencing tokens.       *)
(*                                                                         *)
(* Every write is one BEGIN IMMEDIATE ... COMMIT transaction under the     *)
(* backend's mutex, so it is one step; a refused write is rolled back and  *)
(* changes nothing, so it is no step.  A crash loses only what the holders *)
(* of tokens remember: any issued token may be presented late, or never.   *)
(*                                                                         *)
(* A checkpoint row keeps job, status and epoch twice, in columns and in   *)
(* its JSON document; the checksum column is computed from the document    *)
(* and modelled by the document it was computed from (SHA-256 is taken to  *)
(* be injective).  Timestamps, byte and row counts and metadata are left   *)
(* out.                                                                    *)
(***************************************************************************)
EXTENDS FencingTokens

CONSTANTS Migration,    \* migration ids
          MigrationOf,  \* [Resource -> Migration]: the id a resource is
                        \*   "m" or "m/..." of
          Job,          \* job ids (a checkpoint's batch)
          Status,       \* statuses a caller gives a checkpoint
          Table,        \* table names
          Position,     \* row positions, a set of naturals
          Fingerprint,  \* plan fingerprints a watermark is saved with
          Unbound,      \* the empty fingerprint
          WatermarkType,\* NUMERIC, TIMESTAMP, COMPOUND
          NoRow         \* a missing row, or a table without a position

ASSUME MigrationOfAssumption == MigrationOf \in [Resource -> Migration]
ASSUME PositionAssumption == Position \subseteq Nat

VARIABLES checkpoints,  \* migration_id -> row of checkpoints
          watermarks,   \* <<migration_id, table_name>> -> row of watermarks
          bound_plan    \* history: the last plan a watermark was bound to

vars == <<current_epoch, checkpoints, watermarks, bound_plan>>

Tables == [Table -> Position \cup {NoRow}]
Document == [job_id: Job, fencing_epoch: Nat, status: Status,
             table_checkpoints: Tables]
CheckpointRow == [job_id: Job, fencing_epoch: Nat, status: Status,
                  checkpoint_json: Document, checksum: Document]
WatermarkRow == [watermark_type: WatermarkType, value: Position,
                 plan_fingerprint: Fingerprint, fencing_epoch: Nat]
WatermarkKey == Migration \X Table

ASSUME NoRowAssumption ==
    NoRow \notin CheckpointRow /\ NoRow \notin WatermarkRow /\ NoRow \notin Position

TypeOK ==
    /\ FencingTypeOK
    /\ checkpoints \in [Migration -> CheckpointRow \cup {NoRow}]
    /\ watermarks \in [WatermarkKey -> WatermarkRow \cup {NoRow}]
    /\ bound_plan \in [WatermarkKey -> Fingerprint \cup {Unbound}]

Init ==
    /\ FencingInit
    /\ checkpoints = [m \in Migration |-> NoRow]
    /\ watermarks = [k \in WatermarkKey |-> NoRow]
    /\ bound_plan = [k \in WatermarkKey |-> Unbound]

IssueToken(r) ==
    issue_token(r) /\ UNCHANGED <<checkpoints, watermarks, bound_plan>>

\* token.resource_id is the migration id or starts with "migration_id/".
CoversMigration(t, m) == MigrationOf[t.resource_id] = m

\* The row a checkpoint is stored as.
RowOf(doc) ==
    [job_id |-> doc.job_id, fencing_epoch |-> doc.fencing_epoch,
     status |-> doc.status, checkpoint_json |-> doc, checksum |-> doc]

\* Mutant: a holder may not save twice under one epoch.
MaySave_StrictEpoch(t, m, e) ==
    /\ CoversMigration(t, m)
    /\ validate_token_in_tx(t)
    /\ checkpoints[m] # NoRow => e > checkpoints[m].fencing_epoch

\* Mutant: the stored epoch is not compared.
MaySave_NoStoredEpoch(t, m, e) == CoversMigration(t, m) /\ validate_token_in_tx(t)

\* Whether save_checkpoint lets token t write epoch e over migration m's row.
MaySave(t, m, e) ==
    /\ CoversMigration(t, m)
    /\ validate_token_in_tx(t)
    /\ checkpoints[m] # NoRow => e >= checkpoints[m].fencing_epoch

\* Replaces the whole row.  Every caller in the engine gives the checkpoint
\* the epoch of the token it presents.
save_checkpoint(t, m, job, status, tables) ==
    /\ MaySave(t, m, t.fencing_epoch)
    /\ checkpoints' = [checkpoints EXCEPT ![m] =
           RowOf([job_id |-> job, fencing_epoch |-> t.fencing_epoch,
                  status |-> status, table_checkpoints |-> tables])]
    /\ UNCHANGED <<current_epoch, watermarks, bound_plan>>

\* Mutant: the checksum is left as it was.
save_row_position_StaleChecksum(t, m, tbl, pos) ==
    /\ validate_token_in_tx(t)
    /\ checkpoints[m] # NoRow
    /\ checkpoints' = [checkpoints EXCEPT
           ![m].checkpoint_json.table_checkpoints[tbl] = pos]
    /\ UNCHANGED <<current_epoch, watermarks, bound_plan>>

\* Rewrites one table's position inside the stored document, whoever's
\* resource the token is for, and recomputes the checksum.
save_row_position(t, m, tbl, pos) ==
    /\ validate_token_in_tx(t)
    /\ checkpoints[m] # NoRow
    /\ LET doc == [checkpoints[m].checkpoint_json
                     EXCEPT !.table_checkpoints[tbl] = pos]
       IN checkpoints' = [checkpoints EXCEPT ![m].checkpoint_json = doc,
                                             ![m].checksum = doc]
    /\ UNCHANGED <<current_epoch, watermarks, bound_plan>>

\* Mutant: a lower value is accepted.
WatermarkAdvances_AnyValue(row, wm) ==
    /\ row.plan_fingerprint = Unbound \/ wm.plan_fingerprint = Unbound
         \/ row.plan_fingerprint = wm.plan_fingerprint
    /\ wm.fencing_epoch >= row.fencing_epoch
    /\ wm.watermark_type = row.watermark_type

\* Mutant: a newer epoch may bring its own plan.
WatermarkAdvances_PlanPerEpoch(row, wm) ==
    /\ wm.fencing_epoch = row.fencing_epoch => row.plan_fingerprint = wm.plan_fingerprint
    /\ wm.fencing_epoch >= row.fencing_epoch
    /\ wm.watermark_type = row.watermark_type
    /\ wm.value >= row.value

\* The checks save_watermark makes against the stored row.  Values of two
\* types do not compare (Python raises), so a change of type is refused too.
WatermarkAdvances(row, wm) ==
    /\ row.plan_fingerprint = Unbound \/ wm.plan_fingerprint = Unbound
         \/ row.plan_fingerprint = wm.plan_fingerprint
    /\ wm.fencing_epoch >= row.fencing_epoch
    /\ wm.watermark_type = row.watermark_type
    /\ wm.value >= row.value

save_watermark(t, m, tbl, wm) ==
    /\ CoversMigration(t, m)
    /\ validate_token_in_tx(t)
    /\ wm.fencing_epoch = t.fencing_epoch
    /\ watermarks[<<m, tbl>>] # NoRow =>
         WatermarkAdvances(watermarks[<<m, tbl>>], wm)
    /\ watermarks' = [watermarks EXCEPT ![<<m, tbl>>] = wm]
    /\ bound_plan' = IF wm.plan_fingerprint = Unbound THEN bound_plan
                     ELSE [bound_plan EXCEPT ![<<m, tbl>>] = wm.plan_fingerprint]
    /\ UNCHANGED <<current_epoch, checkpoints>>

SaveCheckpoint ==
    \E t \in IssuedTokens, m \in Migration, job \in Job, s \in Status, tc \in Tables :
        save_checkpoint(t, m, job, s, tc)

SaveRowPosition ==
    \E t \in IssuedTokens, m \in Migration, tbl \in Table, p \in Position :
        save_row_position(t, m, tbl, p)

SaveWatermark ==
    \E t \in IssuedTokens, m \in Migration, tbl \in Table,
       wt \in WatermarkType, v \in Position, fp \in Fingerprint :
        save_watermark(t, m, tbl,
            [watermark_type |-> wt, value |-> v, plan_fingerprint |-> fp,
             fencing_epoch |-> t.fencing_epoch])

Next ==
    \/ \E r \in Resource : IssueToken(r)
    \/ SaveCheckpoint
    \/ SaveRowPosition
    \/ SaveWatermark

Spec == Init /\ [][Next]_vars

-----------------------------------------------------------------------------
\* What a read returns.

\* get_latest_checkpoint verifies the document against the checksum, then
\* answers from the columns.
Readable(m) == checkpoints[m].checkpoint_json = checkpoints[m].checksum

-----------------------------------------------------------------------------
\* Properties.

\* Recovery reads what was written: a stored checkpoint passes its checksum,
\* and the columns get_latest_checkpoint answers from agree with the verified
\* document, whatever sequence of checkpoint and row-position writes ran.
CheckpointReadable ==
    \A m \in Migration : checkpoints[m] # NoRow =>
        /\ Readable(m)
        /\ checkpoints[m].job_id = checkpoints[m].checkpoint_json.job_id
        /\ checkpoints[m].status = checkpoints[m].checkpoint_json.status
        /\ checkpoints[m].fencing_epoch = checkpoints[m].checkpoint_json.fencing_epoch

\* No row is stranded: the epoch stored with a checkpoint or a watermark was
\* issued for a resource of that very migration, so the refusal of lower
\* epochs always leaves a live token that is still let through.
EpochIssuedForMigration ==
    \A m \in Migration :
        LET issued(e) == \E r \in Resource :
                            MigrationOf[r] = m /\ e \in 1..current_epoch[r]
        IN /\ checkpoints[m] # NoRow => issued(checkpoints[m].fencing_epoch)
           /\ \A tbl \in Table : watermarks[<<m, tbl>>] # NoRow =>
                issued(watermarks[<<m, tbl>>].fencing_epoch)

\* A migration fenced through one resource id never locks its live holder
\* out: the newest token can save over whatever is stored, also by holders of
\* other migrations' tokens.  (With several scopes "m", "m/run" of one
\* migration the epochs are independent counters and a holder can be refused,
\* as orchestration/coordinator.py notes.)
LiveHolderCanSave ==
    \A r \in Resource :
        current_epoch[r] > 0 /\ (\A s \in Resource : MigrationOf[s] = MigrationOf[r] => s = r) =>
            LET t == [resource_id |-> r, fencing_epoch |-> current_epoch[r]]
            IN MaySave(t, MigrationOf[r], t.fencing_epoch)

\* A superseded holder never undoes a fresher one's work: the epoch of a
\* stored checkpoint or watermark never falls and no row is ever dropped.
EpochNeverRegresses ==
    [][/\ \A m \in Migration : checkpoints[m] # NoRow =>
            /\ checkpoints'[m] # NoRow
            /\ checkpoints'[m].fencing_epoch >= checkpoints[m].fencing_epoch
       /\ \A k \in WatermarkKey : watermarks[k] # NoRow =>
            /\ watermarks'[k] # NoRow
            /\ watermarks'[k].fencing_epoch >= watermarks[k].fencing_epoch]_vars

\* The durable watermark is monotone: its value never falls and it never
\* changes the order its values are compared in.
WatermarkNeverRegresses ==
    [][\A k \in WatermarkKey : watermarks[k] # NoRow =>
         /\ watermarks'[k].watermark_type = watermarks[k].watermark_type
         /\ watermarks'[k].value >= watermarks[k].value]_vars

\* A watermark bound to one compiled plan is taken over by another only after
\* a write without a fingerprint has unbound it: registry.py lists as
\* guarantee (c) of the watermark authority that it is not overwritten.
PlanNeverRebound ==
    [][\A k \in WatermarkKey :
         bound_plan[k] # Unbound /\ bound_plan'[k] # bound_plan[k]
           => watermarks[k].plan_fingerprint = Unbound]_vars

=============================================================================
