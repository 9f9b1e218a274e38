----------------------- MODULE CheckpointRegistryProofs -----------------------
(***************************************************************************)
(* The properties of CheckpointRegistry for every set of migrations,       *)
(* resources, plans and positions and every bound on the epochs.           *)
(*                                                                         *)
(* Three lemmas say what each kind of write does to the store once its     *)
(* token has been accepted; the theorems are read off them.                *)
(***************************************************************************)
EXTENDS CheckpointRegistry, TLAPS

\* A token that passes the check inside the transaction carries the live,
\* positive epoch of its resource.
LEMMA LiveToken ==
    ASSUME TypeOK, NEW t \in IssuedTokens, validate_token_in_tx(t)
    PROVE  /\ t.resource_id \in Resource
           /\ t.fencing_epoch \in Nat
           /\ t.fencing_epoch = current_epoch[t.resource_id]
           /\ t.fencing_epoch > 0
  BY DEF TypeOK, FencingTypeOK, IssuedTokens, validate_token_in_tx

\* An accepted save_checkpoint replaces the row of the token's migration by
\* one with the live epoch of the token's resource, no lower than before.
LEMMA SaveCheckpointWrites ==
    ASSUME TypeOK, SaveCheckpoint
    PROVE  \E r \in Resource, doc \in Document :
             /\ checkpoints' = [checkpoints EXCEPT ![MigrationOf[r]] = RowOf(doc)]
             /\ RowOf(doc) \in CheckpointRow
             /\ doc.fencing_epoch = current_epoch[r]
             /\ current_epoch[r] > 0
             /\ checkpoints[MigrationOf[r]] # NoRow =>
                  current_epoch[r] >= checkpoints[MigrationOf[r]].fencing_epoch
             /\ UNCHANGED <<current_epoch, watermarks, bound_plan>>
<1> PICK t \in IssuedTokens, m \in Migration, job \in Job, s \in Status,
         tc \in Tables : save_checkpoint(t, m, job, s, tc)
  BY DEF SaveCheckpoint
<1> DEFINE doc == [job_id |-> job, fencing_epoch |-> t.fencing_epoch,
                   status |-> s, table_checkpoints |-> tc]
<1>1. /\ t.resource_id \in Resource
      /\ t.fencing_epoch \in Nat
      /\ t.fencing_epoch = current_epoch[t.resource_id]
      /\ t.fencing_epoch > 0
  BY LiveToken DEF save_checkpoint, MaySave
<1>2. doc \in Document
  BY <1>1 DEF Document
<1>3. RowOf(doc) \in CheckpointRow
  BY <1>1, <1>2 DEF RowOf, CheckpointRow
<1>4. m = MigrationOf[t.resource_id]
  BY DEF save_checkpoint, MaySave, CoversMigration
<1>5. /\ checkpoints' = [checkpoints EXCEPT ![m] = RowOf(doc)]
      /\ checkpoints[m] # NoRow => t.fencing_epoch >= checkpoints[m].fencing_epoch
      /\ UNCHANGED <<current_epoch, watermarks, bound_plan>>
  BY DEF save_checkpoint, MaySave
<1>6. doc.fencing_epoch = t.fencing_epoch
  OBVIOUS
<1> HIDE DEF doc
<1> QED
  BY <1>1, <1>2, <1>3, <1>4, <1>5, <1>6

\* An accepted save_row_position changes the document and the checksum of an
\* existing row alike, and only the positions in them.
LEMMA SaveRowPositionWrites ==
    ASSUME TypeOK, SaveRowPosition
    PROVE  \E m \in Migration, doc \in Document :
             /\ checkpoints[m] \in CheckpointRow
             /\ doc.job_id = checkpoints[m].checkpoint_json.job_id
             /\ doc.status = checkpoints[m].checkpoint_json.status
             /\ doc.fencing_epoch = checkpoints[m].checkpoint_json.fencing_epoch
             /\ checkpoints' = [checkpoints EXCEPT ![m] =
                   [checkpoints[m] EXCEPT !.checkpoint_json = doc, !.checksum = doc]]
             /\ UNCHANGED <<current_epoch, watermarks, bound_plan>>
<1> PICK t \in IssuedTokens, m \in Migration, tbl \in Table, p \in Position :
         save_row_position(t, m, tbl, p)
  BY DEF SaveRowPosition
<1> DEFINE doc == [checkpoints[m].checkpoint_json
                     EXCEPT !.table_checkpoints[tbl] = p]
<1>1. checkpoints[m] \in CheckpointRow
  BY DEF save_row_position, TypeOK
<1>2. /\ doc \in Document
      /\ doc.job_id = checkpoints[m].checkpoint_json.job_id
      /\ doc.status = checkpoints[m].checkpoint_json.status
      /\ doc.fencing_epoch = checkpoints[m].checkpoint_json.fencing_epoch
  BY <1>1 DEF CheckpointRow, Document, Tables
<1>3. /\ checkpoints' = [checkpoints EXCEPT ![m].checkpoint_json = doc,
                                            ![m].checksum = doc]
      /\ UNCHANGED <<current_epoch, watermarks, bound_plan>>
  BY DEF save_row_position
<1> HIDE DEF doc
<1>4. checkpoints' = [checkpoints EXCEPT ![m] =
          [checkpoints[m] EXCEPT !.checkpoint_json = doc, !.checksum = doc]]
  BY <1>1, <1>3 DEF TypeOK
<1> QED
  BY <1>1, <1>2, <1>3, <1>4

\* An accepted save_watermark stores the live epoch of a resource of that
\* migration and passed every check against the row it replaces.
LEMMA SaveWatermarkWrites ==
    ASSUME TypeOK, SaveWatermark
    PROVE  \E r \in Resource, tbl \in Table, wm \in WatermarkRow :
             LET k == <<MigrationOf[r], tbl>>
             IN /\ k \in WatermarkKey
                /\ watermarks' = [watermarks EXCEPT ![k] = wm]
                /\ bound_plan' = IF wm.plan_fingerprint = Unbound THEN bound_plan
                                 ELSE [bound_plan EXCEPT ![k] = wm.plan_fingerprint]
                /\ wm.fencing_epoch = current_epoch[r]
                /\ current_epoch[r] > 0
                /\ watermarks[k] # NoRow => WatermarkAdvances(watermarks[k], wm)
                /\ UNCHANGED <<current_epoch, checkpoints>>
<1> PICK t \in IssuedTokens, m \in Migration, tbl \in Table,
         wt \in WatermarkType, v \in Position, fp \in Fingerprint :
         save_watermark(t, m, tbl,
             [watermark_type |-> wt, value |-> v, plan_fingerprint |-> fp,
              fencing_epoch |-> t.fencing_epoch])
  BY DEF SaveWatermark
<1> DEFINE wm == [watermark_type |-> wt, value |-> v, plan_fingerprint |-> fp,
                  fencing_epoch |-> t.fencing_epoch]
<1>1. /\ t.resource_id \in Resource
      /\ t.fencing_epoch \in Nat
      /\ t.fencing_epoch = current_epoch[t.resource_id]
      /\ t.fencing_epoch > 0
  BY LiveToken DEF save_watermark
<1>2. wm \in WatermarkRow /\ wm.fencing_epoch = t.fencing_epoch
  BY <1>1 DEF WatermarkRow
<1>3. m = MigrationOf[t.resource_id] /\ <<m, tbl>> \in WatermarkKey
  BY DEF save_watermark, CoversMigration, WatermarkKey
<1>4. /\ watermarks[<<m, tbl>>] # NoRow =>
           WatermarkAdvances(watermarks[<<m, tbl>>], wm)
      /\ watermarks' = [watermarks EXCEPT ![<<m, tbl>>] = wm]
      /\ bound_plan' = IF wm.plan_fingerprint = Unbound THEN bound_plan
            ELSE [bound_plan EXCEPT ![<<m, tbl>>] = wm.plan_fingerprint]
      /\ UNCHANGED <<current_epoch, checkpoints>>
  BY DEF save_watermark
<1> HIDE DEF wm
<1> QED
  BY <1>1, <1>2, <1>3, <1>4

-----------------------------------------------------------------------------

\* The columns and the document of a stored checkpoint, and every watermark,
\* are of their types in every reachable state.
THEOREM TypeCorrect == Spec => []TypeOK
<1>1. Init => TypeOK
  BY DEF Init, FencingInit, TypeOK, FencingTypeOK
<1>2. TypeOK /\ [Next]_vars => TypeOK'
  <2> SUFFICES ASSUME TypeOK, [Next]_vars PROVE TypeOK'
    OBVIOUS
  <2>1. ASSUME NEW r \in Resource, IssueToken(r) PROVE TypeOK'
    BY <2>1 DEF IssueToken, issue_token, TypeOK, FencingTypeOK
  <2>2. CASE SaveCheckpoint
    BY <2>2, SaveCheckpointWrites DEF TypeOK, FencingTypeOK
  <2>3. CASE SaveRowPosition
    <3> PICK m \in Migration, doc \in Document :
          /\ checkpoints[m] \in CheckpointRow
          /\ checkpoints' = [checkpoints EXCEPT ![m] =
               [checkpoints[m] EXCEPT !.checkpoint_json = doc, !.checksum = doc]]
          /\ UNCHANGED <<current_epoch, watermarks, bound_plan>>
      BY <2>3, SaveRowPositionWrites
    <3>1. [checkpoints[m] EXCEPT !.checkpoint_json = doc, !.checksum = doc]
             \in CheckpointRow
      BY DEF CheckpointRow
    <3> QED
      BY <3>1 DEF TypeOK, FencingTypeOK
  <2>4. CASE SaveWatermark
    <3> PICK r \in Resource, tbl \in Table, wm \in WatermarkRow :
          /\ <<MigrationOf[r], tbl>> \in WatermarkKey
          /\ watermarks' = [watermarks EXCEPT ![<<MigrationOf[r], tbl>>] = wm]
          /\ bound_plan' = IF wm.plan_fingerprint = Unbound THEN bound_plan
               ELSE [bound_plan EXCEPT ![<<MigrationOf[r], tbl>>] = wm.plan_fingerprint]
          /\ UNCHANGED <<current_epoch, checkpoints>>
      BY <2>4, SaveWatermarkWrites
    <3>1. wm.plan_fingerprint \in Fingerprint
      BY DEF WatermarkRow
    <3> QED
      BY <3>1 DEF TypeOK, FencingTypeOK
  <2>5. CASE UNCHANGED vars
    BY <2>5 DEF vars, TypeOK, FencingTypeOK
  <2> QED
    BY <2>1, <2>2, <2>3, <2>4, <2>5 DEF Next
<1> QED
  BY <1>1, <1>2, PTL DEF Spec

\* Recovery never meets a checkpoint it has to reject: checksum, columns and
\* document agree after every sequence of checkpoint and position writes.
THEOREM CheckpointsStayReadable == Spec => []CheckpointReadable
<1>1. Init => CheckpointReadable
  BY DEF Init, CheckpointReadable
<1>2. TypeOK /\ CheckpointReadable /\ [Next]_vars => CheckpointReadable'
  <2> SUFFICES ASSUME TypeOK, CheckpointReadable, [Next]_vars
               PROVE  CheckpointReadable'
    OBVIOUS
  <2> USE DEF CheckpointReadable, Readable
  <2>1. ASSUME NEW r \in Resource, IssueToken(r) PROVE CheckpointReadable'
    BY <2>1 DEF IssueToken
  <2>2. CASE SaveCheckpoint
    <3> PICK r \in Resource, doc \in Document :
             checkpoints' = [checkpoints EXCEPT ![MigrationOf[r]] = RowOf(doc)]
      BY <2>2, SaveCheckpointWrites
    <3> QED
      BY DEF TypeOK, RowOf
  <2>3. CASE SaveRowPosition
    <3> PICK m \in Migration, doc \in Document :
          /\ checkpoints[m] \in CheckpointRow
          /\ doc.job_id = checkpoints[m].checkpoint_json.job_id
          /\ doc.status = checkpoints[m].checkpoint_json.status
          /\ doc.fencing_epoch = checkpoints[m].checkpoint_json.fencing_epoch
          /\ checkpoints' = [checkpoints EXCEPT ![m] =
               [checkpoints[m] EXCEPT !.checkpoint_json = doc, !.checksum = doc]]
      BY <2>3, SaveRowPositionWrites
    <3>1. checkpoints[m] # NoRow
      BY NoRowAssumption
    <3> QED
      BY <3>1 DEF TypeOK, CheckpointRow
  <2>4. CASE SaveWatermark
    BY <2>4, SaveWatermarkWrites
  <2>5. CASE UNCHANGED vars
    BY <2>5 DEF vars
  <2> QED
    BY <2>1, <2>2, <2>3, <2>4, <2>5 DEF Next
<1> QED
  BY <1>1, <1>2, TypeCorrect, PTL DEF Spec

-----------------------------------------------------------------------------

\* Every stored epoch was issued for a resource of the row's own migration,
\* whatever stale, delayed or foreign tokens are presented.
THEOREM StoredEpochsWereIssued == Spec => []EpochIssuedForMigration
<1>1. Init => EpochIssuedForMigration
  BY DEF Init, EpochIssuedForMigration, WatermarkKey
<1>2. TypeOK /\ EpochIssuedForMigration /\ [Next]_vars => EpochIssuedForMigration'
  <2> SUFFICES ASSUME TypeOK, EpochIssuedForMigration, [Next]_vars
               PROVE  EpochIssuedForMigration'
    OBVIOUS
  <2> USE DEF EpochIssuedForMigration
  <2>1. ASSUME NEW r \in Resource, IssueToken(r) PROVE EpochIssuedForMigration'
    BY <2>1 DEF IssueToken, issue_token, TypeOK, FencingTypeOK
  <2>2. CASE SaveCheckpoint
    <3> PICK r \in Resource, doc \in Document :
          /\ checkpoints' = [checkpoints EXCEPT ![MigrationOf[r]] = RowOf(doc)]
          /\ doc.fencing_epoch = current_epoch[r]
          /\ current_epoch[r] > 0
          /\ UNCHANGED <<current_epoch, watermarks, bound_plan>>
      BY <2>2, SaveCheckpointWrites
    <3>1. RowOf(doc).fencing_epoch \in 1..current_epoch[r]
      BY DEF RowOf, TypeOK, FencingTypeOK
    <3> HIDE DEF RowOf
    <3> QED
      BY <3>1 DEF TypeOK
  <2>3. CASE SaveRowPosition
    <3> PICK m \in Migration, doc \in Document :
          /\ checkpoints[m] \in CheckpointRow
          /\ checkpoints' = [checkpoints EXCEPT ![m] =
               [checkpoints[m] EXCEPT !.checkpoint_json = doc, !.checksum = doc]]
          /\ UNCHANGED <<current_epoch, watermarks, bound_plan>>
      BY <2>3, SaveRowPositionWrites
    <3>1. checkpoints[m] # NoRow
      BY NoRowAssumption
    <3>2. \A n \in Migration : checkpoints'[n] # NoRow =>
             /\ checkpoints[n] # NoRow
             /\ checkpoints'[n].fencing_epoch = checkpoints[n].fencing_epoch
      BY <3>1 DEF TypeOK, CheckpointRow
    <3> QED
      BY <3>2
  <2>4. CASE SaveWatermark
    <3> PICK r \in Resource, tbl \in Table, wm \in WatermarkRow :
          /\ watermarks' = [watermarks EXCEPT ![<<MigrationOf[r], tbl>>] = wm]
          /\ wm.fencing_epoch = current_epoch[r]
          /\ current_epoch[r] > 0
          /\ UNCHANGED <<current_epoch, checkpoints>>
      BY <2>4, SaveWatermarkWrites, SMTT(30)
    <3>1. wm.fencing_epoch \in 1..current_epoch[r]
      BY DEF TypeOK, FencingTypeOK
    <3>2. ASSUME NEW m \in Migration, NEW t \in Table,
                 watermarks'[<<m, t>>] # NoRow
          PROVE  \E q \in Resource : /\ MigrationOf[q] = m
                                     /\ watermarks'[<<m, t>>].fencing_epoch
                                          \in 1..current_epoch[q]
      <4>1. CASE <<m, t>> = <<MigrationOf[r], tbl>>
        BY <3>1, <4>1 DEF TypeOK, WatermarkKey
      <4>2. CASE <<m, t>> # <<MigrationOf[r], tbl>>
        BY <3>2, <4>2 DEF TypeOK, WatermarkKey
      <4> QED
        BY <4>1, <4>2
    <3> QED
      BY <3>2
  <2>5. CASE UNCHANGED vars
    BY <2>5 DEF vars
  <2> QED
    BY <2>1, <2>2, <2>3, <2>4, <2>5 DEF Next
<1> QED
  BY <1>1, <1>2, TypeCorrect, PTL DEF Spec

\* The newest token of a migration's only fencing scope is never locked out by
\* the epoch a checkpoint was stored with.
THEOREM NewestTokenCanSave == Spec => []LiveHolderCanSave
<1>1. TypeOK /\ EpochIssuedForMigration => LiveHolderCanSave
  <2> SUFFICES ASSUME TypeOK, EpochIssuedForMigration,
                      NEW r \in Resource, current_epoch[r] > 0,
                      \A s \in Resource : MigrationOf[s] = MigrationOf[r] => s = r
               PROVE  MaySave([resource_id |-> r, fencing_epoch |-> current_epoch[r]],
                              MigrationOf[r], current_epoch[r])
    BY DEF LiveHolderCanSave
  <2>1. MigrationOf[r] \in Migration
    BY MigrationOfAssumption
  <2>2. checkpoints[MigrationOf[r]] # NoRow =>
           current_epoch[r] >= checkpoints[MigrationOf[r]].fencing_epoch
    BY <2>1 DEF EpochIssuedForMigration, TypeOK, FencingTypeOK
  <2> QED
    BY <2>2 DEF MaySave, CoversMigration, validate_token_in_tx, TypeOK, FencingTypeOK
<1> QED
  BY <1>1, TypeCorrect, StoredEpochsWereIssued, PTL

-----------------------------------------------------------------------------

\* No write, stale or live, lowers a stored epoch or loses a stored row.
THEOREM EpochsNeverRegress == Spec => EpochNeverRegresses
<1> DEFINE Kept == /\ \A m \in Migration : checkpoints[m] # NoRow =>
                        /\ checkpoints'[m] # NoRow
                        /\ checkpoints'[m].fencing_epoch >= checkpoints[m].fencing_epoch
                   /\ \A k \in WatermarkKey : watermarks[k] # NoRow =>
                        /\ watermarks'[k] # NoRow
                        /\ watermarks'[k].fencing_epoch >= watermarks[k].fencing_epoch
<1>1. TypeOK /\ [Next]_vars => [Kept]_vars
  <2> SUFFICES ASSUME TypeOK, Next PROVE Kept
    OBVIOUS
  <2>0. /\ \A m \in Migration : checkpoints[m] # NoRow =>
              checkpoints[m].fencing_epoch \in Nat
        /\ \A k \in WatermarkKey : watermarks[k] # NoRow =>
              watermarks[k].fencing_epoch \in Nat
    BY DEF TypeOK, CheckpointRow, WatermarkRow
  <2>1. ASSUME NEW r \in Resource, IssueToken(r) PROVE Kept
    BY <2>0, <2>1 DEF IssueToken
  <2>2. CASE SaveCheckpoint
    <3> PICK r \in Resource, doc \in Document :
          /\ checkpoints' = [checkpoints EXCEPT ![MigrationOf[r]] = RowOf(doc)]
          /\ RowOf(doc) \in CheckpointRow
          /\ doc.fencing_epoch = current_epoch[r]
          /\ checkpoints[MigrationOf[r]] # NoRow =>
               current_epoch[r] >= checkpoints[MigrationOf[r]].fencing_epoch
          /\ UNCHANGED <<current_epoch, watermarks, bound_plan>>
      BY <2>2, SaveCheckpointWrites
    <3>1. RowOf(doc) # NoRow /\ RowOf(doc).fencing_epoch = current_epoch[r]
      BY NoRowAssumption DEF RowOf
    <3> HIDE DEF RowOf
    <3> QED
      BY <2>0, <3>1 DEF TypeOK
  <2>3. CASE SaveRowPosition
    <3> PICK m \in Migration, doc \in Document :
          /\ checkpoints[m] \in CheckpointRow
          /\ checkpoints' = [checkpoints EXCEPT ![m] =
               [checkpoints[m] EXCEPT !.checkpoint_json = doc, !.checksum = doc]]
          /\ UNCHANGED <<current_epoch, watermarks, bound_plan>>
      BY <2>3, SaveRowPositionWrites
    <3> DEFINE row == [checkpoints[m] EXCEPT !.checkpoint_json = doc, !.checksum = doc]
    <3>1. row \in CheckpointRow /\ row.fencing_epoch = checkpoints[m].fencing_epoch
      BY DEF CheckpointRow
    <3>2. row # NoRow
      BY <3>1, NoRowAssumption
    <3>3. checkpoints' = [checkpoints EXCEPT ![m] = row]
      OBVIOUS
    <3> HIDE DEF row
    <3> QED
      BY <2>0, <3>1, <3>2, <3>3 DEF TypeOK
  <2>4. CASE SaveWatermark
    <3> PICK r \in Resource, tbl \in Table, wm \in WatermarkRow :
          LET k == <<MigrationOf[r], tbl>>
          IN /\ k \in WatermarkKey
             /\ watermarks' = [watermarks EXCEPT ![k] = wm]
             /\ watermarks[k] # NoRow => WatermarkAdvances(watermarks[k], wm)
             /\ UNCHANGED <<current_epoch, checkpoints>>
      BY <2>4, SaveWatermarkWrites
    <3>1. wm # NoRow
      BY NoRowAssumption
    <3> QED
      BY <2>0, <3>1 DEF TypeOK, WatermarkAdvances
  <2> QED
    BY <2>1, <2>2, <2>3, <2>4 DEF Next
<1> QED
  BY <1>1, TypeCorrect, PTL DEF Spec, EpochNeverRegresses

\* The durable watermark only moves forward, in one fixed order of values.
THEOREM WatermarksNeverRegress == Spec => WatermarkNeverRegresses
<1> DEFINE Forward == \A k \in WatermarkKey : watermarks[k] # NoRow =>
                        /\ watermarks'[k].watermark_type = watermarks[k].watermark_type
                        /\ watermarks'[k].value >= watermarks[k].value
<1>1. TypeOK /\ [Next]_vars => [Forward]_vars
  <2> SUFFICES ASSUME TypeOK, Next PROVE Forward
    OBVIOUS
  <2>0. \A k \in WatermarkKey : watermarks[k] # NoRow => watermarks[k].value \in Nat
    BY PositionAssumption DEF TypeOK, WatermarkRow
  <2>1. CASE UNCHANGED watermarks
    BY <2>0, <2>1
  <2>2. CASE SaveWatermark
    <3> PICK r \in Resource, tbl \in Table, wm \in WatermarkRow :
          LET k == <<MigrationOf[r], tbl>>
          IN /\ k \in WatermarkKey
             /\ watermarks' = [watermarks EXCEPT ![k] = wm]
             /\ watermarks[k] # NoRow => WatermarkAdvances(watermarks[k], wm)
      BY <2>2, SaveWatermarkWrites
    <3> QED
      BY <2>0 DEF TypeOK, WatermarkAdvances
  <2> QED
    BY <2>1, <2>2, SaveCheckpointWrites, SaveRowPositionWrites DEF Next, IssueToken
<1> QED
  BY <1>1, TypeCorrect, PTL DEF Spec, WatermarkNeverRegresses

-----------------------------------------------------------------------------

\* A watermark names the plan it was last bound to or none, and a key without
\* a watermark is bound to none.
BoundPlanIsStored ==
    \A k \in WatermarkKey :
        /\ watermarks[k] = NoRow => bound_plan[k] = Unbound
        /\ watermarks[k] # NoRow => watermarks[k].plan_fingerprint \in {Unbound, bound_plan[k]}

\* A watermark keeps the plan it was bound to, whichever execution or epoch
\* writes it, until a write without a fingerprint unbinds it.
THEOREM WatermarkKeepsItsPlan == Spec => PlanNeverRebound
<1> DEFINE Keep == \A k \in WatermarkKey :
                     bound_plan[k] # Unbound /\ bound_plan'[k] # bound_plan[k]
                       => watermarks[k].plan_fingerprint = Unbound
<1>1. Init => BoundPlanIsStored
  BY DEF Init, BoundPlanIsStored
<1>2. ASSUME TypeOK, BoundPlanIsStored, Next
      PROVE  BoundPlanIsStored' /\ Keep
  <2>1. CASE UNCHANGED <<watermarks, bound_plan>>
    BY <1>2, <2>1 DEF BoundPlanIsStored
  <2>2. CASE SaveWatermark
    <3> PICK r \in Resource, tbl \in Table, wm \in WatermarkRow :
          LET k == <<MigrationOf[r], tbl>>
          IN /\ k \in WatermarkKey
             /\ watermarks' = [watermarks EXCEPT ![k] = wm]
             /\ bound_plan' = IF wm.plan_fingerprint = Unbound THEN bound_plan
                              ELSE [bound_plan EXCEPT ![k] = wm.plan_fingerprint]
             /\ watermarks[k] # NoRow => WatermarkAdvances(watermarks[k], wm)
      BY <1>2, <2>2, SaveWatermarkWrites
    <3> DEFINE key == <<MigrationOf[r], tbl>>
    <3>1. wm # NoRow /\ key \in WatermarkKey
      BY NoRowAssumption
    <3>2. /\ watermarks'[key] = wm /\ \A k \in WatermarkKey \ {key} :
               watermarks'[k] = watermarks[k] /\ bound_plan'[k] = bound_plan[k]
          /\ wm.plan_fingerprint # Unbound => bound_plan'[key] = wm.plan_fingerprint
          /\ wm.plan_fingerprint = Unbound => bound_plan'[key] = bound_plan[key]
      BY <1>2, <3>1 DEF TypeOK
    <3>3. watermarks[key] # NoRow /\ watermarks[key].plan_fingerprint # Unbound
            /\ wm.plan_fingerprint # Unbound
              => watermarks[key].plan_fingerprint = wm.plan_fingerprint
      BY DEF WatermarkAdvances
    <3> HIDE DEF key
    <3> QED
      BY <1>2, <3>1, <3>2, <3>3 DEF BoundPlanIsStored
  <2> QED
    BY <1>2, <2>1, <2>2, SaveCheckpointWrites, SaveRowPositionWrites DEF Next, IssueToken
<1>3. TypeOK /\ BoundPlanIsStored /\ [Next]_vars
        => BoundPlanIsStored' /\ [Keep]_vars
  <2>1. ASSUME BoundPlanIsStored, UNCHANGED vars PROVE BoundPlanIsStored'
    BY <2>1 DEF vars, BoundPlanIsStored
  <2> QED
    BY <1>2, <2>1
<1> QED
  BY <1>1, <1>3, TypeCorrect, PTL DEF Spec, PlanNeverRebound

=============================================================================
