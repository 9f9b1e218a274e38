-------------------------- MODULE BatchRollbackProofs --------------------------
(***************************************************************************)
(* The properties of BatchRollback for any number of requests, executors   *)
(* and tokens.  First the idempotency record by itself, for any executors, *)
(* fingerprints and tokens, then the rollback around it.                   *)
(***************************************************************************)
EXTENDS BatchRollback, TLAPS

\* Tokens are distinct and the record never lags behind the owner.
Tokens ==
    /\ \A x \in Executor : epoch[x] <= latest_epoch
    /\ \A x, y \in Executor : epoch[x] = epoch[y] /\ epoch[x] # 0 => x = y
    /\ \A x \in running : epoch[x] # 0
    /\ owner <= latest_epoch
    /\ record = None => running = {} /\ owner = 0
    /\ record # None => record.fencing_epoch >= owner

\* A running executor that has not been overtaken is the owner.
NotOvertaken ==
    \A x \in running :
        record # None /\ epoch[x] >= record.fencing_epoch => epoch[x] = owner

\* The strengthening every step preserves.
IdempotencyInv ==
    IdempotencyTypeOK /\ Tokens /\ NotOvertaken /\ CommitsNewestExecution

\* A row written by transition_state is a record.
LEMMA UpdatedTyped ==
    ASSUME NEW new \in State, NEW e \in Nat, NEW fp \in Fingerprint
    PROVE  /\ Updated(new, e, fp) \in IdempotencyRecord
           /\ Updated(new, e, fp) # None
           /\ Updated(new, e, fp).state = new
           /\ Updated(new, e, fp).fencing_epoch = e
           /\ new = "COMMITTED" => Updated(new, e, fp).result_hash = e
  BY NoneIsNoRecord DEF Updated, IdempotencyRecord

\* A transition that is let through comes from an epoch at or above the
\* record's, and never leaves COMMITTED.
LEMMA TransitionAllowed ==
    ASSUME IdempotencyTypeOK, record # None, NEW expected, NEW new \in State,
           NEW e \in Nat, NEW fp, MayTransition(expected, new, e, fp)
    PROVE  e >= record.fencing_epoch /\ record.state # "COMMITTED"
  BY DEF MayTransition, ALLOWED_TRANSITIONS, State, IdempotencyTypeOK, IdempotencyRecord

LEMMA IdempotencyInitial == IdempotencyInit => IdempotencyInv
  BY NoneIsNoRecord
  DEF IdempotencyInit, IdempotencyInv, IdempotencyTypeOK, Tokens, NotOvertaken,
      CommitsNewestExecution

LEMMA TakeTokenKeeps ==
    ASSUME IdempotencyInv, NEW x \in Executor, TakeToken(x)
    PROVE  IdempotencyInv'
<1>1. /\ latest_epoch' = latest_epoch + 1 /\ latest_epoch' \in Nat
      /\ epoch' = [epoch EXCEPT ![x] = latest_epoch + 1]
      /\ running' = running \ {x} /\ record' = record /\ owner' = owner
  BY DEF TakeToken, IdempotencyInv, IdempotencyTypeOK
<1>2. IdempotencyTypeOK'
  BY <1>1 DEF IdempotencyInv, IdempotencyTypeOK
<1>3. \A y \in Executor : epoch[y] \in Nat /\ epoch[y] <= latest_epoch
  BY DEF IdempotencyInv, IdempotencyTypeOK, Tokens
<1>4. \A y \in Executor : epoch'[y] = IF y = x THEN latest_epoch + 1 ELSE epoch[y]
  BY <1>1 DEF IdempotencyInv, IdempotencyTypeOK
<1>5. latest_epoch \in Nat /\ owner \in Nat /\ running \subseteq Executor
  BY DEF IdempotencyInv, IdempotencyTypeOK
<1>6. Tokens'
  BY <1>1, <1>3, <1>4, <1>5 DEF IdempotencyInv, Tokens
<1>7. NotOvertaken'
  BY <1>1, <1>4, <1>5 DEF IdempotencyInv, NotOvertaken
<1>8. CommitsNewestExecution'
  BY <1>1 DEF IdempotencyInv, CommitsNewestExecution
<1> QED
  BY <1>2, <1>6, <1>7, <1>8 DEF IdempotencyInv

LEMMA StartKeeps ==
    ASSUME IdempotencyInv, NEW x \in Executor, NEW expected, NEW fp \in Fingerprint,
           Start(x, expected, fp)
    PROVE  IdempotencyInv'
<1>0. /\ epoch[x] \in Nat /\ epoch[x] # 0 /\ latest_epoch \in Nat /\ owner \in Nat
      /\ running \subseteq Executor /\ epoch[x] <= latest_epoch
      /\ \A y \in Executor : epoch[y] \in Nat
      /\ record # None => record.fencing_epoch \in Nat
  BY DEF Start, IdempotencyInv, IdempotencyTypeOK, IdempotencyRecord, Tokens
<1>1. /\ record' \in IdempotencyRecord /\ record' # None
      /\ record'.state = "IN_PROGRESS" /\ record'.fencing_epoch = epoch[x]
  BY <1>0, UpdatedTyped DEF Start, transition_state, State
<1>2. /\ running' = running \cup {x} /\ owner' = epoch[x]
      /\ epoch' = epoch /\ latest_epoch' = latest_epoch
  BY DEF Start
<1>3. record # None => epoch[x] >= record.fencing_epoch
  BY <1>0, TransitionAllowed DEF Start, transition_state, IdempotencyInv, State
<1>4. IdempotencyTypeOK'
  BY <1>0, <1>1, <1>2 DEF IdempotencyInv, IdempotencyTypeOK
<1>5. Tokens'
  BY <1>0, <1>1, <1>2 DEF IdempotencyInv, Tokens
<1>6. NotOvertaken'
  <2> SUFFICES ASSUME NEW y \in running', epoch'[y] >= record'.fencing_epoch
               PROVE  epoch'[y] = owner'
    BY DEF NotOvertaken
  <2>1. CASE y = x
    BY <1>2, <2>1
  <2>2. CASE y \in running
    <3>1. record # None /\ epoch[y] >= epoch[x]
      BY <1>1, <1>2, <2>2 DEF IdempotencyInv, Tokens
    <3>2. epoch[y] = owner /\ owner <= record.fencing_epoch
      BY <1>0, <1>3, <2>2, <3>1 DEF IdempotencyInv, Tokens, NotOvertaken
    <3> QED
      BY <1>0, <1>2, <1>3, <2>2, <3>1, <3>2
  <2> QED
    BY <1>2, <2>1, <2>2
<1>7. CommitsNewestExecution'
  BY <1>1 DEF CommitsNewestExecution
<1> QED
  BY <1>4, <1>5, <1>6, <1>7 DEF IdempotencyInv

\* Writes that start nothing: the epoch on record can only grow.
LEMMA WriteKeeps ==
    ASSUME IdempotencyInv, NEW x \in Executor, epoch[x] # 0,
           NEW expected, NEW new \in State, NEW fp \in Fingerprint,
           transition_state(expected, new, epoch[x], fp),
           new = "COMMITTED" => x \in running,
           running' \in {running, running \ {x}}, record = None => new # "COMMITTED",
           UNCHANGED <<epoch, latest_epoch, owner>>
    PROVE  IdempotencyInv'
<1>0. /\ epoch[x] \in Nat /\ owner \in Nat /\ running \subseteq Executor
      /\ epoch[x] <= latest_epoch /\ \A y \in Executor : epoch[y] \in Nat
      /\ record # None => record.fencing_epoch \in Nat
  BY DEF IdempotencyInv, IdempotencyTypeOK, IdempotencyRecord, Tokens
<1>1. /\ record' \in IdempotencyRecord /\ record' # None
      /\ record'.state = new /\ record'.fencing_epoch = epoch[x]
      /\ new = "COMMITTED" => record'.result_hash = epoch[x]
  BY <1>0, UpdatedTyped DEF transition_state
<1>3. record # None => epoch[x] >= record.fencing_epoch
  BY <1>0, TransitionAllowed DEF transition_state, IdempotencyInv
<1>4. IdempotencyTypeOK'
  BY <1>0, <1>1 DEF IdempotencyInv, IdempotencyTypeOK
<1>5. Tokens'
  BY <1>0, <1>1, <1>3 DEF IdempotencyInv, Tokens
<1>6. NotOvertaken'
  BY <1>0, <1>1, <1>3 DEF IdempotencyInv, Tokens, NotOvertaken
<1>7. CommitsNewestExecution'
  BY <1>0, <1>1, <1>3 DEF IdempotencyInv, Tokens, NotOvertaken, CommitsNewestExecution
<1> QED
  BY <1>4, <1>5, <1>6, <1>7 DEF IdempotencyInv

\* Every step of the registry preserves the invariant.
LEMMA IdempotencyStep ==
    ASSUME IdempotencyInv, IdempotencyNext
    PROVE  IdempotencyInv'
<1>1. PICK x \in Executor :
        \/ TakeToken(x)
        \/ \E expected \in State \cup {None}, fp \in Fingerprint :
             \/ Start(x, expected, fp)
             \/ \E new \in {"COMMITTED", "FAILED"} : Report(x, expected, new, fp)
             \/ \E new \in {"RESERVED", "ABANDONED"} : Mark(x, expected, new, fp)
  BY DEF IdempotencyNext
<1>2. CASE TakeToken(x)
  BY <1>2, TakeTokenKeeps
<1>3. ASSUME NEW expected \in State \cup {None}, NEW fp \in Fingerprint,
             Start(x, expected, fp)
      PROVE  IdempotencyInv'
  BY <1>3, StartKeeps
<1>4. ASSUME NEW expected \in State \cup {None}, NEW fp \in Fingerprint,
             NEW new \in {"COMMITTED", "FAILED"}, Report(x, expected, new, fp)
      PROVE  IdempotencyInv'
  <2>1. x \in running /\ record # None /\ epoch[x] # 0
    BY <1>4 DEF Report, IdempotencyInv, Tokens
  <2> QED
    BY <1>4, <2>1, WriteKeeps DEF Report, State
<1>5. ASSUME NEW expected \in State \cup {None}, NEW fp \in Fingerprint,
             NEW new \in {"RESERVED", "ABANDONED"}, Mark(x, expected, new, fp)
      PROVE  IdempotencyInv'
  <2>1. new # "COMMITTED" /\ new \in State
    BY DEF State
  <2> QED
    BY <1>5, <2>1, WriteKeeps DEF Mark
<1> QED
  BY <1>1, <1>2, <1>3, <1>4, <1>5

LEMMA IdempotencyStutter ==
    ASSUME IdempotencyInv, UNCHANGED idempotency_vars
    PROVE  IdempotencyInv'
  BY DEF idempotency_vars, IdempotencyInv, IdempotencyTypeOK, Tokens, NotOvertaken,
         CommitsNewestExecution

\* Whoever could still commit is the executor that started last.
LEMMA OvertakenCannotCommit ==
    ASSUME IdempotencyInv
    PROVE  OneCanCommit
<1> SUFFICES ASSUME NEW x \in Executor, record # None, CanCommit(x)
             PROVE  epoch[x] = owner
  BY DEF OneCanCommit
<1>1. x \in running /\ epoch[x] >= record.fencing_epoch
  BY DEF CanCommit, MayTransition
<1> QED
  BY <1>1 DEF IdempotencyInv, NotOvertaken

\* Through transition_state a committed record never changes again.
LEMMA CommittedStays ==
    ASSUME IdempotencyInv, IdempotencyNext, record # None, record.state = "COMMITTED"
    PROVE  record' = record
<1>1. ASSUME NEW x \in Executor, NEW expected, NEW new \in State, NEW fp,
             transition_state(expected, new, epoch[x], fp)
      PROVE  FALSE
  <2>1. epoch[x] \in Nat
    BY DEF IdempotencyInv, IdempotencyTypeOK
  <2> QED
    BY <1>1, <2>1, TransitionAllowed DEF transition_state, IdempotencyInv
<1>2. \/ \E x \in Executor : TakeToken(x)
      \/ \E x \in Executor, expected \in State \cup {None}, new \in State, fp \in Fingerprint :
           transition_state(expected, new, epoch[x], fp)
  BY DEF IdempotencyNext, Start, Report, Mark, State
<1> QED
  BY <1>1, <1>2 DEF TakeToken

-----------------------------------------------------------------------------

Failing == {"fail_checkpoint", "fail_journal"}
Finalizing == {"verify", "final_checkpoint", "final_idempotency", "final_journal"}

\* Requests that got past staging: the ones the UNIQUE operation id let through.
PastStaging(r) == request[r] \in {"target", "success"} \cup Failing \cup Finalizing

RollbackTypeOK ==
    /\ journal \subseteq OperationId
    /\ request \in [Request -> Stage]
    /\ with_writer \subseteq Request
    /\ target_rollbacks \in {0, 1}

\* One request at most is past staging; what it has done so far decides what
\* the journal holds and whether the target is rolled back.
RollbackInv ==
    /\ RollbackTypeOK
    /\ \A r, s \in Request : PastStaging(r) /\ PastStaging(s) => r = s
    /\ \A r \in Request : PastStaging(r) => "pending-rollback" \in journal
    /\ "pending-rollback" \notin journal => journal = {} /\ target_rollbacks = 0
    /\ \A r \in Request :
         /\ request[r] = "target" => journal = {"pending-rollback"} /\ target_rollbacks = 0
         /\ request[r] \in Failing => journal = {"pending-rollback"} /\ target_rollbacks = 0
         /\ request[r] \in Finalizing => journal = {"pending-rollback"} /\ target_rollbacks = 1
    /\ "rollback" \in journal => target_rollbacks = 1
    /\ "rollback-failed" \in journal => target_rollbacks = 0

\* A statement of a handler that changes neither journal nor target keeps the
\* invariant when its request moves on within the phase it is in.
LEMMA MoveKeeps ==
    ASSUME RollbackInv, NEW r \in Request, NEW stage \in Stage,
           request' = [request EXCEPT ![r] = stage],
           UNCHANGED <<journal, target_rollbacks>>, with_writer' \subseteq Request,
           \/ ~ PastStaging(r) /\ stage \in {"stage_checkpoint", "stage_journal"}
           \/ request[r] \in Failing /\ stage \in Failing
           \/ request[r] \in Finalizing /\ stage \in Finalizing
           \/ stage = "error"
    PROVE  RollbackInv'
<1>1. /\ request' \in [Request -> Stage]
      /\ \A s \in Request : request'[s] = IF s = r THEN stage ELSE request[s]
  BY DEF RollbackInv, RollbackTypeOK
<1>2. \A s \in Request : PastStaging(s)' => PastStaging(s)
  BY <1>1 DEF PastStaging, Failing, Finalizing
<1>3. RollbackTypeOK'
  BY <1>1 DEF RollbackInv, RollbackTypeOK
<1>4. \A s \in Request :
        /\ request'[s] = "target" => request[s] = "target"
        /\ request'[s] \in Failing => request[s] \in Failing
        /\ request'[s] \in Finalizing => request[s] \in Finalizing
  BY <1>1 DEF Failing, Finalizing
<1> QED
  BY <1>2, <1>3, <1>4 DEF RollbackInv

\* The append that lets a request past staging.
LEMMA StageJournalKeeps ==
    ASSUME RollbackInv, NEW r \in Request, StageJournal(r)
    PROVE  RollbackInv'
<1>1. CASE "pending-rollback" \in journal
  <2>1. /\ request' = [request EXCEPT ![r] = "error"]
        /\ UNCHANGED <<journal, with_writer, target_rollbacks>>
    BY <1>1 DEF StageJournal, Append, MayAppend
  <2> QED
    BY <2>1, MoveKeeps DEF Stage, RollbackInv, RollbackTypeOK
<1>2. CASE "pending-rollback" \notin journal
  <2>1. /\ request' = [request EXCEPT ![r] = "target"]
        /\ journal' = {"pending-rollback"} /\ target_rollbacks' = 0
        /\ UNCHANGED with_writer
    BY <1>2 DEF StageJournal, Append, MayAppend, RollbackInv
  <2>2. \A s \in Request : /\ ~ PastStaging(s)
                           /\ request'[s] = IF s = r THEN "target" ELSE request[s]
    BY <1>2, <2>1 DEF RollbackInv, RollbackTypeOK
  <2>3. RollbackTypeOK'
    BY <2>1 DEF RollbackInv, RollbackTypeOK, OperationId, Stage
  <2>4. \A s \in Request : PastStaging(s)' => s = r
    BY <2>2 DEF PastStaging
  <2>5. \A s \in Request : request'[s] \notin Failing /\ request'[s] \notin Finalizing
    BY <2>2 DEF PastStaging, Failing, Finalizing
  <2> QED
    BY <2>1, <2>3, <2>4, <2>5 DEF RollbackInv
<1> QED
  BY <1>1, <1>2

\* The one physical rollback.
LEMMA TargetKeeps ==
    ASSUME RollbackInv, NEW r \in Request, NEW ok \in BOOLEAN, TargetRollback(r, ok)
    PROVE  RollbackInv'
<1>1. /\ request[r] = "target" /\ journal = {"pending-rollback"} /\ target_rollbacks = 0
      /\ PastStaging(r)
  BY DEF TargetRollback, ReadyForTarget, RollbackInv, PastStaging
<1>2. /\ UNCHANGED <<journal, with_writer>>
      /\ request' = [request EXCEPT ![r] = IF ok THEN "verify" ELSE "fail_checkpoint"]
      /\ target_rollbacks' = IF ok THEN 1 ELSE 0
  BY <1>1 DEF TargetRollback, AfterTarget, Goto
<1>3. RollbackTypeOK'
  BY <1>2 DEF RollbackInv, RollbackTypeOK, Stage
<1>4. \A s \in Request \ {r} : request'[s] = request[s] /\ ~ PastStaging(s)
  BY <1>1, <1>2 DEF RollbackInv, RollbackTypeOK
<1>5. \A s \in Request : PastStaging(s)' => s = r
  BY <1>4 DEF PastStaging
<1>6. request'[r] = IF ok THEN "verify" ELSE "fail_checkpoint"
  BY <1>2 DEF RollbackInv, RollbackTypeOK
<1>7. \A s \in Request :
        /\ request'[s] # "target"
        /\ request'[s] \in Failing => ~ ok
        /\ request'[s] \in Finalizing => ok
  BY <1>4, <1>6 DEF PastStaging, Failing, Finalizing
<1> QED
  BY <1>1, <1>2, <1>3, <1>5, <1>7 DEF RollbackInv

\* The append that ends a rollback one way or the other.
LEMMA EndKeeps ==
    ASSUME RollbackInv, NEW r \in Request, FailJournal(r) \/ FinalJournal(r)
    PROVE  RollbackInv'
<1>1. PICK id \in {"rollback-failed", "rollback"}, end \in {"error", "success"} :
        /\ id = "rollback-failed" => request[r] = "fail_journal" /\ end = "error"
        /\ id = "rollback" => request[r] = "final_journal"
        /\ journal = {"pending-rollback"}
        /\ journal' = journal \cup {id}
        /\ request' = [request EXCEPT ![r] = end]
        /\ UNCHANGED <<with_writer, target_rollbacks>>
  <2>1. CASE FailJournal(r)
    <3>1. journal = {"pending-rollback"}
      BY <2>1 DEF FailJournal, RollbackInv, Failing
    <3>2. /\ request[r] = "fail_journal" /\ journal' = journal \cup {"rollback-failed"}
          /\ request' = [request EXCEPT ![r] = "error"]
          /\ UNCHANGED <<with_writer, target_rollbacks>>
      BY <2>1, <3>1 DEF FailJournal, Append, MayAppend, AfterFailure
    <3> QED
      BY <3>1, <3>2
  <2>2. CASE FinalJournal(r)
    <3>1. journal = {"pending-rollback"}
      BY <2>2 DEF FinalJournal, RollbackInv, Finalizing
    <3>2. /\ request[r] = "final_journal" /\ journal' = journal \cup {"rollback"}
          /\ request' = [request EXCEPT ![r] = "success"]
          /\ UNCHANGED <<with_writer, target_rollbacks>>
      BY <2>2, <3>1 DEF FinalJournal, Append, MayAppend
    <3> QED
      BY <3>1, <3>2
  <2> QED
    BY <2>1, <2>2
<1>2. /\ id = "rollback-failed" => target_rollbacks = 0
      /\ id = "rollback" => target_rollbacks = 1
      /\ PastStaging(r)
  BY <1>1 DEF RollbackInv, PastStaging, Failing, Finalizing
<1>3. RollbackTypeOK'
  BY <1>1 DEF RollbackInv, RollbackTypeOK, OperationId, Stage
<1>4. /\ \A s \in Request \ {r} : request'[s] = request[s] /\ ~ PastStaging(s)
      /\ request'[r] = end
  BY <1>1, <1>2 DEF RollbackInv, RollbackTypeOK
<1>5. \A s \in Request : PastStaging(s)' => s = r
  BY <1>4 DEF PastStaging
<1>6. \A s \in Request : /\ request'[s] # "target"
                         /\ request'[s] \notin Failing
                         /\ request'[s] \notin Finalizing
  BY <1>4 DEF PastStaging, Failing, Finalizing
<1> QED
  BY <1>1, <1>2, <1>3, <1>5, <1>6 DEF RollbackInv

LEMMA CrashKeeps ==
    ASSUME RollbackInv, Crash
    PROVE  RollbackInv'
<1>1. /\ UNCHANGED <<journal, with_writer, target_rollbacks>>
      /\ \A s \in Request : request'[s] \in {request[s], "error"}
      /\ request' \in [Request -> Stage]
  BY DEF Crash, RollbackInv, RollbackTypeOK, Stage
<1>2. \A s \in Request : PastStaging(s)' => PastStaging(s)
  BY <1>1 DEF PastStaging, Failing, Finalizing
<1>3. \A s \in Request :
        /\ request'[s] = "target" => request[s] = "target"
        /\ request'[s] \in Failing => request[s] \in Failing
        /\ request'[s] \in Finalizing => request[s] \in Finalizing
  BY <1>1 DEF Failing, Finalizing
<1> QED
  BY <1>1, <1>2, <1>3 DEF RollbackInv, RollbackTypeOK

LEMMA RollbackInitial == Init => RollbackInv
  BY DEF Init, RollbackInv, RollbackTypeOK, PastStaging, Failing, Finalizing, Stage

LEMMA RollbackStep ==
    ASSUME RollbackInv, [Next]_vars
    PROVE  RollbackInv'
<1>1. CASE UNCHANGED <<journal, request, with_writer, target_rollbacks>>
  BY <1>1 DEF RollbackInv, RollbackTypeOK, PastStaging
<1>2. ASSUME NEW r \in Request, NEW b \in BOOLEAN, Admit(r, b) PROVE RollbackInv'
  BY <1>2, MoveKeeps, SMTT(30) DEF Admit, Goto, RollbackInv, RollbackTypeOK, PastStaging, Stage,
                         Failing, Finalizing
<1>3. ASSUME NEW r \in Request, StageCheckpoint(r) PROVE RollbackInv'
  BY <1>3, MoveKeeps DEF StageCheckpoint, Goto, RollbackInv, RollbackTypeOK, PastStaging,
                         Stage, Failing, Finalizing
<1>4. ASSUME NEW r \in Request, FailCheckpoint(r) PROVE RollbackInv'
  BY <1>4, MoveKeeps DEF FailCheckpoint, Goto, RollbackInv, RollbackTypeOK, Stage, Failing
<1>5. ASSUME NEW r \in Request, FinalVerify(r) PROVE RollbackInv'
  BY <1>5, MoveKeeps DEF FinalVerify, Goto, RollbackInv, RollbackTypeOK, Stage, Finalizing
<1>6. ASSUME NEW r \in Request, FinalCheckpoint(r) PROVE RollbackInv'
  BY <1>6, MoveKeeps DEF FinalCheckpoint, Goto, RollbackInv, RollbackTypeOK, Stage, Finalizing
<1>7. ASSUME NEW r \in Request, FinalIdempotency(r) PROVE RollbackInv'
  BY <1>7, MoveKeeps DEF FinalIdempotency, Goto, RollbackInv, RollbackTypeOK, Stage, Finalizing
<1> QED
  BY <1>1, <1>2, <1>3, <1>4, <1>5, <1>6, <1>7, StageJournalKeeps, TargetKeeps, EndKeeps,
     CrashKeeps
  DEF Next, vars, rollback_vars, SaveCheckpoint, SaveRowPosition, Execute

\* The rollback's own statement on the idempotency record forgets neither the
\* epoch nor the owner.
LEMMA AbandonKeeps ==
    ASSUME IdempotencyInv, NEW r \in Request, FinalIdempotency(r)
    PROVE  IdempotencyInv'
<1>1. UNCHANGED <<epoch, latest_epoch, running, owner>>
  BY DEF FinalIdempotency
<1>2. CASE record = None
  BY <1>1, <1>2, IdempotencyStutter DEF FinalIdempotency, idempotency_vars
<1>3. CASE record # None
  <2>1. record \in IdempotencyRecord
    BY <1>3 DEF IdempotencyInv, IdempotencyTypeOK
  <2>2. /\ record' \in IdempotencyRecord /\ record' # None
        /\ record'.state = "ABANDONED"
        /\ record'.fencing_epoch = record.fencing_epoch
    BY <1>3, <2>1, NoneIsNoRecord DEF FinalIdempotency, Abandoned, IdempotencyRecord, State
  <2> QED
    BY <1>1, <1>3, <2>2 DEF IdempotencyInv, IdempotencyTypeOK, Tokens, NotOvertaken,
                            CommitsNewestExecution
<1> QED
  BY <1>2, <1>3

LEMMA IdempotencyUnderRollback ==
    ASSUME IdempotencyInv, [Next]_vars
    PROVE  IdempotencyInv'
<1>1. CASE UNCHANGED idempotency_vars
  BY <1>1, IdempotencyStutter
<1>2. CASE Execute
  BY <1>2, IdempotencyStep DEF Execute
<1>3. ASSUME NEW r \in Request, FinalIdempotency(r) PROVE IdempotencyInv'
  BY <1>3, AbandonKeeps
<1> QED
  BY <1>1, <1>2, <1>3
  DEF Next, vars, SaveCheckpoint, SaveRowPosition, Crash, Admit, TargetRollback,
      StageCheckpoint, StageJournal, FailCheckpoint, FailJournal, FinalVerify,
      FinalCheckpoint, FinalJournal

\* Also while rollbacks abandon the record behind the executors' backs, the
\* idempotency invariant holds.
LEMMA IdempotencyAlways == Spec => []IdempotencyInv
<1>1. Init => IdempotencyInv
  BY IdempotencyInitial DEF Init
<1> QED
  BY <1>1, IdempotencyUnderRollback, PTL DEF Spec

-----------------------------------------------------------------------------

\* Saves, positions and rollbacks leave a well-formed checkpoint row, and the
\* handler's stages and the journal are what they can be.
THEOREM RollbackTypeCorrect == Spec => []TypeOK
<1> DEFINE CheckpointOK == checkpoint \in Checkpoint \cup {None}
<1>1. Init => CheckpointOK
  BY DEF Init
<1>2. CheckpointOK /\ [Next]_vars => CheckpointOK'
  <2> SUFFICES ASSUME CheckpointOK, [Next]_vars PROVE CheckpointOK'
    OBVIOUS
  <2>1. ASSUME NEW job \in JobId, SaveCheckpoint(job) PROVE CheckpointOK'
    BY <2>1 DEF SaveCheckpoint, Checkpoint, JsonStatus
  <2>2. CASE SaveRowPosition
    BY <2>2 DEF SaveRowPosition, Checkpoint
  <2>3. ASSUME NEW s \in JsonStatus, SetJsonStatus(s) PROVE CheckpointOK'
    BY <2>3 DEF SetJsonStatus, HasCheckpoint, Checkpoint
  <2>4. ASSUME NEW r \in Request, StageCheckpoint(r) \/ FailCheckpoint(r) \/ FinalCheckpoint(r)
        PROVE  CheckpointOK'
    BY <2>3, <2>4 DEF StageCheckpoint, FailCheckpoint, FinalCheckpoint, JsonStatus
  <2>5. CASE UNCHANGED checkpoint
    BY <2>5
  <2> QED
    BY <2>1, <2>2, <2>4, <2>5
    DEF Next, vars, rollback_vars, Execute, Crash, Admit, TargetRollback, StageJournal,
        FailJournal, FinalVerify, FinalIdempotency, FinalJournal
<1>3. CheckpointOK /\ RollbackInv /\ IdempotencyInv => TypeOK
  BY DEF RollbackInv, RollbackTypeOK, IdempotencyInv, TypeOK
<1> QED
  BY <1>1, <1>2, <1>3, IdempotencyAlways, RollbackInitial, RollbackStep, PTL DEF Spec

\* However many requests run or are retried, one at most rolls the target
\* back.
THEOREM TargetIsRolledBackOnce == Spec => []TargetRolledBackOnce
<1>1. RollbackInv => TargetRolledBackOnce
  BY DEF RollbackInv, RollbackTypeOK, TargetRolledBackOnce
<1> QED
  BY <1>1, RollbackInitial, RollbackStep, PTL DEF Spec

\* The write-ahead record precedes the physical rollback.
THEOREM IntentIsStagedFirst == Spec => []StagedBeforeTarget
<1>1. RollbackInv => StagedBeforeTarget
  BY DEF RollbackInv, RollbackTypeOK, StagedBeforeTarget
<1> QED
  BY <1>1, RollbackInitial, RollbackStep, PTL DEF Spec

\* The journal never holds both outcomes, whatever the rollbacks of the batch
\* did in between.
THEOREM JournalHasOneOutcome == Spec => []OneOutcome
<1>1. RollbackInv => OneOutcome
  BY DEF RollbackInv, RollbackTypeOK, OneOutcome
<1> QED
  BY <1>1, RollbackInitial, RollbackStep, PTL DEF Spec

\* A tombstone in the journal stands for a target that was rolled back.
THEOREM TombstonesAreTrue == Spec => []TombstoneTellsTruth
<1>1. RollbackInv => TombstoneTellsTruth
  BY DEF RollbackInv, RollbackTypeOK, TombstoneTellsTruth
<1> QED
  BY <1>1, RollbackInitial, RollbackStep, PTL DEF Spec

\* The result on record is that of the newest execution.
THEOREM NewestExecutionCommits == Spec => []CommitsNewestExecution
<1>1. IdempotencyInv => CommitsNewestExecution
  BY DEF IdempotencyInv
<1> QED
  BY <1>1, IdempotencyAlways, PTL

\* transition_state accepts a commit from at most one executor at any time.
THEOREM AtMostOneCanCommit == Spec => []OneCanCommit
<1>1. IdempotencyInv => OneCanCommit
  BY OvertakenCannotCommit
<1> QED
  BY <1>1, IdempotencyAlways, PTL

\* A committed record only changes by the rollback's statement.
THEOREM CommittedStaysUntilRollback == Spec => CommittedUntilRolledBack
<1> DEFINE Kept == record # None /\ record.state = "COMMITTED" =>
                     \/ record' = record
                     \/ \E r \in Request : request[r] = "final_idempotency"
                                           /\ request'[r] = "final_journal"
<1>1. IdempotencyInv /\ RollbackInv /\ [Next]_vars => [Kept]_vars
  <2> SUFFICES ASSUME IdempotencyInv, RollbackInv, Next, record # None,
                      record.state = "COMMITTED", record' # record
               PROVE  \E r \in Request : request[r] = "final_idempotency"
                                         /\ request'[r] = "final_journal"
    OBVIOUS
  <2>1. ~ Execute
    BY CommittedStays DEF Execute
  <2>2. PICK r \in Request : FinalIdempotency(r)
    BY <2>1 DEF Next, idempotency_vars, SaveCheckpoint, SaveRowPosition, Crash, Admit,
       TargetRollback, StageCheckpoint, StageJournal, FailCheckpoint, FailJournal,
       FinalVerify, FinalCheckpoint, FinalJournal
  <2> QED
    BY <2>2 DEF FinalIdempotency, Goto, RollbackInv, RollbackTypeOK
<1> QED
  BY <1>1, IdempotencyAlways, RollbackInitial, RollbackStep, PTL
  DEF Spec, CommittedUntilRolledBack

=============================================================================
