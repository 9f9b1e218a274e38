----------------------- MODULE PlanExecutionProofs -----------------------
(***************************************************************************)
(* Proofs about the plan coordinator, for every plan (any set of nodes and *)
(* any dependencies), any number of threads and every bound: a SUCCEEDED   *)
(* plan has only SUCCEEDED nodes, nodes are invoked in dependency order, a *)
(* CANCELLED plan has nothing to dispatch, a SUCCEEDED node is not put     *)
(* back in line; a completion finds the row it was sent for, a fence is    *)
(* never lifted, and a plan at rest waits for something. For the plans     *)
(* with one root: a superseded call is fenced.                             *)
(***************************************************************************)
EXTENDS PlanExecution, TLAPS

\* Rows of executions that were not created yet are blank.
FutureIsBlank ==
    \A e \in Execs : e > execs =>
        /\ plan[e] = "none"
        /\ \A n \in Nodes : node[e][n] = "BLOCKED" /\ inv[e][n] = 0 /\ att[e][n] = 0

\* A node that is with the engine, or was completed, has been invoked.
StartedIsInvoked ==
    \A e \in Execs, n \in Nodes :
        node[e][n] \in {"DISPATCHED", "SUCCEEDED"} => inv[e][n] # 0

\* A thread works on a row of an existing execution, and one that may write
\* SUCCEEDED works on a node that was invoked.
PointsToRow(l, x, v) ==
    /\ l.pc \notin Resting => l.exec \in 1..x
    /\ l.pc \notin Resting \cup {"check"} => l.node \in Nodes
    /\ \/ l.pc \in {"engine", "task", "progress", "reconcile"}
       \/ l.pc = "ingress" /\ l.out # "malformed"
       => v[l.exec][l.node] # 0
    /\ l.pc \in {"engine", "task", "reconcile", "ingress"} => l.inv # 0
ThreadsPointToRows == \A t \in Threads : PointsToRow(thread[t], execs, inv)

\* The invariant of the rows, and with the threads the inductive invariant.
RowsSafe ==
    /\ FutureIsBlank
    /\ StartedIsInvoked
    /\ PlanSuccessIsReal
    /\ InvokedInOrder
    /\ CancelledPlanIsQuiet
IInv == TypeOK /\ RowsSafe /\ ThreadsPointToRows

\* Building blocks for the types: a thread's locals are rewritten whole, or one
\* field at a time.
LEMMA LocalTyped ==
    ASSUME NEW pc \in Pcs, NEW e \in 0..MaxExecs, NEW n \in Nodes \cup {NoNode},
           NEW a \in 0..MaxAttempts, NEW i \in 0..MaxInvocations,
           NEW out \in EngineAnswer \cup {"none"}
    PROVE  Local(pc, e, n, a, i, out) \in Locals
  BY DEF Local, Locals

\* The two resting locals of a thread are typed.
LEMMA IdleTyped == Idle \in Locals /\ Done \in Locals /\ Idle.pc = "idle" /\ Done.pc = "done"
  BY BoundAssumption DEF Idle, Done, Local, Locals, Pcs, Resting

\* A thread that stops has typed locals.
LEMMA StopTyped ==
    ASSUME thread \in [Threads -> Locals], NEW t \in Threads, Stop(t)
    PROVE  thread' \in [Threads -> Locals]
  BY IdleTyped DEF Stop

\* A thread that moves on keeps typed locals.
LEMMA GotoTyped ==
    ASSUME thread \in [Threads -> Locals], NEW t \in Threads, NEW pc \in Pcs, Goto(t, pc)
    PROVE  thread' \in [Threads -> Locals]
  BY DEF Goto, Locals

\* A resting thread points to no row.
LEMMA RestingPoints ==
    ASSUME NEW x, NEW v
    PROVE  PointsToRow(Idle, x, v) /\ PointsToRow(Done, x, v)
  BY IdleTyped DEF PointsToRow, Resting

\* The initial state satisfies the invariant.
LEMMA PlanInit == Init => IInv
<1> SUFFICES ASSUME Init PROVE IInv
  OBVIOUS
<1>1. req \in [Invocations -> Requests]
  <2>1. NoRequest \in Requests
    BY BoundAssumption DEF NoRequest, Requests
  <2> QED
    BY <2>1 DEF Init
<1>2. /\ plan \in [Execs -> PlanStates]
      /\ node \in [Execs -> [Nodes -> NodeStates]]
      /\ att \in [Execs -> [Nodes -> 0..MaxAttempts]]
      /\ inv \in [Execs -> [Nodes -> 0..MaxInvocations]]
      /\ task \in [Execs -> [Nodes -> 0..MaxInvocations]]
  BY BoundAssumption DEF Init, PlanStates, NodeStates
<1>3. /\ thread \in [Threads -> Locals]
      /\ epoch \in [Attempts -> Nat]
  BY IdleTyped DEF Init
<1>4. TypeOK
  <2>1. mig \in MigStates /\ crashed \in BOOLEAN /\ live \subseteq Invocations
    BY Zenon DEF Init, MigStates
  <2>2. /\ active \in 0..MaxAttempts /\ execs \in 0..MaxExecs /\ atts \in 0..MaxAttempts
        /\ invs \in 0..MaxInvocations /\ commands \in 0..MaxCommands
    BY BoundAssumption DEF Init
  <2> QED
    BY <1>1, <1>2, <1>3, <2>1, <2>2, Zenon DEF TypeOK
<1>5. ThreadsPointToRows
  BY RestingPoints DEF Init, ThreadsPointToRows
<1> QED
  BY <1>4, <1>5 DEF Init, IInv, RowsSafe, FutureIsBlank, StartedIsInvoked, PlanSuccessIsReal, InvokedInOrder,
     CancelledPlanIsQuiet

\* The types survive every step: one lemma per action that writes a row.
LEMMA ActivatedTyped ==
    ASSUME NEW s \in [Nodes -> NodeStates], NEW n \in Nodes
    PROVE  Activated([s EXCEPT ![n] = "SUCCEEDED"]) \in [Nodes -> NodeStates]
  BY DEF Activated, NodeStates

\* Completing one node keeps the node table typed.
LEMMA RowTyped ==
    ASSUME TypeOK, NEW e \in Execs, NEW n \in Nodes,
           node' = [node EXCEPT ![e] = Activated([node[e] EXCEPT ![n] = "SUCCEEDED"])]
    PROVE  node' \in [Execs -> [Nodes -> NodeStates]]
  BY ActivatedTyped DEF TypeOK

\* _mark_node_and_plan_failed keeps the tables typed.
LEMMA FailedTyped ==
    ASSUME TypeOK, NEW e \in Execs, NEW n \in Nodes, Failed(e, n)
    PROVE  node' \in [Execs -> [Nodes -> NodeStates]] /\ plan' \in [Execs -> PlanStates]
<1>1. [node[e] EXCEPT ![n] = "FAILED"] \in [Nodes -> NodeStates]
  BY DEF TypeOK, NodeStates
<1>2. node' = [node EXCEPT ![e] = [node[e] EXCEPT ![n] = "FAILED"]]
  BY DEF Failed, TypeOK
<1> QED
  BY <1>1, <1>2 DEF Failed, TypeOK, PlanStates

\* Start keeps the types.
LEMMA StartTyped ==
    ASSUME TypeOK, NEW t \in Starts, Start(t)
    PROVE  TypeOK'
<1>0. t \in Threads /\ mig' \in MigStates
  BY DEF Start, Threads, MigStates
<1>1. ASSUME NEW e \in ActivePlans,
             thread' = [thread EXCEPT ![t] = Local("check", e, NoNode, 0, 0, "none")]
      PROVE  thread' \in [Threads -> Locals]
  <2>1. Local("check", e, NoNode, 0, 0, "none") \in Locals
    <3>1. "check" \in Pcs /\ e \in 0..MaxExecs /\ 0 \in 0..MaxAttempts /\ 0 \in 0..MaxInvocations
      BY BoundAssumption DEF Pcs, ActivePlans, Execs
    <3> QED
      BY <3>1, LocalTyped
  <2> QED
    BY <1>1, <1>0, <2>1 DEF TypeOK
<1>2. CASE UNCHANGED <<execs, plan, node>>
  <2>1. \E e \in ActivePlans :
           thread' = [thread EXCEPT ![t] = Local("check", e, NoNode, 0, 0, "none")]
    BY <1>2 DEF Start, TypeOK
  <2> QED
    BY <1>0, <1>1, <1>2, <2>1, Zenon DEF Start, TypeOK, engine, faults
<1>3. CASE ActivePlans = {} /\ execs < MaxExecs
  <2>1. execs + 1 \in Execs /\ execs' \in 0..MaxExecs
    BY <1>3, BoundAssumption DEF Start, TypeOK, Execs
  <2>2. Local("check", execs + 1, NoNode, 0, 0, "none") \in Locals
    <3>1. "check" \in Pcs /\ execs + 1 \in 0..MaxExecs /\ 0 \in 0..MaxAttempts /\ 0 \in 0..MaxInvocations
      BY <2>1, BoundAssumption DEF Pcs, Execs
    <3> QED
      BY <3>1, LocalTyped
  <2>3. thread' \in [Threads -> Locals]
    BY <1>0, <1>3, <2>2 DEF Start, TypeOK
  <2>4. plan' \in [Execs -> PlanStates] /\ node' \in [Execs -> [Nodes -> NodeStates]]
    <3>1. [n \in Nodes |-> IF Deps[n] = {} THEN "READY" ELSE "BLOCKED"] \in [Nodes -> NodeStates]
      BY DEF NodeStates
    <3> QED
      BY <1>3, <2>1, <3>1, ZenonT(60) DEF Start, TypeOK, PlanStates
  <2> QED
    BY <1>0, <1>3, <2>1, <2>3, <2>4, Zenon DEF Start, TypeOK, engine, faults
<1> QED
  BY <1>2, <1>3 DEF Start

\* Check keeps the types.
LEMMA CheckTyped ==
    ASSUME TypeOK, NEW t \in Threads, thread[t].exec \in Execs, Check(t)
    PROVE  TypeOK'
<1>1. thread' \in [Threads -> Locals]
  <2>1. CASE Stop(t)
    BY <2>1, StopTyped DEF TypeOK
  <2>2. ASSUME NEW n \in Nodes,
               thread' = [thread EXCEPT ![t] =
                            Local("gate", thread[t].exec, n, att[thread[t].exec][n], 0, "none")]
        PROVE  thread' \in [Threads -> Locals]
    <3>1. /\ "gate" \in Pcs /\ thread[t].exec \in 0..MaxExecs
          /\ att[thread[t].exec][n] \in 0..MaxAttempts /\ 0 \in 0..MaxInvocations
      BY BoundAssumption DEF Pcs, Execs, TypeOK
    <3> QED
      BY <2>2, <3>1, LocalTyped DEF TypeOK
  <2> QED
    BY <2>1, <2>2 DEF Check
<1>2. plan' \in [Execs -> PlanStates] /\ mig' \in MigStates
  BY DEF Check, TypeOK, PlanStates, MigStates, SucceededMig
<1> QED
  BY <1>1, <1>2, Zenon DEF Check, TypeOK, engine, faults

\* Gate keeps the types.
LEMMA GateTyped ==
    ASSUME TypeOK, NEW t \in Threads, Gate(t)
    PROVE  TypeOK'
<1>1. "fail" \in Pcs /\ "claim" \in Pcs
  BY DEF Pcs
<1>2. thread' \in [Threads -> Locals]
  <2>1. CASE Goto(t, "fail") \/ Goto(t, "claim")
    BY <1>1, <2>1, GotoTyped DEF TypeOK
  <2>2. CASE thread' = [thread EXCEPT ![t].pc = "claim", ![t].att = 0]
    <3>1. 0 \in 0..MaxAttempts
      BY BoundAssumption
    <3> QED
      BY <1>1, <2>2, <3>1, ZenonT(60) DEF TypeOK, Locals
  <2> QED
    BY <2>1, <2>2 DEF Gate
<1> QED
  BY <1>2, Zenon DEF Gate, TypeOK, db, engine, faults

\* LostClaim keeps the types.
LEMMA LostClaimTyped ==
    ASSUME TypeOK, NEW t \in Threads, LostClaim(t)
    PROVE  TypeOK'
<1>1. thread' \in [Threads -> Locals]
  BY GotoTyped DEF LostClaim, TypeOK, Pcs
<1> QED
  BY <1>1, Zenon DEF LostClaim, TypeOK, db, engine, faults

\* Claim keeps the types.
LEMMA ClaimTyped ==
    ASSUME TypeOK, NEW t \in Threads, thread[t].exec \in Execs, thread[t].node \in Nodes, Claim(t)
    PROVE  TypeOK'
<1> DEFINE e == thread[t].exec
           n == thread[t].node
           pre == thread[t].att
           a == IF pre # 0 THEN pre ELSE atts + 1
           i == invs + 1
<1>1. pre \in 0..MaxAttempts /\ a \in Attempts /\ i \in Invocations
  <2>1. pre \in 0..MaxAttempts /\ atts \in 0..MaxAttempts /\ invs \in 0..MaxInvocations
    BY DEF TypeOK, Locals
  <2>2. a <= MaxAttempts /\ i <= MaxInvocations
    BY DEF Claim
  <2> QED
    BY <2>1, <2>2, BoundAssumption DEF Attempts, Invocations
<1> HIDE DEF a, i
<1>2. node' \in [Execs -> [Nodes -> NodeStates]]
  BY DEF Claim, TypeOK, NodeStates
<1>3. att' \in [Execs -> [Nodes -> 0..MaxAttempts]] /\ inv' \in [Execs -> [Nodes -> 0..MaxInvocations]]
  <2>1. a \in 0..MaxAttempts /\ i \in 0..MaxInvocations
    BY <1>1 DEF Attempts, Invocations
  <2>2. att' = [att EXCEPT ![e][n] = a] /\ inv' = [inv EXCEPT ![e][n] = i]
    BY DEF Claim, a, i
  <2> QED
    BY <2>1, <2>2 DEF TypeOK
<1>4. /\ atts' \in 0..MaxAttempts /\ active' \in 0..MaxAttempts /\ invs' \in 0..MaxInvocations
      /\ epoch' \in [Attempts -> Nat] /\ plan' \in [Execs -> PlanStates]
  <2>1. /\ atts' \in {atts, a} /\ active' = a /\ invs' = i
        /\ epoch' = epoch \/ epoch' = [epoch EXCEPT ![a] = 1]
        /\ plan' = [plan EXCEPT ![e] = "RUNNING"]
    BY DEF Claim, a, i
  <2> QED
    BY <1>1, <2>1 DEF TypeOK, Attempts, Invocations, PlanStates
<1>5. req' \in [Invocations -> Requests]
  <2>1. [exec |-> e, node |-> n, att |-> a, epoch |-> 1] \in Requests
    BY <1>1, BoundAssumption DEF Requests, Attempts, Execs
  <2> QED
    BY <1>1, <2>1 DEF Claim, TypeOK, a, i
<1>6. live' \subseteq Invocations
  BY <1>1 DEF Claim, TypeOK, i
<1>7. thread' \in [Threads -> Locals]
  <2>1. thread' = [thread EXCEPT ![t].pc = "engine", ![t].inv = i]
    BY DEF Claim, i
  <2>2. "engine" \in Pcs /\ i \in 0..MaxInvocations
    BY <1>1 DEF Pcs, Invocations
  <2> QED
    BY <2>1, <2>2, ZenonT(60) DEF TypeOK, Locals
<1> QED
  BY <1>2, <1>3, <1>4, <1>5, <1>6, <1>7, Zenon DEF Claim, TypeOK, faults

\* EngineAnswers keeps the types.
LEMMA EngineAnswersTyped ==
    ASSUME TypeOK, NEW t \in Threads, EngineAnswers(t)
    PROVE  TypeOK'
<1>1. PICK out \in Answers :
        /\ thread' = [thread EXCEPT ![t].pc = IF out = "raise" THEN "fail" ELSE "task", ![t].out = out]
        /\ live' = IF out = "progress" THEN live ELSE live \ {thread[t].inv}
  BY DEF EngineAnswers
<1>2. (IF out = "raise" THEN "fail" ELSE "task") \in Pcs /\ out \in EngineAnswer \cup {"none"}
  BY PlanAssumption DEF Pcs
<1>3. thread' \in [Threads -> Locals] /\ live' \subseteq Invocations
  <2> DEFINE p == IF out = "raise" THEN "fail" ELSE "task"
  <2>1. p \in Pcs /\ thread' = [thread EXCEPT ![t].pc = p, ![t].out = out]
    BY <1>1, <1>2
  <2> HIDE DEF p
  <2>2. live' \subseteq Invocations
    BY <1>1 DEF TypeOK
  <2>3. thread' \in [Threads -> Locals]
    BY <1>2, <2>1, ZenonT(60) DEF TypeOK, Locals
  <2> QED
    BY <2>2, <2>3
<1> QED
  BY <1>3, Zenon DEF EngineAnswers, TypeOK, db, faults

\* RecordTask keeps the types.
LEMMA RecordTaskTyped ==
    ASSUME TypeOK, NEW t \in Threads, thread[t].exec \in Execs, thread[t].node \in Nodes, RecordTask(t)
    PROVE  TypeOK'
<1>1. thread' \in [Threads -> Locals]
  BY GotoTyped DEF RecordTask, TypeOK, Pcs
<1>2. task' \in [Execs -> [Nodes -> 0..MaxInvocations]]
  <2>1. thread[t].inv \in 0..MaxInvocations
    BY DEF TypeOK, Locals
  <2> QED
    <3>1. CASE task' = [task EXCEPT ![thread[t].exec][thread[t].node] = thread[t].inv]
      BY <2>1, <3>1 DEF TypeOK
    <3>2. CASE UNCHANGED task
      BY <3>2 DEF TypeOK
    <3> QED
      BY <3>1, <3>2 DEF RecordTask
<1> QED
  BY <1>1, <1>2, Zenon DEF RecordTask, TypeOK, engine, faults

\* InProgress keeps the types.
LEMMA InProgressTyped ==
    ASSUME TypeOK, NEW t \in Threads, InProgress(t)
    PROVE  TypeOK'
<1>1. thread' \in [Threads -> Locals]
  BY StopTyped DEF InProgress, TypeOK
<1> QED
  BY <1>1, Zenon DEF InProgress, TypeOK, db, engine, faults

\* Reconcile keeps the types.
LEMMA ReconcileTyped ==
    ASSUME TypeOK, NEW t \in Threads, thread[t].exec \in Execs, thread[t].node \in Nodes, Reconcile(t)
    PROVE  TypeOK'
<1>1. thread' \in [Threads -> Locals]
  <2>1. Goto(t, "fail") \/ Goto(t, "check") \/ Stop(t)
    BY DEF Reconcile, AfterSuccess
  <2> QED
    BY <2>1, StopTyped, GotoTyped DEF TypeOK, Pcs
<1>2. node' \in [Execs -> [Nodes -> NodeStates]] /\ plan' \in [Execs -> PlanStates]
  <2>1. CASE UNCHANGED <<plan, node>>
    BY <2>1 DEF TypeOK
  <2>2. CASE /\ node' = [node EXCEPT ![thread[t].exec] =
                            Activated([node[thread[t].exec] EXCEPT ![thread[t].node] = "SUCCEEDED"])]
             /\ UNCHANGED plan
    BY <2>2, RowTyped DEF TypeOK, NodeStates
  <2>3. CASE Failed(thread[t].exec, thread[t].node)
    BY <2>3, FailedTyped
  <2> QED
    BY <2>1, <2>2, <2>3 DEF Reconcile
<1> QED
  BY <1>1, <1>2, Zenon DEF Reconcile, TypeOK, engine, faults

\* MarkFailed keeps the types.
LEMMA MarkFailedTyped ==
    ASSUME TypeOK, NEW t \in Threads, thread[t].exec \in Execs, thread[t].node \in Nodes, MarkFailed(t)
    PROVE  TypeOK'
<1>1. thread' \in [Threads -> Locals]
  BY StopTyped DEF MarkFailed, TypeOK
<1>2. node' \in [Execs -> [Nodes -> NodeStates]] /\ plan' \in [Execs -> PlanStates]
  BY FailedTyped DEF MarkFailed
<1> QED
  BY <1>1, <1>2, Zenon DEF MarkFailed, TypeOK, engine, faults

\* Post keeps the types.
LEMMA PostTyped ==
    ASSUME TypeOK, NEW t \in Posts, NEW i \in Invocations, NEW out \in Answers, Post(t, i, out)
    PROVE  TypeOK'
<1>1. t \in Threads /\ live' \subseteq Invocations
  BY DEF Threads, Post, TypeOK
<1>2. thread' \in [Threads -> Locals]
  <2>1. CASE Stop(t)
    BY <1>1, <2>1, StopTyped DEF TypeOK
  <2>2. ASSUME NEW r \in Rows(i),
               thread' = [thread EXCEPT ![t] =
                            Local("ingress", r[1], r[2], att[r[1]][r[2]], i,
                                  IF inv[r[1]][r[2]] = i THEN out ELSE "malformed")]
        PROVE  thread' \in [Threads -> Locals]
    <3>1. r[1] \in Execs /\ r[2] \in Nodes
      BY DEF Rows
    <3>2. /\ "ingress" \in Pcs /\ r[1] \in 0..MaxExecs /\ att[r[1]][r[2]] \in 0..MaxAttempts
          /\ i \in 0..MaxInvocations
          /\ (IF inv[r[1]][r[2]] = i THEN out ELSE "malformed") \in EngineAnswer \cup {"none"}
      BY <3>1, PlanAssumption DEF Pcs, Execs, Invocations, TypeOK, EngineAnswer
    <3> QED
      BY <1>1, <2>2, <3>1, <3>2, LocalTyped DEF TypeOK
  <2> QED
    BY <2>1, <2>2 DEF Post
<1> QED
  BY <1>1, <1>2, Zenon DEF Post, TypeOK, db, faults

\* Ingress keeps the types.
LEMMA IngressTyped ==
    ASSUME TypeOK, NEW t \in Threads, thread[t].exec \in Execs, thread[t].node \in Nodes, Ingress(t)
    PROVE  TypeOK'
<1>1. thread' \in [Threads -> Locals]
  <2>1. Goto(t, "fail") \/ Goto(t, "check") \/ Stop(t)
    BY DEF Ingress, AfterSuccess
  <2> QED
    BY <2>1, StopTyped, GotoTyped DEF TypeOK, Pcs
<1>2. node' \in [Execs -> [Nodes -> NodeStates]]
  <2>1. CASE UNCHANGED node
    BY <2>1 DEF TypeOK
  <2>2. CASE node' = [node EXCEPT ![thread[t].exec] =
                        Activated([node[thread[t].exec] EXCEPT ![thread[t].node] = "SUCCEEDED"])]
    BY <2>2, ActivatedTyped DEF TypeOK, NodeStates
  <2>3. CASE Failed(thread[t].exec, thread[t].node)
    BY <2>3, FailedTyped
  <2> QED
    BY <2>1, <2>2, <2>3 DEF Ingress
<1>3. plan' \in [Execs -> PlanStates] /\ mig' \in MigStates
  <2>1. \/ UNCHANGED <<plan, mig>>
        \/ plan' = [plan EXCEPT ![thread[t].exec] = "SUCCEEDED"] /\ mig' = SucceededMig
        \/ plan' = [plan EXCEPT ![thread[t].exec] = "FAILED"] /\ UNCHANGED mig
    BY DEF Ingress, Failed
  <2> QED
    BY <2>1 DEF TypeOK, PlanStates, MigStates, SucceededMig
<1> QED
  BY <1>1, <1>2, <1>3, Zenon DEF Ingress, TypeOK, engine, faults

\* The command counter stays within its bound.
LEMMA CommandTyped == TypeOK /\ Command => commands' \in 0..MaxCommands
  BY BoundAssumption DEF TypeOK, Command

\* revoke_lease keeps the lease table typed.
LEMMA RevokedTyped ==
    ASSUME TypeOK, NEW a
    PROVE  Revoked(a) \in [Attempts -> Nat]
  BY DEF TypeOK, Revoked

\* Cancel keeps the types.
LEMMA CancelTyped == TypeOK /\ Cancel => TypeOK'
<1> SUFFICES ASSUME TypeOK, Cancel PROVE TypeOK'
  OBVIOUS
<1>1. epoch' \in [Attempts -> Nat] /\ active' \in 0..MaxAttempts
  BY RevokedTyped, BoundAssumption DEF Cancel, TypeOK
<1>2. plan' \in [Execs -> PlanStates]
  BY DEF Cancel, TypeOK, PlanStates
<1>3. node' \in [Execs -> [Nodes -> NodeStates]]
  <2>1. \A e \in Execs : CancelledNodes(node[e]) \in [Nodes -> NodeStates]
    BY DEF CancelledNodes, TypeOK, NodeStates
  <2> QED
    BY <2>1 DEF Cancel, TypeOK
<1>4. mig' \in MigStates /\ live' \subseteq Invocations
  BY DEF Cancel, TypeOK, MigStates
<1>5. commands' \in 0..MaxCommands
  BY CommandTyped DEF Cancel
<1> QED
  BY <1>1, <1>2, <1>3, <1>4, <1>5, Zenon DEF Cancel, TypeOK

\* Recover keeps the types.
LEMMA RecoverTyped ==
    ASSUME TypeOK, NEW source, NEW checkpoint, Recover(source, checkpoint)
    PROVE  TypeOK'
<1>1. atts + 1 \in Attempts /\ atts' \in 0..MaxAttempts /\ active' \in 0..MaxAttempts
  BY BoundAssumption DEF Recover, TypeOK, Attempts
<1>2. epoch' \in [Attempts -> Nat] /\ mig' \in MigStates
  <2>1. (IF source # 0 THEN Revoked(source) ELSE epoch) \in [Attempts -> Nat]
    BY RevokedTyped DEF TypeOK
  <2> QED
    BY <1>1, <2>1 DEF Recover, MigStates
<1>3. /\ plan' \in [Execs -> PlanStates]
      /\ node' \in [Execs -> [Nodes -> NodeStates]]
      /\ att' \in [Execs -> [Nodes -> 0..MaxAttempts]]
  <2>1. CASE execs = 0
    BY <2>1, Zenon DEF Recover, TypeOK
  <2>2. CASE execs # 0
    <3>1. execs \in Execs
      BY <2>2, BoundAssumption DEF TypeOK, Execs
    <3>2. Recovered(node[execs]) \in [Nodes -> NodeStates]
      BY DEF Recovered, NodeStates
    <3>3. plan' \in [Execs -> PlanStates] /\ node' \in [Execs -> [Nodes -> NodeStates]]
      BY <2>2, <3>1, <3>2 DEF Recover, TypeOK, PlanStates
    <3> DEFINE s == Recovered(node[execs])
               f == Rebound(execs, Target(execs, source, checkpoint, s), atts + 1, s)
    <3>4. att' = [att EXCEPT ![execs] = f]
      BY <2>2 DEF Recover
    <3>5. f \in [Nodes -> 0..MaxAttempts]
      <4>1. atts + 1 \in 0..MaxAttempts /\ 0 \in 0..MaxAttempts
        BY <1>1, BoundAssumption DEF Attempts
      <4>2. \A n \in Nodes : att[execs][n] \in 0..MaxAttempts
        BY <3>1 DEF TypeOK
      <4> QED
        BY <4>1, <4>2 DEF Rebound
    <3> HIDE DEF f
    <3> QED
      BY <3>1, <3>3, <3>4, <3>5 DEF TypeOK
  <2> QED
    BY <2>1, <2>2
<1>4. commands' \in 0..MaxCommands
  BY CommandTyped DEF Recover
<1> QED
  BY <1>1, <1>2, <1>3, <1>4, Zenon DEF Recover, TypeOK, engine

\* Crash keeps the types.
LEMMA CrashTyped == TypeOK /\ Crash => TypeOK'
<1> SUFFICES ASSUME TypeOK, Crash PROVE TypeOK'
  OBVIOUS
<1>1. thread' \in [Threads -> Locals]
  BY IdleTyped DEF Crash, TypeOK
<1>2. commands' \in 0..MaxCommands /\ live' \subseteq Invocations
  BY CommandTyped DEF Crash
<1> QED
  BY <1>1, <1>2, Zenon DEF Crash, TypeOK, db

\* Pause and resume keep the types.
LEMMA PauseTyped == TypeOK /\ (Pause \/ Resume) => TypeOK'
<1> SUFFICES ASSUME TypeOK, Pause \/ Resume PROVE TypeOK'
  OBVIOUS
<1>1. commands' \in 0..MaxCommands /\ mig' \in MigStates
  BY CommandTyped DEF Pause, Resume, MigStates
<1> QED
  BY <1>1, Zenon DEF Pause, Resume, TypeOK, engine

\* The rows survive every step. What matters of a step is how it rewrites the
\* rows of one execution: not at all, by a completed or accepted node, by a
\* failed one, by a claim, by a new execution, a cancellation or a recovery.
LEMMA RowsKept ==
    ASSUME RowsSafe, UNCHANGED <<execs, plan, node, att, inv>>
    PROVE  RowsSafe'
  BY DEF RowsSafe, FutureIsBlank, StartedIsInvoked, PlanSuccessIsReal, InvokedInOrder,
         CancelledPlanIsQuiet

\* What the success of row n changes when activation does not raise: the only
\* rows it can make READY depend on nothing.
OnlyActivated(e, n) ==
    /\ \A f \in Execs : f # e => node'[f] = node[f]
    /\ node'[e][n] = "SUCCEEDED"
    /\ \A m \in Nodes : m # n =>
          \/ node'[e][m] = node[e][m]
          \/ node[e][m] = "BLOCKED" /\ node'[e][m] = "READY" /\ Deps[m] = {}

\* Activation does that.
LEMMA ActivatedEffect ==
    ASSUME TypeOK, NEW e \in Execs, NEW n \in Nodes,
           ~ActivationRaises([node[e] EXCEPT ![n] = "SUCCEEDED"]),
           node' = [node EXCEPT ![e] = Activated([node[e] EXCEPT ![n] = "SUCCEEDED"])]
    PROVE  OnlyActivated(e, n)
<1> DEFINE s == [node[e] EXCEPT ![n] = "SUCCEEDED"]
<1>1. node[e] \in [Nodes -> NodeStates]
  BY DEF TypeOK
<1>2. node'[e] = Activated(s) /\ \A f \in Execs : f # e => node'[f] = node[f]
  BY DEF TypeOK
<1>3. s[n] = "SUCCEEDED" /\ \A m \in Nodes : m # n => s[m] = node[e][m]
  BY <1>1
<1>4. \A m \in Nodes : s[m] = "BLOCKED" => Deps[m] = {}
  BY DEF ActivationRaises
<1> HIDE DEF s
<1> QED
  BY <1>2, <1>3, <1>4 DEF Activated, OnlyActivated

\* Activation after a node succeeded keeps the rows in order.
LEMMA ActivatedSafe ==
    ASSUME TypeOK, RowsSafe,
           NEW e \in 1..execs, NEW n \in Nodes, inv[e][n] # 0,
           ~ActivationRaises([node[e] EXCEPT ![n] = "SUCCEEDED"]),
           node' = [node EXCEPT ![e] = Activated([node[e] EXCEPT ![n] = "SUCCEEDED"])],
           \/ plan' = plan
           \/ plan' = [plan EXCEPT ![e] = "SUCCEEDED"] /\ AllSucceeded(node'[e]),
           UNCHANGED <<execs, att, inv>>
    PROVE  RowsSafe'
<1>1. e \in Execs /\ execs \in Nat
  BY BoundAssumption DEF TypeOK, Execs
<1>2. /\ \A f \in Execs : f # e => node'[f] = node[f]
      /\ node'[e][n] = "SUCCEEDED"
      /\ \A m \in Nodes : m # n =>
            \/ node'[e][m] = node[e][m]
            \/ node[e][m] = "BLOCKED" /\ node'[e][m] = "READY" /\ Deps[m] = {}
  <2>1. OnlyActivated(e, n)
    BY <1>1, ActivatedEffect
  <2> QED
    BY <2>1 DEF OnlyActivated
<1>p. /\ \A f \in Execs : f # e => plan'[f] = plan[f]
      /\ \/ plan'[e] = plan[e]
         \/ plan'[e] = "SUCCEEDED" /\ \A m \in Nodes : node'[e][m] = "SUCCEEDED"
  BY <1>1 DEF TypeOK, AllSucceeded
<1>3. FutureIsBlank'
  <2> SUFFICES ASSUME NEW f \in Execs, f > execs
               PROVE  /\ plan'[f] = "none"
                      /\ \A m \in Nodes : node'[f][m] = "BLOCKED" /\ inv'[f][m] = 0 /\ att'[f][m] = 0
    BY DEF FutureIsBlank
  <2>1. f # e
    BY <1>1 DEF Execs
  <2> QED
    BY <1>2, <1>p, <2>1 DEF RowsSafe, FutureIsBlank
<1>4. StartedIsInvoked'
  BY <1>1, <1>2 DEF RowsSafe, StartedIsInvoked
<1>5. PlanSuccessIsReal'
  <2> SUFFICES ASSUME NEW f \in Execs, plan'[f] = "SUCCEEDED", NEW m \in Nodes
               PROVE  node'[f][m] = "SUCCEEDED"
    BY DEF PlanSuccessIsReal
  <2>1. plan[f] = "SUCCEEDED" => node[f][m] = "SUCCEEDED"
    BY DEF RowsSafe, PlanSuccessIsReal
  <2> QED
    BY <1>2, <1>p, <2>1
<1>6. InvokedInOrder'
  BY <1>1, <1>2 DEF RowsSafe, InvokedInOrder
<1>7. CancelledPlanIsQuiet'
  <2> SUFFICES ASSUME NEW f \in Execs, plan'[f] = "CANCELLED", NEW m \in Nodes
               PROVE  node'[f][m] \in {"SUCCEEDED", "FAILED", "CANCELLED"}
    BY DEF CancelledPlanIsQuiet
  <2>1. plan[f] = "CANCELLED" => node[f][m] \in {"SUCCEEDED", "FAILED", "CANCELLED"}
    BY DEF RowsSafe, CancelledPlanIsQuiet
  <2> QED
    BY <1>2, <1>p, <2>1
<1> QED
  BY <1>3, <1>4, <1>5, <1>6, <1>7 DEF RowsSafe

\* Failing a node and its plan keeps the rows in order.
LEMMA FailedSafe ==
    ASSUME TypeOK, RowsSafe, NEW e \in 1..execs, NEW n \in Nodes, Failed(e, n),
           UNCHANGED <<execs, att, inv>>
    PROVE  RowsSafe'
<1>1. e \in Execs /\ execs \in Nat
  BY BoundAssumption DEF TypeOK, Execs
<1>2. /\ \A f \in Execs : f # e => node'[f] = node[f] /\ plan'[f] = plan[f]
      /\ plan'[e] = "FAILED" /\ node'[e][n] = "FAILED"
      /\ \A m \in Nodes : m # n => node'[e][m] = node[e][m]
  BY <1>1 DEF Failed, TypeOK
<1>3. FutureIsBlank'
  BY <1>1, <1>2 DEF RowsSafe, FutureIsBlank, TypeOK
<1>4. StartedIsInvoked'
  BY <1>1, <1>2 DEF RowsSafe, StartedIsInvoked
<1>5. PlanSuccessIsReal' /\ CancelledPlanIsQuiet'
  BY <1>1, <1>2 DEF RowsSafe, PlanSuccessIsReal, CancelledPlanIsQuiet
<1>6. InvokedInOrder'
  BY <1>1, <1>2 DEF RowsSafe, InvokedInOrder
<1> QED
  BY <1>3, <1>4, <1>5, <1>6 DEF RowsSafe

\* A claim leaves the READY node DISPATCHED under a new invocation.
LEMMA ClaimSafe ==
    ASSUME TypeOK, RowsSafe, NEW t \in Threads, thread[t].exec \in 1..execs, thread[t].node \in Nodes,
           Claim(t)
    PROVE  /\ RowsSafe'
           /\ \A e \in Execs, n \in Nodes : inv[e][n] # 0 => inv'[e][n] # 0
           /\ inv'[thread[t].exec][thread[t].node] # 0
<1> DEFINE e == thread[t].exec
           n == thread[t].node
<1>1. e \in Execs /\ execs \in Nat /\ invs + 1 # 0
  BY BoundAssumption DEF TypeOK, Execs
<1>2. /\ \A f \in Execs : f # e => node'[f] = node[f] /\ plan'[f] = plan[f] /\ inv'[f] = inv[f]
                                  /\ att'[f] = att[f]
      /\ plan'[e] = "RUNNING" /\ node'[e][n] = "DISPATCHED" /\ inv'[e][n] # 0
      /\ \A m \in Nodes : m # n => node'[e][m] = node[e][m] /\ inv'[e][m] = inv[e][m]
  BY <1>1 DEF Claim, TypeOK
<1>3. node[e][n] = "READY" /\ execs' = execs /\ e <= execs
  BY DEF Claim
<1> HIDE DEF e, n
<1>4. \A m \in Nodes : Deps[m] \subseteq Nodes
  BY PlanAssumption
<1>5. \A f \in Execs, m \in Nodes : inv[f][m] # 0 => inv'[f][m] # 0
  BY <1>1, <1>2
<1>6. FutureIsBlank'
  <2> SUFFICES ASSUME NEW f \in Execs, f > execs
               PROVE  /\ plan'[f] = "none"
                      /\ \A m \in Nodes : node'[f][m] = "BLOCKED" /\ inv'[f][m] = 0 /\ att'[f][m] = 0
    BY <1>3 DEF FutureIsBlank
  <2>1. f # e
    BY <1>1, <1>3 DEF Execs
  <2> QED
    BY <1>2, <2>1 DEF RowsSafe, FutureIsBlank
<1>7. StartedIsInvoked'
  BY <1>1, <1>2, <1>5 DEF RowsSafe, StartedIsInvoked
<1>8. PlanSuccessIsReal' /\ CancelledPlanIsQuiet'
  BY <1>1, <1>2 DEF RowsSafe, PlanSuccessIsReal, CancelledPlanIsQuiet
<1>9. InvokedInOrder'
  <2> SUFFICES ASSUME NEW f \in Execs, NEW m \in Nodes, node'[f][m] = "READY" \/ inv'[f][m] # 0,
                      NEW d \in Deps[m]
               PROVE  inv'[f][d] # 0
    BY DEF InvokedInOrder
  <2>1. node[f][m] = "READY" \/ inv[f][m] # 0
    BY <1>1, <1>2, <1>3 DEF e, n
  <2>2. inv[f][d] # 0
    BY <2>1 DEF RowsSafe, InvokedInOrder
  <2> QED
    BY <1>4, <1>5, <2>2
<1> QED
  BY <1>2, <1>5, <1>6, <1>7, <1>8, <1>9 DEF RowsSafe, e, n

\* A new execution: its roots are READY, and roots depend on nothing.
LEMMA CreatedSafe ==
    ASSUME TypeOK, RowsSafe, execs < MaxExecs,
           execs' = execs + 1,
           plan' = [plan EXCEPT ![execs + 1] = "ACCEPTED"],
           node' = [node EXCEPT ![execs + 1] =
                      [n \in Nodes |-> IF Deps[n] = {} THEN "READY" ELSE "BLOCKED"]],
           UNCHANGED <<att, inv>>
    PROVE  RowsSafe'
<1> DEFINE e == execs + 1
<1>1. e \in Execs /\ execs \in Nat /\ e > execs
  BY BoundAssumption DEF TypeOK, Execs
<1>2. /\ \A f \in Execs : f # e => node'[f] = node[f] /\ plan'[f] = plan[f]
      /\ plan'[e] = "ACCEPTED"
      /\ \A m \in Nodes : node'[e][m] = IF Deps[m] = {} THEN "READY" ELSE "BLOCKED"
  BY <1>1 DEF TypeOK
<1>3. \A m \in Nodes : inv[e][m] = 0
  BY <1>1 DEF RowsSafe, FutureIsBlank
<1>4. FutureIsBlank'
  <2> SUFFICES ASSUME NEW f \in Execs, f > e
               PROVE  /\ plan'[f] = "none"
                      /\ \A m \in Nodes : node'[f][m] = "BLOCKED" /\ inv'[f][m] = 0 /\ att'[f][m] = 0
    BY DEF FutureIsBlank
  <2>1. f # e /\ f > execs
    BY <1>1 DEF Execs
  <2> QED
    BY <1>2, <2>1 DEF RowsSafe, FutureIsBlank
<1> HIDE DEF e
<1>5. StartedIsInvoked'
  BY <1>1, <1>2 DEF RowsSafe, StartedIsInvoked
<1>6. PlanSuccessIsReal' /\ CancelledPlanIsQuiet'
  BY <1>1, <1>2 DEF RowsSafe, PlanSuccessIsReal, CancelledPlanIsQuiet
<1>7. InvokedInOrder'
  <2> SUFFICES ASSUME NEW f \in Execs, NEW m \in Nodes, node'[f][m] = "READY" \/ inv[f][m] # 0,
                      NEW d \in Deps[m]
               PROVE  inv[f][d] # 0
    BY DEF InvokedInOrder
  <2>1. CASE f = e
    BY <1>2, <1>3, <2>1
  <2>2. CASE f # e
    BY <1>2, <2>2 DEF RowsSafe, InvokedInOrder
  <2> QED
    BY <2>1, <2>2
<1> QED
  BY <1>4, <1>5, <1>6, <1>7 DEF RowsSafe

\* The check closes a plan whose nodes all succeeded, or touches no row.
LEMMA CheckSafe ==
    ASSUME TypeOK, RowsSafe, NEW t \in Threads, thread[t].exec \in 1..execs, Check(t)
    PROVE  RowsSafe'
<1> DEFINE e == thread[t].exec
<1>0. e \in Execs /\ execs \in Nat /\ e <= execs
  BY BoundAssumption DEF TypeOK, Execs
<1>1. CASE UNCHANGED plan
  BY <1>1, RowsKept DEF Check
<1>2. CASE plan' = [plan EXCEPT ![e] = "SUCCEEDED"] /\ AllSucceeded(node[e])
  <2>1. UNCHANGED <<execs, node, att, inv>>
    BY DEF Check
  <2>2. plan'[e] = "SUCCEEDED" /\ \A f \in Execs : f # e => plan'[f] = plan[f]
    BY <1>0, <1>2 DEF TypeOK
  <2>3. FutureIsBlank'
    <3> SUFFICES ASSUME NEW f \in Execs, f > execs
                 PROVE  /\ plan'[f] = "none"
                        /\ \A m \in Nodes : node[f][m] = "BLOCKED" /\ inv[f][m] = 0 /\ att[f][m] = 0
      BY <2>1 DEF FutureIsBlank
    <3>1. f # e
      BY <1>0 DEF Execs
    <3> QED
      BY <2>2, <3>1 DEF RowsSafe, FutureIsBlank
  <2>4. StartedIsInvoked' /\ InvokedInOrder'
    BY <2>1 DEF RowsSafe, StartedIsInvoked, InvokedInOrder
  <2>5. PlanSuccessIsReal' /\ CancelledPlanIsQuiet'
    BY <1>0, <1>2, <2>1, <2>2 DEF RowsSafe, PlanSuccessIsReal, CancelledPlanIsQuiet, AllSucceeded
  <2> QED
    BY <2>3, <2>4, <2>5 DEF RowsSafe
<1> QED
  BY <1>1, <1>2 DEF Check

\* A cancellation keeps the rows in order.
LEMMA CancelSafe ==
    ASSUME TypeOK, RowsSafe, Cancel
    PROVE  RowsSafe'
<1>1. /\ UNCHANGED <<execs, att, inv>>
      /\ \A e \in Execs : e \in ActivePlans => plan'[e] = "CANCELLED" /\ node'[e] = CancelledNodes(node[e])
      /\ \A e \in Execs : e \notin ActivePlans => plan'[e] = plan[e] /\ node'[e] = node[e]
  BY DEF Cancel
<1>2. \A e \in Execs, n \in Nodes :
        node[e][n] \in {"BLOCKED", "READY", "DISPATCHED", "SUCCEEDED", "FAILED", "CANCELLED"}
  BY DEF TypeOK, NodeStates
<1>3. \A e \in Execs, n \in Nodes : e \in ActivePlans =>
        \/ node'[e][n] = node[e][n] /\ node[e][n] \in {"SUCCEEDED", "FAILED", "CANCELLED"}
        \/ node'[e][n] = "CANCELLED"
  <2> SUFFICES ASSUME NEW e \in Execs, NEW n \in Nodes, e \in ActivePlans
               PROVE  \/ /\ node'[e][n] = node[e][n]
                         /\ node[e][n] \in {"SUCCEEDED", "FAILED", "CANCELLED"}
                      \/ node'[e][n] = "CANCELLED"
    OBVIOUS
  <2>1. node'[e][n] = IF node[e][n] \in {"BLOCKED", "READY", "DISPATCHED"}
                      THEN "CANCELLED" ELSE node[e][n]
    BY <1>1 DEF CancelledNodes
  <2> QED
    BY <1>2, <2>1
<1>4. FutureIsBlank'
  <2> SUFFICES ASSUME NEW e \in Execs, e > execs
               PROVE  /\ plan'[e] = "none"
                      /\ \A m \in Nodes : node'[e][m] = "BLOCKED" /\ inv[e][m] = 0 /\ att[e][m] = 0
    BY <1>1 DEF FutureIsBlank
  <2>1. e \notin ActivePlans
    BY DEF RowsSafe, FutureIsBlank, ActivePlans
  <2> QED
    BY <1>1, <2>1 DEF RowsSafe, FutureIsBlank
<1>5. StartedIsInvoked'
  BY <1>1, <1>3 DEF RowsSafe, StartedIsInvoked
<1>6. PlanSuccessIsReal'
  BY <1>1 DEF RowsSafe, PlanSuccessIsReal
<1>7. InvokedInOrder'
  BY <1>1, <1>3 DEF RowsSafe, InvokedInOrder
<1>8. CancelledPlanIsQuiet'
  <2> SUFFICES ASSUME NEW e \in Execs, plan'[e] = "CANCELLED", NEW n \in Nodes
               PROVE  node'[e][n] \in {"SUCCEEDED", "FAILED", "CANCELLED"}
    BY DEF CancelledPlanIsQuiet
  <2> QED
    BY <1>1, <1>3 DEF RowsSafe, CancelledPlanIsQuiet
<1> QED
  BY <1>4, <1>5, <1>6, <1>7, <1>8 DEF RowsSafe

\* After a recovery a READY node's dependencies are SUCCEEDED, so were invoked.
LEMMA RecoverSafe ==
    ASSUME TypeOK, RowsSafe, NEW source, NEW checkpoint, Recover(source, checkpoint)
    PROVE  RowsSafe'
<1>1. CASE execs = 0
  BY <1>1, RowsKept DEF Recover
<1>2. CASE execs # 0
  <2>1. execs \in Execs /\ execs \in Nat
    BY <1>2, BoundAssumption DEF TypeOK, Execs
  <2>2. /\ UNCHANGED <<execs, inv>>
        /\ \A f \in Execs : f # execs => node'[f] = node[f] /\ plan'[f] = plan[f] /\ att'[f] = att[f]
        /\ plan'[execs] = "ACCEPTED" /\ node'[execs] = Recovered(node[execs])
    BY <1>2, <2>1 DEF Recover, TypeOK
  <2>3. \A m \in Nodes :
          \/ node'[execs][m] = "SUCCEEDED" /\ node[execs][m] = "SUCCEEDED"
          \/ node'[execs][m] = "READY" /\ \A d \in Deps[m] : node[execs][d] = "SUCCEEDED"
          \/ node'[execs][m] = "BLOCKED"
    BY <2>2 DEF Recovered
  <2>4. \A m \in Nodes : Deps[m] \subseteq Nodes
    BY PlanAssumption
  <2>5. FutureIsBlank'
    BY <2>1, <2>2 DEF RowsSafe, FutureIsBlank, Execs
  <2>6. StartedIsInvoked'
    BY <2>1, <2>2, <2>3 DEF RowsSafe, StartedIsInvoked
  <2>7. PlanSuccessIsReal' /\ CancelledPlanIsQuiet'
    BY <2>1, <2>2 DEF RowsSafe, PlanSuccessIsReal, CancelledPlanIsQuiet
  <2>8. InvokedInOrder'
    BY <2>1, <2>2, <2>3, <2>4 DEF RowsSafe, InvokedInOrder, StartedIsInvoked
  <2> QED
    BY <2>5, <2>6, <2>7, <2>8 DEF RowsSafe
<1> QED
  BY <1>1, <1>2

\* The threads: executions and invocations only grow, so a thread that stands
\* still goes on pointing to its row.
Grows ==
    /\ execs' \in Nat /\ execs <= execs'
    /\ \A e \in Execs, n \in Nodes : inv[e][n] # 0 => inv'[e][n] # 0

\* A thread keeps pointing to an invoked row when invocations are kept.
LEMMA PointsKept ==
    ASSUME TypeOK, Grows, NEW l, PointsToRow(l, execs, inv)
    PROVE  PointsToRow(l, execs', inv')
<1>1. 1..execs \subseteq 1..execs' /\ 1..execs \subseteq Execs
  BY BoundAssumption DEF TypeOK, Execs, Grows
<1>2. l.exec \in 1..execs => l.exec \in 1..execs'
  BY <1>1
<1>3. ASSUME \/ l.pc \in {"engine", "task", "progress", "reconcile"}
             \/ l.pc = "ingress" /\ l.out # "malformed"
      PROVE  inv'[l.exec][l.node] # 0
  <2>1. l.exec \in Execs /\ l.node \in Nodes /\ inv[l.exec][l.node] # 0
    BY <1>1, <1>3 DEF PointsToRow, Resting
  <2> QED
    BY <2>1 DEF Grows
<1> QED
  BY <1>2, <1>3 DEF PointsToRow

\* The threads keep pointing to invoked rows when one of them moves.
LEMMA ThreadsKept ==
    ASSUME IInv, Grows, NEW t \in Threads, NEW l, PointsToRow(l, execs', inv'),
           thread' = [thread EXCEPT ![t] = l]
    PROVE  ThreadsPointToRows'
<1> SUFFICES ASSUME NEW u \in Threads PROVE PointsToRow(thread'[u], execs', inv')
  BY DEF ThreadsPointToRows
<1>1. CASE u = t
  BY <1>1 DEF IInv, TypeOK
<1>2. CASE u # t
  <2>1. thread'[u] = thread[u] /\ PointsToRow(thread[u], execs, inv)
    BY <1>2 DEF IInv, TypeOK, ThreadsPointToRows
  <2>2. PointsToRow(thread[u], execs', inv')
    BY <2>1, PointsKept DEF IInv
  <2> QED
    BY <2>1, <2>2
<1> QED
  BY <1>1, <1>2

\* A thread that returns points to no row.
LEMMA StopKept ==
    ASSUME IInv, Grows, NEW t \in Threads, Stop(t)
    PROVE  ThreadsPointToRows'
  BY RestingPoints, ThreadsKept DEF Stop

\* A thread that moves to a step that asks no more of its row than its own.
LEMMA GotoKept ==
    ASSUME IInv, Grows, NEW t \in Threads, NEW pc, Goto(t, pc),
           PointsToRow([thread[t] EXCEPT !.pc = pc], execs, inv)
    PROVE  ThreadsPointToRows'
<1>1. thread' = [thread EXCEPT ![t] = [thread[t] EXCEPT !.pc = pc]]
  BY DEF Goto, IInv, TypeOK
<1>2. PointsToRow([thread[t] EXCEPT !.pc = pc], execs', inv')
  BY PointsKept DEF IInv
<1> QED
  BY <1>1, <1>2, ThreadsKept

\* What a working thread points to.
LEMMA Working ==
    ASSUME IInv, NEW t \in Threads, thread[t].pc \notin Resting
    PROVE  /\ thread[t].exec \in 1..execs /\ thread[t].exec \in Execs /\ execs \in Nat
           /\ thread[t].pc # "check" => thread[t].node \in Nodes
           /\ \/ thread[t].pc \in {"engine", "task", "progress", "reconcile"}
              \/ thread[t].pc = "ingress" /\ thread[t].out # "malformed"
              => inv[thread[t].exec][thread[t].node] # 0
<1>1. PointsToRow(thread[t], execs, inv)
  BY DEF IInv, ThreadsPointToRows
<1>2. 1..execs \subseteq Execs /\ execs \in Nat
  BY BoundAssumption DEF IInv, TypeOK, Execs
<1> QED
  BY <1>1, <1>2 DEF PointsToRow

\* The fields of typed locals and requests.
LEMMA Fields ==
    ASSUME NEW l \in Locals, NEW pc
    PROVE  LET k == [l EXCEPT !.pc = pc]
           IN  k.pc = pc /\ k.exec = l.exec /\ k.node = l.node /\ k.inv = l.inv /\ k.out = l.out
  BY DEF Locals

\* Steps that move a thread and touch neither a row nor an invocation.
LEMMA QuietMove ==
    ASSUME IInv, NEW t \in Threads, NEW pc, Goto(t, pc), UNCHANGED <<execs, inv>>,
           \/ thread[t].pc \notin Resting /\ pc = "check"
           \/ thread[t].pc \notin Resting \cup {"check"} /\ pc \in {"gate", "claim", "fail"}
           \/ thread[t].pc \in {"engine", "task", "reconcile"} /\ pc \in {"task", "progress", "reconcile"}
    PROVE  ThreadsPointToRows'
<1>1. thread[t] \in Locals /\ PointsToRow(thread[t], execs, inv)
  BY DEF IInv, TypeOK, ThreadsPointToRows
<1>2. PointsToRow([thread[t] EXCEPT !.pc = pc], execs, inv)
  BY <1>1, Fields DEF PointsToRow, Resting
<1>3. Grows
  BY DEF Grows, IInv, TypeOK
<1> QED
  BY <1>2, <1>3, GotoKept

\* Start keeps the invariant.
LEMMA StartStep ==
    ASSUME IInv, NEW t \in Starts, Start(t)
    PROVE  IInv'
<1>0. t \in Threads /\ execs \in Nat
  BY BoundAssumption DEF Threads, IInv, TypeOK
<1>1. ASSUME NEW e \in 1..execs', Grows,
             thread' = [thread EXCEPT ![t] = Local("check", e, NoNode, 0, 0, "none")]
      PROVE  ThreadsPointToRows'
  <2>1. PointsToRow(Local("check", e, NoNode, 0, 0, "none"), execs', inv')
    BY DEF PointsToRow, Local, Resting
  <2> QED
    BY <1>0, <1>1, <2>1, ThreadsKept
<1>2. CASE UNCHANGED <<execs, plan, node>>
  <2>1. PICK e \in ActivePlans :
           thread' = [thread EXCEPT ![t] = Local("check", e, NoNode, 0, 0, "none")]
    BY <1>0, <1>2 DEF Start
  <2>2. e \in 1..execs'
    BY <1>0, <1>2 DEF ActivePlans, Execs, IInv, RowsSafe, FutureIsBlank
  <2>3. Grows
    BY <1>0, <1>2 DEF Start, Grows
  <2>4. RowsSafe'
    BY <1>2, RowsKept DEF Start, IInv
  <2> QED
    BY <1>1, <2>1, <2>2, <2>3, <2>4, StartTyped DEF IInv
<1>3. CASE ActivePlans = {} /\ execs < MaxExecs /\ execs' = execs + 1
  <2>1. thread' = [thread EXCEPT ![t] = Local("check", execs + 1, NoNode, 0, 0, "none")]
    BY <1>3 DEF Start
  <2>2. execs + 1 \in 1..execs'
    BY <1>0, <1>3
  <2>3. Grows
    BY <1>0, <1>3 DEF Start, Grows
  <2>4. RowsSafe'
    BY <1>0, <1>3, CreatedSafe DEF Start, IInv
  <2> QED
    BY <1>1, <2>1, <2>2, <2>3, <2>4, StartTyped DEF IInv
<1> QED
  BY <1>2, <1>3 DEF Start

\* Check keeps the invariant.
LEMMA CheckStep ==
    ASSUME IInv, NEW t \in Threads, Check(t)
    PROVE  IInv'
<1>1. thread[t].exec \in 1..execs /\ thread[t].exec \in Execs /\ execs \in Nat
  BY Working DEF Check, Resting
<1>2. Grows
  BY <1>1 DEF Grows, Check
<1>3. ThreadsPointToRows'
  <2>1. CASE Stop(t)
    BY <1>2, <2>1, StopKept
  <2>2. ASSUME NEW n \in Nodes,
               thread' = [thread EXCEPT ![t] =
                            Local("gate", thread[t].exec, n, att[thread[t].exec][n], 0, "none")]
        PROVE  ThreadsPointToRows'
    <3>1. execs' = execs
      BY DEF Check
    <3>2. PointsToRow(Local("gate", thread[t].exec, n, att[thread[t].exec][n], 0, "none"), execs', inv')
      BY <1>1, <3>1 DEF PointsToRow, Local, Resting
    <3> QED
      BY <1>2, <2>2, <3>2, ThreadsKept
  <2> QED
    BY <2>1, <2>2 DEF Check
<1> QED
  BY <1>1, <1>3, CheckSafe, CheckTyped DEF IInv

\* Gate keeps the invariant.
LEMMA GateStep ==
    ASSUME IInv, NEW t \in Threads, Gate(t)
    PROVE  IInv'
<1>0. UNCHANGED <<execs, plan, node, att, inv>> /\ thread[t].pc = "gate"
  BY DEF Gate, db
<1>1. RowsSafe' /\ Grows
  BY <1>0, RowsKept DEF IInv, Grows, TypeOK
<1>2. CASE Goto(t, "fail") \/ Goto(t, "claim")
  BY <1>0, <1>1, <1>2, QuietMove, GateTyped DEF IInv, Resting
<1>3. CASE thread' = [thread EXCEPT ![t].pc = "claim", ![t].att = 0]
  <2>1. thread' = [thread EXCEPT ![t] = [thread[t] EXCEPT !.pc = "claim", !.att = 0]]
    BY <1>3 DEF IInv, TypeOK
  <2>2. PointsToRow(thread[t], execs, inv)
    BY DEF IInv, ThreadsPointToRows
  <2>3. PointsToRow([thread[t] EXCEPT !.pc = "claim", !.att = 0], execs', inv')
    <3>1. thread[t] \in Locals
      BY DEF IInv, TypeOK
    <3> QED
      BY <1>0, <2>2, <3>1 DEF PointsToRow, Resting, Locals
  <2> QED
    BY <1>1, <2>1, <2>3, ThreadsKept, GateTyped DEF IInv
<1> QED
  BY <1>2, <1>3 DEF Gate

\* LostClaim keeps the invariant.
LEMMA LostClaimStep ==
    ASSUME IInv, NEW t \in Threads, LostClaim(t)
    PROVE  IInv'
<1>1. UNCHANGED <<execs, plan, node, att, inv>> /\ thread[t].pc = "claim" /\ Goto(t, "check")
  BY DEF LostClaim, db
<1>2. ThreadsPointToRows'
  BY <1>1, QuietMove DEF Resting
<1> QED
  BY <1>1, <1>2, RowsKept, LostClaimTyped DEF IInv

\* Claim keeps the invariant.
LEMMA ClaimStep ==
    ASSUME IInv, NEW t \in Threads, Claim(t)
    PROVE  IInv'
<1>1. /\ thread[t].exec \in 1..execs /\ thread[t].exec \in Execs /\ thread[t].node \in Nodes
      /\ execs \in Nat
  BY Working DEF Claim, Resting
<1>2. /\ RowsSafe'
      /\ \A e \in Execs, n \in Nodes : inv[e][n] # 0 => inv'[e][n] # 0
      /\ inv'[thread[t].exec][thread[t].node] # 0
  BY <1>1, ClaimSafe DEF IInv
<1>3. execs' = execs /\ Grows
  BY <1>1, <1>2 DEF Claim, Grows
<1>4. ThreadsPointToRows'
  <2> DEFINE l == [thread[t] EXCEPT !.pc = "engine", !.inv = invs + 1]
  <2>1. thread' = [thread EXCEPT ![t] = l]
    BY DEF Claim, IInv, TypeOK
  <2>2. l.pc = "engine" /\ l.exec = thread[t].exec /\ l.node = thread[t].node /\ l.inv # 0
    <3>1. thread[t] \in Locals /\ invs \in Nat
      BY BoundAssumption DEF IInv, TypeOK
    <3> QED
      BY <3>1 DEF Locals
  <2> HIDE DEF l
  <2>3. PointsToRow(l, execs', inv')
    BY <1>1, <1>2, <1>3, <2>2 DEF PointsToRow
  <2> QED
    BY <1>3, <2>1, <2>3, ThreadsKept
<1> QED
  BY <1>1, <1>2, <1>4, ClaimTyped DEF IInv

\* EngineAnswers keeps the invariant.
LEMMA EngineAnswersStep ==
    ASSUME IInv, NEW t \in Threads, EngineAnswers(t)
    PROVE  IInv'
<1>1. UNCHANGED <<execs, plan, node, att, inv>> /\ thread[t].pc = "engine"
  BY DEF EngineAnswers, db
<1>2. Grows
  BY <1>1 DEF Grows, IInv, TypeOK
<1>3. PICK pc \in {"fail", "task"}, out \in Answers :
        thread' = [thread EXCEPT ![t].pc = pc, ![t].out = out]
  BY DEF EngineAnswers
<1>4. ThreadsPointToRows'
  <2> DEFINE l == [thread[t] EXCEPT !.pc = pc, !.out = out]
  <2>1. thread' = [thread EXCEPT ![t] = l]
    BY <1>3 DEF IInv, TypeOK
  <2>2. thread[t] \in Locals /\ PointsToRow(thread[t], execs, inv)
    BY DEF IInv, TypeOK, ThreadsPointToRows
  <2>3. l.pc = pc /\ l.exec = thread[t].exec /\ l.node = thread[t].node /\ l.inv = thread[t].inv
    BY <2>2 DEF Locals
  <2> HIDE DEF l
  <2>4. PointsToRow(l, execs', inv')
    BY <1>1, <2>2, <2>3 DEF PointsToRow, Resting
  <2> QED
    BY <1>2, <2>1, <2>4, ThreadsKept
<1> QED
  BY <1>1, <1>4, RowsKept, EngineAnswersTyped DEF IInv

\* RecordTask keeps the invariant.
LEMMA RecordTaskStep ==
    ASSUME IInv, NEW t \in Threads, RecordTask(t)
    PROVE  IInv'
<1>1. UNCHANGED <<execs, plan, node, att, inv>> /\ thread[t].pc = "task"
  BY DEF RecordTask
<1>2. thread[t].exec \in Execs /\ thread[t].node \in Nodes
  BY <1>1, Working DEF Resting
<1>3. ThreadsPointToRows'
  <2>1. PICK pc \in {"progress", "reconcile"} : Goto(t, pc)
    BY DEF RecordTask
  <2> QED
    BY <1>1, <2>1, QuietMove DEF Resting
<1> QED
  BY <1>1, <1>2, <1>3, RowsKept, RecordTaskTyped DEF IInv

\* InProgress keeps the invariant.
LEMMA InProgressStep ==
    ASSUME IInv, NEW t \in Threads, InProgress(t)
    PROVE  IInv'
<1>1. UNCHANGED <<execs, plan, node, att, inv>>
  BY DEF InProgress, db
<1>2. Grows
  BY <1>1 DEF Grows, IInv, TypeOK
<1>3. ThreadsPointToRows'
  BY <1>2, StopKept DEF InProgress
<1> QED
  BY <1>1, <1>3, RowsKept, InProgressTyped DEF IInv

\* Reconcile keeps the invariant.
LEMMA ReconcileStep ==
    ASSUME IInv, NEW t \in Threads, Reconcile(t)
    PROVE  IInv'
<1>0. thread[t].pc = "reconcile" /\ UNCHANGED <<execs, att, inv>>
  BY DEF Reconcile
<1>1. /\ thread[t].exec \in 1..execs /\ thread[t].exec \in Execs /\ thread[t].node \in Nodes
      /\ execs \in Nat /\ inv[thread[t].exec][thread[t].node] # 0
  BY <1>0, Working DEF Resting
<1>2. CASE Goto(t, "fail") /\ UNCHANGED <<plan, node>>
  <2>1. RowsSafe' /\ ThreadsPointToRows'
    BY <1>0, <1>2, RowsKept, QuietMove DEF IInv, Resting
  <2> QED
    BY <1>1, <2>1, ReconcileTyped DEF IInv
<1>3. CASE /\ ~ActivationRaises([node[thread[t].exec] EXCEPT ![thread[t].node] = "SUCCEEDED"])
           /\ node' = [node EXCEPT ![thread[t].exec] =
                          Activated([node[thread[t].exec] EXCEPT ![thread[t].node] = "SUCCEEDED"])]
           /\ Goto(t, "check") /\ UNCHANGED plan
  <2>1. RowsSafe'
    BY <1>0, <1>1, <1>3, ActivatedSafe DEF IInv
  <2>2. ThreadsPointToRows'
    BY <1>0, <1>3, QuietMove DEF Resting
  <2> QED
    BY <1>1, <2>1, <2>2, ReconcileTyped DEF IInv
<1>4. CASE Failed(thread[t].exec, thread[t].node) /\ Stop(t)
  <2>1. RowsSafe'
    BY <1>0, <1>1, <1>4, FailedSafe DEF IInv
  <2>2. ThreadsPointToRows'
    BY <1>0, <1>1, <1>4, StopKept DEF Grows
  <2> QED
    BY <1>1, <2>1, <2>2, ReconcileTyped DEF IInv
<1> QED
  BY <1>2, <1>3, <1>4 DEF Reconcile, AfterSuccess

\* MarkFailed keeps the invariant.
LEMMA MarkFailedStep ==
    ASSUME IInv, NEW t \in Threads, MarkFailed(t)
    PROVE  IInv'
<1>1. /\ thread[t].exec \in 1..execs /\ thread[t].exec \in Execs /\ thread[t].node \in Nodes
      /\ execs \in Nat
  BY Working DEF MarkFailed, Resting
<1>2. RowsSafe'
  BY <1>1, FailedSafe DEF MarkFailed, IInv
<1>3. ThreadsPointToRows'
  BY <1>1, StopKept DEF MarkFailed, Grows
<1> QED
  BY <1>1, <1>2, <1>3, MarkFailedTyped DEF IInv

\* The row a completion is applied to is one that names its invocation (then it
\* was invoked), or else the completion is going to be refused.
LEMMA PostStep ==
    ASSUME IInv, NEW t \in Posts, NEW i \in Invocations, NEW out \in Answers, Post(t, i, out)
    PROVE  IInv'
<1>1. UNCHANGED <<execs, plan, node, att, inv>> /\ t \in Threads /\ execs \in Nat
  BY BoundAssumption DEF Post, db, Threads, IInv, TypeOK
<1>2. Grows
  BY <1>1 DEF Grows
<1>3. CASE Stop(t)
  BY <1>1, <1>2, <1>3, StopKept, RowsKept, PostTyped DEF IInv
<1>4. ASSUME NEW r \in Rows(i),
             thread' = [thread EXCEPT ![t] =
                          Local("ingress", r[1], r[2], att[r[1]][r[2]], i,
                                IF inv[r[1]][r[2]] = i THEN out ELSE "malformed")]
      PROVE  IInv'
  <2> DEFINE l == Local("ingress", r[1], r[2], att[r[1]][r[2]], i,
                        IF inv[r[1]][r[2]] = i THEN out ELSE "malformed")
  <2>1. r[1] \in Execs /\ r[2] \in Nodes /\ i # 0
    BY DEF Rows, Invocations
  <2>2. inv[r[1]][r[2]] = i \/ att[r[1]][r[2]] # 0
    BY DEF Rows
  <2>3. r[1] \in 1..execs
    <3>1. CASE r[1] > execs
      BY <1>1, <2>1, <2>2, <3>1 DEF IInv, RowsSafe, FutureIsBlank
    <3> QED
      BY <1>1, <2>1, <3>1 DEF Execs
  <2>4. /\ l.pc = "ingress" /\ l.exec = r[1] /\ l.node = r[2] /\ l.inv = i
        /\ l.out # "malformed" => inv[r[1]][r[2]] = i
    BY DEF Local
  <2> HIDE DEF l
  <2>5. PointsToRow(l, execs', inv')
    BY <1>1, <2>1, <2>3, <2>4 DEF PointsToRow
  <2>6. thread' = [thread EXCEPT ![t] = l]
    BY <1>4 DEF l
  <2> QED
    BY <1>1, <1>2, <2>5, <2>6, ThreadsKept, RowsKept, PostTyped DEF IInv
<1> QED
  BY <1>3, <1>4 DEF Post

\* Ingress keeps the invariant.
LEMMA IngressStep ==
    ASSUME IInv, NEW t \in Threads, Ingress(t)
    PROVE  IInv'
<1> DEFINE e == thread[t].exec
           n == thread[t].node
           after == [node[e] EXCEPT ![n] = "SUCCEEDED"]
<1>0. thread[t].pc = "ingress" /\ UNCHANGED <<execs, att, inv>>
  BY DEF Ingress
<1>1. /\ e \in 1..execs /\ e \in Execs /\ n \in Nodes /\ execs \in Nat
      /\ thread[t].out # "malformed" => inv[e][n] # 0
  BY <1>0, Working DEF Resting
<1>t. TypeOK'
  BY <1>1, IngressTyped DEF IInv
<1>2. CASE Goto(t, "fail") /\ UNCHANGED <<plan, node>>
  <2>1. RowsSafe' /\ ThreadsPointToRows'
    BY <1>0, <1>2, RowsKept, QuietMove DEF IInv, Resting
  <2> QED
    BY <1>t, <2>1 DEF IInv
<1>3. CASE Failed(e, n) /\ Stop(t)
  <2>1. RowsSafe'
    BY <1>0, <1>1, <1>3, FailedSafe DEF IInv
  <2>2. ThreadsPointToRows'
    BY <1>0, <1>1, <1>3, StopKept DEF Grows
  <2> QED
    BY <1>t, <2>1, <2>2 DEF IInv
<1>4. CASE /\ thread[t].out = "success" /\ ~ActivationRaises(after)
           /\ node' = [node EXCEPT ![e] = Activated(after)]
           /\ IF AllSucceeded(Activated(after))
              THEN plan' = [plan EXCEPT ![e] = "SUCCEEDED"] /\ Stop(t)
              ELSE UNCHANGED plan /\ Goto(t, "check")
  <2>2. node'[e] = Activated(after) /\ inv[e][n] # 0
    BY <1>1, <1>4 DEF IInv, TypeOK
  <2>3. RowsSafe'
    <3>1. \/ plan' = plan
          \/ plan' = [plan EXCEPT ![e] = "SUCCEEDED"] /\ AllSucceeded(node'[e])
      BY <1>4, <2>2
    <3> QED
      BY <1>0, <1>1, <1>4, <2>2, <3>1, ActivatedSafe DEF IInv
  <2>4. ThreadsPointToRows'
    <3>1. CASE Stop(t)
      BY <1>0, <1>1, <3>1, StopKept DEF Grows
    <3>2. CASE Goto(t, "check")
      BY <1>0, <3>2, QuietMove DEF Resting
    <3> QED
      BY <1>4, <3>1, <3>2
  <2> QED
    BY <1>t, <2>3, <2>4 DEF IInv
<1>5. CASE Stop(t) /\ UNCHANGED <<plan, node>>
  <2>1. RowsSafe' /\ ThreadsPointToRows'
    BY <1>0, <1>1, <1>5, RowsKept, StopKept DEF IInv, Grows
  <2> QED
    BY <1>t, <2>1 DEF IInv
<1> QED
  BY <1>2, <1>3, <1>4, <1>5 DEF Ingress, AfterSuccess

\* The operator commands keep the invariant.
LEMMA CommandStep ==
    ASSUME IInv, Operator
    PROVE  IInv'
<1>0. execs \in Nat
  BY BoundAssumption DEF IInv, TypeOK
<1>1. ASSUME UNCHANGED <<execs, inv, thread>> PROVE ThreadsPointToRows'
  BY <1>1 DEF IInv, ThreadsPointToRows
<1>2. CASE Cancel
  BY <1>1, <1>2, CancelSafe, CancelTyped DEF IInv, Cancel
<1>3. ASSUME NEW source \in 0..MaxAttempts, NEW checkpoint \in Nodes \cup {NoNode},
             Recover(source, checkpoint)
      PROVE  IInv'
  BY <1>1, <1>3, RecoverSafe, RecoverTyped DEF IInv, Recover
<1>4. CASE Pause \/ Resume
  <2>1. UNCHANGED <<execs, plan, node, att, inv, thread>>
    BY <1>4 DEF Pause, Resume
  <2> QED
    BY <1>1, <1>4, <2>1, RowsKept, PauseTyped DEF IInv
<1>5. CASE Crash
  <2>1. UNCHANGED <<execs, plan, node, att, inv>>
    BY <1>5 DEF Crash, db
  <2>2. ThreadsPointToRows'
    BY <1>5, <2>1, RestingPoints DEF Crash, ThreadsPointToRows
  <2> QED
    BY <1>5, <2>1, <2>2, RowsKept, CrashTyped DEF IInv
<1> QED
  BY <1>2, <1>3, <1>4, <1>5 DEF Operator

\* Every step preserves the inductive invariant.
LEMMA PlanStep == IInv /\ [Next]_vars => IInv'
<1> SUFFICES ASSUME IInv, [Next]_vars PROVE IInv'
  OBVIOUS
<1>1. ASSUME NEW t \in Threads, Step(t) PROVE IInv'
  BY <1>1, CheckStep, GateStep, LostClaimStep, ClaimStep, EngineAnswersStep, RecordTaskStep,
     InProgressStep, ReconcileStep, MarkFailedStep, IngressStep DEF Step
<1>2. CASE UNCHANGED vars
  <2>1. UNCHANGED <<execs, plan, node, att, inv, thread>>
    BY <1>2 DEF vars, db
  <2>2. TypeOK'
    BY <1>2, Zenon DEF IInv, TypeOK, vars, db, engine, faults
  <2> QED
    BY <2>1, <2>2, RowsKept DEF IInv, ThreadsPointToRows
<1> QED
  BY <1>1, <1>2, StartStep, PostStep, CommandStep DEF Next

\* The inductive invariant holds in every state: types, rows in graph order,
\* and threads that point to rows that were invoked.
THEOREM PlanInvariant == Spec => []IInv
  BY PlanInit, PlanStep, PTL DEF Spec

\* Every variable keeps its type.
THEOREM PlanTypeCorrect == Spec => []TypeOK
<1>1. IInv => TypeOK
  BY DEF IInv
<1> QED
  BY <1>1, PlanInvariant, PTL

\* A plan is reported SUCCEEDED only while each of its nodes is
\* (_mark_plan_succeeded and everything that may write a node row later).
THEOREM PlanSuccessCorrect == Spec => []PlanSuccessIsReal
<1>1. IInv => PlanSuccessIsReal
  BY DEF IInv, RowsSafe
<1> QED
  BY <1>1, PlanInvariant, PTL

\* Nodes become READY, and are sent to the engine, in dependency order, for every
\* dependency graph (creation, recovery, late answers).
THEOREM PlanOrderCorrect == Spec => []InvokedInOrder
<1>1. IInv => InvokedInOrder
  BY DEF IInv, RowsSafe
<1> QED
  BY <1>1, PlanInvariant, PTL

\* A CANCELLED plan has no node left that an advance loop could claim
\* (cancel_plan_execution and every transaction that lands after it).
THEOREM PlanCancelCorrect == Spec => []CancelledPlanIsQuiet
<1>1. IInv => CancelledPlanIsQuiet
  BY DEF IInv, RowsSafe
<1> QED
  BY <1>1, PlanInvariant, PTL

KeptInStep ==
    \A e \in Execs, n \in Nodes : node[e][n] = "SUCCEEDED" =>
        node'[e][n] \in {"SUCCEEDED", "FAILED"}

\* No step of a thread puts a SUCCEEDED node back in line.
LEMMA ThreadKeeps ==
    ASSUME IInv, NEW t \in Threads, Step(t)
    PROVE  KeptInStep
<1> DEFINE e == thread[t].exec
           n == thread[t].node
<1>1. CASE Check(t) \/ Gate(t) \/ LostClaim(t) \/ EngineAnswers(t) \/ RecordTask(t) \/ InProgress(t)
  <2>1. node' = node
    BY <1>1 DEF Check, Gate, LostClaim, EngineAnswers, RecordTask, InProgress, db
  <2> QED
    BY <2>1 DEF KeptInStep
<1>2. CASE Claim(t)
  <2>1. e \in Execs /\ n \in Nodes /\ node[e][n] = "READY" /\ node' = [node EXCEPT ![e][n] = "DISPATCHED"]
    BY <1>2, Working DEF Claim, Resting
  <2> QED
    BY <2>1 DEF KeptInStep, IInv, TypeOK
<1>3. ASSUME e \in Execs, n \in Nodes,
             ~ActivationRaises([node[e] EXCEPT ![n] = "SUCCEEDED"]),
             node' = [node EXCEPT ![e] = Activated([node[e] EXCEPT ![n] = "SUCCEEDED"])]
      PROVE  KeptInStep
  <2>1. TypeOK
    BY DEF IInv
  <2>2. OnlyActivated(e, n)
    BY <1>3, <2>1, ActivatedEffect
  <2> QED
    BY <2>2 DEF KeptInStep, OnlyActivated
<1>4. ASSUME e \in Execs, n \in Nodes, Failed(e, n) PROVE KeptInStep
  BY <1>4 DEF KeptInStep, Failed, IInv, TypeOK
<1>6. CASE Reconcile(t)
  <2>1. e \in Execs /\ n \in Nodes
    BY <1>6, Working DEF Reconcile, Resting
  <2>2. CASE UNCHANGED node
    BY <2>2 DEF KeptInStep
  <2> QED
    BY <1>3, <1>4, <1>6, <2>1, <2>2 DEF Reconcile
<1>7. CASE MarkFailed(t)
  <2>1. e \in Execs /\ n \in Nodes
    BY <1>7, Working DEF MarkFailed, Resting
  <2> QED
    BY <1>4, <1>7, <2>1 DEF MarkFailed
<1>8. CASE Ingress(t)
  <2>1. e \in Execs /\ n \in Nodes
    BY <1>8, Working DEF Ingress, Resting
  <2>2. CASE UNCHANGED node
    BY <2>2 DEF KeptInStep
  <2> QED
    BY <1>3, <1>4, <1>8, <2>1, <2>2 DEF Ingress
<1> QED
  BY <1>1, <1>2, <1>6, <1>7, <1>8 DEF Step

\* No step at all does.
LEMMA StepKeeps == IInv /\ [Next]_vars => KeptInStep
<1> SUFFICES ASSUME IInv, [Next]_vars PROVE KeptInStep
  OBVIOUS
<1>1. CASE node' = node
  BY <1>1 DEF KeptInStep
<1>2. ASSUME NEW t \in Starts, Start(t) PROVE KeptInStep
  <2>1. CASE ActivePlans = {} /\ execs < MaxExecs
    <3>1. execs + 1 \in Execs /\ execs + 1 > execs
      BY <2>1, BoundAssumption DEF IInv, TypeOK, Execs
    <3>2. \A n \in Nodes : node[execs + 1][n] = "BLOCKED"
      BY <3>1 DEF IInv, RowsSafe, FutureIsBlank
    <3>3. \A f \in Execs : f # execs + 1 => node'[f] = node[f]
      BY <1>2, <2>1, <3>1 DEF Start, IInv, TypeOK
    <3> QED
      BY <3>2, <3>3 DEF KeptInStep
  <2> QED
    BY <1>1, <1>2, <2>1 DEF Start
<1>3. CASE Cancel
  BY <1>3 DEF Cancel, KeptInStep, CancelledNodes
<1>4. ASSUME NEW source, NEW checkpoint, Recover(source, checkpoint) PROVE KeptInStep
  <2>1. CASE execs # 0
    <3>1. execs \in Execs
      BY <2>1, BoundAssumption DEF IInv, TypeOK, Execs
    <3>2. /\ node'[execs] = Recovered(node[execs])
          /\ \A f \in Execs : f # execs => node'[f] = node[f]
      BY <1>4, <2>1, <3>1 DEF Recover, IInv, TypeOK
    <3> QED
      BY <3>2 DEF KeptInStep, Recovered
  <2> QED
    BY <1>1, <1>4, <2>1 DEF Recover
<1>5. CASE Pause \/ Resume \/ Crash \/ UNCHANGED vars
  BY <1>1, <1>5 DEF Pause, Resume, Crash, vars, db
<1>6. ASSUME NEW t \in Posts, NEW i, NEW out, Post(t, i, out) PROVE KeptInStep
  BY <1>1, <1>6 DEF Post, db
<1> QED
  BY <1>2, <1>3, <1>4, <1>5, <1>6, ThreadKeeps DEF Next, Operator

\* No step puts a SUCCEEDED node back in line: recovery preserves it and a claim
\* never takes it, whatever the other threads do.
THEOREM PlanKeepsSuccess == Spec => SucceededIsKept
<1>1. IInv /\ [Next]_vars =>
        [\A e \in Execs, n \in Nodes : node[e][n] = "SUCCEEDED" =>
            node'[e][n] \in {"SUCCEEDED", "FAILED"}]_vars
  BY StepKeeps DEF KeptInStep
<1> QED
  BY <1>1, PlanInvariant, PTL DEF Spec, SucceededIsKept

(***************************************************************************)
(* Attempts, leases and invocations. Every attempt belongs to one row: the *)
(* row a claim gave it to, or the one a recovery bound it to. The owner is *)
(* a ghost of the proof; only a claim under a fresh attempt and a recovery *)
(* add to it.                                                              *)
(***************************************************************************)
Calling == {"engine", "task", "progress", "reconcile", "ingress"}
Row(i) == <<req[i].exec, req[i].node>>
OwnerMaps == [Attempts -> (0..MaxExecs) \X (Nodes \cup {NoNode})]

\* A thread holds an attempt of its row, and an invocation sent for its row. Here
\* k, v and r stand for atts, invs and req.
HoldsOwn(l, o, k, v, r) ==
    /\ l.att \in 0..k
    /\ l.pc \in {"gate", "claim"} /\ l.att # 0 => o[l.att] = <<l.exec, l.node>>
    /\ l.pc \in Calling => l.inv \in 1..v /\ r[l.inv].exec = l.exec /\ r[l.inv].node = l.node

\* The lease table has a row for each attempt made, and every call was sent at
\* epoch 1 for an existing execution.
CallsAreLeased ==
    /\ live \subseteq 1..invs
    /\ \A a \in Attempts : a <= atts <=> epoch[a] # 0
    /\ \A i \in 1..invs : /\ req[i].exec \in 1..execs /\ req[i].node \in Nodes
                          /\ req[i].att \in 1..atts /\ req[i].epoch = 1

\* A row names an attempt it owns and the newest invocation sent for it.
RowsOwn(o) ==
    \A e \in Execs, n \in Nodes :
        /\ att[e][n] \in 0..atts
        /\ att[e][n] # 0 => o[att[e][n]] = <<e, n>>
        /\ inv[e][n] # 0 => inv[e][n] \in 1..invs /\ Row(inv[e][n]) = <<e, n>>

CallsOwn(o) == \A i \in 1..invs : o[req[i].att] = Row(i)
ThreadsOwn(o) == \A t \in Threads : HoldsOwn(thread[t], o, atts, invs, req)

Owned(o) == RowsOwn(o) /\ CallsOwn(o) /\ ThreadsOwn(o)
LeaseInv == CallsAreLeased /\ \E o \in OwnerMaps : Owned(o)

\* What a step may do to the leases: attempts and invocations are only added,
\* an invocation's request is never rewritten and no epoch goes back.
LeasesGrow ==
    /\ atts' \in Nat /\ atts <= atts' /\ invs' \in Nat /\ invs <= invs'
    /\ \A i \in 1..invs : req'[i] = req[i]
    /\ \A a \in 1..atts : epoch'[a] >= epoch[a]
    /\ \A e \in 1..execs : e \in 1..execs'

\* The counters are numbers within their bounds.
LEMMA Counters ==
    ASSUME TypeOK
    PROVE  /\ atts \in Nat /\ invs \in Nat /\ execs \in Nat
           /\ 1..atts \subseteq Attempts /\ 1..invs \subseteq Invocations /\ 1..execs \subseteq Execs
           /\ \A a \in 1..atts : epoch[a] \in Nat
  BY BoundAssumption DEF TypeOK, Attempts, Invocations, Execs

\* A thread that stands still keeps what it holds.
LEMMA HoldsKept ==
    ASSUME TypeOK, LeasesGrow, NEW o, NEW p, \A a \in 1..atts : p[a] = o[a],
           NEW l, HoldsOwn(l, o, atts, invs, req)
    PROVE  HoldsOwn(l, p, atts', invs', req')
<1>1. atts \in Nat /\ invs \in Nat
  BY Counters
<1>2. l.att \in 0..atts' /\ (l.att # 0 => l.att \in 1..atts)
  BY <1>1 DEF LeasesGrow, HoldsOwn
<1>3. l.pc \in Calling => /\ l.inv \in 1..invs' /\ req'[l.inv] = req[l.inv]
  BY <1>1 DEF LeasesGrow, HoldsOwn
<1> QED
  BY <1>2, <1>3 DEF HoldsOwn

\* The threads keep what they hold when one of them moves.
LEMMA ThreadsHold ==
    ASSUME TypeOK, LeasesGrow, NEW o, NEW p, \A a \in 1..atts : p[a] = o[a], ThreadsOwn(o),
           NEW t \in Threads, NEW l, thread' = [thread EXCEPT ![t] = l],
           HoldsOwn(l, p, atts', invs', req')
    PROVE  ThreadsOwn(p)'
<1> SUFFICES ASSUME NEW u \in Threads PROVE HoldsOwn(thread'[u], p, atts', invs', req')
  BY DEF ThreadsOwn
<1>1. CASE u = t
  BY <1>1 DEF TypeOK
<1>2. CASE u # t
  <2>1. thread'[u] = thread[u] /\ HoldsOwn(thread[u], o, atts, invs, req)
    BY <1>2 DEF TypeOK, ThreadsOwn
  <2>2. HoldsOwn(thread[u], p, atts', invs', req')
    BY <2>1, HoldsKept
  <2> QED
    BY <2>1, <2>2
<1> QED
  BY <1>1, <1>2

\* What an idle or finished thread holds.
LEMMA RestingHolds ==
    ASSUME NEW o, NEW k \in Nat, NEW v, NEW r
    PROVE  HoldsOwn(Idle, o, k, v, r) /\ HoldsOwn(Done, o, k, v, r)
  BY DEF HoldsOwn, Idle, Done, Local, Calling

LeaseVars == <<att, inv, atts, epoch, invs, req>>

\* A step that touches no lease and no request adds nothing to them.
LEMMA LeasesStay ==
    ASSUME TypeOK, UNCHANGED LeaseVars, \A e \in 1..execs : e \in 1..execs'
    PROVE  LeasesGrow
<1>1. UNCHANGED <<att, inv, atts, epoch, invs, req>>
  BY DEF LeaseVars
<1>2. atts <= atts' /\ invs <= invs' /\ atts' \in Nat /\ invs' \in Nat
  BY <1>1, Counters
<1>3. \A a \in 1..atts : epoch'[a] >= epoch[a]
  BY <1>1, Counters
<1> QED
  BY <1>1, <1>2, <1>3 DEF LeasesGrow

\* Such a step keeps the owners when its threads move within what they hold.
LEMMA LeaseKept ==
    ASSUME TypeOK, LeaseInv, UNCHANGED LeaseVars, live' \subseteq live,
           \A e \in 1..execs : e \in 1..execs',
           \A o \in OwnerMaps : Owned(o) => ThreadsOwn(o)'
    PROVE  LeaseInv' /\ LeasesGrow
<1>1. UNCHANGED <<att, inv, atts, epoch, invs, req>>
  BY DEF LeaseVars
<1>2. PICK o \in OwnerMaps : Owned(o)
  BY DEF LeaseInv
<1>3. RowsOwn(o)' /\ CallsOwn(o)'
  BY <1>1, <1>2 DEF Owned, RowsOwn, CallsOwn, Row
<1>4. CallsAreLeased'
  BY <1>1 DEF LeaseInv, CallsAreLeased
<1> QED
  BY <1>2, <1>3, <1>4, LeasesStay DEF LeaseInv, Owned

\* The same when one thread is given new locals.
LEMMA LeaseMove ==
    ASSUME TypeOK, LeaseInv, UNCHANGED LeaseVars, live' \subseteq live,
           \A e \in 1..execs : e \in 1..execs',
           NEW t \in Threads, NEW l, thread' = [thread EXCEPT ![t] = l],
           \A o \in OwnerMaps : Owned(o) => HoldsOwn(l, o, atts, invs, req)
    PROVE  LeaseInv' /\ LeasesGrow
<1>1. UNCHANGED <<atts, invs, req>> /\ LeasesGrow
  BY LeasesStay DEF LeaseVars
<1>2. ASSUME NEW o \in OwnerMaps, Owned(o) PROVE ThreadsOwn(o)'
  BY <1>1, <1>2, ThreadsHold DEF Owned
<1> QED
  BY <1>2, LeaseKept

\* A thread that returns holds nothing.
LEMMA LeaseStop ==
    ASSUME TypeOK, LeaseInv, UNCHANGED LeaseVars, live' \subseteq live, UNCHANGED execs,
           NEW t \in Threads, Stop(t)
    PROVE  LeaseInv' /\ LeasesGrow
<1>1. \A o \in OwnerMaps : HoldsOwn(Done, o, atts, invs, req)
  BY RestingHolds, Counters
<1>2. thread' = [thread EXCEPT ![t] = Done]
  BY DEF Stop
<1> QED
  BY <1>1, <1>2, LeaseMove

\* A thread that goes on from a step that asks as much of it.
LEMMA LeaseGoto ==
    ASSUME TypeOK, LeaseInv, UNCHANGED LeaseVars, live' \subseteq live, UNCHANGED execs,
           NEW t \in Threads, NEW pc, Goto(t, pc),
           \/ pc \in {"check", "fail"}
           \/ thread[t].pc \in {"gate", "claim"} /\ pc \in {"gate", "claim"}
           \/ thread[t].pc \in Calling /\ pc \in Calling
    PROVE  LeaseInv' /\ LeasesGrow
<1> DEFINE l == [thread[t] EXCEPT !.pc = pc]
<1>1. thread' = [thread EXCEPT ![t] = l]
  BY DEF Goto, TypeOK
<1>2. thread[t] \in Locals
  BY DEF TypeOK
<1>3. /\ l.pc = pc /\ l.exec = thread[t].exec /\ l.node = thread[t].node /\ l.inv = thread[t].inv
      /\ l.att = thread[t].att
  BY <1>2 DEF Locals
<1> HIDE DEF l
<1>4. ASSUME NEW o \in OwnerMaps, Owned(o) PROVE HoldsOwn(l, o, atts, invs, req)
  <2>1. HoldsOwn(thread[t], o, atts, invs, req)
    BY <1>4 DEF Owned, ThreadsOwn
  <2> QED
    BY <1>3, <2>1 DEF HoldsOwn, Calling
<1> QED
  BY <1>1, <1>4, LeaseMove

\* The initial state: no attempt, no invocation.
LEMMA LeaseInit == Init => LeaseInv
<1> SUFFICES ASSUME Init PROVE LeaseInv
  OBVIOUS
<1> DEFINE o == [a \in Attempts |-> <<0, NoNode>>]
<1>1. o \in OwnerMaps
  BY BoundAssumption DEF OwnerMaps
<1>2. atts = 0 /\ invs = 0 /\ \A a \in Attempts : epoch[a] = 0
  BY DEF Init
<1>3. CallsAreLeased
  BY <1>2 DEF Init, CallsAreLeased, Attempts
<1>4. RowsOwn(o) /\ CallsOwn(o)
  BY <1>2 DEF Init, RowsOwn, CallsOwn
<1>5. ThreadsOwn(o)
  BY <1>2, RestingHolds DEF Init, ThreadsOwn
<1> QED
  BY <1>1, <1>3, <1>4, <1>5 DEF LeaseInv, Owned

\* The advance loop outside the claim, and the completions: one thread moves.
LEMMA StartLeased ==
    ASSUME TypeOK, LeaseInv, NEW t \in Starts, Start(t)
    PROVE  LeaseInv' /\ LeasesGrow
<1>1. t \in Threads /\ UNCHANGED LeaseVars /\ live' \subseteq live
  BY DEF Start, Threads, LeaseVars, engine
<1>2. execs' = execs \/ execs' = execs + 1
  BY DEF Start
<1>3. \A e \in 1..execs : e \in 1..execs'
  BY <1>2, Counters
<1>4. PICK e : thread' = [thread EXCEPT ![t] = Local("check", e, NoNode, 0, 0, "none")]
  BY DEF Start
<1>5. \A o \in OwnerMaps : HoldsOwn(Local("check", e, NoNode, 0, 0, "none"), o, atts, invs, req)
  BY Counters DEF HoldsOwn, Local, Calling
<1> QED
  BY <1>1, <1>3, <1>4, <1>5, LeaseMove

\* The check reads the attempt of the row it picks.
LEMMA CheckLeased ==
    ASSUME TypeOK, LeaseInv, NEW t \in Threads, thread[t].exec \in Execs, Check(t)
    PROVE  LeaseInv' /\ LeasesGrow
<1>1. UNCHANGED LeaseVars /\ live' \subseteq live /\ execs' = execs
  BY DEF Check, LeaseVars, engine
<1>2. CASE Stop(t)
  BY <1>1, <1>2, LeaseStop
<1>3. ASSUME NEW n \in Nodes,
             thread' = [thread EXCEPT ![t] =
                          Local("gate", thread[t].exec, n, att[thread[t].exec][n], 0, "none")]
      PROVE  LeaseInv' /\ LeasesGrow
  <2> DEFINE l == Local("gate", thread[t].exec, n, att[thread[t].exec][n], 0, "none")
  <2>1. l.pc = "gate" /\ l.exec = thread[t].exec /\ l.node = n /\ l.att = att[thread[t].exec][n]
    BY DEF Local
  <2>2. thread' = [thread EXCEPT ![t] = l]
    BY <1>3
  <2> HIDE DEF l
  <2>3. \A o \in OwnerMaps : Owned(o) => HoldsOwn(l, o, atts, invs, req)
    BY <2>1 DEF Owned, RowsOwn, HoldsOwn, Calling
  <2> QED
    BY <1>1, <2>2, <2>3, LeaseMove
<1> QED
  BY <1>2, <1>3 DEF Check

\* The gates keep the attempt or drop it.
LEMMA GateLeased ==
    ASSUME TypeOK, LeaseInv, NEW t \in Threads, Gate(t)
    PROVE  LeaseInv' /\ LeasesGrow
<1>1. UNCHANGED LeaseVars /\ live' \subseteq live /\ execs' = execs /\ thread[t].pc = "gate"
  BY DEF Gate, LeaseVars, engine, db
<1>2. CASE Goto(t, "fail") \/ Goto(t, "claim")
  BY <1>1, <1>2, LeaseGoto
<1>3. CASE thread' = [thread EXCEPT ![t].pc = "claim", ![t].att = 0]
  <2> DEFINE l == [thread[t] EXCEPT !.pc = "claim", !.att = 0]
  <2>1. thread' = [thread EXCEPT ![t] = l]
    BY <1>3 DEF TypeOK
  <2>2. l.pc = "claim" /\ l.att = 0
    BY DEF TypeOK, Locals
  <2> HIDE DEF l
  <2>3. \A o \in OwnerMaps : HoldsOwn(l, o, atts, invs, req)
    BY <2>2, Counters DEF HoldsOwn, Calling
  <2> QED
    BY <1>1, <2>1, <2>3, LeaseMove
<1> QED
  BY <1>2, <1>3 DEF Gate

\* The engine's answer changes nothing of what the thread holds.
LEMMA EngineAnswersLeased ==
    ASSUME TypeOK, LeaseInv, NEW t \in Threads, EngineAnswers(t)
    PROVE  LeaseInv' /\ LeasesGrow
<1>1. UNCHANGED LeaseVars /\ live' \subseteq live /\ execs' = execs /\ thread[t].pc = "engine"
  BY DEF EngineAnswers, LeaseVars, db
<1>2. PICK pc \in {"fail", "task"}, out \in Answers :
        thread' = [thread EXCEPT ![t].pc = pc, ![t].out = out]
  BY DEF EngineAnswers
<1> DEFINE l == [thread[t] EXCEPT !.pc = pc, !.out = out]
<1>3. thread' = [thread EXCEPT ![t] = l]
  BY <1>2 DEF TypeOK
<1>4. /\ l.pc = pc /\ l.exec = thread[t].exec /\ l.node = thread[t].node /\ l.inv = thread[t].inv
      /\ l.att = thread[t].att
  BY DEF TypeOK, Locals
<1> HIDE DEF l
<1>5. \A o \in OwnerMaps : Owned(o) => HoldsOwn(l, o, atts, invs, req)
  BY <1>1, <1>4 DEF Owned, ThreadsOwn, HoldsOwn, Calling
<1> QED
  BY <1>1, <1>3, <1>5, LeaseMove

\* A completion is looked up by attempt or invocation: both name its own row.
LEMMA RowsAreOwn ==
    ASSUME TypeOK, LeaseInv, NEW i \in 1..invs, NEW r \in Rows(i)
    PROVE  r = Row(i)
<1>1. PICK o \in OwnerMaps : Owned(o)
  BY DEF LeaseInv
<1>2. r \in Execs \X Nodes /\ r = <<r[1], r[2]>> /\ r[1] \in Execs /\ r[2] \in Nodes
  BY DEF Rows
<1>3. CASE inv[r[1]][r[2]] = i
  <2>1. i # 0
    BY Counters
  <2> QED
    BY <1>1, <1>2, <1>3, <2>1 DEF Owned, RowsOwn
<1>4. CASE att[r[1]][r[2]] # 0 /\ att[r[1]][r[2]] = req[i].att
  BY <1>1, <1>2, <1>4 DEF Owned, RowsOwn, CallsOwn
<1> QED
  BY <1>3, <1>4 DEF Rows

\* A posted completion works on the row its invocation was sent for.
LEMMA PostLeased ==
    ASSUME TypeOK, LeaseInv,
           NEW t \in Posts, NEW i \in Invocations, NEW out \in Answers, Post(t, i, out)
    PROVE  LeaseInv' /\ LeasesGrow
<1>1. UNCHANGED LeaseVars /\ live' \subseteq live /\ execs' = execs /\ t \in Threads /\ i \in 1..invs
  BY DEF Post, LeaseVars, db, Threads, Accepted, LeaseInv, CallsAreLeased
<1>2. CASE Stop(t)
  BY <1>1, <1>2, LeaseStop
<1>3. ASSUME NEW r \in Rows(i),
             thread' = [thread EXCEPT ![t] =
                          Local("ingress", r[1], r[2], att[r[1]][r[2]], i,
                                IF inv[r[1]][r[2]] = i THEN out ELSE "malformed")]
      PROVE  LeaseInv' /\ LeasesGrow
  <2> DEFINE l == Local("ingress", r[1], r[2], att[r[1]][r[2]], i,
                        IF inv[r[1]][r[2]] = i THEN out ELSE "malformed")
  <2>1. thread' = [thread EXCEPT ![t] = l]
    BY <1>3
  <2>2. l.pc = "ingress" /\ l.exec = r[1] /\ l.node = r[2] /\ l.att = att[r[1]][r[2]] /\ l.inv = i
    BY DEF Local
  <2> HIDE DEF l
  <2>3. r[1] = req[i].exec /\ r[2] = req[i].node /\ r[1] \in Execs /\ r[2] \in Nodes
    <3>1. r = Row(i)
      BY <1>1, RowsAreOwn
    <3> QED
      BY <3>1 DEF Row, Rows
  <2>4. \A o \in OwnerMaps : Owned(o) => HoldsOwn(l, o, atts, invs, req)
    BY <1>1, <2>2, <2>3 DEF Owned, RowsOwn, HoldsOwn, Calling
  <2> QED
    BY <1>1, <2>1, <2>4, LeaseMove
<1> QED
  BY <1>2, <1>3 DEF Post

\* A claim: the row takes the attempt its thread holds, which is its own, or a
\* fresh one, which belongs to nobody yet.
LEMMA ClaimLeased ==
    ASSUME TypeOK, LeaseInv, NEW t \in Threads, thread[t].exec \in 1..execs, thread[t].node \in Nodes,
           Claim(t)
    PROVE  LeaseInv' /\ LeasesGrow
<1> DEFINE e == thread[t].exec
           n == thread[t].node
           pre == thread[t].att
           a == IF pre # 0 THEN pre ELSE atts + 1
           i == invs + 1
<1>0. /\ atts \in Nat /\ invs \in Nat /\ execs \in Nat /\ e \in Execs
      /\ 1..atts \subseteq Attempts /\ 1..invs \subseteq Invocations
  BY Counters
<1>1. PICK o \in OwnerMaps : Owned(o)
  BY DEF LeaseInv
<1>2. thread[t].pc = "claim" /\ HoldsOwn(thread[t], o, atts, invs, req) /\ thread[t] \in Locals
  BY <1>1 DEF Claim, Owned, ThreadsOwn, TypeOK
<1>3. pre \in 0..atts /\ (pre # 0 => o[pre] = <<e, n>>)
  BY <1>2 DEF HoldsOwn
<1>4. a \in Attempts /\ i \in Invocations /\ (a \in 1..atts \/ a = atts + 1)
  <2>1. a <= MaxAttempts /\ i <= MaxInvocations
    BY DEF Claim
  <2> QED
    BY <1>0, <1>3, <2>1, BoundAssumption DEF Attempts, Invocations
<1>5. /\ att' = [att EXCEPT ![e][n] = a] /\ inv' = [inv EXCEPT ![e][n] = i]
      /\ atts' = (IF pre # 0 THEN atts ELSE a)
      /\ epoch' = (IF pre # 0 THEN epoch ELSE [epoch EXCEPT ![a] = 1])
      /\ invs' = i /\ req' = [req EXCEPT ![i] = [exec |-> e, node |-> n, att |-> a, epoch |-> 1]]
      /\ live' = live \cup {i} /\ thread' = [thread EXCEPT ![t].pc = "engine", ![t].inv = i]
      /\ execs' = execs
  BY DEF Claim
<1>6. PICK p \in OwnerMaps : p[a] = <<e, n>> /\ \A b \in 1..atts : p[b] = o[b]
  <2> DEFINE q == [o EXCEPT ![a] = <<e, n>>]
  <2>1. <<e, n>> \in (0..MaxExecs) \X (Nodes \cup {NoNode})
    BY <1>0 DEF Execs
  <2>2. q \in OwnerMaps /\ q[a] = <<e, n>>
    BY <1>4, <2>1 DEF OwnerMaps
  <2>3. \A b \in 1..atts : q[b] = o[b]
    BY <1>0, <1>3, <1>4 DEF OwnerMaps
  <2> QED
    BY <2>2, <2>3
<1>7. atts' \in Nat /\ atts <= atts' /\ a \in 1..atts'
  BY <1>0, <1>3, <1>4, <1>5
<1> HIDE DEF a
<1>8. /\ \A j \in 1..invs : req'[j] = req[j]
      /\ req'[i] = [exec |-> e, node |-> n, att |-> a, epoch |-> 1]
      /\ 1..invs' = 1..invs \cup {i}
  <2>1. req \in [Invocations -> Requests]
    BY DEF TypeOK
  <2>2. \A j \in 1..invs : j # i
    BY <1>0
  <2> QED
    BY <1>0, <1>4, <1>5, <2>1, <2>2
<1>9. LeasesGrow
  <2>1. \A b \in 1..atts : epoch'[b] >= epoch[b]
    <3> SUFFICES ASSUME NEW b \in 1..atts PROVE epoch'[b] >= epoch[b]
      OBVIOUS
    <3>1. epoch[b] \in Nat /\ b \in Attempts
      BY <1>0, Counters
    <3>2. CASE pre # 0
      BY <1>5, <3>1, <3>2
    <3>3. CASE pre = 0
      <4>1. b # a
        BY <1>0, <3>3 DEF a
      <4>2. epoch'[b] = epoch[b]
        BY <1>5, <3>1, <3>3, <4>1 DEF TypeOK
      <4> QED
        BY <3>1, <4>2
    <3> QED
      BY <3>2, <3>3
  <2> QED
    BY <1>0, <1>5, <1>7, <1>8, <2>1 DEF LeasesGrow
<1>10. CallsAreLeased'
  <2>1. live' \subseteq 1..invs'
    BY <1>5, <1>8 DEF LeaseInv, CallsAreLeased
  <2>2. \A b \in Attempts : b <= atts' <=> epoch'[b] # 0
    <3>1. \A b \in Attempts : b <= atts <=> epoch[b] # 0
      BY DEF LeaseInv, CallsAreLeased
    <3>2. CASE pre # 0
      BY <1>5, <3>1, <3>2
    <3>3. CASE pre = 0
      <4>1. a = atts + 1 /\ atts' = atts + 1 /\ epoch' = [epoch EXCEPT ![a] = 1]
        BY <1>5, <3>3 DEF a
      <4> QED
        BY <1>0, <1>4, <3>1, <4>1 DEF TypeOK, Attempts
    <3> QED
      BY <3>2, <3>3
  <2>3. ASSUME NEW j \in 1..invs'
        PROVE  /\ req'[j].exec \in 1..execs' /\ req'[j].node \in Nodes
               /\ req'[j].att \in 1..atts' /\ req'[j].epoch = 1
    <3>1. CASE j = i
      BY <1>5, <1>7, <1>8, <3>1
    <3>2. CASE j \in 1..invs
      BY <1>0, <1>5, <1>7, <1>8, <3>2 DEF LeaseInv, CallsAreLeased
    <3> QED
      BY <1>8, <3>1, <3>2
  <2> QED
    BY <2>1, <2>2, <2>3 DEF CallsAreLeased
<1>11. CallsOwn(p)'
  <2> SUFFICES ASSUME NEW j \in 1..invs' PROVE p[req'[j].att] = <<req'[j].exec, req'[j].node>>
    BY DEF CallsOwn, Row
  <2>1. CASE j = i
    BY <1>6, <1>8, <2>1
  <2>2. CASE j \in 1..invs
    <3>1. req[j].att \in 1..atts /\ o[req[j].att] = <<req[j].exec, req[j].node>>
      BY <1>1, <2>2 DEF LeaseInv, CallsAreLeased, Owned, CallsOwn, Row
    <3> QED
      BY <1>6, <1>8, <2>2, <3>1
  <2> QED
    BY <1>8, <2>1, <2>2
<1>12. RowsOwn(p)'
  <2> SUFFICES ASSUME NEW f \in Execs, NEW m \in Nodes
               PROVE  /\ att'[f][m] \in 0..atts'
                      /\ att'[f][m] # 0 => p[att'[f][m]] = <<f, m>>
                      /\ inv'[f][m] # 0 => /\ inv'[f][m] \in 1..invs'
                                           /\ <<req'[inv'[f][m]].exec, req'[inv'[f][m]].node>> = <<f, m>>
    BY DEF RowsOwn, Row
  <2>1. CASE f = e /\ m = n
    <3>1. att'[f][m] = a /\ inv'[f][m] = i
      BY <1>0, <1>5, <2>1 DEF TypeOK
    <3>2. i \in 1..invs' /\ a \in 0..atts'
      BY <1>0, <1>7, <1>8
    <3> QED
      BY <1>6, <1>8, <2>1, <3>1, <3>2
  <2>2. CASE ~(f = e /\ m = n)
    <3>1. att'[f][m] = att[f][m] /\ inv'[f][m] = inv[f][m]
      BY <1>0, <1>5, <2>2 DEF TypeOK
    <3>2. /\ att[f][m] \in 0..atts /\ (att[f][m] # 0 => o[att[f][m]] = <<f, m>>)
          /\ inv[f][m] # 0 => inv[f][m] \in 1..invs /\ Row(inv[f][m]) = <<f, m>>
      BY <1>1 DEF Owned, RowsOwn
    <3>3. att[f][m] \in 0..atts' /\ (att[f][m] # 0 => att[f][m] \in 1..atts)
      BY <1>0, <1>7, <3>2
    <3> QED
      BY <1>6, <1>8, <3>1, <3>2, <3>3 DEF Row
  <2> QED
    BY <2>1, <2>2
<1>13. ThreadsOwn(p)'
  <2> DEFINE l == [thread[t] EXCEPT !.pc = "engine", !.inv = i]
  <2>1. thread' = [thread EXCEPT ![t] = l]
    BY <1>5 DEF TypeOK
  <2>2. l.pc = "engine" /\ l.exec = e /\ l.node = n /\ l.inv = i /\ l.att = pre
    BY <1>2 DEF Locals
  <2> HIDE DEF l
  <2>3. pre \in 0..atts' /\ i \in 1..invs'
    BY <1>0, <1>3, <1>7, <1>8
  <2>4. HoldsOwn(l, p, atts', invs', req')
    BY <1>8, <2>2, <2>3 DEF HoldsOwn, Calling
  <2> QED
    BY <1>1, <1>6, <1>9, <2>1, <2>4, ThreadsHold DEF Owned
<1> QED
  BY <1>6, <1>9, <1>10, <1>11, <1>12, <1>13 DEF LeaseInv, Owned

\* revoke_lease moves an epoch on, and never to 0.
LEMMA RevokedGrows ==
    ASSUME TypeOK, NEW a, NEW b \in Attempts
    PROVE  Revoked(a)[b] >= epoch[b] /\ (Revoked(a)[b] # 0 <=> epoch[b] # 0)
  BY DEF TypeOK, Revoked

\* Cancel revokes the active attempt.
LEMMA CancelLeased ==
    ASSUME TypeOK, LeaseInv, Cancel
    PROVE  LeaseInv' /\ LeasesGrow
<1>0. /\ UNCHANGED <<execs, att, inv, atts, invs, req, thread>> /\ live' \subseteq live
      /\ epoch' = epoch \/ epoch' = Revoked(active)
  BY DEF Cancel
<1>1. \A b \in Attempts : epoch'[b] >= epoch[b] /\ (epoch'[b] # 0 <=> epoch[b] # 0)
  <2>1. CASE epoch' = epoch
    BY <2>1 DEF TypeOK
  <2>2. CASE epoch' = Revoked(active)
    BY <2>2, RevokedGrows
  <2> QED
    BY <1>0, <2>1, <2>2
<1>2. LeasesGrow
  BY <1>0, <1>1, Counters DEF LeasesGrow
<1>3. CallsAreLeased'
  BY <1>0, <1>1 DEF LeaseInv, CallsAreLeased
<1>4. \A o \in OwnerMaps : Owned(o) => Owned(o)'
  BY <1>0 DEF Owned, RowsOwn, CallsOwn, ThreadsOwn, Row
<1> QED
  BY <1>2, <1>3, <1>4 DEF LeaseInv

\* Recover makes one new attempt and binds it to one row of the newest execution.
LEMMA RecoverLeased ==
    ASSUME TypeOK, LeaseInv, NEW source, NEW checkpoint, Recover(source, checkpoint)
    PROVE  LeaseInv' /\ LeasesGrow
<1> DEFINE a == atts + 1
           s == Recovered(node[execs])
           target == Target(execs, source, checkpoint, s)
           old == IF source # 0 THEN Revoked(source) ELSE epoch
<1>0. /\ UNCHANGED <<execs, inv, invs, req, live, thread>> /\ atts' = a
      /\ epoch' = [old EXCEPT ![a] = 1]
      /\ att' = att \/ (execs # 0 /\ att' = [att EXCEPT ![execs] = Rebound(execs, target, a, s)])
  <2>1. /\ UNCHANGED <<execs, inv, invs, req, live, thread>> /\ atts' = a
        /\ epoch' = [old EXCEPT ![a] = 1]
    BY Zenon DEF Recover, engine
  <2>2. execs = 0 => att' = att
    BY DEF Recover
  <2>3. execs # 0 => att' = [att EXCEPT ![execs] = Rebound(execs, target, a, s)]
    BY DEF Recover
  <2> HIDE DEF a, s, target, old
  <2> QED
    BY <2>1, <2>2, <2>3, Zenon
<1>1. /\ atts \in Nat /\ a \in Attempts /\ atts' \in Nat /\ atts <= atts'
      /\ 1..atts \subseteq Attempts
  BY <1>0, Counters, BoundAssumption DEF Recover, Attempts, TypeOK
<1>2. /\ \A b \in 1..atts : epoch'[b] >= epoch[b]
      /\ \A b \in Attempts : b <= atts' <=> epoch'[b] # 0
  <2>1. old \in [Attempts -> Nat]
    BY RevokedTyped DEF TypeOK
  <2>2. \A b \in Attempts : old[b] >= epoch[b] /\ (old[b] # 0 <=> epoch[b] # 0)
    BY RevokedGrows DEF TypeOK
  <2> HIDE DEF old
  <2>3. epoch'[a] = 1 /\ \A b \in Attempts : b # a => epoch'[b] = old[b]
    BY <1>0, <1>1, <2>1
  <2>4. \A b \in Attempts : b <= atts <=> epoch[b] # 0
    BY DEF LeaseInv, CallsAreLeased
  <2>5. \A b \in 1..atts : b # a
    BY <1>1
  <2>6. \A b \in Attempts : b <= atts' <=> b <= atts \/ b = a
    BY <1>0, <1>1 DEF Attempts
  <2>7. \A b \in 1..atts : epoch'[b] >= epoch[b]
    BY <1>1, <2>2, <2>3, <2>5
  <2>8. \A b \in Attempts : b <= atts' <=> epoch'[b] # 0
    BY <2>2, <2>3, <2>4, <2>6
  <2> QED
    BY <2>7, <2>8
<1>3. LeasesGrow
  BY <1>0, <1>1, <1>2, Counters DEF LeasesGrow
<1>4. CallsAreLeased'
  <2>1. \A i \in 1..invs : req[i].att \in 1..atts'
    BY <1>0, <1>1 DEF LeaseInv, CallsAreLeased
  <2> QED
    BY <1>0, <1>2, <2>1 DEF LeaseInv, CallsAreLeased
<1>5. PICK o \in OwnerMaps : Owned(o)
  BY DEF LeaseInv
<1>6. PICK p \in OwnerMaps :
        /\ \A b \in 1..atts : p[b] = o[b]
        /\ execs # 0 /\ target \in Nodes => p[a] = <<execs, target>>
  <2> DEFINE q == [o EXCEPT ![a] = IF execs # 0 /\ target \in Nodes THEN <<execs, target>> ELSE o[a]]
  <2>1. o[a] \in (0..MaxExecs) \X (Nodes \cup {NoNode})
    BY <1>1 DEF OwnerMaps
  <2>2. execs \in 0..MaxExecs
    BY DEF TypeOK
  <2> HIDE DEF target
  <2>3. (IF execs # 0 /\ target \in Nodes THEN <<execs, target>> ELSE o[a])
           \in (0..MaxExecs) \X (Nodes \cup {NoNode})
    BY <2>1, <2>2
  <2>4. \A b \in 1..atts : b # a
    BY <1>1
  <2> QED
    <3>1. q \in OwnerMaps
      BY <1>1, <2>3 DEF OwnerMaps
    <3>2. \A b \in 1..atts : q[b] = o[b]
      BY <1>1, <2>4 DEF OwnerMaps
    <3>3. execs # 0 /\ target \in Nodes => q[a] = <<execs, target>>
      BY <1>1 DEF OwnerMaps
    <3> QED
      BY <3>1, <3>2, <3>3
<1>7. RowsOwn(p)'
  <2> SUFFICES ASSUME NEW f \in Execs, NEW m \in Nodes
               PROVE  /\ att'[f][m] \in 0..atts'
                      /\ att'[f][m] # 0 => p[att'[f][m]] = <<f, m>>
                      /\ inv'[f][m] # 0 => /\ inv'[f][m] \in 1..invs'
                                           /\ <<req'[inv'[f][m]].exec, req'[inv'[f][m]].node>> = <<f, m>>
    BY DEF RowsOwn, Row
  <2>1. /\ att[f][m] \in 0..atts /\ (att[f][m] # 0 => o[att[f][m]] = <<f, m>>)
        /\ inv[f][m] # 0 => inv[f][m] \in 1..invs /\ Row(inv[f][m]) = <<f, m>>
    BY <1>5 DEF Owned, RowsOwn
  <2>2. att[f][m] \in 0..atts' /\ (att[f][m] # 0 => att[f][m] \in 1..atts) /\ a \in 0..atts' /\ 0 \in 0..atts'
    BY <1>0, <1>1, <2>1
  <2>3. /\ att'[f][m] \in {att[f][m], a, 0}
        /\ att'[f][m] = a => att'[f][m] = att[f][m] \/ (execs # 0 /\ f = execs /\ m = target)
    <3>1. CASE att' = att
      BY <3>1
    <3>2. CASE execs # 0 /\ att' = [att EXCEPT ![execs] = Rebound(execs, target, a, s)]
      <4>1. CASE f = execs
        <5>1. att'[f][m] = Rebound(execs, target, a, s)[m]
          BY <3>2, <4>1 DEF TypeOK
        <5> HIDE DEF target, s
        <5>2. att'[f][m] = IF s[m] = "SUCCEEDED" THEN att[f][m]
                           ELSE IF m = target /\ s[m] = "READY" THEN a ELSE 0
          BY <4>1, <5>1 DEF Rebound
        <5>3. a # 0
          BY <1>1
        <5> QED
          BY <3>2, <4>1, <5>2, <5>3
      <4>2. CASE f # execs
        BY <3>2, <4>2 DEF TypeOK
      <4> QED
        BY <4>1, <4>2
    <3> QED
      BY <1>0, <3>1, <3>2
  <2> HIDE DEF target, s
  <2>4. ASSUME att'[f][m] # 0 PROVE p[att'[f][m]] = <<f, m>>
    <3>1. CASE att'[f][m] = att[f][m]
      BY <1>6, <2>1, <2>2, <2>4, <3>1
    <3>2. CASE att'[f][m] = a /\ execs # 0 /\ f = execs /\ m = target
      BY <1>6, <3>2
    <3> QED
      BY <2>3, <2>4, <3>1, <3>2
  <2> QED
    BY <1>0, <2>1, <2>2, <2>3, <2>4 DEF Row
<1>8. CallsOwn(p)'
  BY <1>0, <1>5, <1>6 DEF LeaseInv, CallsAreLeased, Owned, CallsOwn, Row
<1>9. ThreadsOwn(p)'
  <2> SUFFICES ASSUME NEW u \in Threads PROVE HoldsOwn(thread[u], p, atts', invs', req')
    BY <1>0 DEF ThreadsOwn
  <2>1. HoldsOwn(thread[u], o, atts, invs, req)
    BY <1>5 DEF Owned, ThreadsOwn
  <2> QED
    BY <1>3, <1>6, <2>1, HoldsKept
<1> QED
  BY <1>3, <1>4, <1>6, <1>7, <1>8, <1>9 DEF LeaseInv, Owned

\* The process dies: every working thread is finished.
LEMMA CrashLeased ==
    ASSUME TypeOK, LeaseInv, Crash
    PROVE  LeaseInv' /\ LeasesGrow
<1>1. UNCHANGED LeaseVars /\ live' \subseteq live /\ execs' = execs
  BY DEF Crash, LeaseVars, db
<1>2. ASSUME NEW o \in OwnerMaps, Owned(o) PROVE ThreadsOwn(o)'
  <2> SUFFICES ASSUME NEW u \in Threads PROVE HoldsOwn(thread'[u], o, atts', invs', req')
    BY DEF ThreadsOwn
  <2>1. thread'[u] = Idle \/ thread'[u] = Done
    BY DEF Crash
  <2>2. atts' \in Nat
    BY <1>1, Counters DEF LeaseVars
  <2> QED
    BY <2>1, <2>2, RestingHolds
<1> QED
  BY <1>1, <1>2, LeaseKept

\* Every step keeps the owners, and only adds to the leases.
LEMMA LeaseStep == IInv /\ LeaseInv /\ [Next]_vars => LeaseInv' /\ LeasesGrow
<1> SUFFICES ASSUME IInv, LeaseInv, [Next]_vars PROVE LeaseInv' /\ LeasesGrow
  OBVIOUS
<1>0. TypeOK
  BY DEF IInv
<1>1. ASSUME NEW t \in Threads, Step(t) PROVE LeaseInv' /\ LeasesGrow
  <2>1. ASSUME Check(t) PROVE thread[t].exec \in Execs
    BY <2>1, Working DEF Check, Resting
  <2>2. CASE Check(t)
    BY <1>0, <2>1, <2>2, CheckLeased
  <2>3. CASE Claim(t)
    <3>1. thread[t].exec \in 1..execs /\ thread[t].node \in Nodes
      BY <2>3, Working DEF Claim, Resting
    <3> QED
      BY <1>0, <2>3, <3>1, ClaimLeased
  <2>4. CASE LostClaim(t) \/ RecordTask(t) \/ InProgress(t) \/ Reconcile(t) \/ MarkFailed(t) \/ Ingress(t)
    <3>1. UNCHANGED LeaseVars /\ live' \subseteq live /\ execs' = execs
      BY <2>4 DEF LostClaim, RecordTask, InProgress, Reconcile, MarkFailed, Ingress, LeaseVars, engine, db
    <3>2. \/ Stop(t)
          \/ \E pc \in {"check", "fail"} : Goto(t, pc)
          \/ thread[t].pc = "task" /\ \E pc \in {"progress", "reconcile"} : Goto(t, pc)
      BY <2>4 DEF LostClaim, RecordTask, InProgress, Reconcile, MarkFailed, Ingress, AfterSuccess
    <3> QED
      BY <1>0, <3>1, <3>2, LeaseStop, LeaseGoto DEF Calling
  <2> QED
    BY <1>0, <1>1, <2>2, <2>3, <2>4, GateLeased, EngineAnswersLeased DEF Step
<1>2. CASE UNCHANGED vars \/ Pause \/ Resume
  <2>1. UNCHANGED LeaseVars /\ live' \subseteq live /\ UNCHANGED <<execs, thread>>
    BY <1>2 DEF vars, db, engine, LeaseVars, Pause, Resume
  <2>2. \A o \in OwnerMaps : Owned(o) => ThreadsOwn(o)'
    BY <2>1 DEF Owned, ThreadsOwn, LeaseVars
  <2> QED
    BY <1>0, <2>1, <2>2, LeaseKept
<1> QED
  BY <1>0, <1>1, <1>2, StartLeased, PostLeased, CancelLeased, RecoverLeased, CrashLeased
     DEF Next, Operator

\* The lease table, the rows, the requests and the threads agree on who owns an
\* attempt, in every state.
THEOREM LeaseInvariant == Spec => [](IInv /\ LeaseInv)
<1>1. Init => IInv /\ LeaseInv
  BY PlanInit, LeaseInit
<1>2. IInv /\ LeaseInv /\ [Next]_vars => IInv' /\ LeaseInv'
  BY PlanStep, LeaseStep
<1> QED
  BY <1>1, <1>2, PTL DEF Spec

\* A posted completion is applied to the row its invocation was sent for: the
\* lookup by attempt or invocation (reconcile_node_completion) has one answer,
\* for every plan, whatever was cancelled, recovered and claimed before.
THEOREM CompletionsFindTheirRow == Spec => []CompletionFindsItsRow
<1>1. IInv /\ LeaseInv => CompletionFindsItsRow
  <2> SUFFICES ASSUME IInv, LeaseInv, NEW i \in 1..invs, NEW r \in Rows(i) PROVE r = Row(i)
    BY DEF CompletionFindsItsRow, Row
  <2> QED
    BY RowsAreOwn DEF IInv
<1> QED
  BY <1>1, LeaseInvariant, PTL

\* A call that lost its lease has lost it for good (revoke_lease, the claim and
\* handle_recover_migration never bring an epoch back).
LEMMA FenceKept ==
    ASSUME TypeOK, LeaseInv, LeasesGrow, NEW i \in 1..invs, Fenced(i)
    PROVE  epoch'[req'[i].att] # req'[i].epoch
<1>1. req[i].att \in 1..atts /\ req[i].epoch = 1 /\ req'[i] = req[i] /\ req[i].att \in Attempts
  BY Counters DEF LeaseInv, CallsAreLeased, LeasesGrow
<1>2. epoch[req[i].att] # 0 /\ epoch[req[i].att] \in Nat
  BY <1>1, Counters DEF LeaseInv, CallsAreLeased, TypeOK
<1>3. epoch'[req[i].att] >= epoch[req[i].att]
  BY <1>1 DEF LeasesGrow
<1> QED
  BY <1>1, <1>2, <1>3 DEF Fenced

\* So in every behaviour of the coordinator.
THEOREM FencesHold == Spec => FencedStaysFenced
<1>1. IInv /\ LeaseInv /\ [Next]_vars => [\A i \in 1..invs : Fenced(i) => Fenced(i)']_vars
  BY LeaseStep, FenceKept DEF IInv, Fenced
<1> QED
  BY <1>1, LeaseInvariant, PTL DEF Spec, FencedStaysFenced

(***************************************************************************)
(* Plans with one root. Only the root can ever be sent (the activation of  *)
(* a successor raises), so a call that is not fenced belongs to the active *)
(* attempt of the newest execution, and the cancellation that must precede *)
(* a recovery fences it.                                                   *)
(***************************************************************************)
Root(n) == Deps[n] = {}
Going == {"ACCEPTED", "RUNNING"}
Cancelling == {"CANCELLED", "CANCELLATION_PENDING"}
AllFenced(e) == \A i \in 1..invs : req[i].exec = e => Fenced(i)

\* The rows of one execution: only the newest one goes on; a READY row is the
\* root's and no earlier call for it can be answered; the other rows wait, or
\* were cancelled together with every call.
Rooted(e) ==
    /\ plan[e] # "none"
    /\ e # execs => plan[e] \notin Going
    /\ \A n \in Nodes : node[e][n] = "READY" => Root(n) /\ plan[e] \in Going /\ AllFenced(e)
    /\ \A n \in Nodes : Root(n) => node[e][n] # "BLOCKED"
    /\ \A m \in Nodes : ~Root(m) =>
          /\ node[e][m] \in {"BLOCKED", "CANCELLED"}
          /\ \A n \in Nodes : node[e][n] # "SUCCEEDED"
          /\ node[e][m] = "CANCELLED" => AllFenced(e) /\ \A n \in Nodes : node[e][n] # "READY"

RowsRooted == \A e \in 1..execs : Rooted(e)
CallsRooted == \A i \in 1..invs : Root(req[i].node)
ThreadsRooted == \A t \in Threads : thread[t].pc \notin Resting \cup {"check"} => Root(thread[t].node)
OpenIsActive == \A i \in 1..invs : req[i].exec = execs /\ ~Fenced(i) => req[i].att = active
CancelledIsFenced == mig \in Cancelling => AllFenced(execs) /\ \A e \in 1..execs : plan[e] \notin Going
NewestOrFenced == \A i \in 1..invs : inv[req[i].exec][req[i].node] # i => Fenced(i)

RootInv == /\ RowsRooted /\ CallsRooted /\ ThreadsRooted
           /\ OpenIsActive /\ CancelledIsFenced /\ NewestOrFenced

CallVars == <<active, execs, inv, epoch, invs, req>>

\* The initial state has no execution and no call.
LEMMA RootInit == Init => RootInv
  BY DEF Init, RootInv, RowsRooted, CallsRooted, ThreadsRooted, OpenIsActive, CancelledIsFenced,
         NewestOrFenced, AllFenced, Cancelling, Idle, Local, Resting

\* Steps that touch no call keep what the calls promise.
LEMMA CallsKept ==
    ASSUME RootInv, UNCHANGED CallVars
    PROVE  /\ CallsRooted' /\ OpenIsActive' /\ NewestOrFenced' /\ execs' = execs
           /\ \A e : AllFenced(e) <=> AllFenced(e)'
           /\ AllFenced(execs) => AllFenced(execs)'
<1>1. UNCHANGED <<active, execs, inv, epoch, invs, req>>
  BY DEF CallVars
<1> QED
  BY <1>1 DEF RootInv, CallsRooted, OpenIsActive, NewestOrFenced, AllFenced, Fenced

\* Steps that touch no row either.
LEMMA RootQuiet ==
    ASSUME RootInv, UNCHANGED CallVars, UNCHANGED <<plan, node>>,
           mig' = mig \/ mig' \notin Cancelling, ThreadsRooted'
    PROVE  RootInv'
<1>1. RowsRooted'
  BY CallsKept DEF RootInv, RowsRooted, Rooted
<1>2. CancelledIsFenced'
  BY CallsKept DEF RootInv, CancelledIsFenced
<1> QED
  BY <1>1, <1>2, CallsKept DEF RootInv

\* Steps that rewrite the rows of one execution without making one READY.
LEMMA RootRewrite ==
    ASSUME TypeOK, RootInv, UNCHANGED CallVars, mig' = mig \/ mig' \notin Cancelling, ThreadsRooted',
           NEW e \in 1..execs,
           \A f \in Execs : f # e => plan'[f] = plan[f] /\ node'[f] = node[f],
           plan'[e] # "none", plan'[e] \in Going => plan[e] \in Going,
           \A f \in 1..execs : f = e => Rooted(f)'
    PROVE  RootInv'
<1>1. 1..execs \subseteq Execs /\ execs' = execs
  BY Counters, CallsKept
<1>2. RowsRooted'
  <2> SUFFICES ASSUME NEW f \in 1..execs PROVE Rooted(f)'
    BY <1>1 DEF RowsRooted
  <2>1. CASE f # e
    BY <1>1, <2>1, CallsKept DEF RootInv, RowsRooted, Rooted
  <2> QED
    BY <2>1
<1>3. CancelledIsFenced'
  BY <1>1, CallsKept DEF RootInv, CancelledIsFenced
<1> QED
  BY <1>2, <1>3, CallsKept DEF RootInv

\* A thread stops, or goes on with the same node.
LEMMA RootThread ==
    ASSUME TypeOK, ThreadsRooted, NEW t \in Threads,
           \/ Stop(t)
           \/ \E pc : Goto(t, pc) /\ (thread[t].pc \notin Resting \cup {"check"} \/ pc = "check")
    PROVE  ThreadsRooted'
<1> SUFFICES ASSUME NEW u \in Threads, thread'[u].pc \notin Resting \cup {"check"}
             PROVE  Root(thread'[u].node)
  BY DEF ThreadsRooted
<1>1. CASE u # t
  <2>1. thread'[u] = thread[u]
    BY <1>1 DEF Stop, Goto, TypeOK
  <2> QED
    BY <2>1 DEF ThreadsRooted
<1>2. CASE u = t /\ Stop(t)
  <2>1. thread'[u] = Done
    BY <1>2 DEF Stop, TypeOK
  <2> QED
    BY <2>1, IdleTyped DEF Resting
<1>3. ASSUME u = t, NEW pc, Goto(t, pc), thread[t].pc \notin Resting \cup {"check"} \/ pc = "check"
      PROVE  Root(thread'[u].node)
  <2>1. thread'[t] = [thread[t] EXCEPT !.pc = pc] /\ thread[t] \in Locals
    BY <1>3 DEF Goto, TypeOK
  <2>2. thread'[t].pc = pc /\ thread'[t].node = thread[t].node
    BY <2>1 DEF Locals
  <2> QED
    BY <1>3, <2>2 DEF ThreadsRooted
<1> QED
  BY <1>1, <1>2, <1>3

\* A new thread, or one that picked a node.
LEMMA RootLocal ==
    ASSUME TypeOK, ThreadsRooted, NEW t \in Threads, NEW l, thread' = [thread EXCEPT ![t] = l],
           l.pc = "check" \/ Root(l.node)
    PROVE  ThreadsRooted'
  BY DEF ThreadsRooted, TypeOK

\* A failed root: nothing of its execution is READY any more.
LEMMA FailedRooted ==
    ASSUME OneRoot, TypeOK, RootInv, UNCHANGED CallVars, mig' = mig, ThreadsRooted',
           NEW e \in 1..execs, NEW n \in Nodes, Root(n), Failed(e, n)
    PROVE  RootInv'
<1>1. e \in Execs
  BY Counters
<1>2. /\ \A f \in Execs : f # e => node'[f] = node[f] /\ plan'[f] = plan[f]
      /\ plan'[e] = "FAILED" /\ node'[e][n] = "FAILED"
      /\ \A m \in Nodes : m # n => node'[e][m] = node[e][m]
  BY <1>1 DEF Failed, TypeOK
<1>3. \A m \in Nodes : Root(m) => m = n
  BY DEF OneRoot, Root
<1>4. Rooted(e)
  BY DEF RootInv, RowsRooted
<1>5. ASSUME NEW f \in 1..execs, f = e PROVE Rooted(f)'
  <2>1. plan'[f] = "FAILED" /\ plan'[f] \notin Going
    BY <1>2, <1>5 DEF Going
  <2>2. \A m \in Nodes : node'[f][m] # "READY" /\ (Root(m) => node'[f][m] # "BLOCKED")
    BY <1>2, <1>3, <1>4, <1>5 DEF Rooted
  <2>3. \A m \in Nodes : ~Root(m) =>
          /\ node'[f][m] \in {"BLOCKED", "CANCELLED"}
          /\ \A k \in Nodes : node'[f][k] # "SUCCEEDED"
          /\ node'[f][m] = "CANCELLED" => AllFenced(f)
    BY <1>2, <1>4, <1>5 DEF Rooted
  <2>4. AllFenced(f) => AllFenced(f)'
    BY CallsKept
  <2> QED
    BY <2>1, <2>2, <2>3, <2>4 DEF Rooted
<1> QED
  <2>1. plan'[e] # "none" /\ plan'[e] \notin Going
    BY <1>2 DEF Going
  <2> QED
    BY <1>2, <1>5, <2>1, RootRewrite

\* A success that stands: activation did not raise and the call is not fenced, so
\* the root is the whole plan.
LEMMA SucceededRooted ==
    ASSUME OneRoot, TypeOK, RootInv, UNCHANGED CallVars, mig' = mig \/ mig' \notin Cancelling,
           ThreadsRooted',
           NEW e \in 1..execs, NEW n \in Nodes, Root(n),
           NEW i \in 1..invs, req[i].exec = e, ~Fenced(i),
           ~ActivationRaises([node[e] EXCEPT ![n] = "SUCCEEDED"]),
           node' = [node EXCEPT ![e] = Activated([node[e] EXCEPT ![n] = "SUCCEEDED"])],
           plan' = plan \/ plan' = [plan EXCEPT ![e] = "SUCCEEDED"]
    PROVE  RootInv'
<1>1. e \in Execs
  BY Counters
<1>2. OnlyActivated(e, n)
  BY <1>1, ActivatedEffect
<1>3. Rooted(e) /\ ~AllFenced(e)
  BY DEF RootInv, RowsRooted, AllFenced
<1>4. \A m \in Nodes : m = n
  <2> SUFFICES ASSUME NEW m \in Nodes, m # n PROVE FALSE
    OBVIOUS
  <2>1. ~Root(m)
    BY DEF OneRoot, Root
  <2>2. node[e][m] = "BLOCKED"
    BY <1>3, <2>1 DEF Rooted
  <2>3. [node[e] EXCEPT ![n] = "SUCCEEDED"][m] = "BLOCKED"
    BY <1>1, <2>2 DEF TypeOK
  <2> QED
    BY <2>1, <2>3 DEF ActivationRaises, Root
<1>5. /\ \A f \in Execs : f # e => plan'[f] = plan[f] /\ node'[f] = node[f]
      /\ plan'[e] = plan[e] \/ plan'[e] = "SUCCEEDED"
  BY <1>1, <1>2 DEF OnlyActivated, TypeOK
<1>6. \A m \in Nodes : node'[e][m] = "SUCCEEDED" /\ Root(m)
  BY <1>2, <1>4 DEF OnlyActivated
<1>7. /\ plan'[e] # "none" /\ (plan'[e] \in Going => plan[e] \in Going)
      /\ e # execs => plan'[e] \notin Going
  BY <1>3, <1>5 DEF Rooted, Going
<1>8. \A f \in 1..execs : f = e => Rooted(f)'
  <2>1. execs' = execs
    BY CallsKept
  <2> QED
    BY <1>6, <1>7, <2>1 DEF Rooted
<1> QED
  BY <1>5, <1>7, <1>8, RootRewrite

\* The check closes a completed plan.
LEMMA ClosedRooted ==
    ASSUME TypeOK, RootInv, UNCHANGED CallVars, UNCHANGED node, mig' = SucceededMig, ThreadsRooted',
           NEW e \in 1..execs, AllSucceeded(node[e]), plan' = [plan EXCEPT ![e] = "SUCCEEDED"]
    PROVE  RootInv'
<1>1. e \in Execs /\ execs' = execs
  BY Counters, CallsKept
<1>2. mig' \notin Cancelling
  BY DEF SucceededMig, Cancelling
<1>3. /\ \A f \in Execs : f # e => plan'[f] = plan[f] /\ node'[f] = node[f]
      /\ plan'[e] = "SUCCEEDED" /\ "SUCCEEDED" \notin Going
  BY <1>1 DEF TypeOK, Going
<1>4. Rooted(e) /\ \A m \in Nodes : node'[e][m] = "SUCCEEDED"
  BY DEF RootInv, RowsRooted, AllSucceeded
<1>5. \A f \in 1..execs : f = e => Rooted(f)'
  BY <1>1, <1>3, <1>4 DEF Rooted
<1> QED
  BY <1>2, <1>3, <1>5, RootRewrite

\* A new execution is the newest, and no call was sent for it.
LEMMA StartRooted ==
    ASSUME IInv, LeaseInv, RootInv, NEW t \in Starts, Start(t)
    PROVE  RootInv'
<1>0. TypeOK /\ t \in Threads /\ execs \in Nat /\ mig' = "ACTIVE" /\ mig' \notin Cancelling
  BY Counters DEF IInv, Threads, Start, Cancelling
<1>1. UNCHANGED <<active, inv, epoch, invs, req>>
  BY DEF Start, engine
<1>2. ThreadsRooted'
  <2>1. PICK e : thread' = [thread EXCEPT ![t] = Local("check", e, NoNode, 0, 0, "none")]
    BY DEF Start
  <2>2. Local("check", e, NoNode, 0, 0, "none").pc = "check"
    BY DEF Local
  <2> QED
    BY <1>0, <2>1, <2>2, RootLocal DEF RootInv
<1>3. CASE UNCHANGED <<execs, plan, node>>
  BY <1>0, <1>1, <1>2, <1>3, RootQuiet DEF CallVars
<1>4. CASE ActivePlans = {} /\ execs < MaxExecs /\ execs' = execs + 1
  <2> DEFINE e == execs + 1
  <2>1. e \in Execs /\ 1..execs \subseteq Execs /\ e \notin 1..execs /\ 1..execs' = 1..execs \cup {e}
    BY <1>0, <1>4, BoundAssumption, Counters DEF Execs
  <2>2. /\ plan'[e] = "ACCEPTED"
        /\ \A n \in Nodes : node'[e][n] = IF Root(n) THEN "READY" ELSE "BLOCKED"
        /\ \A f \in 1..execs : plan'[f] = plan[f] /\ node'[f] = node[f]
    <3>1. /\ plan' = [plan EXCEPT ![e] = "ACCEPTED"]
          /\ node' = [node EXCEPT ![e] = [n \in Nodes |-> IF Deps[n] = {} THEN "READY" ELSE "BLOCKED"]]
      BY <1>0, <1>4 DEF Start
    <3>2. plan \in [Execs -> PlanStates] /\ DOMAIN node = Execs /\ node = [f \in Execs |-> node[f]]
      BY <1>0 DEF TypeOK
    <3> HIDE DEF e
    <3>3. /\ plan'[e] = "ACCEPTED"
          /\ node'[e] = [n \in Nodes |-> IF Deps[n] = {} THEN "READY" ELSE "BLOCKED"]
          /\ \A f \in Execs : f # e => plan'[f] = plan[f] /\ node'[f] = node[f]
      BY <2>1, <3>1, <3>2
    <3> QED
      BY <2>1, <3>3 DEF Root
  <2>3. \A i \in 1..invs : req[i].exec \in 1..execs /\ req[i].exec # e
    BY <2>1 DEF LeaseInv, CallsAreLeased
  <2>4. \A f \in 1..execs : plan[f] \notin Going
    BY <1>4, <2>1 DEF ActivePlans, Going
  <2> HIDE DEF e
  <2>5. RowsRooted'
    <3> SUFFICES ASSUME NEW f \in 1..execs' PROVE Rooted(f)'
      BY DEF RowsRooted
    <3>1. CASE f = e
      <4>1. AllFenced(f)'
        BY <1>1, <2>3, <3>1 DEF AllFenced
      <4>2. f = execs' /\ plan'[f] = "ACCEPTED" /\ "ACCEPTED" \in Going
        BY <1>4, <2>2, <3>1 DEF e, Going
      <4>3. \A n \in Nodes : node'[f][n] = IF Root(n) THEN "READY" ELSE "BLOCKED"
        BY <2>2, <3>1
      <4> QED
        BY <4>1, <4>2, <4>3 DEF Rooted
    <3>2. CASE f \in 1..execs
      <4>1. plan'[f] = plan[f] /\ node'[f] = node[f] /\ plan[f] \notin Going /\ Rooted(f)
        BY <2>2, <2>4, <3>2 DEF RootInv, RowsRooted
      <4>2. AllFenced(f) => AllFenced(f)'
        BY <1>1 DEF AllFenced, Fenced
      <4> QED
        BY <4>1, <4>2 DEF Rooted
    <3> QED
      BY <2>1, <3>1, <3>2
  <2>6. CallsRooted' /\ NewestOrFenced'
    BY <1>1 DEF RootInv, CallsRooted, NewestOrFenced, Fenced
  <2>7. OpenIsActive' /\ CancelledIsFenced'
    BY <1>0, <1>1, <1>4, <2>3 DEF OpenIsActive, CancelledIsFenced, e
  <2> QED
    BY <1>2, <2>5, <2>6, <2>7 DEF RootInv
<1> QED
  BY <1>3, <1>4 DEF Start

\* The loop picks a READY row, which is the root's, or closes the plan.
LEMMA CheckRooted ==
    ASSUME IInv, RootInv, NEW t \in Threads, Check(t)
    PROVE  RootInv'
<1> DEFINE e == thread[t].exec
<1>0. TypeOK /\ e \in 1..execs /\ e \in Execs
  BY Working DEF Check, Resting, IInv
<1>1. UNCHANGED CallVars /\ UNCHANGED node
  BY DEF Check, CallVars, engine
<1>2. CASE Stop(t)
  <2>1. ThreadsRooted'
    BY <1>0, <1>2, RootThread DEF RootInv
  <2>2. CASE UNCHANGED <<plan, mig>>
    BY <1>1, <2>1, <2>2, RootQuiet
  <2>3. CASE /\ AllSucceeded(node[e]) /\ plan' = [plan EXCEPT ![e] = "SUCCEEDED"]
             /\ mig' = SucceededMig
    <3> HIDE DEF e
    <3> QED
      BY <1>0, <1>1, <2>1, <2>3, ClosedRooted
  <2> QED
    BY <2>2, <2>3 DEF Check
<1>3. ASSUME NEW n \in Nodes, IsFirst(n, ReadyNodes(e)), UNCHANGED <<plan, mig>>,
             thread' = [thread EXCEPT ![t] = Local("gate", e, n, att[e][n], 0, "none")]
      PROVE  RootInv'
  <2>1. Root(n)
    BY <1>0, <1>3 DEF IsFirst, ReadyNodes, RootInv, RowsRooted, Rooted
  <2>2. Local("gate", e, n, att[e][n], 0, "none").node = n
    BY DEF Local
  <2>3. ThreadsRooted'
    BY <1>0, <1>3, <2>1, <2>2, RootLocal DEF RootInv
  <2> QED
    BY <1>1, <1>3, <2>3, RootQuiet
<1> QED
  BY <1>2, <1>3 DEF Check

\* A claim takes the root of the newest execution, when every earlier call for
\* it is fenced: the new call is the only one that is not.
LEMMA ClaimRooted ==
    ASSUME OneRoot, IInv, LeaseInv, LeasesGrow, RootInv, NEW t \in Threads, Claim(t)
    PROVE  RootInv'
<1> DEFINE e == thread[t].exec
           n == thread[t].node
           i == invs + 1
<1>0. /\ TypeOK /\ e \in 1..execs /\ e \in Execs /\ n \in Nodes /\ thread[t].pc = "claim"
      /\ invs \in Nat /\ i \in Invocations /\ 1..invs \subseteq Invocations /\ 1..execs \subseteq Execs
  <2>1. i <= MaxInvocations
    BY DEF Claim
  <2> QED
    BY <2>1, Working, Counters, BoundAssumption DEF Claim, Resting, IInv, Invocations
<1>1. Rooted(e) /\ node[e][n] = "READY"
  BY <1>0 DEF Claim, RootInv, RowsRooted
<1>2. Root(n) /\ plan[e] \in Going /\ e = execs /\ AllFenced(e) /\ \A m \in Nodes : Root(m) => m = n
  BY <1>0, <1>1 DEF Rooted, OneRoot, Root
<1>3. mig \notin Cancelling
  BY <1>0, <1>2 DEF RootInv, CancelledIsFenced
<1>4. PICK a : /\ active' = a /\ req' = [req EXCEPT ![i] = [exec |-> e, node |-> n, att |-> a, epoch |-> 1]]
  BY DEF Claim
<1>5. /\ invs' = i /\ UNCHANGED <<mig, execs>> /\ inv' = [inv EXCEPT ![e][n] = i]
      /\ plan' = [plan EXCEPT ![e] = "RUNNING"] /\ node' = [node EXCEPT ![e][n] = "DISPATCHED"]
      /\ thread' = [thread EXCEPT ![t].pc = "engine", ![t].inv = i]
  BY DEF Claim
<1>6. /\ 1..invs' = 1..invs \cup {i} /\ i \notin 1..invs
      /\ req'[i].exec = e /\ req'[i].node = n /\ req'[i].att = a
      /\ \A j \in 1..invs : req'[j] = req[j] /\ (Fenced(j) => epoch'[req'[j].att] # req'[j].epoch)
  <2>1. 1..invs' = 1..invs \cup {i} /\ i \notin 1..invs
    BY <1>0, <1>5
  <2>2. req'[i] = [exec |-> e, node |-> n, att |-> a, epoch |-> 1]
    BY <1>0, <1>4 DEF TypeOK
  <2>3. \A j \in 1..invs : req'[j] = req[j]
    BY DEF LeasesGrow
  <2> QED
    BY <1>0, <2>1, <2>2, <2>3, FenceKept
<1> HIDE DEF i
<1>7. ThreadsRooted'
  <2> DEFINE l == [thread[t] EXCEPT !.pc = "engine", !.inv = i]
  <2>1. thread' = [thread EXCEPT ![t] = l] /\ thread[t] \in Locals
    BY <1>0, <1>5 DEF TypeOK
  <2>2. l.node = n
    BY <2>1 DEF Locals
  <2> HIDE DEF l
  <2> QED
    BY <1>0, <1>2, <2>1, <2>2, RootLocal DEF RootInv
<1>8. RowsRooted'
  <2> SUFFICES ASSUME NEW f \in 1..execs PROVE Rooted(f)'
    BY <1>5 DEF RowsRooted
  <2>1. CASE f = e
    <3>1. plan'[f] = "RUNNING" /\ "RUNNING" \in Going /\ f = execs'
      BY <1>0, <1>2, <1>5, <2>1 DEF TypeOK, Going
    <3>2. node'[f][n] = "DISPATCHED" /\ \A m \in Nodes : m # n => node'[f][m] = node[f][m]
      BY <1>0, <1>5, <2>1 DEF TypeOK
    <3>3. \A m \in Nodes : Root(m) <=> m = n
      BY <1>2
    <3>4. \A m \in Nodes : m # n => node[f][m] = "BLOCKED" /\ \A k \in Nodes : node[f][k] # "SUCCEEDED"
      BY <1>0, <1>1, <2>1, <3>3 DEF Rooted
    <3> QED
      BY <3>1, <3>2, <3>3, <3>4 DEF Rooted
  <2>2. CASE f # e
    <3>1. f # execs /\ plan'[f] = plan[f] /\ node'[f] = node[f] /\ Rooted(f) /\ f \in Execs
      BY <1>0, <1>2, <1>5, <2>2 DEF TypeOK, RootInv, RowsRooted
    <3>2. AllFenced(f) => AllFenced(f)'
      BY <1>6, <2>2 DEF AllFenced, Fenced
    <3> QED
      BY <1>5, <3>1, <3>2 DEF Rooted
  <2> QED
    BY <2>1, <2>2
<1>9. CallsRooted'
  BY <1>2, <1>5, <1>6 DEF RootInv, CallsRooted
<1>10. OpenIsActive'
  <2> SUFFICES ASSUME NEW j \in 1..invs', req'[j].exec = execs', epoch'[req'[j].att] = req'[j].epoch
               PROVE  req'[j].att = active'
    BY DEF OpenIsActive, Fenced
  <2>1. CASE j = i
    BY <1>4, <1>6, <2>1
  <2>2. CASE j \in 1..invs
    BY <1>2, <1>5, <1>6, <2>2 DEF AllFenced
  <2> QED
    BY <1>6, <2>1, <2>2
<1>11. NewestOrFenced'
  <2> SUFFICES ASSUME NEW j \in 1..invs', inv'[req'[j].exec][req'[j].node] # j
               PROVE  epoch'[req'[j].att] # req'[j].epoch
    BY DEF NewestOrFenced, Fenced
  <2>1. CASE j = i
    BY <1>0, <1>5, <1>6, <2>1 DEF IInv, TypeOK
  <2>2. CASE j \in 1..invs
    <3>1. req[j].exec \in Execs /\ req[j].node \in Nodes
      BY <1>0, <2>2 DEF LeaseInv, CallsAreLeased
    <3>2. CASE req[j].exec = e
      BY <1>2, <1>6, <2>2, <3>2 DEF AllFenced
    <3>3. CASE req[j].exec # e
      <4>1. inv'[req[j].exec][req[j].node] = inv[req[j].exec][req[j].node]
        BY <1>0, <1>5, <3>1, <3>3 DEF TypeOK
      <4> QED
        BY <1>6, <2>2, <4>1 DEF RootInv, NewestOrFenced
    <3> QED
      BY <3>2, <3>3
  <2> QED
    BY <1>6, <2>1, <2>2
<1>12. CancelledIsFenced'
  BY <1>3, <1>5 DEF CancelledIsFenced
<1> QED
  BY <1>7, <1>8, <1>9, <1>10, <1>11, <1>12 DEF RootInv

\* Answers and completions: a success is applied only under a lease that stands.
LEMMA ReconcileRooted ==
    ASSUME OneRoot, IInv, LeaseInv, RootInv, NEW t \in Threads,
           Reconcile(t) \/ Ingress(t) \/ MarkFailed(t)
    PROVE  RootInv'
<1> DEFINE e == thread[t].exec
           n == thread[t].node
           i == thread[t].inv
           after == [node[e] EXCEPT ![n] = "SUCCEEDED"]
<1>0. /\ TypeOK /\ thread[t].pc \in {"reconcile", "ingress", "fail"}
      /\ thread[t].pc \notin Resting \cup {"check"}
  BY DEF Reconcile, Ingress, MarkFailed, IInv, Resting
<1>1. e \in 1..execs /\ n \in Nodes /\ Root(n)
  BY <1>0, Working DEF RootInv, ThreadsRooted, Resting
<1>2. thread[t].pc \in {"reconcile", "ingress"} => i \in 1..invs /\ req[i].exec = e
  BY DEF LeaseInv, Owned, ThreadsOwn, HoldsOwn, Calling
<1>3. UNCHANGED CallVars
  BY DEF Reconcile, Ingress, MarkFailed, CallVars, engine
<1>4. ThreadsRooted'
  <2>1. Stop(t) \/ Goto(t, "fail") \/ Goto(t, "check")
    BY DEF Reconcile, Ingress, MarkFailed, AfterSuccess
  <2> QED
    BY <1>0, <2>1, RootThread DEF RootInv
<1>5. CASE UNCHANGED <<plan, node, mig>>
  BY <1>3, <1>4, <1>5, RootQuiet
<1>6. CASE Failed(e, n) /\ mig' = mig
  <2> HIDE DEF e, n
  <2> QED
    BY <1>0, <1>1, <1>3, <1>4, <1>6, FailedRooted
<1>7. CASE /\ thread[t].pc \in {"reconcile", "ingress"} /\ ~Fenced(i) /\ ~ActivationRaises(after)
           /\ node' = [node EXCEPT ![e] = Activated(after)]
           /\ plan' = plan \/ plan' = [plan EXCEPT ![e] = "SUCCEEDED"]
           /\ mig' = mig \/ mig' = SucceededMig
  <2>1. mig' = mig \/ mig' \notin Cancelling
    BY <1>7 DEF SucceededMig, Cancelling
  <2> HIDE DEF e, n, i
  <2> QED
    BY <1>0, <1>1, <1>2, <1>3, <1>4, <1>7, <2>1, SucceededRooted
<1>8. CASE Reconcile(t)
  BY <1>5, <1>6, <1>7, <1>8 DEF Reconcile
<1>9. CASE Ingress(t)
  BY <1>5, <1>6, <1>7, <1>9 DEF Ingress
<1>10. CASE MarkFailed(t)
  BY <1>6, <1>10 DEF MarkFailed
<1> QED
  BY <1>8, <1>9, <1>10

\* A cancellation fences the calls of the newest execution: those not fenced yet
\* belong to the active attempt.
LEMMA CancelRooted ==
    ASSUME IInv, LeaseInv, LeasesGrow, RootInv, Cancel
    PROVE  RootInv'
<1>0. /\ TypeOK /\ 1..execs \subseteq Execs
      /\ UNCHANGED <<execs, inv, invs, req, thread>> /\ mig' \in Cancelling
      /\ epoch' = IF active # 0 THEN Revoked(active) ELSE epoch
  BY Counters DEF Cancel, IInv, Cancelling
<1>1. \A e \in Execs :
        IF plan[e] \in Going THEN plan'[e] = "CANCELLED" /\ node'[e] = CancelledNodes(node[e])
        ELSE plan'[e] = plan[e] /\ node'[e] = node[e]
  BY DEF Cancel, ActivePlans, Going
<1>2. \A i \in 1..invs : Fenced(i) => epoch'[req[i].att] # req[i].epoch
  BY <1>0, FenceKept
<1>3. \A i \in 1..invs : req[i].exec = execs => epoch'[req[i].att] # req[i].epoch
  <2> SUFFICES ASSUME NEW i \in 1..invs, req[i].exec = execs, ~Fenced(i)
               PROVE  epoch'[req[i].att] # req[i].epoch
    BY <1>2
  <2>1. req[i].att = active /\ req[i].att \in 1..atts /\ req[i].epoch = 1 /\ epoch[active] = 1
    BY DEF RootInv, OpenIsActive, LeaseInv, CallsAreLeased, Fenced
  <2>2. active # 0 /\ active \in Attempts
    BY <1>0, <2>1, Counters
  <2>3. epoch'[active] = 2
    BY <1>0, <2>1, <2>2 DEF Revoked
  <2> QED
    BY <2>1, <2>3
<1>4. \A e : AllFenced(e) => AllFenced(e)'
  BY <1>0, <1>2 DEF AllFenced, Fenced
<1>5. AllFenced(execs)' /\ \A e : e = execs => AllFenced(e)'
  BY <1>0, <1>3 DEF AllFenced, Fenced
<1>6. \A e \in 1..execs : plan'[e] \notin Going /\ plan'[e] # "none"
  BY <1>0, <1>1 DEF Going, RootInv, RowsRooted, Rooted
<1>7. RowsRooted'
  <2> SUFFICES ASSUME NEW e \in 1..execs PROVE Rooted(e)'
    BY <1>0 DEF RowsRooted
  <2>0. e \in Execs /\ Rooted(e)
    BY <1>0 DEF RootInv, RowsRooted
  <2>1. CASE plan[e] \in Going
    <3>1. AllFenced(e)'
      BY <1>5, <2>0, <2>1 DEF Rooted
    <3>2. \A n \in Nodes : node'[e][n] = IF node[e][n] \in {"BLOCKED", "READY", "DISPATCHED"}
                                         THEN "CANCELLED" ELSE node[e][n]
      BY <1>1, <2>0, <2>1 DEF CancelledNodes
    <3> QED
      BY <1>6, <2>0, <3>1, <3>2 DEF Rooted
  <2>2. CASE plan[e] \notin Going
    <3>1. plan'[e] = plan[e] /\ node'[e] = node[e]
      BY <1>1, <2>0, <2>2
    <3> QED
      BY <1>4, <1>6, <2>0, <2>2, <3>1 DEF Rooted
  <2> QED
    BY <2>1, <2>2
<1>8. CallsRooted' /\ ThreadsRooted'
  BY <1>0 DEF RootInv, CallsRooted, ThreadsRooted
<1>9. OpenIsActive' /\ CancelledIsFenced'
  BY <1>0, <1>5, <1>6 DEF OpenIsActive, CancelledIsFenced, AllFenced
<1>10. NewestOrFenced'
  BY <1>0, <1>2 DEF RootInv, NewestOrFenced, Fenced
<1> QED
  BY <1>7, <1>8, <1>9, <1>10 DEF RootInv

\* A recovery starts from a cancelled migration, so every call of the newest
\* execution is fenced when its root becomes READY again.
LEMMA RecoverRooted ==
    ASSUME IInv, LeaseInv, LeasesGrow, RootInv, NEW source, NEW checkpoint, Recover(source, checkpoint)
    PROVE  RootInv'
<1>0. /\ TypeOK /\ 1..execs \subseteq Execs /\ execs \in Nat
      /\ UNCHANGED <<execs, inv, invs, req, thread>> /\ mig' \notin Cancelling
  BY Counters DEF Recover, IInv, Cancelling, engine
<1>1. AllFenced(execs) /\ \A e \in 1..execs : plan[e] \notin Going
  <2>1. mig \in MigStates
    BY DEF IInv, TypeOK
  <2>2. mig = "CANCELLED"
    BY <2>1 DEF Recover, MigStates
  <2> QED
    BY <2>2 DEF RootInv, CancelledIsFenced, Cancelling
<1>2. \A i \in 1..invs : Fenced(i) => epoch'[req[i].att] # req[i].epoch
  BY <1>0, FenceKept
<1>3. \A e : AllFenced(e) => AllFenced(e)'
  BY <1>0, <1>2 DEF AllFenced, Fenced
<1>4. RowsRooted'
  <2> SUFFICES ASSUME NEW e \in 1..execs PROVE Rooted(e)'
    BY <1>0 DEF RowsRooted
  <2>0. e \in Execs /\ Rooted(e) /\ execs # 0 /\ execs \in Execs
    BY <1>0 DEF RootInv, RowsRooted, Execs
  <2>1. CASE e = execs
    <3>1. plan'[e] = "ACCEPTED" /\ "ACCEPTED" \in Going /\ node'[e] = Recovered(node[e])
      BY <2>0, <2>1 DEF Recover, IInv, TypeOK, Going
    <3>2. AllFenced(e)'
      BY <1>1, <1>3, <2>1
    <3>3. \A n \in Nodes : IF Root(n) THEN node'[e][n] \in {"SUCCEEDED", "READY"}
                                      ELSE /\ node'[e][n] = "BLOCKED"
                                           /\ \A k \in Nodes : node'[e][k] # "SUCCEEDED"
      <4> SUFFICES ASSUME NEW n \in Nodes
                   PROVE  IF Root(n) THEN node'[e][n] \in {"SUCCEEDED", "READY"}
                                     ELSE /\ node'[e][n] = "BLOCKED"
                                          /\ \A k \in Nodes : node'[e][k] # "SUCCEEDED"
        OBVIOUS
      <4>1. CASE Root(n)
        BY <3>1, <4>1 DEF Recovered, Root
      <4>2. CASE ~Root(n)
        <5>1. \A k \in Nodes : node[e][k] # "SUCCEEDED"
          BY <2>0, <4>2 DEF Rooted
        <5>2. PICK d \in Deps[n] : d \in Nodes
          BY <4>2, PlanAssumption DEF Root
        <5> QED
          BY <3>1, <4>2, <5>1, <5>2 DEF Recovered
      <4> QED
        BY <4>1, <4>2
    <3> QED
      BY <1>0, <2>1, <3>1, <3>2, <3>3 DEF Rooted
  <2>2. CASE e # execs
    <3>1. plan'[e] = plan[e] /\ node'[e] = node[e]
      BY <2>0, <2>2 DEF Recover, IInv, TypeOK
    <3> QED
      BY <1>0, <1>1, <1>3, <2>0, <3>1 DEF Rooted
  <2> QED
    BY <2>1, <2>2
<1>5. CallsRooted' /\ ThreadsRooted'
  BY <1>0 DEF RootInv, CallsRooted, ThreadsRooted
<1>6. OpenIsActive' /\ CancelledIsFenced'
  BY <1>0, <1>1, <1>2 DEF OpenIsActive, CancelledIsFenced, AllFenced, Fenced
<1>7. NewestOrFenced'
  BY <1>0, <1>2 DEF RootInv, NewestOrFenced, Fenced
<1> QED
  BY <1>4, <1>5, <1>6, <1>7 DEF RootInv

\* A completion works on the row of a call that was sent, which is a root's.
LEMMA PostRooted ==
    ASSUME IInv, LeaseInv, RootInv, NEW t \in Posts, NEW i \in Invocations, NEW out \in Answers,
           Post(t, i, out)
    PROVE  RootInv'
<1>0. TypeOK /\ t \in Threads /\ UNCHANGED CallVars /\ UNCHANGED <<plan, node, mig>> /\ i \in 1..invs
  BY DEF IInv, Threads, Post, db, CallVars, Accepted, LeaseInv, CallsAreLeased
<1>1. CASE Stop(t)
  BY <1>0, <1>1, RootThread, RootQuiet DEF RootInv
<1>2. ASSUME NEW r \in Rows(i),
             thread' = [thread EXCEPT ![t] =
                          Local("ingress", r[1], r[2], att[r[1]][r[2]], i,
                                IF inv[r[1]][r[2]] = i THEN out ELSE "malformed")]
      PROVE  RootInv'
  <2> DEFINE l == Local("ingress", r[1], r[2], att[r[1]][r[2]], i,
                        IF inv[r[1]][r[2]] = i THEN out ELSE "malformed")
  <2>1. l.node = r[2] /\ thread' = [thread EXCEPT ![t] = l]
    BY <1>2 DEF Local
  <2> HIDE DEF l
  <2>2. r = Row(i)
    BY <1>0, RowsAreOwn
  <2>3. Root(r[2])
    BY <1>0, <2>2 DEF Row, RootInv, CallsRooted
  <2>4. ThreadsRooted'
    BY <1>0, <2>1, <2>3, RootLocal DEF RootInv
  <2> QED
    BY <1>0, <2>4, RootQuiet
<1> QED
  BY <1>1, <1>2 DEF Post

\* Steps of a thread that only move it.
LEMMA MoveRooted ==
    ASSUME IInv, RootInv, NEW t \in Threads,
           Gate(t) \/ LostClaim(t) \/ EngineAnswers(t) \/ RecordTask(t) \/ InProgress(t)
    PROVE  RootInv'
<1>0. TypeOK /\ UNCHANGED CallVars /\ UNCHANGED <<plan, node, mig>>
  BY DEF IInv, Gate, LostClaim, EngineAnswers, RecordTask, InProgress, db, engine, CallVars
<1>1. ThreadsRooted'
  <2>0. thread[t] \in Locals
    BY <1>0 DEF TypeOK
  <2>1. CASE LostClaim(t) \/ RecordTask(t) \/ InProgress(t) \/ Goto(t, "fail") \/ Goto(t, "claim")
    <3>1. Stop(t) \/ \E pc : Goto(t, pc)
      BY <2>1 DEF LostClaim, RecordTask, InProgress
    <3>2. thread[t].pc \notin Resting \cup {"check"}
      BY DEF Gate, LostClaim, EngineAnswers, RecordTask, InProgress, Resting
    <3> QED
      BY <1>0, <3>1, <3>2, RootThread DEF RootInv
  <2>2. CASE EngineAnswers(t)
    <3>1. PICK pc, out : thread' = [thread EXCEPT ![t].pc = pc, ![t].out = out]
      BY <2>2 DEF EngineAnswers
    <3> DEFINE l == [thread[t] EXCEPT !.pc = pc, !.out = out]
    <3>2. thread' = [thread EXCEPT ![t] = l] /\ l.node = thread[t].node
      BY <1>0, <2>0, <3>1 DEF TypeOK, Locals
    <3> HIDE DEF l
    <3>3. Root(thread[t].node)
      BY <2>2 DEF EngineAnswers, RootInv, ThreadsRooted, Resting
    <3> QED
      BY <1>0, <3>2, <3>3, RootLocal DEF RootInv
  <2>3. CASE Gate(t) /\ thread' = [thread EXCEPT ![t].pc = "claim", ![t].att = 0]
    <3> DEFINE l == [thread[t] EXCEPT !.pc = "claim", !.att = 0]
    <3>2. thread' = [thread EXCEPT ![t] = l] /\ l.node = thread[t].node
      BY <1>0, <2>0, <2>3 DEF TypeOK, Locals
    <3> HIDE DEF l
    <3>3. Root(thread[t].node)
      BY <2>3 DEF Gate, RootInv, ThreadsRooted, Resting
    <3> QED
      BY <1>0, <3>2, <3>3, RootLocal DEF RootInv
  <2> QED
    BY <2>1, <2>2, <2>3 DEF Gate
<1> QED
  BY <1>0, <1>1, RootQuiet

\* Every step keeps the invariant of the plans with one root.
LEMMA RootStep == OneRoot /\ IInv /\ LeaseInv /\ RootInv /\ [Next]_vars => RootInv'
<1> SUFFICES ASSUME OneRoot, IInv, LeaseInv, RootInv, [Next]_vars PROVE RootInv'
  OBVIOUS
<1>0. LeasesGrow /\ TypeOK
  BY LeaseStep DEF IInv
<1>1. ASSUME NEW t \in Threads, Step(t) PROVE RootInv'
  BY <1>0, <1>1, CheckRooted, ClaimRooted, ReconcileRooted, MoveRooted DEF Step
<1>2. CASE UNCHANGED vars \/ Pause \/ Resume \/ Crash
  <2>1. UNCHANGED CallVars /\ UNCHANGED <<plan, node>>
    BY <1>2 DEF vars, db, engine, CallVars, Pause, Resume, Crash
  <2>2. mig' = mig \/ mig' \notin Cancelling
    BY <1>2 DEF vars, db, Pause, Resume, Crash, Cancelling
  <2>3. ThreadsRooted'
    <3>1. CASE Crash
      BY <3>1, IdleTyped DEF Crash, ThreadsRooted, Resting
    <3>2. CASE thread' = thread
      BY <3>2 DEF RootInv, ThreadsRooted
    <3> QED
      BY <1>2, <3>1, <3>2 DEF vars, Pause, Resume
  <2> QED
    BY <2>1, <2>2, <2>3, RootQuiet
<1> QED
  BY <1>0, <1>1, <1>2, StartRooted, PostRooted, CancelRooted, RecoverRooted DEF Next, Operator

\* In a plan with one root, which is what the compiler builds, a call whose row
\* was sent again is fenced: whatever cancels, recoveries, crashes and late
\* answers come in between, its answer is refused.
THEOREM SupersededCallsAreFenced == Spec => []SupersededCallIsFenced
<1>1. CASE OneRoot
  <2>1. Init => RootInv
    BY RootInit
  <2>2. IInv /\ LeaseInv /\ RootInv /\ [Next]_vars => RootInv'
    BY <1>1, RootStep
  <2>3. RootInv => SupersededCallIsFenced
    BY DEF RootInv, NewestOrFenced, SupersededCallIsFenced
  <2> QED
    BY <2>1, <2>2, <2>3, LeaseInvariant, PTL DEF Spec
<1>2. CASE ~OneRoot
  <2>1. SupersededCallIsFenced
    BY <1>2 DEF SupersededCallIsFenced
  <2> QED
    BY <2>1, PTL
<1> QED
  BY <1>1, <1>2

(***************************************************************************)
(* Who goes on. A RUNNING plan that waits for nothing has a thread that is *)
(* going to look at it, unless a crash took that thread.                   *)
(***************************************************************************)
Moves == {"check", "gate", "claim", "fail"}
Waits(e) == \E n \in Nodes : node[e][n] \in {"DISPATCHED", "FAILED", "CANCELLED"}
DrivenAt(e) ==
    plan[e] = "RUNNING" /\ ~Waits(e) =>
        /\ \A n \in Nodes : node[e][n] # "BLOCKED"
        /\ crashed \/ \E t \in Threads : thread[t].exec = e /\ thread[t].pc \in Moves
Driven == \A e \in Execs : DrivenAt(e)

\* A thread works for one execution: the others keep the threads they had.
LEMMA DrivenStep ==
    ASSUME Driven, NEW t \in Threads, NEW e,
           \A u \in Threads : u # t => thread'[u] = thread[u],
           thread[t].pc \in Moves => thread[t].exec = e, crashed' = crashed,
           \A f \in Execs : f # e => plan'[f] = plan[f] /\ node'[f] = node[f],
           \A f \in Execs : f = e => DrivenAt(f)'
    PROVE  Driven'
<1> SUFFICES ASSUME NEW f \in Execs, f # e PROVE DrivenAt(f)'
  BY DEF Driven
<1>1. DrivenAt(f) /\ plan'[f] = plan[f] /\ node'[f] = node[f]
  BY DEF Driven
<1>2. ASSUME NEW u \in Threads, thread[u].exec = f, thread[u].pc \in Moves
      PROVE  thread'[u].exec = f /\ thread'[u].pc \in Moves
  BY <1>2
<1> QED
  BY <1>1, <1>2 DEF DrivenAt, Waits

\* A thread that goes on with its execution, or that was not going on with any.
LEMMA DrivenMove ==
    ASSUME TypeOK, Driven, UNCHANGED <<plan, node, crashed>>, NEW t \in Threads, NEW l,
           thread' = [thread EXCEPT ![t] = l],
           thread[t].pc \in Moves => l.pc \in Moves /\ l.exec = thread[t].exec
    PROVE  Driven'
<1> SUFFICES ASSUME NEW f \in Execs PROVE DrivenAt(f)'
  BY DEF Driven
<1>1. ASSUME NEW u \in Threads, thread[u].exec = f, thread[u].pc \in Moves
      PROVE  thread'[u].exec = f /\ thread'[u].pc \in Moves
  BY <1>1 DEF TypeOK
<1> QED
  BY <1>1 DEF Driven, DrivenAt, Waits

\* The threads before and after a step of t, whatever it does.
LEMMA OthersKept ==
    ASSUME TypeOK, NEW t \in Threads
    PROVE  /\ Stop(t) => /\ \A u \in Threads : u # t => thread'[u] = thread[u]
                         /\ thread' = [thread EXCEPT ![t] = Done]
           /\ \A pc : Goto(t, pc) =>
                 /\ \A u \in Threads : u # t => thread'[u] = thread[u]
                 /\ thread'[t].pc = pc /\ thread'[t].exec = thread[t].exec
                 /\ \E l : thread' = [thread EXCEPT ![t] = l] /\ l.pc = pc /\ l.exec = thread[t].exec
<1>1. thread[t] \in Locals
  BY DEF TypeOK
<1>2. Stop(t) => /\ \A u \in Threads : u # t => thread'[u] = thread[u]
                 /\ thread' = [thread EXCEPT ![t] = Done]
  BY DEF Stop, TypeOK
<1>3. ASSUME NEW pc, Goto(t, pc)
      PROVE  /\ \A u \in Threads : u # t => thread'[u] = thread[u]
             /\ thread'[t].pc = pc /\ thread'[t].exec = thread[t].exec
             /\ \E l : thread' = [thread EXCEPT ![t] = l] /\ l.pc = pc /\ l.exec = thread[t].exec
  <2> DEFINE l == [thread[t] EXCEPT !.pc = pc]
  <2>1. thread' = [thread EXCEPT ![t] = l] /\ l.pc = pc /\ l.exec = thread[t].exec
    BY <1>1, <1>3, Fields DEF Goto, TypeOK
  <2> HIDE DEF l
  <2>2. \A u \in Threads : thread'[u] = IF u = t THEN l ELSE thread[u]
    BY <2>1 DEF TypeOK
  <2> QED
    BY <2>1, <2>2
<1> QED
  BY <1>2, <1>3

\* A failed plan is not RUNNING.
LEMMA FailedDriven ==
    ASSUME TypeOK, Driven, NEW t \in Threads, thread[t].exec \in Execs, thread[t].node \in Nodes,
           Failed(thread[t].exec, thread[t].node), Stop(t), crashed' = crashed
    PROVE  Driven'
<1> DEFINE e == thread[t].exec
<1>1. /\ \A f \in Execs : f # e => plan'[f] = plan[f] /\ node'[f] = node[f]
      /\ plan'[e] = "FAILED"
  BY DEF Failed, TypeOK
<1>2. \A f \in Execs : f = e => DrivenAt(f)'
  BY <1>1 DEF DrivenAt
<1> QED
  BY <1>1, <1>2, OthersKept, DrivenStep

\* After a success nothing is BLOCKED, and its thread looks at the plan again or
\* has closed it.
LEMMA SucceededDriven ==
    ASSUME TypeOK, Driven, NEW t \in Threads, thread[t].exec \in Execs, thread[t].pc \notin Moves,
           NEW s, node' = [node EXCEPT ![thread[t].exec] = Activated(s)], crashed' = crashed,
           \/ Goto(t, "check") /\ plan' = plan
           \/ Stop(t) /\ plan' = [plan EXCEPT ![thread[t].exec] = "SUCCEEDED"]
    PROVE  Driven'
<1> DEFINE e == thread[t].exec
<1>1. /\ \A f \in Execs : f # e => plan'[f] = plan[f] /\ node'[f] = node[f]
      /\ node'[e] = Activated(s)
  BY DEF TypeOK
<1>2. \A n \in Nodes : node'[e][n] # "BLOCKED"
  BY <1>1 DEF Activated
<1>3. \A u \in Threads : u # t => thread'[u] = thread[u]
  BY OthersKept
<1>4. ASSUME NEW f \in Execs, f = e PROVE DrivenAt(f)'
  <2>1. CASE Goto(t, "check")
    <3>1. thread'[t].pc \in Moves /\ thread'[t].exec = f
      BY <1>4, <2>1, OthersKept DEF Moves
    <3> QED
      BY <1>2, <1>4, <3>1 DEF DrivenAt
  <2>2. CASE plan' = [plan EXCEPT ![e] = "SUCCEEDED"]
    <3>1. plan'[f] = "SUCCEEDED"
      BY <1>4, <2>2 DEF TypeOK
    <3> QED
      BY <3>1 DEF DrivenAt
  <2> QED
    BY <2>1, <2>2
<1> QED
  BY <1>1, <1>3, <1>4, DrivenStep

\* A thread leaves the loop only when the plan is closed or waits for something.
LEMMA CheckDriven ==
    ASSUME IInv, Driven, NEW t \in Threads, Check(t)
    PROVE  Driven'
<1> DEFINE e == thread[t].exec
<1>0. TypeOK /\ e \in Execs /\ crashed' = crashed /\ node' = node /\ thread[t].pc = "check"
  BY Working DEF Check, Resting, IInv, faults
<1>1. ASSUME Stop(t),
             \/ plan[e] \in {"CANCELLED", "FAILED", "SUCCEEDED"} /\ plan' = plan
             \/ plan' = [plan EXCEPT ![e] = "SUCCEEDED"]
             \/ ReadyNodes(e) = {} /\ ~AllSucceeded(node[e]) /\ plan' = plan
      PROVE  Driven'
  <2>1. \A f \in Execs : f # e => plan'[f] = plan[f]
    BY <1>0, <1>1 DEF TypeOK
  <2>2. ASSUME NEW f \in Execs, f = e PROVE DrivenAt(f)'
    <3>1. CASE plan[e] \in {"CANCELLED", "FAILED", "SUCCEEDED"} /\ plan' = plan
      BY <2>2, <3>1 DEF DrivenAt
    <3>2. CASE plan' = [plan EXCEPT ![e] = "SUCCEEDED"]
      <4>1. plan'[f] = "SUCCEEDED"
        BY <1>0, <2>2, <3>2 DEF TypeOK
      <4> QED
        BY <4>1 DEF DrivenAt
    <3>3. CASE ReadyNodes(e) = {} /\ ~AllSucceeded(node[e]) /\ plan' = plan
      <4>1. PICK n \in Nodes : node[e][n] # "SUCCEEDED" /\ node[e][n] # "READY"
        BY <3>3 DEF ReadyNodes, AllSucceeded
      <4>2. Waits(e) \/ node[e][n] = "BLOCKED"
        BY <1>0, <4>1 DEF Waits, TypeOK, NodeStates
      <4>3. DrivenAt(e)
        BY <1>0 DEF Driven
      <4> QED
        BY <1>0, <2>2, <3>3, <4>2, <4>3 DEF DrivenAt, Waits
    <3> QED
      BY <1>1, <3>1, <3>2, <3>3
  <2> HIDE DEF e
  <2> QED
    BY <1>0, <1>1, <2>1, <2>2, OthersKept, DrivenStep DEF e
<1>2. ASSUME NEW n \in Nodes, UNCHANGED plan,
             thread' = [thread EXCEPT ![t] = Local("gate", e, n, att[e][n], 0, "none")]
      PROVE  Driven'
  <2> DEFINE l == Local("gate", e, n, att[e][n], 0, "none")
  <2>1. l.pc \in Moves /\ l.exec = e
    BY DEF Local, Moves
  <2> QED
    BY <1>0, <1>2, <2>1, DrivenMove
<1> QED
  BY <1>1, <1>2 DEF Check

\* Every step keeps a RUNNING plan waiting or driven.
LEMMA DrivenNext == IInv /\ Driven /\ [Next]_vars => Driven'
<1> SUFFICES ASSUME IInv, Driven, [Next]_vars PROVE Driven'
  OBVIOUS
<1>0. TypeOK
  BY DEF IInv
<1>1. ASSUME NEW t \in Starts, Start(t) PROVE Driven'
  <2>0. t \in Threads /\ crashed' = crashed /\ thread[t].pc \notin Moves
    BY <1>1 DEF Threads, Start, faults, Moves
  <2>1. PICK e : thread' = [thread EXCEPT ![t] = Local("check", e, NoNode, 0, 0, "none")]
    BY <1>1 DEF Start
  <2>2. CASE UNCHANGED <<plan, node>>
    BY <1>0, <2>0, <2>1, <2>2, DrivenMove
  <2>3. CASE execs < MaxExecs /\ plan' = [plan EXCEPT ![execs + 1] = "ACCEPTED"]
             /\ \E s : node' = [node EXCEPT ![execs + 1] = s]
    <3>1. execs + 1 \in Execs
      BY <1>0, <2>3, Counters, BoundAssumption DEF Execs
    <3>2. /\ plan'[execs + 1] = "ACCEPTED"
          /\ \A f \in Execs : f # execs + 1 => plan'[f] = plan[f] /\ node'[f] = node[f]
      BY <1>0, <2>3, <3>1 DEF TypeOK
    <3>3. \A f \in Execs : f = execs + 1 => DrivenAt(f)'
      BY <3>2 DEF DrivenAt
    <3>4. \A u \in Threads : u # t => thread'[u] = thread[u]
      BY <1>0, <2>1 DEF TypeOK
    <3> QED
      BY <2>0, <3>2, <3>3, <3>4, DrivenStep
  <2> QED
    BY <1>1, <2>2, <2>3 DEF Start
<1>2. ASSUME NEW t \in Threads, Step(t) PROVE Driven'
  <2>1. CASE Check(t)
    BY <2>1, CheckDriven
  <2>2. CASE Gate(t)
    <3>1. UNCHANGED <<plan, node, crashed>> /\ thread[t] \in Locals
      BY <1>0, <2>2 DEF Gate, db, faults, TypeOK
    <3>2. PICK l : thread' = [thread EXCEPT ![t] = l] /\ l.pc \in Moves /\ l.exec = thread[t].exec
      <4>1. CASE Goto(t, "fail") \/ Goto(t, "claim")
        BY <1>0, <4>1, OthersKept DEF Moves
      <4>2. CASE thread' = [thread EXCEPT ![t].pc = "claim", ![t].att = 0]
        <5> DEFINE k == [thread[t] EXCEPT !.pc = "claim", !.att = 0]
        <5>1. thread' = [thread EXCEPT ![t] = k]
          BY <1>0, <4>2 DEF TypeOK
        <5>2. k.pc = "claim" /\ k.exec = thread[t].exec
          BY <3>1 DEF Locals
        <5> HIDE DEF k
        <5> QED
          BY <5>1, <5>2 DEF Moves
      <4> QED
        BY <2>2, <4>1, <4>2 DEF Gate
    <3> QED
      BY <1>0, <3>1, <3>2, DrivenMove
  <2>3. CASE LostClaim(t)
    <3>1. UNCHANGED <<plan, node, crashed>> /\ Goto(t, "check")
      BY <2>3 DEF LostClaim, db, faults
    <3>2. PICK l : thread' = [thread EXCEPT ![t] = l] /\ l.pc = "check" /\ l.exec = thread[t].exec
      BY <1>0, <3>1, OthersKept
    <3> QED
      BY <1>0, <3>1, <3>2, DrivenMove DEF Moves
  <2>4. CASE Claim(t)
    <3> DEFINE e == thread[t].exec
               n == thread[t].node
    <3>1. e \in Execs /\ n \in Nodes
      BY <2>4, Working DEF Claim, Resting
    <3>2. /\ node'[e][n] = "DISPATCHED" /\ crashed' = crashed
          /\ \A f \in Execs : f # e => plan'[f] = plan[f] /\ node'[f] = node[f]
          /\ \A u \in Threads : u # t => thread'[u] = thread[u]
      BY <1>0, <2>4, <3>1 DEF Claim, TypeOK, faults
    <3>3. \A f \in Execs : f = e => DrivenAt(f)'
      BY <3>1, <3>2 DEF DrivenAt, Waits
    <3> QED
      BY <3>2, <3>3, DrivenStep
  <2>5. CASE EngineAnswers(t) \/ RecordTask(t) \/ InProgress(t)
    <3>1. UNCHANGED <<plan, node, crashed>> /\ thread[t].pc \notin Moves
      BY <2>5 DEF EngineAnswers, RecordTask, InProgress, db, faults, Moves
    <3>2. \E l : thread' = [thread EXCEPT ![t] = l]
      <4>1. CASE Stop(t) \/ \E pc : Goto(t, pc)
        BY <1>0, <4>1, OthersKept
      <4>2. CASE EngineAnswers(t)
        <5>1. PICK pc, out : thread' = [thread EXCEPT ![t].pc = pc, ![t].out = out]
          BY <4>2 DEF EngineAnswers
        <5>2. thread' = [thread EXCEPT ![t] = [thread[t] EXCEPT !.pc = pc, !.out = out]]
          BY <1>0, <5>1 DEF TypeOK
        <5> QED
          BY <5>2
      <4> QED
        BY <2>5, <4>1, <4>2 DEF RecordTask, InProgress
    <3> QED
      BY <1>0, <3>1, <3>2, DrivenMove
  <2>6. CASE Reconcile(t) \/ MarkFailed(t) \/ Ingress(t)
    <3>1. thread[t].exec \in Execs /\ thread[t].node \in Nodes /\ crashed' = crashed
      BY <2>6, Working DEF Reconcile, MarkFailed, Ingress, Resting, faults
    <3>2. CASE Failed(thread[t].exec, thread[t].node) /\ Stop(t)
      BY <1>0, <3>1, <3>2, FailedDriven
    <3>3. ASSUME Reconcile(t) \/ Ingress(t) PROVE Driven'
      <4>1. thread[t].pc \notin Moves
        BY <3>3 DEF Reconcile, Ingress, Moves
      <4>2. CASE UNCHANGED <<plan, node>> /\ (Stop(t) \/ Goto(t, "fail"))
        <5>1. \E l : thread' = [thread EXCEPT ![t] = l]
          BY <1>0, <4>2, OthersKept
        <5> QED
          BY <1>0, <3>1, <4>1, <4>2, <5>1, DrivenMove
      <4>3. ASSUME NEW s, node' = [node EXCEPT ![thread[t].exec] = Activated(s)],
                   \/ Goto(t, "check") /\ plan' = plan
                   \/ Stop(t) /\ plan' = [plan EXCEPT ![thread[t].exec] = "SUCCEEDED"]
            PROVE  Driven'
        BY <1>0, <3>1, <4>1, <4>3, SucceededDriven
      <4>4. CASE Reconcile(t)
        BY <3>2, <4>2, <4>3, <4>4 DEF Reconcile, AfterSuccess
      <4>5. CASE Ingress(t)
        BY <3>2, <4>2, <4>3, <4>5 DEF Ingress, AfterSuccess
      <4> QED
        BY <3>3, <4>4, <4>5
    <3> QED
      BY <2>6, <3>2, <3>3 DEF MarkFailed
  <2> QED
    BY <1>2, <2>1, <2>2, <2>3, <2>4, <2>5, <2>6 DEF Step
<1>3. ASSUME NEW t \in Posts, NEW i, NEW out, Post(t, i, out) PROVE Driven'
  <2>1. t \in Threads /\ UNCHANGED <<plan, node, crashed>> /\ thread[t].pc \notin Moves
    BY <1>3 DEF Threads, Post, db, faults, Moves
  <2>2. \E l : thread' = [thread EXCEPT ![t] = l]
    BY <1>3 DEF Post, Stop
  <2> QED
    BY <1>0, <2>1, <2>2, DrivenMove
<1>4. CASE Cancel
  <2>1. UNCHANGED <<thread, crashed>>
    BY <1>4 DEF Cancel
  <2>2. \A e \in Execs : plan'[e] = "CANCELLED" \/ (plan'[e] = plan[e] /\ node'[e] = node[e])
    BY <1>4 DEF Cancel
  <2> QED
    BY <2>1, <2>2 DEF Driven, DrivenAt, Waits
<1>5. ASSUME NEW source, NEW checkpoint, Recover(source, checkpoint) PROVE Driven'
  <2>1. UNCHANGED <<thread, crashed>>
    BY <1>5 DEF Recover
  <2>2. \A e \in Execs : plan'[e] = "ACCEPTED" \/ (plan'[e] = plan[e] /\ node'[e] = node[e])
    BY <1>0, <1>5 DEF Recover, TypeOK
  <2> QED
    BY <2>1, <2>2 DEF Driven, DrivenAt, Waits
<1>6. CASE Crash
  BY <1>6 DEF Crash, db, Driven, DrivenAt, Waits
<1>7. CASE UNCHANGED vars \/ Pause \/ Resume
  <2>1. UNCHANGED <<thread, crashed, plan, node>>
    BY <1>7 DEF vars, db, faults, Pause, Resume
  <2> QED
    BY <2>1 DEF Driven, DrivenAt, Waits
<1> QED
  BY <1>1, <1>2, <1>3, <1>4, <1>5, <1>6, <1>7 DEF Next, Operator

\* When every thread has returned, none lost in a crash, a plan that is RUNNING
\* waits for the engine, or holds a failed or cancelled node: no thread leaves a
\* READY node or a completed plan to one that has gone, for any number of
\* threads and every plan (the advance loop, lost claims, late answers).
THEOREM PlanRestsWaiting == Spec => []RestsOnlyWaiting
<1>1. Init => Driven
  BY DEF Init, Driven, DrivenAt
<1>2. Driven => RestsOnlyWaiting
  BY DEF Driven, DrivenAt, Waits, RestsOnlyWaiting, Resting, Moves
<1> QED
  BY <1>1, <1>2, DrivenNext, PlanInvariant, PTL DEF Spec
=============================================================================
