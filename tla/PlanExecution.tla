--------------------------- MODULE PlanExecution ---------------------------
(***************************************************************************)
(* The plan coordinator of the pipeline and the commands around it:        *)
(* akaalPipeline/execution/coordinator.py, operations/leases.py,           *)
(* execution/result_reconciliation.py, the start command of                *)
(* application/unified_caller.py and the cancel, recover, pause and resume *)
(* commands of application/command_handlers.py, for one migration.         *)
(*                                                                         *)
(* Every unit of work opens with BEGIN IMMEDIATE, so one transaction is    *)
(* one step here; whatever the coordinator does between two transactions   *)
(* (the gates, the engine call) interleaves with every other thread.       *)
(*                                                                         *)
(* A thread is the advance loop of one start command, or the ingress of    *)
(* one completion the engine posts (which ends in the same loop). The      *)
(* engine is external: it answers a call, keeps a task alive, and may post *)
(* the completion of a task it accepted. Outbox events, audit records, the *)
(* operation journal and the payloads are left out.                        *)
(***************************************************************************)
EXTENDS Naturals, FiniteSets

CONSTANTS Nodes,          \* graph nodes of the plan
          Rank,           \* row order of the nodes (plan order)
          Deps,           \* dependencies of each node
          Starts,         \* start commands, each with its advance thread
          Posts,          \* completions posted by the engine
          Answers,        \* answers the engine may give to a call
          Finite,         \* the plan's mode is one of the finite modes
          MaxExecs,       \* bound: plan executions of the migration
          MaxAttempts,    \* bound: attempts (and leases)
          MaxInvocations, \* bound: engine invocations
          MaxCommands     \* bound: operator commands and crashes

\* What execute_task may do: a complete result, a result the reconciler cannot
\* accept (a missing or foreign receipt), an exception, or a task accepted for
\* asynchronous completion.
EngineAnswer == {"success", "failure", "malformed", "raise", "progress"}

ASSUME PlanAssumption ==
    /\ Rank \in [Nodes -> Nat]
    /\ \A m, n \in Nodes : Rank[m] = Rank[n] => m = n
    /\ Deps \in [Nodes -> SUBSET Nodes]
    /\ Answers \subseteq EngineAnswer
    /\ Finite \in BOOLEAN
ASSUME BoundAssumption ==
    /\ MaxExecs \in Nat /\ MaxAttempts \in Nat
    /\ MaxInvocations \in Nat /\ MaxCommands \in Nat
ASSUME ThreadAssumption == Starts \cap Posts = {}

VARIABLES mig,       \* migrations.state
          active,    \* migrations.active_attempt_id, 0 when NULL
          execs,     \* number of plan_executions rows
          plan,      \* plan_executions.status, by execution
          node,      \* node_executions.state
          att,       \* node_executions.current_attempt_id, 0 when NULL
          inv,       \* node_executions.current_invocation_id, 0 when NULL
          task,      \* node_executions.current_engine_task_id, 0 when NULL
          atts,      \* attempts created so far
          epoch,     \* leases.fence_epoch by attempt, 0 when there is no row
          invs,      \* invocations sent so far
          req,       \* the engine request of each invocation
          live,      \* invocations whose engine task is alive
          thread,    \* the threads
          commands,  \* operator commands and crashes so far
          crashed    \* the process has crashed at some time

db == <<mig, active, execs, plan, node, att, inv, task, atts, epoch>>
engine == <<invs, req, live>>
faults == <<commands, crashed>>
vars == <<db, engine, thread, faults>>

Threads == Starts \cup Posts
Execs == 1..MaxExecs
Attempts == 1..MaxAttempts
Invocations == 1..MaxInvocations
NoNode == "none"

\* NodeExecutionState has no RUNNING member (its ACCEPTED is never written).
NodeStates == {"BLOCKED", "READY", "DISPATCHED", "SUCCEEDED", "FAILED", "CANCELLED"}
PlanStates == {"none", "ACCEPTED", "RUNNING", "SUCCEEDED", "FAILED", "CANCELLED"}
MigStates == {"INITIALIZED", "ACTIVE", "PAUSED", "CANCELLATION_PENDING",
              "CANCELLED", "COMPLETED"}
Resting == {"idle", "done"}
Pcs == Resting \cup {"check", "gate", "claim", "engine", "task", "progress",
                     "reconcile", "ingress", "fail"}

NoRequest == [exec |-> 0, node |-> NoNode, att |-> 0, epoch |-> 0]

\* A thread's local variables: the row it picked (exec, node), the attempt the
\* row named when it was read, the invocation it works on, the engine's answer.
Local(pc, e, n, a, i, out) ==
    [pc |-> pc, exec |-> e, node |-> n, att |-> a, inv |-> i, out |-> out]
Idle == Local("idle", 0, NoNode, 0, 0, "none")
Done == [Idle EXCEPT !.pc = "done"]

Requests == [exec : 0..MaxExecs, node : Nodes \cup {NoNode}, att : 0..MaxAttempts, epoch : Nat]
Locals == [pc : Pcs, exec : 0..MaxExecs, node : Nodes \cup {NoNode}, att : 0..MaxAttempts,
           inv : 0..MaxInvocations, out : EngineAnswer \cup {"none"}]

TypeOK ==
    /\ mig \in MigStates
    /\ active \in 0..MaxAttempts
    /\ execs \in 0..MaxExecs
    /\ plan \in [Execs -> PlanStates]
    /\ node \in [Execs -> [Nodes -> NodeStates]]
    /\ att \in [Execs -> [Nodes -> 0..MaxAttempts]]
    /\ inv \in [Execs -> [Nodes -> 0..MaxInvocations]]
    /\ task \in [Execs -> [Nodes -> 0..MaxInvocations]]
    /\ atts \in 0..MaxAttempts
    /\ epoch \in [Attempts -> Nat]
    /\ invs \in 0..MaxInvocations
    /\ req \in [Invocations -> Requests]
    /\ live \subseteq Invocations
    /\ thread \in [Threads -> Locals]
    /\ commands \in 0..MaxCommands
    /\ crashed \in BOOLEAN

Init ==
    /\ mig = "INITIALIZED" /\ active = 0 /\ execs = 0
    /\ plan = [e \in Execs |-> "none"]
    /\ node = [e \in Execs |-> [n \in Nodes |-> "BLOCKED"]]
    /\ att = [e \in Execs |-> [n \in Nodes |-> 0]]
    /\ inv = [e \in Execs |-> [n \in Nodes |-> 0]]
    /\ task = [e \in Execs |-> [n \in Nodes |-> 0]]
    /\ atts = 0 /\ epoch = [a \in Attempts |-> 0]
    /\ invs = 0 /\ req = [i \in Invocations |-> NoRequest]
    /\ live = {}
    /\ thread = [t \in Threads |-> Idle]
    /\ commands = 0 /\ crashed = FALSE

(***************************************************************************)
(* Helpers shared by the transactions.                                     *)
(***************************************************************************)

\* n comes first, in row order, of the nodes in S.
IsFirst(n, S) == n \in S /\ \A m \in S : Rank[n] <= Rank[m]

\* get_ready_nodes
ReadyNodes(e) == {n \in Nodes : node[e][n] = "READY"}
\* Mutant: a plan without a failed node counts as complete.
NoneFailed(states) == \A n \in Nodes : states[n] # "FAILED"
AllSucceeded(states) == \A n \in Nodes : states[n] = "SUCCEEDED"

\* _evaluate_and_activate_successors compares the state of a BLOCKED node's
\* dependencies with NodeExecutionState.RUNNING, which does not exist: the first
\* dependency it looks at raises AttributeError, whatever its state. A BLOCKED
\* node without dependencies becomes READY.
ActivationRaises(states) == \E n \in Nodes : states[n] = "BLOCKED" /\ Deps[n] # {}
Activated(states) == [n \in Nodes |-> IF states[n] = "BLOCKED" THEN "READY" ELSE states[n]]

\* revoke_lease: the epoch of an existing row moves on and the row expires.
Revoked(a) == [b \in Attempts |-> IF b = a /\ epoch[b] > 0 THEN epoch[b] + 1 ELSE epoch[b]]

\* The lease row of a's invocation i has moved past the epoch i was sent with.
Fenced(i) == epoch[req[i].att] # req[i].epoch

\* _mark_plan_succeeded's lifecycle state.
SucceededMig == IF Finite THEN "COMPLETED" ELSE "ACTIVE"

Stop(t) == thread' = [thread EXCEPT ![t] = Done]
Goto(t, pc) == thread' = [thread EXCEPT ![t].pc = pc]

\* Mutant: the call returns after one node.
AfterSuccessReturns(t) == Stop(t)
\* The loop of advance_plan_execution goes round after a success.
AfterSuccess(t) == Goto(t, "check")

(***************************************************************************)
(* The start command: admission and materialize_plan_execution in one      *)
(* transaction, then the advance thread.                                   *)
(***************************************************************************)
ActivePlans == {e \in Execs : plan[e] \in {"ACCEPTED", "RUNNING"}}

Start(t) ==
    /\ thread[t].pc = "idle"
    /\ mig \in {"INITIALIZED", "ACTIVE"}
    /\ mig' = "ACTIVE"
    /\ \/ /\ \E e \in ActivePlans :
                /\ \A f \in ActivePlans : f <= e
                /\ thread' = [thread EXCEPT ![t] = Local("check", e, NoNode, 0, 0, "none")]
          /\ UNCHANGED <<execs, plan, node>>
       \/ /\ ActivePlans = {} /\ execs < MaxExecs
          /\ execs' = execs + 1
          /\ plan' = [plan EXCEPT ![execs + 1] = "ACCEPTED"]
          /\ node' = [node EXCEPT ![execs + 1] =
                        [n \in Nodes |-> IF Deps[n] = {} THEN "READY" ELSE "BLOCKED"]]
          /\ thread' = [thread EXCEPT ![t] = Local("check", execs + 1, NoNode, 0, 0, "none")]
    /\ UNCHANGED <<active, att, inv, task, atts, epoch, engine, faults>>

(***************************************************************************)
(* advance_plan_execution, one action per transaction.                     *)
(***************************************************************************)

\* The check at the head of the loop: return on a terminal plan, close a plan
\* whose nodes all succeeded, return when nothing is READY, else pick a node.
Check(t) ==
    LET e == thread[t].exec IN
    /\ thread[t].pc = "check"
    /\ \/ /\ plan[e] \in {"CANCELLED", "FAILED", "SUCCEEDED"}
          /\ Stop(t) /\ UNCHANGED <<plan, mig>>
       \/ /\ plan[e] \notin {"CANCELLED", "FAILED", "SUCCEEDED"}
          /\ ReadyNodes(e) = {}
          /\ Stop(t)
          /\ IF AllSucceeded(node[e])
             THEN plan' = [plan EXCEPT ![e] = "SUCCEEDED"] /\ mig' = SucceededMig
             ELSE UNCHANGED <<plan, mig>>
       \/ /\ plan[e] \notin {"CANCELLED", "FAILED", "SUCCEEDED"}
          /\ \E n \in Nodes :
                /\ IsFirst(n, ReadyNodes(e))
                /\ thread' = [thread EXCEPT ![t] = Local("gate", e, n, att[e][n], 0, "none")]
          /\ UNCHANGED <<plan, mig>>
    /\ UNCHANGED <<active, execs, node, att, inv, task, atts, epoch, engine, faults>>

\* The capability, validation-only, placement and binding gates, then the read
\* of a preassigned attempt's lease: an expired lease (a revoked one always is)
\* is not used, and the clock may have passed its expiry.
Gate(t) ==
    LET a == thread[t].att IN
    /\ thread[t].pc = "gate"
    /\ \/ Goto(t, "fail")
       \/ /\ a # 0 /\ epoch[a] = 1
          /\ Goto(t, "claim")
       \/ thread' = [thread EXCEPT ![t].pc = "claim", ![t].att = 0]
    /\ UNCHANGED <<db, engine, faults>>

\* Mutant: a lost race tries the same node again.
LostClaimRetry(t) ==
    /\ thread[t].pc = "claim"
    /\ node[thread[t].exec][thread[t].node] # "READY"
    /\ Goto(t, "gate")
    /\ UNCHANGED <<db, engine, faults>>

\* The atomic claim, UPDATE ... WHERE state = 'READY': a lost race goes round the
\* loop, from the check.
LostClaim(t) ==
    /\ thread[t].pc = "claim"
    /\ node[thread[t].exec][thread[t].node] # "READY"
    /\ Goto(t, "check")
    /\ UNCHANGED <<db, engine, faults>>

\* A won claim: the row names the attempt and the invocation, a fresh attempt
\* gets its lease at epoch 1, and the plan is RUNNING whatever it was.
Claim(t) ==
    LET e == thread[t].exec
        n == thread[t].node
        pre == thread[t].att
        a == IF pre # 0 THEN pre ELSE atts + 1
        i == invs + 1 IN
    /\ thread[t].pc = "claim"
    /\ node[e][n] = "READY" /\ i <= MaxInvocations /\ a <= MaxAttempts
    /\ node' = [node EXCEPT ![e][n] = "DISPATCHED"]
    /\ att' = [att EXCEPT ![e][n] = a]
    /\ inv' = [inv EXCEPT ![e][n] = i]
    /\ atts' = IF pre # 0 THEN atts ELSE a
    /\ epoch' = IF pre # 0 THEN epoch ELSE [epoch EXCEPT ![a] = 1]
    /\ plan' = [plan EXCEPT ![e] = "RUNNING"]
    /\ active' = a
    /\ invs' = i
    /\ req' = [req EXCEPT ![i] = [exec |-> e, node |-> n, att |-> a, epoch |-> 1]]
    /\ live' = live \cup {i}
    /\ thread' = [thread EXCEPT ![t].pc = "engine", ![t].inv = i]
    /\ UNCHANGED <<mig, execs, task, faults>>

\* execute_task returns or raises. A task the engine only accepted stays alive.
EngineAnswers(t) ==
    /\ thread[t].pc = "engine"
    /\ \E out \in Answers :
          /\ thread' = [thread EXCEPT ![t].pc = IF out = "raise" THEN "fail" ELSE "task",
                                      ![t].out = out]
          /\ live' = IF out = "progress" THEN live ELSE live \ {thread[t].inv}
    /\ UNCHANGED <<db, invs, req, faults>>

\* The engine's task id is written to the row, when the answer carries one.
RecordTask(t) ==
    LET e == thread[t].exec
        n == thread[t].node IN
    /\ thread[t].pc = "task"
    /\ Goto(t, IF thread[t].out = "progress" THEN "progress" ELSE "reconcile")
    /\ \/ task' = [task EXCEPT ![e][n] = thread[t].inv]
       \/ UNCHANGED task
    /\ UNCHANGED <<mig, active, execs, plan, node, att, inv, atts, epoch, engine, faults>>

\* A task accepted for asynchronous completion: the transaction that would set
\* the row RUNNING raises AttributeError at NodeExecutionState.RUNNING and is
\* rolled back; the exception leaves the call and ends the thread.
InProgress(t) ==
    /\ thread[t].pc = "progress"
    /\ Stop(t)
    /\ UNCHANGED <<db, engine, faults>>

\* _mark_node_and_plan_failed
Failed(e, n) ==
    /\ node' = [node EXCEPT ![e][n] = "FAILED"]
    /\ plan' = [plan EXCEPT ![e] = "FAILED"]

\* The answer is reconciled with the lease of its attempt. A stale or malformed
\* answer, and a success whose activation raises, roll the transaction back and
\* fail the node in one of its own.
Reconcile(t) ==
    LET e == thread[t].exec
        n == thread[t].node
        after == [node[e] EXCEPT ![n] = "SUCCEEDED"]
        succeeds == thread[t].out = "success"
        raises == \/ thread[t].out = "malformed" \/ Fenced(thread[t].inv)
                  \/ succeeds /\ ActivationRaises(after) IN
    /\ thread[t].pc = "reconcile"
    /\ \/ /\ raises
          /\ Goto(t, "fail")
          /\ UNCHANGED <<plan, node>>
       \/ /\ ~raises /\ succeeds
          /\ node' = [node EXCEPT ![e] = Activated(after)]
          /\ AfterSuccess(t)
          /\ UNCHANGED plan
       \/ /\ ~raises /\ ~succeeds
          /\ Failed(e, n)
          /\ Stop(t)
    /\ UNCHANGED <<mig, active, execs, att, inv, task, atts, epoch, engine, faults>>

\* The transaction that records a gate's refusal, an engine exception or a
\* stale answer: the row fails whoever holds it now.
MarkFailed(t) ==
    /\ thread[t].pc = "fail"
    /\ Failed(thread[t].exec, thread[t].node)
    /\ Stop(t)
    /\ UNCHANGED <<mig, active, execs, att, inv, task, atts, epoch, engine, faults>>

(***************************************************************************)
(* reconcile_node_completion: the engine ends a task it had accepted and   *)
(* posts the completion. The first transaction finds the row, the second   *)
(* reconciles against what the first one read.                             *)
(***************************************************************************)
Accepted(i) == i \in live /\ ~\E t \in Threads : thread[t].pc = "engine" /\ thread[t].inv = i

Rows(i) == {r \in Execs \X Nodes :
              inv[r[1]][r[2]] = i \/ (att[r[1]][r[2]] # 0 /\ att[r[1]][r[2]] = req[i].att)}

Post(t, i, out) ==
    /\ thread[t].pc = "idle"
    /\ Accepted(i)
    /\ out \in Answers \ {"progress", "raise"}
    /\ live' = live \ {i}
    /\ \/ Rows(i) = {} /\ Stop(t)
       \/ \E r \in Rows(i) :
             thread' = [thread EXCEPT ![t] =
                          Local("ingress", r[1], r[2], att[r[1]][r[2]], i,
                                IF inv[r[1]][r[2]] = i THEN out ELSE "malformed")]
    /\ UNCHANGED <<db, invs, req, faults>>

\* Only a refused completion is recorded as a failure: the exception of an
\* activation leaves reconcile_node_completion, and the row as it was.
Ingress(t) ==
    LET e == thread[t].exec
        n == thread[t].node
        i == thread[t].inv
        after == [node[e] EXCEPT ![n] = "SUCCEEDED"]
        succeeds == thread[t].out = "success"
        refused == \/ thread[t].out = "malformed" \/ Fenced(i)
                   \/ thread[t].att # 0 /\ thread[t].att # req[i].att IN
    /\ thread[t].pc = "ingress"
    /\ \/ /\ refused
          /\ Goto(t, "fail")
          /\ UNCHANGED <<plan, node, mig>>
       \/ /\ ~refused /\ succeeds /\ ActivationRaises(after)
          /\ Stop(t)
          /\ UNCHANGED <<plan, node, mig>>
       \/ /\ ~refused /\ succeeds /\ ~ActivationRaises(after)
          /\ node' = [node EXCEPT ![e] = Activated(after)]
          /\ IF AllSucceeded(Activated(after))
             THEN plan' = [plan EXCEPT ![e] = "SUCCEEDED"] /\ mig' = SucceededMig /\ Stop(t)
             ELSE UNCHANGED <<plan, mig>> /\ AfterSuccess(t)
       \/ /\ ~refused /\ ~succeeds
          /\ Failed(e, n)
          /\ Stop(t)
          /\ UNCHANGED mig
    /\ UNCHANGED <<active, execs, att, inv, task, atts, epoch, engine, faults>>

(***************************************************************************)
(* Operator commands, each one transaction.                                *)
(***************************************************************************)
Command == commands < MaxCommands /\ commands' = commands + 1

InFlight == {r \in Execs \X Nodes : node[r[1]][r[2]] = "DISPATCHED"}

\* Mutant: BLOCKED rows are forgotten.
WaitingNodes(states) ==
    [n \in Nodes |-> IF states[n] \in {"READY", "DISPATCHED"} THEN "CANCELLED" ELSE states[n]]
\* cancel_plan_execution: the nodes that are not terminal.
CancelledNodes(states) ==
    [n \in Nodes |-> IF states[n] \in {"BLOCKED", "READY", "DISPATCHED"}
                     THEN "CANCELLED" ELSE states[n]]

\* handle_cancel_migration: only the active attempt's lease is revoked. The
\* cancellation is confirmed when every row in flight names an engine task and
\* the engine confirms each of them (it also does for a task it has forgotten);
\* an unconfirmed one may still have ended some of the tasks.
Cancel ==
    /\ Command
    /\ mig \notin {"COMPLETED", "CANCELLED"}
    /\ epoch' = IF active # 0 THEN Revoked(active) ELSE epoch
    /\ active' = 0
    /\ plan' = [e \in Execs |-> IF e \in ActivePlans THEN "CANCELLED" ELSE plan[e]]
    /\ node' = [e \in Execs |-> IF e \in ActivePlans THEN CancelledNodes(node[e]) ELSE node[e]]
    /\ \/ /\ \A r \in InFlight : task[r[1]][r[2]] # 0
          /\ mig' = "CANCELLED"
          /\ live' = live \ {task[r[1]][r[2]] : r \in InFlight}
       \/ /\ InFlight # {}
          /\ mig' = "CANCELLATION_PENDING"
          /\ \E ended \in SUBSET {task[r[1]][r[2]] : r \in InFlight} : live' = live \ ended
    /\ UNCHANGED <<execs, att, inv, task, atts, invs, req, thread, crashed>>

\* Mutant: dependencies are not looked at.
RestartedUnordered(states) ==
    [n \in Nodes |-> IF states[n] = "SUCCEEDED" THEN "SUCCEEDED" ELSE "READY"]
\* Mutant: completed nodes start over too.
RestartedAll(states) ==
    [n \in Nodes |-> IF Deps[n] = {} THEN "READY" ELSE "BLOCKED"]
\* recover_plan_execution on the newest execution: SUCCEEDED nodes stay, the
\* others start over, and the replacement attempt goes to one of them.
Recovered(states) ==
    [n \in Nodes |->
        IF states[n] = "SUCCEEDED" THEN "SUCCEEDED"
        ELSE IF \A d \in Deps[n] : states[d] = "SUCCEEDED" THEN "READY" ELSE "BLOCKED"]

\* The node the replacement attempt is meant for: the source attempt's, else
\* the checkpoint's (any node, or none recorded), else the first READY one.
Target(e, source, checkpoint, states) ==
    LET held == {n \in Nodes : source # 0 /\ att[e][n] = source}
        ready == {n \in Nodes : states[n] = "READY"} IN
    IF held # {} THEN CHOOSE n \in Nodes : IsFirst(n, held)
    ELSE IF checkpoint # NoNode THEN checkpoint
    ELSE IF ready # {} THEN CHOOSE n \in Nodes : IsFirst(n, ready) ELSE NoNode

\* Mutant: every READY node is bound to the replacement attempt.
ReboundAll(e, target, a, states) ==
    [n \in Nodes |-> IF states[n] = "SUCCEEDED" THEN att[e][n]
                     ELSE IF states[n] = "READY" THEN a ELSE 0]
\* The replacement attempt a is bound to its target only, if that one is READY.
Rebound(e, target, a, states) ==
    [n \in Nodes |-> IF states[n] = "SUCCEEDED" THEN att[e][n]
                     ELSE IF n = target /\ states[n] = "READY" THEN a ELSE 0]

Recover(source, checkpoint) ==
    LET e == execs
        a == atts + 1
        after == Recovered(node[e])
        target == Target(e, source, checkpoint, after) IN
    /\ Command
    /\ mig \in {"FAILED", "CANCELLED"}
    /\ a <= MaxAttempts
    /\ source \in 0..atts /\ (source = 0 => atts = 0)
    /\ checkpoint \in Nodes \cup {NoNode}
    /\ atts' = a
    /\ epoch' = [(IF source # 0 THEN Revoked(source) ELSE epoch) EXCEPT ![a] = 1]
    /\ mig' = "INITIALIZED"
    /\ active' = a
    /\ IF e = 0 THEN UNCHANGED <<plan, node, att>>
       ELSE /\ plan' = [plan EXCEPT ![e] = "ACCEPTED"]
            /\ node' = [node EXCEPT ![e] = after]
            /\ att' = [att EXCEPT ![e] = Rebound(e, target, a, after)]
    /\ UNCHANGED <<execs, inv, task, engine, thread, crashed>>

\* handle_pause_migration and handle_resume_migration: the threads go on.
Pause ==
    /\ Command /\ mig \in {"ACTIVE", "INITIALIZED"} /\ mig' = "PAUSED"
    /\ UNCHANGED <<active, execs, plan, node, att, inv, task, atts, epoch, engine, thread, crashed>>

Resume ==
    /\ Command /\ mig = "PAUSED" /\ mig' = "ACTIVE"
    /\ UNCHANGED <<active, execs, plan, node, att, inv, task, atts, epoch, engine, thread, crashed>>

\* The process dies: its daemon threads and its engine tasks go with it.
Crash ==
    /\ Command
    /\ crashed' = TRUE
    /\ thread' = [t \in Threads |-> IF thread[t].pc = "idle" THEN Idle ELSE Done]
    /\ live' = {}
    /\ UNCHANGED <<db, invs, req>>

Step(t) ==
    \/ Check(t) \/ Gate(t) \/ LostClaim(t) \/ Claim(t) \/ EngineAnswers(t) \/ RecordTask(t)
    \/ InProgress(t) \/ Reconcile(t) \/ MarkFailed(t) \/ Ingress(t)

Operator ==
    \/ Cancel \/ Pause \/ Resume \/ Crash
    \/ \E source \in 0..MaxAttempts, checkpoint \in Nodes \cup {NoNode} :
          Recover(source, checkpoint)

Next ==
    \/ \E t \in Starts : Start(t)
    \/ \E t \in Posts, i \in Invocations, out \in Answers : Post(t, i, out)
    \/ \E t \in Threads : Step(t)
    \/ Operator

Spec == Init /\ [][Next]_vars

(***************************************************************************)
(* Properties.                                                             *)
(***************************************************************************)

\* A plan execution is SUCCEEDED only while each of its nodes is: late answers,
\* stale completions, cancellations and recoveries that take a node away from
\* SUCCEEDED take the plan with it (_mark_plan_succeeded, Check, Ingress).
PlanSuccessIsReal == \A e \in Execs : plan[e] = "SUCCEEDED" =>
                         \A n \in Nodes : node[e][n] = "SUCCEEDED"

\* No node is READY, or has ever been sent to the engine, before each of its
\* dependencies was sent: creation, recovery and every late transaction keep
\* the order of the graph (materialize, recover_plan_execution).
InvokedInOrder ==
    \A e \in Execs, n \in Nodes :
        node[e][n] = "READY" \/ inv[e][n] # 0
            => \A d \in Deps[n] : inv[e][d] # 0

\* A CANCELLED plan has nothing left to dispatch. The claim does not look at the
\* plan's status: it is the node rows the cancellation rewrote that stop it.
CancelledPlanIsQuiet ==
    \A e \in Execs : plan[e] = "CANCELLED" =>
        \A n \in Nodes : node[e][n] \in {"SUCCEEDED", "FAILED", "CANCELLED"}

\* When every thread has returned and none was lost in a crash, a plan still
\* RUNNING holds a node that is with the engine, failed or cancelled: no READY
\* node and no completed plan is left behind by threads that each believed
\* another one would go on (lost claims, cancels, late answers).
RestsOnlyWaiting ==
    (\A t \in Threads : thread[t].pc \in Resting) /\ ~crashed =>
        \A e \in Execs : plan[e] = "RUNNING" =>
            \E n \in Nodes : node[e][n] \in {"DISPATCHED", "FAILED", "CANCELLED"}

\* A node that SUCCEEDED is not put back in line in one step: recovery preserves
\* it, a claim does not take it; only a late answer for the same row can.
SucceededIsKept ==
    [][\A e \in Execs, n \in Nodes : node[e][n] = "SUCCEEDED" =>
          node'[e][n] \in {"SUCCEEDED", "FAILED"}]_vars

\* A completion is looked up by its attempt or its invocation, and the query
\* takes whichever row comes first: it can only find the row it was sent for.
\* Executions, claims, recoveries and stale threads never bind an attempt to two
\* rows (reconcile_node_completion, Claim, Recover).
CompletionFindsItsRow ==
    \A i \in 1..invs : Rows(i) \subseteq {<<req[i].exec, req[i].node>>}

\* A call that lost its lease never gets it back: no recovery, claim or second
\* revocation brings the epoch of its attempt to the one it was sent with.
FencedStaysFenced == [][\A i \in 1..invs : Fenced(i) => Fenced(i)']_vars

\* The plans the compiler builds: one node depends on nothing.
OneRoot == \A m, n \in Nodes : Deps[m] = {} /\ Deps[n] = {} => m = n

\* In such a plan a call whose row has been sent again has lost its lease: cancel
\* and recover fence it before the node can be READY again, so that its answer,
\* however late, is refused. (With two roots it is false: a cancellation fences
\* the newest attempt only.)
SupersededCallIsFenced ==
    OneRoot => \A i \in 1..invs : inv[req[i].exec][req[i].node] # i => Fenced(i)

\* Every advance call and every posted completion returns, whatever the other
\* threads and the operator do: the loop goes round only after a lost claim.
AdvanceReturns ==
    \A t \in Threads : thread[t].pc # "idle" ~> thread[t].pc = "done"

\* What the docstring of _evaluate_and_activate_successors says: when the success
\* of a node is reconciled under a lease that still stands, every BLOCKED node
\* whose dependencies are then all SUCCEEDED becomes READY.
SuccessorsActivated ==
    [][\A t \in Threads :
          LET e == thread[t].exec
              n == thread[t].node IN
          /\ thread[t].pc = "reconcile" /\ thread'[t].pc # "reconcile"
          /\ thread[t].out = "success" /\ ~Fenced(thread[t].inv) /\ ~crashed'
          => \A m \in Nodes :
                /\ node[e][m] = "BLOCKED"
                /\ \A d \in Deps[m] : d = n \/ node[e][d] = "SUCCEEDED"
                => node'[e][m] = "READY"]_vars

\* A thread runs until it returns; the engine answers every call.
Fairness == \A t \in Threads : WF_vars(Step(t))
FairSpec == Spec /\ Fairness
=============================================================================
