----------------------------- MODULE RuntimeTasks -----------------------------
(***************************************************************************)
(* The tasks of the Runtime authority (RuntimeAuthority, runtime/api.py)   *)
(* with its admission controller, worker registry, lease manager and the   *)
(* thread and process executors.                                           *)
(*                                                                         *)
(* Every operation of the authority holds its lock from end to end and is  *)
(* one step; the states ADMITTED, ASSIGNED and CANCELLING exist only       *)
(* inside a step.  A pool thread takes the lock only in the completion     *)
(* callback: its token checks, its wait at the pause gate and the task's   *)
(* function are steps of their own, interleaved with the operations.       *)
(*                                                                         *)
(* A task id may be submitted again once it is terminal.  Its submissions  *)
(* are numbered; the number stands for the lease and its epoch.  All tasks *)
(* ask for the same resources, so admission counts slots; any registered   *)
(* worker has the capabilities asked for.  Lease times, which no operation *)
(* here reads, and results are left out.  Which queued attempt a free pool *)
(* thread takes is left open, and so is how many processes run at once.    *)
(***************************************************************************)
EXTENDS Naturals, FiniteSets

CONSTANTS Task,             \* task ids
          Isolated,         \* those with process_isolated
          Pausable,         \* those with allow_pause
          Cancellable,      \* those with allow_cancellation
          Worker,           \* worker ids, in their order: a set of naturals
          WorkerSlots,      \* max_concurrency_slots of a worker
          MaxSlots,         \* budget.max_worker_slots
          PoolSize,         \* max_threads
          MaxSubmissions,   \* bound: submissions of one task id
          None              \* no snapshot, no worker, no lease

ASSUME RuntimeBounds ==
    /\ IsFiniteSet(Task) /\ Worker \subseteq Nat
    /\ WorkerSlots \in Nat \ {0} /\ MaxSlots \in Nat /\ PoolSize \in Nat \ {0}
    /\ MaxSubmissions \in Nat
    /\ None \notin {"AVAILABLE", "BUSY"}

VARIABLES lifecycle,        \* _is_running and _is_shutting_down
          draining,         \* admission_controller._is_draining
          snapshot,         \* _snapshots
          allocated,        \* admission_controller._allocated_slots
          worker_state,     \* registry._states; None before registration
          active_tasks,     \* registry._active_tasks
          leases,           \* lease_manager._leases, the keys
          task_lease,       \* lease_manager._task_leases
          submitted,        \* submissions so far; the last number numbers the lease
          attempt,          \* what has become of each submission
          tokens,           \* tasks whose CancellationToken is set
          gates,            \* tasks whose PauseGate is closed
          pool_open         \* the thread pool accepts work

vars == <<lifecycle, draining, snapshot, allocated, worker_state, active_tasks,
          leases, task_lease, submitted, attempt, tokens, gates, pool_open>>

Attempt == Task \X (1..MaxSubmissions)
Terminal == {"CANCELLED", "SUCCEEDED", "FAILED"}
TaskState == Terminal \cup {"PENDING", "RUNNING", "PAUSED"}

\* "rejected" was admitted and never handed to a pool, "dropped" left its pool
\* without the completion callback, "released" had its callback.
Live == {"queued", "gate", "executing", "returned", "raised"}
Phase == Live \cup {"unsubmitted", "rejected", "dropped", "released"}

TypeOK ==
    /\ lifecycle \in {"stopped", "running", "cancelled_all", "closing", "wedged"}
    /\ draining \in BOOLEAN
    /\ snapshot \in [Task -> [state: TaskState, attempt: 0..MaxSubmissions] \cup {None}]
    /\ allocated \in 0..MaxSlots
    /\ worker_state \in [Worker -> {"AVAILABLE", "BUSY", "UNHEALTHY", "DEREGISTERED", None}]
    /\ active_tasks \in [Worker -> SUBSET Task]
    /\ leases \subseteq Attempt
    /\ task_lease \in [Task -> Attempt \cup {None}]
    /\ submitted \in [Task -> 0..MaxSubmissions]
    /\ attempt \in [Attempt -> [phase: Phase, worker: Worker \cup {None}, cancelled: BOOLEAN]]
    /\ tokens \subseteq Task \ Isolated
    /\ gates \subseteq Pausable
    /\ pool_open \in BOOLEAN

Init ==
    /\ lifecycle = "stopped"
    /\ draining = FALSE
    /\ snapshot = [t \in Task |-> None]
    /\ allocated = 0
    /\ worker_state = [w \in Worker |-> None]
    /\ active_tasks = [w \in Worker |-> {}]
    /\ leases = {}
    /\ task_lease = [t \in Task |-> None]
    /\ submitted = [t \in Task |-> 0]
    /\ attempt = [a \in Attempt |-> [phase |-> "unsubmitted", worker |-> None, cancelled |-> FALSE]]
    /\ tokens = {}
    /\ gates = {}
    /\ pool_open = TRUE

is_terminal(t) == snapshot[t].state \in Terminal
NonTerminal == {t \in Task : snapshot[t] # None /\ ~is_terminal(t)}
Dispatched(t) == {a \in Attempt : a[1] = t /\ attempt[a].phase \notin {"unsubmitted", "rejected"}}

-----------------------------------------------------------------------------
\* The worker registry.

Full(tasks) == Cardinality(tasks) >= WorkerSlots

register_worker(w) ==
    /\ worker_state' = [worker_state EXCEPT ![w] = "AVAILABLE"]
    /\ active_tasks' = [active_tasks EXCEPT ![w] = {}]
    /\ UNCHANGED <<lifecycle, draining, snapshot, allocated, leases, task_lease,
                   submitted, attempt, tokens, gates, pool_open>>

\* deregister_worker, and detect_unhealthy_workers for one stale worker.
SetWorkerState(w, s) ==
    /\ worker_state[w] # None
    /\ s = "UNHEALTHY" => worker_state[w] \in {"AVAILABLE", "BUSY"}
    /\ worker_state' = [worker_state EXCEPT ![w] = s]
    /\ UNCHANGED <<lifecycle, draining, snapshot, allocated, active_tasks, leases,
                   task_lease, submitted, attempt, tokens, gates, pool_open>>

\* Mutant: a worker at its limit stays available.
assign_task_StaysAvailable(w, t) ==
    /\ active_tasks' = [active_tasks EXCEPT ![w] = @ \cup {t}]
    /\ UNCHANGED worker_state

assign_task(w, t) ==
    /\ active_tasks' = [active_tasks EXCEPT ![w] = @ \cup {t}]
    /\ worker_state' = IF Full(active_tasks'[w])
                       THEN [worker_state EXCEPT ![w] = "BUSY"] ELSE worker_state

unassign_task(w, t) ==
    /\ active_tasks' = [active_tasks EXCEPT ![w] = @ \ {t}]
    /\ worker_state' = IF worker_state[w] = "BUSY" /\ ~Full(active_tasks'[w])
                       THEN [worker_state EXCEPT ![w] = "AVAILABLE"] ELSE worker_state

is_available(w) == worker_state[w] = "AVAILABLE" /\ ~Full(active_tasks[w])

\* The lowest load first, then the lowest worker id.
select_worker ==
    CHOOSE w \in {v \in Worker : is_available(v)} :
        \A v \in {u \in Worker : is_available(u)} :
            LET load(u) == Cardinality(active_tasks[u])
            IN load(w) < load(v) \/ (load(w) = load(v) /\ w <= v)

-----------------------------------------------------------------------------
\* Leases and admission.

acquire_lease(a) ==
    /\ leases' = leases \cup {a}
    /\ task_lease' = [task_lease EXCEPT ![a[1]] = a]

\* Mutant: the task's entry outlives its lease.
release_lease_KeepsIndex(a) ==
    /\ leases' = leases \ {a}
    /\ UNCHANGED task_lease

\* Drops the entry of the lease's task, whichever lease it names.
release_lease(a) ==
    /\ leases' = leases \ {a}
    /\ task_lease' = IF a \in leases THEN [task_lease EXCEPT ![a[1]] = None] ELSE task_lease

evaluate_admission == ~draining /\ allocated + 1 <= MaxSlots

allocate == allocated' = allocated + 1
release == allocated' = IF allocated = 0 THEN 0 ELSE allocated - 1

set_drain_mode(d) ==
    /\ draining # d
    /\ draining' = d
    /\ UNCHANGED <<lifecycle, snapshot, allocated, worker_state, active_tasks, leases,
                   task_lease, submitted, attempt, tokens, gates, pool_open>>

-----------------------------------------------------------------------------
\* Submission.

Snap(t, state, n) == snapshot' = [snapshot EXCEPT ![t] = [state |-> state, attempt |-> n]]

Record(a, phase, w) ==
    attempt' = [attempt EXCEPT ![a].phase = phase, ![a].worker = w]

\* The executor takes the task unless it has no function or, for the thread
\* executor, its pool was shut down.
MayDispatch(t, has_func) == has_func /\ (t \in Isolated \/ pool_open)

\* Mutant: a shutdown under way does not count.
_ensure_running_Started == lifecycle # "stopped"

_ensure_running == lifecycle = "running"

\* An exception after admission leaves the task PENDING and undoes nothing.
submit_task(t, has_func) ==
    /\ _ensure_running
    /\ t \notin NonTerminal
    /\ evaluate_admission
    /\ submitted[t] < MaxSubmissions
    /\ submitted' = [submitted EXCEPT ![t] = @ + 1]
    /\ allocate
    /\ LET a == <<t, submitted'[t]>>
           w == select_worker
       IN IF \A v \in Worker : ~is_available(v)
          THEN /\ Snap(t, "PENDING", 0)
               /\ Record(a, "rejected", None)
               /\ UNCHANGED <<leases, task_lease, worker_state, active_tasks>>
          ELSE /\ acquire_lease(a)
               /\ assign_task(w, t)
               /\ IF MayDispatch(t, has_func)
                  THEN Snap(t, "RUNNING", a[2]) /\ Record(a, "queued", w)
                  ELSE Snap(t, "PENDING", 0) /\ Record(a, "rejected", w)
    /\ UNCHANGED <<lifecycle, draining, tokens, gates, pool_open>>

-----------------------------------------------------------------------------
\* The pools.

BusyThreads ==
    {a \in Attempt : a[1] \notin Isolated /\ attempt[a].phase \in Live \ {"queued"}}

Move(a, phase) ==
    /\ attempt' = [attempt EXCEPT ![a].phase = phase]
    /\ UNCHANGED <<lifecycle, draining, snapshot, allocated, worker_state, active_tasks,
                   leases, task_lease, submitted, tokens, gates, pool_open>>

\* A pool takes a queued attempt.  In a thread the first token.check() raises
\* outside the try block: the callback is not called.
Begin(a) ==
    /\ attempt[a].phase = "queued"
    /\ a[1] \notin Isolated => Cardinality(BusyThreads) < PoolSize
    /\ Move(a, IF a[1] \in Isolated THEN "executing"
               ELSE IF a[1] \in tokens THEN "dropped" ELSE "gate")

\* Mutant: a cancelled task waits at its gate like a paused one.
IsOpen_NotCancelled(t) == t \notin gates \cup tokens

IsOpen(t) == t \notin gates

\* gate.wait_if_paused() returns; the second token.check() is outside the try
\* block too.
PassGate(a) ==
    /\ attempt[a].phase = "gate"
    /\ IsOpen(a[1])
    /\ Move(a, IF a[1] \in tokens THEN "dropped" ELSE "executing")

\* Mutant: the except clause does not call the callback.
AfterFunction_NoCallback(t, ok) == IF ok /\ t \notin tokens THEN "returned" ELSE "dropped"

\* The callback gets the result, or the exception; in a thread a set token
\* makes it an exception.
AfterFunction(t, ok) == IF ok /\ t \notin tokens THEN "returned" ELSE "raised"

\* The function returns or raises.
Return(a, ok) ==
    /\ attempt[a].phase = "executing"
    /\ Move(a, AfterFunction(a[1], ok))

\* Mutant: the callback does not look at the state it overwrites.
Completed_Overwrites(t, n, ok) ==
    [state |-> IF ok THEN "SUCCEEDED" ELSE "FAILED", attempt |-> n]

\* The snapshot the completion callback leaves.
Completed(t, n, ok) ==
    IF is_terminal(t) THEN snapshot[t]
    ELSE [state |-> IF ok THEN "SUCCEEDED" ELSE "FAILED", attempt |-> n]

\* _completion_cb.
Complete(a) ==
    /\ attempt[a].phase \in {"returned", "raised"}
    /\ release
    /\ unassign_task(attempt[a].worker, a[1])
    /\ release_lease(a)
    /\ snapshot' = [snapshot EXCEPT ![a[1]] =
                      Completed(a[1], a[2], attempt[a].phase = "returned")]
    /\ attempt' = [attempt EXCEPT ![a].phase = "released"]
    /\ UNCHANGED <<lifecycle, draining, submitted, tokens, gates, pool_open>>

-----------------------------------------------------------------------------
\* Cancelling and pausing.

\* Tasks with a token: those the thread executor was ever given.
HasToken(ts) == {t \in ts \ Isolated : Dispatched(t) # {}}

\* The attempts whose future, the last of their task, is still pending when
\* tasks ts are cancelled: a thread's is dropped, a process's calls its
\* completion callback.
Queued(ts) ==
    {a \in Attempt : /\ a[1] \in ts
                     /\ attempt[a].phase = "queued"
                     /\ \A b \in Dispatched(a[1]) : b[2] <= a[2]}

\* Mutant: cancelling gives the slot back and so does the completion callback.
Refunded_Always(ts) ==
    {a \in Attempt : a[1] \in ts /\ a[2] = snapshot[a[1]].attempt}

\* The attempts whose slot, worker and lease are given back at once.
Refunded(ts) == {a \in Queued(ts) : a[1] \in Isolated}

\* cancel_task on each of ts, under the one lock.
Cancel(ts) ==
    /\ snapshot' = [t \in Task |-> IF t \in ts
                                   THEN [snapshot[t] EXCEPT !.state = "CANCELLED"]
                                   ELSE snapshot[t]]
    /\ tokens' = tokens \cup HasToken(ts)
    /\ attempt' = [a \in Attempt |->
         [attempt[a] EXCEPT
            !.phase = IF a \notin Queued(ts) THEN @
                      ELSE IF a[1] \in Isolated THEN "released" ELSE "dropped",
            !.cancelled = @ \/ (a[1] \in ts /\ snapshot[a[1]].attempt = a[2])]]
    /\ LET n == Cardinality(Refunded(ts))
       IN allocated' = IF allocated < n THEN 0 ELSE allocated - n
    /\ LET back(w) == {a[1] : a \in {b \in Refunded(ts) : attempt[b].worker = w}}
       IN /\ active_tasks' = [w \in Worker |-> active_tasks[w] \ back(w)]
          /\ worker_state' = [w \in Worker |->
               IF back(w) # {} /\ worker_state[w] = "BUSY" /\ ~Full(active_tasks'[w])
               THEN "AVAILABLE" ELSE worker_state[w]]
    /\ leases' = leases \ Refunded(ts)
    /\ task_lease' = [t \in Task |-> IF \E a \in Refunded(ts) : a[1] = t
                                     THEN None ELSE task_lease[t]]

cancel_task(t) ==
    /\ t \in NonTerminal \cap Cancellable
    /\ Cancel({t})
    /\ UNCHANGED <<lifecycle, draining, submitted, gates, pool_open>>

pause_task(t) ==
    /\ t \in NonTerminal \cap Pausable
    /\ snapshot[t].state \in {"RUNNING", "PAUSED"}
    /\ Snap(t, "PAUSED", snapshot[t].attempt)
    /\ gates' = gates \cup {t}
    /\ UNCHANGED <<lifecycle, draining, allocated, worker_state, active_tasks, leases,
                   task_lease, submitted, attempt, tokens, pool_open>>

resume_task(t) ==
    /\ t \in NonTerminal
    /\ snapshot[t].state \in {"RUNNING", "PAUSED"}
    /\ Snap(t, "RUNNING", snapshot[t].attempt)
    /\ gates' = gates \ {t}
    /\ UNCHANGED <<lifecycle, draining, allocated, worker_state, active_tasks, leases,
                   task_lease, submitted, attempt, tokens, pool_open>>

-----------------------------------------------------------------------------
\* Start and shutdown.

start ==
    /\ lifecycle = "stopped"
    /\ lifecycle' = "running"
    /\ UNCHANGED <<draining, snapshot, allocated, worker_state, active_tasks, leases,
                   task_lease, submitted, attempt, tokens, gates, pool_open>>

\* The first part of shutdown cancels the tasks one after the other.  The
\* first that does not allow it raises out of shutdown with _is_shutting_down
\* set, after some of the others were cancelled.
BeginShutdown ==
    /\ lifecycle = "running"
    /\ IF NonTerminal \subseteq Cancellable
       THEN Cancel(NonTerminal) /\ lifecycle' = "cancelled_all"
       ELSE /\ \E ts \in SUBSET (NonTerminal \cap Cancellable) : Cancel(ts)
            /\ lifecycle' = "wedged"
    /\ UNCHANGED <<draining, submitted, gates, pool_open>>

\* Mutant: the gates stay as they are.
GatesAfterShutdown_Kept == gates

GatesAfterShutdown == {}

\* The executors' shutdown, outside the authority's lock.
CloseExecutors ==
    /\ lifecycle = "cancelled_all"
    /\ lifecycle' = "closing"
    /\ tokens' = tokens \cup HasToken(Task)
    /\ gates' = GatesAfterShutdown
    /\ pool_open' = FALSE
    /\ UNCHANGED <<draining, snapshot, allocated, worker_state, active_tasks, leases,
                   task_lease, submitted, attempt>>

\* With wait the pools have run dry.
FinishShutdown(wait) ==
    /\ lifecycle = "closing"
    /\ wait => \A a \in Attempt : attempt[a].phase \notin Live
    /\ lifecycle' = "stopped"
    /\ UNCHANGED <<draining, snapshot, allocated, worker_state, active_tasks, leases,
                   task_lease, submitted, attempt, tokens, gates, pool_open>>

PoolStep(a) == Begin(a) \/ PassGate(a) \/ (\E ok \in BOOLEAN : Return(a, ok)) \/ Complete(a)

Next ==
    \/ start \/ BeginShutdown \/ CloseExecutors
    \/ \E b \in BOOLEAN : FinishShutdown(b) \/ set_drain_mode(b)
    \/ \E w \in Worker : register_worker(w)
         \/ \E s \in {"UNHEALTHY", "DEREGISTERED"} : SetWorkerState(w, s)
    \/ \E t \in Task : cancel_task(t) \/ pause_task(t) \/ resume_task(t)
         \/ \E has_func \in BOOLEAN : submit_task(t, has_func)
    \/ \E a \in Attempt : PoolStep(a)

Spec == Init /\ [][Next]_vars

\* Pool threads run and the functions they are given return; a shutdown that
\* has begun goes on.
Fairness ==
    /\ \A a \in Attempt : WF_vars(PoolStep(a))
    /\ WF_vars(CloseExecutors) /\ WF_vars(FinishShutdown(TRUE))

FairSpec == Spec /\ Fairness

-----------------------------------------------------------------------------
\* Properties.

Holding == {a \in Attempt : attempt[a].phase \notin {"unsubmitted", "released"}}

\* Every slot is accounted for, by an attempt that has not been through its
\* completion callback: none is given back twice, so what runs never exceeds
\* the budget, whatever is cancelled, resubmitted or shut down meanwhile.
SlotsAccounted == allocated = Cardinality(Holding)

\* A BUSY worker is full and an AVAILABLE one has a slot free, and none is given
\* more tasks than it has slots. (A full worker may also be UNHEALTHY.)
BusyMeansFull ==
    \A w \in Worker :
        /\ Cardinality(active_tasks[w]) <= WorkerSlots
        /\ worker_state[w] = "BUSY" => Full(active_tasks[w])
        /\ worker_state[w] = "AVAILABLE" => ~Full(active_tasks[w])

\* get_lease_for_task never answers with a lease that was released or that a
\* later submission of the task has superseded.
LeaseIndexCurrent ==
    \A t \in Task : task_lease[t] # None =>
        /\ task_lease[t] \in leases
        /\ \A a \in leases : a[1] = t => a[2] <= task_lease[t][2]

\* A terminal snapshot stays until the task is submitted again: no late
\* callback, pause, resume or second cancel changes it.
TerminalIsFinal ==
    [][\A t \in Task : snapshot[t] # None /\ is_terminal(t) =>
         snapshot'[t] = snapshot[t] \/ submitted'[t] = submitted[t] + 1]_vars

\* Shutdown waits for the pool holding the thread executor's lock.  Cancelling,
\* pausing or resuming a live task waits for that lock holding the authority's,
\* which a completion callback needs before its thread can end: so that nobody
\* waits for ever, no task is live by then.
ClosingHasNoLiveTask == lifecycle = "closing" => NonTerminal = {}

\* A shutdown that has cancelled the tasks completes, paused ones included.
ShutdownCompletes == lifecycle = "cancelled_all" ~> lifecycle = "stopped"

IsRunning(t) == snapshot[t] # None /\ snapshot[t].state = "RUNNING"

\* A thread of the pool waits at a closed gate.
HeldUp == \E a \in Attempt : attempt[a].phase = "gate" /\ a[1] \in gates

\* A task that is RUNNING does not stay so for ever, with two exceptions: a
\* thread of the pool is held up by a paused task; or the task was submitted again
\* under a token that an earlier cancel has set (get_token returns the same one),
\* and then the attempt ends at a token check and nobody is told.
RunningEnds == \A t \in Task : IsRunning(t) ~> (~IsRunning(t) \/ t \in tokens \/ HeldUp)

InPool(a) == attempt[a].phase \in Live

\* A cancelled attempt leaves the pool, unless it was paused.
CancelledRunEnds ==
    \A a \in Attempt : attempt[a].cancelled ~> (~InPool(a) \/ a[1] \in gates)

=============================================================================
