-------------------------- MODULE RuntimeTasksProofs --------------------------
(***************************************************************************)
(* Proofs about the tasks of the Runtime authority: terminal states are    *)
(* final, the lease index is current, shutdown waits for the pools only    *)
(* when no task is live, every admission slot in use has an owner, a BUSY  *)
(* worker is full and an AVAILABLE one is not.                             *)
(***************************************************************************)
EXTENDS RuntimeTasks, FiniteSetTheorems, TLAPS

\* The part of TypeOK these proofs need.
Shape ==
    /\ snapshot \in [Task -> [state: TaskState, attempt: 0..MaxSubmissions] \cup {None}]
    /\ submitted \in [Task -> 0..MaxSubmissions]
    /\ leases \subseteq Attempt
    /\ task_lease \in [Task -> Attempt \cup {None}]

\* Shutdown has cancelled every live task and nothing revives one.
NoneLive == lifecycle \in {"cancelled_all", "closing"} => NonTerminal = {}

\* A lease's number was given out; the index names the task's newest lease.
LeasesNumbered ==
    /\ \A a \in leases : a[2] <= submitted[a[1]]
    /\ \A t \in Task : task_lease[t] # None =>
         /\ task_lease[t] \in leases
         /\ task_lease[t][1] = t
         /\ \A a \in leases : a[1] = t => a[2] <= task_lease[t][2]

\* What a step does to the variables above: nothing, a submission, a
\* completion, a cancel, a pause or resume, or a step of the lifecycle.
LEMMA StepKinds ==
    ASSUME [Next]_vars
    PROVE  \/ \E t \in Task, f \in BOOLEAN : submit_task(t, f)
           \/ \E a \in Attempt : Complete(a)
           \/ \E ts \in SUBSET NonTerminal :
                /\ Cancel(ts) /\ UNCHANGED submitted
                /\ \/ UNCHANGED lifecycle
                   \/ lifecycle' = "wedged"
                   \/ lifecycle' = "cancelled_all" /\ ts = NonTerminal
           \/ \E t \in Task : pause_task(t) \/ resume_task(t)
           \/ /\ UNCHANGED <<snapshot, leases, task_lease, submitted>>
              /\ \/ UNCHANGED lifecycle
                 \/ lifecycle' \in {"running", "stopped"}
                 \/ lifecycle = "cancelled_all"
<1>1. CASE \E t \in Task : cancel_task(t)
  BY <1>1 DEF cancel_task, NonTerminal
<1>2. CASE BeginShutdown
  BY <1>2 DEF BeginShutdown
<1>3. CASE start \/ CloseExecutors \/ (\E b \in BOOLEAN : FinishShutdown(b) \/ set_drain_mode(b))
  BY <1>3 DEF start, CloseExecutors, FinishShutdown, set_drain_mode
<1>4. CASE \E w \in Worker : register_worker(w)
             \/ \E s \in {"UNHEALTHY", "DEREGISTERED"} : SetWorkerState(w, s)
  BY <1>4 DEF register_worker, SetWorkerState
<1>5. CASE \E a \in Attempt : Begin(a) \/ PassGate(a) \/ \E ok \in BOOLEAN : Return(a, ok)
  BY <1>5 DEF Begin, PassGate, Return, Move
<1>6. CASE UNCHANGED vars
  BY <1>6 DEF vars
<1> QED
  BY <1>1, <1>2, <1>3, <1>4, <1>5, <1>6 DEF Next, PoolStep

\* What a submission does to them.
LEMMA SubmitEffect ==
    ASSUME Shape, NEW t \in Task, NEW f \in BOOLEAN, submit_task(t, f)
    PROVE  /\ lifecycle = "running" /\ UNCHANGED lifecycle
           /\ submitted[t] + 1 \in 1..MaxSubmissions
           /\ submitted' = [submitted EXCEPT ![t] = submitted[t] + 1]
           /\ \E s \in {"PENDING", "RUNNING"}, n \in 0..MaxSubmissions : Snap(t, s, n)
           /\ \/ UNCHANGED <<leases, task_lease>>
              \/ acquire_lease(<<t, submitted[t] + 1>>)
<1>1. /\ lifecycle = "running" /\ UNCHANGED lifecycle
      /\ submitted' = [submitted EXCEPT ![t] = submitted[t] + 1]
      /\ submitted[t] < MaxSubmissions
  BY DEF submit_task, _ensure_running, Shape
<1>2. submitted[t] + 1 \in 1..MaxSubmissions /\ submitted'[t] = submitted[t] + 1
  BY <1>1, RuntimeBounds DEF Shape
<1>3. \/ UNCHANGED <<leases, task_lease>> /\ Snap(t, "PENDING", 0)
      \/ /\ acquire_lease(<<t, submitted'[t]>>)
         /\ Snap(t, "PENDING", 0) \/ Snap(t, "RUNNING", submitted'[t])
  BY DEF submit_task
<1>4. 0 \in 0..MaxSubmissions /\ submitted[t] + 1 \in 0..MaxSubmissions
  BY <1>2, RuntimeBounds
<1> QED
  BY <1>1, <1>2, <1>3, <1>4

\* The snapshot a completion leaves is the terminal one it found, or a new one.
LEMMA CompleteEffect ==
    ASSUME Shape, NEW a \in Attempt, Complete(a)
    PROVE  /\ UNCHANGED <<lifecycle, submitted>>
           /\ release_lease(a)
           /\ \/ UNCHANGED snapshot
              \/ /\ ~is_terminal(a[1])
                 /\ \E s \in {"SUCCEEDED", "FAILED"} : Snap(a[1], s, a[2])
  BY DEF Complete, Completed, Snap, Shape, Attempt

\* Writing a snapshot keeps the type of the snapshots.
LEMMA SnapTyped ==
    ASSUME Shape, NEW t \in Task, NEW s \in TaskState, NEW n \in 0..MaxSubmissions, Snap(t, s, n)
    PROVE  snapshot' \in [Task -> [state: TaskState, attempt: 0..MaxSubmissions] \cup {None}]
  BY DEF Shape, Snap

\* The shape of the variables survives every step.
LEMMA ShapeStep == Shape /\ [Next]_vars => Shape'
<1> SUFFICES ASSUME Shape, [Next]_vars PROVE Shape'
  OBVIOUS
<1>1. ASSUME NEW t \in Task, NEW f \in BOOLEAN, submit_task(t, f) PROVE Shape'
  <2>1. submitted' \in [Task -> 0..MaxSubmissions] /\ <<t, submitted[t] + 1>> \in Attempt
    BY <1>1, SubmitEffect DEF Shape, Attempt
  <2>2. snapshot' \in [Task -> [state: TaskState, attempt: 0..MaxSubmissions] \cup {None}]
    <3>1. PICK s \in {"PENDING", "RUNNING"}, n \in 0..MaxSubmissions : Snap(t, s, n)
      BY <1>1, SubmitEffect
    <3> QED
      BY <3>1, SnapTyped DEF TaskState
  <2> QED
    BY <1>1, <2>1, <2>2, SubmitEffect, SMTT(30) DEF Shape, acquire_lease
<1>2. ASSUME NEW a \in Attempt, Complete(a) PROVE Shape'
  <2>1. a[1] \in Task /\ a[2] \in 0..MaxSubmissions
    BY DEF Attempt
  <2>2. snapshot' \in [Task -> [state: TaskState, attempt: 0..MaxSubmissions] \cup {None}]
    <3>1. CASE UNCHANGED snapshot
      BY <3>1 DEF Shape
    <3>2. ASSUME NEW s \in {"SUCCEEDED", "FAILED"}, Snap(a[1], s, a[2])
          PROVE  snapshot' \in [Task -> [state: TaskState, attempt: 0..MaxSubmissions] \cup {None}]
      BY <2>1, <3>2, SnapTyped DEF TaskState, Terminal
    <3> QED
      BY <1>2, <3>1, <3>2, CompleteEffect
  <2> QED
    BY <1>2, <2>1, <2>2, CompleteEffect DEF Shape, release_lease
<1>3. ASSUME NEW ts \in SUBSET NonTerminal, Cancel(ts), UNCHANGED submitted PROVE Shape'
  <2>1. snapshot' \in [Task -> [state: TaskState, attempt: 0..MaxSubmissions] \cup {None}]
    BY <1>3 DEF Shape, Cancel, NonTerminal, TaskState, Terminal
  <2> QED
    BY <1>3, <2>1 DEF Shape, Cancel
<1>4. ASSUME NEW t \in Task, pause_task(t) \/ resume_task(t) PROVE Shape'
  BY <1>4 DEF Shape, pause_task, resume_task, Snap, NonTerminal, TaskState
<1>5. CASE UNCHANGED <<snapshot, leases, task_lease, submitted>>
  BY <1>5 DEF Shape
<1> QED
  BY <1>1, <1>2, <1>3, <1>4, <1>5, StepKinds

\* Once shutdown has cancelled the tasks, no step makes one live again.
LEMMA NoneLiveStep == Shape /\ NoneLive /\ [Next]_vars => NoneLive'
<1> SUFFICES ASSUME Shape, NoneLive, [Next]_vars PROVE NoneLive'
  OBVIOUS
<1>1. ASSUME NEW t \in Task, NEW f \in BOOLEAN, submit_task(t, f) PROVE NoneLive'
  BY <1>1, SubmitEffect DEF NoneLive
<1>2. ASSUME NEW a \in Attempt, Complete(a) PROVE NoneLive'
  <2>1. NonTerminal' \subseteq NonTerminal
    <3>1. CASE UNCHANGED snapshot
      BY <3>1 DEF NonTerminal, is_terminal
    <3>2. ASSUME NEW s \in {"SUCCEEDED", "FAILED"}, Snap(a[1], s, a[2])
          PROVE  NonTerminal' \subseteq NonTerminal
      BY <3>2 DEF NonTerminal, is_terminal, Terminal, Snap, Shape
    <3> QED
      BY <1>2, <3>1, <3>2, CompleteEffect
  <2> QED
    BY <1>2, <2>1, CompleteEffect DEF NoneLive
<1>3. ASSUME NEW ts \in SUBSET NonTerminal, Cancel(ts) PROVE NonTerminal' = NonTerminal \ ts
  <2>1. \A t \in ts : snapshot'[t].state = "CANCELLED"
    BY <1>3 DEF Cancel, NonTerminal, Shape
  <2>2. \A t \in Task \ ts : snapshot'[t] = snapshot[t]
    BY <1>3 DEF Cancel
  <2> QED
    BY <2>1, <2>2 DEF NonTerminal, is_terminal, Terminal
<1>4. ASSUME NEW t \in Task, pause_task(t) \/ resume_task(t) PROVE NoneLive'
  <2>1. t \in NonTerminal /\ UNCHANGED lifecycle
    BY <1>4 DEF pause_task, resume_task
  <2> QED
    BY <2>1 DEF NoneLive
<1>5. CASE UNCHANGED snapshot
  <2>1. NonTerminal' = NonTerminal
    BY <1>5 DEF NonTerminal, is_terminal
  <2>2. CASE UNCHANGED lifecycle \/ lifecycle' \in {"running", "stopped"} \/ lifecycle = "cancelled_all"
    BY <2>1, <2>2 DEF NoneLive
  <2> QED
    BY <1>1, <1>2, <1>3, <1>4, <2>1, <2>2, StepKinds DEF NoneLive
<1> QED
  BY <1>1, <1>2, <1>3, <1>4, <1>5, StepKinds DEF NoneLive

\* The lease index stays current: a submission's lease is the newest of its
\* task, and a release takes the entry away with the lease.
LEMMA LeaseStep == Shape /\ LeasesNumbered /\ [Next]_vars => LeasesNumbered'
<1> SUFFICES ASSUME Shape, LeasesNumbered, [Next]_vars PROVE LeasesNumbered'
  OBVIOUS
<1>1. ASSUME NEW t \in Task, NEW f \in BOOLEAN, submit_task(t, f) PROVE LeasesNumbered'
  <2> DEFINE n == submitted[t] + 1
  <2>1. /\ n \in 1..MaxSubmissions
        /\ submitted' = [submitted EXCEPT ![t] = n]
        /\ UNCHANGED <<leases, task_lease>> \/ acquire_lease(<<t, n>>)
    BY <1>1, SubmitEffect
  <2>2. \A u \in Task : submitted[u] \in Nat /\ submitted'[u] \in Nat /\ submitted[u] <= submitted'[u]
    BY <2>1, RuntimeBounds DEF Shape
  <2>3. \A a \in leases : a[1] \in Task /\ a[2] \in Nat /\ a[2] <= submitted'[a[1]]
    BY <2>2 DEF LeasesNumbered, Shape, Attempt
  <2>4. \A a \in leases : a[1] = t => a[2] < n
    BY <2>2, <2>3 DEF LeasesNumbered
  <2>5. submitted'[t] = n /\ n \in Nat
    BY <2>1 DEF Shape
  <2>6. CASE UNCHANGED <<leases, task_lease>>
    BY <2>3, <2>6 DEF LeasesNumbered
  <2>7. CASE acquire_lease(<<t, n>>)
    <3> HIDE DEF n
    <3>1. leases' = leases \cup {<<t, n>>} /\ task_lease' = [task_lease EXCEPT ![t] = <<t, n>>]
      BY <2>7 DEF acquire_lease
    <3>2. \A a \in leases' : a[2] <= submitted'[a[1]]
      BY <2>3, <2>5, <3>1
    <3>3. \A a \in leases' : a[1] = t => a[2] <= n
      BY <2>3, <2>4, <2>5, <3>1
    <3>4. \A u \in Task \ {t} : \A a \in leases' : a[1] = u => a \in leases
      BY <3>1
    <3>5. task_lease'[t] = <<t, n>> /\ \A u \in Task \ {t} : task_lease'[u] = task_lease[u]
      BY <3>1 DEF Shape
    <3> QED
      BY <3>1, <3>2, <3>3, <3>4, <3>5 DEF LeasesNumbered
  <2> QED
    BY <2>1, <2>6, <2>7
<1>2. ASSUME NEW a \in Attempt, Complete(a) PROVE LeasesNumbered'
  BY <1>2, CompleteEffect DEF release_lease, LeasesNumbered, Shape, Attempt
<1>3. ASSUME NEW ts \in SUBSET NonTerminal, Cancel(ts), UNCHANGED submitted PROVE LeasesNumbered'
  BY <1>3 DEF Cancel, LeasesNumbered
<1>4. CASE UNCHANGED <<leases, task_lease, submitted>>
  BY <1>4 DEF LeasesNumbered
<1>5. ASSUME NEW t \in Task, pause_task(t) \/ resume_task(t)
      PROVE  UNCHANGED <<leases, task_lease, submitted>>
  BY <1>5 DEF pause_task, resume_task
<1> QED
  BY <1>1, <1>2, <1>3, <1>4, <1>5, StepKinds

-----------------------------------------------------------------------------
\* Slots and workers.

AttemptShape ==
    /\ attempt \in [Attempt -> [phase: Phase, worker: Worker \cup {None}, cancelled: BOOLEAN]]
    /\ \A a \in Attempt : a[2] > submitted[a[1]] => attempt[a].phase = "unsubmitted"

WorkerShape ==
    /\ worker_state \in [Worker -> {"AVAILABLE", "BUSY", "UNHEALTHY", "DEREGISTERED", None}]
    /\ active_tasks \in [Worker -> SUBSET Task]

\* There are finitely many attempts and tasks.
LEMMA Finite ==
    /\ \A S \in SUBSET Attempt : IsFiniteSet(S) /\ Cardinality(S) \in Nat
    /\ \A S \in SUBSET Task : IsFiniteSet(S) /\ Cardinality(S) \in Nat
<1>1. IsFiniteSet(1..MaxSubmissions)
  BY FS_Interval, RuntimeBounds
<1>2. IsFiniteSet(Attempt)
  BY <1>1, FS_Product, RuntimeBounds DEF Attempt
<1> QED
  BY <1>2, FS_Subset, FS_CardinalityType, RuntimeBounds

\* A non-empty set of naturals has a least element.
LEMMA LeastNumber ==
    ASSUME NEW S \in SUBSET Nat, S # {}
    PROVE  \E x \in S : \A y \in S : x <= y
<1>1. PICK x \in S : \A y \in S : ~ (<<y, x>> \in OpToRel(<, Nat))
  BY WFMin, NatLessThanWellFounded
<1>2. \A y \in S : ~ (y < x)
  BY <1>1 DEF OpToRel
<1> QED
  BY <1>2

\* When a worker is available, the one that is selected is.
LEMMA SelectedIsAvailable ==
    ASSUME WorkerShape, \E v \in Worker : is_available(v)
    PROVE  select_worker \in Worker /\ is_available(select_worker)
<1> DEFINE load(u) == Cardinality(active_tasks[u])
           avail == {u \in Worker : is_available(u)}
           loads == {load(u) : u \in avail}
<1>1. \A u \in avail : load(u) \in Nat /\ u \in Nat
  BY Finite, RuntimeBounds DEF WorkerShape
<1>2. loads \in SUBSET Nat /\ loads # {}
  BY <1>1
<1>3. PICK k \in loads : \A j \in loads : k <= j
  <2> HIDE DEF loads
  <2> QED
    BY <1>2, LeastNumber
<1> DEFINE low == {u \in avail : load(u) = k}
<1>4. low \in SUBSET Nat /\ low # {}
  BY <1>1
<1>5. PICK w \in low : \A u \in low : w <= u
  <2> HIDE DEF low
  <2> QED
    BY <1>4, LeastNumber
<1>6. \A v \in avail : load(w) < load(v) \/ (load(w) = load(v) /\ w <= v)
  <2> TAKE v \in avail
  <2>1. load(w) = k /\ k <= load(v) /\ k \in Nat /\ load(v) \in Nat
    BY <1>1, <1>2, <1>3
  <2>2. load(v) = k => w <= v
    BY <1>5
  <2> QED
    BY <2>1, <2>2
<1>7. w \in avail
  OBVIOUS
<1>8. select_worker = CHOOSE x \in avail : \A v \in avail :
                         load(x) < load(v) \/ (load(x) = load(v) /\ x <= v)
  BY DEF select_worker
<1>9. select_worker \in avail
  <2> HIDE DEF avail, load
  <2> QED
    BY <1>6, <1>7, <1>8
<1> QED
  BY <1>9

\* What a submission does to slots, workers and attempts.
LEMMA SubmitSlots ==
    ASSUME Shape, WorkerShape, allocated \in 0..MaxSlots,
           NEW t \in Task, NEW f \in BOOLEAN, submit_task(t, f)
    PROVE  /\ allocated' = allocated + 1 /\ allocated' \in 0..MaxSlots
           /\ \E p \in {"rejected", "queued"}, w \in Worker \cup {None} :
                Record(<<t, submitted[t] + 1>>, p, w)
           /\ \/ UNCHANGED <<worker_state, active_tasks>>
              \/ \E w \in Worker : is_available(w) /\ assign_task(w, t)
           /\ UNCHANGED <<draining, tokens, gates, pool_open>>
<1>1. allocated' = allocated + 1 /\ allocated' \in 0..MaxSlots
  BY RuntimeBounds DEF submit_task, allocate, evaluate_admission
<1>2. submitted'[t] = submitted[t] + 1
  BY DEF submit_task, Shape
<1>3. CASE \A v \in Worker : ~is_available(v)
  BY <1>1, <1>2, <1>3 DEF submit_task
<1>4. CASE \E v \in Worker : is_available(v)
  <2>1. select_worker \in Worker /\ is_available(select_worker)
    BY <1>4, SelectedIsAvailable
  <2>2. assign_task(select_worker, t)
        /\ \E p \in {"rejected", "queued"} : Record(<<t, submitted'[t]>>, p, select_worker)
    BY <1>4 DEF submit_task
  <2> QED
    BY <1>1, <1>2, <2>1, <2>2 DEF submit_task
<1> QED
  BY <1>3, <1>4

\* A thread or process moves an attempt on without ending its callback.
MovedOn(a) ==
    /\ attempt[a].phase \in Live
    /\ \E p \in Live \cup {"dropped"} : attempt' = [attempt EXCEPT ![a].phase = p]
    /\ UNCHANGED <<allocated, submitted, worker_state, active_tasks>>

\* What a step does to attempts, slots and workers.
LEMMA SlotKinds ==
    ASSUME [Next]_vars
    PROVE  \/ \E t \in Task, f \in BOOLEAN : submit_task(t, f)
           \/ \E a \in Attempt : Complete(a) \/ MovedOn(a)
           \/ \E ts \in SUBSET NonTerminal : Cancel(ts) /\ UNCHANGED submitted
           \/ \E w \in Worker : /\ \/ register_worker(w)
                                   \/ \E s \in {"UNHEALTHY", "DEREGISTERED"} : SetWorkerState(w, s)
                                /\ UNCHANGED <<attempt, allocated, submitted>>
           \/ UNCHANGED <<attempt, allocated, submitted, worker_state, active_tasks>>
<1>1. CASE \E t \in Task : cancel_task(t)
  BY <1>1 DEF cancel_task, NonTerminal
<1>2. CASE BeginShutdown
  BY <1>2 DEF BeginShutdown
<1>3. CASE start \/ CloseExecutors \/ (\E b \in BOOLEAN : FinishShutdown(b) \/ set_drain_mode(b))
  BY <1>3 DEF start, CloseExecutors, FinishShutdown, set_drain_mode
<1>4. CASE \E w \in Worker : register_worker(w)
             \/ \E s \in {"UNHEALTHY", "DEREGISTERED"} : SetWorkerState(w, s)
  BY <1>4 DEF register_worker, SetWorkerState
<1>5. ASSUME NEW a \in Attempt, Begin(a) \/ PassGate(a) \/ \E ok \in BOOLEAN : Return(a, ok)
      PROVE  MovedOn(a)
  BY <1>5 DEF Begin, PassGate, Return, AfterFunction, Move, MovedOn, Live
<1>6. CASE \E t \in Task : pause_task(t) \/ resume_task(t)
  BY <1>6 DEF pause_task, resume_task
<1>7. CASE UNCHANGED vars
  BY <1>7 DEF vars
<1> QED
  BY <1>1, <1>2, <1>3, <1>4, <1>5, <1>6, <1>7 DEF Next, PoolStep

\* What a cancel does to the attempts: the ones whose slot is given back are
\* the ones that reach "released".
LEMMA CancelAttempts ==
    ASSUME AttemptShape, NEW ts \in SUBSET NonTerminal, Cancel(ts)
    PROVE  /\ attempt' \in [Attempt -> [phase: Phase, worker: Worker \cup {None}, cancelled: BOOLEAN]]
           /\ \A a \in Attempt : attempt[a].phase = "unsubmitted" => attempt'[a].phase = "unsubmitted"
           /\ Refunded(ts) \subseteq Holding /\ Holding' = Holding \ Refunded(ts)
<1> DEFINE ph(a) == IF a \notin Queued(ts) THEN attempt[a].phase
                    ELSE IF a[1] \in Isolated THEN "released" ELSE "dropped"
           ca(a) == attempt[a].cancelled \/ (a[1] \in ts /\ snapshot[a[1]].attempt = a[2])
<1>1. attempt' = [a \in Attempt |-> [attempt[a] EXCEPT !.phase = ph(a), !.cancelled = ca(a)]]
  BY DEF Cancel
<1>2. \A a \in Attempt : ph(a) \in Phase /\ ca(a) \in BOOLEAN
  BY DEF AttemptShape, Phase
<1>3. \A a \in Queued(ts) : a \in Attempt /\ attempt[a].phase = "queued"
  BY DEF Queued
<1>4. \A a \in Attempt : ph(a) = IF a \in Refunded(ts) THEN "released"
                                 ELSE IF a \in Queued(ts) THEN "dropped" ELSE attempt[a].phase
  BY <1>3 DEF Refunded
<1> HIDE DEF ph, ca
<1>5. \A a \in Attempt :
        /\ attempt'[a] \in [phase: Phase, worker: Worker \cup {None}, cancelled: BOOLEAN]
        /\ attempt'[a].phase = ph(a)
  BY <1>1, <1>2 DEF AttemptShape
<1>6. attempt' \in [Attempt -> [phase: Phase, worker: Worker \cup {None}, cancelled: BOOLEAN]]
  BY <1>1, <1>5
<1>7. Refunded(ts) \subseteq Queued(ts)
  BY DEF Refunded
<1>8. \A a \in Attempt : attempt[a].phase = "unsubmitted" => attempt'[a].phase = "unsubmitted"
  BY <1>3, <1>4, <1>5, <1>7
<1>9. Refunded(ts) \subseteq Holding
  BY <1>3, <1>7 DEF Holding
<1>10. Holding' = Holding \ Refunded(ts)
  BY <1>3, <1>4, <1>5, <1>7 DEF Holding
<1> QED
  BY <1>6, <1>8, <1>9, <1>10

\* The attempts keep their types, and numbers not given out are unused.
LEMMA AttemptStep == Shape /\ AttemptShape /\ WorkerShape /\ allocated \in 0..MaxSlots /\ [Next]_vars
                        => AttemptShape'
<1> SUFFICES ASSUME Shape, AttemptShape, WorkerShape, allocated \in 0..MaxSlots, [Next]_vars
             PROVE  AttemptShape'
  OBVIOUS
<1>0. \A a \in Attempt : a[1] \in Task /\ a[2] \in Nat
  BY DEF Attempt
<1>1. ASSUME NEW t \in Task, NEW f \in BOOLEAN, submit_task(t, f) PROVE AttemptShape'
  <2>1. /\ submitted[t] \in Nat /\ <<t, submitted[t] + 1>> \in Attempt
        /\ submitted' = [submitted EXCEPT ![t] = submitted[t] + 1]
    BY <1>1, SubmitEffect, RuntimeBounds DEF Attempt, Shape
  <2>2. PICK p \in {"rejected", "queued"}, w \in Worker \cup {None} : Record(<<t, submitted[t] + 1>>, p, w)
    BY <1>1, SubmitSlots
  <2>3. attempt' \in [Attempt -> [phase: Phase, worker: Worker \cup {None}, cancelled: BOOLEAN]]
        /\ \A a \in Attempt : a # <<t, submitted[t] + 1>> => attempt'[a] = attempt[a]
    BY <2>1, <2>2 DEF Record, AttemptShape, Phase, Live
  <2>4. \A a \in Attempt : a[2] > submitted'[a[1]] =>
            a # <<t, submitted[t] + 1>> /\ a[2] > submitted[a[1]]
    BY <1>0, <2>1, RuntimeBounds DEF Shape
  <2> QED
    BY <2>3, <2>4 DEF AttemptShape
<1>2. ASSUME NEW a \in Attempt, NEW p \in Phase, attempt[a].phase # "unsubmitted",
             attempt' = [attempt EXCEPT ![a].phase = p], UNCHANGED submitted
      PROVE  AttemptShape'
  BY <1>2 DEF AttemptShape
<1>3. ASSUME NEW a \in Attempt, Complete(a) \/ MovedOn(a) PROVE AttemptShape'
  BY <1>2, <1>3 DEF Complete, MovedOn, Phase, Live
<1>4. ASSUME NEW ts \in SUBSET NonTerminal, Cancel(ts), UNCHANGED submitted PROVE AttemptShape'
  BY <1>4, CancelAttempts DEF AttemptShape
<1>5. CASE UNCHANGED <<attempt, submitted>>
  BY <1>5 DEF AttemptShape
<1> QED
  BY <1>1, <1>3, <1>4, <1>5, SlotKinds

\* Slots and the attempts that hold one stay equal in number.
LEMMA SlotStep ==
    ASSUME Shape, AttemptShape, WorkerShape, SlotsAccounted, allocated \in 0..MaxSlots, [Next]_vars
    PROVE  SlotsAccounted' /\ allocated' \in 0..MaxSlots
<1>0. Holding \in SUBSET Attempt /\ IsFiniteSet(Holding) /\ Cardinality(Holding) \in Nat
  BY Finite DEF Holding
<1>1. ASSUME NEW t \in Task, NEW f \in BOOLEAN, submit_task(t, f)
      PROVE  SlotsAccounted' /\ allocated' \in 0..MaxSlots
  <2> DEFINE a == <<t, submitted[t] + 1>>
  <2>1. submitted[t] \in Nat /\ a \in Attempt
    BY <1>1, SubmitEffect, RuntimeBounds DEF Attempt, Shape
  <2>2. attempt[a].phase = "unsubmitted"
    BY <2>1 DEF AttemptShape
  <2>3. PICK p \in {"rejected", "queued"}, w \in Worker \cup {None} : Record(a, p, w)
    BY <1>1, SubmitSlots
  <2> HIDE DEF a
  <2>4. attempt'[a].phase = p /\ \A b \in Attempt : b # a => attempt'[b] = attempt[b]
    BY <2>1, <2>3 DEF Record, AttemptShape
  <2>5. Holding' = Holding \cup {a} /\ a \notin Holding
    BY <2>1, <2>2, <2>4 DEF Holding
  <2>6. Cardinality(Holding') = Cardinality(Holding) + 1
    BY <1>0, <2>5, FS_AddElement
  <2>7. allocated' = allocated + 1 /\ allocated' \in 0..MaxSlots
    BY <1>1, SubmitSlots
  <2> QED
    BY <2>6, <2>7 DEF SlotsAccounted
<1>2. ASSUME NEW a \in Attempt, Complete(a) PROVE SlotsAccounted' /\ allocated' \in 0..MaxSlots
  <2>1. attempt[a].phase \in {"returned", "raised"} /\ attempt' = [attempt EXCEPT ![a].phase = "released"]
    BY <1>2 DEF Complete
  <2>2. attempt'[a].phase = "released" /\ \A b \in Attempt : b # a => attempt'[b] = attempt[b]
    BY <2>1 DEF AttemptShape
  <2>3. a \in Holding /\ Holding' = Holding \ {a}
    BY <2>1, <2>2 DEF Holding
  <2>4. Cardinality(Holding') = Cardinality(Holding) - 1
    BY <1>0, <2>3, FS_RemoveElement
  <2>5. Holding # {} /\ Cardinality(Holding) # 0
    BY <1>0, <2>3, FS_EmptySet
  <2>6. allocated' = allocated - 1
    BY <1>2, <2>5 DEF Complete, release, SlotsAccounted
  <2> QED
    BY <1>0, <2>4, <2>5, <2>6, RuntimeBounds DEF SlotsAccounted
<1>3. ASSUME NEW a \in Attempt, MovedOn(a) PROVE SlotsAccounted' /\ allocated' \in 0..MaxSlots
  <2>1. PICK p \in Live \cup {"dropped"} : attempt' = [attempt EXCEPT ![a].phase = p]
    BY <1>3 DEF MovedOn
  <2>2. attempt'[a].phase = p /\ \A b \in Attempt : b # a => attempt'[b] = attempt[b]
    BY <2>1 DEF AttemptShape
  <2>3. Holding' = Holding
    BY <1>3, <2>2 DEF Holding, MovedOn, Live
  <2> QED
    BY <1>3, <2>3 DEF SlotsAccounted, MovedOn
<1>4. ASSUME NEW ts \in SUBSET NonTerminal, Cancel(ts)
      PROVE  SlotsAccounted' /\ allocated' \in 0..MaxSlots
  <2>1. Refunded(ts) \subseteq Holding /\ Holding' = Holding \ Refunded(ts)
    BY <1>4, CancelAttempts
  <2>2. Cardinality(Refunded(ts)) \in Nat /\ Cardinality(Refunded(ts)) <= Cardinality(Holding)
    BY <1>0, <2>1, FS_Subset, FS_CardinalityType
  <2>3. Holding \cap Refunded(ts) = Refunded(ts)
    BY <2>1
  <2>4. Cardinality(Holding') = Cardinality(Holding) - Cardinality(Refunded(ts))
    <3>1. Cardinality(Holding \ Refunded(ts)) = Cardinality(Holding) - Cardinality(Holding \cap Refunded(ts))
      BY <1>0, FS_Difference
    <3> QED
      BY <2>1, <2>3, <3>1
  <2>5. allocated' = IF allocated < Cardinality(Refunded(ts)) THEN 0
                     ELSE allocated - Cardinality(Refunded(ts))
    BY <1>4 DEF Cancel
  <2> QED
    BY <1>0, <2>2, <2>4, <2>5, RuntimeBounds DEF SlotsAccounted
<1>5. CASE UNCHANGED <<attempt, allocated>>
  BY <1>5 DEF SlotsAccounted, Holding
<1> QED
  BY <1>1, <1>2, <1>3, <1>4, <1>5, SlotKinds

\* A worker has a slot left when a task is taken from it, and none when the
\* last one is given out.
LEMMA WorkerStep ==
    ASSUME Shape, WorkerShape, BusyMeansFull, allocated \in 0..MaxSlots, [Next]_vars
    PROVE  WorkerShape' /\ BusyMeansFull'
<1> USE RuntimeBounds
<1>0. \A w \in Worker : /\ active_tasks[w] \in SUBSET Task /\ IsFiniteSet(active_tasks[w])
                        /\ Cardinality(active_tasks[w]) \in Nat
  BY Finite DEF WorkerShape
<1>1. ASSUME NEW S \in SUBSET Task, NEW R \in SUBSET S
      PROVE  Cardinality(R) \in Nat /\ Cardinality(S) \in Nat /\ Cardinality(R) <= Cardinality(S)
  BY Finite, FS_Subset
<1>2. ASSUME NEW w \in Worker, NEW t \in Task, is_available(w), assign_task(w, t)
      PROVE  WorkerShape' /\ BusyMeansFull'
  <2>1. Cardinality(active_tasks[w] \cup {t}) \in Nat
        /\ Cardinality(active_tasks[w] \cup {t}) <= Cardinality(active_tasks[w]) + 1
    <3>1. /\ IsFiniteSet(active_tasks[w] \cup {t})
          /\ Cardinality(active_tasks[w] \cup {t}) =
                IF t \in active_tasks[w] THEN Cardinality(active_tasks[w]) ELSE Cardinality(active_tasks[w]) + 1
      BY <1>0, FS_AddElement
    <3>2. active_tasks[w] \cup {t} \in SUBSET Task
      BY <1>0
    <3>3. Cardinality(active_tasks[w] \cup {t}) \in Nat /\ Cardinality(active_tasks[w]) \in Nat
      BY <1>0, <3>2, Finite
    <3> QED
      BY <3>1, <3>3
  <2>2. active_tasks'[w] = active_tasks[w] \cup {t} /\ WorkerShape'
        /\ \A v \in Worker : v # w => active_tasks'[v] = active_tasks[v] /\ worker_state'[v] = worker_state[v]
    BY <1>2 DEF assign_task, WorkerShape
  <2>3. Cardinality(active_tasks'[w]) <= WorkerSlots
    <3>1. ~(Cardinality(active_tasks[w]) >= WorkerSlots)
      BY <1>2 DEF is_available, Full
    <3>2. Cardinality(active_tasks[w]) \in Nat
      BY <1>0
    <3>3. Cardinality(active_tasks[w] \cup {t}) <= WorkerSlots
      BY <2>1, <3>1, <3>2
    <3> QED
      BY <2>2, <3>3
  <2>4. worker_state'[w] = IF Full(active_tasks'[w]) THEN "BUSY" ELSE "AVAILABLE"
    BY <1>2 DEF assign_task, WorkerShape, is_available
  <2> QED
    BY <2>2, <2>3, <2>4 DEF BusyMeansFull
<1>3. ASSUME NEW back, active_tasks' = [w \in Worker |-> active_tasks[w] \ back[w]],
             WorkerShape',
             \A w \in Worker : worker_state'[w] =
                IF back[w] # {} /\ worker_state[w] = "BUSY" /\ ~Full(active_tasks'[w])
                THEN "AVAILABLE" ELSE worker_state[w]
      PROVE  BusyMeansFull'
  <2> SUFFICES ASSUME NEW w \in Worker
               PROVE  /\ Cardinality(active_tasks'[w]) <= WorkerSlots
                      /\ worker_state'[w] = "BUSY" => Full(active_tasks'[w])
                      /\ worker_state'[w] = "AVAILABLE" => ~Full(active_tasks'[w])
    BY DEF BusyMeansFull
  <2>1. active_tasks'[w] \in SUBSET active_tasks[w] /\ (back[w] = {} => active_tasks'[w] = active_tasks[w])
    BY <1>3
  <2>2. /\ Cardinality(active_tasks'[w]) \in Nat /\ Cardinality(active_tasks[w]) \in Nat
        /\ Cardinality(active_tasks'[w]) <= Cardinality(active_tasks[w])
    BY <1>0, <1>1, <2>1
  <2>3. /\ Cardinality(active_tasks[w]) <= WorkerSlots
        /\ worker_state[w] = "BUSY" => Full(active_tasks[w])
        /\ worker_state[w] = "AVAILABLE" => ~Full(active_tasks[w])
    BY DEF BusyMeansFull
  <2>4. worker_state'[w] = "AVAILABLE" => ~Full(active_tasks'[w])
    BY <1>3, <2>2, <2>3 DEF Full
  <2>5. worker_state'[w] = "BUSY" => Full(active_tasks'[w])
    BY <1>3, <2>1, <2>3
  <2> QED
    BY <2>2, <2>3, <2>4, <2>5
<1>4. ASSUME NEW t \in Task, NEW f \in BOOLEAN, submit_task(t, f) PROVE WorkerShape' /\ BusyMeansFull'
  <2>1. CASE UNCHANGED <<worker_state, active_tasks>>
    BY <2>1 DEF WorkerShape, BusyMeansFull
  <2> QED
    BY <1>2, <1>4, <2>1, SubmitSlots
<1>5. ASSUME NEW a \in Attempt, Complete(a) PROVE WorkerShape' /\ BusyMeansFull'
  <2> DEFINE v == attempt[a].worker
             back == [w \in Worker |-> IF w = v THEN {a[1]} ELSE {}]
  <2>1. unassign_task(v, a[1])
    BY <1>5 DEF Complete
  <2>2. WorkerShape'
    BY <2>1 DEF unassign_task, WorkerShape
  <2>3. active_tasks' = [w \in Worker |-> active_tasks[w] \ back[w]]
    BY <2>1 DEF unassign_task, WorkerShape
  <2>4. \A w \in Worker : worker_state'[w] =
                IF back[w] # {} /\ worker_state[w] = "BUSY" /\ ~Full(active_tasks'[w])
                THEN "AVAILABLE" ELSE worker_state[w]
    BY <2>1 DEF unassign_task, WorkerShape
  <2> HIDE DEF back
  <2> QED
    BY <1>3, <2>2, <2>3, <2>4
<1>6. ASSUME NEW ts \in SUBSET NonTerminal, Cancel(ts) PROVE WorkerShape' /\ BusyMeansFull'
  <2> DEFINE taken(w) == {a[1] : a \in {b \in Refunded(ts) : attempt[b].worker = w}}
             back == [w \in Worker |-> taken(w)]
  <2>1. active_tasks' = [w \in Worker |-> active_tasks[w] \ taken(w)]
        /\ worker_state' = [w \in Worker |->
               IF taken(w) # {} /\ worker_state[w] = "BUSY" /\ ~Full(active_tasks'[w])
               THEN "AVAILABLE" ELSE worker_state[w]]
    BY <1>6 DEF Cancel
  <2> HIDE DEF taken
  <2>2. WorkerShape'
    BY <2>1 DEF WorkerShape
  <2>3. active_tasks' = [w \in Worker |-> active_tasks[w] \ back[w]]
    BY <2>1
  <2>4. \A w \in Worker : worker_state'[w] =
                IF back[w] # {} /\ worker_state[w] = "BUSY" /\ ~Full(active_tasks'[w])
                THEN "AVAILABLE" ELSE worker_state[w]
    BY <2>1
  <2> HIDE DEF back
  <2> QED
    BY <1>3, <2>2, <2>3, <2>4
<1>7. ASSUME NEW w \in Worker,
             register_worker(w) \/ \E s \in {"UNHEALTHY", "DEREGISTERED"} : SetWorkerState(w, s)
      PROVE  WorkerShape' /\ BusyMeansFull'
  <2>1. Cardinality({}) = 0
    BY FS_EmptySet
  <2>2. CASE register_worker(w)
    BY <2>1, <2>2 DEF register_worker, WorkerShape, BusyMeansFull, Full
  <2>3. ASSUME NEW s \in {"UNHEALTHY", "DEREGISTERED"}, SetWorkerState(w, s)
        PROVE  WorkerShape' /\ BusyMeansFull'
    BY <2>3 DEF SetWorkerState, WorkerShape, BusyMeansFull
  <2> QED
    BY <1>7, <2>2, <2>3
<1>8. CASE UNCHANGED <<worker_state, active_tasks>>
  BY <1>8 DEF WorkerShape, BusyMeansFull
<1> QED
  BY <1>4, <1>5, <1>6, <1>7, <1>8, SlotKinds DEF MovedOn

\* The rest of the types.
Flags ==
    /\ lifecycle \in {"stopped", "running", "cancelled_all", "closing", "wedged"}
    /\ draining \in BOOLEAN
    /\ tokens \subseteq Task \ Isolated
    /\ gates \subseteq Pausable
    /\ pool_open \in BOOLEAN

\* Flags, tokens and gates keep their types in every step.
LEMMA FlagStep == Flags /\ [Next]_vars => Flags'
<1> SUFFICES ASSUME Flags, [Next]_vars PROVE Flags'
  OBVIOUS
<1>1. \A ts \in SUBSET Task : HasToken(ts) \subseteq Task \ Isolated
  BY DEF HasToken
<1>2. NonTerminal \in SUBSET Task /\ Task \in SUBSET Task
  BY DEF NonTerminal
<1>3. ASSUME NEW ts \in SUBSET NonTerminal, Cancel(ts) PROVE tokens' \subseteq Task \ Isolated
  BY <1>1, <1>2, <1>3 DEF Cancel, Flags
<1>4. CASE BeginShutdown
  <2>1. \E ts \in SUBSET NonTerminal : Cancel(ts)
    BY <1>4 DEF BeginShutdown
  <2> QED
    BY <1>3, <1>4, <2>1 DEF BeginShutdown, Flags
<1>5. ASSUME NEW t \in Task, cancel_task(t) PROVE Flags'
  BY <1>3, <1>5 DEF cancel_task, Flags
<1>6. CASE start \/ CloseExecutors \/ (\E b \in BOOLEAN : FinishShutdown(b) \/ set_drain_mode(b))
  BY <1>1, <1>2, <1>6 DEF start, CloseExecutors, FinishShutdown, set_drain_mode, Flags, GatesAfterShutdown
<1>7. ASSUME NEW t \in Task, pause_task(t) \/ resume_task(t) PROVE Flags'
  BY <1>7 DEF pause_task, resume_task, Flags
<1>8. CASE UNCHANGED <<lifecycle, draining, tokens, gates, pool_open>>
  BY <1>8 DEF Flags
<1>9. ASSUME \/ \E t \in Task, f \in BOOLEAN : submit_task(t, f)
             \/ \E a \in Attempt : PoolStep(a)
             \/ \E w \in Worker : register_worker(w)
                  \/ \E s \in {"UNHEALTHY", "DEREGISTERED"} : SetWorkerState(w, s)
             \/ UNCHANGED vars
      PROVE  UNCHANGED <<lifecycle, draining, tokens, gates, pool_open>>
  BY <1>9 DEF submit_task, PoolStep, Begin, PassGate, Return, Complete, Move, register_worker,
              SetWorkerState, vars
<1> QED
  BY <1>4, <1>5, <1>6, <1>7, <1>8, <1>9 DEF Next

\* The inductive invariant of slots and workers.
SlotInv ==
    /\ Shape /\ AttemptShape /\ WorkerShape /\ Flags
    /\ allocated \in 0..MaxSlots
    /\ SlotsAccounted /\ BusyMeansFull

\* It holds always.
LEMMA SlotsAlways == Spec => []SlotInv
<1>1. Init => SlotInv
  <2> SUFFICES ASSUME Init PROVE SlotInv
    OBVIOUS
  <2>1. Cardinality({}) = 0
    BY FS_EmptySet
  <2>2. Shape /\ WorkerShape /\ Flags /\ allocated \in 0..MaxSlots
    <3>1. Shape
      BY RuntimeBounds DEF Init, Shape
    <3>2. worker_state \in [Worker -> {"AVAILABLE", "BUSY", "UNHEALTHY", "DEREGISTERED", None}]
      BY DEF Init
    <3>3. active_tasks \in [Worker -> SUBSET Task]
      BY DEF Init
    <3>4. allocated \in 0..MaxSlots
      BY RuntimeBounds DEF Init
    <3>5. Flags
      BY DEF Init, Flags
    <3> QED
      BY <3>1, <3>2, <3>3, <3>4, <3>5 DEF WorkerShape
  <2>3. AttemptShape
    BY DEF Init, AttemptShape, Phase
  <2>4. Holding = {}
    BY DEF Init, Holding
  <2>5. SlotsAccounted
    BY <2>1, <2>4 DEF Init, SlotsAccounted
  <2>6. BusyMeansFull
    <3>1. \A w \in Worker : active_tasks[w] = {} /\ worker_state[w] = None
      BY DEF Init
    <3> QED
      BY <2>1, <3>1, RuntimeBounds DEF BusyMeansFull, Full
  <2> QED
    BY <2>2, <2>3, <2>5, <2>6 DEF SlotInv
<1>2. SlotInv /\ [Next]_vars => SlotInv'
  BY ShapeStep, AttemptStep, SlotStep, WorkerStep, FlagStep DEF SlotInv
<1> QED
  BY <1>1, <1>2, PTL DEF Spec

\* Tasks, leases, workers and tokens keep their types, and what is allocated
\* never exceeds max_worker_slots.
THEOREM RuntimeTypeCorrect == Spec => []TypeOK
<1>1. SlotInv => TypeOK
  BY DEF SlotInv, Shape, AttemptShape, WorkerShape, Flags, TypeOK
<1> QED
  BY <1>1, SlotsAlways, PTL

\* Every allocated slot belongs to one attempt that has not completed, for any
\* number of tasks, resubmissions, cancels and shutdowns.
THEOREM EverySlotIsAccounted == Spec => []SlotsAccounted
<1>1. SlotInv => SlotsAccounted
  BY DEF SlotInv
<1> QED
  BY <1>1, SlotsAlways, PTL

\* No worker gets more tasks than it has slots, and none stays BUSY with a
\* slot free.
THEOREM BusyWorkersAreFull == Spec => []BusyMeansFull
<1>1. SlotInv => BusyMeansFull
  BY DEF SlotInv
<1> QED
  BY <1>1, SlotsAlways, PTL

\* All of it holds always.
LEMMA RuntimeAlways == Spec => [](Shape /\ NoneLive /\ LeasesNumbered)
<1>1. Init => Shape /\ NoneLive /\ LeasesNumbered
  BY RuntimeBounds DEF Init, Shape, NoneLive, LeasesNumbered
<1> QED
  BY <1>1, ShapeStep, NoneLiveStep, LeaseStep, PTL DEF Spec

\* get_lease_for_task answers with the newest lease of the task, and never
\* with a released one, for any number of tasks, workers and resubmissions.
THEOREM LeaseIndexIsCurrent == Spec => []LeaseIndexCurrent
<1>1. LeasesNumbered => LeaseIndexCurrent
  BY DEF LeasesNumbered, LeaseIndexCurrent
<1> QED
  BY <1>1, RuntimeAlways, PTL

\* When shutdown waits for the pools no task is live, so no operation holds
\* the authority's lock waiting for the executor's.
THEOREM ShutdownWaitsAlone == Spec => []ClosingHasNoLiveTask
<1>1. NoneLive => ClosingHasNoLiveTask
  BY DEF NoneLive, ClosingHasNoLiveTask
<1> QED
  BY <1>1, RuntimeAlways, PTL

\* A terminal snapshot stays until the task is submitted again.
THEOREM TerminalStays == Spec => TerminalIsFinal
<1> DEFINE Final == \A t \in Task : snapshot[t] # None /\ is_terminal(t) =>
                      snapshot'[t] = snapshot[t] \/ submitted'[t] = submitted[t] + 1
<1>1. Shape /\ [Next]_vars => Final
  <2> SUFFICES ASSUME Shape, [Next]_vars, NEW t \in Task, snapshot[t] # None, is_terminal(t)
               PROVE  snapshot'[t] = snapshot[t] \/ submitted'[t] = submitted[t] + 1
    OBVIOUS
  <2>1. ASSUME NEW u \in Task, NEW f \in BOOLEAN, submit_task(u, f)
        PROVE  snapshot'[t] = snapshot[t] \/ submitted'[t] = submitted[t] + 1
    BY <2>1, SubmitEffect DEF Shape, Snap
  <2>2. ASSUME NEW a \in Attempt, Complete(a) PROVE snapshot'[t] = snapshot[t]
    BY <2>2, CompleteEffect DEF Shape, Snap
  <2>3. ASSUME NEW ts \in SUBSET NonTerminal, Cancel(ts) PROVE snapshot'[t] = snapshot[t]
    BY <2>3 DEF Cancel, NonTerminal
  <2>4. ASSUME NEW u \in Task, pause_task(u) \/ resume_task(u) PROVE snapshot'[t] = snapshot[t]
    BY <2>4 DEF pause_task, resume_task, Snap, NonTerminal, Shape
  <2> QED
    BY <2>1, <2>2, <2>3, <2>4, StepKinds
<1> QED
  BY <1>1, RuntimeAlways, PTL DEF Spec, TerminalIsFinal
=============================================================================
