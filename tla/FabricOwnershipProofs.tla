----------------------- MODULE FabricOwnershipProofs -----------------------
(***************************************************************************)
(* Safety of the fabric's ownership, for every number of workers, of their *)
(* dispatches, sites, failovers, generations, failed saves and crashes.    *)
(*                                                                         *)
(* The store, memory and the ledger are ordered by generation (Ledger);    *)
(* whoever runs under the generation in memory runs for its owner          *)
(* (Holders); a dispatch past a barrier has not been late yet (Lateness).  *)
(***************************************************************************)
EXTENDS FabricOwnership, TLAPS

Ledger ==
    /\ disk.gen <= rec.gen /\ rec.gen <= current_epoch[Key]
    /\ granted <= disk.gen /\ ended <= disk.gen

Holders ==
    \A d \in Dispatches : dispatch[d].pc # "idle" =>
        /\ dispatch[d].gen <= granted
        /\ dispatch[d].gen = rec.gen => rec.worker = dispatch[d].worker

Lateness ==
    \A d \in Dispatches :
        /\ late[d] <= 1
        /\ late[d] = 1 => dispatch[d].pc = "idle" \/ Gone(dispatch[d].gen)
        /\ dispatch[d].pc = "checked" => late[d] = 0

IInv == TypeOK /\ Ledger /\ EndedStaysEnded /\ Holders /\ OneHolderPerGeneration /\ Lateness

\* What the record constructors return (Renewed, Fresh, Closed, Aged).
LEMMA RenewedFacts ==
    ASSUME NEW r \in Records
    PROVE  /\ Renewed(r) \in Records
           /\ Renewed(r).gen = r.gen /\ Renewed(r).state = r.state
           /\ Renewed(r).worker = r.worker /\ Renewed(r).ctx = r.ctx
  BY OwnershipAssumption DEF Renewed, Records

\* A fresh record is ACTIVE, the worker's, and one past the ledger.
LEMMA FreshFacts ==
    ASSUME FencingTypeOK, NEW w \in Workers, NEW c \in Contexts \cup {None}
    PROVE  /\ Fresh(w, c) \in Records
           /\ Fresh(w, c).gen = current_epoch[Key] + 1 /\ Fresh(w, c).state = "ACTIVE"
           /\ Fresh(w, c).worker = w /\ Fresh(w, c).ctx = c
           /\ current_epoch[Key] \in Nat
  BY OwnershipAssumption DEF Fresh, Records, RecordStates, FencingTypeOK

\* Closing a record changes its state and deadline only.
LEMMA ClosedFacts ==
    ASSUME NEW r \in Records, NEW s \in RecordStates
    PROVE  /\ Closed(r, s) \in Records
           /\ Closed(r, s).gen = r.gen /\ Closed(r, s).state = s
           /\ Closed(r, s).worker = r.worker /\ Closed(r, s).ctx = r.ctx
  <1>1. Closed(r, s) = [[r EXCEPT !.state = s] EXCEPT !.left = 0] BY DEF Closed
  <1>2. [r EXCEPT !.state = s] \in Records BY DEF Records
  <1>3. \A q \in Records : [q EXCEPT !.left = 0] \in Records
    BY OwnershipAssumption DEF Records
  <1> QED BY <1>1, <1>2, <1>3 DEF Records

\* Time changes a record's deadline only.
LEMMA AgedFacts ==
    ASSUME NEW r \in Records
    PROVE  /\ Aged(r) \in Records
           /\ Aged(r).gen = r.gen /\ Aged(r).state = r.state /\ Aged(r).worker = r.worker
  BY OwnershipAssumption DEF Aged, Records

\* Issuing a token moves the key's epoch up by one.
LEMMA IssueFacts ==
    ASSUME FencingTypeOK, issue_token(Key)
    PROVE  FencingTypeOK' /\ current_epoch'[Key] = current_epoch[Key] + 1
  BY OwnershipAssumption DEF FencingTypeOK, issue_token

\* A failed save leaves the store as it was or with the new record.
LEMMA NotSavedFacts ==
    ASSUME TypeOK, NEW r \in Records, NotSaved(r)
    PROVE  disk' \in {disk, r} /\ faults' \in 0..MaxFaults
  BY OwnershipAssumption DEF TypeOK, NotSaved, Fault

\* The two outcomes of a call that returns r to dispatch d, for worker w.
LEMMA ReturnedFacts ==
    ASSUME TypeOK, NEW d \in Dispatches, NEW w \in Workers, NEW r \in Records,
           Returned(d, w, r)
    PROVE  /\ rec' = r /\ disk' \in {disk, r} /\ faults' \in 0..MaxFaults
           /\ \/ /\ disk' = r
                 /\ granted' = AtLeast(granted, r.gen)
                 /\ dispatch' = [dispatch EXCEPT ![d] =
                        [pc |-> "running", gen |-> r.gen, worker |-> w, ctx |-> r.ctx]]
                 /\ late' = [late EXCEPT ![d] = 0]
              \/ UNCHANGED <<granted, dispatch, late>>
           /\ granted' \in Nat /\ dispatch' \in [Dispatches -> DispatchLocals]
           /\ late' \in [Dispatches -> 0..2]
  <1>1. CASE Saved(r) /\ Grant(d, w, r)
    <2>1. [pc |-> "running", gen |-> r.gen, worker |-> w, ctx |-> r.ctx] \in DispatchLocals
      BY DEF DispatchLocals, Records
    <2>2. granted' \in Nat BY <1>1 DEF Grant, AtLeast, TypeOK, Records
    <2>3. dispatch' \in [Dispatches -> DispatchLocals] BY <1>1, <2>1 DEF Grant, TypeOK
    <2>4. late' \in [Dispatches -> 0..2] BY <1>1 DEF Grant, TypeOK
    <2> QED BY <1>1, <2>2, <2>3, <2>4 DEF Returned, Saved, Grant, TypeOK
  <1>2. CASE NotSaved(r) /\ UNCHANGED <<granted, dispatch, late>>
    BY <1>2, NotSavedFacts DEF Returned, TypeOK
  <1> QED BY <1>1, <1>2 DEF Returned

\* A call that returns a record of the same generation and owner, or of a new
\* generation, keeps the invariant.
LEMMA ReturnedStep ==
    ASSUME IInv, NEW d \in Dispatches, NEW w \in Workers, NEW r \in Records,
           Returned(d, w, r), dispatch[d].pc = "idle", r.worker = w, r.state = "ACTIVE",
           \/ r.gen = rec.gen /\ rec.worker = w /\ rec.state = "ACTIVE" /\ UNCHANGED current_epoch
           \/ r.gen = current_epoch[Key] + 1 /\ issue_token(Key),
           UNCHANGED ended, TypeOK'
    PROVE  IInv'
  <1>1. /\ rec' = r /\ disk' \in {disk, r}
        /\ \/ /\ disk' = r
              /\ granted' = AtLeast(granted, r.gen)
              /\ dispatch' = [dispatch EXCEPT ![d] =
                        [pc |-> "running", gen |-> r.gen, worker |-> w, ctx |-> r.ctx]]
              /\ late' = [late EXCEPT ![d] = 0]
           \/ UNCHANGED <<granted, dispatch, late>>
    BY ReturnedFacts DEF IInv
  <1>2. /\ rec.gen \in Nat /\ disk.gen \in Nat /\ granted \in Nat /\ ended \in Nat /\ r.gen \in Nat
        /\ current_epoch[Key] \in Nat
    BY OwnershipAssumption DEF IInv, TypeOK, Records, FencingTypeOK
  <1>3. \/ r.gen = rec.gen /\ current_epoch'[Key] = current_epoch[Key]
        \/ r.gen = current_epoch[Key] + 1 /\ current_epoch'[Key] = current_epoch[Key] + 1
    BY IssueFacts DEF IInv, TypeOK
  <1>4. Ledger'
    BY <1>1, <1>2, <1>3 DEF IInv, Ledger, AtLeast
  <1>5. EndedStaysEnded'
    BY <1>1, <1>2 DEF IInv, Ledger, EndedStaysEnded
  <1>6. \A e \in Dispatches :
            dispatch[e].pc # "idle" /\ dispatch[e].gen = r.gen => dispatch[e].worker = w
    BY <1>2 DEF IInv, Ledger, Holders, TypeOK, DispatchLocals
  <1>6a. \A e \in Dispatches : dispatch[e].gen \in Nat BY DEF IInv, TypeOK, DispatchLocals
  <1>7. CASE UNCHANGED <<granted, dispatch, late>>
    <2>1. Holders' BY <1>1, <1>6, <1>7 DEF IInv, Holders
    <2>2. OneHolderPerGeneration' BY <1>7 DEF IInv, OneHolderPerGeneration
    <2>3. Lateness' BY <1>7 DEF IInv, Lateness, Gone
    <2> QED BY <1>4, <1>5, <2>1, <2>2, <2>3 DEF IInv
  <1>8. CASE /\ granted' = AtLeast(granted, r.gen)
             /\ dispatch' = [dispatch EXCEPT ![d] =
                        [pc |-> "running", gen |-> r.gen, worker |-> w, ctx |-> r.ctx]]
             /\ late' = [late EXCEPT ![d] = 0]
    <2>1. dispatch'[d] = [pc |-> "running", gen |-> r.gen, worker |-> w, ctx |-> r.ctx] /\ late'[d] = 0
      BY <1>8 DEF IInv, TypeOK
    <2>2. \A e \in Dispatches : e # d => dispatch'[e] = dispatch[e] /\ late'[e] = late[e]
      BY <1>8 DEF IInv, TypeOK
    <2>3. granted <= granted' /\ r.gen <= granted' /\ granted' \in Nat
      BY <1>8, <1>2 DEF AtLeast
    <2>4. Holders'
      <3> SUFFICES ASSUME NEW e \in Dispatches, dispatch'[e].pc # "idle"
                   PROVE  /\ dispatch'[e].gen <= granted'
                          /\ dispatch'[e].gen = rec'.gen => rec'.worker = dispatch'[e].worker
        BY DEF Holders
      <3>1. CASE e = d BY <3>1, <2>1, <2>3, <1>1
      <3>2. CASE e # d
        <4>1. /\ dispatch'[e] = dispatch[e] /\ dispatch[e].gen <= granted
              /\ dispatch[e].gen = r.gen => dispatch[e].worker = w
          BY <3>2, <2>2, <1>6 DEF IInv, Holders
        <4> QED BY <4>1, <1>1, <1>2, <1>6a, <2>3
      <3> QED BY <3>1, <3>2
    <2>5. OneHolderPerGeneration'
      BY <2>1, <2>2, <1>6 DEF IInv, OneHolderPerGeneration
    <2>6. Lateness'
      <3>1. \A e \in Dispatches : Gone(dispatch[e].gen) =>
                dispatch[e].gen < granted' \/ dispatch[e].gen <= ended'
        BY <2>3, <1>2, <1>6a DEF Gone
      <3>2. ASSUME NEW e \in Dispatches, e # d
            PROVE  /\ late'[e] <= 1
                   /\ late'[e] = 1 => \/ dispatch'[e].pc = "idle"
                                      \/ dispatch'[e].gen < granted' \/ dispatch'[e].gen <= ended'
                   /\ dispatch'[e].pc = "checked" => late'[e] = 0
        <4>1. dispatch'[e] = dispatch[e] /\ late'[e] = late[e] BY <3>2, <2>2
        <4> QED BY <3>1, <4>1 DEF IInv, Lateness
      <3> QED BY <2>1, <3>2 DEF Lateness, Gone
    <2> QED BY <1>4, <1>5, <2>4, <2>5, <2>6 DEF IInv
  <1> QED BY <1>1, <1>7, <1>8

\* A step that grants nothing and changes no generation of a running dispatch:
\* it keeps the invariant when the records it leaves are in order.
LEMMA QuietStep ==
    ASSUME IInv, TypeOK', Ledger', EndedStaysEnded',
           granted' = granted, ended <= ended',
           \A d \in Dispatches : late'[d] \in {0, late[d]},
           \A d \in Dispatches :
               \/ dispatch'[d].pc = "idle"
               \/ dispatch'[d] = dispatch[d],
           rec'.gen # rec.gen => rec'.gen > granted,
           rec'.gen = rec.gen => rec'.worker = rec.worker
    PROVE  IInv'
  <1>1. \A d \in Dispatches : dispatch[d].gen \in Nat BY DEF IInv, TypeOK, DispatchLocals
  <1>2. granted \in Nat /\ ended \in Nat /\ ended' \in Nat /\ rec.gen \in Nat /\ rec'.gen \in Nat
    BY DEF IInv, TypeOK, Records
  <1>3. Holders' BY <1>1, <1>2 DEF IInv, Holders
  <1>4. OneHolderPerGeneration' BY DEF IInv, OneHolderPerGeneration
  <1>5. \A d \in Dispatches : Gone(dispatch[d].gen) =>
            dispatch[d].gen < granted' \/ dispatch[d].gen <= ended'
    BY <1>1, <1>2 DEF Gone
  <1>6. Lateness' BY <1>5 DEF IInv, Lateness, Gone
  <1> QED BY <1>3, <1>4, <1>6 DEF IInv

\* Steps of sites and of failovers that touch neither records nor workers.
LEMMA AsideStep ==
    ASSUME IInv, TypeOK', UNCHANGED <<current_epoch, rec, disk, dispatch, history>>
    PROVE  IInv'
  BY DEF IInv, Ledger, EndedStaysEnded, Holders, OneHolderPerGeneration, Lateness, Gone, history

\* acquire keeps the invariant, for a dispatch that is not running.
LEMMA AcquireStep ==
    ASSUME IInv, NEW d \in Dispatches, NEW w \in Workers, NEW c \in Contexts,
           dispatch[d].pc = "idle", acquire(d, w, c),
           failover' \in [Failovers -> FailoverLocals]
    PROVE  IInv'
  <1> DEFINE r == IF Valid(rec) THEN Renewed(rec) ELSE Fresh(w, c)
  <1>1. rec \in Records /\ FencingTypeOK BY DEF IInv, TypeOK
  <1>2. r \in Records /\ Returned(d, w, r) /\ r.worker = w /\ r.state = "ACTIVE"
        /\ \/ r.gen = rec.gen /\ rec.worker = w /\ rec.state = "ACTIVE" /\ UNCHANGED current_epoch
           \/ r.gen = current_epoch[Key] + 1 /\ issue_token(Key)
    <2>1. CASE Valid(rec)
      BY <1>1, <2>1, RenewedFacts DEF acquire, SameClaimant, Valid
    <2>2. CASE ~Valid(rec)
      BY <1>1, <2>2, FreshFacts DEF acquire
    <2> QED BY <2>1, <2>2
  <1> HIDE DEF r
  <1>3. UNCHANGED <<siteVars, ended>> BY DEF acquire
  <1>4. FencingTypeOK' BY <1>1, <1>2, IssueFacts DEF FencingTypeOK
  <1>5. TypeOK'
    BY <1>2, <1>3, <1>4, ReturnedFacts DEF IInv, TypeOK, siteVars
  <1> QED BY <1>2, <1>3, <1>5, ReturnedStep

\* Acquire, by a dispatch.
LEMMA AcquireKeeps ==
    ASSUME IInv, NEW d \in Dispatches, NEW c \in Contexts, Acquire(d, c)
    PROVE  IInv'
  BY AcquireStep, OwnershipAssumption DEF Acquire, IInv, TypeOK

\* Place, by a failover.
LEMMA PlaceKeeps ==
    ASSUME IInv, NEW f \in Failovers, Place(f)
    PROVE  IInv'
  <1>1. failover' \in [Failovers -> FailoverLocals]
    BY DEF Place, IInv, TypeOK, FailoverLocals, NoFailover
  <1>2. CASE UNCHANGED <<current_epoch, siteVars, rec, disk, dispatch, history, faults>>
    <2>1. TypeOK' BY <1>1, <1>2 DEF IInv, TypeOK, FencingTypeOK, siteVars, history
    <2> QED BY <1>2, <2>1, AsideStep
  <1>3. CASE \E d \in Dispatches, c \in Contexts :
                dispatch[d].pc = "idle" /\ \E w \in WorkersOf[d] : acquire(d, w, c)
    BY <1>1, <1>3, AcquireStep, OwnershipAssumption
  <1> QED BY <1>2, <1>3 DEF Place

\* A barrier: only the current owner passes it, and it was never late.
LEMMA CheckKeeps ==
    ASSUME IInv, NEW d \in Dispatches, Check(d)
    PROVE  IInv'
  <1>1. /\ rec \in Records /\ Renewed(rec) \in Records
        /\ rec' = Renewed(rec) /\ rec'.gen = rec.gen /\ rec'.state = rec.state
        /\ rec'.worker = rec.worker
    BY RenewedFacts DEF IInv, TypeOK, Check
  <1>2. disk' \in {disk, rec'} /\ faults' \in 0..MaxFaults
    BY <1>1, NotSavedFacts DEF Check, Saved, IInv, TypeOK
  <1>3. /\ dispatch' \in [Dispatches -> DispatchLocals] /\ late' \in [Dispatches -> 0..2]
        /\ \A e \in Dispatches : late'[e] \in {0, late[e]}
        /\ UNCHANGED <<current_epoch, siteVars, failover, granted, ended>>
    <2>1. CASE Over(d)
      BY <2>1 DEF Check, Over, IInv, TypeOK, DispatchLocals, NoDispatch
    <2>2. CASE dispatch' = [dispatch EXCEPT ![d].pc = "checked"] /\ UNCHANGED late
      BY <2>2 DEF Check, IInv, TypeOK, DispatchLocals
    <2> QED BY <2>1, <2>2 DEF Check
  <1>4. TypeOK' BY <1>1, <1>2, <1>3 DEF IInv, TypeOK, FencingTypeOK, siteVars
  <1>5. /\ rec.gen \in Nat /\ disk.gen \in Nat /\ granted \in Nat /\ ended \in Nat
        /\ current_epoch[Key] \in Nat /\ dispatch[d].gen \in Nat
    BY OwnershipAssumption DEF IInv, TypeOK, Records, FencingTypeOK, DispatchLocals
  <1>6. Ledger' BY <1>1, <1>2, <1>3, <1>5 DEF IInv, Ledger
  <1>7. EndedStaysEnded' BY <1>1, <1>2, <1>3 DEF IInv, EndedStaysEnded
  <1>8. rec.gen = dispatch[d].gen /\ rec.state = "ACTIVE" /\ dispatch[d].pc = "running"
    BY DEF Check, Renewable, Holds, Valid
  <1>9. late[d] = 0
    <2>1. ~Gone(dispatch[d].gen)
      BY <1>5, <1>8 DEF IInv, Ledger, EndedStaysEnded, Gone
    <2>2. late[d] # 1 /\ late[d] \in 0..2 /\ late[d] <= 1
      BY <1>8, <2>1 DEF IInv, TypeOK, Lateness
    <2> QED BY <2>2
  <1>10. \A e \in Dispatches :
            \/ dispatch'[e].pc = "idle"
            \/ /\ dispatch'[e].gen = dispatch[e].gen /\ dispatch'[e].worker = dispatch[e].worker
               /\ dispatch[e].pc # "idle" /\ (e # d => dispatch'[e].pc = dispatch[e].pc)
    <2>1. CASE dispatch' = [dispatch EXCEPT ![d].pc = "checked"]
      BY <1>8, <2>1 DEF IInv, TypeOK, DispatchLocals
    <2>2. CASE dispatch' = [dispatch EXCEPT ![d] = NoDispatch]
      BY <2>2 DEF IInv, TypeOK, DispatchLocals, NoDispatch
    <2> QED BY <2>1, <2>2 DEF Check, Over
  <1>11. Holders' BY <1>1, <1>3, <1>10 DEF IInv, Holders
  <1>12. OneHolderPerGeneration' BY <1>10 DEF IInv, OneHolderPerGeneration
  <1>13. Lateness' BY <1>3, <1>9, <1>10 DEF IInv, Lateness, Gone
  <1> QED BY <1>4, <1>6, <1>7, <1>11, <1>12, <1>13 DEF IInv

\* The commit after a barrier is the only one that can be late.
LEMMA CommitKeeps ==
    ASSUME IInv, NEW d \in Dispatches, Commit(d)
    PROVE  IInv'
  <1>1. late[d] = 0 /\ dispatch[d].pc = "checked" BY DEF Commit, IInv, Lateness
  <1>2. /\ dispatch'[d].pc = "running" /\ dispatch'[d].gen = dispatch[d].gen
        /\ dispatch'[d].worker = dispatch[d].worker
        /\ \A e \in Dispatches : e # d => dispatch'[e] = dispatch[e]
        /\ dispatch' \in [Dispatches -> DispatchLocals]
    BY DEF Commit, IInv, TypeOK, DispatchLocals
  <1>3. /\ late'[d] = IF Gone(dispatch[d].gen) THEN 1 ELSE 0
        /\ \A e \in Dispatches : e # d => late'[e] = late[e]
        /\ late' \in [Dispatches -> 0..2]
    BY <1>1 DEF Commit, IInv, TypeOK
  <1>4. UNCHANGED <<current_epoch, siteVars, rec, disk, failover, granted, ended, faults>>
    BY DEF Commit
  <1>5. TypeOK' BY <1>2, <1>3, <1>4 DEF IInv, TypeOK, FencingTypeOK, siteVars
  <1>6. Ledger' /\ EndedStaysEnded' BY <1>4 DEF IInv, Ledger, EndedStaysEnded
  <1>7. Holders' BY <1>1, <1>2, <1>4 DEF IInv, Holders
  <1>8. OneHolderPerGeneration' BY <1>1, <1>2 DEF IInv, OneHolderPerGeneration
  <1>9. Lateness' BY <1>2, <1>3, <1>4 DEF IInv, Lateness, Gone
  <1> QED BY <1>5, <1>6, <1>7, <1>8, <1>9 DEF IInv

\* A dispatch that stops holds nothing.
LEMMA StopKeeps ==
    ASSUME IInv, NEW d \in Dispatches, Stop(d)
    PROVE  IInv'
  <1>1. /\ dispatch' \in [Dispatches -> DispatchLocals]
        /\ \A e \in Dispatches : dispatch'[e].pc = "idle" \/ dispatch'[e] = dispatch[e]
        /\ late' \in [Dispatches -> 0..2]
        /\ \A e \in Dispatches : late'[e] \in {0, late[e]}
    BY DEF Stop, Over, IInv, TypeOK, DispatchLocals, NoDispatch
  <1>2. UNCHANGED <<current_epoch, siteVars, rec, disk, failover, granted, ended, faults>>
    BY DEF Stop
  <1>3. TypeOK' BY <1>1, <1>2 DEF IInv, TypeOK, FencingTypeOK, siteVars
  <1>4. Ledger' /\ EndedStaysEnded' BY <1>2 DEF IInv, Ledger, EndedStaysEnded
  <1>5. ended <= ended' /\ granted' = granted /\ rec' = rec
    BY <1>2 DEF IInv, TypeOK
  <1> QED BY <1>1, <1>3, <1>4, <1>5, QuietStep

\* Closing the record in memory, saved or not: release and force_fence.
LEMMA ClosingStep ==
    ASSUME IInv, NEW s \in RecordStates \ {"ACTIVE"}, rec' = Closed(rec, s),
           \/ Saved(rec') /\ ended' = AtLeast(ended, rec.gen)
           \/ NotSaved(rec') /\ UNCHANGED ended,
           UNCHANGED <<current_epoch, siteVars, granted>>,
           late' \in [Dispatches -> 0..2], \A e \in Dispatches : late'[e] \in {0, late[e]},
           dispatch' \in [Dispatches -> DispatchLocals],
           \A e \in Dispatches : dispatch'[e].pc = "idle" \/ dispatch'[e] = dispatch[e],
           failover' \in [Failovers -> FailoverLocals]
    PROVE  IInv'
  <1>1. rec \in Records /\ s \in RecordStates /\ s # "ACTIVE" BY DEF IInv, TypeOK
  <1>2. rec' \in Records /\ rec'.gen = rec.gen /\ rec'.state # "ACTIVE" /\ rec'.worker = rec.worker
    BY <1>1, ClosedFacts
  <1>3. /\ rec.gen \in Nat /\ disk.gen \in Nat /\ granted \in Nat /\ ended \in Nat
        /\ current_epoch[Key] \in Nat
    BY OwnershipAssumption DEF IInv, TypeOK, Records, FencingTypeOK
  <1>4. CASE Saved(rec') /\ ended' = AtLeast(ended, rec.gen)
    <2>1. disk' = rec' /\ faults' = faults BY <1>4 DEF Saved
    <2>2. ended' \in Nat /\ ended <= ended' /\ ended' <= rec.gen
      BY <1>3, <1>4 DEF AtLeast, IInv, Ledger
    <2>3. TypeOK' BY <1>2, <2>1, <2>2 DEF IInv, TypeOK, FencingTypeOK, siteVars
    <2>4. Ledger' BY <1>2, <1>3, <2>1, <2>2 DEF IInv, Ledger
    <2>5. EndedStaysEnded' BY <1>2, <2>1 DEF EndedStaysEnded
    <2> QED BY <1>2, <2>2, <2>3, <2>4, <2>5, QuietStep
  <1>5. CASE NotSaved(rec') /\ UNCHANGED ended
    <2>1. disk' \in {disk, rec'} /\ faults' \in 0..MaxFaults
      BY <1>2, <1>5, NotSavedFacts DEF IInv
    <2>2. TypeOK' BY <1>2, <1>5, <2>1 DEF IInv, TypeOK, FencingTypeOK, siteVars
    <2>3. Ledger' BY <1>2, <1>3, <1>5, <2>1 DEF IInv, Ledger
    <2>4. EndedStaysEnded' BY <1>2, <1>5, <2>1 DEF IInv, EndedStaysEnded
    <2>5. ended <= ended' BY <1>3, <1>5
    <2> QED BY <1>2, <2>2, <2>3, <2>4, <2>5, QuietStep
  <1> QED BY <1>4, <1>5

\* Release, by the owner.
LEMMA ReleaseKeeps ==
    ASSUME IInv, NEW d \in Dispatches, Release(d)
    PROVE  IInv'
  <1>1. /\ dispatch' \in [Dispatches -> DispatchLocals]
        /\ \A e \in Dispatches : dispatch'[e].pc = "idle" \/ dispatch'[e] = dispatch[e]
        /\ late' \in [Dispatches -> 0..2]
        /\ \A e \in Dispatches : late'[e] \in {0, late[e]}
    BY DEF Release, Over, IInv, TypeOK, DispatchLocals, NoDispatch
  <1>2. "RELEASED" \in RecordStates \ {"ACTIVE"} /\ rec \in Records
    BY DEF RecordStates, IInv, TypeOK
  <1>3. rec' = Closed(rec, "RELEASED") /\ rec'.gen = rec.gen BY <1>2, ClosedFacts DEF Release
  <1>4. \/ Saved(rec') /\ ended' = AtLeast(ended, rec.gen)
        \/ NotSaved(rec') /\ UNCHANGED ended
    BY <1>3 DEF Release
  <1>5. UNCHANGED <<current_epoch, siteVars, granted, failover>> BY DEF Release
  <1>6. failover' \in [Failovers -> FailoverLocals] BY <1>5 DEF IInv, TypeOK
  <1> QED BY <1>1, <1>2, <1>3, <1>4, <1>5, <1>6, ClosingStep

\* Fence, by a failover.
LEMMA FenceKeeps ==
    ASSUME IInv, NEW f \in Failovers, Fence(f)
    PROVE  IInv'
  <1>1. failover' \in [Failovers -> FailoverLocals]
    BY DEF Fence, IInv, TypeOK, FailoverLocals, NoFailover
  <1>2. UNCHANGED <<current_epoch, siteVars, dispatch, granted, late>> BY DEF Fence
  <1>3. CASE UNCHANGED <<rec, disk, ended, faults>>
    <2>1. TypeOK' BY <1>1, <1>2, <1>3 DEF IInv, TypeOK, FencingTypeOK, siteVars
    <2> QED BY <1>2, <1>3, <2>1, AsideStep DEF history
  <1>4. CASE rec.state = "ACTIVE" /\ rec' = Closed(rec, "FENCED")
    <2>1. "FENCED" \in RecordStates \ {"ACTIVE"} /\ rec \in Records
      BY DEF RecordStates, IInv, TypeOK
    <2>2. rec'.gen = rec.gen BY <1>4, <2>1, ClosedFacts
    <2>3. \/ Saved(rec') /\ ended' = AtLeast(ended, rec.gen)
          \/ NotSaved(rec') /\ UNCHANGED ended
      BY <1>4, <2>2 DEF Fence
    <2>4. /\ dispatch' \in [Dispatches -> DispatchLocals] /\ late' \in [Dispatches -> 0..2]
          /\ \A e \in Dispatches : dispatch'[e] = dispatch[e] /\ late'[e] = late[e]
      BY <1>2 DEF IInv, TypeOK
    <2> QED BY <1>1, <1>2, <1>4, <2>1, <2>3, <2>4, ClosingStep
  <1> QED BY <1>3, <1>4 DEF Fence

\* Transfer: its three outcomes leave the old record, the old or the new one in
\* the store, and only the last one returns.
LEMMA TransferKeeps ==
    ASSUME IInv, NEW d \in Dispatches, NEW e \in Dispatches, NEW w \in Workers, Transfer(d, e, w)
    PROVE  IInv'
  <1> DEFINE old == Closed(rec, "TRANSFERRED")
             new == Fresh(w, rec.ctx)
  <1>1. rec \in Records /\ FencingTypeOK /\ rec.ctx \in Contexts \cup {None}
    BY DEF IInv, TypeOK, Records
  <1>2. /\ old \in Records /\ old.gen = rec.gen /\ old.state # "ACTIVE"
        /\ new \in Records /\ new.gen = current_epoch[Key] + 1 /\ new.state = "ACTIVE"
        /\ new.worker = w
    BY <1>1, ClosedFacts, FreshFacts DEF RecordStates
  <1>3. /\ dispatch[e].pc = "idle" /\ rec.state = "ACTIVE"
        /\ issue_token(Key) /\ UNCHANGED <<siteVars, failover>>
        /\ \/ NotSaved(old) /\ UNCHANGED <<rec, dispatch, history>>
           \/ rec' = new /\ Fault /\ disk' \in {old, new} /\ UNCHANGED <<dispatch, history>>
           \/ rec' = new /\ Saved(new) /\ Grant(e, w, new) /\ ended' = AtLeast(ended, old.gen)
    BY DEF Transfer, Valid
  <1> HIDE DEF old, new
  <1>4. FencingTypeOK' /\ current_epoch'[Key] = current_epoch[Key] + 1
    BY <1>1, <1>3, IssueFacts
  <1>5. /\ rec.gen \in Nat /\ disk.gen \in Nat /\ granted \in Nat /\ ended \in Nat
        /\ current_epoch[Key] \in Nat
    BY OwnershipAssumption DEF IInv, TypeOK, Records, FencingTypeOK
  <1>6. \A u \in Dispatches : dispatch[u].gen \in Nat BY DEF IInv, TypeOK, DispatchLocals
  <1>7. CASE NotSaved(old) /\ UNCHANGED <<rec, dispatch, history>>
    <2>1. disk' \in {disk, old} /\ faults' \in 0..MaxFaults
      BY <1>2, <1>7, NotSavedFacts DEF IInv
    <2>2. TypeOK' BY <1>2, <1>3, <1>4, <1>7, <2>1 DEF IInv, TypeOK, siteVars, history
    <2>3. Ledger' BY <1>2, <1>4, <1>5, <1>7, <2>1 DEF IInv, Ledger, history
    <2>4. EndedStaysEnded' BY <1>2, <1>7, <2>1 DEF IInv, EndedStaysEnded, history
    <2>5. granted' = granted /\ ended <= ended' /\ late' = late /\ rec' = rec /\ dispatch' = dispatch
      BY <1>5, <1>7 DEF history
    <2> QED BY <2>2, <2>3, <2>4, <2>5, QuietStep
  <1>8. CASE rec' = new /\ Fault /\ disk' \in {old, new} /\ UNCHANGED <<dispatch, history>>
    <2>1. faults' \in 0..MaxFaults
      BY <1>8, OwnershipAssumption DEF Fault, IInv, TypeOK
    <2>2. TypeOK' BY <1>2, <1>3, <1>4, <1>8, <2>1 DEF IInv, TypeOK, siteVars, history
    <2>3. Ledger' BY <1>2, <1>4, <1>5, <1>8 DEF IInv, Ledger, history
    <2>4. EndedStaysEnded' BY <1>2, <1>5, <1>8 DEF IInv, EndedStaysEnded, Ledger, history
    <2>5. granted' = granted /\ ended <= ended' /\ late' = late /\ dispatch' = dispatch
      BY <1>5, <1>8 DEF history
    <2>6. rec'.gen # rec.gen /\ rec'.gen > granted
      BY <1>2, <1>5, <1>8 DEF IInv, Ledger
    <2> QED BY <2>2, <2>3, <2>4, <2>5, <2>6, QuietStep
  <1>9. CASE rec' = new /\ Saved(new) /\ Grant(e, w, new) /\ ended' = AtLeast(ended, old.gen)
    <2> DEFINE running == [pc |-> "running", gen |-> new.gen, worker |-> w, ctx |-> new.ctx]
    <2>1. disk' = new /\ faults' = faults BY <1>9 DEF Saved
    <2>2. /\ granted' = new.gen /\ ended' \in Nat /\ ended <= ended' /\ ended' <= rec.gen
      BY <1>2, <1>5, <1>9 DEF Grant, AtLeast, IInv, Ledger
    <2>3. running \in DispatchLocals BY <1>2 DEF DispatchLocals, Records
    <2>4. /\ dispatch' \in [Dispatches -> DispatchLocals] /\ dispatch'[e] = running
          /\ \A u \in Dispatches : u # e => dispatch'[u] = dispatch[u]
      BY <1>9, <2>3 DEF Grant, IInv, TypeOK
    <2>5. /\ late' \in [Dispatches -> 0..2] /\ late'[e] = 0
          /\ \A u \in Dispatches : u # e => late'[u] = late[u]
      BY <1>9 DEF Grant, IInv, TypeOK
    <2>6. TypeOK'
      BY <1>2, <1>3, <1>4, <1>5, <1>9, <2>1, <2>2, <2>4, <2>5 DEF IInv, TypeOK, siteVars
    <2>7. Ledger' BY <1>2, <1>4, <1>5, <1>9, <2>1, <2>2 DEF IInv, Ledger
    <2>8. EndedStaysEnded' BY <1>2, <1>5, <1>9, <2>1, <2>2 DEF IInv, EndedStaysEnded, Ledger
    <2>9. \A u \in Dispatches : dispatch[u].pc # "idle" => dispatch[u].gen < new.gen
      BY <1>2, <1>5, <1>6 DEF IInv, Ledger, Holders
    <2>10. Holders'
      BY <1>2, <1>5, <1>6, <1>9, <2>2, <2>4, <2>9 DEF Holders
    <2>11. OneHolderPerGeneration'
      BY <1>2, <1>5, <1>6, <2>4, <2>9 DEF IInv, OneHolderPerGeneration
    <2>12. \A u \in Dispatches : dispatch[u].pc # "idle" => dispatch[u].gen < granted'
      BY <2>2, <2>9
    <2>13. Lateness' BY <2>4, <2>5, <2>12 DEF IInv, Lateness, Gone
    <2> QED BY <2>6, <2>7, <2>8, <2>10, <2>11, <2>13 DEF IInv
  <1> QED BY <1>3, <1>7, <1>8, <1>9

\* The steps of a failover that only read, and those of the sites.
LEMMA AsideKeeps ==
    ASSUME IInv, SiteStep \/ \E f \in Failovers : Look(f) \/ Judge(f)
    PROVE  IInv'
  <1>1. UNCHANGED <<current_epoch, rec, disk, dispatch, history, faults>>
    BY DEF SiteStep, Register, VerifyIdentity, ElevateToTrusted, Revoke, BindTenant, SetSite,
           Heartbeat, GrowStale, ForgetLiveness, SetLive, Look, Judge
  <1>2. CASE \E f \in Failovers : Look(f) \/ Judge(f)
    <2>1. PICK f \in Failovers : Look(f) \/ Judge(f) BY <1>2
    <2>2. rec.worker \in Workers \cup {None} BY DEF IInv, TypeOK, Records
    <2>3. failover' \in [Failovers -> FailoverLocals] /\ UNCHANGED siteVars
      BY <2>1, <2>2 DEF Look, Judge, IInv, TypeOK, FailoverLocals, NoFailover
    <2>4. TypeOK' BY <1>1, <2>3 DEF IInv, TypeOK, FencingTypeOK, siteVars, history
    <2> QED BY <1>1, <2>4, AsideStep
  <1>3. CASE SiteStep
    <2>1. failover' = failover
      BY <1>3 DEF SiteStep, Register, VerifyIdentity, ElevateToTrusted, Revoke, BindTenant, SetSite,
             Heartbeat, GrowStale, ForgetLiveness, SetLive
    <2>2. PICK s \in Sites :
              \/ \E trust \in TrustStates, tenant \in Tenants \cup {None} : SetSite(s, trust, tenant)
              \/ \E view \in {None, "fresh", "stale"} : SetLive(s, view)
      BY <1>3 DEF SiteStep, Register, VerifyIdentity, ElevateToTrusted, Revoke, BindTenant,
             Heartbeat, GrowStale, ForgetLiveness, TrustStates, IInv, TypeOK
    <2>3. /\ site' \in [Sites -> [trust : TrustStates, tenant : Tenants \cup {None}]]
          /\ live' \in [Sites -> {None, "fresh", "stale"}] /\ admin' \in 0..MaxAdmin
      <3>1. ASSUME NEW trust \in TrustStates, NEW tenant \in Tenants \cup {None},
                   SetSite(s, trust, tenant)
            PROVE  <2>3
        <4>1. [trust |-> trust, tenant |-> tenant]
                  \in [trust : TrustStates, tenant : Tenants \cup {None}] OBVIOUS
        <4>2. site' \in [Sites -> [trust : TrustStates, tenant : Tenants \cup {None}]]
          BY <3>1, <4>1 DEF SetSite, IInv, TypeOK
        <4> QED BY <3>1, <4>2, OwnershipAssumption DEF SetSite, IInv, TypeOK
      <3>2. ASSUME NEW view \in {None, "fresh", "stale"}, SetLive(s, view)
            PROVE  <2>3
        BY <3>2 DEF SetLive, IInv, TypeOK
      <3> QED BY <2>2, <3>1, <3>2
    <2>4. TypeOK' BY <1>1, <2>1, <2>3 DEF IInv, TypeOK, FencingTypeOK, history
    <2> QED BY <1>1, <2>4, AsideStep
  <1> QED BY <1>2, <1>3

\* Time.
LEMMA TickKeeps == ASSUME IInv, Tick PROVE IInv'
  <1>1. rec \in Records /\ disk \in Records BY DEF IInv, TypeOK
  <1>2. /\ rec' \in Records /\ rec'.gen = rec.gen /\ rec'.state = rec.state
        /\ rec'.worker = rec.worker
        /\ disk' \in Records /\ disk'.gen = disk.gen /\ disk'.state = disk.state
    BY <1>1, AgedFacts DEF Tick
  <1>3. UNCHANGED <<current_epoch, siteVars, dispatch, failover, history, faults>> BY DEF Tick
  <1>4. TypeOK' BY <1>2, <1>3 DEF IInv, TypeOK, FencingTypeOK, siteVars, history
  <1>5. Ledger' BY <1>2, <1>3 DEF IInv, Ledger, history
  <1>6. EndedStaysEnded' BY <1>2, <1>3 DEF IInv, EndedStaysEnded, history
  <1>7. granted' = granted /\ ended <= ended' /\ late' = late /\ dispatch' = dispatch
    BY <1>3 DEF history, IInv, TypeOK
  <1> QED BY <1>2, <1>4, <1>5, <1>6, <1>7, QuietStep

\* A restart from the store.
LEMMA CrashKeeps == ASSUME IInv, Crash PROVE IInv'
  <1>1. /\ rec' = disk /\ disk' = disk /\ faults' \in 0..MaxFaults
        /\ UNCHANGED <<current_epoch, site, admin, granted, ended>>
    BY OwnershipAssumption DEF Crash, Fault, IInv, TypeOK
  <1>2. /\ dispatch' \in [Dispatches -> DispatchLocals] /\ \A d \in Dispatches : dispatch'[d].pc = "idle"
        /\ late' \in [Dispatches -> 0..2] /\ \A d \in Dispatches : late'[d] = 0
        /\ live' \in [Sites -> {None, "fresh", "stale"}]
        /\ failover' \in [Failovers -> FailoverLocals]
    BY DEF Crash, DispatchLocals, NoDispatch, FailoverLocals, NoFailover
  <1>3. TypeOK' BY <1>1, <1>2 DEF IInv, TypeOK, FencingTypeOK
  <1>4. disk.gen \in Nat /\ rec.gen \in Nat /\ current_epoch[Key] \in Nat
    BY OwnershipAssumption DEF IInv, TypeOK, Records, FencingTypeOK
  <1>5. Ledger' BY <1>1, <1>4 DEF IInv, Ledger
  <1>6. EndedStaysEnded' BY <1>1 DEF IInv, EndedStaysEnded
  <1>7. Holders' /\ OneHolderPerGeneration' BY <1>2 DEF Holders, OneHolderPerGeneration
  <1>8. Lateness' BY <1>2 DEF Lateness
  <1> QED BY <1>3, <1>5, <1>6, <1>7, <1>8 DEF IInv

\* The initial state.
LEMMA InitHolds == Init => IInv
  <1> SUFFICES ASSUME Init PROVE IInv OBVIOUS
  <1>1. NoRecord \in Records BY OwnershipAssumption DEF NoRecord, Records, RecordStates
  <1>2. FencingTypeOK BY DEF Init, FencingInit, FencingTypeOK
  <1>3. /\ dispatch \in [Dispatches -> DispatchLocals] /\ failover \in [Failovers -> FailoverLocals]
        /\ late \in [Dispatches -> 0..2]
    BY DEF Init, DispatchLocals, NoDispatch, FailoverLocals, NoFailover
  <1>4. /\ site \in [Sites -> [trust : TrustStates, tenant : Tenants \cup {None}]]
        /\ live \in [Sites -> {None, "fresh", "stale"}]
    BY DEF Init, TrustStates, Tenants
  <1>5. TypeOK BY <1>1, <1>2, <1>3, <1>4, OwnershipAssumption DEF Init, TypeOK
  <1>6. Ledger BY OwnershipAssumption DEF Init, NoRecord, Ledger, FencingInit
  <1>7. EndedStaysEnded BY DEF Init, NoRecord, EndedStaysEnded, None
  <1>8. Holders /\ OneHolderPerGeneration
    BY DEF Init, NoDispatch, Holders, OneHolderPerGeneration
  <1>9. Lateness BY DEF Init, NoDispatch, Lateness
  <1> QED BY <1>5, <1>6, <1>7, <1>8, <1>9 DEF IInv

\* The inductive invariant holds in every state: store, memory and ledger in
\* order, one worker per generation, and no dispatch late twice.
THEOREM OwnershipInvariant == Spec => []IInv
  <1>1. Init => IInv BY InitHolds
  <1>2. IInv /\ [Next]_vars => IInv'
    <2> SUFFICES ASSUME IInv, [Next]_vars PROVE IInv' OBVIOUS
    <2>1. ASSUME NEW d \in Dispatches, NEW c \in Contexts, Acquire(d, c) PROVE IInv'
      BY <2>1, AcquireKeeps
    <2>2. ASSUME NEW d \in Dispatches, Check(d) PROVE IInv' BY <2>2, CheckKeeps
    <2>3. ASSUME NEW d \in Dispatches, Commit(d) PROVE IInv' BY <2>3, CommitKeeps
    <2>4. ASSUME NEW d \in Dispatches, Stop(d) PROVE IInv' BY <2>4, StopKeeps
    <2>5. ASSUME NEW d \in Dispatches, Release(d) PROVE IInv' BY <2>5, ReleaseKeeps
    <2>6. ASSUME NEW d \in Dispatches, NEW e \in Dispatches, NEW w \in Workers,
                 Transfer(d, e, w) PROVE IInv'
      BY <2>6, TransferKeeps
    <2>7. ASSUME NEW f \in Failovers, Fence(f) PROVE IInv' BY <2>7, FenceKeeps
    <2>8. ASSUME NEW f \in Failovers, Place(f) PROVE IInv' BY <2>8, PlaceKeeps
    <2>9. ASSUME SiteStep \/ \E f \in Failovers : Look(f) \/ Judge(f) PROVE IInv'
      BY <2>9, AsideKeeps
    <2>10. CASE Tick BY <2>10, TickKeeps
    <2>11. CASE Crash BY <2>11, CrashKeeps
    <2>12. CASE UNCHANGED vars
      <3>1. TypeOK' BY <2>12 DEF vars, IInv, TypeOK, FencingTypeOK, siteVars, history
      <3> QED BY <2>12, <3>1, AsideStep DEF vars
    <2> QED BY <2>1, <2>2, <2>3, <2>4, <2>5, <2>6, <2>7, <2>8, <2>9, <2>10, <2>11, <2>12
            DEF Next
  <1> QED BY <1>1, <1>2, PTL DEF Spec

\* Type correctness of the ownership model.
THEOREM OwnershipTypeCorrect == Spec => []TypeOK
  <1>1. IInv => TypeOK BY DEF IInv
  <1> QED BY <1>1, OwnershipInvariant, PTL

\* Running dispatches of two workers never share a generation: acquire, transfer,
\* failover and restart hand each generation to one worker.
THEOREM GenerationsAreExclusive == Spec => []OneHolderPerGeneration
  <1>1. IInv => OneHolderPerGeneration BY DEF IInv
  <1> QED BY <1>1, OwnershipInvariant, PTL

\* A restart never goes back behind a generation that acquire or transfer
\* returned, whatever saves failed.
THEOREM GrantsAreDurable == Spec => []GrantIsDurable
  <1>1. IInv => GrantIsDurable BY DEF IInv, Ledger, GrantIsDurable
  <1> QED BY <1>1, OwnershipInvariant, PTL

\* A generation ended by a returned release, transfer or force_fence is never
\* ACTIVE again, across restarts.
THEOREM EndedGenerationsStayEnded == Spec => []EndedStaysEnded
  <1>1. IInv => EndedStaysEnded BY DEF IInv
  <1> QED BY <1>1, OwnershipInvariant, PTL

\* A superseded or fenced owner commits at most the batch that had passed its
\* barrier.
THEOREM StaleOwnersStop == Spec => []StaleOwnerStops
  <1>1. IInv => StaleOwnerStops BY DEF IInv, Lateness, StaleOwnerStops
  <1> QED BY <1>1, OwnershipInvariant, PTL
=============================================================================
