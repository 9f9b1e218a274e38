-------------------------- MODULE FabricOwnership --------------------------
(***************************************************************************)
(* Distributed execution ownership of the fabric and the failover that     *)
(* takes it away: akaalEngine/fabric/ownership/manager.py,                 *)
(* failover/coordinator.py, execution_site/registry.py,                    *)
(* site_coordination/coordinator.py and the part of placement/execution.py *)
(* that acquires and renews, for one ownership key.                        *)
(*                                                                         *)
(* The manager decides on the record it keeps in memory, writes memory     *)
(* first and the durable store after it; generations come from the fencing *)
(* ledger of the Durability authority. A data_transport dispatch acquires  *)
(* in the name of its worker id, renews at every barrier of the transport, *)
(* and commits. Nothing keeps two dispatches from naming one worker id:    *)
(* acquire is a re-entry for the second, under the same generation. A      *)
(* failover thread runs attempt_failover, whose calls take the manager's   *)
(* lock one at a time.                                                     *)
(*                                                                         *)
(* A lease id is made with its generation, so the generation stands for    *)
(* both. Wall-clock expiry is the number of ticks a record has left, in    *)
(* memory and on disk alike. Evidence, telemetry, topology and residency   *)
(* checks only ever stop a dispatch, which it may do at any time here.     *)
(***************************************************************************)
EXTENDS FencingTokens, FiniteSets

CONSTANTS Key,        \* the ownership key: tenant, migration and plan
          Sites,
          Workers,    \* worker ids; one of two sites would be two of them
          SiteOf,     \* the site of a worker id
          Dispatches,
          WorkersOf,  \* the worker ids a dispatch may claim for
          Contexts,   \* execution ids (with plan and seal) a claim may carry
          Failovers,  \* threads in attempt_failover
          Ttl,        \* ticks a lease lasts
          MaxFaults,  \* bound: failed saves and crashes
          MaxAdmin    \* bound: changes of a site's trust or tenant

ASSUME OwnershipAssumption ==
    /\ Key \in Resource
    /\ SiteOf \in [Workers -> Sites]
    /\ WorkersOf \in [Dispatches -> SUBSET Workers]
    /\ Ttl \in Nat \ {0}
    /\ MaxFaults \in Nat /\ MaxAdmin \in Nat

VARIABLES site,      \* SiteRegistry: trust state and tenant binding, durable
          live,      \* SiteCoordinator: the last heartbeat, in memory only
          rec,       \* OwnershipManager._records[key]
          disk,      \* the persisted OwnershipRecord
          dispatch,  \* the dispatches and the lease each of them was given
          failover,  \* the failover threads and the owner each of them read
          granted,   \* history: the highest generation returned to a caller
          ended,     \* history: the highest generation a returned call ended
          late,      \* history: commits of a dispatch after its authority ended
          faults, admin

siteVars == <<site, live, admin>>
history == <<granted, ended, late>>
vars == <<current_epoch, siteVars, rec, disk, dispatch, failover, history, faults>>

None == "none"
TrustStates == {"REGISTERED", "IDENTITY_VERIFIED", "TRUSTED", "REVOKED"}
Tenants == {"ours", "other"}
RecordStates == {None, "ACTIVE", "RELEASED", "TRANSFERRED", "FENCED"}

Records == [state : RecordStates, worker : Workers \cup {None}, gen : Nat,
            ctx : Contexts \cup {None}, left : 0..Ttl]
NoRecord == [state |-> None, worker |-> None, gen |-> 0, ctx |-> None, left |-> 0]

DispatchLocals == [pc : {"idle", "running", "checked"}, gen : Nat,
                   worker : Workers \cup {None}, ctx : Contexts \cup {None}]
NoDispatch == [pc |-> "idle", gen |-> 0, worker |-> None, ctx |-> None]

FailoverLocals == [pc : {"idle", "judge", "fence", "place"}, owner : Workers \cup {None}]
NoFailover == [pc |-> "idle", owner |-> None]

TypeOK ==
    /\ FencingTypeOK
    /\ site \in [Sites -> [trust : TrustStates, tenant : Tenants \cup {None}]]
    /\ live \in [Sites -> {None, "fresh", "stale"}]
    /\ rec \in Records /\ disk \in Records
    /\ dispatch \in [Dispatches -> DispatchLocals]
    /\ failover \in [Failovers -> FailoverLocals]
    /\ granted \in Nat /\ ended \in Nat
    /\ late \in [Dispatches -> 0..2]
    /\ faults \in 0..MaxFaults /\ admin \in 0..MaxAdmin

\* A process over a store with no ownership yet; every site is bound to the
\* tenant, and one whose identity was verified anew awaits its elevation.
Init ==
    /\ FencingInit
    /\ site \in [Sites -> [trust : {"TRUSTED", "IDENTITY_VERIFIED"}, tenant : {"ours"}]]
    /\ live = [s \in Sites |-> None]
    /\ rec = NoRecord /\ disk = NoRecord
    /\ dispatch = [d \in Dispatches |-> NoDispatch]
    /\ failover = [f \in Failovers |-> NoFailover]
    /\ granted = 0 /\ ended = 0 /\ late = [d \in Dispatches |-> 0]
    /\ faults = 0 /\ admin = 0

(***************************************************************************)
(* Records and their persistence.                                          *)
(***************************************************************************)

\* is_currently_valid_owner
Valid(r) == r.state = "ACTIVE" /\ r.left > 0

\* _require_site_execution_ready: a bound site is an ACTIVE one, and the
\* tenant must be the claim's.
Ready(s) == site[s].trust = "TRUSTED" /\ site[s].tenant = "ours"

\* A renewal keeps the generation and starts the lease over from now.
Renewed(r) == [r EXCEPT !.left = Ttl]

\* A fresh grant, under the generation the ledger issues next.
Fresh(w, c) ==
    [state |-> "ACTIVE", worker |-> w, gen |-> current_epoch[Key] + 1, ctx |-> c, left |-> Ttl]

Fault == faults < MaxFaults /\ faults' = faults + 1

\* _persist. When it raises, memory already holds r; the store may have taken r
\* and failed on the index, which matters only once the key is in the index.
Saved(r) == disk' = r /\ UNCHANGED faults
NotSaved(r) == Fault /\ (disk' = disk \/ (disk.gen > 0 /\ disk' = r))

\* r in a state other than ACTIVE. Its deadline is never looked at again.
Closed(r, state) == [r EXCEPT !.state = state, !.left = 0]

AtLeast(old, new) == IF new > old THEN new ELSE old

\* The caller has r and resumes or starts dispatch d, for worker w, with it.
Grant(d, w, r) ==
    /\ granted' = AtLeast(granted, r.gen)
    /\ dispatch' = [dispatch EXCEPT ![d] =
          [pc |-> "running", gen |-> r.gen, worker |-> w, ctx |-> r.ctx]]
    /\ late' = [late EXCEPT ![d] = 0]

\* The transport of d is over; what it held is not released.
Over(d) ==
    /\ dispatch' = [dispatch EXCEPT ![d] = NoDispatch]
    /\ late' = [late EXCEPT ![d] = 0]

\* Mutant: a failed save is logged, and the record returned all the same.
ReturnedAnyway(d, w, r) ==
    /\ rec' = r
    /\ (Saved(r) \/ NotSaved(r))
    /\ Grant(d, w, r)
\* The last lines of acquire and transfer: memory, then the store, then return.
Returned(d, w, r) ==
    /\ rec' = r
    /\ \/ Saved(r) /\ Grant(d, w, r)
       \/ NotSaved(r) /\ UNCHANGED <<granted, dispatch, late>>

(***************************************************************************)
(* OwnershipManager.                                                       *)
(***************************************************************************)

\* Mutant: whoever asks while the lease is alive joins it.
AnyClaimant(w) == TRUE
SameClaimant(w) == rec.worker = w

\* acquire: re-entry of the owner is a renewal; a live lease of another worker
\* or another execution raises; otherwise a new generation is issued.
acquire(d, w, c) ==
    /\ Ready(SiteOf[w])
    /\ \/ /\ Valid(rec) /\ SameClaimant(w) /\ rec.ctx = c
          /\ Returned(d, w, Renewed(rec))
          /\ UNCHANGED current_epoch
       \/ /\ ~Valid(rec)
          /\ issue_token(Key)
          /\ Returned(d, w, Fresh(w, c))
    /\ UNCHANGED <<siteVars, ended>>

\* A dispatch acquires once, whatever other dispatches of its worker id do.
Acquire(d, c) ==
    /\ dispatch[d].pc = "idle"
    /\ \E w \in WorkersOf[d] : acquire(d, w, c)
    /\ UNCHANGED failover

\* Mutant: any live lease passes the barrier.
HoldsAny(d) == TRUE
\* Lease id, generation, worker, site and context of the record are d's.
Holds(d) ==
    /\ rec.gen = dispatch[d].gen
    /\ rec.worker = dispatch[d].worker /\ rec.ctx = dispatch[d].ctx

\* Mutant: the site is not looked at again.
RenewableAnywhere(d) == Valid(rec) /\ Holds(d)
\* renew's conditions.
Renewable(d) == Valid(rec) /\ Holds(d) /\ Ready(SiteOf[rec.worker])

\* composed_live_trust_check at a barrier of the transport. A renewal that
\* cannot be saved raises, which stops the transport like a refusal.
Check(d) ==
    /\ dispatch[d].pc = "running"
    /\ Renewable(d)
    /\ rec' = Renewed(rec)
    /\ \/ Saved(rec') /\ dispatch' = [dispatch EXCEPT ![d].pc = "checked"] /\ UNCHANGED late
       \/ NotSaved(rec') /\ Over(d)
    /\ UNCHANGED <<current_epoch, siteVars, failover, granted, ended>>

\* The generation was superseded by one a caller has, or ended.
Gone(g) == g < granted \/ g <= ended

\* writer.commit, after the last barrier; the next batch checks again.
Commit(d) ==
    /\ dispatch[d].pc = "checked"
    /\ dispatch' = [dispatch EXCEPT ![d].pc = "running"]
    /\ late' = [late EXCEPT ![d] = IF Gone(dispatch[d].gen) /\ @ < 2 THEN @ + 1 ELSE @]
    /\ UNCHANGED <<current_epoch, siteVars, rec, disk, failover, granted, ended, faults>>

\* A refused renewal, another failed check or the end of the data.
Stop(d) ==
    /\ dispatch[d].pc = "running"
    /\ Over(d)
    /\ UNCHANGED <<current_epoch, siteVars, rec, disk, failover, granted, ended, faults>>

Release(d) ==
    LET r == Closed(rec, "RELEASED") IN
    /\ dispatch[d].pc = "running"
    /\ Valid(rec) /\ rec.gen = dispatch[d].gen
    /\ rec' = r
    /\ \/ Saved(r) /\ ended' = AtLeast(ended, r.gen)
       \/ NotSaved(r) /\ UNCHANGED ended
    /\ Over(d)
    /\ UNCHANGED <<current_epoch, siteVars, failover, granted>>

\* transfer, by a caller that has d's lease, to worker w at e: the old
\* record is saved as TRANSFERRED, then memory and the store take the new one.
Transfer(d, e, w) ==
    LET old == Closed(rec, "TRANSFERRED")
        new == Fresh(w, rec.ctx) IN
    /\ dispatch[d].pc # "idle" /\ dispatch[e].pc = "idle"
    /\ Valid(rec) /\ rec.gen = dispatch[d].gen
    /\ w \in WorkersOf[e] /\ Ready(SiteOf[w])
    /\ issue_token(Key)
    /\ \/ /\ NotSaved(old)
          /\ UNCHANGED <<rec, dispatch, history>>
       \/ /\ rec' = new
          /\ Fault /\ disk' \in {old, new}
          /\ UNCHANGED <<dispatch, history>>
       \/ /\ rec' = new
          /\ Saved(new) /\ Grant(e, w, new)
          /\ ended' = AtLeast(ended, old.gen)
    /\ UNCHANGED <<siteVars, failover>>

(***************************************************************************)
(* attempt_failover.                                                       *)
(***************************************************************************)

\* The CoordinationView of s is one of _CONFIRMED_FAILED_VIEWS. A site that
\* has never been heard of, as after a restart, is not confirmed failed.
ConfirmedFailed(s) ==
    \/ site[s].trust = "REVOKED"
    \/ live[s] = "stale"
    \/ live[s] = "fresh" /\ (site[s].trust # "TRUSTED" \/ site[s].tenant = None)

\* try_get: a record that is not valid needs no fence.
Look(f) ==
    /\ failover[f].pc = "idle"
    /\ failover' = [failover EXCEPT ![f] =
          IF Valid(rec) THEN [pc |-> "judge", owner |-> rec.worker]
          ELSE [NoFailover EXCEPT !.pc = "place"]]
    /\ UNCHANGED <<current_epoch, siteVars, rec, disk, dispatch, history, faults>>

\* snapshot of the site of the record that was read: NOT_REQUIRED, or fence.
Judge(f) ==
    /\ failover[f].pc = "judge"
    /\ IF ConfirmedFailed(SiteOf[failover[f].owner])
       THEN failover' = [failover EXCEPT ![f] = [NoFailover EXCEPT !.pc = "fence"]]
       ELSE failover' = [failover EXCEPT ![f] = NoFailover]
    /\ UNCHANGED <<current_epoch, siteVars, rec, disk, dispatch, history, faults>>

\* Mutant: only memory is fenced.
FenceInMemory(f) ==
    /\ failover[f].pc = "fence"
    /\ rec' = IF rec.state = "ACTIVE" THEN Closed(rec, "FENCED") ELSE rec
    /\ ended' = IF rec.state = "ACTIVE" THEN AtLeast(ended, rec.gen) ELSE ended
    /\ failover' = [failover EXCEPT ![f] = [NoFailover EXCEPT !.pc = "place"]]
    /\ UNCHANGED <<current_epoch, siteVars, disk, dispatch, granted, late, faults>>

\* force_fence: whatever ACTIVE record is there now, expired or not.
Fence(f) ==
    LET r == Closed(rec, "FENCED")
        next(pc) == failover' = [failover EXCEPT ![f] = [NoFailover EXCEPT !.pc = pc]] IN
    /\ failover[f].pc = "fence"
    /\ \/ /\ rec.state # "ACTIVE" /\ next("place")
          /\ UNCHANGED <<rec, disk, ended, faults>>
       \/ /\ rec.state = "ACTIVE" /\ rec' = r
          /\ \/ Saved(r) /\ ended' = AtLeast(ended, r.gen) /\ next("place")
             \/ NotSaved(r) /\ UNCHANGED ended /\ next("idle")
    /\ UNCHANGED <<current_epoch, siteVars, dispatch, granted, late>>

\* evaluate_candidates finds no site, or acquire raises, or the first accepted
\* site's claim is granted and the caller resumes there.
Place(f) ==
    /\ failover[f].pc = "place"
    /\ failover' = [failover EXCEPT ![f] = NoFailover]
    /\ \/ UNCHANGED <<current_epoch, siteVars, rec, disk, dispatch, history, faults>>
       \/ \E d \in Dispatches, c \in Contexts :
          dispatch[d].pc = "idle" /\ \E w \in WorkersOf[d] : acquire(d, w, c)

(***************************************************************************)
(* Sites, time and crashes.                                                *)
(***************************************************************************)
SetSite(s, trust, tenant) ==
    /\ admin < MaxAdmin /\ admin' = admin + 1
    /\ site' = [site EXCEPT ![s] = [trust |-> trust, tenant |-> tenant]]
    /\ UNCHANGED <<current_epoch, live, rec, disk, dispatch, failover, history, faults>>

Register(s) == SetSite(s, "REGISTERED", None)
VerifyIdentity(s) == site[s].trust # "REVOKED" /\ SetSite(s, "IDENTITY_VERIFIED", site[s].tenant)
ElevateToTrusted(s) ==
    site[s].trust = "IDENTITY_VERIFIED" /\ SetSite(s, "TRUSTED", site[s].tenant)
Revoke(s) == SetSite(s, "REVOKED", None)
BindTenant(s, t) == site[s].trust = "TRUSTED" /\ SetSite(s, "TRUSTED", t)

SetLive(s, view) ==
    /\ live[s] # view
    /\ live' = [live EXCEPT ![s] = view]
    /\ UNCHANGED <<current_epoch, site, admin, rec, disk, dispatch, failover, history, faults>>

\* record_heartbeat, of a site that is not revoked and not superseded.
Heartbeat(s) == site[s].trust # "REVOKED" /\ SetLive(s, "fresh")
GrowStale(s) == live[s] = "fresh" /\ SetLive(s, "stale")
ForgetLiveness(s) == SetLive(s, None)

SiteStep ==
    \E s \in Sites :
        \/ Register(s) \/ VerifyIdentity(s) \/ ElevateToTrusted(s) \/ Revoke(s)
        \/ \E t \in Tenants : BindTenant(s, t)
        \/ Heartbeat(s) \/ GrowStale(s) \/ ForgetLiveness(s)

Aged(r) == [r EXCEPT !.left = IF @ > 0 THEN @ - 1 ELSE 0]
Tick ==
    /\ rec.left > 0 \/ disk.left > 0
    /\ rec' = Aged(rec) /\ disk' = Aged(disk)
    /\ UNCHANGED <<current_epoch, siteVars, dispatch, failover, history, faults>>

\* reconstruct_ownership_manager in a new process: threads, heartbeats and
\* whatever memory had beyond the store are gone.
Crash ==
    /\ Fault
    /\ rec' = disk
    /\ live' = [s \in Sites |-> None]
    /\ dispatch' = [d \in Dispatches |-> NoDispatch]
    /\ failover' = [f \in Failovers |-> NoFailover]
    /\ late' = [d \in Dispatches |-> 0]
    /\ UNCHANGED <<current_epoch, site, admin, disk, granted, ended>>

Next ==
    \/ \E d \in Dispatches :
          \/ \E c \in Contexts : Acquire(d, c)
          \/ Check(d) \/ Commit(d) \/ Stop(d) \/ Release(d)
          \/ \E e \in Dispatches, w \in Workers : Transfer(d, e, w)
    \/ \E f \in Failovers : Look(f) \/ Judge(f) \/ Fence(f) \/ Place(f)
    \/ SiteStep
    \/ Tick
    \/ Crash

Spec == Init /\ [][Next]_vars

\* Time passes, whatever the workers, the sites and the failovers do.
FairSpec == Spec /\ WF_vars(Tick)

(***************************************************************************)
(* Properties.                                                             *)
(***************************************************************************)

\* Dispatches of two worker ids never run under one generation: acquire,
\* re-entry, failover, transfer and restart each hand a generation to one worker
\* id (acquire's conflict rule). Two dispatches of one worker id may share it:
\* acquire takes the second for a re-entry.
OneHolderPerGeneration ==
    \A d, e \in Dispatches :
        /\ dispatch[d].pc # "idle" /\ dispatch[e].pc # "idle"
        /\ dispatch[d].worker # dispatch[e].worker
        => dispatch[d].gen # dispatch[e].gen

\* A generation a caller was given is in the store, or a later one is: a restart
\* never goes back behind a grant, however saves failed before it (_persist
\* precedes the return of acquire and transfer).
GrantIsDurable == granted <= disk.gen

\* A generation that a returned release, transfer or force_fence ended is never
\* ACTIVE again, in memory or in the store a restart reads.
EndedStaysEnded == \A r \in {rec, disk} : r.state = "ACTIVE" => r.gen > ended

\* A dispatch whose generation was superseded or ended commits at most once more,
\* the batch that had passed its barrier already: renew at every barrier stops
\* the rest (composed_live_trust_check).
StaleOwnerStops == \A d \in Dispatches : late[d] <= 1

\* Ownership at a site that stays unready does not last: renew and re-entry both
\* look at the site again, so the lease runs out.
UnreadySiteLosesOwnership ==
    \A s \in Sites :
        <>[]~Ready(s) => <>[]~(Valid(rec) /\ SiteOf[rec.worker] = s)
=============================================================================
