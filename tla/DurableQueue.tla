----------------------------- MODULE DurableQueue -----------------------------
(***************************************************************************)
(* The durable message queue of the Durability authority                   *)
(* (DurableQueueStore, durability/spill/queue_store.py) as its consumers   *)
(* use it, with the composed ack_queue_with_position of durability/api.py. *)
(*                                                                         *)
(* Every operation is one transaction under the backend's mutex, but       *)
(* claim_message and ack_message read the clock before they wait for the   *)
(* mutex: a call is a Begin step that reads the clock and a later step     *)
(* that does the work with that reading.                                   *)
(*                                                                         *)
(* Time is relative to the present: a lease is lease_expires_at minus the  *)
(* clock and a call carries the age of its reading, so that the clock      *)
(* itself needs no bound.  A lease so far in the past that even the oldest *)
(* reading sees it expired is not aged further.  Messages are numbered in  *)
(* the order they are stored; a claim_id is a uuid4, never one still       *)
(* remembered.  attempt_count is read by nobody and left out.              *)
(***************************************************************************)
EXTENDS Integers, FiniteSets

CONSTANTS Consumer,     \* threads that claim and acknowledge
          worker_id,    \* the worker_id each of them passes
          ClaimId,      \* claim ids
          LeaseTerm,    \* lease_duration_sec
          MaxMessages,  \* bound: messages ever stored
          MaxWait,      \* bound: how long a call waits for the mutex
          None          \* NULL in a column; a consumer without a message

ASSUME BoundsAssumption ==
    LeaseTerm \in Nat /\ MaxMessages \in Nat /\ MaxWait \in Nat

VARIABLES queue,        \* queue_records: message -> row
          stored,       \* messages stored so far: the newest message
          consumer,     \* what each consumer is doing
          ref,          \* the QueueMessageRef each consumer holds
          position,     \* last_position of the table; 0 when there is none
          token_holder  \* the consumer whose fencing token is live

vars == <<queue, stored, consumer, ref, position, token_holder>>

Expired == -(MaxWait + 1)
Lease == Expired..LeaseTerm
Messages == DOMAIN queue
Row == [sequence_number: Nat, claimed_by: {worker_id[c] : c \in Consumer} \cup {None},
        claim_id: ClaimId \cup {None}, lease: Lease]
Ref == [message: Nat, claim_id: ClaimId, lease: Lease, acked: BOOLEAN]
ASSUME NoneAssumption ==
    /\ None \notin ClaimId /\ None \notin Nat /\ None \notin Ref
    /\ \A c \in Consumer : worker_id[c] # None

Activity == [pc: {"idle", "claiming", "holding", "acking"}, age: 0..MaxWait]

TypeOK ==
    /\ Messages \subseteq 1..stored
    /\ \A m \in Messages : queue[m] \in Row
    /\ stored \in 0..MaxMessages
    /\ consumer \in [Consumer -> Activity]
    /\ ref \in [Consumer -> Ref \cup {None}]
    /\ \A c \in Consumer : IF consumer[c].pc \in {"holding", "acking"}
                           THEN ref[c] \in Ref ELSE ref[c] = None
    /\ position \in 0..stored
    /\ token_holder \in Consumer

Init ==
    /\ queue = [m \in {} |-> None]
    /\ stored = 0
    /\ consumer = [c \in Consumer |-> [pc |-> "idle", age |-> 0]]
    /\ ref = [c \in Consumer |-> None]
    /\ position = 0
    /\ token_holder \in Consumer

-----------------------------------------------------------------------------

Go(c, pc) == consumer' = [consumer EXCEPT ![c] = [pc |-> pc, age |-> 0]]

\* One second passes.
Older(l) == IF l = Expired THEN l ELSE l - 1
InCall(c) == consumer[c].pc \in {"claiming", "acking"}

Tick ==
    /\ \A c \in Consumer : InCall(c) => consumer[c].age < MaxWait
    /\ queue' = [m \in Messages |-> [queue[m] EXCEPT !.lease = Older(@)]]
    /\ consumer' = [c \in Consumer |->
                      [consumer[c] EXCEPT !.age = IF InCall(c) THEN @ + 1 ELSE @]]
    /\ ref' = [c \in Consumer |->
                 IF ref[c] = None THEN None ELSE [ref[c] EXCEPT !.lease = Older(@)]]
    /\ UNCHANGED <<stored, position, token_holder>>

\* MAX(sequence_number) + 1: the numbering restarts when the queue is empty.
NextSeq ==
    IF Messages = {} THEN 1
    ELSE 1 + queue[CHOOSE m \in Messages : \A n \in Messages :
                      queue[n].sequence_number <= queue[m].sequence_number].sequence_number

store_message ==
    /\ stored < MaxMessages
    /\ stored' = stored + 1
    /\ queue' = [m \in Messages \cup {stored'} |->
                   IF m = stored'
                   THEN [sequence_number |-> NextSeq, claimed_by |-> None,
                         claim_id |-> None, lease |-> Expired]
                   ELSE queue[m]]
    /\ UNCHANGED <<consumer, ref, position, token_holder>>

\* claim_message reads the clock.
BeginClaim(c) ==
    /\ consumer[c].pc = "idle"
    /\ Go(c, "claiming")
    /\ UNCHANGED <<queue, stored, ref, position, token_holder>>

\* Mutant: the lease is over at the instant it still covers.
Available_Inclusive(m, age) ==
    queue[m].claimed_by = None \/ queue[m].lease <= -age

\* Mutant: a claimed message is never given out again.
Available_Once(m, age) == queue[m].claimed_by = None

\* claimed_by IS NULL OR lease_expires_at < now, where now was age ago.
Available(m, age) ==
    queue[m].claimed_by = None \/ queue[m].lease < -age

\* Mutant: the newest available message first.
IsFirst_Newest(m, S) ==
    \A n \in S : queue[n].sequence_number <= queue[m].sequence_number

\* ORDER BY sequence_number ASC LIMIT 1.
IsFirst(m, S) ==
    \A n \in S : queue[m].sequence_number <= queue[n].sequence_number

ClaimsInUse ==
    {queue[m].claim_id : m \in Messages}
        \cup {ref[c].claim_id : c \in {d \in Consumer : ref[d] # None}}

claim_message(c) ==
    /\ consumer[c].pc = "claiming"
    /\ LET age == consumer[c].age
           available == {m \in Messages : Available(m, age)}
       IN \/ /\ available = {}
             /\ Go(c, "idle")
             /\ UNCHANGED <<queue, ref>>
          \/ \E m \in available :
               /\ IsFirst(m, available)
               /\ ClaimId \ ClaimsInUse # {}
               /\ LET claim == CHOOSE id \in ClaimId : id \notin ClaimsInUse
                      lease == IF LeaseTerm - age < Expired THEN Expired ELSE LeaseTerm - age
                  IN /\ queue' = [queue EXCEPT ![m] =
                                    [@ EXCEPT !.claimed_by = worker_id[c],
                                              !.claim_id = claim, !.lease = lease]]
                     /\ ref' = [ref EXCEPT ![c] =
                                  [message |-> m, claim_id |-> claim,
                                   lease |-> lease, acked |-> FALSE]]
               /\ Go(c, "holding")
    /\ UNCHANGED <<stored, position, token_holder>>

\* An acknowledging call reads the clock.
BeginAck(c) ==
    /\ consumer[c].pc = "holding"
    /\ Go(c, "acking")
    /\ UNCHANGED <<queue, stored, ref, position, token_holder>>

\* Mutant: the claim id is not compared.
MatchesClaim_WorkerOnly(c, m) == queue[m].claimed_by = worker_id[c]

\* The row still carries the claim the consumer was given.
MatchesClaim(c, m) ==
    queue[m].claimed_by = worker_id[c] /\ queue[m].claim_id = ref[c].claim_id

\* The rows the DELETE of ack_message matches.
Acknowledged(c) ==
    {m \in Messages : /\ m = ref[c].message
                      /\ MatchesClaim(c, m)
                      /\ queue[m].lease >= -consumer[c].age}

Delete(ms) == queue' = [m \in Messages \ ms |-> queue[m]]

\* The caller sees the answer and lets go of the message, or misses it and
\* keeps its reference to try again.
Answered(c, acked) ==
    \/ /\ Go(c, "idle")
       /\ ref' = [ref EXCEPT ![c] = None]
    \/ /\ Go(c, "holding")
       /\ ref' = [ref EXCEPT ![c].acked = @ \/ acked]

\* FencingViolationError, and nothing changes, when no row is deleted.
ack_message(c) ==
    /\ consumer[c].pc = "acking"
    /\ Delete(Acknowledged(c))
    /\ Answered(c, Acknowledged(c) # {})
    /\ UNCHANGED <<stored, position, token_holder>>

\* Mutant: the ROLLBACK is missing and a rejected ACK still moves the position.
PositionSaved_NoRollback(c) == token_holder = c

\* Both parts of the composed transaction succeed, or it is rolled back.
PositionSaved(c) == Acknowledged(c) # {} /\ token_holder = c

ack_queue_with_position(c) ==
    /\ consumer[c].pc = "acking"
    /\ IF PositionSaved(c)
       THEN Delete(Acknowledged(c)) /\ position' = ref[c].message
       ELSE UNCHANGED <<queue, position>>
    /\ Answered(c, PositionSaved(c))
    /\ UNCHANGED <<stored, token_holder>>

\* A consumer crashes or gives up; what it remembers is lost.  (A crash while
\* it waits for the mutex leaves no other trace.)
Forget(c) ==
    /\ consumer[c].pc = "holding"
    /\ Go(c, "idle")
    /\ ref' = [ref EXCEPT ![c] = None]
    /\ UNCHANGED <<queue, stored, position, token_holder>>

\* A newer fencing token for the migration.
IssueToken(c) ==
    /\ token_holder # c
    /\ token_holder' = c
    /\ UNCHANGED <<queue, stored, consumer, ref, position>>

Next ==
    \/ Tick
    \/ store_message
    \/ \E c \in Consumer :
         \/ BeginClaim(c) \/ claim_message(c)
         \/ BeginAck(c) \/ ack_message(c) \/ ack_queue_with_position(c)
         \/ Forget(c) \/ IssueToken(c)

Spec == Init /\ [][Next]_vars

\* Time passes; a consumer keeps asking for messages, returns from its calls
\* and does not hold on to one message for ever.
Fairness ==
    /\ SF_vars(Tick)
    /\ \A c \in Consumer :
         /\ WF_vars(BeginClaim(c))
         /\ WF_vars(claim_message(c))
         /\ WF_vars(ack_message(c) \/ ack_queue_with_position(c))
         /\ SF_vars(Forget(c))

FairSpec == Spec /\ Fairness

-----------------------------------------------------------------------------
\* Properties.

\* While the lease a consumer was given has not run out, the message is still
\* its own: no second claim, stale acknowledgement or late call of another
\* consumer, even one with the same worker_id, takes it away.
LiveLeaseIsExclusive ==
    \A c \in Consumer :
        ref[c] # None /\ ~ref[c].acked /\ ref[c].lease >= 0 =>
            /\ ref[c].message \in Messages
            /\ queue[ref[c].message].claim_id = ref[c].claim_id

\* A claim that a later claim has superseded can no longer acknowledge:
\* a message leaves the queue only by the consumer with its newest claim.
OnlyNewestClaimAcks ==
    [][\A m \in Messages : m \notin Messages' =>
         \E c \in Consumer : /\ consumer[c].pc = "acking"
                             /\ ref[c].message = m
                             /\ ref[c].claim_id = queue[m].claim_id]_vars

\* A position recorded together with an acknowledgement is that of a message
\* that is gone for good and is never delivered again.
PositionOnlyWithAck == position \notin Messages

\* However often the numbering restarts, the queue stays in the order the
\* messages were stored.
QueueKeepsOrder ==
    \A m, n \in Messages :
        m < n => queue[m].sequence_number < queue[n].sequence_number

Held(m) == \E c \in Consumer : ref[c] # None /\ ref[c].message = m
                               /\ queue[m].claim_id = ref[c].claim_id

\* The oldest message is never stranded: when the consumer that claimed it
\* crashed, it is handed out again.
OldestRedelivered ==
    \A m \in 1..MaxMessages :
        (m \in Messages /\ \A n \in Messages : m <= n)
            ~> (m \notin Messages \/ Held(m))

\* The newest claim on each message that waits.
Owner == [m \in Messages |-> queue[m].claim_id]

Abstract == INSTANCE MessageQueue WITH owner <- Owner

\* Through restarted numbering, crashes, expired leases, retried and late
\* calls, DurableQueue is a queue: it does what MessageQueue does and nothing
\* else.
ImplementsMessageQueue == Abstract!Spec

=============================================================================
