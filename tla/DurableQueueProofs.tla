-------------------------- MODULE DurableQueueProofs --------------------------
(***************************************************************************)
(* Proofs about the durable queue: for any number of consumers, messages   *)
(* and claims, and however long a call waits for the mutex, a live lease   *)
(* is exclusive, a claim that was superseded acknowledges nothing, the     *)
(* queue stays in the order its messages were stored, and it implements    *)
(* the queue of MessageQueue.                                              *)
(***************************************************************************)
EXTENDS DurableQueue, WellFoundedInduction, TLAPS

Holder(c) == consumer[c].pc \in {"holding", "acking"}

\* A row is claimed exactly when it has a claim id.
ClaimIsWhole == \A m \in Messages : queue[m].claimed_by = None <=> queue[m].claim_id = None

\* The row and the reference that share a claim agree on message and lease.
ClaimAgrees ==
    \A m \in Messages, c \in Consumer :
        Holder(c) /\ queue[m].claim_id = ref[c].claim_id =>
            ref[c].message = m /\ ref[c].lease = queue[m].lease

\* No two consumers were given the same claim.
ClaimsDiffer ==
    \A c, d \in Consumer : Holder(c) /\ Holder(d) /\ c # d => ref[c].claim_id # ref[d].claim_id

\* LiveLeaseIsExclusive, told by what the consumer is doing.
LiveIsHeld ==
    \A c \in Consumer : Holder(c) /\ ~ref[c].acked /\ ref[c].lease >= 0 =>
        /\ ref[c].message \in Messages
        /\ queue[ref[c].message].claim_id = ref[c].claim_id

ClaimInv == ClaimIsWhole /\ ClaimAgrees /\ ClaimsDiffer /\ LiveIsHeld

\* A set of numbers that is bounded has a greatest one.
LEMMA GreatestExists ==
    ASSUME NEW N \in Nat, NEW S \in SUBSET (1..N), S # {}
    PROVE  \E x \in S : \A y \in S : y <= x
<1> DEFINE T == {N - x : x \in S}
<1>1. T \in SUBSET Nat
  <2>1. \A x \in S : N - x \in Nat
    OBVIOUS
  <2> QED
    BY <2>1
<1>2. T # {}
  OBVIOUS
<1>3. \E t \in T : \A u \in T : t <= u
  <2> HIDE DEF T
  <2>1. PICK t \in T : \A u \in T : ~ (<<u, t>> \in OpToRel(<, Nat))
    BY <1>1, <1>2, WFMin, NatLessThanWellFounded
  <2>2. \A u \in T : ~ (u < t)
    BY <1>1, <2>1 DEF OpToRel
  <2> QED
    BY <1>1, <2>2
<1>4. PICK x \in S : \A u \in T : N - x <= u
  BY <1>3
<1>5. \A y \in S : N - x <= N - y
  BY <1>4
<1> QED
  BY <1>5

\* The number a new message gets is above every number in the queue.
LEMMA NextSeqIsAbove ==
    ASSUME TypeOK, QueueKeepsOrder
    PROVE  NextSeq \in Nat /\ \A m \in Messages : queue[m].sequence_number < NextSeq
<1>1. \A m \in Messages : m \in Nat /\ queue[m].sequence_number \in Nat
  BY DEF TypeOK, Row
<1>2. CASE Messages = {}
  BY <1>2 DEF NextSeq
<1>3. CASE Messages # {}
  <2>1. stored \in Nat /\ Messages \in SUBSET (1..stored)
    BY BoundsAssumption DEF TypeOK
  <2>2. PICK x \in Messages : \A y \in Messages : y <= x
    BY <1>3, <2>1, GreatestExists
  <2>3. \A n \in Messages : queue[n].sequence_number <= queue[x].sequence_number
    BY <1>1, <2>2 DEF QueueKeepsOrder
  <2> DEFINE top == CHOOSE m \in Messages : \A n \in Messages :
                        queue[n].sequence_number <= queue[m].sequence_number
  <2>4. top \in Messages /\ \A n \in Messages : queue[n].sequence_number <= queue[top].sequence_number
    BY <2>3
  <2>5. NextSeq = 1 + queue[top].sequence_number
    BY <1>3 DEF NextSeq
  <2> HIDE DEF top
  <2> QED
    BY <1>1, <2>4, <2>5
<1> QED
  BY <1>2, <1>3

\* What a message that is stored adds to the queue.
LEMMA StoreEffect ==
    ASSUME TypeOK, store_message
    PROVE  /\ Messages' = Messages \cup {stored + 1} /\ stored + 1 \notin Messages
           /\ \A m \in Messages : queue'[m] = queue[m]
           /\ queue'[stored + 1] = [sequence_number |-> NextSeq, claimed_by |-> None,
                                    claim_id |-> None, lease |-> Expired]
           /\ stored \in Nat /\ stored' = stored + 1 /\ stored + 1 <= MaxMessages
  BY BoundsAssumption DEF TypeOK, store_message, Messages

\* What an acknowledging call does: it takes its own message, under the claim
\* the row carries, or nothing.
LEMMA AckEffect ==
    ASSUME TypeOK, NEW c \in Consumer, ack_message(c) \/ ack_queue_with_position(c)
    PROVE  /\ consumer[c].pc = "acking" /\ Holder(c)
           /\ Messages' \subseteq Messages
           /\ \A m \in Messages' : queue'[m] = queue[m]
           /\ \A m \in Messages \ Messages' : m = ref[c].message /\ MatchesClaim(c, m)
           /\ \/ UNCHANGED position
              \/ position' = ref[c].message /\ position' \in Messages \ Messages'
           /\ \/ Go(c, "idle") /\ ref' = [ref EXCEPT ![c] = None]
              \/ /\ Go(c, "holding")
                 /\ \E b \in BOOLEAN : /\ ref' = [ref EXCEPT ![c].acked = b]
                                       /\ Messages' # Messages => b
                                       /\ ref[c].acked => b
           /\ UNCHANGED <<stored, token_holder>>
<1>1. consumer[c].pc = "acking" /\ Holder(c) /\ ref[c] \in Ref
  BY DEF ack_message, ack_queue_with_position, Holder, TypeOK
<1>2. Acknowledged(c) \subseteq Messages
      /\ \A m \in Acknowledged(c) : m = ref[c].message /\ MatchesClaim(c, m)
  BY DEF Acknowledged
<1>3. ASSUME NEW a \in BOOLEAN, Answered(c, a)
      PROVE  \/ Go(c, "idle") /\ ref' = [ref EXCEPT ![c] = None]
             \/ /\ Go(c, "holding")
                /\ \E b \in BOOLEAN : /\ ref' = [ref EXCEPT ![c].acked = b]
                                      /\ a => b
                                      /\ ref[c].acked => b
  <2>1. CASE ref' = [ref EXCEPT ![c].acked = @ \/ a]
    <3> DEFINE b == ref[c].acked \/ a
    <3>1. b \in BOOLEAN
      BY <1>1 DEF Ref
    <3>2. ref' = [ref EXCEPT ![c].acked = b]
      BY <2>1
    <3> QED
      BY <1>3, <3>1, <3>2 DEF Answered
  <2> QED
    BY <1>3, <2>1 DEF Answered
<1>4. ASSUME Delete(Acknowledged(c))
      PROVE  Messages' = Messages \ Acknowledged(c) /\ \A m \in Messages' : queue'[m] = queue[m]
  BY <1>4 DEF Delete, Messages
<1>5. CASE ack_message(c)
  <2>1. Delete(Acknowledged(c)) /\ Answered(c, Acknowledged(c) # {}) /\ UNCHANGED <<stored, position, token_holder>>
    BY <1>5 DEF ack_message
  <2> QED
    BY <1>1, <1>2, <1>3, <1>4, <2>1
<1>6. CASE ack_queue_with_position(c)
  <2>1. CASE PositionSaved(c)
    <3>1. Acknowledged(c) # {} /\ ref[c].message \in Acknowledged(c)
      BY <1>2, <2>1 DEF PositionSaved
    <3>2. Delete(Acknowledged(c)) /\ position' = ref[c].message /\ Answered(c, TRUE)
      BY <1>6, <2>1, <3>1 DEF ack_queue_with_position, PositionSaved, Answered
    <3> QED
      BY <1>1, <1>2, <1>3, <1>4, <1>6, <3>1, <3>2 DEF ack_queue_with_position
  <2>2. CASE ~PositionSaved(c)
    <3>1. UNCHANGED <<queue, position>> /\ Answered(c, FALSE)
      BY <1>6, <2>2 DEF ack_queue_with_position, Answered
    <3> QED
      BY <1>1, <1>3, <1>6, <3>1 DEF ack_queue_with_position, Messages
  <2> QED
    BY <2>1, <2>2
<1> QED
  BY <1>5, <1>6

\* Consumer c gets message m under claim id with lease l.
Claimed(c, m, id, l) ==
    /\ queue' = [queue EXCEPT ![m] = [@ EXCEPT !.claimed_by = worker_id[c],
                                              !.claim_id = id, !.lease = l]]
    /\ ref' = [ref EXCEPT ![c] = [message |-> m, claim_id |-> id, lease |-> l, acked |-> FALSE]]
    /\ Go(c, "holding")

\* What a claim does: nothing, or it gives out a message that was available,
\* under a claim id nobody holds.
LEMMA ClaimEffect ==
    ASSUME TypeOK, NEW c \in Consumer, claim_message(c)
    PROVE  \/ Go(c, "idle") /\ UNCHANGED <<queue, ref>>
           \/ \E m \in Messages, id \in ClaimId, l \in Lease :
                 /\ Available(m, consumer[c].age)
                 /\ IsFirst(m, {n \in Messages : Available(n, consumer[c].age)})
                 /\ id \notin ClaimsInUse
                 /\ Claimed(c, m, id, l)
<1> DEFINE age == consumer[c].age
           available == {m \in Messages : Available(m, age)}
           claim == CHOOSE id \in ClaimId : id \notin ClaimsInUse
           lease == IF LeaseTerm - age < Expired THEN Expired ELSE LeaseTerm - age
<1>1. age \in 0..MaxWait
  BY DEF TypeOK, Activity
<1>2. lease \in Lease
  BY <1>1, BoundsAssumption DEF Lease, Expired
<1>3. ASSUME NEW m \in available, IsFirst(m, available), ClaimId \ ClaimsInUse # {},
             queue' = [queue EXCEPT ![m] = [@ EXCEPT !.claimed_by = worker_id[c],
                                                     !.claim_id = claim, !.lease = lease]],
             ref' = [ref EXCEPT ![c] = [message |-> m, claim_id |-> claim,
                                        lease |-> lease, acked |-> FALSE]],
             Go(c, "holding")
      PROVE  \E n \in Messages, id \in ClaimId, l \in Lease :
                 /\ Available(n, age)
                 /\ IsFirst(n, available)
                 /\ id \notin ClaimsInUse
                 /\ Claimed(c, n, id, l)
  <2>1. claim \in ClaimId /\ claim \notin ClaimsInUse
    BY <1>3
  <2> HIDE DEF claim, lease
  <2>2. Claimed(c, m, claim, lease)
    BY <1>3 DEF Claimed
  <2> QED
    BY <1>2, <1>3, <2>1, <2>2
<1> QED
  BY <1>3 DEF claim_message

\* The types survive every step.
LEMMA TypeStep == TypeOK /\ QueueKeepsOrder /\ [Next]_vars => TypeOK'
<1> SUFFICES ASSUME TypeOK, QueueKeepsOrder, [Next]_vars PROVE TypeOK'
  OBVIOUS
<1> USE BoundsAssumption
<1>1. CASE Tick
  <2>1. Messages' = Messages /\ \A m \in Messages : queue'[m] = [queue[m] EXCEPT !.lease = Older(@)]
    BY <1>1 DEF Tick, Messages
  <2>2. \A l \in Lease : Older(l) \in Lease
    BY DEF Lease, Older, Expired
  <2>3. \A m \in Messages : queue'[m] \in Row
    <3> SUFFICES ASSUME NEW m \in Messages PROVE queue'[m] \in Row
      OBVIOUS
    <3>1. queue[m] \in Row /\ queue[m].lease \in Lease
      BY DEF TypeOK, Row
    <3> QED
      BY <2>1, <2>2, <3>1 DEF Row
  <2>4. consumer' \in [Consumer -> Activity]
        /\ \A c \in Consumer : consumer'[c].pc = consumer[c].pc
    BY <1>1 DEF Tick, TypeOK, Activity, InCall
  <2>5. ref' \in [Consumer -> Ref \cup {None}] /\ \A c \in Consumer : IF consumer'[c].pc \in {"holding", "acking"}
                             THEN ref'[c] \in Ref ELSE ref'[c] = None
    BY <1>1, <2>2, <2>4, SMTT(30) DEF Tick, TypeOK, Ref
  <2> QED
    BY <1>1, <2>1, <2>3, <2>4, <2>5 DEF Tick, TypeOK
<1>2. CASE store_message
  <2>1. queue'[stored + 1] \in Row
    BY <1>2, StoreEffect, NextSeqIsAbove DEF Row, Lease, Expired
  <2>2. \A m \in Messages' : queue'[m] \in Row
    BY <1>2, <2>1, StoreEffect DEF TypeOK
  <2>3. Messages' \subseteq 1..stored' /\ stored' \in 0..MaxMessages /\ position \in 0..stored'
    <3>1. Messages \subseteq 1..stored /\ position \in 0..stored
      BY DEF TypeOK
    <3>2. Messages' = Messages \cup {stored + 1} /\ stored \in Nat /\ stored' = stored + 1
          /\ stored + 1 <= MaxMessages
      BY <1>2, StoreEffect
    <3> QED
      BY <3>1, <3>2
  <2>4. UNCHANGED <<consumer, ref, position, token_holder>>
    BY <1>2 DEF store_message
  <2> QED
    BY <2>2, <2>3, <2>4 DEF TypeOK
<1>3. ASSUME NEW c \in Consumer, BeginClaim(c) \/ BeginAck(c) \/ Forget(c) \/ IssueToken(c)
      PROVE  TypeOK'
  <2>1. consumer' \in [Consumer -> Activity]
    BY <1>3 DEF BeginClaim, BeginAck, Forget, IssueToken, Go, TypeOK, Activity
  <2>2. ref' \in [Consumer -> Ref \cup {None}] /\ \A d \in Consumer : IF consumer'[d].pc \in {"holding", "acking"}
                             THEN ref'[d] \in Ref ELSE ref'[d] = None
    BY <1>3 DEF BeginClaim, BeginAck, Forget, IssueToken, Go, TypeOK
  <2>3. token_holder' \in Consumer /\ UNCHANGED <<queue, stored, position>>
    BY <1>3 DEF BeginClaim, BeginAck, Forget, IssueToken, TypeOK
  <2> QED
    BY <2>1, <2>2, <2>3 DEF TypeOK, Messages
<1>4. ASSUME NEW c \in Consumer, claim_message(c) PROVE TypeOK'
  <2>1. consumer' \in [Consumer -> Activity]
    <3>1. Go(c, "idle") \/ Go(c, "holding")
      BY <1>4, ClaimEffect DEF Claimed
    <3> QED
      BY <3>1 DEF Go, TypeOK, Activity
  <2>2. CASE Go(c, "idle") /\ UNCHANGED <<queue, ref>>
    BY <1>4, <2>1, <2>2 DEF claim_message, Go, TypeOK, Messages
  <2>3. ASSUME NEW m \in Messages, NEW id \in ClaimId, NEW l \in Lease, Claimed(c, m, id, l)
        PROVE  TypeOK'
    <3>1. [message |-> m, claim_id |-> id, lease |-> l, acked |-> FALSE] \in Ref
      <4>1. m \in Nat
        BY DEF TypeOK
      <4> QED
        BY <4>1 DEF Ref
    <3>2. ref' \in [Consumer -> Ref \cup {None}] /\ \A d \in Consumer : IF consumer'[d].pc \in {"holding", "acking"}
                               THEN ref'[d] \in Ref ELSE ref'[d] = None
      BY <2>3, <3>1 DEF Claimed, Go, TypeOK
    <3>3. Messages' = Messages /\ \A n \in Messages' : queue'[n] \in Row
      BY <2>3, ZenonT(60) DEF Claimed, TypeOK, Row, Messages
    <3> QED
      BY <1>4, <2>1, <3>2, <3>3 DEF claim_message, TypeOK
  <2> QED
    BY <1>4, <2>2, <2>3, ClaimEffect
<1>5. ASSUME NEW c \in Consumer, ack_message(c) \/ ack_queue_with_position(c) PROVE TypeOK'
  <2>1. consumer' \in [Consumer -> Activity]
    BY <1>5, AckEffect DEF Go, TypeOK, Activity
  <2>2. ref' \in [Consumer -> Ref \cup {None}] /\ \A d \in Consumer : IF consumer'[d].pc \in {"holding", "acking"}
                             THEN ref'[d] \in Ref ELSE ref'[d] = None
    <3>1. CASE Go(c, "idle") /\ ref' = [ref EXCEPT ![c] = None]
      BY <3>1 DEF Go, TypeOK
    <3>2. ASSUME NEW b \in BOOLEAN, Go(c, "holding"), ref' = [ref EXCEPT ![c].acked = b]
          PROVE  ref' \in [Consumer -> Ref \cup {None}] /\ \A d \in Consumer : IF consumer'[d].pc \in {"holding", "acking"}
                                      THEN ref'[d] \in Ref ELSE ref'[d] = None
      <4>1. ref[c] \in Ref
        BY <1>5, AckEffect DEF TypeOK
      <4> QED
        BY <3>2, <4>1 DEF Go, TypeOK, Ref
    <3> QED
      BY <1>5, <3>1, <3>2, AckEffect
  <2>3. position' \in 0..stored
    BY <1>5, AckEffect DEF TypeOK
  <2> QED
    BY <1>5, <2>1, <2>2, <2>3, AckEffect DEF TypeOK
<1>6. CASE UNCHANGED vars
  BY <1>6 DEF vars, TypeOK, Messages
<1> QED
  BY <1>1, <1>2, <1>3, <1>4, <1>5, <1>6 DEF Next

\* The order survives every step: a new message gets a number above the rest.
LEMMA OrderStep == TypeOK /\ QueueKeepsOrder /\ [Next]_vars => QueueKeepsOrder'
<1> SUFFICES ASSUME TypeOK, QueueKeepsOrder, [Next]_vars PROVE QueueKeepsOrder'
  OBVIOUS
<1>1. ASSUME Messages' \subseteq Messages,
             \A m \in Messages' : queue'[m].sequence_number = queue[m].sequence_number
      PROVE  QueueKeepsOrder'
  BY <1>1 DEF QueueKeepsOrder
<1>2. CASE store_message
  <2>1. \A m \in Messages : m < stored + 1
    BY <1>2, StoreEffect DEF TypeOK
  <2>2. \A m \in Messages : queue'[m].sequence_number < queue'[stored + 1].sequence_number
    BY <1>2, StoreEffect, NextSeqIsAbove
  <2> QED
    <3> SUFFICES ASSUME NEW m \in Messages', NEW n \in Messages', m < n
                 PROVE  queue'[m].sequence_number < queue'[n].sequence_number
      BY DEF QueueKeepsOrder
    <3>1. stored \in Nat /\ Messages' = Messages \cup {stored + 1}
          /\ \A x \in Messages : x \in Nat /\ queue'[x] = queue[x]
      BY <1>2, StoreEffect DEF TypeOK
    <3>2. m \in Messages
      BY <2>1, <3>1
    <3>3. CASE n \in Messages
      BY <3>1, <3>2, <3>3 DEF QueueKeepsOrder
    <3>4. CASE n = stored + 1
      BY <2>2, <3>2, <3>4
    <3> QED
      BY <3>1, <3>3, <3>4
<1>3. CASE Tick
  <2>1. Messages' = Messages /\ \A m \in Messages : queue'[m] = [queue[m] EXCEPT !.lease = Older(@)]
    BY <1>3 DEF Tick, Messages
  <2> QED
    BY <1>1, <2>1 DEF TypeOK, Row
<1>4. ASSUME NEW c \in Consumer, claim_message(c) PROVE QueueKeepsOrder'
  <2>1. ASSUME NEW m \in Messages, NEW id \in ClaimId, NEW l \in Lease, Claimed(c, m, id, l)
        PROVE  QueueKeepsOrder'
    BY <1>1, <2>1 DEF Claimed, TypeOK, Row, Messages
  <2> QED
    BY <1>1, <1>4, <2>1, ClaimEffect DEF Messages
<1>5. ASSUME NEW c \in Consumer, ack_message(c) \/ ack_queue_with_position(c) PROVE QueueKeepsOrder'
  BY <1>1, <1>5, AckEffect
<1>6. CASE UNCHANGED queue
  BY <1>1, <1>6 DEF Messages
<1>7. ASSUME NEW c \in Consumer, BeginClaim(c) \/ BeginAck(c) \/ Forget(c) \/ IssueToken(c)
      PROVE  UNCHANGED queue
  BY <1>7 DEF BeginClaim, BeginAck, Forget, IssueToken
<1> QED
  BY <1>2, <1>3, <1>4, <1>5, <1>6, <1>7 DEF Next, vars

\* A position is recorded with the deletion of its message, and numbers of
\* messages are not used again.
LEMMA PositionStep == TypeOK /\ PositionOnlyWithAck /\ [Next]_vars => PositionOnlyWithAck'
<1> SUFFICES ASSUME TypeOK, PositionOnlyWithAck, [Next]_vars PROVE PositionOnlyWithAck'
  OBVIOUS
<1>1. CASE store_message
  <2>1. position \in Nat /\ position < stored + 1 /\ position' = position
    BY <1>1, BoundsAssumption DEF TypeOK, store_message
  <2> QED
    BY <1>1, <2>1, StoreEffect DEF PositionOnlyWithAck
<1>2. ASSUME Messages' \subseteq Messages, UNCHANGED position PROVE PositionOnlyWithAck'
  BY <1>2 DEF PositionOnlyWithAck
<1>3. CASE Tick
  BY <1>2, <1>3 DEF Tick, Messages
<1>4. ASSUME NEW c \in Consumer, claim_message(c) PROVE PositionOnlyWithAck'
  BY <1>2, <1>4, ClaimEffect DEF claim_message, Claimed, Messages
<1>5. ASSUME NEW c \in Consumer, ack_message(c) \/ ack_queue_with_position(c) PROVE PositionOnlyWithAck'
  BY <1>2, <1>5, AckEffect DEF PositionOnlyWithAck
<1>6. ASSUME NEW c \in Consumer, BeginClaim(c) \/ BeginAck(c) \/ Forget(c) \/ IssueToken(c)
      PROVE  UNCHANGED <<queue, position>>
  BY <1>6 DEF BeginClaim, BeginAck, Forget, IssueToken
<1>7. CASE UNCHANGED <<queue, position>>
  BY <1>2, <1>7 DEF Messages
<1> QED
  BY <1>1, <1>3, <1>4, <1>5, <1>6, <1>7 DEF Next, vars

\* What the rows and references say of each other survives every step.
LEMMA ClaimStep == TypeOK /\ ClaimInv /\ [Next]_vars => ClaimInv'
<1> SUFFICES ASSUME TypeOK, ClaimInv, [Next]_vars PROVE ClaimInv'
  OBVIOUS
<1>t. /\ \A c \in Consumer : Holder(c) => ref[c] \in Ref /\ ref[c].claim_id \in ClaimId
                                           /\ ref[c].lease \in Int /\ ref[c] # None
      /\ \A m \in Messages : queue[m] \in Row /\ queue[m].lease \in Int
  <2>1. Lease \subseteq Int
    BY BoundsAssumption DEF Lease, Expired
  <2>2. ASSUME NEW m \in Messages PROVE queue[m] \in Row /\ queue[m].lease \in Int
    BY <2>1 DEF TypeOK, Row
  <2>3. ASSUME NEW c \in Consumer, Holder(c) PROVE ref[c] \in Ref /\ ref[c] # None
    BY <2>3, NoneAssumption DEF TypeOK, Holder
  <2>4. \A r \in Ref : r.claim_id \in ClaimId /\ r.lease \in Int
    BY <2>1 DEF Ref
  <2> QED
    BY <2>2, <2>3, <2>4
<1>1. CASE Tick
  <2>1. Messages' = Messages /\ \A m \in Messages :
          /\ queue'[m].claim_id = queue[m].claim_id /\ queue'[m].claimed_by = queue[m].claimed_by
          /\ queue'[m].lease = Older(queue[m].lease)
    BY <1>1, <1>t DEF Tick, Messages, Row
  <2>2. \A c \in Consumer : Holder(c)' = Holder(c)
    BY <1>1 DEF Tick, Holder, TypeOK, Activity, InCall
  <2>3. \A c \in Consumer : Holder(c) =>
          /\ ref'[c].claim_id = ref[c].claim_id /\ ref'[c].message = ref[c].message
          /\ ref'[c].acked = ref[c].acked
          /\ ref'[c].lease = Older(ref[c].lease)
    BY <1>1, <1>t DEF Tick, Ref
  <2>4. \A l \in Int : Older(l) >= 0 => l >= 0
    BY BoundsAssumption DEF Older, Expired
  <2>5. ClaimIsWhole'
    BY <2>1 DEF ClaimInv, ClaimIsWhole
  <2>6. ClaimAgrees'
    BY <2>1, <2>2, <2>3 DEF ClaimInv, ClaimAgrees
  <2>7. ClaimsDiffer'
    BY <2>2, <2>3 DEF ClaimInv, ClaimsDiffer
  <2>8. LiveIsHeld'
    <3> SUFFICES ASSUME NEW c \in Consumer, Holder(c)', ~ref'[c].acked, ref'[c].lease >= 0
                 PROVE  /\ ref'[c].message \in Messages'
                        /\ queue'[ref'[c].message].claim_id = ref'[c].claim_id
      BY DEF LiveIsHeld
    <3>1. Holder(c) /\ ~ref[c].acked /\ ref[c].lease >= 0
      BY <1>t, <2>2, <2>3, <2>4
    <3> QED
      BY <2>1, <2>3, <3>1 DEF ClaimInv, LiveIsHeld
  <2> QED
    BY <2>5, <2>6, <2>7, <2>8 DEF ClaimInv
<1>2. CASE store_message
  <2>1. UNCHANGED <<consumer, ref>> /\ \A c \in Consumer : Holder(c)' = Holder(c)
    BY <1>2 DEF store_message, Holder
  <2>2. queue'[stored + 1].claim_id = None
    BY <1>2, StoreEffect
  <2>3. ClaimIsWhole'
    BY <1>2, StoreEffect DEF ClaimInv, ClaimIsWhole
  <2>4. ClaimAgrees'
    BY <1>2, <1>t, <2>1, <2>2, NoneAssumption, StoreEffect DEF ClaimInv, ClaimAgrees
  <2>5. ClaimsDiffer' /\ LiveIsHeld'
    BY <1>2, <2>1, StoreEffect DEF ClaimInv, ClaimsDiffer, LiveIsHeld
  <2> QED
    BY <2>3, <2>4, <2>5 DEF ClaimInv
<1>3. ASSUME NEW c \in Consumer, UNCHANGED queue,
             \/ consumer' = consumer /\ ref' = ref
             \/ ref' = ref /\ Holder(c) /\ Go(c, "acking")
             \/ ref' = ref /\ ~Holder(c) /\ Go(c, "claiming")
             \/ ref' = ref /\ ~Holder(c) /\ Go(c, "idle")
             \/ Go(c, "idle") /\ ref' = [ref EXCEPT ![c] = None]
      PROVE  ClaimInv'
  <2>1. \A d \in Consumer : Holder(d)' => Holder(d) /\ ref'[d] = ref[d]
    BY <1>3 DEF Holder, Go, TypeOK
  <2> QED
    BY <1>3, <2>1 DEF ClaimInv, ClaimIsWhole, ClaimAgrees, ClaimsDiffer, LiveIsHeld, Messages
<1>4. ASSUME NEW c \in Consumer, BeginClaim(c) \/ BeginAck(c) \/ Forget(c) \/ IssueToken(c)
      PROVE  ClaimInv'
  BY <1>3, <1>4 DEF BeginClaim, BeginAck, Forget, IssueToken, Holder
<1>5. ASSUME NEW c \in Consumer, claim_message(c) PROVE ClaimInv'
  <2>0. ~Holder(c)
    BY <1>5 DEF claim_message, Holder
  <2>1. ASSUME NEW m \in Messages, NEW id \in ClaimId, NEW l \in Lease,
               Available(m, consumer[c].age), id \notin ClaimsInUse, Claimed(c, m, id, l)
        PROVE  ClaimInv'
    <3>1. /\ Messages' = Messages /\ \A n \in Messages : n # m => queue'[n] = queue[n]
          /\ queue'[m].claimed_by = worker_id[c] /\ queue'[m].claim_id = id /\ queue'[m].lease = l
      BY <1>t, <2>1 DEF Claimed, Messages, Row
    <3>2. /\ \A d \in Consumer : d # c => Holder(d)' = Holder(d) /\ ref'[d] = ref[d]
          /\ ref'[c].message = m /\ ref'[c].claim_id = id /\ ref'[c].lease = l
      BY <2>1 DEF Claimed, Go, Holder, TypeOK
    <3>3. /\ \A n \in Messages : queue[n].claim_id # id
          /\ \A d \in Consumer : Holder(d) => ref[d].claim_id # id
      BY <1>t, <2>1 DEF ClaimsInUse
    <3>4. \A d \in Consumer : d # c /\ Holder(d) /\ ~ref[d].acked /\ ref[d].lease >= 0 => ref[d].message # m
      <4> SUFFICES ASSUME NEW d \in Consumer, d # c, Holder(d), ~ref[d].acked, ref[d].lease >= 0,
                          ref[d].message = m
                   PROVE  FALSE
        OBVIOUS
      <4>1. queue[m].claim_id = ref[d].claim_id
        BY DEF ClaimInv, LiveIsHeld
      <4>2. queue[m].lease >= 0
        BY <4>1 DEF ClaimInv, ClaimAgrees
      <4>3. queue[m].claimed_by # None
        BY <1>t, <4>1, NoneAssumption DEF ClaimInv, ClaimIsWhole
      <4>4. consumer[c].age \in Nat
        BY BoundsAssumption DEF TypeOK, Activity
      <4> QED
        BY <1>t, <2>1, <4>2, <4>3, <4>4 DEF Available
    <3>5. ClaimIsWhole'
      BY <3>1, NoneAssumption DEF ClaimInv, ClaimIsWhole
    <3>6. ClaimAgrees'
      BY <2>0, <3>1, <3>2, <3>3 DEF ClaimInv, ClaimAgrees
    <3>7. ClaimsDiffer'
      BY <3>2, <3>3 DEF ClaimInv, ClaimsDiffer
    <3>8. LiveIsHeld'
      BY <3>1, <3>2, <3>4 DEF ClaimInv, LiveIsHeld
    <3> QED
      BY <3>5, <3>6, <3>7, <3>8 DEF ClaimInv
  <2>2. CASE Go(c, "idle") /\ UNCHANGED <<queue, ref>>
    BY <1>3, <2>0, <2>2
  <2> QED
    BY <1>5, <2>1, <2>2, ClaimEffect
<1>6. ASSUME NEW c \in Consumer, ack_message(c) \/ ack_queue_with_position(c) PROVE ClaimInv'
  <2>1. /\ Holder(c)
        /\ Messages' \subseteq Messages /\ \A m \in Messages' : queue'[m] = queue[m]
        /\ \A m \in Messages \ Messages' : m = ref[c].message /\ queue[m].claim_id = ref[c].claim_id
    BY <1>6, AckEffect DEF MatchesClaim
  <2>2. \A d \in Consumer : d # c /\ Holder(d)' => Holder(d) /\ ref'[d] = ref[d]
    BY <1>6, AckEffect DEF Go, Holder, TypeOK
  <2> DEFINE Same == /\ ref'[c].message = ref[c].message /\ ref'[c].claim_id = ref[c].claim_id
                     /\ ref'[c].lease = ref[c].lease
                     /\ ~ref'[c].acked => ~ref[c].acked /\ Messages' = Messages
  <2>3. Holder(c)' => Same
    <3>1. CASE Go(c, "idle")
      BY <3>1 DEF Go, Holder, TypeOK
    <3>2. ASSUME NEW b \in BOOLEAN, ref' = [ref EXCEPT ![c].acked = b],
                 Messages' # Messages => b, ref[c].acked => b
          PROVE  Same
      BY <1>t, <2>1, <3>2 DEF Ref, TypeOK
    <3> QED
      BY <1>6, <3>1, <3>2, AckEffect
  <2>4. ClaimIsWhole'
    BY <2>1 DEF ClaimInv, ClaimIsWhole
  <2>5. ClaimAgrees'
    BY <2>1, <2>2, <2>3 DEF ClaimInv, ClaimAgrees
  <2>6. ClaimsDiffer'
    BY <2>1, <2>2, <2>3 DEF ClaimInv, ClaimsDiffer
  <2>7. LiveIsHeld'
    <3> SUFFICES ASSUME NEW d \in Consumer, Holder(d)', ~ref'[d].acked, ref'[d].lease >= 0
                 PROVE  /\ ref'[d].message \in Messages'
                        /\ queue'[ref'[d].message].claim_id = ref'[d].claim_id
      BY DEF LiveIsHeld
    <3>1. CASE d = c
      BY <2>1, <2>3, <3>1 DEF ClaimInv, LiveIsHeld
    <3>2. CASE d # c
      <4>1. /\ Holder(d) /\ ref'[d] = ref[d] /\ ref[d].message \in Messages
            /\ queue[ref[d].message].claim_id = ref[d].claim_id
        BY <2>2, <3>2 DEF ClaimInv, LiveIsHeld
      <4>2. ref[d].claim_id # ref[c].claim_id
        BY <2>1, <3>2, <4>1 DEF ClaimInv, ClaimsDiffer
      <4> QED
        BY <2>1, <4>1, <4>2
    <3> QED
      BY <3>1, <3>2
  <2> QED
    BY <2>4, <2>5, <2>6, <2>7 DEF ClaimInv
<1>7. CASE UNCHANGED vars
  BY <1>7 DEF vars, ClaimInv, ClaimIsWhole, ClaimAgrees, ClaimsDiffer, LiveIsHeld, Messages, Holder
<1> QED
  BY <1>1, <1>2, <1>4, <1>5, <1>6, <1>7 DEF Next

IInv == TypeOK /\ QueueKeepsOrder /\ PositionOnlyWithAck /\ ClaimInv

\* The inductive invariant of the queue holds always.
LEMMA QueueInvariant == Spec => []IInv
<1>1. Init => IInv
  BY BoundsAssumption, NoneAssumption
  DEF Init, IInv, TypeOK, Messages, Activity, QueueKeepsOrder, PositionOnlyWithAck, ClaimInv, Holder,
      ClaimIsWhole, ClaimAgrees, ClaimsDiffer, LiveIsHeld
<1>2. IInv /\ [Next]_vars => IInv'
  BY TypeStep, OrderStep, PositionStep, ClaimStep DEF IInv
<1> QED
  BY <1>1, <1>2, PTL DEF Spec

\* The rows, references and calls of the queue keep their types: sequence
\* numbers stay numbers however often the queue runs empty.
THEOREM QueueTypeCorrect == Spec => []TypeOK
<1>1. IInv => TypeOK
  BY DEF IInv
<1> QED
  BY <1>1, QueueInvariant, PTL

\* While a consumer's lease runs nobody else can take or remove its message,
\* for any lease term and any wait between reading the clock and the mutex.
THEOREM LiveLeasesAreExclusive == Spec => []LiveLeaseIsExclusive
<1>1. IInv => LiveLeaseIsExclusive
  BY DEF IInv, ClaimInv, LiveIsHeld, LiveLeaseIsExclusive, TypeOK, Holder
<1> QED
  BY <1>1, QueueInvariant, PTL

\* The recorded position belongs to a message that is gone for good.
THEOREM PositionsAreAcked == Spec => []PositionOnlyWithAck
<1>1. IInv => PositionOnlyWithAck
  BY DEF IInv
<1> QED
  BY <1>1, QueueInvariant, PTL

\* The queue stays in the order of storing, for any number of messages and
\* however often MAX(sequence_number) + 1 starts again.
THEOREM OrderIsKept == Spec => []QueueKeepsOrder
<1>1. IInv => QueueKeepsOrder
  BY DEF IInv
<1> QED
  BY <1>1, QueueInvariant, PTL

\* A message leaves the queue only by the consumer with its newest claim.
THEOREM SupersededClaimsAckNothing == Spec => OnlyNewestClaimAcks
<1> DEFINE Newest == \A m \in Messages : m \notin Messages' =>
                       \E c \in Consumer : /\ consumer[c].pc = "acking"
                                           /\ ref[c].message = m
                                           /\ ref[c].claim_id = queue[m].claim_id
<1>1. TypeOK /\ [Next]_vars => Newest
  <2> SUFFICES ASSUME TypeOK, [Next]_vars PROVE Newest
    OBVIOUS
  <2>1. ASSUME NEW c \in Consumer, ack_message(c) \/ ack_queue_with_position(c) PROVE Newest
    BY <2>1, AckEffect DEF MatchesClaim
  <2>2. ASSUME NEW c \in Consumer, claim_message(c) PROVE Messages' = Messages
    BY <2>2, ClaimEffect DEF Claimed, Messages
  <2>3. CASE Tick \/ store_message
    BY <2>3, StoreEffect DEF Tick, Messages
  <2>4. ASSUME NEW c \in Consumer, BeginClaim(c) \/ BeginAck(c) \/ Forget(c) \/ IssueToken(c)
        PROVE  Messages' = Messages
    BY <2>4 DEF BeginClaim, BeginAck, Forget, IssueToken, Messages
  <2>5. CASE UNCHANGED vars
    BY <2>5 DEF vars, Messages
  <2> QED
    BY <2>1, <2>2, <2>3, <2>4, <2>5 DEF Next
<1> QED
  BY <1>1, QueueTypeCorrect, PTL DEF Spec, OnlyNewestClaimAcks

\* A message that comes before the first available one is claimed.
LEMMA OlderIsClaimed ==
    ASSUME IInv, NEW m \in Messages, NEW n \in Messages, n < m, NEW age,
           IsFirst(m, {k \in Messages : Available(k, age)})
    PROVE  queue[n].claim_id # None
<1>1. queue[m].sequence_number \in Nat /\ queue[n].sequence_number \in Nat
  BY DEF IInv, TypeOK, Row
<1>2. queue[n].sequence_number < queue[m].sequence_number
  BY DEF IInv, QueueKeepsOrder
<1>3. ~Available(n, age)
  BY <1>1, <1>2 DEF IsFirst
<1> QED
  BY <1>3 DEF Available, IInv, ClaimInv, ClaimIsWhole

\* Storing a message is storing it in the abstract queue.
LEMMA StoreRefines == IInv /\ store_message => Abstract!Store
<1> SUFFICES ASSUME IInv, store_message PROVE Abstract!Store
  OBVIOUS
<1> USE StoreEffect DEF IInv
<1>1. stored' = stored + 1 /\ Messages' = Messages \cup {stored + 1} /\ stored + 1 \notin Messages
  OBVIOUS
<1>2. \A m \in Messages : queue'[m].claim_id = queue[m].claim_id
  OBVIOUS
<1>3. queue'[stored + 1].claim_id = None
  OBVIOUS
<1>4. Owner' = [m \in Messages \cup {stored + 1} |-> IF m = stored + 1 THEN None ELSE Owner[m]]
  BY <1>1, <1>2, <1>3 DEF Owner
<1> QED
  BY <1>1, <1>4 DEF Abstract!Store, Abstract!waiting, Owner

\* Claiming the first available row is claiming the oldest message that is
\* free, however late the call comes.
LEMMA ClaimRefines ==
    ASSUME IInv, NEW c \in Consumer, claim_message(c)
    PROVE  [Abstract!Next]_Abstract!vars
<1>1. CASE UNCHANGED queue
  BY <1>1 DEF claim_message, Abstract!vars, Owner, Messages
<1>2. ASSUME NEW m \in Messages, NEW id \in ClaimId, NEW l \in Lease,
             IsFirst(m, {n \in Messages : Available(n, consumer[c].age)}),
             id \notin ClaimsInUse, Claimed(c, m, id, l)
      PROVE  Abstract!Claim(m, id)
  <2>1. \A n \in Messages : n < m => Owner[n] # None
    BY <1>2, OlderIsClaimed DEF Owner
  <2>2. id \notin {Owner[n] : n \in Messages}
    BY <1>2 DEF ClaimsInUse, Owner
  <2>3. \A n \in Messages : queue[n] \in Row
    BY DEF IInv, TypeOK
  <2>4. /\ Messages' = Messages /\ \A n \in Messages : n # m => queue'[n] = queue[n]
        /\ queue'[m].claim_id = id
    BY <1>2, <2>3 DEF Claimed, Messages, Row
  <2>5. Owner' = [Owner EXCEPT ![m] = id]
    BY <2>4 DEF Owner
  <2> QED
    BY <2>1, <2>2, <2>5 DEF Abstract!Claim, Abstract!waiting, Owner, claim_message
<1> QED
  BY <1>1, <1>2, ClaimEffect DEF IInv, Abstract!Next, Abstract!waiting, Owner

\* An acknowledging call removes the one message of its claim, or nothing.
LEMMA AckRefines ==
    ASSUME IInv, NEW c \in Consumer, ack_message(c) \/ ack_queue_with_position(c)
    PROVE  [Abstract!Next]_Abstract!vars
<1> DEFINE m == ref[c].message
<1>1. /\ Messages' \subseteq Messages /\ \A n \in Messages' : queue'[n] = queue[n]
      /\ \A n \in Messages \ Messages' : n = m /\ queue[n].claim_id = ref[c].claim_id
      /\ UNCHANGED stored /\ Holder(c)
  BY AckEffect DEF IInv, MatchesClaim
<1>2. CASE Messages' = Messages
  <2>1. Owner' = Owner
    BY <1>1, <1>2 DEF Owner
  <2> QED
    BY <1>1, <2>1 DEF Abstract!vars
<1>3. CASE Messages' # Messages
  <2>1. m \in Messages /\ Messages' = Messages \ {m} /\ queue[m].claim_id = ref[c].claim_id
    BY <1>1, <1>3
  <2>2. ref[c].claim_id # None
    BY <1>1, NoneAssumption DEF IInv, TypeOK, Holder, Ref
  <2> HIDE DEF m
  <2>3. Owner[m] # None
    BY <2>1, <2>2 DEF Owner
  <2>4. Owner' = [n \in Messages \ {m} |-> Owner[n]]
    BY <1>1, <2>1 DEF Owner
  <2> QED
    BY <1>1, <2>1, <2>3, <2>4 DEF Abstract!Next, Abstract!Acknowledge, Abstract!waiting, Owner
<1> QED
  BY <1>2, <1>3

\* The durable queue implements the abstract one, for any number of consumers,
\* messages and claims: every step of a consumer, of the clock or of a crash
\* stores, claims or removes a message as MessageQueue allows, or changes
\* nothing MessageQueue speaks of.
THEOREM QueueRefinement == Spec => ImplementsMessageQueue
<1>1. Init => Abstract!Init
  <2>1. Init => Messages = {}
    BY DEF Init, Messages
  <2> QED
    BY <2>1 DEF Init, Abstract!Init, Owner
<1>2. IInv /\ [Next]_vars => [Abstract!Next]_Abstract!vars
  <2> SUFFICES ASSUME IInv, [Next]_vars PROVE [Abstract!Next]_Abstract!vars
    OBVIOUS
  <2>1. CASE Tick
    <3>1. Messages' = Messages /\ \A m \in Messages : queue'[m].claim_id = queue[m].claim_id
      BY <2>1 DEF Tick, Messages, IInv, TypeOK, Row
    <3>2. Owner' = Owner
      BY <3>1 DEF Owner
    <3> QED
      BY <2>1, <3>2 DEF Tick, Abstract!vars
  <2>2. CASE store_message
    BY <2>2, StoreRefines DEF Abstract!Next
  <2>3. ASSUME NEW c \in Consumer, claim_message(c) PROVE [Abstract!Next]_Abstract!vars
    BY <2>3, ClaimRefines
  <2>4. ASSUME NEW c \in Consumer, ack_message(c) \/ ack_queue_with_position(c)
        PROVE  [Abstract!Next]_Abstract!vars
    BY <2>4, AckRefines
  <2>5. ASSUME NEW c \in Consumer, BeginClaim(c) \/ BeginAck(c) \/ Forget(c) \/ IssueToken(c)
        PROVE  UNCHANGED <<queue, stored>>
    BY <2>5 DEF BeginClaim, BeginAck, Forget, IssueToken
  <2>6. CASE UNCHANGED <<queue, stored>>
    BY <2>6 DEF Abstract!vars, Owner, Messages
  <2> QED
    BY <2>1, <2>2, <2>3, <2>4, <2>5, <2>6 DEF Next, vars
<1> QED
  BY <1>1, <1>2, QueueInvariant, PTL DEF Spec, ImplementsMessageQueue, Abstract!Spec
=============================================================================
