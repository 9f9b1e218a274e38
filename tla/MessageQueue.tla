----------------------------- MODULE MessageQueue -----------------------------
(***************************************************************************)
(* What the durable queue promises: messages wait in the order they were   *)
(* stored and each is delivered until it is acknowledged and never after,  *)
(* a claim takes the oldest message that is not claimed or whose claim is  *)
(* given up for lost, a new claim supersedes the one before, and only the  *)
(* newest claim can remove its message.                                    *)
(***************************************************************************)
EXTENDS Naturals

CONSTANTS ClaimId, None

VARIABLES stored,       \* messages stored so far; they are numbered in that order
          owner         \* message that waits -> the newest claim on it, or None

vars == <<stored, owner>>

waiting == DOMAIN owner

Init == stored = 0 /\ owner = [m \in {} |-> None]

Store ==
    /\ stored' = stored + 1
    /\ owner' = [m \in waiting \cup {stored'} |-> IF m = stored' THEN None ELSE owner[m]]

\* The messages older than the one that is claimed are all claimed already.
Claim(m, id) ==
    /\ \A n \in waiting : n < m => owner[n] # None
    /\ id \notin {owner[n] : n \in waiting}
    /\ owner' = [owner EXCEPT ![m] = id]
    /\ UNCHANGED stored

\* Only a message that was claimed is removed, and no other one with it.
Acknowledge(m) ==
    /\ owner[m] # None
    /\ owner' = [n \in waiting \ {m} |-> owner[n]]
    /\ UNCHANGED stored

Next ==
    \/ Store
    \/ \E m \in waiting : Acknowledge(m) \/ \E id \in ClaimId : Claim(m, id)

Spec == Init /\ [][Next]_vars

=============================================================================
