---------------------------- MODULE FencingTokens ----------------------------
(***************************************************************************)
(* The fencing tokens of the Durability authority (FencingTokenManager,    *)
(* durability/fencing/manager.py).  The table fencing_tokens keeps one     *)
(* epoch per resource; issuing a token for a resource increments its epoch *)
(* and returns a signed token that carries it.  A token is accepted by a   *)
(* write only while its epoch is the live one.                             *)
(*                                                                         *)
(* worker_id and issued_at enter the signature and nothing else, so a      *)
(* token is its resource and its epoch.  The signature leaves exactly the  *)
(* issued tokens: one for every epoch the resource has been through.  A    *)
(* holder may present one at any later time, however old it is.            *)
(***************************************************************************)
EXTENDS Naturals

CONSTANTS Resource,     \* resource ids tokens are issued for
          MaxEpoch      \* bound: epochs issued per resource

ASSUME MaxEpochAssumption == MaxEpoch \in Nat

VARIABLE current_epoch  \* fencing_tokens.current_epoch; 0 stands for no row

FencingTypeOK == current_epoch \in [Resource -> Nat]

FencingInit == current_epoch = [r \in Resource |-> 0]

\* The tokens whose HMAC verifies: those the manager has issued.
IssuedTokens ==
    UNION {{[resource_id |-> r, fencing_epoch |-> e] : e \in 1..current_epoch[r]}
             : r \in Resource}

\* A new epoch for the resource, in one BEGIN IMMEDIATE transaction.
issue_token(r) ==
    /\ current_epoch[r] < MaxEpoch
    /\ current_epoch' = [current_epoch EXCEPT ![r] = @ + 1]

\* The check made inside a write's own transaction: the row exists and its
\* epoch is exactly the token's.
validate_token_in_tx(t) ==
    /\ current_epoch[t.resource_id] # 0
    /\ t.fencing_epoch = current_epoch[t.resource_id]

=============================================================================
