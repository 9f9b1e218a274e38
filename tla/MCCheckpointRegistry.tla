------------------------ MODULE MCCheckpointRegistry ------------------------
(***************************************************************************)
(* An instance of CheckpointRegistry for TLC: a migration fenced through   *)
(* its scopes "m1" and "m1/run", and one fenced through its own id.        *)
(***************************************************************************)
EXTENDS CheckpointRegistry, TLC

CONSTANTS m1, m2, r1, r1run, r2, p1, p2, NUMERIC, TIMESTAMP

MCMigrationOf == [r \in Resource |-> IF r = r2 THEN m2 ELSE m1]
MCPosition == {1, 2}

\* The registry only tells plans and types apart.
MCSymmetry ==
    Permutations({p1, p2}) \cup Permutations({NUMERIC, TIMESTAMP})

=============================================================================
