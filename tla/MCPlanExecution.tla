-------------------------- MODULE MCPlanExecution --------------------------
(* Plans as the compiler builds them (chains, M1 to M6, and single nodes,  *)
(* M7, M8), and one with two independent roots for parallel attempts.      *)
EXTENDS PlanExecution, TLC

CONSTANTS extract, apply, audit
PlanRank == (extract :> 1) @@ (audit :> 2) @@ (apply :> 3)

Chain == {extract, apply}
ChainRank == [n \in Chain |-> PlanRank[n]]
ChainDeps == (extract :> {}) @@ (apply :> {extract})

Forked == {extract, audit, apply}
ForkedRank == [n \in Forked |-> PlanRank[n]]
ForkedDeps == (extract :> {}) @@ (audit :> {}) @@ (apply :> {extract})

Roots == {extract, audit}
RootsRank == [n \in Roots |-> PlanRank[n]]
RootsDeps == [n \in Roots |-> {}]

Threadwise == Permutations(Starts)
=============================================================================
