------------------------- MODULE MCFabricOwnership -------------------------
(* Two sites with one worker id each and two dispatches: one for the first *)
(* worker id only, one for either.                                         *)
EXTENDS FabricOwnership, TLC

CONSTANTS east, west, w1, w2, d1, d2
AllSites == {east, west}
AllWorkers == {w1, w2}
SiteOfWorker == (w1 :> east) @@ (w2 :> west)
AllDispatches == {d1, d2}
WorkersOfDispatch == (d1 :> {w1}) @@ (d2 :> {w1, w2})
=============================================================================
