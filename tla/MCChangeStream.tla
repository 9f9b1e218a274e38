--------------------------- MODULE MCChangeStream ---------------------------
(* A table with one row and one free key; "v " normalizes to "v".          *)
EXTENDS ChangeStream, TLC

MCLoaded == (1 :> Absent) @@ (2 :> "v")
MCNormal == ("v" :> "v") @@ ("v " :> "v") @@ ("w" :> "w")
=============================================================================
