----------------------------- MODULE MCPoolFile -----------------------------
(* PoolFile for TLC: chunks of no data, of a unit more, a unit less and just   *)
(* as much as the alignment; the last two are packed, one to the alignment.    *)
EXTENDS PoolFile, TLC

MCKindOf  == 0 :> 2 @@ 1 :> 1 @@ 4 :> 2 @@ 5 :> 3
MCDataLen == 0 :> 0 @@ 1 :> 5 @@ 4 :> 6 @@ 5 :> 7
MCZLen    == 0 :> 2 @@ 1 :> 5 @@ 4 :> 4 @@ 5 :> 3
=============================================================================
