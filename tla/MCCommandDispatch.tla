-------------------------- MODULE MCCommandDispatch --------------------------
(* Two connections on server A, one on B.  grant and reuse have one req_id; *)
(* spend has its own.                                                       *)
EXTENDS CommandDispatch, TLC

CONSTANTS A, B, a1, a2, b1, grant, reuse, spend

Place == a1 :> A @@ a2 :> A @@ b1 :> B
Ids == grant :> 1 @@ reuse :> 1 @@ spend :> 2
Changes == grant :> 1 @@ reuse :> 2 @@ spend :> -1
SameServer == Permutations({a1, a2})
=============================================================================
