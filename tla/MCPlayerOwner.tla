--------------------------- MODULE MCPlayerOwner ---------------------------
(* One player, two servers and three logins: A, then B, then A again, in    *)
(* every order and overlap; or two servers and one login each for liveness. *)
EXTENDS PlayerOwner, TLC

CONSTANTS A, B, c1, c2, c3, p

ReturnNodeOf == c1 :> A @@ c2 :> B @@ c3 :> A
MoveNodeOf == c1 :> A @@ c2 :> B
SameNodeOf == c1 :> A @@ c3 :> A
OnePlayer == [c \in Conn |-> p]
SameServer == Permutations({c1, c3})

\* A bound of the safety run: the rounds of the two servers' reconcilers do not
\* overlap.  A round still overlaps with everything else.
OneRound == Cardinality({n \in Node : rec[n].pc # "idle"}) <= 1
=============================================================================
