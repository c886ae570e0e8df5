---------------------------- MODULE LevelLifecycle ----------------------------
(***************************************************************************)
(* What a client may rely on about the levels it starts, whatever the      *)
(* rules of the game and the locks of the server: a level is played until  *)
(* it is won or has failed, only a won level is settled, and what is over  *)
(* stays over.  A level may also be abandoned at any time: its runtime is  *)
(* dropped with the player's ownership and it never changes again.         *)
(***************************************************************************)
CONSTANT Session

VARIABLE level

\* "unborn": not started; "won": the goal is reached, nothing is granted yet.
Stage == {"unborn", "playing", "won", "failed", "settled"}

Init == level = [s \in Session |-> "unborn"]

Become(s, from, to) ==
    /\ level[s] = from
    /\ level' = [level EXCEPT ![s] = to]

Next ==
    \E s \in Session :
        \/ Become(s, "unborn", "playing")
        \/ Become(s, "playing", "won")
        \/ Become(s, "playing", "failed")
        \/ Become(s, "won", "settled")

Spec == Init /\ [][Next]_level
=============================================================================
