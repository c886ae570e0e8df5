------------------------------- MODULE Gameplay -------------------------------
(***************************************************************************)
(* What a player does in the game: levels are played by the rules of       *)
(* LevelSession, and SettleLevel turns the rewards of a won level into     *)
(* property by a transaction of PlayerEconomy while it holds rs.mu.        *)
(*                                                                         *)
(* Host is the server where the player plays.  It handles one command of   *)
(* the player at a time, so a level moves only while Host has no other     *)
(* command; only DeletePlayerRuntime comes from another goroutine.  The    *)
(* other workers are servers from which the player moved or to which he    *)
(* moves.  Of the levels played there only the settlement is modelled.     *)
(***************************************************************************)
EXTENDS LevelSession, PlayerEconomy

CONSTANTS Host,
          OrderRewards,  \* OrderRewards[o]: a sequence of items and counts
          Elsewhere,     \* the rewards of orders of levels won elsewhere
          LostReplies    \* bound: how many COMMITs are not answered

ASSUME HostTyped == Host \in Worker /\ LostReplies \in Nat

\* validateOrder, and the same of the levels won elsewhere.
ASSUME RewardData ==
    /\ \A o \in Order : OrderRewards[o] \in Seq([item: Asset, count: Nat \ {0}])
    /\ Elsewhere \subseteq Seq([item: Asset, count: Nat \ {0}])

VARIABLES
    lost,   \* how many answers to a COMMIT have been lost
    grants  \* history: grants[i]: the committed settlements of level i

vars == <<levelVars, economyVars, lost, grants>>

TypeOK ==
    /\ LevelTypeOK
    /\ EconomyTypeOK
    /\ lost \in 0..LostReplies
    /\ grants \in [1..MaxSessions -> Nat]

Init ==
    /\ LevelInit
    /\ EconomyInit
    /\ lost = 0
    /\ grants = [i \in 1..MaxSessions |-> 0]

\* Host is in SettleLevel and holds rs.mu.
Settling == task[Host].op = "settle" /\ task[Host].pc # "idle"

\* A level command has the shard of the player to itself; the reconciler that
\* deletes a runtime does not take the shard, but it waits for rs.mu.
Play ==
    /\ \/ LevelCommand /\ task[Host].pc = "idle"
       \/ DeletePlayerRuntime /\ ~ Settling
    /\ UNCHANGED <<economyVars, lost, grants>>

Own ==
    /\ EconomyNext
    /\ UNCHANGED <<levelVars, lost, grants>>

\* Mutant of Settleable: the result of an earlier settlement is not kept.
SettleableAgain(s) == s.alive /\ ~ s.failed /\ s.completed >= Level.target

Settleable(s) == s.alive /\ ~ s.settled /\ ~ s.failed /\ s.completed >= Level.target

\* pendingRewards, in the order in which the orders were completed.
PendingRewards(s) ==
    LET rewards[n \in 0 .. Len(s.pending)] ==
            IF n = 0 THEN <<>> ELSE rewards[n - 1] \o OrderRewards[s.pending[n]]
    IN  rewards[Len(s.pending)]

Settle ==
    /\ Settleable(session)
    /\ BeginSettle(Host, PendingRewards(session))
    /\ UNCHANGED <<levelVars, lost, grants>>

\* A level that was won on another server.
SettleElsewhere(w) ==
    /\ w # Host
    /\ \E rewards \in Elsewhere : BeginSettle(w, rewards)
    /\ UNCHANGED <<levelVars, lost, grants>>

\* The transaction is committed, and if its answer arrives the runtime keeps
\* the result for the calls that follow.
CommitSettle(w, answered) ==
    /\ task[w].op = "settle"
    /\ Write(w) /\ Return(w)
    /\ answered \/ lost < LostReplies
    /\ lost' = IF answered THEN lost ELSE lost + 1
    /\ IF w = Host
       THEN /\ grants' = [grants EXCEPT ![started] = @ + 1]
            /\ session' = [session EXCEPT !.settled = answered]
       ELSE UNCHANGED <<grants, session>>
    /\ UNCHANGED <<started, past>>

Next ==
    \/ Play \/ Own \/ Settle
    \/ \E w \in Worker : \/ SettleElsewhere(w)
                         \/ \E answered \in BOOLEAN : CommitSettle(w, answered)

Spec == Init /\ [][Next]_vars

-----------------------------------------------------------------------------
(* Properties. *)

\* A level that was not won is never granted, in whatever order it is settled,
\* left and started anew; a settled level has been granted; and it has been
\* granted once, but for the COMMITs that were applied without an answer: no
\* deletion, displacement or repeated call is another way to a second grant.
GrantsAreWon ==
    \A i \in 1..MaxSessions :
        LET stage == IF i = started /\ session.alive THEN Stage(session) ELSE past[i]
        IN  /\ grants[i] <= lost + (IF stage = "settled" THEN 1 ELSE 0)
            /\ grants[i] > 0 => stage \in {"won", "settled"}
            /\ stage = "settled" => grants[i] > 0

\* "One in-memory session grants rewards only once; repeated calls return the
\* result of the first settlement" (the comment of SettleLevel), by the state
\* machine of the level itself (inventory_asset_design.md:479).
RewardsGrantedOnce == \A i \in 1..MaxSessions : grants[i] <= 1
=============================================================================
