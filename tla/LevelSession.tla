----------------------------- MODULE LevelSession -----------------------------
(***************************************************************************)
(* The rules of a level in battle.Service: what StartLevel, PlayCard and   *)
(* EndTurn do to the runtimeSession of a player.  They run under rs.mu, so *)
(* each is one action here; BattleRuntime models the locks and the map,    *)
(* and Gameplay the settlement, which pays through PlayerEconomy.          *)
(*                                                                         *)
(* A call that is refused (unknown session, level over, card not in hand,  *)
(* not enough action points or resources) changes nothing and is no step.  *)
(***************************************************************************)
EXTENDS Integers, SequencesExt

CONSTANTS
    Card, Order, Resource,
    Level,         \* gamedata.LevelConfig of the level that is played
    Cost,          \* Cost[c]: action points that card c takes
    Effects,       \* Effects[c]: the effects of card c, in their order
    Requirements,  \* Requirements[o]: pairs of a resource and a count
    MaxSessions    \* bound: how many levels the player starts

\* The kinds of effects that do something, and those accepted and not played.
Effect ==
    [kind: {"gain"}, to: Resource, give: Int]
        \cup [kind: {"convert"}, from: Resource, take: Int, to: Resource, give: Int]
        \cup [kind: {"draw_card", "refresh_order"}]

\* validateCard, validateOrder and validateLevel: what the loaded data fulfils.
ASSUME LevelData ==
    /\ {Level.turnLimit, Level.actionPoints} \subseteq Nat \ {0}
    /\ {Level.initialOrders, Level.target} \subseteq Nat \ {0}
    /\ Level.pool \in Seq(Order) \ {<<>>}
    /\ Level.hand \subseteq Card
    /\ \A c \in Card : Cost[c] \in Nat /\ Effects[c] \in Seq(Effect) \ {<<>>}
    /\ \A o \in Order : Requirements[o] \in
           Seq([resource: Resource, count: Nat \ {0}]) \ {<<>>}

ASSUME SessionsBounded == MaxSessions \in Nat

VARIABLES
    session,  \* the runtime of the player's level, NoSession before the first
    started,  \* how many levels have been started: the id of the newest
    past      \* history: past[i] is how level i stood when its runtime was left

levelVars == <<session, started, past>>

\* LevelSession and the fields of runtimeSession.  drawn: nextOrderIndex;
\* pending: the orders whose rewards are in pendingRewards.
NewSession(orders, drawn) ==
    [alive |-> TRUE, turn |-> 1, actionPoint |-> Level.actionPoints,
     completed |-> 0, resources |-> [r \in Resource |-> 0],
     orders |-> orders, drawn |-> drawn, pending |-> <<>>,
     settled |-> FALSE, failed |-> FALSE]

\* The runtime has left Service.sessions; its last state is of no use.
NoSession == [NewSession(<<>>, 0) EXCEPT !.alive = FALSE]

LevelTypeOK ==
    /\ started \in 0..MaxSessions
    /\ session.alive \in BOOLEAN
    /\ session.turn \in 1..Level.turnLimit
    /\ session.actionPoint \in 0..Level.actionPoints
    /\ session.completed \in Nat
    /\ session.resources \in [Resource -> Int]
    /\ \A i \in DOMAIN session.orders :
           session.orders[i] \in [id: Order, done: BOOLEAN]
    /\ Range(session.pending) \subseteq Order
    /\ past \in [1..MaxSessions -> {"unborn", "won", "failed", "settled", "playing"}]

LevelInit ==
    /\ session = NoSession
    /\ started = 0
    /\ past = [i \in 1..MaxSessions |-> "unborn"]

Stage(s) ==
    IF s.settled THEN "settled"
    ELSE IF s.failed THEN "failed"
    ELSE IF s.completed >= Level.target THEN "won" ELSE "playing"

\* The runtime is left for good; later levels do not touch it.
Remember ==
    past' = IF session.alive THEN [past EXCEPT ![started] = Stage(session)] ELSE past

-----------------------------------------------------------------------------
(* Orders. *)

\* nextOrder: the pool is dealt round and round; weights are not looked at.
NextOrder(s) == [id |-> Level.pool[(s.drawn % Len(Level.pool)) + 1], done |-> FALSE]

Deal(s) == [s EXCEPT !.orders = Append(@, NextOrder(s)), !.drawn = @ + 1]

\* Mutant of CanComplete: one entry that is met is enough.
CanCompleteSomeEntry(resources, wanted) ==
    \E i \in DOMAIN wanted : resources[wanted[i].resource] >= wanted[i].count

\* canComplete: every entry of the list on its own.
CanComplete(resources, wanted) ==
    \A i \in DOMAIN wanted : resources[wanted[i].resource] >= wanted[i].count

\* consumeRequirements: every entry of the list is taken.
Consume(resources, wanted) ==
    LET left[n \in 0 .. Len(wanted)] ==
            IF n = 0 THEN resources
            ELSE [left[n - 1] EXCEPT ![wanted[n].resource] = @ - wanted[n].count]
    IN  left[Len(wanted)]

\* Mutant of Supplied: another order is dealt for the one that wins the level.
SuppliedToTheEnd(s) == s.completed <= Level.target

\* A completed order is replaced until the goal is reached.
Supplied(s) == s.completed < Level.target

CompleteOrder(s, i) ==
    LET o == s.orders[i].id
        t == [s EXCEPT !.resources = Consume(@, Requirements[o]),
                       !.orders[i].done = TRUE,
                       !.completed = @ + 1,
                       !.pending = Append(@, o)]
    IN IF Supplied(t) THEN Deal(t) ELSE t

Ready(s, i) ==
    /\ ~ s.orders[i].done
    /\ CanComplete(s.resources, Requirements[s.orders[i].id])

CompleteIfReady(s, i) == IF Ready(s, i) THEN CompleteOrder(s, i) ELSE s

\* The inner loop: the orders there are when it begins, in their order.
OnePass(s) ==
    LET pass[n \in 0 .. Len(s.orders)] ==
            IF n = 0 THEN s ELSE CompleteIfReady(pass[n - 1], n)
    IN  pass[Len(s.orders)]

\* Mutant of CompleteReadyOrders: orders dealt in the first pass are left.
CompleteInOnePass(s) == OnePass(s)

\* The outer loop ends with a pass that completes nothing.  A pass that does
\* completes at least one order, and no more than these are ever dealt.
MaxPasses == Level.initialOrders + Level.target

CompleteReadyOrders(s) ==
    LET after[n \in 0 .. MaxPasses] == IF n = 0 THEN s ELSE OnePass(after[n - 1])
    IN  after[MaxPasses]

-----------------------------------------------------------------------------
(* Cards. *)

\* What one effect does; a conversion needs its input.
Affordable(resources, e) ==
    e.kind = "convert" => resources[e.from] >= e.take

ApplyEffect(resources, e) ==
    CASE e.kind = "gain" -> [resources EXCEPT ![e.to] = @ + e.give]
      [] e.kind = "convert" ->
             [[resources EXCEPT ![e.from] = @ - e.take] EXCEPT ![e.to] = @ + e.give]
      [] OTHER -> resources

\* The state before effect i of the card, were all effects before it applied.
ResourcesBefore(s, c, i) ==
    LET have[n \in 0 .. i - 1] ==
            IF n = 0 THEN s.resources ELSE ApplyEffect(have[n - 1], Effects[c][n])
    IN  have[i - 1]

\* applyCardEffects works on a copy: the first effect that cannot be paid
\* refuses the card as a whole.
Playable(s, c) ==
    /\ c \in Level.hand
    /\ ~ s.settled /\ ~ s.failed
    /\ Cost[c] <= s.actionPoint
    /\ \A i \in DOMAIN Effects[c] :
           Affordable(ResourcesBefore(s, c, i), Effects[c][i])

-----------------------------------------------------------------------------

\* The orders a level begins with.
FirstOrders ==
    LET dealt[n \in 0 .. Level.initialOrders] ==
            IF n = 0 THEN NewSession(<<>>, 0) ELSE Deal(dealt[n - 1])
    IN  dealt[Level.initialOrders]

\* storeSession: an unfinished level is not replaced.
StartLevel ==
    /\ started < MaxSessions
    /\ session.alive => session.settled \/ session.failed
    /\ started' = started + 1
    /\ session' = FirstOrders
    /\ Remember

PlayCard(c) ==
    /\ session.alive
    /\ Playable(session, c)
    /\ session' = CompleteReadyOrders(
           [session EXCEPT !.actionPoint = @ - Cost[c],
                !.resources = ResourcesBefore(session, c, Len(Effects[c]) + 1)])
    /\ UNCHANGED <<started, past>>

\* Mutant of MayFail: reaching the goal is not looked at.
MayFailAnyway(s) == ~ s.settled /\ ~ s.failed

\* ErrLevelAlreadyComplete: a level whose goal is reached cannot fail.
MayFail(s) == ~ s.settled /\ ~ s.failed /\ s.completed < Level.target

EndTurn ==
    /\ session.alive
    /\ MayFail(session)
    /\ session' = IF session.turn >= Level.turnLimit
                  THEN [session EXCEPT !.failed = TRUE, !.actionPoint = 0]
                  ELSE [session EXCEPT !.turn = @ + 1,
                                       !.actionPoint = Level.actionPoints]
    /\ UNCHANGED <<started, past>>

\* Another server owns the player.
DeletePlayerRuntime ==
    /\ session.alive
    /\ session' = NoSession
    /\ Remember
    /\ UNCHANGED started

\* The commands of the client.
LevelCommand == StartLevel \/ EndTurn \/ \E c \in Card : PlayCard(c)

-----------------------------------------------------------------------------
(* Properties. *)

\* When a command returns, no order that could be completed is left open:
\* an order dealt while others were completed is completed by the same card.
NoReadyOrderWaits ==
    \A i \in DOMAIN session.orders : ~ Ready(session, i)

\* The orders on the table, the number completed and the rewards that wait
\* for the settlement tell the same story, and a level deals no more orders
\* than its goal needs: what can be earned in one level is bounded.
OrdersAddUp ==
    LET done == {i \in DOMAIN session.orders : session.orders[i].done}
    IN
    /\ session.completed = Cardinality(done)
    /\ \A o \in Order :
           Cardinality({i \in done : session.orders[i].id = o}) =
           Cardinality({i \in DOMAIN session.pending : session.pending[i] = o})
    /\ session.alive =>
           Len(session.orders) = Level.initialOrders +
               Min({session.completed, Level.target - 1})

\* A requirement listed twice is checked entry by entry and taken as a whole:
\* that drives a resource below zero, and nothing else does, unless the data
\* has a card that gives less than nothing, which validateCard lets pass.
NegativeOnlyByRepetition ==
    \A r \in Resource : session.resources[r] < 0 =>
        \/ \E o \in Range(session.pending) : \E i, j \in DOMAIN Requirements[o] :
               i # j /\ Requirements[o][i].resource = r /\ Requirements[o][j].resource = r
        \/ \E c \in Card : \E i \in DOMAIN Effects[c] :
               LET e == Effects[c][i]
               IN  e.kind \in {"gain", "convert"} /\ e.to = r /\ e.give < 0

\* The rules move a level only as LevelLifecycle allows: in particular a level
\* whose goal is reached never fails, and a finished one is never resumed.
Levels == INSTANCE LevelLifecycle WITH
    Session <- 1..MaxSessions,
    level <- [i \in 1..MaxSessions |->
                 IF i = started /\ session.alive THEN Stage(session) ELSE past[i]]
LevelsRunTheirCourse == Levels!Spec
=============================================================================
