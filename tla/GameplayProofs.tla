---------------------------- MODULE GameplayProofs ----------------------------
(***************************************************************************)
(* A player's levels and his economy, for any level, cards, orders and     *)
(* assets, and any number of servers.                                      *)
(*                                                                         *)
(* A command of a level runs loops: over the entries of a price, over the  *)
(* effects of a card, over the orders, pass by pass.  Sections 1 to 4 say  *)
(* what the functions that define these loops compute, by induction on the *)
(* number of steps.  Sound, which every command keeps, is what they add    *)
(* up to: no order waits that could be completed, the orders done, the     *)
(* counter and the pending rewards agree, and a resource is below zero     *)
(* only for one of two reasons.                                            *)
(*                                                                         *)
(* A step of the economy is one of nine kinds (Section 6), which read and  *)
(* write the rows of FirstClearKept and AbsenceKept in their own way.      *)
(* AbsenceKept is about a player whose commands are not overlapped: what   *)
(* his claim has read from the row is still there when it is paid.         *)
(*                                                                         *)
(* LevelsArePaid is about sums: the levels of cards and facilities have    *)
(* cost no more than the log has taken.  Section 5 says what those sums    *)
(* are and how one more level changes them.  With two workers the levels   *)
(* in the rows may go back, when a COMMIT stores what was computed from an *)
(* older read, and the same level is then paid again.  So the invariant    *)
(* (Section 7) speaks of the highest levels that were ever stored, top:    *)
(* they are paid, nothing that is stored or was read for a COMMIT is above *)
(* them, and a COMMIT raises top by at most the level whose price it has   *)
(* just paid.  While one worker at a time executes, the rows are those     *)
(* levels and the books balance.                                           *)
(*                                                                         *)
(* GrantsKept joins the two: the stage of a level bounds what was granted  *)
(* for it, given that the level whose settlement is being committed may    *)
(* still be settled (SettlingIsDue).                                       *)
(***************************************************************************)
EXTENDS Gameplay, FiniteSetTheorems, SequenceTheorems, TLAPS

-----------------------------------------------------------------------------
(* 1. Induction, and functions defined by recursion. *)

\* Induction: no number is the least one outside S.
LEMMA SetInduction ==
    ASSUME NEW S, 0 \in S, \A n \in Nat : n \in S => n + 1 \in S
    PROVE  \A n \in Nat : n \in S
<1> SUFFICES ASSUME NEW k \in Nat, k \notin S PROVE FALSE
    OBVIOUS
<1> DEFINE T == {n \in Nat : n \notin S}
           R == OpToRel(<, Nat)
<1>1. \E x \in T : \A y \in T : ~ (<<y, x>> \in R)
    <2>1. T \subseteq Nat /\ T # {} /\ IsWellFoundedOn(R, Nat)
        BY NatLessThanWellFounded
    <2> HIDE DEF T, R
    <2> QED
        BY <2>1, WFMin
<1>2. PICK x \in T : \A y \in T : ~ (y < x)
    BY <1>1 DEF OpToRel
<1>3. x - 1 \in Nat /\ x - 1 < x /\ x - 1 + 1 = x
    OBVIOUS
<1> QED
    BY <1>2, <1>3

\* What a step keeps, the function that the steps define keeps.
LEMMA Closed ==
    ASSUME NEW S, NEW N \in Nat, NEW f, f[0] \in S,
           \A n \in 1 .. N : f[n - 1] \in S => f[n] \in S
    PROVE  \A n \in 0 .. N : f[n] \in S
<1> DEFINE T == {m \in Nat : m <= N => f[m] \in S}
<1>1. 0 \in T
    OBVIOUS
<1>2. ASSUME NEW m \in Nat, m \in T PROVE m + 1 \in T
    <2> SUFFICES ASSUME m + 1 <= N PROVE f[m + 1] \in S
        OBVIOUS
    <2>1. m + 1 \in 1 .. N /\ m + 1 - 1 = m /\ f[m] \in S
        BY <1>2
    <2> QED
        BY <2>1
<1>3. \A m \in Nat : m \in T
    <2> HIDE DEF T
    <2> QED
        BY <1>1, <1>2, SetInduction
<1> QED
    BY <1>3

\* A function that is defined by what it does to its last value exists.
Recursive(S) ==
    \A x \in S : \A N \in Nat : \A G \in [1 .. N -> [S -> S]] :
        \E f \in [0 .. N -> S] :
            f[0] = x /\ \A n \in 1 .. N : f[n] = G[n][f[n - 1]]

\* Such a function exists: it is built value by value.
LEMMA Recursion == \A S : Recursive(S)
<1> SUFFICES ASSUME NEW S, NEW x \in S, NEW N \in Nat, NEW G \in [1 .. N -> [S -> S]]
             PROVE  \E f \in [0 .. N -> S] :
                        f[0] = x /\ \A n \in 1 .. N : f[n] = G[n][f[n - 1]]
    BY DEF Recursive
<1> DEFINE Reaches(f, m) ==
               /\ f \in [0 .. m -> S]
               /\ f[0] = x
               /\ \A n \in 1 .. m : f[n] = G[n][f[n - 1]]
           T == {m \in Nat : m <= N => \E f : Reaches(f, m)}
<1>1. 0 \in T
    <2>1. Reaches([n \in 0 .. 0 |-> x], 0)
        OBVIOUS
    <2> HIDE DEF Reaches
    <2> QED
        BY <2>1
<1>2. ASSUME NEW m \in Nat, m \in T PROVE m + 1 \in T
    <2> SUFFICES ASSUME m + 1 <= N PROVE \E g : Reaches(g, m + 1)
        OBVIOUS
    <2>1. PICK f : Reaches(f, m)
        BY <1>2
    <2> DEFINE g == [n \in 0 .. m + 1 |-> IF n = m + 1 THEN G[n][f[m]] ELSE f[n]]
    <2>2. f[m] \in S /\ G[m + 1][f[m]] \in S
        BY <2>1
    <2>3. g \in [0 .. m + 1 -> S] /\ g[0] = x
        BY <2>1, <2>2
    <2>4. ASSUME NEW n \in 1 .. m + 1 PROVE g[n] = G[n][g[n - 1]]
        <3>1. n - 1 \in 0 .. m /\ g[n - 1] = f[n - 1]
            OBVIOUS
        <3>2. CASE n = m + 1
            BY <3>1, <3>2
        <3>3. CASE n \in 1 .. m
            BY <2>1, <3>1, <3>3
        <3> QED
            BY <3>2, <3>3
    <2>5. Reaches(g, m + 1)
        BY <2>3, <2>4
    <2> HIDE DEF g, Reaches
    <2> QED
        BY <2>5
<1>3. \A m \in Nat : m \in T
    <2> HIDE DEF T
    <2> QED
        BY <1>1, <1>2, SetInduction
<1>4. PICK f : Reaches(f, N)
    <2> HIDE DEF Reaches
    <2> QED
        BY <1>3
<1> QED
    BY <1>4

-----------------------------------------------------------------------------
(* 2. What the rules of a level are about. *)

\* What Go's types and the rules make of a level's fields.
OrderState == [id: Order, done: BOOLEAN]
Resources == [Resource -> Int]
Wants == Seq([resource: Resource, count: Nat \ {0}])

Sessions ==
    [alive: BOOLEAN, turn: 1 .. Level.turnLimit, actionPoint: 0 .. Level.actionPoints,
     completed: Nat, resources: Resources, orders: Seq(OrderState), drawn: Nat,
     pending: Seq(Order), settled: BOOLEAN, failed: BOOLEAN]

\* The orders on the table, the number completed and the pending rewards agree.
Counted(s) ==
    LET done == {i \in 1 .. Len(s.orders) : s.orders[i].done}
    IN
    /\ s.completed = Cardinality(done)
    /\ \A o \in Order : Cardinality({i \in done : s.orders[i].id = o}) =
                        Cardinality({i \in 1 .. Len(s.pending) : s.pending[i] = o})

\* So many orders have been dealt.
Dealt(s) ==
    Len(s.orders) = Level.initialOrders +
        (IF s.completed < Level.target THEN s.completed ELSE Level.target - 1)

\* A price that names r twice.
Repeated(r, wanted) ==
    \E i, j \in 1 .. Len(wanted) : i # j /\ wanted[i].resource = r /\ wanted[j].resource = r

\* validateCard lets a gain or a conversion give a negative amount.
Drains(r) ==
    \E c \in Card : \E i \in 1 .. Len(Effects[c]) :
        LET e == Effects[c][i]
        IN  e.kind \in {"gain", "convert"} /\ e.to = r /\ e.give < 0

\* What explains a resource below zero.
Explained(s) ==
    \A r \in Resource : s.resources[r] < 0 =>
        Drains(r) \/ \E i \in 1 .. Len(s.pending) : Repeated(r, Requirements[s.pending[i]])

\* No order is open whose requirements are met.
NoneReady(s) == \A i \in 1 .. Len(s.orders) : ~ Ready(s, i)

\* What s becomes by completing orders.
Advanced(s) ==
    {t \in Sessions :
        /\ t.alive = s.alive /\ t.turn = s.turn /\ t.actionPoint = s.actionPoint
        /\ t.settled = s.settled /\ t.failed = s.failed
        /\ t.completed >= s.completed /\ Len(t.orders) >= Len(s.orders)
        /\ Counted(s) => Counted(t)
        /\ Counted(s) /\ Dealt(s) => Dealt(t)
        /\ Explained(s) => Explained(t)}

\* The price of an order is a list of resources and counts.
LEMMA RequirementsType ==
    ASSUME NEW o \in Order
    PROVE  Requirements[o] \in Wants
    BY LevelData DEF Wants

\* consumeRequirements, entry by entry.
LEMMA ConsumeSteps ==
    ASSUME NEW r \in Resources, NEW wanted \in Wants
    PROVE  \E left \in [0 .. Len(wanted) -> Resources] :
               /\ left[0] = r
               /\ \A n \in 1 .. Len(wanted) :
                      left[n] = [left[n - 1] EXCEPT ![wanted[n].resource] = @ - wanted[n].count]
               /\ Consume(r, wanted) = left[Len(wanted)]
<1> DEFINE N == Len(wanted)
           Step(n, h) == [h EXCEPT ![wanted[n].resource] = @ - wanted[n].count]
           G == [n \in 1 .. N |-> [h \in Resources |-> Step(n, h)]]
           Steps(f) == f = [n \in 0 .. N |-> IF n = 0 THEN r ELSE Step(n, f[n - 1])]
           left == CHOOSE f : Steps(f)
<1>1. N \in Nat /\ r \in Resources
    BY LenProperties DEF Wants
<1>2. ASSUME NEW n \in 1 .. N, NEW h \in Resources PROVE Step(n, h) \in Resources
    <2>1. wanted[n] \in [resource: Resource, count: Nat \ {0}]
        BY ElementOfSeq DEF Wants
    <2> QED
        BY <2>1 DEF Resources
<1>3. Consume(r, wanted) = left[N]
    BY DEF Consume
<1> HIDE DEF N, Step
<1>4. G \in [1 .. N -> [Resources -> Resources]]
    BY <1>2
<1>5. \E f : Steps(f)
    <2>1. PICK f \in [0 .. N -> Resources] :
                f[0] = r /\ \A n \in 1 .. N : f[n] = G[n][f[n - 1]]
        <3> HIDE DEF G, Steps, left
        <3>1. Recursive(Resources)
            BY Recursion
        <3> QED
            BY <1>1, <1>4, <3>1 DEF Recursive
    <2>2. ASSUME NEW n \in 0 .. N
          PROVE  f[n] = IF n = 0 THEN r ELSE Step(n, f[n - 1])
        <3> HIDE DEF Steps, left
        <3>1. CASE n = 0
            BY <2>1, <3>1
        <3>2. CASE n \in 1 .. N
            <4>1. f[n - 1] \in Resources
                <5> HIDE DEF G
                <5> QED
                    BY <1>1, <2>1, <3>2
            <4> QED
                BY <2>1, <3>2, <4>1
        <3> QED
            BY <1>1, <3>1, <3>2
    <2>3. Steps(f)
        <3> HIDE DEF G, left
        <3> QED
            BY <2>1, <2>2
    <2> QED
        BY <2>3
<1>6. Steps(left)
    BY <1>5
<1> HIDE DEF left
<1>7. left[0] = r /\ \A n \in 1 .. N : left[n] = Step(n, left[n - 1])
    BY <1>1, <1>6
<1> HIDE DEF Steps
<1>8. \A n \in 0 .. N : left[n] \in Resources
    <2>1. ASSUME NEW n \in 1 .. N, left[n - 1] \in Resources PROVE left[n] \in Resources
        BY <1>2, <1>7, <2>1
    <2> QED
        BY <1>1, <1>7, <2>1, Closed
<1>9. left \in [0 .. N -> Resources]
    <2>1. left = [n \in 0 .. N |-> left[n]]
        BY <1>6 DEF Steps
    <2> HIDE DEF G
    <2> QED
        BY <1>8, <2>1
<1> QED
    BY <1>3, <1>7, <1>9 DEF N, Step

\* A price leaves counts of resources, possibly negative ones.
LEMMA ConsumeType ==
    ASSUME NEW r \in Resources, NEW wanted \in Wants
    PROVE  Consume(r, wanted) \in Resources
<1>1. PICK left \in [0 .. Len(wanted) -> Resources] : Consume(r, wanted) = left[Len(wanted)]
    BY ConsumeSteps
<1>2. Len(wanted) \in Nat
    BY LenProperties DEF Wants
<1> QED
    BY <1>1, <1>2

\* An entry that is met and not repeated takes nothing that is not there.
LEMMA ConsumeCovered ==
    ASSUME NEW r \in Resources, NEW wanted \in Wants, CanComplete(r, wanted),
           NEW a \in Resource, r[a] >= 0, ~ Repeated(a, wanted)
    PROVE  Consume(r, wanted)[a] >= 0
<1> DEFINE N == Len(wanted)
<1>1. PICK left \in [0 .. N -> Resources] :
          /\ left[0] = r
          /\ \A n \in 1 .. N :
                 left[n] = [left[n - 1] EXCEPT ![wanted[n].resource] = @ - wanted[n].count]
          /\ Consume(r, wanted) = left[N]
    BY ConsumeSteps
<1>2. N \in Nat /\ \A i \in 1 .. N : wanted[i] \in [resource: Resource, count: Nat \ {0}]
    BY LenProperties, ElementOfSeq DEF Wants
<1>3. \A i \in 1 .. N : r[wanted[i].resource] >= wanted[i].count
    BY LenProperties DEF CanComplete, Wants
<1>4. \A i, j \in 1 .. N : wanted[i].resource = a /\ wanted[j].resource = a => i = j
    BY DEF Repeated
<1> HIDE DEF N
<1> DEFINE T == {n \in Nat : n <= N =>
                    \/ /\ \A i \in 1 .. n : wanted[i].resource # a
                       /\ left[n][a] = r[a]
                    \/ \E i \in 1 .. n : /\ wanted[i].resource = a
                                         /\ left[n][a] = r[a] - wanted[i].count}
<1>5. 0 \in T
    BY <1>1
<1>6. ASSUME NEW n \in Nat, n \in T PROVE n + 1 \in T
    <2> SUFFICES ASSUME n + 1 <= N
                 PROVE  \/ /\ \A i \in 1 .. n + 1 : wanted[i].resource # a
                           /\ left[n + 1][a] = r[a]
                        \/ \E i \in 1 .. n + 1 : /\ wanted[i].resource = a
                                                 /\ left[n + 1][a] = r[a] - wanted[i].count
        OBVIOUS
    <2>1. n + 1 \in 1 .. N /\ n + 1 - 1 = n /\ n \in 0 .. N
        BY <1>2
    <2>2. left[n + 1] = [left[n] EXCEPT ![wanted[n + 1].resource] = @ - wanted[n + 1].count]
          /\ left[n] \in Resources
        BY <1>1, <2>1
    <2>3. left[n + 1][a] = IF wanted[n + 1].resource = a THEN left[n][a] - wanted[n + 1].count
                           ELSE left[n][a]
        BY <2>2 DEF Resources
    <2>4. \/ /\ \A i \in 1 .. n : wanted[i].resource # a
             /\ left[n][a] = r[a]
          \/ \E i \in 1 .. n : wanted[i].resource = a /\ left[n][a] = r[a] - wanted[i].count
        BY <1>6, <2>1
    <2>5. CASE wanted[n + 1].resource = a
        <3>1. \A i \in 1 .. n : wanted[i].resource # a
            <4>1. \A i \in 1 .. n : i \in 1 .. N /\ i # n + 1
                BY <1>2, <2>1
            <4> QED
                BY <1>4, <2>1, <2>5, <4>1
        <3> QED
            BY <2>3, <2>4, <2>5, <3>1
    <2>6. CASE wanted[n + 1].resource # a
        BY <2>3, <2>4, <2>6
    <2> QED
        BY <2>5, <2>6
<1>7. \A n \in Nat : n \in T
    <2> HIDE DEF T
    <2> QED
        BY <1>5, <1>6, SetInduction
<1>8. \/ left[N][a] = r[a]
      \/ \E i \in 1 .. N : wanted[i].resource = a /\ left[N][a] = r[a] - wanted[i].count
    BY <1>2, <1>7
<1>9. r[a] \in Int
    BY DEF Resources
<1> QED
    BY <1>1, <1>2, <1>3, <1>8, <1>9

-----------------------------------------------------------------------------
(* 3. Cards. *)

\* A single effect gives counts of resources.
LEMMA EffectType ==
    ASSUME NEW r \in Resources, NEW e \in Effect
    PROVE  ApplyEffect(r, e) \in Resources
    BY DEF ApplyEffect, Effect, Resources

\* An effect that can be paid takes nothing that is not there.
LEMMA EffectCovered ==
    ASSUME NEW r \in Resources, NEW e \in Effect, Affordable(r, e), NEW a \in Resource,
           r[a] >= 0,
           e.kind \in {"gain", "convert"} /\ e.to = a => e.give >= 0
    PROVE  ApplyEffect(r, e)[a] >= 0
    BY DEF ApplyEffect, Affordable, Effect, Resources

\* applyCardEffects, effect by effect.
LEMMA ResourcesSteps ==
    ASSUME NEW s \in Sessions, NEW c \in Card, NEW i \in 1 .. Len(Effects[c]) + 1
    PROVE  \E left \in [0 .. i - 1 -> Resources] :
               /\ left[0] = s.resources
               /\ \A n \in 1 .. i - 1 : left[n] = ApplyEffect(left[n - 1], Effects[c][n])
               /\ ResourcesBefore(s, c, i) = left[i - 1]
<1> DEFINE N == i - 1
           Step(n, h) == ApplyEffect(h, Effects[c][n])
           G == [n \in 1 .. N |-> [h \in Resources |-> Step(n, h)]]
           Steps(f) == f = [n \in 0 .. N |-> IF n = 0 THEN s.resources ELSE Step(n, f[n - 1])]
           left == CHOOSE f : Steps(f)
<1>1. N \in Nat /\ s.resources \in Resources
    BY LevelData, LenProperties DEF Sessions
<1>2. ASSUME NEW n \in 1 .. N, NEW h \in Resources PROVE Step(n, h) \in Resources
    <2>1. Effects[c] \in Seq(Effect) /\ n \in 1 .. Len(Effects[c])
        BY LevelData, LenProperties
    <2>2. Effects[c][n] \in Effect
        BY <2>1, ElementOfSeq
    <2> QED
        BY <2>2, EffectType
<1>3. ResourcesBefore(s, c, i) = left[N]
    BY DEF ResourcesBefore
<1> HIDE DEF N, Step
<1>4. G \in [1 .. N -> [Resources -> Resources]]
    BY <1>2
<1>5. \E f : Steps(f)
    <2>1. PICK f \in [0 .. N -> Resources] :
                f[0] = s.resources /\ \A n \in 1 .. N : f[n] = G[n][f[n - 1]]
        <3> HIDE DEF G, Steps, left
        <3>1. Recursive(Resources)
            BY Recursion
        <3> QED
            BY <1>1, <1>4, <3>1 DEF Recursive
    <2>2. ASSUME NEW n \in 0 .. N
          PROVE  f[n] = IF n = 0 THEN s.resources ELSE Step(n, f[n - 1])
        <3> HIDE DEF Steps, left
        <3>1. CASE n = 0
            BY <2>1, <3>1
        <3>2. CASE n \in 1 .. N
            <4>1. f[n - 1] \in Resources
                <5> HIDE DEF G
                <5> QED
                    BY <1>1, <2>1, <3>2
            <4> QED
                BY <2>1, <3>2, <4>1
        <3> QED
            BY <1>1, <3>1, <3>2
    <2>3. Steps(f)
        <3> HIDE DEF G, left
        <3> QED
            BY <2>1, <2>2
    <2> QED
        BY <2>3
<1>6. Steps(left)
    BY <1>5
<1> HIDE DEF left
<1>7. left[0] = s.resources /\ \A n \in 1 .. N : left[n] = Step(n, left[n - 1])
    BY <1>1, <1>6
<1> HIDE DEF Steps
<1>8. \A n \in 0 .. N : left[n] \in Resources
    <2>1. ASSUME NEW n \in 1 .. N, left[n - 1] \in Resources PROVE left[n] \in Resources
        BY <1>2, <1>7, <2>1
    <2> QED
        BY <1>1, <1>7, <2>1, Closed
<1>9. left \in [0 .. N -> Resources]
    <2>1. left = [n \in 0 .. N |-> left[n]]
        BY <1>6 DEF Steps
    <2> HIDE DEF G
    <2> QED
        BY <1>8, <2>1
<1> QED
    BY <1>3, <1>7, <1>9 DEF N, Step

\* So do any number of effects.
LEMMA ResourcesBeforeType ==
    ASSUME NEW s \in Sessions, NEW c \in Card, NEW i \in 1 .. Len(Effects[c]) + 1
    PROVE  ResourcesBefore(s, c, i) \in Resources
<1>1. PICK left \in [0 .. i - 1 -> Resources] : ResourcesBefore(s, c, i) = left[i - 1]
    BY ResourcesSteps
<1>2. i - 1 \in 0 .. i - 1
    BY LevelData, LenProperties
<1> QED
    BY <1>1, <1>2

\* Each effect applies to what the effects before it leave.
LEMMA ResourcesBeforeNext ==
    ASSUME NEW s \in Sessions, NEW c \in Card, NEW i \in 1 .. Len(Effects[c])
    PROVE  ResourcesBefore(s, c, i + 1) =
               ApplyEffect(ResourcesBefore(s, c, i), Effects[c][i])
<1>1. Len(Effects[c]) \in Nat /\ i \in Nat /\ i >= 1
    BY LevelData, LenProperties
<1>2. i \in 1 .. Len(Effects[c]) + 1 /\ i + 1 \in 1 .. Len(Effects[c]) + 1 /\ i + 1 - 1 = i
    BY <1>1
<1>3. PICK f \in [0 .. i - 1 -> Resources] :
          /\ f[0] = s.resources
          /\ \A n \in 1 .. i - 1 : f[n] = ApplyEffect(f[n - 1], Effects[c][n])
          /\ ResourcesBefore(s, c, i) = f[i - 1]
    BY <1>2, ResourcesSteps
<1>4. PICK g \in [0 .. i -> Resources] :
          /\ g[0] = s.resources
          /\ \A n \in 1 .. i : g[n] = ApplyEffect(g[n - 1], Effects[c][n])
          /\ ResourcesBefore(s, c, i + 1) = g[i]
    <2>1. PICK j \in 1 .. Len(Effects[c]) + 1 : j = i + 1
        BY <1>2
    <2>2. \E g \in [0 .. j - 1 -> Resources] :
              /\ g[0] = s.resources
              /\ \A n \in 1 .. j - 1 : g[n] = ApplyEffect(g[n - 1], Effects[c][n])
              /\ ResourcesBefore(s, c, j) = g[j - 1]
        BY ResourcesSteps
    <2>3. j - 1 = i
        BY <1>1, <2>1
    <2> QED
        BY <2>1, <2>2, <2>3
<1>5. \A n \in Nat : n <= i - 1 => f[n] = g[n]
    <2> DEFINE T == {n \in Nat : n <= i - 1 => f[n] = g[n]}
    <2>1. 0 \in T
        BY <1>3, <1>4
    <2>2. ASSUME NEW n \in Nat, n \in T PROVE n + 1 \in T
        <3> SUFFICES ASSUME n + 1 <= i - 1 PROVE f[n + 1] = g[n + 1]
            OBVIOUS
        <3>1. n + 1 \in 1 .. i - 1 /\ n + 1 \in 1 .. i /\ n + 1 - 1 = n /\ f[n] = g[n]
            BY <1>1, <2>2
        <3> QED
            BY <1>3, <1>4, <3>1
    <2>3. \A n \in Nat : n \in T
        <3> HIDE DEF T
        <3> QED
            BY <2>1, <2>2, SetInduction
    <2> QED
        BY <2>3
<1>6. f[i - 1] = g[i - 1] /\ i \in 1 .. i
    BY <1>1, <1>5
<1> QED
    BY <1>3, <1>4, <1>6

\* The first effect meets the resources of the session.
LEMMA ResourcesBeforeFirst ==
    ASSUME NEW s \in Sessions, NEW c \in Card
    PROVE  ResourcesBefore(s, c, 1) = s.resources
<1>1. 1 \in 1 .. Len(Effects[c]) + 1 /\ 1 - 1 = 0
    BY LevelData, LenProperties
<1> QED
    BY <1>1, ResourcesSteps

\* A card that may be played takes nothing that is not there.
LEMMA CardCovered ==
    ASSUME NEW s \in Sessions, NEW c \in Card, Playable(s, c), NEW a \in Resource,
           s.resources[a] >= 0, ~ Drains(a)
    PROVE  ResourcesBefore(s, c, Len(Effects[c]) + 1)[a] >= 0
<1> DEFINE N == Len(Effects[c])
           T == {n \in Nat : n <= N => ResourcesBefore(s, c, n + 1)[a] >= 0}
<1>1. N \in Nat /\ Effects[c] \in Seq(Effect)
    BY LevelData, LenProperties
<1>2. 0 \in T
    BY ResourcesBeforeFirst
<1>3. ASSUME NEW n \in Nat, n \in T PROVE n + 1 \in T
    <2> SUFFICES ASSUME n + 1 <= N PROVE ResourcesBefore(s, c, n + 1 + 1)[a] >= 0
        OBVIOUS
    <2>1. n + 1 \in 1 .. N /\ n + 1 \in 1 .. N + 1
        BY <1>1
    <2> DEFINE r == ResourcesBefore(s, c, n + 1)
               e == Effects[c][n + 1]
    <2>2. r \in Resources /\ r[a] >= 0
        BY <1>1, <1>3, <2>1, ResourcesBeforeType
    <2>3. e \in Effect
        BY <1>1, <2>1, ElementOfSeq
    <2>4. Affordable(r, e)
        BY <1>1, <2>1, LenProperties DEF Playable
    <2>5. e.kind \in {"gain", "convert"} /\ e.to = a => e.give >= 0
        <3>1. ~ (e.kind \in {"gain", "convert"} /\ e.to = a /\ e.give < 0)
            BY <2>1 DEF Drains
        <3>2. e.kind \in {"gain", "convert"} => e.give \in Int
            BY <2>3 DEF Effect
        <3> HIDE DEF e
        <3> QED
            BY <3>1, <3>2
    <2>6. ResourcesBefore(s, c, n + 1 + 1) = ApplyEffect(r, e)
        BY <2>1, ResourcesBeforeNext
    <2> HIDE DEF r, e
    <2> QED
        BY <2>2, <2>3, <2>4, <2>5, <2>6, EffectCovered
<1>4. \A n \in Nat : n \in T
    <2> HIDE DEF T
    <2> QED
        BY <1>2, <1>3, SetInduction
<1> QED
    BY <1>1, <1>4

-----------------------------------------------------------------------------
(* Orders. *)

\* Dealing appends one open order and touches nothing else.
LEMMA DealType ==
    ASSUME NEW s \in Sessions
    PROVE  /\ Deal(s) \in Sessions
           /\ Deal(s).orders = Append(s.orders, NextOrder(s))
           /\ NextOrder(s) \in OrderState /\ ~ NextOrder(s).done
           /\ \A f \in {"alive", "turn", "actionPoint", "completed", "settled", "failed",
                        "pending", "resources"} : Deal(s)[f] = s[f]
<1>1. Level.pool \in Seq(Order) /\ Len(Level.pool) \in Nat \ {0}
    BY LevelData, LenProperties, EmptySeq
<1>2. s.drawn \in Nat /\ s.orders \in Seq(OrderState)
    BY DEF Sessions
<1>3. (s.drawn % Len(Level.pool)) + 1 \in 1 .. Len(Level.pool)
    BY <1>1, <1>2
<1>4. NextOrder(s) \in OrderState /\ ~ NextOrder(s).done
    BY <1>1, <1>3, ElementOfSeq DEF NextOrder, OrderState
<1> DEFINE dealt == Append(s.orders, NextOrder(s))
<1>5. Deal(s) = [s EXCEPT !.orders = dealt, !.drawn = s.drawn + 1]
    BY DEF Deal, Sessions
<1>6. dealt \in Seq(OrderState) /\ s.drawn + 1 \in Nat
    BY <1>2, <1>4, AppendProperties
<1> HIDE DEF dealt
<1>7. Deal(s) \in Sessions
    BY <1>5, <1>6 DEF Sessions
<1>8. Deal(s).orders = dealt
    BY <1>5 DEF Sessions
<1>9. \A f \in {"alive", "turn", "actionPoint", "completed", "settled", "failed",
                "pending", "resources"} : Deal(s)[f] = s[f]
    BY <1>5 DEF Sessions
<1> QED
    BY <1>4, <1>7, <1>8, <1>9 DEF dealt

\* An order that is dealt is not done.
LEMMA DealCounted ==
    ASSUME NEW s \in Sessions
    PROVE  /\ Len(Deal(s).orders) = Len(s.orders) + 1
           /\ Counted(s) => Counted(Deal(s))
           /\ Explained(s) => Explained(Deal(s))
<1> DEFINE t == Deal(s)
           n == Len(s.orders)
<1>1. t.orders = Append(s.orders, NextOrder(s)) /\ s.orders \in Seq(OrderState)
      /\ ~ NextOrder(s).done /\ NextOrder(s) \in OrderState
    BY DealType DEF Sessions
<1>2. t.completed = s.completed /\ t.pending = s.pending /\ t.resources = s.resources
    BY DealType
<1>3. n \in Nat /\ Len(t.orders) = n + 1
    BY <1>1, LenProperties, AppendProperties
<1>4. \A i \in 1 .. n : t.orders[i] = s.orders[i]
    BY <1>1, AppendProperties
<1>5. t.orders[n + 1] = NextOrder(s)
    BY <1>1, AppendProperties
<1> HIDE DEF t, n
<1>6. {i \in 1 .. Len(t.orders) : t.orders[i].done} = {i \in 1 .. n : s.orders[i].done}
    BY <1>1, <1>3, <1>4, <1>5
<1> DEFINE done == {i \in 1 .. n : s.orders[i].done}
<1>7. \A o : {i \in done : t.orders[i].id = o} = {i \in done : s.orders[i].id = o}
    BY <1>4
<1>8. Counted(s) => Counted(t)
    <2> SUFFICES ASSUME Counted(s) PROVE Counted(t)
        OBVIOUS
    <2>1. /\ s.completed = Cardinality(done)
          /\ \A o \in Order : Cardinality({i \in done : s.orders[i].id = o}) =
                              Cardinality({i \in 1 .. Len(s.pending) : s.pending[i] = o})
        BY DEF Counted, n
    <2> HIDE DEF done
    <2>2. {i \in 1 .. Len(t.orders) : t.orders[i].done} = done
        BY <1>6 DEF done
    <2>3. ASSUME NEW o \in Order
          PROVE  Cardinality({i \in {j \in 1 .. Len(t.orders) : t.orders[j].done} :
                                  t.orders[i].id = o}) =
                 Cardinality({i \in 1 .. Len(t.pending) : t.pending[i] = o})
        <3>1. {i \in {j \in 1 .. Len(t.orders) : t.orders[j].done} : t.orders[i].id = o} =
              {i \in done : s.orders[i].id = o}
            BY <1>7, <2>2
        <3> QED
            BY <1>2, <2>1, <3>1
    <2> QED
        BY <1>2, <2>1, <2>2, <2>3 DEF Counted
<1>9. Explained(s) => Explained(t)
    BY <1>2 DEF Explained
<1> QED
    BY <1>3, <1>8, <1>9 DEF t, n

\* Sets of indices can be counted.
LEMMA FiniteParts ==
    ASSUME NEW n \in Nat, NEW T \in SUBSET (1 .. n)
    PROVE  IsFiniteSet(T) /\ Cardinality(T) \in Nat /\ Cardinality(T) <= n
<1>1. IsFiniteSet(1 .. n) /\ Cardinality(1 .. n) = n
    BY FS_Interval
<1> QED
    BY <1>1, FS_Subset, FS_CardinalityType

\* One more order is done, and its reward waits.
LEMMA OneMoreCounted ==
    ASSUME NEW s \in Sessions, NEW t \in Sessions, NEW i \in 1 .. Len(s.orders),
           ~ s.orders[i].done,
           t.orders = [s.orders EXCEPT ![i] = [s.orders[i] EXCEPT !.done = TRUE]],
           t.pending = Append(s.pending, s.orders[i].id), t.completed = s.completed + 1,
           Counted(s)
    PROVE  Counted(t)
<1> DEFINE n == Len(s.orders)
           m == Len(s.pending)
           id == s.orders[i].id
           done == {j \in 1 .. n : s.orders[j].done}
<1>1. s.orders \in Seq(OrderState) /\ s.pending \in Seq(Order) /\ n \in Nat /\ m \in Nat
    BY LenProperties DEF Sessions
<1>2. s.orders[i] \in OrderState /\ id \in Order
    <2>1. s.orders[i] \in OrderState
        BY <1>1, ElementOfSeq
    <2> QED
        BY <2>1 DEF OrderState
<1>3. [s.orders[i] EXCEPT !.done = TRUE] \in OrderState
      /\ [s.orders[i] EXCEPT !.done = TRUE].done
      /\ [s.orders[i] EXCEPT !.done = TRUE].id = id
    BY <1>2 DEF OrderState
<1>4. Len(t.orders) = n /\ \A j \in 1 .. n :
          t.orders[j] = IF j = i THEN [s.orders[i] EXCEPT !.done = TRUE] ELSE s.orders[j]
    BY <1>1, <1>3, ExceptSeq
<1>5. Len(t.pending) = m + 1 /\ t.pending[m + 1] = id
      /\ \A j \in 1 .. m : t.pending[j] = s.pending[j]
    BY <1>1, <1>2, AppendProperties
<1> HIDE DEF n, m, id
<1>6. \A j \in 1 .. n : t.orders[j].id = s.orders[j].id
    BY <1>3, <1>4 DEF id
<1>7. {j \in 1 .. n : t.orders[j].done} = done \cup {i} /\ i \notin done
    BY <1>3, <1>4 DEF n
<1>8. Cardinality(done \cup {i}) = Cardinality(done) + 1
    BY <1>1, <1>7, FiniteParts, FS_AddElement
<1>9. ASSUME NEW o \in Order
      PROVE  Cardinality({j \in done \cup {i} : t.orders[j].id = o}) =
             Cardinality({j \in 1 .. m + 1 : t.pending[j] = o})
    <2> DEFINE D == {j \in done : s.orders[j].id = o}
               P == {j \in 1 .. m : s.pending[j] = o}
    <2>1. IsFiniteSet(D) /\ IsFiniteSet(P) /\ i \notin D /\ m + 1 \notin P
        BY <1>1, <1>7, FiniteParts
    <2>2. Cardinality(D) = Cardinality(P)
        BY DEF Counted, n, m
    <2>3. CASE o = id
        <3>1. {j \in done \cup {i} : t.orders[j].id = o} = D \cup {i}
            BY <1>6, <2>3 DEF n, id
        <3>2. {j \in 1 .. m + 1 : t.pending[j] = o} = P \cup {m + 1}
            BY <1>1, <1>5, <2>3
        <3> HIDE DEF D, P
        <3>3. Cardinality(D \cup {i}) = Cardinality(D) + 1
            BY <2>1, FS_AddElement
        <3>4. Cardinality(P \cup {m + 1}) = Cardinality(P) + 1
            BY <2>1, FS_AddElement
        <3> QED
            BY <2>2, <3>1, <3>2, <3>3, <3>4
    <2>4. CASE o # id
        <3>1. {j \in done \cup {i} : t.orders[j].id = o} = D
            BY <1>6, <2>4 DEF n, id
        <3>2. {j \in 1 .. m + 1 : t.pending[j] = o} = P
            BY <1>1, <1>5, <2>4
        <3> QED
            BY <2>2, <3>1, <3>2
    <2> QED
        BY <2>3, <2>4
<1>10. s.completed = Cardinality(done)
    BY DEF Counted, n
<1> QED
    BY <1>4, <1>5, <1>7, <1>8, <1>9, <1>10 DEF Counted

\* Completing one order: what becomes of it is what Advanced allows.
LEMMA CompleteOrderAdvances ==
    ASSUME NEW s \in Sessions, NEW i \in 1 .. Len(s.orders), Ready(s, i)
    PROVE  CompleteOrder(s, i) \in Advanced(s) /\ CompleteOrder(s, i).completed = s.completed + 1
<1> DEFINE o == s.orders[i].id
           rest == Consume(s.resources, Requirements[o])
           orders == [s.orders EXCEPT ![i] = [s.orders[i] EXCEPT !.done = TRUE]]
           pending == Append(s.pending, o)
           t == [s EXCEPT !.resources = Consume(@, Requirements[o]),
                          !.orders[i].done = TRUE,
                          !.completed = @ + 1,
                          !.pending = Append(@, o)]
<1>1. s.orders \in Seq(OrderState) /\ s.pending \in Seq(Order) /\ s.completed \in Nat
      /\ s.resources \in Resources
    BY DEF Sessions
<1>2. s.orders[i] \in OrderState /\ o \in Order
    <2>1. s.orders[i] \in OrderState
        BY <1>1, ElementOfSeq
    <2> QED
        BY <2>1 DEF OrderState
<1>3. Requirements[o] \in Wants
    BY <1>2, RequirementsType
<1>4. rest \in Resources
    BY <1>1, <1>3, ConsumeType
<1>5. pending \in Seq(Order)
    BY <1>1, <1>2, AppendProperties
<1>6. orders \in Seq(OrderState) /\ Len(orders) = Len(s.orders) /\ Len(s.orders) \in Nat
    <2>1. [s.orders[i] EXCEPT !.done = TRUE] \in OrderState
        BY <1>2 DEF OrderState
    <2> QED
        BY <1>1, <2>1, ExceptSeq, LenProperties
<1>7. t = [s EXCEPT !.resources = rest, !.orders = orders, !.completed = s.completed + 1,
                    !.pending = pending]
    BY DEF Sessions
<1>8. CompleteOrder(s, i) = IF Supplied(t) THEN Deal(t) ELSE t
    BY DEF CompleteOrder
<1> HIDE DEF t, rest, orders, pending
<1>9. t \in Sessions
    <2>1. s.completed + 1 \in Nat /\ orders \in Seq(OrderState)
        BY <1>1, <1>6
    <2> QED
        BY <1>4, <1>5, <1>7, <2>1 DEF Sessions
<1>10. /\ t.alive = s.alive /\ t.turn = s.turn /\ t.actionPoint = s.actionPoint
       /\ t.settled = s.settled /\ t.failed = s.failed
       /\ t.completed = s.completed + 1 /\ t.orders = orders /\ t.pending = pending
       /\ t.resources = rest
    BY <1>7 DEF Sessions
<1>11. Counted(s) => Counted(t)
    BY <1>9, <1>10, OneMoreCounted DEF orders, pending, Ready
<1>12. Explained(s) => Explained(t)
    <2> SUFFICES ASSUME Explained(s), NEW a \in Resource, rest[a] < 0, ~ Drains(a)
                 PROVE  \E j \in 1 .. Len(pending) : Repeated(a, Requirements[pending[j]])
        BY <1>10 DEF Explained
    <2>1. /\ Len(pending) = Len(s.pending) + 1 /\ Len(s.pending) \in Nat
          /\ pending[Len(s.pending) + 1] = o
          /\ \A j \in 1 .. Len(s.pending) : pending[j] = s.pending[j]
        BY <1>1, <1>2, AppendProperties, LenProperties DEF pending
    <2>2. s.resources[a] \in Int /\ rest[a] \in Int
        BY <1>1, <1>4 DEF Resources
    <2>3. CASE s.resources[a] < 0
        <3>1. PICK j \in 1 .. Len(s.pending) : Repeated(a, Requirements[s.pending[j]])
            BY <2>3 DEF Explained
        <3>2. j \in 1 .. Len(pending) /\ pending[j] = s.pending[j]
            BY <2>1, <3>1
        <3> QED
            BY <3>1, <3>2
    <2>4. CASE s.resources[a] >= 0
        <3>1. Repeated(a, Requirements[o])
            BY <1>1, <1>3, <2>2, <2>4, ConsumeCovered DEF Ready, rest
        <3> QED
            BY <2>1, <3>1
    <2> QED
        BY <2>2, <2>3, <2>4
<1>13. CASE Supplied(t)
    <2>1. Deal(t) \in Sessions /\ Len(Deal(t).orders) = Len(s.orders) + 1
          /\ (Counted(s) => Counted(Deal(t))) /\ (Explained(s) => Explained(Deal(t)))
        BY <1>6, <1>9, <1>10, <1>11, <1>12, DealType, DealCounted
    <2>2. \A f \in {"alive", "turn", "actionPoint", "completed", "settled", "failed"} :
              Deal(t)[f] = t[f]
        BY <1>9, DealType
    <2>3. Dealt(s) => Dealt(Deal(t))
        <3>1. Level.target \in Nat \ {0} /\ Level.initialOrders \in Nat
            BY LevelData
        <3>2. Deal(t).completed = s.completed + 1 /\ s.completed + 1 < Level.target
            BY <1>10, <1>13, <2>2 DEF Supplied
        <3>3. Len(Deal(t).orders) = Len(s.orders) + 1
            BY <2>1
        <3> HIDE DEF Supplied
        <3> QED
            BY <1>1, <1>6, <3>1, <3>2, <3>3 DEF Dealt
    <2> QED
        BY <1>1, <1>6, <1>8, <1>10, <1>13, <2>1, <2>2, <2>3 DEF Advanced
<1>14. CASE ~ Supplied(t)
    <2>1. Dealt(s) => Dealt(t)
        <3>1. PICK target \in Nat \ {0} : target = Level.target
            BY LevelData
        <3>2. PICK completed \in Nat : completed = s.completed
            BY <1>1
        <3>3. t.completed = completed + 1 /\ ~ (t.completed < target)
            BY <1>10, <1>14, <3>1, <3>2 DEF Supplied
        <3>4. Len(t.orders) = Len(s.orders)
            BY <1>6, <1>10
        <3>5. (IF s.completed < Level.target THEN s.completed ELSE Level.target - 1)
              = (IF t.completed < Level.target THEN t.completed ELSE Level.target - 1)
            BY <3>1, <3>2, <3>3
        <3> QED
            BY <3>4, <3>5 DEF Dealt
    <2> QED
        BY <1>1, <1>6, <1>8, <1>9, <1>10, <1>11, <1>12, <1>14, <2>1 DEF Advanced
<1> QED
    BY <1>13, <1>14

\* Advanced is reflexive,
LEMMA AdvancedSelf ==
    ASSUME NEW s \in Sessions
    PROVE  s \in Advanced(s)
    BY LenProperties DEF Sessions, Advanced

\* and transitive.
LEMMA AdvancedFurther ==
    ASSUME NEW s \in Sessions, NEW t \in Advanced(s), NEW u \in Advanced(t)
    PROVE  u \in Advanced(s)
<1>1. t \in Sessions /\ u \in Sessions
    BY DEF Advanced
<1>2. s.completed \in Nat /\ t.completed \in Nat /\ u.completed \in Nat
    BY <1>1 DEF Sessions
<1>3. Len(s.orders) \in Nat /\ Len(t.orders) \in Nat /\ Len(u.orders) \in Nat
    BY <1>1, LenProperties DEF Sessions
<1> QED
    BY <1>2, <1>3 DEF Advanced

\* The inner loop, order by order.
LEMMA OnePassSteps ==
    ASSUME NEW s \in Sessions
    PROVE  \E left \in [0 .. Len(s.orders) -> Advanced(s)] :
               /\ left[0] = s
               /\ \A n \in 1 .. Len(s.orders) : left[n] = CompleteIfReady(left[n - 1], n)
               /\ OnePass(s) = left[Len(s.orders)]
<1> DEFINE N == Len(s.orders)
           Step(n, h) == CompleteIfReady(h, n)
           G == [n \in 1 .. N |-> [h \in Advanced(s) |-> Step(n, h)]]
           Steps(f) == f = [n \in 0 .. N |-> IF n = 0 THEN s ELSE Step(n, f[n - 1])]
           left == CHOOSE f : Steps(f)
<1>1. N \in Nat /\ s \in Advanced(s)
    BY LenProperties, AdvancedSelf DEF Sessions
<1>2. ASSUME NEW n \in 1 .. N, NEW h \in Advanced(s) PROVE Step(n, h) \in Advanced(s)
    <2>1. h \in Sessions /\ n \in 1 .. Len(h.orders)
        BY LenProperties DEF Sessions, Advanced
    <2>2. CompleteIfReady(h, n) \in Advanced(h)
        BY <2>1, CompleteOrderAdvances, AdvancedSelf DEF CompleteIfReady
    <2> QED
        BY <2>2, AdvancedFurther
<1>3. OnePass(s) = left[N]
    BY DEF OnePass
<1> HIDE DEF N, Step
<1>4. G \in [1 .. N -> [Advanced(s) -> Advanced(s)]]
    BY <1>2
<1>5. \E f : Steps(f)
    <2>1. PICK f \in [0 .. N -> Advanced(s)] :
                f[0] = s /\ \A n \in 1 .. N : f[n] = G[n][f[n - 1]]
        <3> HIDE DEF G, Steps, left
        <3>1. Recursive(Advanced(s))
            BY Recursion
        <3> QED
            BY <1>1, <1>4, <3>1 DEF Recursive
    <2>2. ASSUME NEW n \in 0 .. N
          PROVE  f[n] = IF n = 0 THEN s ELSE Step(n, f[n - 1])
        <3> HIDE DEF Steps, left
        <3>1. CASE n = 0
            BY <2>1, <3>1
        <3>2. CASE n \in 1 .. N
            <4>1. f[n - 1] \in Advanced(s)
                <5> HIDE DEF G
                <5> QED
                    BY <1>1, <2>1, <3>2
            <4> QED
                BY <2>1, <3>2, <4>1
        <3> QED
            BY <1>1, <3>1, <3>2
    <2>3. Steps(f)
        <3> HIDE DEF G, left
        <3> QED
            BY <2>1, <2>2
    <2> QED
        BY <2>3
<1>6. Steps(left)
    BY <1>5
<1> HIDE DEF left
<1>7. left[0] = s /\ \A n \in 1 .. N : left[n] = Step(n, left[n - 1])
    BY <1>1, <1>6
<1> HIDE DEF Steps
<1>8. \A n \in 0 .. N : left[n] \in Advanced(s)
    <2>1. ASSUME NEW n \in 1 .. N, left[n - 1] \in Advanced(s) PROVE left[n] \in Advanced(s)
        BY <1>2, <1>7, <2>1
    <2> QED
        BY <1>1, <1>7, <2>1, Closed
<1>9. left \in [0 .. N -> Advanced(s)]
    <2>1. left = [n \in 0 .. N |-> left[n]]
        BY <1>6 DEF Steps
    <2> HIDE DEF G
    <2> QED
        BY <1>8, <2>1
<1> QED
    BY <1>3, <1>7, <1>9 DEF N, Step

\* So a pass over the orders only completes orders.
LEMMA OnePassAdvances ==
    ASSUME NEW s \in Sessions
    PROVE  OnePass(s) \in Advanced(s)
<1>1. Len(s.orders) \in 0 .. Len(s.orders)
    BY LenProperties DEF Sessions
<1> QED
    BY <1>1, OnePassSteps

\* A pass completes an order, or there is none to complete.
LEMMA OnePassWorks ==
    ASSUME NEW s \in Sessions
    PROVE  \/ NoneReady(s)
           \/ OnePass(s).completed > s.completed
<1> DEFINE N == Len(s.orders)
<1>1. PICK f \in [0 .. N -> Advanced(s)] :
          /\ f[0] = s
          /\ \A n \in 1 .. N : f[n] = CompleteIfReady(f[n - 1], n)
          /\ OnePass(s) = f[N]
    BY OnePassSteps
<1>2. N \in Nat
    BY LenProperties DEF Sessions
<1> HIDE DEF N
<1> DEFINE T == {n \in Nat : n <= N =>
                    \/ f[n] = s /\ \A j \in 1 .. n : ~ Ready(s, j)
                    \/ f[n].completed > s.completed}
<1>3. 0 \in T
    BY <1>1
<1>4. ASSUME NEW n \in Nat, n \in T PROVE n + 1 \in T
    <2> SUFFICES ASSUME n + 1 <= N
                 PROVE  \/ f[n + 1] = s /\ \A j \in 1 .. n + 1 : ~ Ready(s, j)
                        \/ f[n + 1].completed > s.completed
        OBVIOUS
    <2>1. n + 1 \in 1 .. N /\ n + 1 - 1 = n /\ n \in 0 .. N
        BY <1>2
    <2>2. f[n + 1] = CompleteIfReady(f[n], n + 1) /\ f[n] \in Advanced(s)
        BY <1>1, <2>1
    <2>3. f[n] \in Sessions /\ n + 1 \in 1 .. Len(f[n].orders) /\ f[n].completed \in Nat
          /\ s.completed \in Nat
        BY <1>2, <2>1, <2>2, LenProperties DEF Advanced, Sessions, N
    <2>4. CASE f[n] = s /\ \A j \in 1 .. n : ~ Ready(s, j)
        <3>1. CASE Ready(s, n + 1)
            BY <2>2, <2>3, <2>4, <3>1, CompleteOrderAdvances DEF CompleteIfReady
        <3>2. CASE ~ Ready(s, n + 1)
            BY <2>2, <2>4, <3>2 DEF CompleteIfReady
        <3> QED
            BY <3>1, <3>2
    <2>5. CASE f[n].completed > s.completed
        <3>1. CASE Ready(f[n], n + 1)
            BY <2>2, <2>3, <2>5, <3>1, CompleteOrderAdvances DEF CompleteIfReady
        <3>2. CASE ~ Ready(f[n], n + 1)
            BY <2>2, <2>5, <3>2 DEF CompleteIfReady
        <3> QED
            BY <3>1, <3>2
    <2> QED
        BY <1>4, <2>1, <2>4, <2>5
<1>5. \A n \in Nat : n \in T
    <2> HIDE DEF T
    <2> QED
        BY <1>3, <1>4, SetInduction
<1> QED
    BY <1>1, <1>2, <1>5 DEF NoneReady, N

\* A pass that completes nothing has found nothing to complete.
LEMMA OnePassRests ==
    ASSUME NEW s \in Sessions, NoneReady(s)
    PROVE  OnePass(s) = s
<1> DEFINE N == Len(s.orders)
<1>1. PICK f \in [0 .. N -> Advanced(s)] :
          /\ f[0] = s
          /\ \A n \in 1 .. N : f[n] = CompleteIfReady(f[n - 1], n)
          /\ OnePass(s) = f[N]
    BY OnePassSteps
<1>2. N \in Nat
    BY LenProperties DEF Sessions
<1>3. \A n \in 1 .. N : ~ Ready(s, n)
    BY DEF NoneReady
<1> HIDE DEF N
<1> DEFINE Same == {s}
<1>4. f[0] \in Same /\ \A n \in 1 .. N : f[n - 1] \in Same => f[n] \in Same
    BY <1>1, <1>3 DEF CompleteIfReady
<1> HIDE DEF Same
<1>5. \A n \in 0 .. N : f[n] \in Same
    BY <1>2, <1>4, Closed
<1> QED
    BY <1>1, <1>2, <1>5 DEF Same

\* The outer loop, pass by pass.
LEMMA CompletionSteps ==
    ASSUME NEW s \in Sessions
    PROVE  \E left \in [0 .. MaxPasses -> Advanced(s)] :
               /\ left[0] = s
               /\ \A n \in 1 .. MaxPasses : left[n] = OnePass(left[n - 1])
               /\ CompleteReadyOrders(s) = left[MaxPasses]
<1> DEFINE N == MaxPasses
           Step(n, h) == OnePass(h)
           G == [n \in 1 .. N |-> [h \in Advanced(s) |-> Step(n, h)]]
           Steps(f) == f = [n \in 0 .. N |-> IF n = 0 THEN s ELSE Step(n, f[n - 1])]
           left == CHOOSE f : Steps(f)
<1>1. N \in Nat /\ s \in Advanced(s)
    BY LevelData, AdvancedSelf DEF MaxPasses
<1>2. ASSUME NEW n \in 1 .. N, NEW h \in Advanced(s) PROVE Step(n, h) \in Advanced(s)
    <2>1. h \in Sessions
        BY DEF Advanced
    <2> QED
        BY <2>1, OnePassAdvances, AdvancedFurther
<1>3. CompleteReadyOrders(s) = left[N]
    BY DEF CompleteReadyOrders
<1> HIDE DEF N, Step
<1>4. G \in [1 .. N -> [Advanced(s) -> Advanced(s)]]
    BY <1>2
<1>5. \E f : Steps(f)
    <2>1. PICK f \in [0 .. N -> Advanced(s)] :
                f[0] = s /\ \A n \in 1 .. N : f[n] = G[n][f[n - 1]]
        <3> HIDE DEF G, Steps, left
        <3>1. Recursive(Advanced(s))
            BY Recursion
        <3> QED
            BY <1>1, <1>4, <3>1 DEF Recursive
    <2>2. ASSUME NEW n \in 0 .. N
          PROVE  f[n] = IF n = 0 THEN s ELSE Step(n, f[n - 1])
        <3> HIDE DEF Steps, left
        <3>1. CASE n = 0
            BY <2>1, <3>1
        <3>2. CASE n \in 1 .. N
            <4>1. f[n - 1] \in Advanced(s)
                <5> HIDE DEF G
                <5> QED
                    BY <1>1, <2>1, <3>2
            <4> QED
                BY <2>1, <3>2, <4>1
        <3> QED
            BY <1>1, <3>1, <3>2
    <2>3. Steps(f)
        <3> HIDE DEF G, left
        <3> QED
            BY <2>1, <2>2
    <2> QED
        BY <2>3
<1>6. Steps(left)
    BY <1>5
<1> HIDE DEF left
<1>7. left[0] = s /\ \A n \in 1 .. N : left[n] = Step(n, left[n - 1])
    BY <1>1, <1>6
<1> HIDE DEF Steps
<1>8. \A n \in 0 .. N : left[n] \in Advanced(s)
    <2>1. ASSUME NEW n \in 1 .. N, left[n - 1] \in Advanced(s) PROVE left[n] \in Advanced(s)
        BY <1>2, <1>7, <2>1
    <2> QED
        BY <1>1, <1>7, <2>1, Closed
<1>9. left \in [0 .. N -> Advanced(s)]
    <2>1. left = [n \in 0 .. N |-> left[n]]
        BY <1>6 DEF Steps
    <2> HIDE DEF G
    <2> QED
        BY <1>8, <2>1
<1> QED
    BY <1>3, <1>7, <1>9 DEF N, Step

\* So do the passes together.
LEMMA CompletionAdvances ==
    ASSUME NEW s \in Sessions
    PROVE  CompleteReadyOrders(s) \in Advanced(s)
<1>1. MaxPasses \in 0 .. MaxPasses
    BY LevelData DEF MaxPasses
<1> QED
    BY <1>1, CompletionSteps

\* There are no more passes that complete an order than orders: the last
\* passes find nothing to complete.
LEMMA CompletionEnds ==
    ASSUME NEW s \in Sessions, Counted(s), Dealt(s)
    PROVE  NoneReady(CompleteReadyOrders(s))
<1> DEFINE N == MaxPasses
<1>1. PICK f \in [0 .. N -> Advanced(s)] :
          /\ f[0] = s
          /\ \A n \in 1 .. N : f[n] = OnePass(f[n - 1])
          /\ CompleteReadyOrders(s) = f[N]
    BY CompletionSteps
<1>2. N \in Nat /\ N = Level.initialOrders + Level.target
      /\ Level.initialOrders \in Nat /\ Level.target \in Nat \ {0}
    BY LevelData DEF MaxPasses
<1> HIDE DEF N
<1>3. s.completed \in Nat
    BY DEF Sessions
<1> DEFINE T == {n \in Nat : n <= N => NoneReady(f[n]) \/ f[n].completed >= s.completed + n}
<1>4. 0 \in T
    BY <1>1, <1>3
<1>5. ASSUME NEW n \in Nat, n \in T PROVE n + 1 \in T
    <2> SUFFICES ASSUME n + 1 <= N
                 PROVE  NoneReady(f[n + 1]) \/ f[n + 1].completed >= s.completed + (n + 1)
        OBVIOUS
    <2>1. n + 1 \in 1 .. N /\ n + 1 - 1 = n /\ n \in 0 .. N /\ n + 1 \in 0 .. N
        BY <1>2
    <2>2. f[n + 1] = OnePass(f[n]) /\ f[n] \in Advanced(s) /\ f[n + 1] \in Advanced(s)
        BY <1>1, <2>1
    <2>3. f[n] \in Sessions /\ f[n].completed \in Nat /\ f[n + 1].completed \in Nat
        BY <2>2 DEF Advanced, Sessions
    <2>4. CASE NoneReady(f[n])
        BY <2>2, <2>3, <2>4, OnePassRests
    <2>5. CASE ~ NoneReady(f[n])
        <3>1. f[n].completed >= s.completed + n
            BY <1>5, <2>1, <2>5
        <3>2. f[n + 1].completed > f[n].completed
            BY <2>2, <2>3, <2>5, OnePassWorks
        <3> QED
            BY <1>3, <2>3, <3>1, <3>2
    <2> QED
        BY <2>4, <2>5
<1>6. \A n \in Nat : n \in T
    <2> HIDE DEF T
    <2> QED
        BY <1>4, <1>5, SetInduction
<1>7. PICK t : t = f[N]
    OBVIOUS
<1>8. t \in Sessions /\ t.completed \in Nat /\ Counted(t) /\ Dealt(t)
    <2>1. t \in Advanced(s)
        BY <1>1, <1>2, <1>7
    <2>2. t \in Sessions /\ Counted(t) /\ Dealt(t)
        BY <1>2, <2>1 DEF Advanced
    <2> QED
        BY <2>2 DEF Sessions
<1>9. t.completed <= Len(t.orders) /\ Len(t.orders) \in Nat
    <2>1. Len(t.orders) \in Nat
        BY <1>8, LenProperties DEF Sessions
    <2>2. Cardinality({i \in 1 .. Len(t.orders) : t.orders[i].done}) <= Len(t.orders)
        BY <2>1, FiniteParts
    <2> QED
        BY <1>8, <2>1, <2>2 DEF Counted
<1>10. Len(t.orders) <= Level.initialOrders + Level.target - 1
    BY <1>2, <1>8 DEF Dealt
<1>11. t.completed < N
    <2> HIDE DEF T
    <2> QED
        BY <1>2, <1>8, <1>9, <1>10
<1>12. ~ (t.completed >= s.completed + N)
    <2> HIDE DEF T
    <2> QED
        BY <1>2, <1>3, <1>8, <1>11
<1> QED
    BY <1>1, <1>2, <1>6, <1>7, <1>12

-----------------------------------------------------------------------------
(* A level begins. *)

\* A new level has the type of a level.
LEMMA NewSessionType ==
    /\ NewSession(<<>>, 0) \in Sessions
    /\ NoSession \in Sessions
<1>1. [r \in Resource |-> 0] \in Resources
    BY DEF Resources
<1>2. 1 \in 1 .. Level.turnLimit /\ Level.actionPoints \in 0 .. Level.actionPoints
    BY LevelData
<1>3. <<>> \in Seq(OrderState) /\ <<>> \in Seq(Order)
    BY EmptySeq
<1> QED
    BY <1>1, <1>2, <1>3 DEF NewSession, NoSession, Sessions

\* The sessions that nothing has been done in yet.
Fresh ==
    {s \in Sessions :
        /\ s.alive /\ s.completed = 0 /\ ~ s.settled /\ ~ s.failed
        /\ s.resources = [r \in Resource |-> 0]
        /\ Counted(s)}

\* Nothing is done: nothing is counted.
LEMMA NothingCounted ==
    ASSUME NEW s \in Sessions, s.orders = <<>>, s.pending = <<>>, s.completed = 0
    PROVE  Counted(s)
<1>1. 1 .. Len(s.orders) = {} /\ 1 .. Len(s.pending) = {}
    BY EmptySeq
<1> QED
    BY <1>1, FS_EmptySet DEF Counted

\* The orders of StartLevel, order by order.
LEMMA FirstOrdersSteps ==
    \E left \in [0 .. Level.initialOrders -> Fresh] :
        /\ left[0] = NewSession(<<>>, 0)
        /\ \A n \in 1 .. Level.initialOrders : left[n] = Deal(left[n - 1])
        /\ FirstOrders = left[Level.initialOrders]
<1> DEFINE N == Level.initialOrders
           Step(n, h) == Deal(h)
           G == [n \in 1 .. N |-> [h \in Fresh |-> Step(n, h)]]
           Steps(f) == f = [n \in 0 .. N |->
                                IF n = 0 THEN NewSession(<<>>, 0) ELSE Step(n, f[n - 1])]
           left == CHOOSE f : Steps(f)
<1>1. N \in Nat /\ NewSession(<<>>, 0) \in Fresh
    BY LevelData, NewSessionType, NothingCounted DEF Fresh, NewSession
<1>2. ASSUME NEW n \in 1 .. N, NEW h \in Fresh PROVE Step(n, h) \in Fresh
    BY DealType, DealCounted DEF Fresh
<1>3. FirstOrders = left[N]
    BY DEF FirstOrders
<1> HIDE DEF N, Step
<1>4. G \in [1 .. N -> [Fresh -> Fresh]]
    BY <1>2
<1>5. \E f : Steps(f)
    <2>1. PICK f \in [0 .. N -> Fresh] :
                f[0] = NewSession(<<>>, 0) /\ \A n \in 1 .. N : f[n] = G[n][f[n - 1]]
        <3> HIDE DEF G, Steps, left
        <3>1. Recursive(Fresh)
            BY Recursion
        <3> QED
            BY <1>1, <1>4, <3>1 DEF Recursive
    <2>2. ASSUME NEW n \in 0 .. N
          PROVE  f[n] = IF n = 0 THEN NewSession(<<>>, 0) ELSE Step(n, f[n - 1])
        <3> HIDE DEF Steps, left
        <3>1. CASE n = 0
            BY <2>1, <3>1
        <3>2. CASE n \in 1 .. N
            <4>1. f[n - 1] \in Fresh
                <5> HIDE DEF G
                <5> QED
                    BY <1>1, <2>1, <3>2
            <4> QED
                BY <2>1, <3>2, <4>1
        <3> QED
            BY <1>1, <3>1, <3>2
    <2>3. Steps(f)
        <3> HIDE DEF G, left
        <3> QED
            BY <2>1, <2>2
    <2> QED
        BY <2>3
<1>6. Steps(left)
    BY <1>5
<1> HIDE DEF left
<1>7. left[0] = NewSession(<<>>, 0) /\ \A n \in 1 .. N : left[n] = Step(n, left[n - 1])
    BY <1>1, <1>6
<1> HIDE DEF Steps
<1>8. \A n \in 0 .. N : left[n] \in Fresh
    <2>1. ASSUME NEW n \in 1 .. N, left[n - 1] \in Fresh PROVE left[n] \in Fresh
        BY <1>2, <1>7, <2>1
    <2> QED
        BY <1>1, <1>7, <2>1, Closed
<1>9. left \in [0 .. N -> Fresh]
    <2>1. left = [n \in 0 .. N |-> left[n]]
        BY <1>6 DEF Steps
    <2> HIDE DEF G
    <2> QED
        BY <1>8, <2>1
<1> QED
    BY <1>3, <1>7, <1>9 DEF N, Step

\* The initial orders are dealt, and none is ready: a price is never empty.
LEMMA FirstOrdersFresh ==
    FirstOrders \in Fresh /\ Dealt(FirstOrders) /\ Explained(FirstOrders) /\ NoneReady(FirstOrders)
<1> DEFINE N == Level.initialOrders
<1>1. PICK f \in [0 .. N -> Fresh] : /\ f[0] = NewSession(<<>>, 0)
                                     /\ \A n \in 1 .. N : f[n] = Deal(f[n - 1])
                                     /\ FirstOrders = f[N]
    BY FirstOrdersSteps
<1>2. N \in Nat /\ Level.target \in Nat \ {0}
    BY LevelData
<1> HIDE DEF N
<1>3. \A n \in Nat : n <= N => Len(f[n].orders) = n
    <2> DEFINE T == {n \in Nat : n <= N => Len(f[n].orders) = n}
    <2>1. 0 \in T
        BY <1>1, EmptySeq DEF NewSession
    <2>2. ASSUME NEW n \in Nat, n \in T PROVE n + 1 \in T
        <3> SUFFICES ASSUME n + 1 <= N PROVE Len(f[n + 1].orders) = n + 1
            OBVIOUS
        <3>1. n + 1 \in 1 .. N /\ n + 1 - 1 = n /\ n \in 0 .. N /\ Len(f[n].orders) = n
            BY <1>2, <2>2
        <3>2. f[n] \in Sessions /\ f[n + 1] = Deal(f[n])
            BY <1>1, <3>1 DEF Fresh
        <3> QED
            BY <3>1, <3>2, DealCounted
    <2>3. \A n \in Nat : n \in T
        <3> HIDE DEF T
        <3> QED
            BY <2>1, <2>2, SetInduction
    <2> QED
        BY <2>3
<1>4. PICK s : s = FirstOrders
    OBVIOUS
<1>5. s \in Fresh /\ Len(s.orders) = N
    BY <1>1, <1>2, <1>3, <1>4
<1>6. Dealt(s)
    BY <1>2, <1>5 DEF Dealt, Fresh, N
<1>7. Explained(s)
    BY <1>5 DEF Fresh, Explained
<1>8. NoneReady(s)
    <2> SUFFICES ASSUME NEW i \in 1 .. Len(s.orders), Ready(s, i) PROVE FALSE
        BY DEF NoneReady
    <2>1. s.orders[i] \in OrderState
        BY <1>5, ElementOfSeq DEF Fresh, Sessions
    <2> DEFINE wanted == Requirements[s.orders[i].id]
    <2>2. wanted \in Wants /\ wanted # <<>>
        BY <2>1, LevelData DEF OrderState, Wants
    <2>3. 1 \in 1 .. Len(wanted)
        BY <2>2, LenProperties, EmptySeq DEF Wants
    <2>4. CanComplete(s.resources, wanted)
        BY DEF Ready
    <2> HIDE DEF wanted
    <2>5. wanted[1] \in [resource: Resource, count: Nat \ {0}]
        BY <2>2, <2>3, ElementOfSeq DEF Wants
    <2>6. s.resources[wanted[1].resource] >= wanted[1].count
        BY <2>2, <2>3, <2>4, LenProperties DEF CanComplete, Wants
    <2> QED
        BY <1>5, <2>5, <2>6 DEF Fresh
<1> QED
    BY <1>4, <1>5, <1>6, <1>7, <1>8

-----------------------------------------------------------------------------
(* 5. Sums, prices and the costs of levels. *)

\* f[n] is the sum of the first n values of d.
Sums(f, N, d) ==
    /\ N \in Nat
    /\ d \in [1 .. N -> Int]
    /\ f \in [0 .. N -> Int]
    /\ f[0] = 0
    /\ \A n \in 1 .. N : f[n] = f[n - 1] + d[n]

\* A sum that is defined value by value exists,
LEMMA SumExists ==
    ASSUME NEW N \in Nat, NEW d \in [1 .. N -> Int]
    PROVE  \E f : f = [n \in 0 .. N |-> IF n = 0 THEN 0 ELSE f[n - 1] + d[n]]
<1> DEFINE G == [n \in 1 .. N |-> [s \in Int |-> s + d[n]]]
<1>1. G \in [1 .. N -> [Int -> Int]]
    OBVIOUS
<1>2. PICK f \in [0 .. N -> Int] : f[0] = 0 /\ \A n \in 1 .. N : f[n] = G[n][f[n - 1]]
    <2> HIDE DEF G
    <2>1. PICK S : S = Int
        OBVIOUS
    <2>2. Recursive(S)
        BY Recursion
    <2>3. 0 \in S /\ G \in [1 .. N -> [S -> S]]
        BY <1>1, <2>1
    <2>4. \E f \in [0 .. N -> S] : f[0] = 0 /\ \A n \in 1 .. N : f[n] = G[n][f[n - 1]]
        BY <2>2, <2>3 DEF Recursive
    <2> QED
        BY <2>1, <2>4
<1>3. \A n \in 1 .. N : n - 1 \in 0 .. N /\ f[n - 1] \in Int
    BY <1>2
<1>4. \A n \in 1 .. N : f[n] = f[n - 1] + d[n]
    BY <1>2, <1>3
<1> HIDE DEF G
<1>5. \A n \in 0 .. N : f[n] = IF n = 0 THEN 0 ELSE f[n - 1] + d[n]
    BY <1>2, <1>4
<1>6. f = [n \in 0 .. N |-> f[n]]
    BY <1>2
<1> QED
    BY <1>5, <1>6

\* and is what it should be.
LEMMA SumDefined ==
    ASSUME NEW N \in Nat, NEW d \in [1 .. N -> Int], NEW f,
           f = [n \in 0 .. N |-> IF n = 0 THEN 0 ELSE f[n - 1] + d[n]]
    PROVE  Sums(f, N, d)
<1>1. f[0] = 0 /\ \A n \in 1 .. N : f[n] = f[n - 1] + d[n]
    OBVIOUS
<1>2. \A n \in 1 .. N : f[n - 1] \in Int => f[n] \in Int
    BY <1>1
<1>3. \A n \in 0 .. N : f[n] \in Int
    <2>1. PICK S : S = Int
        OBVIOUS
    <2>2. f[0] \in S /\ \A n \in 1 .. N : f[n - 1] \in S => f[n] \in S
        BY <1>1, <1>2, <2>1
    <2>3. \A n \in 0 .. N : f[n] \in S
        BY <2>2, Closed
    <2> QED
        BY <2>1, <2>3
<1>4. f = [n \in 0 .. N |-> f[n]]
    OBVIOUS
<1> QED
    BY <1>1, <1>3, <1>4 DEF Sums

\* Sums of smaller values are smaller.
LEMMA SumLess ==
    ASSUME NEW N, NEW d, NEW e, NEW f, NEW g, Sums(f, N, d), Sums(g, N, e),
           \A n \in 1 .. N : d[n] <= e[n]
    PROVE  f[N] <= g[N]
<1> N \in Nat /\ d \in [1 .. N -> Int] /\ e \in [1 .. N -> Int]
    BY DEF Sums
<1> DEFINE T == {n \in Nat : n <= N => f[n] <= g[n]}
<1>1. 0 \in T
    BY DEF Sums
<1>2. ASSUME NEW n \in Nat, n \in T PROVE n + 1 \in T
    <2> SUFFICES ASSUME n + 1 <= N PROVE f[n + 1] <= g[n + 1]
        OBVIOUS
    <2>1. n + 1 \in 1 .. N /\ n + 1 - 1 = n /\ f[n] <= g[n] /\ f[n] \in Int /\ g[n] \in Int
        BY <1>2 DEF Sums
    <2>2. f[n + 1] = f[n] + d[n + 1] /\ g[n + 1] = g[n] + e[n + 1]
        <3>1. PICK m \in 1 .. N : m = n + 1 /\ m - 1 = n
            BY <2>1
        <3>2. f[m] = f[m - 1] + d[m] /\ g[m] = g[m - 1] + e[m]
            BY DEF Sums
        <3> QED
            BY <3>1, <3>2
    <2>3. d[n + 1] \in Int /\ e[n + 1] \in Int /\ d[n + 1] <= e[n + 1]
        BY <2>1
    <2> QED
        BY <2>1, <2>2, <2>3
<1>3. \A n \in Nat : n \in T
    <2> HIDE DEF T
    <2> QED
        BY <1>1, <1>2, SetInduction
<1> QED
    BY <1>3

\* The values of e are those of d, but z more at k.
Differs(d, e, N, k, z) ==
    /\ k \in 1 .. N
    /\ z \in Int
    /\ e[k] = d[k] + z
    /\ \A n \in 1 .. N \ {k} : e[n] = d[n]

\* Their sums differ by z.
LEMMA SumChanged ==
    ASSUME NEW N, NEW d, NEW e, NEW f, NEW g, Sums(f, N, d), Sums(g, N, e),
           NEW k, NEW z, Differs(d, e, N, k, z)
    PROVE  g[N] = f[N] + z
<1> N \in Nat /\ d \in [1 .. N -> Int] /\ e \in [1 .. N -> Int] /\ k \in 1 .. N /\ z \in Int
    BY DEF Sums, Differs
<1> DEFINE T == {n \in Nat : n <= N => g[n] = f[n] + (IF k <= n THEN z ELSE 0)}
<1>1. 0 \in T
    BY DEF Sums
<1>2. ASSUME NEW n \in Nat, n \in T PROVE n + 1 \in T
    <2> SUFFICES ASSUME n + 1 <= N
                 PROVE  g[n + 1] = f[n + 1] + (IF k <= n + 1 THEN z ELSE 0)
        OBVIOUS
    <2>1. n + 1 \in 1 .. N /\ n + 1 - 1 = n /\ f[n] \in Int /\ g[n] \in Int
          /\ g[n] = f[n] + (IF k <= n THEN z ELSE 0)
        BY <1>2 DEF Sums
    <2>2. f[n + 1] = f[n] + d[n + 1] /\ g[n + 1] = g[n] + e[n + 1]
        <3>1. PICK m \in 1 .. N : m = n + 1 /\ m - 1 = n
            BY <2>1
        <3>2. f[m] = f[m - 1] + d[m] /\ g[m] = g[m - 1] + e[m]
            BY DEF Sums
        <3> QED
            BY <3>1, <3>2
    <2>3. d[n + 1] \in Int /\ e[n + 1] \in Int
        BY <2>1
    <2>4. CASE k = n + 1
        <3>1. e[n + 1] = d[n + 1] + z
            BY <2>4 DEF Differs
        <3> QED
            BY <2>1, <2>2, <2>3, <2>4, <3>1
    <2>5. CASE k # n + 1
        <3>1. e[n + 1] = d[n + 1] /\ (k <= n + 1 <=> k <= n)
            BY <2>1, <2>5 DEF Differs
        <3>2. g[n + 1] = g[n] + d[n + 1]
            BY <2>2, <3>1
        <3>3. PICK v \in Int : v = (IF k <= n THEN z ELSE 0)
            OBVIOUS
        <3>4. PICK a \in Int, b \in Int : a = f[n] /\ b = d[n + 1]
            BY <2>1, <2>3
        <3>5. g[n + 1] = (a + v) + b /\ f[n + 1] = a + b
            BY <2>1, <2>2, <3>2, <3>3, <3>4, Zenon
        <3>6. (a + v) + b = (a + b) + v
            OBVIOUS
        <3> QED
            BY <3>1, <3>3, <3>5, <3>6, Zenon
    <2> QED
        BY <2>4, <2>5
<1>3. \A n \in Nat : n \in T
    <2> HIDE DEF T
    <2> QED
        BY <1>1, <1>2, SetInduction
<1> QED
    BY <1>3

\* mergeCostItems gives numbers, and for counts that are not negative none that is.
LEMMA MergedType ==
    ASSUME NEW items \in Seq(ItemCount)
    PROVE  /\ Merged(items) \in [Asset -> Int]
           /\ (\A n \in 1 .. Len(items) : items[n].count >= 0) => Merged(items) \in [Asset -> Nat]
<1> SUFFICES ASSUME NEW a \in Asset
             PROVE  /\ Merged(items)[a] \in Int
                    /\ (\A n \in 1 .. Len(items) : items[n].count >= 0) => Merged(items)[a] >= 0
    BY DEF Merged
<1> DEFINE N == Len(items)
           D(n) == IF items[n].item = a THEN items[n].count ELSE 0
           Steps(f) == f = [n \in 0 .. N |-> IF n = 0 THEN 0 ELSE f[n - 1] + D(n)]
           sum == CHOOSE f : Steps(f)
           d == [n \in 1 .. N |-> D(n)]
           zero == [n \in 1 .. N |-> 0]
           none == [n \in 0 .. N |-> 0]
<1>1. N \in Nat /\ \A n \in 1 .. N : items[n] \in ItemCount
    BY LenProperties, ElementOfSeq
<1>2. Merged(items)[a] = sum[N]
    BY DEF Merged
<1> HIDE DEF N
<1>3. d \in [1 .. N -> Int]
    BY <1>1 DEF ItemCount
<1>4. (\A n \in 1 .. N : items[n].count >= 0) => \A n \in 1 .. N : zero[n] <= d[n]
    BY <1>1 DEF ItemCount
<1>5. ASSUME NEW f
      PROVE  Steps(f) <=> f = [n \in 0 .. N |-> IF n = 0 THEN 0 ELSE f[n - 1] + d[n]]
    <2>1. \A n \in 0 .. N : n # 0 => D(n) = d[n]
        BY <1>1
    <2> HIDE DEF D, d
    <2> QED
        BY <2>1
<1>6. Steps(sum)
    <2> HIDE DEF Steps, d
    <2>1. \E f : Steps(f)
        BY <1>1, <1>3, <1>5, SumExists
    <2> QED
        BY <2>1
<1>7. Sums(sum, N, d)
    <2> HIDE DEF Steps, d, sum
    <2> QED
        BY <1>1, <1>3, <1>5, <1>6, SumDefined
<1>8. Sums(none, N, zero) /\ zero \in [1 .. N -> Int] /\ none[N] = 0
    BY <1>1 DEF Sums
<1> HIDE DEF d, zero, none, sum
<1>9. sum[N] \in Int
    BY <1>1, <1>7 DEF Sums
<1>10. (\A n \in 1 .. N : items[n].count >= 0) => 0 <= sum[N]
    BY <1>1, <1>3, <1>4, <1>7, <1>8, SumLess
<1> QED
    BY <1>2, <1>9, <1>10 DEF N

\* The prices that validateCosts has let pass.
LEMMA PricesType ==
    ASSUME NEW x \in Upgradable, NEW l \in 2 .. MaxLevel[x]
    PROVE  Merged(Prices[x][l]) \in [Asset -> Nat]
<1> DEFINE items == Prices[x][l]
<1>1. items \in Seq([item: Asset, count: Nat \ {0}])
    BY AssetData
<1>2. items \in [1 .. Len(items) -> [item: Asset, count: Nat \ {0}]] /\ Len(items) \in Nat
    <2> HIDE DEF items
    <2> QED
        BY <1>1, LenProperties, ElementOfSeq
<1>3. [item: Asset, count: Nat \ {0}] \subseteq ItemCount
    BY AssetData DEF ItemCount
<1> HIDE DEF items
<1>4. items \in Seq(ItemCount)
    BY <1>1, <1>3, SeqMonotonic
<1>5. \A n \in 1 .. Len(items) : items[n].count >= 0
    BY <1>2
<1>6. Merged(items) \in [Asset -> Nat]
    BY <1>4, <1>5, MergedType
<1> QED
    BY <1>6 DEF items

\* The costs of the levels of a card or facility, level by level.
LEMMA CostSteps ==
    ASSUME NEW x \in Upgradable, NEW a \in Asset
    PROVE  /\ MaxLevel[x] \in Nat \ {0}
           /\ \A l \in 1 .. MaxLevel[x] : CostUpTo(x, a)[l] \in Int
           /\ CostUpTo(x, a)[1] = 0
           /\ \A l \in 2 .. MaxLevel[x] :
                  /\ Merged(Prices[x][l])[a] \in Nat
                  /\ CostUpTo(x, a)[l] = CostUpTo(x, a)[l - 1] + Merged(Prices[x][l])[a]
<1> DEFINE M == MaxLevel[x]
           P(l) == Merged(Prices[x][l])[a]
           Steps(f) == f = [l \in 1 .. M |-> IF l = 1 THEN 0 ELSE f[l - 1] + P(l)]
           cost == CHOOSE f : Steps(f)
           d == [n \in 1 .. M - 1 |-> P(n + 1)]
<1>1. M \in Nat \ {0}
    BY AssetData
<1>2. CostUpTo(x, a) = cost
    BY DEF CostUpTo
<1>3. \A l \in 2 .. M : P(l) \in Nat
    BY PricesType
<1> HIDE DEF M, P
<1>4. d \in [1 .. M - 1 -> Int] /\ M - 1 \in Nat
    BY <1>1, <1>3
<1>5. \E f : Steps(f)
    <2>1. PICK g : g = [n \in 0 .. M - 1 |-> IF n = 0 THEN 0 ELSE g[n - 1] + d[n]]
        <3> HIDE DEF Steps, cost, d
        <3> QED
            BY <1>4, SumExists
    <2> DEFINE f == [l \in 1 .. M |-> g[l - 1]]
    <2>2. ASSUME NEW l \in 1 .. M PROVE f[l] = IF l = 1 THEN 0 ELSE f[l - 1] + P(l)
        <3>1. l - 1 \in 0 .. M - 1 /\ f[l] = g[l - 1]
            BY <1>1
        <3>2. CASE l = 1
            BY <2>1, <3>1, <3>2
        <3>3. CASE l # 1
            <4>1. l - 1 \in 1 .. M - 1 /\ d[l - 1] = P(l)
                BY <1>1, <3>3
            <4>2. g[l - 1] = g[l - 1 - 1] + d[l - 1]
                <5> HIDE DEF d, f
                <5>1. PICK n \in 1 .. M - 1 : n = l - 1
                    BY <4>1
                <5>2. g[n] = g[n - 1] + d[n]
                    BY <1>4, <2>1, SumDefined DEF Sums
                <5> QED
                    BY <5>1, <5>2
            <4>3. f[l - 1] = g[l - 1 - 1]
                BY <1>1, <3>3
            <4> HIDE DEF d, f
            <4> QED
                BY <3>1, <3>3, <4>1, <4>2, <4>3
        <3> QED
            BY <3>2, <3>3
    <2>3. f = [l \in 1 .. M |-> f[l]]
        OBVIOUS
    <2> HIDE DEF f
    <2>4. Steps(f)
        BY <2>2, <2>3
    <2> HIDE DEF Steps
    <2> QED
        BY <2>4
<1>6. Steps(cost)
    <2> HIDE DEF Steps
    <2> QED
        BY <1>5
<1> HIDE DEF cost, d
<1>7. cost[1] = 0 /\ \A l \in 2 .. M : cost[l] = cost[l - 1] + P(l)
    BY <1>1, <1>6
<1> HIDE DEF Steps
<1>8. \A l \in 1 .. M : cost[l] \in Int
    <2> DEFINE T == {n \in Nat : n + 1 <= M => cost[n + 1] \in Int}
    <2>1. 0 \in T
        BY <1>7
    <2>2. ASSUME NEW n \in Nat, n \in T PROVE n + 1 \in T
        <3> SUFFICES ASSUME n + 1 + 1 <= M PROVE cost[n + 1 + 1] \in Int
            OBVIOUS
        <3>1. PICK l \in 2 .. M : l = n + 1 + 1 /\ l - 1 = n + 1
            BY <1>1
        <3>2. n + 1 <= M /\ cost[n + 1] \in Int
            BY <1>1, <2>2
        <3>3. P(l) \in Int /\ cost[l] = cost[l - 1] + P(l)
            BY <1>3, <1>7
        <3> QED
            BY <3>1, <3>2, <3>3
    <2>3. \A n \in Nat : n \in T
        <3> HIDE DEF T
        <3> QED
            BY <2>1, <2>2, SetInduction
    <2>4. ASSUME NEW l \in 1 .. M PROVE cost[l] \in Int
        <3>1. PICK n \in Nat : l = n + 1 /\ n + 1 <= M
            BY <1>1
        <3> QED
            BY <2>3, <3>1
    <2> QED
        BY <2>4
<1> QED
    BY <1>1, <1>2, <1>3, <1>7, <1>8 DEF M, P

\* A higher level costs no less.
LEMMA CostGrows ==
    ASSUME NEW x \in Upgradable, NEW a \in Asset, NEW k \in 1 .. MaxLevel[x],
           NEW l \in 1 .. MaxLevel[x], k <= l
    PROVE  CostUpTo(x, a)[k] <= CostUpTo(x, a)[l]
<1> DEFINE M == MaxLevel[x]
           cost == CostUpTo(x, a)
           P(j) == Merged(Prices[x][j])[a]
<1>1. M \in Nat \ {0} /\ (\A j \in 1 .. M : cost[j] \in Int)
      /\ \A j \in 2 .. M : P(j) \in Nat /\ cost[j] = cost[j - 1] + P(j)
    BY CostSteps
<1>2. k \in 1 .. M /\ l \in 1 .. M
    OBVIOUS
<1> HIDE DEF M, cost, P
<1> DEFINE T == {n \in Nat : k + n <= M => cost[k] <= cost[k + n]}
<1>3. 0 \in T
    BY <1>1, <1>2
<1>4. ASSUME NEW n \in Nat, n \in T PROVE n + 1 \in T
    <2> SUFFICES ASSUME k + (n + 1) <= M PROVE cost[k] <= cost[k + (n + 1)]
        OBVIOUS
    <2>1. PICK j \in 2 .. M : j = k + (n + 1) /\ j - 1 = k + n
        BY <1>1, <1>2
    <2>2. cost[k] <= cost[j - 1] /\ cost[k] \in Int /\ cost[j - 1] \in Int /\ P(j) \in Nat
        BY <1>1, <1>2, <1>4, <2>1
    <2>3. cost[j] = cost[j - 1] + P(j)
        BY <1>1
    <2> QED
        BY <2>1, <2>2, <2>3
<1>5. \A n \in Nat : n \in T
    <2> HIDE DEF T
    <2> QED
        BY <1>3, <1>4, SetInduction
<1>6. PICK n \in Nat : k + n = l
    BY <1>1, <1>2
<1> QED
    BY <1>2, <1>5, <1>6 DEF cost

\* SetToSeq(Upgradable) has every card and facility, once.
LEMMA AllListed ==
    /\ Cardinality(Upgradable) \in Nat
    /\ SetToSeq(Upgradable) \in [1 .. Cardinality(Upgradable) -> Upgradable]
    /\ \A m, n \in 1 .. Cardinality(Upgradable) :
           SetToSeq(Upgradable)[m] = SetToSeq(Upgradable)[n] => m = n
    /\ \A x \in Upgradable : \E n \in 1 .. Cardinality(Upgradable) :
           SetToSeq(Upgradable)[n] = x
<1> DEFINE U == Upgradable
           C == Cardinality(U)
           all == SetToSeq(U)
<1>1. IsFiniteSet(U)
    BY AssetData
<1> HIDE DEF U
<1>2. C \in Nat /\ ExistsBijection(1 .. C, U)
    BY <1>1, FS_CardinalityType
<1>3. \E f \in [1 .. C -> U] : IsInjective(f)
    BY <1>2 DEF ExistsBijection, Bijection, Injection
<1>4. all \in [1 .. C -> U] /\ IsInjective(all)
    BY <1>3 DEF SetToSeq
<1>5. \A x \in U : \E n \in 1 .. C : all[n] = x
    <2> HIDE DEF all
    <2>1. all \in Injection(1 .. C, U) /\ Cardinality(1 .. C) = C
        BY <1>2, <1>4, FS_Interval DEF Injection
    <2>2. all \in Surjection(1 .. C, U)
        BY <1>1, <2>1, FS_Injection
    <2> QED
        BY <2>2 DEF Surjection
<1>6. \A m, n \in 1 .. C : all[m] = all[n] => m = n
    BY <1>4 DEF IsInjective
<1> QED
    BY <1>2, <1>4, <1>5, <1>6 DEF U

\* What a function gives for each of them, in that order.
Listed(f) == [n \in 1 .. Cardinality(Upgradable) |-> f[SetToSeq(Upgradable)[n]]]

\* Total adds these values up.
LEMMA TotalSums ==
    ASSUME NEW f \in [Upgradable -> Int]
    PROVE  /\ Listed(f) \in [1 .. Cardinality(Upgradable) -> Int]
           /\ \E s : Sums(s, Cardinality(Upgradable), Listed(f))
                     /\ Total(f) = s[Cardinality(Upgradable)]
<1> DEFINE C == Cardinality(Upgradable)
           all == SetToSeq(Upgradable)
           d == Listed(f)
           Steps(s) == s = [n \in 0 .. C |-> IF n = 0 THEN 0 ELSE s[n - 1] + f[all[n]]]
           sum == CHOOSE s : Steps(s)
<1>1. C \in Nat /\ all \in [1 .. C -> Upgradable]
    BY AllListed
<1>2. Total(f) = sum[C]
    BY DEF Total
<1>3. d = [n \in 1 .. C |-> f[all[n]]]
    BY DEF Listed
<1> HIDE DEF C, all, d
<1>4. d \in [1 .. C -> Int]
    BY <1>1, <1>3
<1>5. ASSUME NEW s
      PROVE  Steps(s) <=> s = [n \in 0 .. C |-> IF n = 0 THEN 0 ELSE s[n - 1] + d[n]]
    <2>1. \A n \in 0 .. C : n # 0 => f[all[n]] = d[n]
        BY <1>1, <1>3
    <2> QED
        BY <2>1
<1> HIDE DEF Steps
<1>6. Steps(sum)
    <2>1. \E s : Steps(s)
        BY <1>1, <1>4, <1>5, SumExists
    <2> QED
        BY <2>1
<1> HIDE DEF sum
<1>7. Sums(sum, C, d)
    BY <1>1, <1>4, <1>5, <1>6, SumDefined
<1> QED
    BY <1>2, <1>4, <1>7 DEF C, d

\* It is a number,
LEMMA TotalType ==
    ASSUME NEW f \in [Upgradable -> Int]
    PROVE  Total(f) \in Int
<1>1. PICK s : Sums(s, Cardinality(Upgradable), Listed(f)) /\ Total(f) = s[Cardinality(Upgradable)]
    BY TotalSums
<1> QED
    BY <1>1, AllListed DEF Sums

\* no greater where no value is greater,
LEMMA TotalLess ==
    ASSUME NEW f \in [Upgradable -> Int], NEW g \in [Upgradable -> Int],
           \A x \in Upgradable : f[x] <= g[x]
    PROVE  Total(f) <= Total(g)
<1> DEFINE C == Cardinality(Upgradable)
<1>1. PICK s : Sums(s, C, Listed(f)) /\ Total(f) = s[C]
    BY TotalSums
<1>2. PICK t : Sums(t, C, Listed(g)) /\ Total(g) = t[C]
    BY TotalSums
<1>3. C \in Nat /\ Listed(f) \in [1 .. C -> Int] /\ Listed(g) \in [1 .. C -> Int]
    BY AllListed, TotalSums
<1>4. \A n \in 1 .. C : Listed(f)[n] <= Listed(g)[n]
    BY AllListed DEF Listed
<1> HIDE DEF C
<1>5. s[C] <= t[C]
    BY <1>1, <1>2, <1>3, <1>4, SumLess
<1> QED
    BY <1>1, <1>2, <1>5

\* and greater by z where one value is.
LEMMA TotalChanged ==
    ASSUME NEW f \in [Upgradable -> Int], NEW g \in [Upgradable -> Int], NEW x \in Upgradable,
           NEW z \in Int, g[x] = f[x] + z, \A y \in Upgradable \ {x} : g[y] = f[y]
    PROVE  Total(g) = Total(f) + z
<1> DEFINE C == Cardinality(Upgradable)
           all == SetToSeq(Upgradable)
<1>1. PICK s : Sums(s, C, Listed(f)) /\ Total(f) = s[C]
    BY TotalSums
<1>2. PICK t : Sums(t, C, Listed(g)) /\ Total(g) = t[C]
    BY TotalSums
<1>3. C \in Nat /\ Listed(f) \in [1 .. C -> Int] /\ Listed(g) \in [1 .. C -> Int]
    BY AllListed, TotalSums
<1>4. all \in [1 .. C -> Upgradable] /\ \A m, n \in 1 .. C : all[m] = all[n] => m = n
    BY AllListed
<1>5. PICK k \in 1 .. C : all[k] = x
    BY AllListed
<1>6. \A n \in 1 .. C : Listed(f)[n] = f[all[n]] /\ Listed(g)[n] = g[all[n]]
    BY DEF Listed
<1> HIDE DEF C, all
<1>7. Listed(g)[k] = Listed(f)[k] + z
    BY <1>5, <1>6
<1>8. ASSUME NEW n \in 1 .. C, n # k PROVE Listed(g)[n] = Listed(f)[n]
    <2>1. all[n] \in Upgradable /\ all[n] # x
        BY <1>4, <1>5, <1>8
    <2> QED
        BY <1>6, <2>1
<1>9. Differs(Listed(f), Listed(g), C, k, z)
    BY <1>5, <1>7, <1>8 DEF Differs
<1>10. t[C] = s[C] + z
    BY <1>1, <1>2, <1>9, SumChanged
<1> QED
    BY <1>1, <1>2, <1>10

-----------------------------------------------------------------------------
(* 6. The tasks of the workers. *)

\* What the invariants read of a task.
TaskLike(t) ==
    t \in [pc: {"idle", "open", "preview", "read", "commit", "save"},
           op: {"card", "facility", "deck", "asset", "settle", "claim"}, on: {t.on},
           from: Int, absence: Nat, until: Int, wish: {t.wish}, seen: {t.seen},
           base: {t.base}, change: {t.change}]

TasksTyped ==
    /\ task = [w \in Worker |-> task[w]]
    /\ \A w \in Worker : TaskLike(task[w])

\* The rows, the clock and the history.
RowsTyped ==
    /\ lastPaid \in Nat \cup {NoRow}
    /\ clears \in Nat \cup {NoRow}
    /\ clock \in Nat
    /\ history \in [overlap: BOOLEAN, opened: Int, absence: Int, earned: {history.earned},
                    firsts: Nat]

\* Only w moves.
Moves(w) ==
    /\ task' = [v \in Worker |-> task'[v]]
    /\ TaskLike(task'[w])
    /\ \A v \in Worker \ {w} : task'[v] = task[v]

\* w begins a command,
Begins(w) ==
    /\ task[w].pc = "idle"
    /\ task'[w].pc \in {"open", "read", "save"}
    /\ task'[w].pc = "open" <=> task'[w].op = "claim"
    /\ task'[w].absence = 0
    /\ history' = [history EXCEPT !.overlap = @ \/ BusyElsewhere(w)]
    /\ UNCHANGED <<lastPaid, clears, clock>>

\* ends it with nothing done,
Leaves(w) ==
    /\ task[w].pc # "idle"
    /\ task'[w] = IdleTask
    /\ UNCHANGED <<lastPaid, clears, clock, history>>

\* reads the time of the last claim,
Opens(w) ==
    /\ task[w].pc = "open"
    /\ task'[w].pc = "preview"
    /\ task'[w].op = task[w].op
    /\ task'[w].from = OpenedAt
    /\ task'[w].absence = task[w].absence
    /\ OpenWorkshop
    /\ UNCHANGED <<clears, clock>>

\* computes what the absence is worth,
Previews(w) ==
    /\ task[w].pc = "preview"
    /\ task'[w].pc = "read"
    /\ task'[w].op = task[w].op
    /\ task'[w].from = task[w].from
    /\ task'[w].absence = EffectiveOffline(clock - task[w].from)
    /\ UNCHANGED <<lastPaid, clears, clock, history>>

\* reads what its transaction needs,
Reads(w) ==
    /\ task[w].pc = "read"
    /\ task'[w].pc = "commit"
    /\ task'[w].op = task[w].op
    /\ task'[w].from = task[w].from
    /\ task'[w].absence = task[w].absence
    /\ task[w].op = "claim" => task'[w].until = clock
    /\ task[w].op = "settle" => task'[w].seen = clears
    /\ UNCHANGED <<lastPaid, clears, clock, history>>

\* or writes it and ends.
Writes(w) ==
    LET t == task[w]
    IN
    /\ t.pc = "commit"
    /\ task'[w] = IdleTask
    /\ t.op = "settle" /\ t.seen = NoRow => clears = NoRow
    /\ lastPaid' = NextPaid(t)
    /\ clears' = NextClears(t)
    /\ history'.overlap = history.overlap
    /\ history'.opened = history.opened
    /\ history'.absence = history.absence + t.absence
    /\ history'.firsts = IF t.op = "settle" /\ t.seen = NoRow THEN history.firsts + 1
                         ELSE history.firsts
    /\ history' \in [overlap: BOOLEAN, opened: Int, absence: Int, earned: {history'.earned},
                     firsts: Nat]
    /\ UNCHANGED clock

Works(w) ==
    Moves(w) /\ (Begins(w) \/ Leaves(w) \/ Opens(w) \/ Previews(w) \/ Reads(w) \/ Writes(w))

\* Time passes; a client looks at the workshop; nothing happens.
Ticks ==
    clock < MaxClock /\ clock' = clock + 1 /\ UNCHANGED <<lastPaid, clears, task, history>>

Views == OpenWorkshop /\ UNCHANGED <<clears, clock, task>>

Rests == UNCHANGED <<lastPaid, clears, clock, task, history>>

\* No settlement is begun.
SettlesOn(w) ==
    task'[w].op = "settle" => task[w].op = "settle" /\ task[w].pc # "idle"

\* The task of a worker that does nothing.
LEMMA IdleTaskLike == TaskLike(IdleTask) /\ IdleTask.pc = "idle" /\ IdleTask.op = "card"
                      /\ IdleTask.absence = 0
    BY DEF TaskLike, IdleTask

\* Begin begins,
LEMMA Beginning ==
    ASSUME TasksTyped, NEW w \in Worker, NEW t, TaskLike(t), t.absence = 0,
           t.pc \in {"open", "read", "save"}, t.pc = "open" <=> t.op = "claim",
           Begin(w, t), UNCHANGED <<lastPaid, clears, clock>>
    PROVE  Moves(w) /\ Begins(w) /\ task'[w] = t
    BY DEF TasksTyped, Begin, Moves, Begins

\* Return leaves,
LEMMA Returning ==
    ASSUME TasksTyped, NEW w \in Worker, Return(w), task[w].pc # "idle",
           UNCHANGED <<lastPaid, clears, clock, history>>
    PROVE  Moves(w) /\ Leaves(w) /\ SettlesOn(w)
    BY IdleTaskLike DEF TasksTyped, Return, Moves, Leaves, SettlesOn

\* and Snapshot reads.
LEMMA Reading ==
    ASSUME TasksTyped, NEW w \in Worker, task[w].pc = "read", task[w].op # "claim",
           NEW seen, NEW change, Snapshot(w, seen, change),
           task[w].op = "settle" => seen = clears,
           UNCHANGED <<lastPaid, clears, clock, history>>
    PROVE  Moves(w) /\ Reads(w) /\ SettlesOn(w)
<1> DEFINE base == [a \in Asset |-> IF change[a] = 0 THEN 0 ELSE balance[a]]
           u == [task[w] EXCEPT !.pc = "commit", !.seen = seen, !.change = change, !.base = base]
<1>1. task' = [task EXCEPT ![w] = u]
    BY DEF Snapshot, TasksTyped, TaskLike
<1> HIDE DEF base
<1>2. TaskLike(u) /\ u.pc = "commit" /\ u.op = task[w].op /\ u.from = task[w].from
      /\ u.absence = task[w].absence /\ u.seen = seen
    BY DEF TasksTyped, TaskLike
<1> HIDE DEF u
<1> QED
    BY <1>1, <1>2 DEF TasksTyped, Moves, Reads, SettlesOn

\* What EffectiveOffline gives: the absence, or less.
LEMMA EffectiveOfflineBounds ==
    ASSUME NEW absence \in Int
    PROVE  /\ EffectiveOffline(absence) \in Nat
           /\ absence >= 0 => EffectiveOffline(absence) <= absence
    BY AssetData DEF EffectiveOffline

\* A settlement begins like any other command.
LEMMA SettleBegins ==
    ASSUME TasksTyped, NEW w \in Worker, NEW rewards, BeginSettle(w, rewards)
    PROVE  Moves(w) /\ Begins(w)
<1> DEFINE t == [IdleTask EXCEPT !.pc = "read", !.op = "settle", !.wish = rewards]
<1>1. TaskLike(t) /\ t.absence = 0 /\ t.pc = "read" /\ t.op = "settle"
    BY IdleTaskLike DEF TaskLike
<1>2. Begin(w, t) /\ UNCHANGED <<lastPaid, clears, clock>>
    BY DEF BeginSettle, tables
<1> HIDE DEF t
<1> QED
    BY <1>1, <1>2, Beginning

\* A transaction that commits writes, and only where no row is in its way.
LEMMA WriteWrites ==
    ASSUME TasksTyped, RowsTyped, NEW w \in Worker, Write(w), Return(w)
    PROVE  Moves(w) /\ Writes(w) /\ SettlesOn(w)
<1>1. task[w].pc = "commit" /\ ~ Conflict(w) /\ lastPaid' = NextPaid(task[w])
      /\ clears' = NextClears(task[w]) /\ UNCHANGED clock
    BY DEF Write
<1>2. task[w].op = "settle" /\ task[w].seen = NoRow => clears = NoRow
    BY <1>1 DEF Conflict
<1>3. Moves(w) /\ task'[w] = IdleTask /\ SettlesOn(w)
    BY IdleTaskLike DEF TasksTyped, Return, Moves, SettlesOn
<1> DEFINE earned == IF task[w].op \in {"card", "facility"} THEN history.earned
                     ELSE [a \in Asset |-> history.earned[a] + task[w].change[a]]
           firsts == IF task[w].op = "settle" /\ task[w].seen = NoRow
                     THEN history.firsts + 1 ELSE history.firsts
<1>4. history' = [history EXCEPT !.absence = history.absence + task[w].absence,
                      !.firsts = firsts, !.earned = earned]
    BY DEF Write, RowsTyped
<1>5. firsts \in Nat /\ history.absence + task[w].absence \in Int
    BY DEF RowsTyped, TasksTyped, TaskLike
<1> HIDE DEF earned
<1>6. /\ history'.overlap = history.overlap
      /\ history'.opened = history.opened
      /\ history'.absence = history.absence + task[w].absence
      /\ history'.firsts = firsts
      /\ history' \in [overlap: BOOLEAN, opened: Int, absence: Int, earned: {history'.earned},
                       firsts: Nat]
    <2> HIDE DEF firsts
    <2> QED
        BY <1>4, <1>5 DEF RowsTyped
<1> QED
    BY <1>1, <1>2, <1>3, <1>6 DEF Writes

\* Every step of the economy is one of the kinds, and none begins a settlement.
LEMMA EconomySteps ==
    ASSUME TasksTyped, RowsTyped, EconomyNext
    PROVE  \/ Ticks \/ Views \/ Rests
           \/ \E w \in Worker : Works(w) /\ SettlesOn(w)
<1> USE DEF tables
<1>1. CASE Tick
    BY <1>1 DEF Tick, Ticks
<1>2. ASSUME NEW w \in Worker, GetCards(w) PROVE Rests
    BY <1>2 DEF GetCards, Rests
<1>3. ASSUME NEW w \in Worker, GetOverview(w) PROVE Views
    BY <1>3 DEF GetOverview, Views
<1>4. ASSUME NEW w \in Worker, ClaimOfflineReward(w) PROVE Works(w) /\ SettlesOn(w)
    <2> DEFINE t == [IdleTask EXCEPT !.pc = "open", !.op = "claim"]
    <2>1. TaskLike(t) /\ t.absence = 0 /\ t.pc \in {"open", "read", "save"}
          /\ (t.pc = "open" <=> t.op = "claim") /\ t.op # "settle"
        BY IdleTaskLike DEF TaskLike
    <2>2. Begin(w, t) /\ UNCHANGED <<lastPaid, clears, clock>>
        BY <1>4 DEF ClaimOfflineReward
    <2> HIDE DEF t
    <2> QED
        BY <2>1, <2>2, Beginning DEF Works, SettlesOn
<1>5. ASSUME NEW w \in Worker, NEW c \in CardID, UpgradeCard(w, c)
      PROVE  Works(w) /\ SettlesOn(w)
    <2> DEFINE t == [IdleTask EXCEPT !.pc = "read", !.op = "card", !.on = c]
    <2>1. TaskLike(t) /\ t.absence = 0 /\ t.pc \in {"open", "read", "save"}
          /\ (t.pc = "open" <=> t.op = "claim") /\ t.op # "settle"
        BY IdleTaskLike DEF TaskLike
    <2>2. Begin(w, t) /\ UNCHANGED <<lastPaid, clears, clock>>
        BY <1>5 DEF UpgradeCard
    <2> HIDE DEF t
    <2> QED
        BY <2>1, <2>2, Beginning DEF Works, SettlesOn
<1>6. ASSUME NEW w \in Worker, NEW f \in Facility, UpgradeFacility(w, f)
      PROVE  Works(w) /\ SettlesOn(w)
    <2> DEFINE t == [IdleTask EXCEPT !.pc = "read", !.op = "facility", !.on = f]
    <2>1. TaskLike(t) /\ t.absence = 0 /\ t.pc \in {"open", "read", "save"}
          /\ (t.pc = "open" <=> t.op = "claim") /\ t.op # "settle"
        BY IdleTaskLike DEF TaskLike
    <2>2. Begin(w, t) /\ UNCHANGED <<lastPaid, clears, clock>>
        BY <1>6 DEF UpgradeFacility
    <2> HIDE DEF t
    <2> QED
        BY <2>1, <2>2, Beginning DEF Works, SettlesOn
<1>7. ASSUME NEW w \in Worker, NEW cards \in DeckWish, SaveDeck(w, cards)
      PROVE  Works(w) /\ SettlesOn(w)
    <2> DEFINE t == [IdleTask EXCEPT !.pc = "save", !.op = "deck", !.wish = cards]
    <2>1. TaskLike(t) /\ t.absence = 0 /\ t.pc \in {"open", "read", "save"}
          /\ (t.pc = "open" <=> t.op = "claim") /\ t.op # "settle"
        BY IdleTaskLike DEF TaskLike
    <2>2. Begin(w, t) /\ UNCHANGED <<lastPaid, clears, clock>>
        BY <1>7 DEF SaveDeck
    <2> HIDE DEF t
    <2> QED
        BY <2>1, <2>2, Beginning DEF Works, SettlesOn
<1>8. ASSUME NEW w \in Worker, NEW wish \in AssetWish, ChangeAsset(w, wish)
      PROVE  Works(w) /\ SettlesOn(w)
    <2> DEFINE t == [IdleTask EXCEPT !.pc = "read", !.op = "asset",
                          !.change = IF wish.sign > 0 THEN Merged(wish.items)
                                     ELSE Less(Merged(wish.items))]
    <2>1. TaskLike(t) /\ t.absence = 0 /\ t.pc \in {"open", "read", "save"}
          /\ (t.pc = "open" <=> t.op = "claim") /\ t.op # "settle"
        BY IdleTaskLike DEF TaskLike
    <2>2. Begin(w, t) /\ UNCHANGED <<lastPaid, clears, clock>>
        BY <1>8 DEF ChangeAsset
    <2> HIDE DEF t
    <2> QED
        BY <2>1, <2>2, Beginning DEF Works, SettlesOn
<1>9. ASSUME NEW w \in Worker, Open(w) PROVE Works(w) /\ SettlesOn(w)
    <2> DEFINE u == [task[w] EXCEPT !.pc = "preview", !.from = OpenedAt]
    <2>1. OpenedAt \in Int
        BY DEF OpenedAt, RowsTyped
    <2>2. task[w].pc = "open" /\ task' = [task EXCEPT ![w] = u]
        BY <1>9 DEF Open, TasksTyped, TaskLike
    <2>3. TaskLike(u) /\ u.pc = "preview" /\ u.op = task[w].op /\ u.from = OpenedAt
          /\ u.absence = task[w].absence
        BY <2>1 DEF TasksTyped, TaskLike
    <2>4. OpenWorkshop /\ UNCHANGED <<clears, clock>>
        BY <1>9 DEF Open
    <2> HIDE DEF u
    <2> QED
        BY <2>2, <2>3, <2>4 DEF TasksTyped, Works, Moves, Opens, SettlesOn
<1>10. ASSUME NEW w \in Worker, Preview(w) PROVE Works(w) /\ SettlesOn(w)
    <2> DEFINE seconds == EffectiveOffline(clock - task[w].from)
               change == OfflineReward(seconds)
               u == [task[w] EXCEPT !.pc = "read", !.absence = seconds, !.change = change]
    <2>1. task[w].pc = "preview" /\ UNCHANGED <<lastPaid, clears, clock, history>>
        BY <1>10 DEF Preview
    <2>2. task' = [task EXCEPT ![w] = u]
        BY <1>10 DEF Preview, TasksTyped, TaskLike
    <2>3. clock - task[w].from \in Int
        BY DEF RowsTyped, TasksTyped, TaskLike
    <2>4. seconds \in Nat
        BY <2>3, EffectiveOfflineBounds
    <2> HIDE DEF change
    <2>5. TaskLike(u) /\ u.pc = "read" /\ u.op = task[w].op /\ u.from = task[w].from
          /\ u.absence = seconds
        <3> HIDE DEF seconds
        <3> QED
            BY <2>4 DEF TasksTyped, TaskLike
    <2> HIDE DEF u
    <2> QED
        BY <2>1, <2>2, <2>5 DEF TasksTyped, Works, Moves, Previews, SettlesOn
<1>11. ASSUME NEW w \in Worker, Save(w) PROVE Works(w) /\ SettlesOn(w)
    BY <1>11, Returning DEF Save, Works
<1>12. ASSUME NEW w \in Worker, ReadCard(w) PROVE Works(w) /\ SettlesOn(w)
    BY <1>12, Returning, Reading DEF ReadCard, ReadUpgrade, Works
<1>13. ASSUME NEW w \in Worker, ReadFacility(w) PROVE Works(w) /\ SettlesOn(w)
    BY <1>13, Returning, Reading DEF ReadFacility, ReadUpgrade, Works
<1>14. ASSUME NEW w \in Worker, ReadClaim(w) PROVE Works(w) /\ SettlesOn(w)
    <2>1. CASE task[w].absence = 0
        BY <1>14, <2>1, Returning DEF ReadClaim, Works
    <2>2. CASE task[w].absence # 0
        <3> DEFINE base == [a \in Asset |-> IF task[w].change[a] = 0 THEN 0 ELSE balance[a]]
                   u == [task[w] EXCEPT !.pc = "commit", !.until = clock, !.base = base]
        <3>1. task[w].pc = "read" /\ task[w].op = "claim"
              /\ UNCHANGED <<lastPaid, clears, clock, history>>
            BY <1>14 DEF ReadClaim
        <3>2. task' = [task EXCEPT ![w] = u]
            BY <1>14, <2>2 DEF ReadClaim, TasksTyped, TaskLike
        <3> HIDE DEF base
        <3>3. clock \in Int
            BY DEF RowsTyped
        <3>4. TaskLike(u) /\ u.pc = "commit" /\ u.op = task[w].op /\ u.from = task[w].from
              /\ u.absence = task[w].absence /\ u.until = clock
            BY <3>3 DEF TasksTyped, TaskLike
        <3> HIDE DEF u
        <3> QED
            BY <3>1, <3>2, <3>4 DEF TasksTyped, Works, Moves, Reads, SettlesOn
    <2> QED
        BY <2>1, <2>2
<1>15. ASSUME NEW w \in Worker, ReadAsset(w) PROVE Works(w) /\ SettlesOn(w)
    BY <1>15, Returning, Reading DEF ReadAsset, Works
<1>16. ASSUME NEW w \in Worker, ReadSettle(w) PROVE Works(w) /\ SettlesOn(w)
    BY <1>16, Returning, Reading DEF ReadSettle, Works
<1>17. ASSUME NEW w \in Worker, Commit(w) PROVE Works(w) /\ SettlesOn(w)
    BY <1>17, WriteWrites DEF Commit, Works
<1>18. ASSUME NEW w \in Worker, RollBack(w) PROVE Works(w) /\ SettlesOn(w)
    BY <1>18, Returning DEF RollBack, Works
<1> QED
    BY <1>1, <1>2, <1>3, <1>4, <1>5, <1>6, <1>7, <1>8, <1>9, <1>10, <1>11, <1>12, <1>13,
       <1>14, <1>15, <1>16, <1>17, <1>18 DEF EconomyNext, Command, Continue

-----------------------------------------------------------------------------

\* What a task may be at each of its steps.
TasksRun ==
    \A w \in Worker :
        LET t == task[w]
        IN
        /\ t.pc = "idle" => t.op = "card"
        /\ t.pc \in {"open", "preview"} => t.op = "claim"
        /\ t.op # "claim" \/ t.pc \in {"open", "preview"} => t.absence = 0
        /\ t.pc = "commit" /\ t.op = "claim" => t.until \in Nat
        /\ t.pc = "commit" /\ t.op = "settle" => t.seen \in Nat \cup {NoRow}

\* The row of the level is there when its first clear has been rewarded.
FirstClearKept ==
    /\ FirstClearOnce
    /\ clears = NoRow => history.firsts = 0

\* While one worker at a time executes: the time a claim goes by is the one in
\* the row, and what it pays ends before the time it will store.
ClaimsFollowTheRow ==
    \A w \in Worker :
        LET t == task[w]
        IN
        t.op = "claim" =>
            /\ t.pc \in {"preview", "read", "commit"} => lastPaid # NoRow /\ t.from = lastPaid
            /\ t.pc = "read" => t.absence <= clock - lastPaid
            /\ t.pc = "commit" => t.until <= clock /\ t.absence <= t.until - lastPaid

\* One worker at a time executes.
OneAtATime ==
    \A v, w \in Worker : task[v].pc # "idle" /\ task[w].pc # "idle" => v = w

\* What has been paid ends where the row says.
AbsenceKept ==
    history.overlap \/
        /\ OneAtATime
        /\ history.opened \in Nat \cup {NoRow}
        /\ lastPaid = NoRow <=> history.opened = NoRow
        /\ lastPaid <= clock
        /\ history.absence <= OrZero(lastPaid) - OrZero(history.opened)
        /\ ClaimsFollowTheRow

\* The invariant of the economy.
EconomyInv == TasksTyped /\ RowsTyped /\ TasksRun /\ FirstClearKept /\ AbsenceKept

\* It holds at first,
LEMMA EconomyInitially == EconomyInit => EconomyInv
<1> SUFFICES ASSUME EconomyInit PROVE EconomyInv
    OBVIOUS
<1>1. TasksTyped
    BY IdleTaskLike DEF EconomyInit, TasksTyped
<1>2. history = [overlap |-> FALSE, opened |-> NoRow, absence |-> 0, earned |-> NoChange,
                 firsts |-> 0] /\ lastPaid = NoRow /\ clears = NoRow /\ clock = 0
    BY DEF EconomyInit
<1>3. RowsTyped
    BY <1>2 DEF RowsTyped, NoRow
<1>4. \A w \in Worker : task[w] = IdleTask
    BY DEF EconomyInit
<1>5. TasksRun
    BY <1>4, IdleTaskLike DEF TasksRun
<1>6. FirstClearKept
    BY <1>2 DEF FirstClearKept, FirstClearOnce
<1>7. AbsenceKept
    BY <1>2, <1>4, IdleTaskLike DEF AbsenceKept, OneAtATime, ClaimsFollowTheRow, OrZero, NoRow
<1> QED
    BY <1>1, <1>3, <1>5, <1>6, <1>7 DEF EconomyInv

\* a step of a worker keeps the types,
LEMMA WorkTyped ==
    ASSUME EconomyInv, NEW w \in Worker, Works(w)
    PROVE  TasksTyped' /\ RowsTyped'
<1>1. TasksTyped'
    BY DEF EconomyInv, TasksTyped, Works, Moves
<1>2. lastPaid' \in Nat \cup {NoRow}
    BY DEF EconomyInv, RowsTyped, TasksRun, Works, Begins, Leaves, Opens, OpenWorkshop, OpenedAt,
        Previews, Reads, Writes, NextPaid
<1>3. clears' \in Nat \cup {NoRow}
    BY DEF EconomyInv, RowsTyped, TasksRun, Works, Begins, Leaves, Opens, Previews, Reads, Writes,
        NextClears, OrZero
<1>4. clock' \in Nat
    BY DEF EconomyInv, RowsTyped, Works, Begins, Leaves, Opens, Previews, Reads, Writes
<1>5. history' \in [overlap: BOOLEAN, opened: Int, absence: Int, earned: {history'.earned},
                    firsts: Nat]
    <2>1. CASE Begins(w)
        BY <2>1 DEF EconomyInv, RowsTyped, Begins, BusyElsewhere
    <2>2. CASE Opens(w)
        BY <2>2 DEF EconomyInv, RowsTyped, Opens, OpenWorkshop
    <2>3. CASE Leaves(w) \/ Previews(w) \/ Reads(w)
        BY <2>3 DEF EconomyInv, RowsTyped, Leaves, Previews, Reads
    <2>4. CASE Writes(w)
        BY <2>4 DEF Writes
    <2> QED
        BY <2>1, <2>2, <2>3, <2>4 DEF Works
<1> QED
    BY <1>1, <1>2, <1>3, <1>4, <1>5 DEF RowsTyped

\* the course of the tasks,
LEMMA WorkRuns ==
    ASSUME EconomyInv, NEW w \in Worker, Works(w)
    PROVE  TasksRun'
<1> SUFFICES ASSUME NEW v \in Worker
             PROVE  LET t == task'[v]
                    IN  /\ t.pc = "idle" => t.op = "card"
                        /\ t.pc \in {"open", "preview"} => t.op = "claim"
                        /\ t.op # "claim" \/ t.pc \in {"open", "preview"} => t.absence = 0
                        /\ t.pc = "commit" /\ t.op = "claim" => t.until \in Nat
                        /\ t.pc = "commit" /\ t.op = "settle" => t.seen \in Nat \cup {NoRow}
    BY DEF TasksRun
<1>1. CASE v # w
    BY <1>1 DEF EconomyInv, TasksRun, Works, Moves
<1>2. CASE v = w /\ Begins(w)
    BY <1>2 DEF Begins
<1>3. CASE v = w /\ (Leaves(w) \/ Writes(w))
    BY <1>3, IdleTaskLike DEF Leaves, Writes
<1>4. CASE v = w /\ Opens(w)
    BY <1>4 DEF EconomyInv, TasksRun, Opens
<1>5. CASE v = w /\ Previews(w)
    BY <1>5 DEF EconomyInv, TasksRun, Previews
<1>6. CASE v = w /\ Reads(w)
    BY <1>6 DEF EconomyInv, TasksRun, RowsTyped, Reads
<1> QED
    BY <1>1, <1>2, <1>3, <1>4, <1>5, <1>6 DEF Works

\* the row of the level behind its first clear,
LEMMA WorkKeepsFirstClear ==
    ASSUME EconomyInv, NEW w \in Worker, Works(w)
    PROVE  FirstClearKept'
<1>1. CASE Begins(w) \/ Leaves(w) \/ Opens(w) \/ Previews(w) \/ Reads(w)
    <2>1. history'.firsts = history.firsts /\ clears' = clears
        BY <1>1 DEF EconomyInv, RowsTyped, Begins, Leaves, Opens, OpenWorkshop, Previews, Reads
    <2> QED
        BY <2>1 DEF EconomyInv, FirstClearKept, FirstClearOnce
<1>2. CASE Writes(w)
    <2>1. CASE task[w].op = "settle"
        <3>1. clears' # NoRow
            BY <1>2, <2>1 DEF EconomyInv, TasksRun, Writes, NextClears, OrZero, NoRow
        <3> QED
            BY <1>2, <2>1, <3>1
            DEF EconomyInv, RowsTyped, FirstClearKept, FirstClearOnce, Writes
    <2>2. CASE task[w].op # "settle"
        BY <1>2, <2>2 DEF EconomyInv, FirstClearKept, FirstClearOnce, Writes, NextClears
    <2> QED
        BY <2>1, <2>2
<1> QED
    BY <1>1, <1>2 DEF Works

\* and the row of the workshop behind what was paid.
LEMMA WorkKeepsAbsence ==
    ASSUME EconomyInv, NEW w \in Worker, Works(w)
    PROVE  AbsenceKept'
<1> SUFFICES ASSUME ~ history'.overlap
             PROVE  /\ OneAtATime'
                    /\ history'.opened \in Nat \cup {NoRow}
                    /\ lastPaid' = NoRow <=> history'.opened = NoRow
                    /\ lastPaid' <= clock'
                    /\ history'.absence <= OrZero(lastPaid') - OrZero(history'.opened)
                    /\ ClaimsFollowTheRow'
    BY DEF AbsenceKept
<1>1. ~ history.overlap
    BY DEF EconomyInv, RowsTyped, Works, Begins, Leaves, Opens, OpenWorkshop, Previews,
        Reads, Writes
<1>2. /\ OneAtATime
      /\ history.opened \in Nat \cup {NoRow}
      /\ lastPaid = NoRow <=> history.opened = NoRow
      /\ lastPaid <= clock
      /\ history.absence <= OrZero(lastPaid) - OrZero(history.opened)
      /\ ClaimsFollowTheRow
    BY <1>1 DEF EconomyInv, AbsenceKept
<1>3. /\ lastPaid \in Nat \cup {NoRow} /\ clock \in Nat
      /\ history.absence \in Int
      /\ task[w].absence \in Nat /\ task[w].from \in Int /\ task[w].until \in Int
    BY DEF EconomyInv, RowsTyped, TasksTyped, TaskLike
<1>4. \A v \in Worker \ {w} : task'[v] = task[v]
    BY DEF Works, Moves
<1>5. OneAtATime' /\ \A v \in Worker \ {w} : task[v].pc = "idle"
    <2>1. CASE Begins(w)
        <3>1. ~ BusyElsewhere(w)
            BY <2>1 DEF EconomyInv, RowsTyped, Begins
        <3> QED
            BY <1>4, <3>1 DEF BusyElsewhere, OneAtATime
    <2>2. CASE Leaves(w) \/ Opens(w) \/ Previews(w) \/ Reads(w) \/ Writes(w)
        <3>1. task[w].pc # "idle"
            BY <2>2 DEF Leaves, Opens, Previews, Reads, Writes
        <3> QED
            BY <1>2, <1>4, <3>1 DEF OneAtATime
    <2> QED
        BY <2>1, <2>2 DEF Works
<1>6. \A v \in Worker \ {w} : task'[v].op # "claim"
    BY <1>4, <1>5 DEF EconomyInv, TasksRun
<1>7. SUFFICES /\ history'.opened \in Nat \cup {NoRow}
               /\ lastPaid' = NoRow <=> history'.opened = NoRow
               /\ lastPaid' <= clock'
               /\ history'.absence <= OrZero(lastPaid') - OrZero(history'.opened)
               /\ task'[w].op = "claim" =>
                      /\ task'[w].pc \in {"preview", "read", "commit"} =>
                             lastPaid' # NoRow /\ task'[w].from = lastPaid'
                      /\ task'[w].pc = "read" => task'[w].absence <= clock' - lastPaid'
                      /\ task'[w].pc = "commit" =>
                             /\ task'[w].until <= clock'
                             /\ task'[w].absence <= task'[w].until - lastPaid'
    BY <1>5, <1>6 DEF ClaimsFollowTheRow
<1>8. CASE Begins(w)
    BY <1>2, <1>8 DEF EconomyInv, RowsTyped, Begins
<1>9. CASE Leaves(w)
    BY <1>2, <1>9, IdleTaskLike DEF Leaves
<1>10. CASE Opens(w)
    <2>1. CASE lastPaid = NoRow
        <3>1. lastPaid' = clock /\ history'.opened = clock /\ history'.absence = history.absence
              /\ clock' = clock
            BY <1>10, <2>1 DEF EconomyInv, RowsTyped, Opens, OpenWorkshop, OpenedAt
        <3> QED
            BY <1>2, <1>3, <1>10, <2>1, <3>1 DEF Opens, OpenedAt, OrZero, NoRow
    <2>2. CASE lastPaid # NoRow
        BY <1>2, <1>3, <1>10, <2>2 DEF Opens, OpenWorkshop, OpenedAt
    <2> QED
        BY <2>1, <2>2
<1>11. CASE Previews(w)
    <2>1. task[w].op = "claim" /\ lastPaid # NoRow /\ task[w].from = lastPaid
        BY <1>2, <1>11 DEF EconomyInv, TasksRun, Previews, ClaimsFollowTheRow
    <2>2. EffectiveOffline(clock - lastPaid) <= clock - lastPaid
        BY <1>2, <1>3, <2>1, EffectiveOfflineBounds DEF NoRow
    <2> QED
        BY <1>2, <1>11, <2>1, <2>2 DEF Previews
<1>12. CASE Reads(w)
    BY <1>2, <1>3, <1>12 DEF Reads, ClaimsFollowTheRow
<1>13. CASE Writes(w)
    <2>1. CASE task[w].op = "claim"
        <3>1. lastPaid # NoRow /\ task[w].until <= clock
              /\ task[w].absence <= task[w].until - lastPaid /\ task[w].until \in Nat
            BY <1>2, <1>13, <2>1 DEF Writes, ClaimsFollowTheRow, EconomyInv, TasksRun
        <3>2. lastPaid' = task[w].until /\ history'.absence = history.absence + task[w].absence
              /\ history'.opened = history.opened /\ clock' = clock /\ task'[w] = IdleTask
            BY <1>13, <2>1 DEF Writes, NextPaid
        <3> QED
            BY <1>2, <1>3, <3>1, <3>2, IdleTaskLike DEF OrZero, NoRow
    <2>2. CASE task[w].op # "claim"
        <3>1. task[w].absence = 0
            BY <2>2 DEF EconomyInv, TasksRun
        <3>2. lastPaid' = lastPaid /\ history'.absence = history.absence
              /\ history'.opened = history.opened /\ clock' = clock /\ task'[w] = IdleTask
            BY <1>3, <1>13, <2>2, <3>1 DEF Writes, NextPaid
        <3> QED
            BY <1>2, <3>2, IdleTaskLike
    <2> QED
        BY <2>1, <2>2
<1> QED
    BY <1>8, <1>9, <1>10, <1>11, <1>12, <1>13 DEF Works

\* Together:
LEMMA WorkKept ==
    ASSUME EconomyInv, NEW w \in Worker, Works(w)
    PROVE  EconomyInv'
    BY WorkTyped, WorkRuns, WorkKeepsFirstClear, WorkKeepsAbsence DEF EconomyInv

\* Every step of the economy keeps its invariant.
LEMMA EconomyKept ==
    ASSUME EconomyInv, EconomyNext \/ Rests
    PROVE  EconomyInv'
<1>1. CASE Ticks
    <2>1. TasksTyped' /\ TasksRun' /\ FirstClearKept'
        BY <1>1 DEF EconomyInv, Ticks, TasksTyped, TasksRun, FirstClearKept, FirstClearOnce
    <2>2. RowsTyped'
        BY <1>1 DEF EconomyInv, Ticks, RowsTyped
    <2>3. AbsenceKept'
        <3>1. ASSUME NEW w \in Worker PROVE task[w].absence \in Nat /\ task[w].until \in Int
            BY DEF EconomyInv, TasksTyped, TaskLike
        <3>2. clock \in Nat /\ lastPaid \in Int
            BY DEF EconomyInv, RowsTyped, NoRow
        <3>3. ClaimsFollowTheRow => ClaimsFollowTheRow'
            BY <1>1, <3>1, <3>2 DEF Ticks, ClaimsFollowTheRow
        <3> QED
            BY <1>1, <3>2, <3>3 DEF EconomyInv, Ticks, AbsenceKept, OneAtATime
    <2> QED
        BY <2>1, <2>2, <2>3 DEF EconomyInv
<1>2. CASE Views
    <2>1. TasksTyped' /\ TasksRun'
        BY <1>2 DEF EconomyInv, Views, TasksTyped, TasksRun
    <2>2. CASE lastPaid # NoRow
        <3>1. Rests
            BY <1>2, <2>2 DEF Views, OpenWorkshop, OpenedAt, Rests
        <3> QED
            BY <3>1 DEF Rests, EconomyInv, TasksTyped, RowsTyped, TasksRun, FirstClearKept,
                FirstClearOnce, AbsenceKept, OneAtATime, ClaimsFollowTheRow
    <2>3. CASE lastPaid = NoRow
        <3>1. lastPaid' = clock /\ history' = [history EXCEPT !.opened = clock]
              /\ UNCHANGED <<task, clears, clock>> /\ clock \in Nat
            BY <1>2, <2>3 DEF EconomyInv, RowsTyped, Views, OpenWorkshop, OpenedAt
        <3>2. RowsTyped' /\ history'.firsts = history.firsts /\ history'.absence = history.absence
              /\ history'.overlap = history.overlap /\ history'.opened = clock
            BY <3>1 DEF EconomyInv, RowsTyped
        <3>3. FirstClearKept'
            BY <3>1, <3>2 DEF EconomyInv, FirstClearKept, FirstClearOnce
        <3>4. AbsenceKept'
            <4>1. ClaimsFollowTheRow => ClaimsFollowTheRow'
                BY <2>3, <3>1 DEF ClaimsFollowTheRow
            <4> QED
                BY <2>3, <3>1, <3>2, <4>1 DEF EconomyInv, AbsenceKept, OneAtATime, OrZero, NoRow
        <3> QED
            BY <2>1, <3>2, <3>3, <3>4 DEF EconomyInv
    <2> QED
        BY <2>2, <2>3
<1>3. CASE Rests
    BY <1>3 DEF Rests, EconomyInv, TasksTyped, RowsTyped, TasksRun, FirstClearKept,
        FirstClearOnce, AbsenceKept, OneAtATime, ClaimsFollowTheRow
<1>4. CASE EconomyNext
    BY <1>1, <1>2, <1>3, <1>4, EconomySteps, WorkKept DEF EconomyInv
<1> QED
    BY <1>3, <1>4

-----------------------------------------------------------------------------
(* 7. The books of the player. *)

\* The level that an upgrade goes by.
Current(t) == IF t.op = "facility" /\ t.seen = NoRow THEN 1 ELSE t.seen

Upgrades(t) == t.op \in {"card", "facility"}

\* What a task carries from step to step.
TaskPays(t) ==
    /\ t.op = "card" /\ t.pc # "idle" => t.on \in CardID
    /\ t.op = "facility" /\ t.pc # "idle" => t.on \in Facility
    /\ t.op = "asset" /\ t.pc = "read" => t.change \in [Asset -> Int]
    /\ t.op = "claim" /\ t.pc = "read" => t.change \in [Asset -> Nat]
    /\ t.op = "settle" /\ t.pc = "read" => t.wish \in Seq(ItemCount)
    /\ t.pc = "commit" =>
           /\ t.change \in [Asset -> Int]
           /\ t.base \in [Asset -> Nat \cup {NoRow}]
           /\ \A a \in Asset : t.change[a] # 0 => OrZero(t.base[a]) + t.change[a] >= 0
    /\ t.pc = "commit" /\ Upgrades(t) =>
           /\ Current(t) \in Nat \ {0} /\ Current(t) < MaxLevel[t.on]
           /\ t.change = Less(Merged(Prices[t.on][Current(t) + 1]))
    /\ t.pc = "save" => Len(t.wish) <= MaxDeckSize

\* What a transaction has read of the balances and levels is still there.
UpToDate(t, balances, levels) ==
    /\ \A a \in Asset : t.change[a] # 0 => t.base[a] = balances[a]
    /\ Upgrades(t) => levels[t.on] = t.seen

\* The rows of the player.
BooksTyped ==
    /\ balance \in [Asset -> Nat \cup {NoRow}]
    /\ logged \in [Asset -> Int]
    /\ level \in [Upgradable -> Nat \cup {NoRow}]
    /\ \A x \in Upgradable : level[x] # 0 /\ level[x] <= MaxLevel[x]
    /\ history.earned \in [Asset -> Int]

\* What it costs of item a to come to these levels: of each card and facility, and
\* altogether.
CostAt(levels, a) ==
    [x \in Upgradable |-> IF levels[x] = NoRow THEN 0 ELSE CostUpTo(x, a)[levels[x]]]

CostOf(levels, a) == Total(CostAt(levels, a))

\* The levels that are paid: none is higher, in the rows or in what a
\* transaction has read.
Covers(top) ==
    /\ \A x \in Upgradable : top[x] \in 1 .. MaxLevel[x] /\ level[x] <= top[x]
    /\ \A w \in Worker :
           task[w].pc = "commit" /\ Upgrades(task[w]) => Current(task[w]) <= top[task[w].on]
    /\ \A a \in Asset : history.earned[a] - logged[a] >= CostOf(top, a)

\* While one worker at a time executes: the books balance.
Balanced ==
    /\ \A a \in Asset : history.earned[a] - logged[a] = Spent(a)
    /\ \A a \in Asset : Held(a) = OrZero(Start[a]) + logged[a]
    /\ \A w \in Worker : task[w].pc = "commit" => UpToDate(task[w], balance, level)

\* The books of the player.
BooksInv ==
    /\ BooksTyped
    /\ \A w \in Worker : TaskPays(task[w])
    /\ \E top \in [Upgradable -> Nat] : Covers(top)
    /\ history.overlap \/ Balanced

\* A step that leaves the books alone: default cards may be created, and tasks
\* that come to their COMMIT have read the rows as they are.
Prepares ==
    /\ UNCHANGED <<balance, logged>>
    /\ history'.earned = history.earned
    /\ ~ history'.overlap => ~ history.overlap
    /\ level' = level \/ EnsureDefaultCards
    /\ \A v \in Worker :
           task'[v] = task[v] \/ (/\ TaskPays(task'[v])
                                  /\ task'[v].pc = "commit" => UpToDate(task'[v], balance, level))

\* The COMMIT of a worker.
Stores(w) ==
    LET t == task[w]
    IN
    /\ t.pc = "commit"
    /\ balance' = [a \in Asset |->
           IF t.change[a] = 0 THEN balance[a] ELSE OrZero(t.base[a]) + t.change[a]]
    /\ logged' = NextLogged(t)
    /\ level' = NextLevel(t)
    /\ history'.overlap = history.overlap
    /\ history'.earned = IF Upgrades(t) THEN history.earned
                         ELSE [a \in Asset |-> history.earned[a] + t.change[a]]
    /\ task'[w] = IdleTask
    /\ \A v \in Worker \ {w} : task'[v] = task[v]

\* A worker's new task prepares.
LEMMA Preparing ==
    ASSUME TasksTyped, NEW w \in Worker, NEW u, task' = [task EXCEPT ![w] = u], TaskPays(u),
           u.pc # "commit" \/ UpToDate(u, balance, level),
           UNCHANGED <<balance, logged>>, history'.earned = history.earned,
           history.overlap => history'.overlap, level' = level \/ EnsureDefaultCards
    PROVE  Prepares
<1>1. task'[w] = u /\ \A v \in Worker \ {w} : task'[v] = task[v]
    BY DEF TasksTyped
<1> QED
    BY <1>1 DEF Prepares

\* The task of a worker that does nothing pays nothing.
LEMMA IdlePays == TaskPays(IdleTask) /\ IdleTask.pc = "idle"
    BY DEF TaskPays, IdleTask, Upgrades

\* A command begins,
LEMMA BeginPrepares ==
    ASSUME TasksTyped, RowsTyped, NEW w \in Worker, NEW t, Begin(w, t), TaskPays(t),
           t.pc # "commit", UNCHANGED <<balance, logged>>, level' = level \/ EnsureDefaultCards
    PROVE  Prepares
<1>1. history'.earned = history.earned /\ (history.overlap => history'.overlap)
    BY DEF RowsTyped, Begin
<1>2. task' = [task EXCEPT ![w] = t]
    BY DEF Begin
<1> QED
    BY <1>1, <1>2, Preparing

\* returns,
LEMMA ReturnPrepares ==
    ASSUME TasksTyped, NEW w \in Worker, Return(w), UNCHANGED <<balance, logged, level, history>>
    PROVE  Prepares
    BY IdlePays, Preparing DEF Return

\* or has read what its transaction needs.
LEMMA SnapshotPrepares ==
    ASSUME TasksTyped, BooksTyped, NEW w \in Worker, NEW seen, NEW change \in [Asset -> Int],
           TaskPays(task[w]), task[w].pc = "read", Payable(change), Snapshot(w, seen, change),
           Upgrades(task[w]) =>
               LET c == IF task[w].op = "facility" /\ seen = NoRow THEN 1 ELSE seen
                   x == task[w].on
               IN  /\ level[x] = seen
                   /\ c \in Nat \ {0} /\ c < MaxLevel[x]
                   /\ change = Less(Merged(Prices[x][c + 1])),
           UNCHANGED <<balance, logged, level, history>>
    PROVE  Prepares
<1>1. PICK base : base = [a \in Asset |-> IF change[a] = 0 THEN 0 ELSE balance[a]]
    OBVIOUS
<1>2. PICK u : u = [task[w] EXCEPT !.pc = "commit", !.seen = seen, !.change = change, !.base = base]
    OBVIOUS
<1>3. task' = [task EXCEPT ![w] = u]
    BY <1>1, <1>2 DEF Snapshot, TasksTyped, TaskLike
<1>4. /\ u.pc = "commit" /\ u.op = task[w].op /\ u.on = task[w].on
      /\ u.seen = seen /\ u.change = change /\ u.base = base
    BY <1>2 DEF TasksTyped, TaskLike
<1>5. base \in [Asset -> Nat \cup {NoRow}]
    BY <1>1 DEF BooksTyped
<1>6. \A a \in Asset : change[a] # 0 => base[a] = balance[a] /\ OrZero(base[a]) + change[a] >= 0
    BY <1>1 DEF Payable, Held
<1>7. TaskPays(u)
    BY <1>4, <1>5, <1>6 DEF TaskPays, Upgrades, Current
<1>8. UpToDate(u, balance, level)
    BY <1>4, <1>6 DEF UpToDate, Upgrades
<1> QED
    BY <1>3, <1>7, <1>8, Preparing

\* What a price takes away.
LEMMA LessType ==
    ASSUME NEW price \in [Asset -> Nat]
    PROVE  Less(price) \in [Asset -> Int]
<1>1. \A n \in Nat : - n \in Int
    OBVIOUS
<1>2. \A a \in Asset : - price[a] \in Int
    BY <1>1, Zenon
<1> QED
    BY <1>2, Zenon DEF Less

\* An upgrade that can be paid has read its price.
LEMMA UpgradePrepares ==
    ASSUME TasksTyped, BooksTyped, NEW w \in Worker, TaskPays(task[w]), task[w].pc = "read",
           Upgrades(task[w]), NEW c \in Nat \ {0}, ReadUpgrade(w, c),
           c = IF task[w].op = "facility" /\ level[task[w].on] = NoRow
               THEN 1 ELSE level[task[w].on],
           UNCHANGED <<balance, logged, level, history>>
    PROVE  Prepares
<1>1. PICK x \in Upgradable : x = task[w].on
    BY DEF TaskPays, Upgrades, Upgradable
<1>2. PICK change : change = Less(Merged(Prices[x][c + 1]))
    OBVIOUS
<1>3. CASE Return(w)
    BY <1>3, ReturnPrepares, Zenon
<1>4. CASE c < MaxLevel[x] /\ Payable(change) /\ Snapshot(w, level[x], change)
    <2>1. c + 1 \in 2 .. MaxLevel[x]
        <3>1. PICK limit \in Nat : limit = MaxLevel[x]
            BY AssetData
        <3>2. c < limit
            BY <1>4, <3>1
        <3> QED
            BY <3>1, <3>2
    <2>2. Merged(Prices[x][c + 1]) \in [Asset -> Nat]
        BY <2>1, PricesType, Zenon
    <2>3. change \in [Asset -> Int]
        BY <1>2, <2>2, LessType, Zenon
    <2> QED
        BY <1>1, <1>2, <1>4, <2>3, SnapshotPrepares, Zenon
<1> QED
    BY <1>1, <1>2, <1>3, <1>4 DEF ReadUpgrade

\* Rewards are paid by the hour.
LEMMA OfflineRewardType ==
    ASSUME NEW seconds \in Nat
    PROVE  OfflineReward(seconds) \in [Asset -> Nat]
<1>1. GoldPerHour \in Nat /\ MaterialPerHour \in Nat /\ Hour \in Nat \ {0}
    BY AssetData
<1>2. GoldPerHour * seconds \in Nat /\ MaterialPerHour * seconds \in Nat
    BY <1>1
<1>3. \A n \in Nat : n \div Hour \in Nat
    BY <1>1
<1>4. (GoldPerHour * seconds) \div Hour \in Nat /\ (MaterialPerHour * seconds) \div Hour \in Nat
    BY <1>2, <1>3
<1> QED
    BY <1>4 DEF OfflineReward, NoChange

\* The rewards of a settlement are a list of items, and if they are paid, they add
\* to the balances.
LEMMA SettleRewardsType ==
    ASSUME NEW w, task[w].wish \in Seq(ItemCount)
    PROVE  /\ Merged(SettleRewards(w)) \in [Asset -> Int]
           /\ SettleRewards(w) = <<>> \/ ValidItems(SettleRewards(w)) =>
                  Merged(SettleRewards(w)) \in [Asset -> Nat]
<1>1. PICK items : items = SettleRewards(w)
    OBVIOUS
<1>2. items \in Seq(ItemCount)
    BY <1>1, AssetData, ConcatProperties DEF SettleRewards
<1>3. items = <<>> \/ ValidItems(items) => \A n \in 1 .. Len(items) : items[n].count >= 0
    <2>1. items = <<>> => Len(items) = 0
        BY EmptySeq
    <2>2. DOMAIN items = 1 .. Len(items) /\ \A n \in 1 .. Len(items) : items[n] \in ItemCount
        BY <1>2, LenProperties, ElementOfSeq
    <2>3. \A n \in 1 .. Len(items) : items[n].count \in Int
        BY <2>2 DEF ItemCount
    <2> QED
        BY <2>1, <2>2, <2>3 DEF ValidItems
<1>4. Merged(items) \in [Asset -> Int]
      /\ (items = <<>> \/ ValidItems(items) => Merged(items) \in [Asset -> Nat])
    BY <1>2, <1>3, MergedType
<1> QED
    BY <1>1, <1>4

\* A settlement begins.
LEMMA SettlePrepares ==
    ASSUME EconomyInv, BooksInv, NEW w \in Worker, NEW rewards \in Seq(ItemCount),
           BeginSettle(w, rewards)
    PROVE  Prepares
<1>1. PICK t : t = [IdleTask EXCEPT !.pc = "read", !.op = "settle", !.wish = rewards]
    OBVIOUS
<1>2. TaskPays(t) /\ t.pc = "read"
    BY <1>1 DEF TaskPays, IdleTask, Upgrades
<1>3. Begin(w, t) /\ UNCHANGED <<balance, logged, level>>
    BY <1>1 DEF BeginSettle, tables
<1> QED
    BY <1>2, <1>3, BeginPrepares DEF EconomyInv

\* A transaction that commits stores what it has computed.
LEMMA WriteStores ==
    ASSUME EconomyInv, BooksInv, NEW w \in Worker, Write(w), Return(w)
    PROVE  Stores(w)
<1>1. PICK t : t = task[w]
    OBVIOUS
<1>2. task'[w] = IdleTask /\ \A v \in Worker \ {w} : task'[v] = task[v]
    BY DEF Return, EconomyInv, TasksTyped
<1>3. PICK earned : earned = IF Upgrades(t) THEN history.earned
                             ELSE [a \in Asset |-> history.earned[a] + t.change[a]]
    OBVIOUS
<1>4. PICK firsts : firsts = IF t.op = "settle" /\ t.seen = NoRow THEN history.firsts + 1
                             ELSE history.firsts
    OBVIOUS
<1>5. history' = [history EXCEPT !.absence = history.absence + t.absence,
                      !.firsts = firsts, !.earned = earned]
    BY <1>1, <1>3, <1>4 DEF Write, EconomyInv, RowsTyped, Upgrades
<1>6. history'.overlap = history.overlap /\ history'.earned = earned
    BY <1>5 DEF EconomyInv, RowsTyped
<1> QED
    BY <1>1, <1>2, <1>3, <1>6 DEF Write, Stores

\* Every step of the economy does one or the other.
LEMMA EconomyBooks ==
    ASSUME EconomyInv, BooksInv, EconomyNext
    PROVE  Prepares \/ \E w \in Worker : Stores(w)
<1> USE DEF tables
<1>1. TasksTyped /\ RowsTyped /\ TasksRun /\ BooksTyped /\ \A w \in Worker : TaskPays(task[w])
    BY DEF EconomyInv, BooksInv
<1>2. CASE Tick
    BY <1>2 DEF Tick, Prepares
<1>3. ASSUME NEW w \in Worker, GetCards(w) PROVE Prepares
    BY <1>3 DEF GetCards, Prepares
<1>4. ASSUME NEW w \in Worker, GetOverview(w) PROVE Prepares
    <2>1. history'.earned = history.earned /\ history'.overlap = history.overlap
        BY <1>1, <1>4 DEF GetOverview, OpenWorkshop, RowsTyped
    <2> QED
        BY <1>4, <2>1 DEF GetOverview, Prepares
<1>5. ASSUME NEW w \in Worker, ClaimOfflineReward(w) PROVE Prepares
    <2>1. PICK t : t = [IdleTask EXCEPT !.pc = "open", !.op = "claim"]
        OBVIOUS
    <2>2. TaskPays(t) /\ t.pc = "open"
        BY <2>1 DEF TaskPays, IdleTask, Upgrades
    <2>3. Begin(w, t) /\ UNCHANGED <<balance, logged, level>>
        BY <1>5, <2>1 DEF ClaimOfflineReward
    <2> QED
        BY <1>1, <2>2, <2>3, BeginPrepares
<1>6. ASSUME NEW w \in Worker, NEW c \in CardID, UpgradeCard(w, c) PROVE Prepares
    <2>1. PICK t : t = [IdleTask EXCEPT !.pc = "read", !.op = "card", !.on = c]
        OBVIOUS
    <2>2. TaskPays(t) /\ t.pc = "read"
        BY <2>1 DEF TaskPays, IdleTask, Upgrades
    <2>3. Begin(w, t) /\ UNCHANGED <<balance, logged>> /\ EnsureDefaultCards
        BY <1>6, <2>1 DEF UpgradeCard
    <2> QED
        BY <1>1, <2>2, <2>3, BeginPrepares
<1>7. ASSUME NEW w \in Worker, NEW f \in Facility, UpgradeFacility(w, f) PROVE Prepares
    <2>1. PICK t : t = [IdleTask EXCEPT !.pc = "read", !.op = "facility", !.on = f]
        OBVIOUS
    <2>2. TaskPays(t) /\ t.pc = "read"
        BY <2>1 DEF TaskPays, IdleTask, Upgrades
    <2>3. Begin(w, t) /\ UNCHANGED <<balance, logged, level>>
        BY <1>7, <2>1 DEF UpgradeFacility
    <2> QED
        BY <1>1, <2>2, <2>3, BeginPrepares
<1>8. ASSUME NEW w \in Worker, NEW cards \in DeckWish, SaveDeck(w, cards) PROVE Prepares
    <2>1. PICK t : t = [IdleTask EXCEPT !.pc = "save", !.op = "deck", !.wish = cards]
        OBVIOUS
    <2>2. TaskPays(t) /\ t.pc = "save"
        BY <1>8, <2>1 DEF SaveDeck, TaskPays, IdleTask, Upgrades
    <2>3. Begin(w, t) /\ UNCHANGED <<balance, logged>> /\ EnsureDefaultCards
        BY <1>8, <2>1 DEF SaveDeck
    <2> QED
        BY <1>1, <2>2, <2>3, BeginPrepares
<1>9. ASSUME NEW w \in Worker, NEW wish \in AssetWish, ChangeAsset(w, wish) PROVE Prepares
    <2>1. PICK change : change = IF wish.sign > 0 THEN Merged(wish.items)
                                 ELSE Less(Merged(wish.items))
        OBVIOUS
    <2>2. PICK t : t = [IdleTask EXCEPT !.pc = "read", !.op = "asset", !.change = change]
        OBVIOUS
    <2>3. Merged(wish.items) \in [Asset -> Int]
        BY AssetData, MergedType
    <2>4. change \in [Asset -> Int]
        BY <2>1, <2>3 DEF Less
    <2>5. TaskPays(t) /\ t.pc = "read"
        BY <2>2, <2>4 DEF TaskPays, IdleTask, Upgrades
    <2>6. Begin(w, t) /\ UNCHANGED <<balance, logged, level>>
        BY <1>9, <2>1, <2>2 DEF ChangeAsset
    <2> QED
        BY <1>1, <2>5, <2>6, BeginPrepares
<1>10. ASSUME NEW w \in Worker, Open(w) PROVE Prepares
    <2>1. PICK u : u = [task[w] EXCEPT !.pc = "preview", !.from = OpenedAt]
        OBVIOUS
    <2>2. task' = [task EXCEPT ![w] = u] /\ task[w].op = "claim"
        BY <1>1, <1>10, <2>1 DEF Open, TasksTyped, TaskLike, TasksRun
    <2>3. u.pc = "preview" /\ u.op = task[w].op
        BY <1>1, <2>1 DEF TasksTyped, TaskLike
    <2>4. TaskPays(u)
        BY <2>2, <2>3 DEF TaskPays, Upgrades
    <2>5. history'.earned = history.earned /\ history'.overlap = history.overlap
        BY <1>1, <1>10 DEF Open, OpenWorkshop, RowsTyped
    <2>6. UNCHANGED <<balance, logged, level>>
        BY <1>10 DEF Open
    <2> QED
        BY <1>1, <2>2, <2>3, <2>4, <2>5, <2>6, Preparing
<1>11. ASSUME NEW w \in Worker, Preview(w) PROVE Prepares
    <2>1. PICK seconds : seconds = EffectiveOffline(clock - task[w].from)
        OBVIOUS
    <2>2. clock - task[w].from \in Int
        BY <1>1 DEF RowsTyped, TasksTyped, TaskLike
    <2>3. seconds \in Nat
        BY <2>1, <2>2, EffectiveOfflineBounds
    <2>4. PICK change : change = OfflineReward(seconds)
        OBVIOUS
    <2>5. change \in [Asset -> Nat]
        BY <2>3, <2>4, OfflineRewardType
    <2>6. PICK u : u = [task[w] EXCEPT !.pc = "read", !.absence = seconds, !.change = change]
        OBVIOUS
    <2>7. task' = [task EXCEPT ![w] = u] /\ task[w].op = "claim"
          /\ UNCHANGED <<balance, logged, level, history>>
        BY <1>1, <1>11, <2>1, <2>4, <2>6 DEF Preview, TasksTyped, TaskLike, TasksRun
    <2>8. u.pc = "read" /\ u.op = task[w].op /\ u.change = change
        BY <1>1, <2>6 DEF TasksTyped, TaskLike
    <2>9. TaskPays(u)
        BY <2>5, <2>7, <2>8 DEF TaskPays, Upgrades
    <2> QED
        BY <1>1, <2>7, <2>8, <2>9, Preparing
<1>12. ASSUME NEW w \in Worker, Save(w) \/ RollBack(w) PROVE Prepares
    BY <1>1, <1>12, ReturnPrepares DEF Save, RollBack
<1>13. ASSUME NEW w \in Worker, ReadCard(w) PROVE Prepares
    <2>1. task[w].pc = "read" /\ task[w].op = "card"
          /\ UNCHANGED <<balance, logged, level, history>>
        BY <1>13 DEF ReadCard
    <2>2. CASE level[task[w].on] = NoRow
        BY <1>1, <1>13, <2>1, <2>2, ReturnPrepares DEF ReadCard
    <2>3. CASE level[task[w].on] # NoRow
        <3>1. PICK c : c = level[task[w].on]
            OBVIOUS
        <3>2. task[w].on \in Upgradable
            BY <1>1, <2>1 DEF TaskPays, Upgradable
        <3>3. c \in Nat \ {0}
            BY <1>1, <2>3, <3>1, <3>2 DEF BooksTyped
        <3>4. ReadUpgrade(w, c)
            BY <1>13, <2>3, <3>1 DEF ReadCard
        <3> QED
            BY <1>1, <2>1, <3>1, <3>3, <3>4, UpgradePrepares DEF Upgrades
    <2> QED
        BY <2>2, <2>3
<1>14. ASSUME NEW w \in Worker, ReadFacility(w) PROVE Prepares
    <2>1. task[w].pc = "read" /\ task[w].op = "facility"
          /\ UNCHANGED <<balance, logged, level, history>>
        BY <1>14 DEF ReadFacility
    <2>2. PICK c : c = IF level[task[w].on] = NoRow THEN 1 ELSE level[task[w].on]
        OBVIOUS
    <2>3. task[w].on \in Upgradable
        BY <1>1, <2>1 DEF TaskPays, Upgradable
    <2>4. c \in Nat \ {0}
        BY <1>1, <2>2, <2>3 DEF BooksTyped
    <2>5. ReadUpgrade(w, c)
        BY <1>14, <2>2 DEF ReadFacility, FacilityLevel
    <2> QED
        BY <1>1, <2>1, <2>2, <2>4, <2>5, UpgradePrepares DEF Upgrades
<1>15. ASSUME NEW w \in Worker, ReadClaim(w) PROVE Prepares
    <2>1. task[w].pc = "read" /\ task[w].op = "claim"
          /\ UNCHANGED <<balance, logged, level, history>>
        BY <1>15 DEF ReadClaim
    <2>2. CASE Return(w)
        BY <1>1, <2>1, <2>2, ReturnPrepares
    <2>3. CASE ~ Return(w)
        <3>1. PICK change : change = task[w].change
            OBVIOUS
        <3>2. change \in [Asset -> Nat]
            BY <1>1, <2>1, <3>1 DEF TaskPays
        <3>3. PICK base : base = [a \in Asset |-> IF change[a] = 0 THEN 0 ELSE balance[a]]
            OBVIOUS
        <3>4. PICK u : u = [task[w] EXCEPT !.pc = "commit", !.until = clock, !.base = base]
            OBVIOUS
        <3>5. task' = [task EXCEPT ![w] = u]
            BY <1>1, <1>15, <2>3, <3>1, <3>3, <3>4 DEF ReadClaim, TasksTyped, TaskLike
        <3>6. u.pc = "commit" /\ u.op = task[w].op /\ u.change = change /\ u.base = base
            BY <1>1, <3>1, <3>4 DEF TasksTyped, TaskLike
        <3>7. base \in [Asset -> Nat \cup {NoRow}]
            BY <1>1, <3>3 DEF BooksTyped
        <3>8. \A a \in Asset : OrZero(base[a]) + change[a] >= 0
            BY <3>2, <3>7 DEF OrZero, NoRow
        <3>9. change \in [Asset -> Int]
            BY <3>2
        <3>10. TaskPays(u)
            BY <2>1, <3>6, <3>7, <3>8, <3>9 DEF TaskPays, Upgrades
        <3>11. UpToDate(u, balance, level)
            BY <2>1, <3>3, <3>6 DEF UpToDate, Upgrades
        <3> QED
            BY <1>1, <2>1, <3>5, <3>10, <3>11, Preparing
    <2> QED
        BY <2>2, <2>3
<1>16. ASSUME NEW w \in Worker, ReadAsset(w) PROVE Prepares
    <2>1. task[w].pc = "read" /\ task[w].op = "asset"
          /\ UNCHANGED <<balance, logged, level, history>>
        BY <1>16 DEF ReadAsset
    <2>2. PICK change \in [Asset -> Int] : change = task[w].change
        BY <1>1, <2>1 DEF TaskPays
    <2>3. CASE Return(w)
        BY <1>1, <2>1, <2>3, ReturnPrepares
    <2>4. CASE ~ Return(w)
        <3>1. Payable(change) /\ Snapshot(w, 0, change)
            BY <1>16, <2>2, <2>4 DEF ReadAsset
        <3> QED
            BY <1>1, <2>1, <3>1, SnapshotPrepares DEF Upgrades
    <2> QED
        BY <2>3, <2>4
<1>17. ASSUME NEW w \in Worker, ReadSettle(w) PROVE Prepares
    <2>1. task[w].pc = "read" /\ task[w].op = "settle"
          /\ UNCHANGED <<balance, logged, level, history>>
        BY <1>17 DEF ReadSettle
    <2>2. CASE Return(w)
        BY <1>1, <2>1, <2>2, ReturnPrepares
    <2>3. CASE ~ Return(w)
        <3>1. PICK change : change = Merged(SettleRewards(w))
            OBVIOUS
        <3>2. Snapshot(w, clears, change)
              /\ (SettleRewards(w) = <<>> \/ ValidItems(SettleRewards(w)))
            BY <1>17, <2>3, <3>1 DEF ReadSettle
        <3>3. change \in [Asset -> Nat]
            BY <1>1, <2>1, <3>1, <3>2, SettleRewardsType DEF TaskPays
        <3>4. Payable(change)
            BY <1>1, <3>3 DEF Payable, Held, OrZero, BooksTyped, NoRow
        <3>5. change \in [Asset -> Int]
            BY <3>3
        <3> QED
            BY <1>1, <2>1, <3>2, <3>4, <3>5, SnapshotPrepares DEF Upgrades
    <2> QED
        BY <2>2, <2>3
<1>18. ASSUME NEW w \in Worker, Commit(w) PROVE Stores(w)
    BY <1>18, WriteStores DEF Commit
<1> QED
    BY <1>2, <1>3, <1>4, <1>5, <1>6, <1>7, <1>8, <1>9, <1>10, <1>11, <1>12, <1>13, <1>14, <1>15,
       <1>16, <1>17, <1>18 DEF EconomyNext, Command, Continue

\* Levels that cards and facilities can have.
LevelsLike(levels) ==
    /\ levels \in [Upgradable -> Nat \cup {NoRow}]
    /\ \A x \in Upgradable : levels[x] # 0 /\ levels[x] <= MaxLevel[x]

\* What they cost is a number,
LEMMA CostAtType ==
    ASSUME NEW levels, LevelsLike(levels), NEW a \in Asset
    PROVE  CostAt(levels, a) \in [Upgradable -> Int] /\ CostOf(levels, a) \in Int
<1>1. ASSUME NEW x \in Upgradable, levels[x] # NoRow PROVE CostUpTo(x, a)[levels[x]] \in Int
    <2>1. levels[x] \in 1 .. MaxLevel[x]
        BY <1>1, AssetData DEF LevelsLike
    <2> QED
        BY <2>1, CostSteps
<1>2. CostAt(levels, a) \in [Upgradable -> Int]
    BY <1>1 DEF CostAt
<1> QED
    BY <1>2, TotalType DEF CostOf

\* and is the same where only cards of level 1 are added,
LEMMA CostOfSame ==
    ASSUME NEW levels, NEW more, LevelsLike(levels), LevelsLike(more), NEW a \in Asset,
           \A x \in Upgradable : \/ more[x] = levels[x]
                                 \/ levels[x] = NoRow /\ more[x] = 1
    PROVE  CostOf(more, a) = CostOf(levels, a)
<1>1. \A x \in Upgradable : CostUpTo(x, a)[1] = 0
    BY CostSteps
<1>2. CostAt(more, a) = CostAt(levels, a)
    BY <1>1 DEF CostAt, NoRow
<1> QED
    BY <1>2 DEF CostOf

\* x is raised from level k, which a facility without a row has for k = 1.
Raises(levels, raised, x, k) ==
    /\ LevelsLike(levels)
    /\ x \in Upgradable
    /\ k \in Nat \ {0} /\ k < MaxLevel[x]
    /\ levels[x] = k \/ (levels[x] = NoRow /\ k = 1)
    /\ raised = [levels EXCEPT ![x] = k + 1]

\* greater by the price of the next level where one is raised.
LEMMA CostOfRaised ==
    ASSUME NEW levels, NEW raised, NEW x, NEW k, Raises(levels, raised, x, k), NEW a \in Asset
    PROVE  /\ LevelsLike(raised)
           /\ Merged(Prices[x][k + 1])[a] \in Nat
           /\ CostOf(raised, a) = CostOf(levels, a) + Merged(Prices[x][k + 1])[a]
<1> USE DEF Raises
<1>1. MaxLevel[x] \in Nat \ {0}
    BY AssetData
<1>2. LevelsLike(raised)
    BY <1>1 DEF LevelsLike
<1>3. PICK l \in 2 .. MaxLevel[x] : l = k + 1 /\ l - 1 = k
    BY <1>1
<1>4. PICK z : z = Merged(Prices[x][l])[a]
    OBVIOUS
<1>5. z \in Nat /\ CostUpTo(x, a)[l] = CostUpTo(x, a)[k] + z /\ CostUpTo(x, a)[1] = 0
      /\ CostUpTo(x, a)[k] \in Int
    <2>1. k \in 1 .. MaxLevel[x]
        BY <1>1
    <2> QED
        BY <1>3, <1>4, <2>1, CostSteps
<1>6. PICK f \in [Upgradable -> Int] : f = CostAt(levels, a)
    BY CostAtType
<1>7. PICK g \in [Upgradable -> Int] : g = CostAt(raised, a)
    BY <1>2, CostAtType
<1>8. raised[x] = l /\ l # NoRow /\ \A y \in Upgradable \ {x} : raised[y] = levels[y]
    BY <1>3 DEF LevelsLike, NoRow
<1>9. g[x] = CostUpTo(x, a)[l] /\ f[x] = CostUpTo(x, a)[k]
    BY <1>5, <1>6, <1>7, <1>8 DEF CostAt, NoRow
<1>10. g[x] = f[x] + z /\ z \in Int /\ \A y \in Upgradable \ {x} : g[y] = f[y]
    BY <1>5, <1>6, <1>7, <1>8, <1>9 DEF CostAt
<1>11. Total(g) = Total(f) + z
    BY <1>10, TotalChanged
<1> QED
    BY <1>2, <1>3, <1>4, <1>5, <1>6, <1>7, <1>11 DEF CostOf

\* It grows with the levels,
LEMMA CostOfGrows ==
    ASSUME NEW levels, NEW more, LevelsLike(levels), LevelsLike(more), NEW a \in Asset,
           \A x \in Upgradable : levels[x] <= more[x]
    PROVE  CostOf(levels, a) <= CostOf(more, a)
<1>1. PICK f \in [Upgradable -> Int] : f = CostAt(levels, a)
    BY CostAtType
<1>2. PICK g \in [Upgradable -> Int] : g = CostAt(more, a)
    BY CostAtType
<1>3. ASSUME NEW x \in Upgradable PROVE f[x] <= g[x]
    <2>1. MaxLevel[x] \in Nat \ {0} /\ CostUpTo(x, a)[1] = 0
        BY CostSteps
    <2>2. CASE levels[x] # NoRow
        <3>1. levels[x] \in 1 .. MaxLevel[x] /\ more[x] \in 1 .. MaxLevel[x]
              /\ levels[x] <= more[x]
            BY <2>1, <2>2 DEF LevelsLike, NoRow
        <3>2. CostUpTo(x, a)[levels[x]] <= CostUpTo(x, a)[more[x]]
            BY <3>1, CostGrows
        <3> QED
            BY <1>1, <1>2, <2>2, <3>1, <3>2 DEF CostAt, NoRow
    <2>3. CASE levels[x] = NoRow /\ more[x] # NoRow
        <3>1. 1 \in 1 .. MaxLevel[x] /\ more[x] \in 1 .. MaxLevel[x] /\ 1 <= more[x]
            BY <2>1, <2>3 DEF LevelsLike, NoRow
        <3>2. CostUpTo(x, a)[1] <= CostUpTo(x, a)[more[x]]
            BY <3>1, CostGrows
        <3> QED
            BY <1>1, <1>2, <2>1, <2>3, <3>2 DEF CostAt
    <2>4. CASE levels[x] = NoRow /\ more[x] = NoRow
        BY <1>1, <1>2, <2>4 DEF CostAt
    <2> QED
        BY <2>2, <2>3, <2>4
<1>4. Total(f) <= Total(g)
    BY <1>3, TotalLess
<1> QED
    BY <1>1, <1>2, <1>4 DEF CostOf

\* and is nothing as long as nothing is raised.
LEMMA NothingSpent ==
    ASSUME NEW levels, \A x \in Upgradable : levels[x] \in {NoRow, 1}, NEW a \in Asset
    PROVE  CostOf(levels, a) = 0
<1> DEFINE C == Cardinality(Upgradable)
           zero == [n \in 1 .. C |-> 0]
           none == [n \in 0 .. C |-> 0]
<1>1. PICK f \in [Upgradable -> Int] : f = CostAt(levels, a) /\ \A x \in Upgradable : f[x] = 0
    <2>1. \A x \in Upgradable : CostUpTo(x, a)[1] = 0
        BY CostSteps
    <2>2. CostAt(levels, a) = [x \in Upgradable |-> 0]
        BY <2>1 DEF CostAt, NoRow
    <2> QED
        BY <2>2
<1>2. PICK s : Sums(s, C, Listed(f)) /\ Total(f) = s[C]
    BY TotalSums
<1>3. C \in Nat /\ Listed(f) = zero
    BY <1>1, AllListed DEF Listed
<1>4. Sums(none, C, zero) /\ none[C] = 0 /\ \A n \in 1 .. C : zero[n] <= zero[n]
    BY <1>3 DEF Sums
<1> HIDE DEF zero, none
<1>5. Sums(s, C, zero) /\ s[C] \in Int
    BY <1>2, <1>3 DEF Sums
<1>6. s[C] <= none[C] /\ none[C] <= s[C]
    BY <1>4, <1>5, SumLess
<1> QED
    BY <1>1, <1>2, <1>4, <1>5, <1>6 DEF CostOf

\* What a default card adds to the levels.
LEMMA LevelsPrepared ==
    ASSUME BooksTyped, level' = level \/ EnsureDefaultCards
    PROVE  /\ LevelsLike(level) /\ LevelsLike(level')
           /\ \A x \in Upgradable :
                  level'[x] = level[x] \/ (level[x] = NoRow /\ level'[x] = 1 /\ x \in CardID)
<1>1. \A x \in Upgradable : MaxLevel[x] \in Nat \ {0}
    BY AssetData
<1>2. LevelsLike(level)
    BY DEF BooksTyped, LevelsLike
<1>3. CASE level' = level
    BY <1>2, <1>3
<1>4. CASE EnsureDefaultCards
    <2>1. \A x \in Upgradable :
              level'[x] = level[x] \/ (level[x] = NoRow /\ level'[x] = 1 /\ x \in CardID)
        BY <1>4, AssetData DEF EnsureDefaultCards, CreateCardsIfAbsent
    <2>2. level' = [x \in Upgradable |-> level'[x]]
        BY <1>4 DEF EnsureDefaultCards, CreateCardsIfAbsent
    <2>3. LevelsLike(level')
        BY <1>1, <1>2, <2>1, <2>2 DEF LevelsLike, NoRow
    <2> QED
        BY <1>2, <2>1, <2>3
<1> QED
    BY <1>3, <1>4

\* What an upgrade has read is a level of a card or a facility that has one more.
LEMMA UpgradeRead ==
    ASSUME NEW t, TaskPays(t), t.pc = "commit", Upgrades(t)
    PROVE  /\ t.on \in Upgradable
           /\ Current(t) \in Nat \ {0} /\ Current(t) < MaxLevel[t.on]
           /\ t.seen = Current(t) \/ (t.seen = NoRow /\ Current(t) = 1 /\ t.on \notin CardID)
    BY AssetData DEF TaskPays, Upgrades, Upgradable, Current

\* A default card is not what a transaction has read.
LEMMA StaysUpToDate ==
    ASSUME BooksTyped, level' = level \/ EnsureDefaultCards, NEW t, TaskPays(t),
           t.pc = "commit", UpToDate(t, balance, level)
    PROVE  UpToDate(t, balance, level')
<1>1. CASE ~ Upgrades(t)
    BY <1>1 DEF UpToDate
<1>2. CASE Upgrades(t)
    <2>1. t.on \in Upgradable /\ Current(t) \in Nat \ {0}
          /\ (t.seen = Current(t) \/ (t.seen = NoRow /\ t.on \notin CardID))
        BY <1>2, UpgradeRead
    <2>2. level[t.on] = t.seen
        BY <1>2 DEF UpToDate
    <2>3. level'[t.on] = t.seen
        BY <2>1, <2>2, LevelsPrepared DEF NoRow
    <2> QED
        BY <2>3 DEF UpToDate
<1> QED
    BY <1>1, <1>2

\* A step that leaves the books alone keeps them,
LEMMA PreparesBooks ==
    ASSUME BooksInv, Prepares
    PROVE  BooksInv'
<1>1. /\ LevelsLike(level) /\ LevelsLike(level')
      /\ \A x \in Upgradable :
             level'[x] = level[x] \/ (level[x] = NoRow /\ level'[x] = 1 /\ x \in CardID)
    BY LevelsPrepared DEF BooksInv, Prepares
<1>2. BooksTyped'
    BY <1>1 DEF BooksInv, Prepares, BooksTyped, LevelsLike
<1>3. \A v \in Worker : TaskPays(task'[v])
    BY DEF BooksInv, Prepares
<1>4. PICK top \in [Upgradable -> Nat] : Covers(top)
    BY DEF BooksInv
<1>5. Covers(top)'
    <2>1. \A x \in Upgradable : top[x] \in 1 .. MaxLevel[x] /\ level'[x] <= top[x]
        <3> SUFFICES ASSUME NEW x \in Upgradable
                     PROVE  top[x] \in 1 .. MaxLevel[x] /\ level'[x] <= top[x]
            OBVIOUS
        <3>1. top[x] \in 1 .. MaxLevel[x] /\ level[x] <= top[x] /\ MaxLevel[x] \in Nat
            BY <1>4, AssetData DEF Covers
        <3> QED
            BY <1>1, <3>1
    <2>2. ASSUME NEW v \in Worker, task'[v].pc = "commit", Upgrades(task'[v])
          PROVE  Current(task'[v]) <= top[task'[v].on]
        <3>1. CASE task'[v] = task[v]
            BY <1>4, <2>2, <3>1 DEF Covers
        <3>2. CASE TaskPays(task'[v]) /\ UpToDate(task'[v], balance, level)
            <4>1. PICK t : t = task'[v]
                OBVIOUS
            <4>2. t.on \in Upgradable /\ Current(t) \in Nat
                  /\ (t.seen = Current(t) \/ Current(t) = 1) /\ level[t.on] = t.seen
                BY <2>2, <3>2, <4>1, UpgradeRead DEF UpToDate
            <4>3. top[t.on] \in Nat /\ 1 <= top[t.on] /\ level[t.on] <= top[t.on]
                BY <1>4, <4>2, AssetData DEF Covers
            <4> QED
                BY <4>1, <4>2, <4>3
        <3> QED
            BY <2>2, <3>1, <3>2 DEF Prepares
    <2>3. \A a \in Asset : history'.earned[a] - logged'[a] >= CostOf(top, a)
        BY <1>4 DEF Covers, Prepares
    <2> QED
        BY <2>1, <2>2, <2>3 DEF Covers, Upgrades, Current
<1>6. ASSUME ~ history'.overlap PROVE Balanced'
    <2>1. Balanced
        BY <1>6 DEF BooksInv, Prepares
    <2>2. ASSUME NEW a \in Asset
          PROVE  /\ history'.earned[a] - logged'[a] = Spent(a)'
                 /\ Held(a)' = OrZero(Start[a]) + logged'[a]
        <3>1. CostOf(level', a) = CostOf(level, a)
            BY <1>1, CostOfSame
        <3>2. Spent(a) = CostOf(level, a) /\ Spent(a)' = CostOf(level', a)
            BY DEF Spent, CostOf, CostAt
        <3>3. Held(a)' = Held(a)
            BY DEF Prepares, Held
        <3> QED
            BY <2>1, <3>1, <3>2, <3>3 DEF Balanced, Prepares
    <2>3. ASSUME NEW v \in Worker, task'[v].pc = "commit"
          PROVE  UpToDate(task'[v], balance', level')
        <3>1. UpToDate(task'[v], balance, level)
            BY <2>1, <2>3 DEF Prepares, Balanced
        <3>2. UpToDate(task'[v], balance, level')
            BY <1>3, <2>3, <3>1, StaysUpToDate DEF BooksInv, Prepares
        <3> QED
            BY <3>2 DEF Prepares
    <2> QED
        BY <2>2, <2>3 DEF Balanced, UpToDate, Upgrades
<1>7. (\A v \in Worker : TaskPays(task[v]))'
    BY <1>3 DEF TaskPays, Upgrades, Current
<1> QED
    BY <1>2, <1>4, <1>5, <1>6, <1>7 DEF BooksInv

\* While one worker at a time executes, the others have read nothing.
LEMMA OthersIdle ==
    ASSUME EconomyInv, NEW w \in Worker, Stores(w), ~ history.overlap
    PROVE  \A v \in Worker : task'[v].pc # "commit"
    BY IdleTaskLike DEF EconomyInv, AbsenceKept, OneAtATime, Stores

\* What a transaction adds to the balances.
LEMMA StoresBalance ==
    ASSUME BooksInv, NEW w \in Worker, Stores(w)
    PROVE  /\ balance' \in [Asset -> Nat \cup {NoRow}]
           /\ logged' \in [Asset -> Int]
           /\ \A a \in Asset : logged'[a] = logged[a] + task[w].change[a]
           /\ ~ history.overlap => \A a \in Asset : Held(a)' = Held(a) + task[w].change[a]
<1>1. PICK t : t = task[w]
    OBVIOUS
<1>2. /\ t.change \in [Asset -> Int] /\ t.base \in [Asset -> Nat \cup {NoRow}]
      /\ \A a \in Asset : t.change[a] # 0 => OrZero(t.base[a]) + t.change[a] >= 0
    BY <1>1 DEF BooksInv, Stores, TaskPays
<1>3. /\ balance' = [a \in Asset |->
             IF t.change[a] = 0 THEN balance[a] ELSE OrZero(t.base[a]) + t.change[a]]
      /\ logged' = [a \in Asset |-> logged[a] + t.change[a]]
    BY <1>1 DEF Stores, NextLogged
<1>4. balance \in [Asset -> Nat \cup {NoRow}] /\ logged \in [Asset -> Int]
    BY DEF BooksInv, BooksTyped
<1>5. \A a \in Asset : OrZero(t.base[a]) \in Nat /\ t.change[a] \in Int
    BY <1>2 DEF OrZero
<1>6. balance' \in [Asset -> Nat \cup {NoRow}] /\ logged' \in [Asset -> Int]
    BY <1>2, <1>3, <1>4, <1>5
<1>7. ASSUME ~ history.overlap, NEW a \in Asset PROVE Held(a)' = Held(a) + t.change[a]
    <2>1. t.change[a] # 0 => t.base[a] = balance[a]
        BY <1>1, <1>7 DEF BooksInv, Balanced, UpToDate, Stores
    <2>2. Held(a) = OrZero(balance[a]) /\ Held(a)' = OrZero(balance'[a])
          /\ OrZero(balance[a]) \in Nat
        BY <1>4 DEF Held, OrZero
    <2>3. CASE t.change[a] = 0
        BY <1>3, <2>2, <2>3
    <2>4. CASE t.change[a] # 0
        <3>1. PICK n \in Nat : n = OrZero(balance[a]) + t.change[a]
            BY <1>2, <1>5, <2>1, <2>2, <2>4
        <3>2. balance'[a] = n
            BY <1>3, <2>1, <2>4, <3>1
        <3> QED
            BY <2>2, <3>1, <3>2 DEF OrZero, NoRow
    <2> QED
        BY <2>3, <2>4
<1> QED
    BY <1>1, <1>3, <1>6, <1>7

\* A COMMIT keeps the books, if it raises nothing,
LEMMA GrantBooks ==
    ASSUME EconomyInv, BooksInv, NEW w \in Worker, Stores(w), ~ Upgrades(task[w])
    PROVE  BooksInv'
<1>1. PICK change \in [Asset -> Int] : change = task[w].change
    BY DEF BooksInv, Stores, TaskPays
<1>2. level' = level /\ history'.overlap = history.overlap
      /\ history'.earned = [a \in Asset |-> history.earned[a] + change[a]]
    BY <1>1 DEF Stores, NextLevel, Upgrades
<1>3. /\ balance' \in [Asset -> Nat \cup {NoRow}] /\ logged' \in [Asset -> Int]
      /\ \A a \in Asset : logged'[a] = logged[a] + change[a]
      /\ ~ history.overlap => \A a \in Asset : Held(a)' = Held(a) + change[a]
    BY <1>1, StoresBalance
<1>4. logged \in [Asset -> Int] /\ history.earned \in [Asset -> Int]
    BY DEF BooksInv, BooksTyped
<1>5. \A a \in Asset : history'.earned[a] - logged'[a] = history.earned[a] - logged[a]
    BY <1>2, <1>3, <1>4
<1>6. BooksTyped'
    BY <1>2, <1>3, <1>4 DEF BooksInv, BooksTyped
<1>7. \A v \in Worker : TaskPays(task'[v]) /\ (task'[v].pc = "commit" => task'[v] = task[v])
    BY IdlePays DEF BooksInv, Stores
<1>8. PICK top \in [Upgradable -> Nat] : Covers(top)
    BY DEF BooksInv
<1>9. Covers(top)'
    BY <1>2, <1>5, <1>7, <1>8 DEF Covers, Upgrades, Current
<1>10. ASSUME ~ history'.overlap PROVE Balanced'
    <2>1. Balanced
        BY <1>2, <1>10 DEF BooksInv
    <2>2. \A v \in Worker : task'[v].pc # "commit"
        BY <1>2, <1>10, OthersIdle
    <2>3. ASSUME NEW a \in Asset
          PROVE  /\ history'.earned[a] - logged'[a] = Spent(a)'
                 /\ Held(a)' = OrZero(Start[a]) + logged'[a]
        <3>1. Spent(a)' = Spent(a)
            BY <1>2 DEF Spent
        <3>2. OrZero(Start[a]) \in Int
            BY AssetData DEF OrZero
        <3> QED
            BY <1>2, <1>3, <1>4, <1>5, <1>10, <2>1, <3>1, <3>2 DEF Balanced
    <2> QED
        BY <2>2, <2>3 DEF Balanced
<1>11. (\A v \in Worker : TaskPays(task[v]))'
    BY <1>7 DEF TaskPays, Upgrades, Current
<1> QED
    BY <1>6, <1>8, <1>9, <1>10, <1>11 DEF BooksInv

\* and if it raises a card or a facility: to the next level, whose price it pays.
LEMMA RaiseBooks ==
    ASSUME EconomyInv, BooksInv, NEW w \in Worker, Stores(w), Upgrades(task[w])
    PROVE  BooksInv'
<1>1. PICK t : t = task[w]
    OBVIOUS
<1>2. PICK x \in Upgradable : x = t.on
    BY <1>1, UpgradeRead DEF BooksInv, Stores
<1>3. PICK k \in Nat \ {0} : k = Current(t)
    BY <1>1, UpgradeRead DEF BooksInv, Stores
<1>4. k < MaxLevel[x] /\ MaxLevel[x] \in Nat
      /\ (t.seen = k \/ (t.seen = NoRow /\ k = 1 /\ x \notin CardID))
    BY <1>1, <1>2, <1>3, UpgradeRead, AssetData DEF BooksInv, Stores
<1>5. PICK price : price = Merged(Prices[x][k + 1])
    OBVIOUS
<1>6. price \in [Asset -> Nat] /\ t.change = [a \in Asset |-> - price[a]]
    <2>1. k + 1 \in 2 .. MaxLevel[x]
        BY <1>4
    <2> QED
        BY <1>1, <1>2, <1>3, <1>5, <2>1, PricesType DEF BooksInv, Stores, TaskPays, Less
<1>7. level' = [level EXCEPT ![x] = k + 1] /\ history'.overlap = history.overlap
      /\ history'.earned = history.earned
    <2>1. CASE t.op = "card"
        BY <1>1, <1>2, <1>3, <2>1 DEF Stores, NextLevel, Upgrades, Current, RaisedCard
    <2>2. CASE t.op = "facility"
        <3>1. RaisedFacility(t) = k + 1
            BY <1>3, <1>4, <2>2 DEF Current, RaisedFacility
        <3> QED
            BY <1>1, <1>2, <2>2, <3>1 DEF Stores, NextLevel, Upgrades
    <2> QED
        BY <1>1, <2>1, <2>2 DEF Upgrades
<1>8. /\ balance' \in [Asset -> Nat \cup {NoRow}] /\ logged' \in [Asset -> Int]
      /\ \A a \in Asset : logged'[a] = logged[a] - price[a]
      /\ ~ history.overlap => \A a \in Asset : Held(a)' = Held(a) - price[a]
    <2>1. /\ \A a \in Asset : logged'[a] = logged[a] + t.change[a]
          /\ ~ history.overlap => \A a \in Asset : Held(a)' = Held(a) + t.change[a]
          /\ balance' \in [Asset -> Nat \cup {NoRow}] /\ logged' \in [Asset -> Int]
        BY <1>1, StoresBalance
    <2>2. \A a \in Asset : t.change[a] = - price[a] /\ price[a] \in Nat
        BY <1>6
    <2>3. \A a \in Asset : logged[a] \in Int /\ Held(a) \in Int
        BY DEF BooksInv, BooksTyped, Held, OrZero
    <2> QED
        BY <2>1, <2>2, <2>3
<1>9. LevelsLike(level) /\ \A a \in Asset : logged[a] \in Int /\ history.earned[a] \in Int
    BY DEF BooksInv, BooksTyped, LevelsLike
<1>10. BooksTyped'
    BY <1>4, <1>7, <1>8, <1>9 DEF BooksInv, BooksTyped, LevelsLike
<1>11. \A v \in Worker : TaskPays(task'[v]) /\ (task'[v].pc = "commit" => task'[v] = task[v])
    BY IdlePays DEF BooksInv, Stores
<1>12. PICK top \in [Upgradable -> Nat] : Covers(top)
    BY DEF BooksInv
<1>13. k <= top[x] /\ top[x] \in 1 .. MaxLevel[x]
    BY <1>1, <1>2, <1>3, <1>12 DEF Stores, Covers
<1>14. LevelsLike(top)
    BY <1>12, AssetData DEF Covers, LevelsLike
<1>15. \E more \in [Upgradable -> Nat] : Covers(more)'
    <2>1. PICK more : more = IF k < top[x] THEN top ELSE [top EXCEPT ![x] = k + 1]
        OBVIOUS
    <2>2. more \in [Upgradable -> Nat] /\ \A y \in Upgradable : top[y] <= more[y]
        BY <1>13, <2>1
    <2>3. \A y \in Upgradable : more[y] \in 1 .. MaxLevel[y] /\ level'[y] <= more[y]
        <3> SUFFICES ASSUME NEW y \in Upgradable
                     PROVE  more[y] \in 1 .. MaxLevel[y] /\ level'[y] <= more[y]
            OBVIOUS
        <3>1. top[y] \in 1 .. MaxLevel[y] /\ level[y] <= top[y]
            BY <1>12 DEF Covers
        <3>2. CASE y = x
            BY <1>4, <1>7, <1>9, <1>13, <2>1, <3>2 DEF LevelsLike
        <3>3. CASE y # x
            BY <1>7, <1>9, <2>1, <3>1, <3>3 DEF LevelsLike
        <3> QED
            BY <3>2, <3>3
    <2>4. ASSUME NEW v \in Worker, task'[v].pc = "commit", Upgrades(task'[v])
          PROVE  Current(task'[v]) <= more[task'[v].on]
        <3>1. PICK u : u = task'[v]
            OBVIOUS
        <3>2. u = task[v] /\ u.on \in Upgradable /\ Current(u) \in Nat
            BY <1>11, <2>4, <3>1, UpgradeRead
        <3>3. Current(u) <= top[u.on]
            BY <1>12, <2>4, <3>1, <3>2 DEF Covers
        <3> QED
            BY <2>2, <3>1, <3>2, <3>3
    <2>5. ASSUME NEW a \in Asset PROVE history'.earned[a] - logged'[a] >= CostOf(more, a)
        <3>1. history.earned[a] - logged[a] >= CostOf(top, a) /\ CostOf(top, a) \in Int
              /\ price[a] \in Nat
            BY <1>6, <1>12, <1>14, CostAtType DEF Covers
        <3>2. CostOf(more, a) <= CostOf(top, a) + price[a] /\ CostOf(more, a) \in Int
            <4>1. CASE k < top[x]
                BY <2>1, <3>1, <4>1
            <4>2. CASE ~ (k < top[x])
                <5>1. top[x] = k /\ more = [top EXCEPT ![x] = k + 1]
                    BY <1>13, <2>1, <4>2
                <5>2. CostOf(more, a) = CostOf(top, a) + Merged(Prices[x][k + 1])[a]
                    <6>1. Raises(top, more, x, k)
                        BY <1>4, <1>14, <5>1 DEF Raises
                    <6> QED
                        BY <6>1, CostOfRaised
                <5> QED
                    BY <1>5, <3>1, <5>2
            <4> QED
                BY <4>1, <4>2
        <3>3. history'.earned[a] - logged'[a] = history.earned[a] - logged[a] + price[a]
            BY <1>7, <1>8, <1>9, <3>1
        <3> QED
            BY <1>9, <3>1, <3>2, <3>3
    <2>6. Covers(more)'
        BY <2>1, <2>3, <2>4, <2>5 DEF Covers, Upgrades, Current
    <2> QED
        BY <2>2, <2>6
<1>16. ASSUME ~ history'.overlap PROVE Balanced'
    <2>1. Balanced /\ level[x] = t.seen
        BY <1>1, <1>2, <1>7, <1>16 DEF BooksInv, Balanced, UpToDate, Stores
    <2>2. \A v \in Worker : task'[v].pc # "commit"
        BY <1>7, <1>16, OthersIdle
    <2>3. ASSUME NEW a \in Asset
          PROVE  /\ history'.earned[a] - logged'[a] = Spent(a)'
                 /\ Held(a)' = OrZero(Start[a]) + logged'[a]
        <3>1. level[x] = k \/ (level[x] = NoRow /\ k = 1)
            BY <1>4, <2>1
        <3>2. CostOf(level', a) = CostOf(level, a) + price[a] /\ CostOf(level, a) \in Int
            <4>1. Raises(level, level', x, k)
                BY <1>4, <1>7, <1>9, <3>1 DEF Raises
            <4> QED
                BY <1>5, <1>9, <4>1, CostOfRaised, CostAtType
        <3>3. Spent(a) = CostOf(level, a) /\ Spent(a)' = CostOf(level', a)
            BY DEF Spent, CostOf, CostAt
        <3>4. OrZero(Start[a]) \in Int /\ price[a] \in Nat
            BY <1>6, AssetData DEF OrZero
        <3> QED
            BY <1>7, <1>8, <1>9, <1>16, <2>1, <3>2, <3>3, <3>4 DEF Balanced
    <2> QED
        BY <2>2, <2>3 DEF Balanced
<1>17. (\A v \in Worker : TaskPays(task[v]))'
    BY <1>11 DEF TaskPays, Upgrades, Current
<1> QED
    BY <1>10, <1>15, <1>16, <1>17 DEF BooksInv

\* The books are right at first,
LEMMA BooksInitially == EconomyInit => BooksInv
<1> SUFFICES ASSUME EconomyInit PROVE BooksInv
    OBVIOUS
<1>1. /\ balance = Start /\ logged = [a \in Asset |-> 0]
      /\ level = [x \in Upgradable |-> NoRow] /\ history.overlap = FALSE
      /\ history.earned = [a \in Asset |-> 0]
    BY DEF EconomyInit, NoChange
<1>2. \A w \in Worker : task[w] = IdleTask
    BY DEF EconomyInit
<1>3. \A x \in Upgradable : MaxLevel[x] \in Nat \ {0}
    BY AssetData
<1>4. BooksTyped
    BY <1>1, <1>3, AssetData DEF BooksTyped, NoRow
<1>5. \A w \in Worker : TaskPays(task[w]) /\ task[w].pc = "idle"
    BY <1>2, IdlePays
<1>6. PICK top \in [Upgradable -> Nat] : top = [x \in Upgradable |-> 1]
    OBVIOUS
<1>7. \A a \in Asset : CostOf(top, a) = 0 /\ CostOf(level, a) = 0
    <2>1. /\ \A x \in Upgradable : top[x] \in {NoRow, 1}
          /\ \A x \in Upgradable : level[x] \in {NoRow, 1}
        BY <1>1, <1>6
    <2> QED
        BY <2>1, NothingSpent
<1>8. Covers(top)
    BY <1>1, <1>3, <1>5, <1>6, <1>7 DEF Covers, NoRow
<1>9. Balanced
    <2>1. ASSUME NEW a \in Asset
          PROVE  /\ history.earned[a] - logged[a] = Spent(a)
                 /\ Held(a) = OrZero(Start[a]) + logged[a]
        <3>1. Spent(a) = CostOf(level, a)
            BY DEF Spent, CostOf, CostAt
        <3>2. OrZero(Start[a]) \in Int
            BY AssetData DEF OrZero
        <3> QED
            BY <1>1, <1>7, <3>1, <3>2 DEF Held
    <2> QED
        BY <1>5, <2>1 DEF Balanced
<1> QED
    BY <1>4, <1>5, <1>8, <1>9 DEF BooksInv

\* every step of the economy keeps them,
LEMMA BooksKept ==
    ASSUME EconomyInv, BooksInv, EconomyNext \/ UNCHANGED economyVars
    PROVE  BooksInv'
<1>1. CASE EconomyNext
    BY <1>1, EconomyBooks, PreparesBooks, GrantBooks, RaiseBooks
<1>2. CASE UNCHANGED economyVars
    <2>1. Prepares
        BY <1>2 DEF economyVars, tables, Prepares
    <2> QED
        BY <2>1, PreparesBooks
<1> QED
    BY <1>1, <1>2

\* and what they say of the levels is that they are paid.
LEMMA BooksArePaid ==
    ASSUME BooksInv
    PROVE  LevelsArePaid
<1>1. PICK top \in [Upgradable -> Nat] : Covers(top)
    BY DEF BooksInv
<1>2. LevelsLike(level) /\ LevelsLike(top)
    BY <1>1, AssetData DEF BooksInv, BooksTyped, LevelsLike, Covers
<1>3. ASSUME NEW a \in Asset PROVE history.earned[a] - logged[a] >= Spent(a)
    <2>1. CostOf(level, a) <= CostOf(top, a)
        BY <1>1, <1>2, CostOfGrows DEF Covers
    <2>2. CostOf(level, a) \in Int /\ CostOf(top, a) \in Int
        BY <1>2, CostAtType
    <2>3. history.earned[a] - logged[a] \in Int /\ history.earned[a] - logged[a] >= CostOf(top, a)
        BY <1>1 DEF BooksInv, BooksTyped, Covers
    <2>4. Spent(a) = CostOf(level, a)
        BY DEF Spent, CostOf, CostAt
    <2> QED
        BY <2>1, <2>2, <2>3, <2>4
<1> QED
    BY <1>3 DEF LevelsArePaid, BooksInv, Balanced

\* validateOrder and the same of the levels won elsewhere: rewards are lists of
\* items and counts.
LEMMA RewardsType ==
    /\ \A o \in Order : OrderRewards[o] \in Seq(ItemCount)
    /\ Elsewhere \subseteq Seq(ItemCount)
<1>1. [item: Asset, count: Nat \ {0}] \subseteq ItemCount
    BY AssetData DEF ItemCount
<1>2. Seq([item: Asset, count: Nat \ {0}]) \subseteq Seq(ItemCount)
    BY <1>1, SeqMonotonic
<1> QED
    BY <1>2, RewardData

\* So is what a level has earned by its orders.
LEMMA PendingRewardsType ==
    ASSUME NEW s, s.pending \in Seq(Order)
    PROVE  PendingRewards(s) \in Seq(ItemCount)
<1> DEFINE N == Len(s.pending)
           d == [n \in 1 .. N |-> OrderRewards[s.pending[n]]]
           Steps(f) == f = [n \in 0 .. N |-> IF n = 0 THEN <<>>
                                              ELSE f[n - 1] \o OrderRewards[s.pending[n]]]
           rewards == CHOOSE f : Steps(f)
<1>1. PendingRewards(s) = rewards[N]
    BY DEF PendingRewards
<1>2. N \in Nat /\ \A n \in 1 .. N : s.pending[n] \in Order
    BY LenProperties, ElementOfSeq
<1>3. PICK S : S = Seq(ItemCount)
    OBVIOUS
<1>4. d \in [1 .. N -> S] /\ \A n \in 1 .. N : d[n] = OrderRewards[s.pending[n]]
    BY <1>2, <1>3, RewardsType
<1>5. <<>> \in S /\ \A r, e \in S : r \o e \in S
    BY <1>3, EmptySeq, ConcatProperties
<1>6. ASSUME NEW f
      PROVE  Steps(f) <=> f = [n \in 0 .. N |-> IF n = 0 THEN <<>> ELSE f[n - 1] \o d[n]]
    <2>1. \A n \in 0 .. N : n # 0 => OrderRewards[s.pending[n]] = d[n]
        BY <1>2, <1>4
    <2> HIDE DEF N, d
    <2> QED
        BY <2>1
<1> HIDE DEF N, d, Steps
<1>7. \E f : Steps(f)
    <2> DEFINE G == [n \in 1 .. N |-> [r \in S |-> r \o d[n]]]
    <2>1. G \in [1 .. N -> [S -> S]]
        BY <1>4, <1>5
    <2>2. PICK f \in [0 .. N -> S] : f[0] = <<>> /\ \A n \in 1 .. N : f[n] = G[n][f[n - 1]]
        <3> HIDE DEF G
        <3>1. Recursive(S)
            BY Recursion
        <3> QED
            BY <1>2, <1>5, <2>1, <3>1 DEF Recursive
    <2>3. \A n \in 1 .. N : n - 1 \in 0 .. N /\ f[n - 1] \in S
        BY <1>2, <2>2
    <2>4. \A n \in 1 .. N : f[n] = f[n - 1] \o d[n]
        BY <2>2, <2>3
    <2> HIDE DEF G
    <2>5. \A n \in 0 .. N : f[n] = IF n = 0 THEN <<>> ELSE f[n - 1] \o d[n]
        <3>1. ASSUME NEW n \in 0 .. N PROVE n = 0 \/ n \in 1 .. N
            BY <1>2
        <3>2. \A n \in 1 .. N : n # 0
            BY <1>2
        <3> QED
            BY <2>2, <2>4, <3>1, <3>2, Zenon
    <2>6. f = [n \in 0 .. N |-> f[n]]
        BY <2>2
    <2>7. f = [n \in 0 .. N |-> IF n = 0 THEN <<>> ELSE f[n - 1] \o d[n]]
        BY <2>5, <2>6
    <2> QED
        BY <1>6, <2>7
<1>8. Steps(rewards)
    BY <1>7
<1> HIDE DEF rewards
<1>9. rewards[0] = <<>> /\ \A n \in 1 .. N : rewards[n] = rewards[n - 1] \o d[n]
    <2>1. rewards = [n \in 0 .. N |-> IF n = 0 THEN <<>> ELSE rewards[n - 1] \o d[n]]
        BY <1>6, <1>8
    <2>2. 0 \in 0 .. N /\ \A n \in 1 .. N : n \in 0 .. N /\ n # 0
        BY <1>2
    <2> QED
        BY <2>1, <2>2, Zenon
<1>10. \A n \in 1 .. N : rewards[n - 1] \in S => rewards[n] \in S
    BY <1>4, <1>5, <1>9
<1>11. \A n \in 0 .. N : rewards[n] \in S
    BY <1>2, <1>5, <1>9, <1>10, Closed
<1> QED
    BY <1>1, <1>2, <1>3, <1>11

-----------------------------------------------------------------------------
(* 8. The levels, command by command. *)

\* The stages of LevelLifecycle.
Stages == {"unborn", "playing", "won", "failed", "settled"}

\* How level i stands: what LevelLifecycle is told.
StageOf(i) == IF i = started /\ session.alive THEN Stage(session) ELSE past[i]

\* How a level is between two commands.
Sound(s) ==
    /\ Counted(s)
    /\ s.alive => Dealt(s)
    /\ Explained(s)
    /\ NoneReady(s)

\* The level that is played, and that no level stands but those started.
LevelInv ==
    /\ session \in Sessions
    /\ Sound(session)
    /\ started \in 0 .. MaxSessions
    /\ session.alive => started > 0
    /\ past \in [1 .. MaxSessions -> Stages]
    /\ \A i \in 1 .. MaxSessions : i > started => past[i] = "unborn"

\* The moves of a level that its rules make; only a settlement makes another.
Plays(i) ==
    /\ \/ StageOf(i) = "unborn" /\ StageOf(i)' = "playing"
       \/ StageOf(i) = "playing" /\ StageOf(i)' \in {"won", "failed"}
    /\ \A j \in 1 .. MaxSessions \ {i} : StageOf(j)' = StageOf(j)

\* No level moves.
Stands == \A j \in 1 .. MaxSessions : StageOf(j)' = StageOf(j)

\* A level that is played has a stage,
LEMMA StageType ==
    ASSUME NEW s \in Sessions
    PROVE  Stage(s) \in {"playing", "won", "failed", "settled"}
    BY DEF Stage, Sessions

\* and these are the fields behind each.
LEMMA StageTable ==
    ASSUME NEW s \in Sessions
    PROVE  /\ Stage(s) = "settled" <=> s.settled
           /\ Stage(s) = "failed" <=> ~ s.settled /\ s.failed
           /\ Stage(s) = "won" <=> ~ s.settled /\ ~ s.failed /\ s.completed >= Level.target
           /\ Stage(s) = "playing" <=> ~ s.settled /\ ~ s.failed /\ s.completed < Level.target
<1>1. s.completed \in Nat /\ Level.target \in Nat /\ s.settled \in BOOLEAN /\ s.failed \in BOOLEAN
    BY LevelData DEF Sessions
<1> QED
    BY <1>1 DEF Stage

\* There is nothing wrong with no level.
LEMMA NoSessionSound == Sound(NoSession)
<1>1. NoSession \in Sessions /\ NoSession.orders = <<>> /\ NoSession.pending = <<>>
      /\ NoSession.completed = 0 /\ ~ NoSession.alive
      /\ NoSession.resources = [r \in Resource |-> 0]
    BY NewSessionType DEF NoSession, NewSession
<1>2. Counted(NoSession)
    BY <1>1, NothingCounted
<1> QED
    BY <1>1, <1>2, EmptySeq DEF Sound, Explained, NoneReady

\* Turns, action points and outcomes do not touch the orders.
LEMMA SoundStays ==
    ASSUME NEW s \in Sessions, NEW t \in Sessions, Sound(s), t.alive = s.alive,
           t.orders = s.orders, t.pending = s.pending, t.completed = s.completed,
           t.resources = s.resources
    PROVE  Sound(t)
    BY DEF Sound, Counted, Dealt, Explained, NoneReady, Ready

\* The runtime of the level that is played becomes s.
LEMMA SessionMoves ==
    ASSUME LevelInv, session.alive, NEW s \in Sessions, s.alive, Sound(s), session' = s,
           UNCHANGED <<started, past>>
    PROVE  /\ LevelInv'
           /\ \E i \in 1 .. MaxSessions :
                  /\ i = started /\ StageOf(i) = Stage(session) /\ StageOf(i)' = Stage(s)
                  /\ \A j \in 1 .. MaxSessions \ {i} : StageOf(j)' = StageOf(j)
<1>1. PICK i \in 1 .. MaxSessions : i = started
    BY SessionsBounded DEF LevelInv
<1>2. LevelInv'
    <2>1. Sound(session)'
        BY DEF Sound, Counted, Dealt, Explained, NoneReady, Ready
    <2> QED
        BY <2>1 DEF LevelInv
<1>3. Stage(session)' = Stage(s)
    BY DEF Stage
<1>4. StageOf(i) = Stage(session) /\ StageOf(i)' = Stage(s)
    BY <1>1, <1>3 DEF StageOf
<1>5. \A j \in 1 .. MaxSessions \ {i} : StageOf(j)' = StageOf(j)
    BY <1>1 DEF StageOf
<1> QED
    BY <1>1, <1>2, <1>4, <1>5

\* The stage of a level that is left is remembered.
LEMMA RememberType ==
    ASSUME LevelInv, Remember
    PROVE  /\ past' \in [1 .. MaxSessions -> Stages]
           /\ \A j \in 1 .. MaxSessions : past'[j] = StageOf(j)
<1>1. CASE session.alive
    <2>1. started \in 1 .. MaxSessions /\ Stage(session) \in Stages
        BY <1>1, SessionsBounded, StageType DEF LevelInv, Stages
    <2>2. past' = [past EXCEPT ![started] = Stage(session)]
        BY <1>1 DEF Remember
    <2> QED
        BY <1>1, <2>1, <2>2 DEF LevelInv, StageOf
<1>2. CASE ~ session.alive
    BY <1>2 DEF Remember, LevelInv, StageOf
<1> QED
    BY <1>1, <1>2

\* StartLevel: the new level is played, the one it replaces stays what it was.
LEMMA StartMoves ==
    ASSUME LevelInv, StartLevel
    PROVE  LevelInv' /\ \E i \in 1 .. MaxSessions : Plays(i)
<1>1. /\ started' = started + 1 /\ started' \in 1 .. MaxSessions /\ started \in Nat
      /\ session' = FirstOrders
    BY SessionsBounded DEF LevelInv, StartLevel
<1>2. /\ past' \in [1 .. MaxSessions -> Stages]
      /\ \A j \in 1 .. MaxSessions : past'[j] = StageOf(j)
    BY RememberType DEF StartLevel
<1>3. /\ session' \in Sessions /\ session'.alive /\ session'.completed = 0
      /\ ~ session'.settled /\ ~ session'.failed
    BY <1>1, FirstOrdersFresh DEF Fresh
<1>4. Sound(session)'
    <2>1. Sound(FirstOrders)
        BY FirstOrdersFresh DEF Fresh, Sound
    <2> QED
        BY <1>1, <2>1 DEF Sound, Counted, Dealt, Explained, NoneReady, Ready
<1>5. Stage(session)' = "playing"
    <2>1. Stage(session') = "playing"
        BY <1>3, StageTable, LevelData
    <2> QED
        BY <2>1 DEF Stage
<1>6. \A j \in 1 .. MaxSessions : j > started => StageOf(j) = "unborn"
    BY <1>1 DEF LevelInv, StageOf
<1>7. LevelInv'
    BY <1>1, <1>2, <1>3, <1>6, <1>4 DEF LevelInv
<1>8. PICK i \in 1 .. MaxSessions : i = started' /\ i > started
    BY <1>1
<1>9. StageOf(i)' = "playing" /\ StageOf(i) = "unborn"
    BY <1>3, <1>5, <1>6, <1>8 DEF StageOf
<1>10. \A j \in 1 .. MaxSessions \ {i} : StageOf(j)' = StageOf(j)
    BY <1>2, <1>8 DEF StageOf
<1> QED
    BY <1>7, <1>9, <1>10 DEF Plays

\* PlayCard: the level stays or is won.
LEMMA PlayCardMoves ==
    ASSUME LevelInv, NEW c \in Card, PlayCard(c)
    PROVE  LevelInv' /\ (Stands \/ \E i \in 1 .. MaxSessions : Plays(i))
<1> DEFINE have == ResourcesBefore(session, c, Len(Effects[c]) + 1)
           s == [session EXCEPT !.actionPoint = @ - Cost[c], !.resources = have]
<1>1. session \in Sessions /\ session.alive /\ ~ session.settled /\ ~ session.failed
      /\ Cost[c] <= session.actionPoint /\ session' = CompleteReadyOrders(s)
      /\ UNCHANGED <<started, past>>
    BY DEF LevelInv, PlayCard, Playable
<1>2. have \in Resources
    <2>1. Len(Effects[c]) + 1 \in 1 .. Len(Effects[c]) + 1
        BY LevelData, LenProperties
    <2> QED
        BY <1>1, <2>1, ResourcesBeforeType
<1>3. session.actionPoint - Cost[c] \in 0 .. Level.actionPoints
    <2>1. PICK limit \in Nat, cost \in Nat : limit = Level.actionPoints /\ cost = Cost[c]
        BY LevelData
    <2>2. PICK points \in 0 .. limit : points = session.actionPoint
        BY <1>1, <2>1 DEF Sessions
    <2> QED
        BY <1>1, <2>1, <2>2
<1> HIDE DEF have
<1>4. /\ s \in Sessions /\ s.alive = session.alive /\ s.settled = session.settled
      /\ s.failed = session.failed /\ s.completed = session.completed
      /\ s.orders = session.orders /\ s.pending = session.pending /\ s.resources = have
    BY <1>1, <1>2, <1>3 DEF Sessions
<1> HIDE DEF s
<1>5. Counted(s) /\ Dealt(s) /\ Explained(s)
    <2>1. Counted(session) /\ Dealt(session) /\ Explained(session)
        BY <1>1 DEF LevelInv, Sound
    <2>2. Counted(s) <=> Counted(session)
        <3> HIDE DEF have
        <3> QED
            BY <1>4 DEF Counted
    <2>3. Dealt(s)
        BY <1>4, <2>1 DEF Dealt
    <2>4. ASSUME NEW a \in Resource, have[a] < 0, session.resources[a] >= 0
          PROVE  Drains(a)
        <3>1. have[a] \in Int
            BY <1>2 DEF Resources
        <3> QED
            BY <1>1, <2>4, <3>1, CardCovered DEF have, PlayCard
    <2>5. \A a \in Resource : session.resources[a] \in Int
        BY <1>1 DEF Sessions, Resources
    <2>6. Explained(s)
        BY <1>4, <2>1, <2>4, <2>5 DEF Explained
    <2> QED
        BY <2>1, <2>2, <2>6, <2>3
<1>6. Sound(CompleteReadyOrders(s))
    BY <1>4, <1>5, CompletionAdvances, CompletionEnds DEF Advanced, Sound
<1>7. /\ session' \in Sessions /\ session'.alive /\ ~ session'.settled /\ ~ session'.failed
      /\ session'.completed >= session.completed
    BY <1>1, <1>4, CompletionAdvances DEF Advanced
<1>8. PICK t : t = session' /\ Sound(t)
    BY <1>1, <1>6
<1>9. /\ LevelInv'
      /\ \E i \in 1 .. MaxSessions :
             /\ StageOf(i) = Stage(session) /\ StageOf(i)' = Stage(t)
             /\ \A j \in 1 .. MaxSessions \ {i} : StageOf(j)' = StageOf(j)
    BY <1>1, <1>7, <1>8, SessionMoves
<1>10. Stage(session) \in {"playing", "won"} /\ Stage(t) \in {"playing", "won"}
      /\ (Stage(session) = "won" => Stage(t) = "won")
    <2>1. session.completed \in Nat /\ t.completed \in Nat /\ Level.target \in Nat
        BY <1>1, <1>7, <1>8, LevelData DEF Sessions
    <2>2. Stage(session) = IF session.completed >= Level.target THEN "won" ELSE "playing"
        BY <1>1 DEF Stage
    <2>3. Stage(t) = IF t.completed >= Level.target THEN "won" ELSE "playing"
        BY <1>7, <1>8 DEF Stage
    <2> QED
        BY <1>7, <1>8, <2>1, <2>2, <2>3
<1> QED
    BY <1>9, <1>10 DEF Plays, Stands

\* EndTurn: the level stays or fails.
LEMMA EndTurnMoves ==
    ASSUME LevelInv, EndTurn
    PROVE  LevelInv' /\ (Stands \/ \E i \in 1 .. MaxSessions : Plays(i))
<1>1. session \in Sessions /\ session.alive /\ ~ session.settled /\ ~ session.failed
      /\ session.completed < Level.target /\ UNCHANGED <<started, past>>
    BY DEF LevelInv, EndTurn, MayFail
<1>2. Stage(session) = "playing"
    BY <1>1, StageTable
<1>3. CASE session.turn >= Level.turnLimit
    <2>1. PICK s : s = [session EXCEPT !.failed = TRUE, !.actionPoint = 0]
        OBVIOUS
    <2>2. 0 \in 0 .. Level.actionPoints
        BY LevelData
    <2>3. s \in Sessions /\ s.alive /\ ~ s.settled /\ s.failed
        BY <1>1, <2>1, <2>2 DEF Sessions
    <2>4. Sound(s)
        <3>1. s.orders = session.orders /\ s.pending = session.pending
              /\ s.completed = session.completed /\ s.resources = session.resources
            BY <1>1, <2>1 DEF Sessions
        <3> QED
            BY <1>1, <2>3, <3>1, SoundStays DEF LevelInv
    <2>5. Stage(s) = "failed"
        BY <2>3, StageTable
    <2>6. session' = s
        BY <1>3, <2>1 DEF EndTurn
    <2> QED
        BY <1>1, <1>2, <2>3, <2>5, <2>6, <2>4, SessionMoves DEF Plays
<1>4. CASE ~ (session.turn >= Level.turnLimit)
    <2>1. PICK s : s = [session EXCEPT !.turn = @ + 1, !.actionPoint = Level.actionPoints]
        OBVIOUS
    <2>2. session.turn + 1 \in 1 .. Level.turnLimit
          /\ Level.actionPoints \in 0 .. Level.actionPoints
        <3>1. PICK limit \in Nat, points \in Nat :
                  limit = Level.turnLimit /\ points = Level.actionPoints
            BY LevelData
        <3>2. PICK turn \in Nat : turn = session.turn
            BY <1>1 DEF Sessions
        <3> QED
            BY <1>4, <3>1, <3>2
    <2>3. s \in Sessions /\ s.alive /\ s.settled = session.settled /\ s.failed = session.failed
          /\ s.completed = session.completed
        BY <1>1, <2>1, <2>2 DEF Sessions
    <2>4. Sound(s)
        <3>1. s.orders = session.orders /\ s.pending = session.pending
              /\ s.resources = session.resources
            BY <1>1, <2>1 DEF Sessions
        <3> QED
            BY <1>1, <2>3, <3>1, SoundStays DEF LevelInv
    <2>5. Stage(s) = "playing"
        BY <1>1, <2>3, StageTable
    <2>6. session' = s
        BY <1>4, <2>1 DEF EndTurn
    <2> QED
        BY <1>1, <1>2, <2>3, <2>5, <2>6, <2>4, SessionMoves DEF Stands
<1> QED
    BY <1>3, <1>4

\* A runtime that is deleted leaves its level what it was.
LEMMA DeleteMoves ==
    ASSUME LevelInv, DeletePlayerRuntime
    PROVE  LevelInv' /\ Stands
<1>1. session' = NoSession /\ ~ session'.alive /\ session' \in Sessions /\ started' = started
    BY NewSessionType DEF DeletePlayerRuntime, NoSession, NewSession
<1>2. /\ past' \in [1 .. MaxSessions -> Stages]
      /\ \A j \in 1 .. MaxSessions : past'[j] = StageOf(j)
    BY RememberType DEF DeletePlayerRuntime
<1>3. \A j \in 1 .. MaxSessions : j > started => StageOf(j) = "unborn"
    BY DEF LevelInv, StageOf
<1>4. Sound(session)'
    BY <1>1, NoSessionSound DEF Sound, Counted, Dealt, Explained, NoneReady, Ready
<1> QED
    BY <1>1, <1>2, <1>3, <1>4 DEF LevelInv, Stands, StageOf

\* Every command moves the levels by their rules.
LEMMA LevelSteps ==
    ASSUME LevelInv, LevelCommand \/ DeletePlayerRuntime
    PROVE  LevelInv' /\ (Stands \/ \E i \in 1 .. MaxSessions : Plays(i))
    BY StartMoves, PlayCardMoves, EndTurnMoves, DeleteMoves DEF LevelCommand

-----------------------------------------------------------------------------
(* 9. The levels and the economy together. *)

\* While Host settles a level, the level is one that may be settled.
SettlingIsDue == Settling => Settleable(session)

\* What has been granted for a level, and how the level stands.
GrantsKept ==
    /\ lost \in Nat
    /\ grants \in [1 .. MaxSessions -> Nat]
    /\ \A i \in 1 .. MaxSessions :
           /\ grants[i] <= lost + (IF StageOf(i) = "settled" THEN 1 ELSE 0)
           /\ grants[i] > 0 => StageOf(i) \in {"won", "settled"}
           /\ StageOf(i) = "settled" => grants[i] > 0

\* The inductive invariant of Gameplay.
GameplayInv == EconomyInv /\ BooksInv /\ LevelInv /\ SettlingIsDue /\ GrantsKept

\* It holds at first,
LEMMA Initially == Init => GameplayInv
<1> SUFFICES ASSUME Init PROVE GameplayInv
    OBVIOUS
<1>1. EconomyInv /\ BooksInv
    BY EconomyInitially, BooksInitially DEF Init
<1>2. session = NoSession /\ started = 0 /\ past = [i \in 1 .. MaxSessions |-> "unborn"]
      /\ lost = 0 /\ grants = [i \in 1 .. MaxSessions |-> 0]
    BY DEF Init, LevelInit
<1>3. LevelInv
    BY <1>2, NewSessionType, NoSessionSound, SessionsBounded
    DEF LevelInv, NoSession, NewSession, Stages
<1>4. SettlingIsDue
    BY HostTyped, IdleTaskLike DEF Init, EconomyInit, SettlingIsDue, Settling
<1>5. \A i \in 1 .. MaxSessions : StageOf(i) = "unborn"
    BY <1>2 DEF StageOf
<1>6. GrantsKept
    BY <1>2, <1>5 DEF GrantsKept
<1> QED
    BY <1>1, <1>3, <1>4, <1>6 DEF GameplayInv

\* after a command of the level,
LEMMA PlayKept ==
    ASSUME GameplayInv, Play
    PROVE  GameplayInv' /\ (Stands \/ \E i \in 1 .. MaxSessions : Plays(i))
<1>1. Rests /\ UNCHANGED <<lost, grants>> /\ ~ Settling
    BY DEF Play, economyVars, tables, Rests, Settling
<1>2. LevelInv' /\ (Stands \/ \E i \in 1 .. MaxSessions : Plays(i))
    BY LevelSteps DEF GameplayInv, Play
<1>3. EconomyInv' /\ BooksInv'
    BY <1>1, EconomyKept, BooksKept DEF GameplayInv, Play
<1>4. SettlingIsDue'
    BY <1>1 DEF Rests, SettlingIsDue, Settling
<1>5. GrantsKept'
    BY <1>1, <1>2 DEF GameplayInv, GrantsKept, Stands, Plays
<1> QED
    BY <1>2, <1>3, <1>4, <1>5 DEF GameplayInv

\* A step of the economy that is not a settlement of Host leaves the levels.
LEMMA LevelsLeft ==
    ASSUME GameplayInv, UNCHANGED levelVars, lost' \in Nat, lost' >= lost, UNCHANGED grants
    PROVE  LevelInv' /\ GrantsKept' /\ Stands
<1>1. \A i \in 1 .. MaxSessions : StageOf(i)' = StageOf(i)
    BY DEF levelVars, StageOf, Stage
<1>2. LevelInv'
    BY DEF GameplayInv, LevelInv, levelVars, Sound, Counted, Dealt, Explained, NoneReady, Ready
<1>3. GrantsKept'
    BY <1>1 DEF GameplayInv, GrantsKept
<1> QED
    BY <1>1, <1>2, <1>3 DEF Stands

\* after a step of the economy that is not about a settlement,
LEMMA OwnKept ==
    ASSUME GameplayInv, Own
    PROVE  GameplayInv' /\ Stands
<1>1. LevelInv' /\ GrantsKept' /\ Stands
    BY LevelsLeft DEF Own, GameplayInv, GrantsKept
<1>2. EconomyInv' /\ BooksInv'
    BY EconomyKept, BooksKept DEF Own, GameplayInv
<1>3. Settling' => Settling
    <2>1. CASE Ticks \/ Views \/ Rests
        BY <2>1 DEF Ticks, Views, Rests, Settling
    <2>2. ASSUME NEW w \in Worker, Works(w), SettlesOn(w) PROVE Settling' => Settling
        BY <2>2, HostTyped DEF Works, Moves, SettlesOn, Settling
    <2> QED
        BY <2>1, <2>2, EconomySteps DEF Own, GameplayInv, EconomyInv
<1>4. SettlingIsDue'
    BY <1>3 DEF Own, levelVars, GameplayInv, SettlingIsDue, Settleable
<1> QED
    BY <1>1, <1>2, <1>4 DEF GameplayInv

\* and after the beginning of one.
LEMMA SettleKept ==
    ASSUME GameplayInv, Settle \/ \E w \in Worker : SettleElsewhere(w)
    PROVE  GameplayInv' /\ Stands
<1>1. LevelInv' /\ GrantsKept' /\ Stands
    BY LevelsLeft DEF Settle, SettleElsewhere, GameplayInv, GrantsKept
<1>2. PICK w \in Worker : /\ \E rewards \in Seq(ItemCount) : BeginSettle(w, rewards)
                          /\ w = Host => Settleable(session)
                          /\ UNCHANGED levelVars
    <2>1. PendingRewards(session) \in Seq(ItemCount)
        BY PendingRewardsType DEF GameplayInv, LevelInv, Sessions
    <2> QED
        BY <2>1, HostTyped, RewardsType DEF Settle, SettleElsewhere
<1>3. Moves(w) /\ Begins(w)
    BY <1>2, SettleBegins DEF GameplayInv, EconomyInv
<1>4. EconomyInv' /\ BooksInv'
    BY <1>2, <1>3, WorkKept, SettlePrepares, PreparesBooks DEF GameplayInv, Works
<1>5. SettlingIsDue'
    BY <1>2, <1>3, HostTyped
    DEF GameplayInv, SettlingIsDue, Settling, Settleable, Moves, levelVars
<1> QED
    BY <1>1, <1>4, <1>5 DEF GameplayInv

\* A settlement of Host is committed: won stays won, or becomes settled.
LEMMA CommitSettleKept ==
    ASSUME GameplayInv, NEW w \in Worker, NEW answered \in BOOLEAN, CommitSettle(w, answered)
    PROVE  /\ GameplayInv'
           /\ \/ Stands
              \/ \E i \in 1 .. MaxSessions :
                     /\ StageOf(i) = "won" /\ StageOf(i)' = "settled"
                     /\ \A j \in 1 .. MaxSessions \ {i} : StageOf(j)' = StageOf(j)
<1>1. Moves(w) /\ Writes(w) /\ SettlesOn(w) /\ task[w].op = "settle" /\ task[w].pc = "commit"
    BY WriteWrites DEF CommitSettle, GameplayInv, EconomyInv, Writes
<1>2. EconomyInv' /\ BooksInv'
    <2>1. Stores(w)
        BY WriteStores DEF CommitSettle, GameplayInv
    <2>2. ~ Upgrades(task[w])
        BY <1>1 DEF Upgrades
    <2> QED
        BY <1>1, <2>1, <2>2, WorkKept, GrantBooks DEF GameplayInv, Works
<1>3. lost' = (IF answered THEN lost ELSE lost + 1) /\ lost \in Nat /\ started' = started
      /\ past' = past
    BY DEF CommitSettle, GameplayInv, GrantsKept
<1>4. CASE w # Host
    <2>1. LevelInv' /\ GrantsKept' /\ Stands
        <3>1. UNCHANGED levelVars /\ UNCHANGED grants
            BY <1>4 DEF CommitSettle, levelVars
        <3> QED
            BY <1>3, <3>1, LevelsLeft
    <2>2. SettlingIsDue'
        <3>1. task'[Host] = task[Host] /\ session' = session
            BY <1>1, <1>4, HostTyped DEF Moves, CommitSettle
        <3> QED
            BY <3>1 DEF GameplayInv, SettlingIsDue, Settling, Settleable
    <2> QED
        BY <1>2, <2>1, <2>2 DEF GameplayInv
<1>5. CASE w = Host
    <2>1. Settleable(session)
        BY <1>1, <1>5 DEF GameplayInv, SettlingIsDue, Settling
    <2>2. grants' = [grants EXCEPT ![started] = @ + 1]
          /\ session' = [session EXCEPT !.settled = answered]
        BY <1>5 DEF CommitSettle
    <2>3. PICK s : s = [session EXCEPT !.settled = answered]
        OBVIOUS
    <2>4. /\ s \in Sessions /\ s.alive /\ s.settled = answered /\ ~ s.failed
          /\ s.completed = session.completed
        BY <2>1, <2>3 DEF GameplayInv, LevelInv, Sessions, Settleable
    <2>5. Sound(s)
        <3>1. s.orders = session.orders /\ s.pending = session.pending
              /\ s.resources = session.resources
            BY <2>3 DEF GameplayInv, LevelInv, Sessions
        <3> QED
            BY <2>1, <2>4, <3>1, SoundStays DEF GameplayInv, LevelInv, Settleable
    <2>6. Stage(session) = "won" /\ Stage(s) = IF answered THEN "settled" ELSE "won"
        BY <2>1, <2>4, StageTable DEF Settleable, GameplayInv, LevelInv
    <2>7. /\ LevelInv'
          /\ \E i \in 1 .. MaxSessions :
                 /\ i = started /\ StageOf(i) = Stage(session) /\ StageOf(i)' = Stage(s)
                 /\ \A j \in 1 .. MaxSessions \ {i} : StageOf(j)' = StageOf(j)
        BY <1>3, <2>1, <2>2, <2>3, <2>4, <2>5, SessionMoves DEF GameplayInv, Settleable
    <2>8. PICK i \in 1 .. MaxSessions :
              /\ i = started /\ StageOf(i) = "won"
              /\ StageOf(i)' = IF answered THEN "settled" ELSE "won"
              /\ \A j \in 1 .. MaxSessions \ {i} : StageOf(j)' = StageOf(j)
        BY <2>6, <2>7
    <2>9. SettlingIsDue'
        BY <1>1, <1>5, IdleTaskLike DEF Writes, SettlingIsDue, Settling
    <2>10. GrantsKept'
        <3>1. /\ grants' \in [1 .. MaxSessions -> Nat]
              /\ grants[i] \in Nat /\ grants'[i] = grants[i] + 1
              /\ \A j \in 1 .. MaxSessions \ {i} : grants'[j] = grants[j]
            BY <2>2, <2>8 DEF GameplayInv, GrantsKept
        <3>2. grants[i] <= lost
            BY <2>8 DEF GameplayInv, GrantsKept
        <3>3. ASSUME NEW j \in 1 .. MaxSessions \ {i}
              PROVE  /\ grants'[j] <= lost' + (IF StageOf(j)' = "settled" THEN 1 ELSE 0)
                     /\ grants'[j] > 0 => StageOf(j)' \in {"won", "settled"}
                     /\ StageOf(j)' = "settled" => grants'[j] > 0
            BY <1>3, <2>8, <3>1 DEF GameplayInv, GrantsKept
        <3>4. /\ grants'[i] <= lost' + (IF StageOf(i)' = "settled" THEN 1 ELSE 0)
              /\ StageOf(i)' \in {"won", "settled"}
              /\ grants'[i] > 0
            <4>1. CASE answered
                <5>1. StageOf(i)' = "settled"
                    BY <2>8, <4>1
                <5>2. lost' = lost /\ lost \in Nat
                    BY <1>3, <4>1
                <5>3. grants'[i] = grants[i] + 1 /\ grants[i] \in Nat
                    BY <3>1
                <5> QED
                    BY <3>2, <5>1, <5>2, <5>3
            <4>2. CASE ~ answered
                <5>1. StageOf(i)' = "won"
                    BY <2>8, <4>2
                <5>2. lost' = lost + 1 /\ lost \in Nat
                    BY <1>3, <4>2
                <5>3. grants'[i] = grants[i] + 1 /\ grants[i] \in Nat
                    BY <3>1
                <5> QED
                    BY <3>2, <5>1, <5>2, <5>3
            <4> QED
                BY <4>1, <4>2
        <3> QED
            BY <1>3, <3>1, <3>3, <3>4 DEF GrantsKept
    <2>11. CASE answered
        BY <1>2, <2>7, <2>8, <2>9, <2>10, <2>11 DEF GameplayInv
    <2>12. CASE ~ answered
        <3>1. Stands
            BY <2>8, <2>12 DEF Stands
        <3> QED
            BY <1>2, <2>7, <2>9, <2>10, <3>1 DEF GameplayInv
    <2> QED
        BY <2>11, <2>12
<1> QED
    BY <1>4, <1>5

\* Every step keeps the invariant and moves at most one level, by its rules.
LEMMA StepKept ==
    ASSUME GameplayInv, Next
    PROVE  /\ GameplayInv'
           /\ \/ Stands
              \/ \E i \in 1 .. MaxSessions : Plays(i)
              \/ \E i \in 1 .. MaxSessions :
                     /\ StageOf(i) = "won" /\ StageOf(i)' = "settled"
                     /\ \A j \in 1 .. MaxSessions \ {i} : StageOf(j)' = StageOf(j)
    BY PlayKept, OwnKept, SettleKept, CommitSettleKept DEF Next

\* A step that changes nothing keeps it too.
LEMMA StutterKept ==
    ASSUME GameplayInv, UNCHANGED vars
    PROVE  GameplayInv' /\ Stands
<1>1. Rests /\ UNCHANGED levelVars /\ UNCHANGED <<lost, grants>>
    BY DEF vars, economyVars, tables, Rests
<1>2. LevelInv' /\ GrantsKept' /\ Stands
    BY <1>1, LevelsLeft DEF GameplayInv, GrantsKept
<1>3. EconomyInv' /\ BooksInv'
    BY <1>1, EconomyKept, BooksKept DEF GameplayInv, vars
<1>4. SettlingIsDue'
    BY <1>1 DEF Rests, levelVars, GameplayInv, SettlingIsDue, Settling, Settleable
<1> QED
    BY <1>2, <1>3, <1>4 DEF GameplayInv

\* Sound levels, an economy that is paid once, books that balance and grants that
\* were won, for any level, cards, orders, assets and servers: GameplayInv is an
\* invariant.
THEOREM Invariance == Spec => []GameplayInv
<1>1. GameplayInv /\ [Next]_vars => GameplayInv'
    BY StepKept, StutterKept
<1> QED
    BY Initially, <1>1, PTL DEF Spec

-----------------------------------------------------------------------------
(* 10. Types. *)

\* The rest of what the types say: times and commands within their bounds, and a
\* saved deck of cards that the player owns, each once.
Bounded ==
    /\ clock \in 0 .. MaxClock /\ lastPaid <= MaxClock
    /\ \A w \in Worker :
           task[w].pc = "commit" /\ task[w].op = "claim" => task[w].until <= MaxClock
    /\ history.absence >= 0
    /\ begun \in 0 .. MaxCommands
    /\ lost <= LostReplies

DeckOwned ==
    /\ IsInjective(deck) /\ Len(deck) <= MaxDeckSize
    /\ \A c \in Range(deck) : c \in CardID /\ level[c] # NoRow

\* Only Save changes the deck,
Saves == deck' = deck \/ \E w \in Worker : Save(w) /\ Deckable(task[w].wish)
                                           /\ deck' = task[w].wish

\* only a command that begins is counted,
Counts == begun' = begun \/ (begun < MaxCommands /\ begun' = begun + 1)

\* and no card is taken away.
Owns == \A x \in Upgradable : level[x] # NoRow => level'[x] # NoRow

\* The first two can be read off the commands.
LEMMA EconomySaves ==
    ASSUME EconomyNext
    PROVE  Saves /\ Counts
<1> USE DEF tables, Saves, Counts
<1>1. CASE Tick
    <2>1. deck' = deck /\ begun' = begun
        <3> HIDE DEF Saves, Counts
        <3> QED
            BY <1>1 DEF Tick
    <2> QED
        BY <2>1, Zenon
<1>2. ASSUME NEW w \in Worker, Command(w) PROVE Saves /\ Counts
    BY <1>2
    DEF Command, GetCards, GetOverview, ClaimOfflineReward, UpgradeCard, UpgradeFacility,
        SaveDeck, ChangeAsset, Begin
<1>3. ASSUME NEW w \in Worker, Save(w) PROVE Saves /\ Counts
    BY <1>3 DEF Save
<1>4. ASSUME NEW w \in Worker, Continue(w), ~ Save(w) PROVE Saves /\ Counts
    BY <1>4
    DEF Continue, Open, Preview, ReadCard, ReadFacility, ReadClaim, ReadAsset, ReadSettle, Commit,
        Write, RollBack
<1> QED
    BY <1>1, <1>2, <1>3, <1>4 DEF EconomyNext

\* A step of the economy is a step of a worker, and owns what there was.
LEMMA EconomyOwns ==
    ASSUME EconomyInv, BooksInv, Prepares \/ \E w \in Worker : Stores(w)
    PROVE  Owns
<1>1. CASE Prepares
    BY <1>1, LevelsPrepared DEF BooksInv, Prepares, Owns, NoRow
<1>2. ASSUME NEW w \in Worker, Stores(w) PROVE Owns
    <2>1. PICK t : t = task[w]
        OBVIOUS
    <2>2. level' = NextLevel(t) /\ t.pc = "commit" /\ TaskPays(t)
        BY <1>2, <2>1 DEF Stores, BooksInv
    <2>3. level \in [Upgradable -> Nat \cup {NoRow}]
        BY DEF BooksInv, BooksTyped
    <2>4. CASE Upgrades(t)
        <3>1. t.on \in Upgradable /\ Current(t) \in Nat \ {0}
              /\ (t.seen = Current(t) \/ (t.seen = NoRow /\ t.on \notin CardID))
            BY <2>2, <2>4, UpgradeRead
        <3>2. RaisedCard(t) # NoRow \/ t.op = "facility"
            BY <2>2, <2>4, <3>1 DEF TaskPays, Upgrades, RaisedCard, NoRow
        <3>3. RaisedFacility(t) # NoRow
            BY <3>1 DEF RaisedFacility, NoRow
        <3> QED
            BY <2>2, <2>3, <2>4, <3>2, <3>3 DEF NextLevel, Upgrades, Owns
    <2>5. CASE ~ Upgrades(t)
        BY <2>2, <2>5 DEF NextLevel, Upgrades, Owns
    <2> QED
        BY <2>4, <2>5
<1> QED
    BY <1>1, <1>2

\* What a step does to all that.
Steady ==
    /\ Saves /\ Counts /\ Owns
    /\ lost' = lost \/ (lost < LostReplies /\ lost' = lost + 1)
    /\ Ticks \/ Views \/ Rests \/ \E w \in Worker : Works(w)

\* It is what every step does.
LEMMA StepSteady ==
    ASSUME GameplayInv, Next \/ UNCHANGED vars
    PROVE  Steady
<1>1. EconomyInv /\ BooksInv /\ TasksTyped /\ RowsTyped
    BY DEF GameplayInv, EconomyInv
<1>2. CASE UNCHANGED economyVars /\ lost' = lost
    <2>1. Rests /\ Saves /\ Counts /\ Owns
        BY <1>2 DEF economyVars, tables, Rests, Saves, Counts, Owns
    <2> QED
        BY <1>2, <2>1 DEF Steady
<1>3. CASE EconomyNext /\ lost' = lost
    BY <1>1, <1>3, EconomySaves, EconomyBooks, EconomyOwns, EconomySteps DEF Steady
<1>4. ASSUME NEW w \in Worker, NEW rewards \in Seq(ItemCount), BeginSettle(w, rewards), lost' = lost
      PROVE  Steady
    <2>1. Saves /\ Counts
        BY <1>4 DEF BeginSettle, Begin, tables, Saves, Counts
    <2> QED
        BY <1>1, <1>4, <2>1, SettleBegins, SettlePrepares, EconomyOwns DEF Steady, Works
<1>5. ASSUME NEW w \in Worker, NEW answered \in BOOLEAN, CommitSettle(w, answered)
      PROVE  Steady
    <2>1. Saves /\ Counts /\ Write(w) /\ Return(w)
        BY <1>5 DEF CommitSettle, Write, Saves, Counts
    <2>2. Works(w)
        BY <1>1, <2>1, WriteWrites DEF Works
    <2>3. Owns
        BY <1>1, <2>1, WriteStores, EconomyOwns
    <2>4. lost' = lost \/ (lost < LostReplies /\ lost' = lost + 1)
        BY <1>5 DEF CommitSettle
    <2> QED
        BY <2>1, <2>2, <2>3, <2>4 DEF Steady
<1>6. PendingRewards(session) \in Seq(ItemCount) /\ Elsewhere \subseteq Seq(ItemCount)
    BY PendingRewardsType, RewardsType DEF GameplayInv, LevelInv, Sessions
<1> QED
    BY <1>2, <1>3, <1>4, <1>5, <1>6, HostTyped
    DEF Next, Play, Own, Settle, SettleElsewhere, vars

\* The bounds hold after it,
LEMMA StaysBounded ==
    ASSUME GameplayInv, Bounded, Steady
    PROVE  Bounded'
<1>1. MaxClock \in Nat /\ MaxCommands \in Nat /\ LostReplies \in Nat
    BY EconomyBounded, HostTyped
<1>2. TasksTyped /\ RowsTyped /\ TasksRun
    BY DEF GameplayInv, EconomyInv
<1>3. begun' \in 0 .. MaxCommands /\ lost' <= LostReplies
    BY <1>1 DEF Bounded, Steady, Counts, GameplayInv, GrantsKept
<1>4. CASE Ticks
    BY <1>1, <1>2, <1>3, <1>4 DEF Bounded, Ticks
<1>5. CASE Rests
    BY <1>3, <1>5 DEF Bounded, Rests
<1>6. CASE Views
    <2>1. lastPaid' <= MaxClock /\ history'.absence = history.absence
        BY <1>1, <1>2, <1>6 DEF Bounded, Views, OpenWorkshop, OpenedAt, RowsTyped
    <2> QED
        BY <1>3, <1>6, <2>1 DEF Bounded, Views
<1>7. ASSUME NEW w \in Worker, Works(w) PROVE Bounded'
    <2>1. clock' = clock /\ clock \in 0 .. MaxClock
        BY <1>7 DEF Works, Begins, Leaves, Opens, Previews, Reads, Writes, Bounded
    <2>2. task[w].absence \in Nat /\ history.absence \in Nat
        BY <1>2 DEF TasksTyped, TaskLike, RowsTyped, Bounded
    <2>3. \/ history'.absence = history.absence
          \/ history'.absence = history.absence + task[w].absence
        BY <1>2, <1>7 DEF Works, Begins, Leaves, Opens, OpenWorkshop, Previews, Reads, Writes,
            RowsTyped
    <2>4. lastPaid' <= MaxClock
        BY <1>7, <2>1 DEF Works, Begins, Leaves, Opens, OpenWorkshop, OpenedAt, Previews, Reads,
            Writes, NextPaid, Bounded
    <2>5. task'[w].pc = "commit" /\ task'[w].op = "claim" => task'[w].until <= MaxClock
        BY <1>7, <2>1, IdleTaskLike DEF Works, Begins, Leaves, Opens, Previews, Reads, Writes
    <2>6. \A v \in Worker \ {w} : task'[v] = task[v]
        BY <1>7 DEF Works, Moves
    <2> QED
        BY <1>3, <2>1, <2>2, <2>3, <2>4, <2>5, <2>6 DEF Bounded
<1> QED
    BY <1>4, <1>5, <1>6, <1>7 DEF Steady

\* and so does what is said of the deck.
LEMMA DeckStaysOwned ==
    ASSUME GameplayInv, DeckOwned, Steady
    PROVE  DeckOwned'
<1>1. CASE deck' = deck
    BY <1>1 DEF DeckOwned, Steady, Owns, Upgradable
<1>2. ASSUME NEW w \in Worker, Save(w), Deckable(task[w].wish), deck' = task[w].wish
      PROVE  DeckOwned'
    <2>1. Len(task[w].wish) <= MaxDeckSize
        BY <1>2 DEF Save, GameplayInv, BooksInv, TaskPays
    <2> QED
        BY <1>2, <2>1 DEF DeckOwned, Deckable, Save
<1> QED
    BY <1>1, <1>2 DEF Steady, Saves

\* What the rules of levels and the commands of the player store is of its type: the
\* saved deck has at most MaxDeckSize cards, each once, that the player owns.
THEOREM Typing == Spec => []TypeOK
<1>1. Init => Bounded /\ DeckOwned
    <2> SUFFICES ASSUME Init PROVE Bounded /\ DeckOwned
        OBVIOUS
    <2>1. /\ clock = 0 /\ lastPaid = NoRow /\ history.absence = 0
          /\ begun = 0 /\ lost = 0 /\ deck = <<>>
          /\ \A w \in Worker : task[w].pc = "idle"
        BY IdleTaskLike DEF Init, EconomyInit
    <2>2. Bounded
        BY <2>1, EconomyBounded, HostTyped DEF Bounded, NoRow
    <2>3. Len(<<>>) = 0 /\ DOMAIN <<>> = {}
        BY EmptySeq
    <2>4. IsInjective(<<>>) /\ Range(<<>>) = {}
        BY <2>3 DEF IsInjective, Range
    <2> QED
        BY <2>1, <2>2, <2>3, <2>4, AssetData DEF DeckOwned
<1>2. GameplayInv /\ Bounded /\ DeckOwned /\ [Next]_vars => Bounded' /\ DeckOwned'
    BY StepSteady, StaysBounded, DeckStaysOwned
<1>3. GameplayInv /\ Bounded /\ DeckOwned => TypeOK
    <2> SUFFICES ASSUME GameplayInv, Bounded, DeckOwned PROVE TypeOK
        OBVIOUS
    <2>1. LevelTypeOK
        <3>1. DOMAIN session.orders = 1 .. Len(session.orders)
              /\ \A i \in 1 .. Len(session.orders) : session.orders[i] \in OrderState
            BY LenProperties, ElementOfSeq DEF GameplayInv, LevelInv, Sessions
        <3>2. Range(session.pending) \subseteq Order
            BY LenProperties, ElementOfSeq DEF GameplayInv, LevelInv, Sessions, Range
        <3> QED
            BY <3>1, <3>2
            DEF GameplayInv, LevelInv, Sessions, Stages, Resources, OrderState, LevelTypeOK
    <2>2. history \in History
        <3>1. history.earned \in [Asset -> Int] /\ history.absence >= 0
            BY DEF GameplayInv, BooksInv, BooksTyped, Bounded
        <3> QED
            BY <3>1 DEF GameplayInv, EconomyInv, RowsTyped, History
    <2>3. DOMAIN task = Worker /\ \A w \in Worker :
              task[w].pc \in {"idle", "open", "preview", "read", "commit", "save"}
        BY DEF GameplayInv, EconomyInv, TasksTyped, TaskLike
    <2>4. lastPaid \in {NoRow} \cup 0 .. MaxClock /\ clears \in Nat \cup {NoRow}
        BY EconomyBounded DEF GameplayInv, EconomyInv, RowsTyped, Bounded
    <2>5. EconomyTypeOK
        BY <2>2, <2>3, <2>4 DEF GameplayInv, BooksInv, BooksTyped, Bounded, DeckOwned, EconomyTypeOK
    <2>6. lost \in 0 .. LostReplies /\ grants \in [1 .. MaxSessions -> Nat]
        BY HostTyped DEF GameplayInv, GrantsKept, Bounded
    <2> QED
        BY <2>1, <2>5, <2>6 DEF TypeOK
<1> QED
    BY Invariance, <1>1, <1>2, <1>3, PTL DEF Spec

-----------------------------------------------------------------------------
(* 11. The properties. *)

\* CompleteReadyOrders leaves no order that could be completed: the bound that the
\* model puts on its passes is never what stops it.
THEOREM CompletionIsExhaustive == Spec => []NoReadyOrderWaits
<1>1. GameplayInv => NoReadyOrderWaits
    <2> SUFFICES ASSUME GameplayInv PROVE NoReadyOrderWaits
        OBVIOUS
    <2>1. DOMAIN session.orders = 1 .. Len(session.orders) /\ NoneReady(session)
        BY LenProperties DEF GameplayInv, LevelInv, Sound, Sessions
    <2> QED
        BY <2>1 DEF NoReadyOrderWaits, NoneReady
<1> QED
    BY Invariance, <1>1, PTL

\* The counter of completed orders, the orders marked as done, the rewards that
\* wait and the orders dealt agree after every command.
THEOREM OrdersAgree == Spec => []OrdersAddUp
<1>1. GameplayInv => OrdersAddUp
    <2> SUFFICES ASSUME GameplayInv PROVE OrdersAddUp
        OBVIOUS
    <2>1. /\ DOMAIN session.orders = 1 .. Len(session.orders)
          /\ DOMAIN session.pending = 1 .. Len(session.pending)
          /\ session.completed \in Nat /\ Level.target \in Nat
          /\ Counted(session) /\ (session.alive => Dealt(session))
        BY LenProperties, LevelData DEF GameplayInv, LevelInv, Sound, Sessions
    <2>2. Min({session.completed, Level.target - 1}) =
          IF session.completed < Level.target THEN session.completed ELSE Level.target - 1
        <3> DEFINE m == IF session.completed < Level.target THEN session.completed
                        ELSE Level.target - 1
        <3>1. m \in {session.completed, Level.target - 1} /\ m \in Int
              /\ \A y \in {session.completed, Level.target - 1} : y \in Int /\ m <= y
            BY <2>1
        <3> HIDE DEF m
        <3>2. \A x \in {session.completed, Level.target - 1} :
                  (\A y \in {session.completed, Level.target - 1} : x <= y) => x = m
            BY <3>1
        <3>3. Min({session.completed, Level.target - 1}) = m
            BY <3>1, <3>2 DEF Min
        <3> QED
            BY <3>3 DEF m
    <2> QED
        BY <2>1, <2>2 DEF OrdersAddUp, Counted, Dealt
<1> QED
    BY Invariance, <1>1, PTL

\* ConsumeRequirements overdraws a resource only by a price that names it twice, a
\* card only by an effect that gives a negative amount.
THEOREM OnlyRepetitionOverdraws == Spec => []NegativeOnlyByRepetition
<1>1. GameplayInv => NegativeOnlyByRepetition
    <2> SUFFICES ASSUME GameplayInv, NEW r \in Resource, session.resources[r] < 0
                 PROVE  \/ \E o \in Range(session.pending) : \E i, j \in DOMAIN Requirements[o] :
                               /\ i # j /\ Requirements[o][i].resource = r
                               /\ Requirements[o][j].resource = r
                        \/ \E c \in Card : \E i \in DOMAIN Effects[c] :
                               LET e == Effects[c][i]
                               IN  e.kind \in {"gain", "convert"} /\ e.to = r /\ e.give < 0
        BY DEF NegativeOnlyByRepetition
    <2>1. session.pending \in Seq(Order) /\ Explained(session)
        BY DEF GameplayInv, LevelInv, Sound, Sessions
    <2>2. CASE Drains(r)
        <3>1. \A c \in Card : DOMAIN Effects[c] = 1 .. Len(Effects[c])
            BY LevelData, LenProperties
        <3> QED
            BY <2>2, <3>1 DEF Drains
    <2>3. ASSUME NEW k \in 1 .. Len(session.pending), Repeated(r, Requirements[session.pending[k]])
          PROVE  \E o \in Range(session.pending) : \E i, j \in DOMAIN Requirements[o] :
                     /\ i # j /\ Requirements[o][i].resource = r
                     /\ Requirements[o][j].resource = r
        <3>1. session.pending[k] \in Order /\ session.pending[k] \in Range(session.pending)
            BY <2>1, ElementOfSeq, LenProperties DEF Range
        <3>2. DOMAIN Requirements[session.pending[k]] = 1 .. Len(Requirements[session.pending[k]])
            BY <3>1, RequirementsType, LenProperties DEF Wants
        <3> QED
            BY <2>3, <3>1, <3>2 DEF Repeated
    <2> QED
        BY <2>1, <2>2, <2>3 DEF Explained
<1> QED
    BY Invariance, <1>1, PTL

\* ClaimOfflineReward pays no second twice, unless commands overlap.
THEOREM AbsenceIsPaidOnce == Spec => []AbsencePaidOnce
<1>1. GameplayInv => AbsencePaidOnce
    BY DEF GameplayInv, EconomyInv, AbsenceKept, AbsencePaidOnce
<1> QED
    BY Invariance, <1>1, PTL

\* The settlements of a level, on however many servers, reward its first clear
\* once.
THEOREM FirstClearIsRewardedOnce == Spec => []FirstClearOnce
<1>1. GameplayInv => FirstClearOnce
    BY DEF GameplayInv, EconomyInv, FirstClearKept
<1> QED
    BY Invariance, <1>1, PTL

\* Nothing is upgraded for free, however two servers interleave, and unless
\* commands overlap the log explains every balance.
THEOREM LevelsWerePaid == Spec => []LevelsArePaid
<1>1. GameplayInv => LevelsArePaid
    BY BooksArePaid DEF GameplayInv
<1> QED
    BY Invariance, <1>1, PTL

\* Only a level that was won is granted, a settled one was, and a further grant
\* of it is one whose COMMIT was applied without an answer.
THEOREM GrantsWereWon == Spec => []GrantsAreWon
<1>1. GameplayInv => GrantsAreWon
    BY DEF GameplayInv, GrantsKept, GrantsAreWon, StageOf
<1> QED
    BY Invariance, <1>1, PTL

\* However levels are played, settled, left and deleted, each runs the course of
\* LevelLifecycle: the detailed model implements the abstract one.
THEOREM ImplementsLifecycle == Spec => LevelsRunTheirCourse
<1> DEFINE mapped == [i \in 1 .. MaxSessions |->
                         IF i = started /\ session.alive THEN Stage(session) ELSE past[i]]
<1>1. mapped = [i \in 1 .. MaxSessions |-> StageOf(i)]
    BY DEF StageOf
<1>2. Init => Levels!Init
    BY DEF Init, LevelInit, NoSession, NewSession, Levels!Init
<1>3. GameplayInv /\ [Next]_vars => [Levels!Next]_mapped
    <2> SUFFICES ASSUME GameplayInv, [Next]_vars PROVE [Levels!Next]_mapped
        OBVIOUS
    <2>1. mapped' = [i \in 1 .. MaxSessions |-> StageOf(i)']
        BY DEF StageOf
    <2>2. CASE Stands
        BY <1>1, <2>1, <2>2 DEF Stands
    <2>3. ASSUME NEW i \in 1 .. MaxSessions, NEW from, NEW to, StageOf(i) = from,
                 StageOf(i)' = to,
                 \A j \in 1 .. MaxSessions \ {i} : StageOf(j)' = StageOf(j)
          PROVE  Levels!Become(i, from, to)
        <3>1. mapped[i] = from
            BY <1>1, <2>3
        <3>2. \A j \in 1 .. MaxSessions : StageOf(j)' = [mapped EXCEPT ![i] = to][j]
            BY <1>1, <2>3
        <3>3. mapped' = [mapped EXCEPT ![i] = to]
            BY <2>1, <3>2
        <3> QED
            BY <3>1, <3>3 DEF Levels!Become
    <2>4. ASSUME NEW i \in 1 .. MaxSessions, Plays(i) PROVE Levels!Next
        BY <2>3, <2>4 DEF Plays, Levels!Next
    <2>5. ASSUME NEW i \in 1 .. MaxSessions, StageOf(i) = "won", StageOf(i)' = "settled",
                 \A j \in 1 .. MaxSessions \ {i} : StageOf(j)' = StageOf(j)
          PROVE  Levels!Next
        BY <2>3, <2>5 DEF Levels!Next
    <2> QED
        BY <2>2, <2>4, <2>5, StepKept, StutterKept
<1> QED
    BY Invariance, <1>2, <1>3, PTL DEF Spec, LevelsRunTheirCourse, Levels!Spec
====
