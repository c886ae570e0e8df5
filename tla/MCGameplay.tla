------------------------------ MODULE MCGameplay ------------------------------
(* A level that one card a turn can just win: two turns, two orders.  Order *)
(* "b" lists its resource twice, and completing it brings on an "a" that is *)
(* ready at once.  One card and one facility can be raised.                 *)
EXTENDS Gameplay

MCLevel == [turnLimit |-> 2, actionPoints |-> 1, initialOrders |-> 2, target |-> 2,
            pool |-> <<"b", "b", "a">>, hand |-> {"gather", "saw", "buy"}]
MCCost == [gather |-> 1, saw |-> 1, buy |-> 1]
MCEffects ==
    [gather |-> <<[kind |-> "gain", to |-> "wood", give |-> 3],
                  [kind |-> "draw_card"]>>,
     saw |-> <<[kind |-> "convert", from |-> "wood", take |-> 1, to |-> "plank", give |-> 1]>>,
     buy |-> <<[kind |-> "gain", to |-> "plank", give |-> 1]>>]
MCRequirements ==
    [a |-> <<[resource |-> "wood", count |-> 1]>>,
     b |-> <<[resource |-> "wood", count |-> 1], [resource |-> "plank", count |-> 1],
            [resource |-> "plank", count |-> 1]>>]

Items(item, count) == <<[item |-> item, count |-> count]>>
MCOrderRewards == [a |-> Items("gold", 1), b |-> Items("ore", 1) \o Items("ore", 1)]
MCFirst == Items("gold", 2)
MCRepeat == <<>>
MCElsewhere == {<<>>}
MCStart == [gold |-> 2, ore |-> -1]
MCPrices ==
    [axe |-> [l \in {2} |-> Items("gold", 1) \o Items("gold", 1)],
     mill |-> [l \in {2, 3} |-> Items("gold", 1)],
     rare |-> [l \in {2} |-> <<>>]]
MCMaxLevel == [axe |-> 2, mill |-> 3, rare |-> 2]
MCDecks == {<<"axe">>, <<"axe", "axe">>, <<"axe", "rare">>}
MCWish == {[sign |-> 1, items |-> Items("ore", 1)], [sign |-> -1, items |-> Items("gold", 1)]}
=============================================================================
