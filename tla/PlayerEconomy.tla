---------------------------- MODULE PlayerEconomy ----------------------------
(***************************************************************************)
(* What one player owns in MySQL and the commands that change it: card and *)
(* deck service, workshop service, and asset.Service, through which each   *)
(* of them pays.  A member of Worker is a goroutine that executes a        *)
(* command: a server runs one command of a player at a time, so two run    *)
(* together only while the player is being taken over by another server    *)
(* (CommandDispatch models how), which overlap records.                    *)
(*                                                                         *)
(* A transaction is two actions.  Its plain SELECTs all read the snapshot  *)
(* of the first (REPEATABLE READ): Read takes it, computes and refuses.    *)
(* Its writes are absolute values and appear together: Commit.             *)
(***************************************************************************)
EXTENDS Integers, SequencesExt

CONSTANTS
    Worker, None,
    ItemID,          \* the items that a client or the data can name
    Asset,           \* those of the catalogue; gold is one of them
    Gold, Material,  \* ItemIDGold and ItemIDBasicMaterial
    Start,           \* Start[a]: what a new player owns, or NoRow
    CardID, DefaultCard, DeckWish,  \* DeckWish: the decks that clients ask for
    Facility,
    Prices,          \* Prices[x][l]: the costs of raising x to level l, a
                     \* sequence of items and counts; empty: not configured
    MaxLevel,        \* MaxLevel[x], of a card or facility x
    MaxDeckSize,
    MinOffline, MaxOffline,      \* bounds of the absence that is paid, seconds
    GoldPerHour, MaterialPerHour, Hour,
    FirstClearRewards, RepeatRewards,
    AssetWish,       \* the debug grants and payments: a sign and a list of items
    MaxClock, MaxCommands        \* bounds: time, and commands that begin

Upgradable == CardID \cup Facility
NoRow == -1

\* RewardItem and CostItem.
ItemCount == [item: ItemID, count: Int]

\* validateCosts, validateRewards and the constants of the services.  Only
\* prices and the rewards of orders are looked at when the data is loaded.
ASSUME AssetData ==
    /\ {Gold, Material} \subseteq Asset /\ Gold # Material
    /\ Asset \subseteq ItemID
    /\ Start \in [Asset -> Nat \cup {NoRow}]
    /\ DefaultCard \subseteq CardID
    /\ CardID \cap Facility = {} /\ None \notin Upgradable \cup Worker
    /\ IsFiniteSet(Upgradable)
    /\ \A x \in Upgradable : MaxLevel[x] \in Nat \ {0}
    /\ \A x \in Upgradable : \A l \in 2..MaxLevel[x] :
           Prices[x][l] \in Seq([item: Asset, count: Nat \ {0}])
    /\ {MinOffline, MaxOffline, Hour} \subseteq Nat \ {0} /\ MinOffline <= MaxOffline
    /\ {GoldPerHour, MaterialPerHour} \subseteq Nat
    /\ {FirstClearRewards, RepeatRewards} \subseteq Seq(ItemCount)
    /\ \A wish \in AssetWish : wish.items \in Seq(ItemCount)
    /\ MaxDeckSize \in Nat

ASSUME EconomyBounded == MaxClock \in Nat /\ MaxCommands \in Nat

VARIABLES
    balance,   \* players.gold and inventory_items.count
    logged,    \* logged[a]: the sum of the deltas of asset_logs
    level,     \* player_cards.level and player_facilities.level
    deck,      \* player_decks.card_ids of the default deck
    lastPaid,  \* player_workshops.last_offline_reward_at
    clears,    \* player_level_progress.clear_count
    clock,     \* seconds, as time.Now().Unix() of the servers gives them
    task,      \* task[w]: the command that w executes
    begun,     \* how many commands have begun
    history    \* see History

tables == <<balance, logged, level, deck, lastPaid, clears>>
economyVars == <<tables, clock, task, begun, history>>

\* overlap: two workers have been executing at the same time; opened: the first
\* lastPaid; absence: the seconds of absence paid for; earned: what the player
\* got other than by upgrades; firsts: how often the first clear was rewarded.
History == [overlap: BOOLEAN, opened: Int, absence: Nat, earned: [Asset -> Int],
            firsts: Nat]

\* on: what is upgraded; from: the lastPaid a claim goes by, absence and until
\* what it pays and moves it to; wish: the deck or the rewards of the orders.
\* seen: the level or clear count that was read; base: the balances that were
\* read of the assets of change, which is what the transaction adds to them.
NoChange == [a \in Asset |-> 0]
IdleTask == [pc |-> "idle", op |-> "card", on |-> None, from |-> 0, absence |-> 0,
             until |-> 0, wish |-> <<>>, seen |-> 0, base |-> NoChange,
             change |-> NoChange]

\* The saved deck has cards that the player owns, each once.
EconomyTypeOK ==
    /\ balance \in [Asset -> Nat \cup {NoRow}]
    /\ logged \in [Asset -> Int]
    /\ level \in [Upgradable -> Nat \cup {NoRow}]
    /\ \A x \in Upgradable : level[x] <= MaxLevel[x]
    /\ IsInjective(deck) /\ Len(deck) <= MaxDeckSize
    /\ \A c \in Range(deck) : c \in CardID /\ level[c] # NoRow
    /\ lastPaid \in {NoRow} \cup 0..MaxClock
    /\ clears \in Nat \cup {NoRow}
    /\ clock \in 0..MaxClock
    /\ DOMAIN task = Worker
    /\ \A w \in Worker :
           task[w].pc \in {"idle", "open", "preview", "read", "commit", "save"}
    /\ begun \in 0..MaxCommands
    /\ history \in History

EconomyInit ==
    /\ balance = Start
    /\ logged = NoChange
    /\ level = [x \in Upgradable |-> NoRow]
    /\ deck = <<>>
    /\ lastPaid = NoRow
    /\ clears = NoRow
    /\ clock = 0
    /\ task = [w \in Worker |-> IdleTask]
    /\ begun = 0
    /\ history = [overlap |-> FALSE, opened |-> NoRow, absence |-> 0,
                  earned |-> NoChange, firsts |-> 0]

-----------------------------------------------------------------------------
(* Helpers. *)

\* A row that is not there counts as an inventory item of count 0.
OrZero(count) == IF count = NoRow THEN 0 ELSE count
Held(a) == OrZero(balance[a])

\* mergeRewardItems and mergeCostItems: one change per item.
Merged(items) ==
    [a \in Asset |->
        LET sum[n \in 0 .. Len(items)] ==
                IF n = 0 THEN 0
                ELSE sum[n - 1] + (IF items[n].item = a THEN items[n].count ELSE 0)
        IN  sum[Len(items)]]

Less(change) == [a \in Asset |-> - change[a]]

\* ErrInvalidAmount: an empty list, or a count that is not positive;
\* ErrUnsupportedItemID: an item that is not in the catalogue.
ValidItems(items) ==
    items # <<>> /\ \A i \in DOMAIN items : items[i].count > 0 /\ items[i].item \in Asset

Payable(change) == \A a \in Asset : Held(a) + change[a] >= 0

BusyElsewhere(w) == \E v \in Worker \ {w} : task[v].pc # "idle"

Begin(w, t) ==
    /\ task[w].pc = "idle"
    /\ begun < MaxCommands
    /\ begun' = begun + 1
    /\ task' = [task EXCEPT ![w] = t]
    /\ history' = [history EXCEPT !.overlap = @ \/ BusyElsewhere(w)]

Return(w) == task' = [task EXCEPT ![w] = IdleTask]

\* Every SELECT of the transaction, and what it computes from them.
Snapshot(w, seen, change) ==
    task' = [task EXCEPT ![w].pc = "commit", ![w].seen = seen, ![w].change = change,
                 ![w].base = [a \in Asset |-> IF change[a] = 0 THEN 0 ELSE balance[a]]]

-----------------------------------------------------------------------------
(* Commands: what each does before its transaction. *)

\* CreateCardsIfAbsent: rows that are there are left alone.
CreateCardsIfAbsent(cards) ==
    level' = [x \in Upgradable |->
                 IF x \in cards /\ level[x] = NoRow THEN 1 ELSE level[x]]

\* Every card command of a player first makes sure of the initial cards.
EnsureDefaultCards == CreateCardsIfAbsent(DefaultCard)

GetCards(w) ==
    /\ task[w].pc = "idle"
    /\ EnsureDefaultCards
    /\ UNCHANGED <<balance, logged, deck, lastPaid, clears, clock, task, begun, history>>

UpgradeCard(w, c) ==
    /\ Begin(w, [IdleTask EXCEPT !.pc = "read", !.op = "card", !.on = c])
    /\ EnsureDefaultCards
    /\ UNCHANGED <<balance, logged, deck, lastPaid, clears, clock>>

UpgradeFacility(w, f) ==
    /\ Begin(w, [IdleTask EXCEPT !.pc = "read", !.op = "facility", !.on = f])
    /\ UNCHANGED <<tables, clock>>

SaveDeck(w, cards) ==
    /\ cards # <<>> /\ Len(cards) <= MaxDeckSize
    /\ Begin(w, [IdleTask EXCEPT !.pc = "save", !.op = "deck", !.wish = cards])
    /\ EnsureDefaultCards
    /\ UNCHANGED <<balance, logged, deck, lastPaid, clears, clock>>

\* AssetGrantItem and AssetConsumeItem, of the debugging protocol.
ChangeAsset(w, wish) ==
    /\ ValidItems(wish.items)
    /\ Begin(w, [IdleTask EXCEPT !.pc = "read", !.op = "asset",
                     !.change = IF wish.sign > 0 THEN Merged(wish.items)
                                ELSE Less(Merged(wish.items))])
    /\ UNCHANGED <<tables, clock>>

\* SettleLevel of a won level whose orders have earned these rewards.
BeginSettle(w, rewards) ==
    /\ Begin(w, [IdleTask EXCEPT !.pc = "read", !.op = "settle", !.wish = rewards])
    /\ UNCHANGED <<tables, clock>>

\* getOrCreateWorkshop: the row that is there wins.
OpenedAt == IF lastPaid = NoRow THEN clock ELSE lastPaid

OpenWorkshop ==
    /\ lastPaid' = OpenedAt
    /\ history' = IF lastPaid = NoRow THEN [history EXCEPT !.opened = clock] ELSE history

GetOverview(w) ==
    /\ task[w].pc = "idle"
    /\ OpenWorkshop
    /\ UNCHANGED <<balance, logged, level, deck, clears, clock, task, begun>>

ClaimOfflineReward(w) ==
    /\ Begin(w, [IdleTask EXCEPT !.pc = "open", !.op = "claim"])
    /\ UNCHANGED <<tables, clock>>

Open(w) ==
    /\ task[w].pc = "open"
    /\ OpenWorkshop
    /\ task' = [task EXCEPT ![w].pc = "preview", ![w].from = OpenedAt]
    /\ UNCHANGED <<balance, logged, level, deck, clears, clock, begun>>

\* effectiveOfflineSeconds
EffectiveOffline(absence) ==
    IF absence < MinOffline THEN 0
    ELSE IF absence > MaxOffline THEN MaxOffline ELSE absence

\* The level of a player is 1 for good.
OfflineReward(seconds) ==
    [NoChange EXCEPT ![Gold] = (GoldPerHour * seconds) \div Hour,
                     ![Material] = (MaterialPerHour * seconds) \div Hour]

\* buildOfflineRewardPreview
Preview(w) ==
    LET seconds == EffectiveOffline(clock - task[w].from)
    IN
    /\ task[w].pc = "preview"
    /\ task' = [task EXCEPT ![w].pc = "read", ![w].absence = seconds,
                            ![w].change = OfflineReward(seconds)]
    /\ UNCHANGED <<tables, clock, begun, history>>

-----------------------------------------------------------------------------
(* Transactions. *)

\* Mutant of ReadCard: the price of the level the card has.
ReadCardOfSameLevel(w) ==
    LET c == task[w].on
        costs == IF level[c] > 1 THEN Prices[c][level[c]] ELSE <<>>
    IN
    /\ task[w].pc = "read" /\ task[w].op = "card"
    /\ IF level[c] # NoRow /\ level[c] < MaxLevel[c]
       THEN Snapshot(w, level[c], Less(Merged(costs)))
       ELSE Return(w)
    /\ UNCHANGED <<tables, clock, begun, history>>

\* The transaction pays the price of the next level, if there is one.
ReadUpgrade(w, current) ==
    LET x == task[w].on
        costs == Prices[x][current + 1]
        change == Less(Merged(costs))
    IN IF current < MaxLevel[x] /\ ValidItems(costs) /\ Payable(change)
       THEN Snapshot(w, level[x], change)
       ELSE Return(w)

ReadCard(w) ==
    /\ task[w].pc = "read" /\ task[w].op = "card"
    /\ IF level[task[w].on] = NoRow
       THEN Return(w)
       ELSE ReadUpgrade(w, level[task[w].on])
    /\ UNCHANGED <<tables, clock, begun, history>>

\* GetFacilityInTx: a facility without a row has level 1.
FacilityLevel(f) == IF level[f] = NoRow THEN 1 ELSE level[f]

ReadFacility(w) ==
    /\ task[w].pc = "read" /\ task[w].op = "facility"
    /\ ReadUpgrade(w, FacilityLevel(task[w].on))
    /\ UNCHANGED <<tables, clock, begun, history>>

\* claimedAt is read from the clock here, after the preview was computed.  The
\* transaction of an absence that is too short changes nothing.
ReadClaim(w) ==
    /\ task[w].pc = "read" /\ task[w].op = "claim"
    /\ IF task[w].absence = 0
       THEN Return(w)
       ELSE task' = [task EXCEPT ![w].pc = "commit", ![w].until = clock,
                         ![w].base = [a \in Asset |->
                             IF task[w].change[a] = 0 THEN 0 ELSE balance[a]]]
    /\ UNCHANGED <<tables, clock, begun, history>>

ReadAsset(w) ==
    /\ task[w].pc = "read" /\ task[w].op = "asset"
    /\ IF Payable(task[w].change)
       THEN Snapshot(w, 0, task[w].change)
       ELSE Return(w)
    /\ UNCHANGED <<tables, clock, begun, history>>

\* buildSettleRewards
SettleRewards(w) ==
    task[w].wish \o (IF clears = NoRow THEN FirstClearRewards ELSE RepeatRewards)

ReadSettle(w) ==
    /\ task[w].pc = "read" /\ task[w].op = "settle"
    /\ IF SettleRewards(w) = <<>> \/ ValidItems(SettleRewards(w))
       THEN Snapshot(w, clears, Merged(SettleRewards(w)))
       ELSE Return(w)
    /\ UNCHANGED <<tables, clock, begun, history>>

\* Mutant of Conflict: rows are inserted or replaced.
NoConflict(w) == FALSE

\* An INSERT of a row that another transaction has inserted meanwhile fails.
Conflict(w) ==
    LET t == task[w]
    IN
    \/ \E a \in Asset : t.change[a] # 0 /\ t.base[a] = NoRow /\ balance[a] # NoRow
    \/ t.op = "facility" /\ t.seen = NoRow /\ level[t.on] # NoRow
    \/ t.op = "settle" /\ t.seen = NoRow /\ clears # NoRow

\* Mutant of NextPaid: a claim does not move the time.
PaidAgain(t) == lastPaid

NextPaid(t) == IF t.op = "claim" THEN t.until ELSE lastPaid

\* CreateFacilityInTx with the level it is raised to, or UpdateFacilityInTx.
RaisedFacility(t) == IF t.seen = NoRow THEN 2 ELSE t.seen + 1

\* UpdateCardInTx
RaisedCard(t) == t.seen + 1

NextLevel(t) ==
    CASE t.op = "card" -> [level EXCEPT ![t.on] = RaisedCard(t)]
      [] t.op = "facility" -> [level EXCEPT ![t.on] = RaisedFacility(t)]
      [] OTHER -> level

NextClears(t) == IF t.op = "settle" THEN OrZero(t.seen) + 1 ELSE clears

\* insertAssetLog, once for every change of a balance.
NextLogged(t) == [a \in Asset |-> logged[a] + t.change[a]]

\* The writes of the transaction: values computed from what it has read.
Write(w) ==
    LET t == task[w]
    IN
    /\ task[w].pc = "commit"
    /\ ~ Conflict(w)
    /\ balance' = [a \in Asset |->
           IF t.change[a] = 0 THEN balance[a] ELSE OrZero(t.base[a]) + t.change[a]]
    /\ logged' = NextLogged(t)
    /\ level' = NextLevel(t)
    /\ lastPaid' = NextPaid(t)
    /\ clears' = NextClears(t)
    /\ history' = [history EXCEPT
           !.absence = @ + t.absence,
           !.firsts = IF t.op = "settle" /\ t.seen = NoRow THEN @ + 1 ELSE @,
           !.earned = IF t.op \in {"card", "facility"} THEN @
                      ELSE [a \in Asset |-> @[a] + t.change[a]]]
    /\ UNCHANGED <<deck, clock, begun>>

\* The command ends; a settlement also changes the runtime, see Gameplay.
Commit(w) == task[w].op # "settle" /\ Write(w) /\ Return(w)

\* A statement or the COMMIT fails and the transaction is rolled back.
RollBack(w) ==
    /\ task[w].pc = "commit"
    /\ Return(w)
    /\ UNCHANGED <<tables, clock, begun, history>>

\* validateOwnedCards
Deckable(cards) ==
    /\ \A c \in Range(cards) : c \in CardID /\ level[c] # NoRow
    /\ IsInjective(cards)

\* One INSERT or UPDATE after the check; cards are never taken away.
Save(w) ==
    /\ task[w].pc = "save"
    /\ deck' = IF Deckable(task[w].wish) THEN task[w].wish ELSE deck
    /\ Return(w)
    /\ UNCHANGED <<balance, logged, level, lastPaid, clears, clock, begun, history>>

-----------------------------------------------------------------------------

\* MaxClock bounds the time.
Tick ==
    /\ clock < MaxClock
    /\ clock' = clock + 1
    /\ UNCHANGED <<tables, task, begun, history>>

Continue(w) ==
    \/ Open(w) \/ Preview(w) \/ Save(w)
    \/ ReadCard(w) \/ ReadFacility(w) \/ ReadClaim(w) \/ ReadAsset(w) \/ ReadSettle(w)
    \/ Commit(w) \/ RollBack(w)

Command(w) ==
    \/ GetCards(w) \/ GetOverview(w) \/ ClaimOfflineReward(w)
    \/ \E c \in CardID : UpgradeCard(w, c)
    \/ \E f \in Facility : UpgradeFacility(w, f)
    \/ \E cards \in DeckWish : SaveDeck(w, cards)
    \/ \E wish \in AssetWish : ChangeAsset(w, wish)

EconomyNext == Tick \/ \E w \in Worker : Command(w) \/ Continue(w)

-----------------------------------------------------------------------------
(* Properties. *)

\* What it costs of item a to raise x from level 1 to level l, for every l.
CostUpTo(x, a) ==
    LET cost[l \in 1 .. MaxLevel[x]] ==
            IF l = 1 THEN 0 ELSE cost[l - 1] + Merged(Prices[x][l])[a]
    IN  cost

\* The sum of what a function gives for the cards and facilities.
Total(f) ==
    LET all == SetToSeq(Upgradable)
        sum[n \in 0 .. Cardinality(Upgradable)] ==
            IF n = 0 THEN 0 ELSE sum[n - 1] + f[all[n]]
    IN  sum[Cardinality(Upgradable)]

\* What the cards and facilities of the player have cost, item by item.
Spent(a) ==
    Total([x \in Upgradable |-> IF level[x] = NoRow THEN 0 ELSE CostUpTo(x, a)[level[x]]])

\* Price, level and log are one transaction, also when it fails or creates its
\* rows: nothing is upgraded for free however two servers interleave, and as
\* long as they do not, nothing is paid twice and "all changes are written to
\* the log", which explains every balance.
LevelsArePaid ==
    \A a \in Asset :
        /\ history.earned[a] - logged[a] >= Spent(a)
        /\ ~ history.overlap =>
               /\ history.earned[a] - logged[a] = Spent(a)
               /\ Held(a) = OrZero(Start[a]) + logged[a]

\* No second of absence is paid for twice, although the time that is paid, the
\* time it is computed and the time that is stored are three different reads.
AbsencePaidOnce ==
    history.overlap \/ history.absence <= OrZero(lastPaid) - OrZero(history.opened)

\* The reward of the first clear is granted once, even when two servers settle
\* at once or an answer is lost: it hangs on a row that can be inserted once.
FirstClearOnce == history.firsts <= 1
=============================================================================
