# cardgo-server in TLA+

Specifications, model-checking runs and proofs for the parts of cardgo-server
whose correctness depends on the order in which things happen: who owns a
player, which transaction sees which rows, which goroutine holds which lock.
Paths below are relative to the repository; `server.go` alone means
`src/internal/framework/gateway/ws/server.go`.

`tlc -workers 2 -config <cfg> <module>` runs a check, `tlapm <module>.tla`
checks the proofs.  PROJECT.json lists the runs, what each definition models
(file and lines), the hazards, and the theorems.

## 1. The system

cardgo-server is a card game backend: a LoginServer (HTTP) that authenticates
accounts and hands out a node and a ticket, and several GameServers
(websockets) over one MySQL database and one Redis.

| Component | State it keeps | Operations | Talks to |
|---|---|---|---|
| ws gateway (`framework/gateway/ws`) | sockets, `clients` by connection id, counters, per-connection send queue | accept, authenticate, read loop, kick by uid / connection / all, stop | session manager, ownership callbacks, dispatcher |
| session manager (`platform/session/manager.go`) | uid -> connection | BindWithinLimit, Unbind, GetByUID | gateway, reconciler |
| player ownership (`infra/redis/player_owner_store.go`, `app/gameserver/bootstrap.go`, `player_owner_reconciler.go`, `player_kick_bus.go`) | Redis hash `player_owner:{uid}` with a TTL; published notices | Claim, MarkOffline, RefreshOwned, GetOwners; publish, consume; one reconciliation round | gateway, battle runtime, command cache |
| command cache and dispatcher (`platform/session/command_cache.go`, `handler`, `framework/dispatcher`) | recent results by (uid, req_id); one mutex per shard | Handle, Get, Put, Delete, CleanupExpired | all services |
| battle (`gameplay/battle/service.go`) | one in-memory runtime per player, its lock and deleted flag | StartLevel, PlayCard, EndTurn, SettleLevel, DeletePlayerRuntime | level progress and assets in MySQL |
| guilds (`globalcore/guild_service.go`, `repo/guild_repo.go`) | tables guilds, guild_members, guild_applications | Create, ApplyJoin, ApproveJoin, Leave, queries | players rows as locks |
| friends, chat (`globalcore`) | friend relations (one row per pair), messages per channel | apply, approve, remove; send, history by pages | guild membership |
| assets, cards, workshop, players (`domain`, `gameplay`, `repo`) | gold and items, cards and deck, facilities, time of the last offline reward, level progress, asset log | consume, grant, upgrade card or facility, save deck, claim offline reward, settle | MySQL transactions |
| accounts (`platform/account`) | accounts and identities tables: one session token hash per account, a guest device | Register, bind, guest register, Login, Authenticate, Logout | MySQL |
| login (`platform/login`, `platform/auth`, `infra/redis/node_registry.go`) | node records with TTL and an index set; used nonces in memory | UpsertNode, ListNodes, Allocate, issue and verify a ticket | Redis |
| infrastructure (`infra`, `app`, `gamedata`, `contract`) | connections, metrics, static tables | start, stop, report | - |

What is hard in it:

- **Ownership** is spread over a local map, a client registry, an in-memory
  runtime, a Redis record and lossy notices, written by connection handlers, a
  subscriber and a periodic task on every server, none of which holds a lock
  across two of them.
- **Transactions** mix plain reads (a snapshot) with locking reads (the last
  committed row), so whether a check still holds at the write depends on the
  order of the statements.
- **Locks in memory**: a map lock and an object lock, where the object may have
  left the map while one waited for it.
- **Ambiguous outcomes**: a claim, or a COMMIT, that succeeded without its
  answer arriving.

Properties that make each part correct are stated at the end of its module; the
hazards they answer are in PROJECT.json.

## 2. Modules

Each module states its properties at its end.  Operators whose comment begins
with "Mutant of" are not used by the specifications: each is a plausible bug,
and PROJECT.json pairs it with the definition it would replace and with the
property that notices.  `MC*` modules only choose constants for TLC.

### PlayerOwner (with PlayerOwnerProofs): who owns a player

The servers' session maps, client registries, battle runtimes and cached
results, the commands that write the last two, the Redis owner record, the kick
notices, and the reconcilers, for any number of servers, players and connections.

| In the module | In the code |
|---|---|
| `phase`, `oldConn`, `previous` | program counter and locals of the connection's goroutine in `authenticate`, `OnSessionBound` and the deferred clean-up |
| `sessions`, `clients` | `MemoryManager.items`, `ws.Server.clients` |
| `owner`, `ApplyClaim`, `StillOwns` | hash `player_owner:{uid}` and the Lua scripts on it |
| `runtime`, `results` | `battle.Service.sessions` and `CommandCache.players`, by era: "fresh", or "stale" if it was begun before another server's claim (a ghost: nothing in the program records it). For results, the oldest era among those kept |
| `command`, `BeginCommand`, `HandlerReturns`, `PutResult`, `EndUncached` | a command in the read loop: the handler, which may store a new level (`storeSession`), and then, separately, `cache.Put` |
| `DeleteLocalState`, `ResultsExpire` | `DeletePlayerRuntime` with `CommandCache.Delete`; the results' TTL |
| `Bind`, `Claim`, `ClaimFails`, `ClaimReplyLost`, `AbortLogin`, `AdoptOwnership`, `Register`, `FinishLogin`, `AckFails` | a login, one action per step between which another goroutine can run |
| `Disconnect`, `LeaveClients`, `MarkOffline` | the end of `handleWS` and `OnDisconnect` |
| `DeliverNotice`, `LoseNotice`, `OperatorKicks...` | Redis pub/sub and the three kick targets |
| `Scan`, `FetchOwners`, `RemovePlayerRuntime`, `RefreshOwned` | one reconciliation round, over players with a session or a battle runtime; a player of whom only cached results are left is not looked at, as in the code, and leaves them to their TTL |
| `Expire`, `Crash` | the TTL; the loss of a process |

### Guild (with GuildProofs): transactions on guilds

One action per SQL statement that can wait or that reads what another
transaction may change; the writes, the commit and the release of the locks are
the last action of a transaction, because nobody sees them earlier.  `tx[w]` is
the transaction of a goroutine: what it was asked, how far it is, and what
`Leave` has read of its own membership.  `LockPlayer` takes the players rows in
uid order, `LockGuild` the guild row; `Create`, `ApplyJoin`, `ApproveJoin`,
`LeaveAsMember`, `TransferLeadership` and `Dissolve` are the ends of the four
commands, `Abort` any rollback.  Gap locks of InnoDB, which can make it abort a
transaction, are covered by `Abort` and not otherwise modelled.
**GuildMembership** is the abstract specification: players found, apply, join
and leave in one step each, and nobody is in a guild without having founded it
or applied to it.  Guild implements it with `guildOf` read off the roles and
rosters (`MembershipIsAtomic`), and Social takes its guilds from it.

### BattleRuntime (with BattleRuntimeProofs): one player's level in memory

`battle.Service` under `s.mu` (the map, `current`) and `rs.mu` (`holder`).
Sections under `s.mu` wait for nothing and are one action; a goroutine that
waits for `rs.mu` is at pc "lock" with the pointer it read.  `LookUp`,
`LockForStart`, `Insert` and `Swap` are `storeSession`; `Usable` is what
`lockSession` checks; `Settle` keeps `rs.mu` during its transaction, which ends
in `SettleCommits`, `SettleFails` or `SettleReplyLost`; `LockForDelete` and
`Remove` are `DeletePlayerRuntime`.  Here the rules of a level are abstracted to
which outcomes a card or the end of a turn may have.  **LevelLifecycle** says
what a client may rely on about a level, whatever the locks and whatever the
rules: BattleRuntime implements it, and so does Gameplay.

### Gameplay = LevelSession + PlayerEconomy (with GameplayProofs): what a player does

**LevelSession** has the rules of a level, one action per call as they run under
`rs.mu`: `StartLevel` deals the initial orders, `PlayCard` pays action points,
applies the card's effects (`ApplyEffect`, in order, on a copy) and completes
what has become ready, `EndTurn` counts turns and fails the level at the limit.
The loops of the code are recursive functions over their number of steps.
`CompleteReadyOrders` is `MaxPasses` passes over the orders, where the code makes
passes until one finds nothing: an order that is completed deals another one,
which may be ready at once.  That the bound is never what ends it is proved.

**PlayerEconomy** has the player's property in MySQL: balances of gold and
items, levels of cards and facilities, the deck, the time of the last offline
reward, the number of clears and the sum of the log.  A command of a worker is
a task with the copies it has made: what it does before its transaction
(`UpgradeCard`, `SaveDeck`, `ClaimOfflineReward` with `Open` and `Preview`, ...),
the reads (`ReadCard`, `ReadFacility`, `ReadClaim`, `ReadAsset`, `ReadSettle`),
and the end (`Commit` writes absolute values, `RollBack` nothing).  An insert
that meets a row inserted meanwhile cannot commit (`Conflict`).  The code's
asset reads take no row lock, and neither do these.

**Gameplay** joins them: `Settle` starts the transaction with the rewards of the
completed orders while the level is locked, `CommitSettle` ends it with or
without an answer.  One worker is the server the player is on, where a level
only moves between commands; the others are servers the player was on before or
moves to, whose commands may still run (`overlap` remembers that they did).

### Social (with SocialProofs): friends and chat

The one row of two players in friend_relations, chat messages, and lists read
page by page.  `FriendApply` and `FriendRemove` are one statement that decides;
`BeginApprove` reads FOR UPDATE and `Approve` writes; `BeginSend` resolves the
channel from the sender's membership and `Send` inserts later.  Guilds move by
GuildMembership, and `GuildDissolve` deletes the channel's history in the same
transaction.  `FirstPage` and `MorePages` read pages by cursor while all of this
goes on.

### ServerDirectory (proofs in AccountServiceProofs): which server a login is sent to

Game servers start, report, stop and crash; Redis holds the index and the hash
of each with its TTL; `ListIds`, `LoadNodes` and `Enter` are the three trips of
one login, the last of which sweeps the index and allocates by
`PickLoadAwareNode`; `Ranked` is the order by id that it sorts into.  Reports are
lost, and a report or a removal for which nobody waits any more (`Abandon`: its
call timed out, or its server stopped or crashed) may arrive at any later time
(`LateCommandArrives`), also while the server is starting again or up.

### Gateway (with GatewayProofs): one server's connections

| In the module | In the code |
|---|---|
| `connections`, `Accept`, `Refuse`, `Leave` | the slot counter and its deferred release |
| `Begin`, `Upgrade`, `AddSocket`, `ReadFirst`, `Verify`, `CheckDrain`, `Enter` | `handleWS` and `authenticate`, one action between two points where another goroutine can run |
| `nonces`, `NonceTTL`, `Accepted` | `MemoryNonceStore` and `Verifier.Verify` |
| `sent`, `Answer`, `AnswerNotQueued`, `Pump` | the send queue, `enqueueEnvelope`, the write pump |
| `Kick`, `CloseKicked`, `CloseClients` | the kick entry points and `Client.Close` |
| `BeginStop`, `RefuseHandlers`, `Sweep` | `Stop` up to its wait for the handlers |

### AccountService (with AccountServiceProofs): accounts and sessions

`account.Service` on the tables accounts and account_identities.  A request
looks an account up with a plain read (`BeginGuestLogin`, `BeginPasswordLogin`,
`FindGuest`), waits for its row (`LockAccount`), and then decides and writes
back the copy it has read (`ReuseGuest`, `Bind`, `OpenSession`, `Authenticate`,
`Logout`; `CreateGuest` and `Register` insert).  `Retry` is the second
iteration of `registerDevice`.  A token is the number of its issue, so that
"newer" can be said; `issued` and `told` are ghosts.  Wrong passwords, wrong
tokens and the column device_id change nothing that the properties speak of.

### CommandDispatch (with CommandDispatchProofs): one player's commands

`handler.Dispatcher` with the shard mutex, the command cache, and the reads and
absolute writes of a balance, over several servers.  `Execute` waits for the
shard and asks the cache, `ReadBalance`, `Commit`, `CommitReplyLost` and `Fail`
are the transaction, `Put` keeps the result.  Ownership is reduced to what
matters here: `Login` sets the record and clears the cache unless the record
named this server; connections elsewhere stay open until `Close`.  `Forget`,
which deletes results without the shard, is expiry or the reconciler.

### How they fit together

- ServerDirectory sends a player to a server, Gateway lets the connection in
  with the ticket, PlayerOwner settles on which server the player is, and
  CommandDispatch executes the commands that Gateway reads.
- PlayerOwner shows that two servers can serve one player for a while.
  CommandDispatch and PlayerEconomy take this as given, and say what holds then
  and what only holds without it.
- BattleRuntime takes deletions at any moment as given, which are the ones that
  PlayerOwner's `AdoptOwnership` and `RemovePlayerRuntime` make.  BattleRuntime
  (locks, few rules) and Gameplay (rules, a lock held by construction) are two
  views of one service; what they agree on is LevelLifecycle, which both
  implement.
- Guild implements GuildMembership, on which Social is built.
- AccountService depends on the database alone.

## 3. Runs

| Run | Asks | Result |
|---|---|---|
| owner_safety | Do session maps, owner record, kicks and left-over state stay consistent over three overlapping logins, late commands, failed and unanswered claims, lost notices, expiry and crashes? | holds |
| owner_live | Does the old server let a player go even if every notice is lost? | holds |
| guild_safety | Do applications, the owner column and the roles agree in every interleaving, is there never a circle of waiting transactions, and is each command one step of GuildMembership? | holds |
| guild_leaderless | Has every guild a leader? | violated |
| battle_safety | Is a runtime that was deleted or is over never changed, is an unfinished one never displaced, does every level follow LevelLifecycle, and does every call return? | holds |
| account_safety | Is an account open to its device or to one name, and is a revoked token dead for good? | holds |
| dispatch_safety | Does a server never execute what it has a result for, and is the balance the sum of its log unless two servers executed at once? | holds |
| gameplay | Do the rules of a level add up, is a reward granted only for what was won and again only after a lost answer, and is every upgrade, absence and first clear paid once, across two servers? | holds |
| gameplay_granted_once | Is a level in memory granted once? | violated |
| social | Are friends only who both wanted it, does a dissolved guild's channel only get what was being sent when it was dissolved, and do pages tell every row once? | holds |
| directory | Are running servers found and dead ones forgotten, and does the choice of two avoid the busiest? | holds |
| gateway | Does every slot come back, is a ticket used once, is no answer skipped, and does every handler end after Stop? | holds |

What the violated runs show (`findings` in PROJECT.json quotes the lines):

- *guild_leaderless*: `Leave` reads its role before it locks the guild.  If the
  leader leaves in between, the successor goes as an ordinary member.
- *gameplay_granted_once*: a COMMIT of a settlement that is not answered leaves
  `settleResult` empty, and the retry grants the rewards of the level again, all
  but those of the first clear.  The comment of `SettleLevel` (`service.go:229`)
  and `docs/design/inventory_asset_design.md:479` say that a session grants once.

Three more claims of the repository that the code does not keep.  Their
configurations are not in the list of runs; each makes TLC print the trace in
seconds:

- `SingleSignOn` (`tlc -config MCPlayerOwnerSignOn.cfg MCPlayerOwner`): of two
  overlapping logins on one server, the newer wants to kick a connection that is
  not in `clients` yet (`server.go:491`, `534-539`).  The older becomes live and is
  in no session map, so later kicks do not find it either.
  `backend_technical_architecture.md:234` has single sign-on kick the old connection.
- `ReturningPlayersStartAfresh` (`MCPlayerOwnerReturn.cfg`): a command of the first
  visit is still running when the player is back; what it stores comes after the
  deletion in `OnSessionBound`, because neither `storeSession` nor `cache.Put`
  (`dispatcher.go:83`) asks who owns the player.  A claim that is applied without
  an answer has the same effect: the callback returns at `bootstrap.go:188` before
  the deletion, and the next login finds its own server as the previous owner.
  The comment at `bootstrap.go:191` rules such a restoration out.
- `DissolvedGuildsLeaveNoHistory` (`MCSocialHistory.cfg`): a send looks its guild up
  (`chat_service.go:45`), the guild is dissolved with its messages, and then the
  message is inserted (`chat_service.go:49`) and stays.
  `docs/design/social_chat_guild_design.md:68` and `social_service_test.go:161-164`
  expect no history.

The claims on rewards, returns and histories each have a counterpart that holds and
says how far the damage goes.  `GrantsAreWon`: what is granted was won, what is settled was
granted, and a level is granted once more only for an answer that was lost.
`OnlyLateWorkIsTakenUp`: state of an earlier visit is taken up only through a
command of that visit that stores late, or a claim whose answer was lost; expired
records, aborted logins, stale rounds of the reconciler and crashes do not lead
there.  `DissolvedGuildsFallSilent`: the dissolution empties the channel, nobody
begins to send to it afterwards, and each later message uses up one send that was
running then, so that the channel receives nothing any more once those are over.

Properties that hold only under a condition name it, and the condition is a
limit of the code that a reader should know:

- Two servers that execute for one player at once write absolute balances and
  one update is lost (`BooksBalance`, the equations of `LevelsArePaid` and
  `AbsencePaidOnce` exclude that).
- An operator who switches drain mode off while the server stops lets
  connections in again, behind the sweep (`HandlersEnd` excludes it).
- A restarted server has forgotten which tickets were used (`TicketAdmitsOnce`
  speaks of the life of a process).
- A cursor does not say of which guild's messages it is: a player who changes
  guild between two pages is told the wrong rest (`PagesTellAllOnce` excludes it).
- A resource becomes negative by an order that lists it twice, or by a card that
  gives a negative amount, and by nothing else (`NegativeOnlyByRepetition`); the
  data's validation allows both.

## 4. Bounds

| Run | Instance | Why it is enough |
|---|---|---|
| owner_safety | 1 player, servers A and B, connections A, B, A; the two on A send commands | players share no state but `OperatorKicksAll`; A, B, A is the shortest return to a server and gives two overlapping logins on one, with commands before and after it. What B keeps is never returned to here. `OneRound`: the reconcilers' rounds on A and B do not overlap each other; each works on its own server's state, and each still overlaps with everything else. The proofs cover every instance, overlapping rounds included |
| owner_live | 2 connections, operators on both servers, the one on A sends commands | one move from server to server; every run of such moves ends with a last one |
| guild_safety, guild_leaderless | 3 players, 2 guilds, 2 transactions | a leader, a successor and an applicant; an application elsewhere; a row lock conflict is between two transactions. A guild id is not used again after it is dissolved (ids are unique in the code), which bounds the histories |
| battle_safety | 3 runtimes, 2 goroutines, LostReplies = 1 | the runtime looked up, the one that displaced it, and the next; one operation and one that overtakes it. Each runtime is used once |
| account_safety | 2 accounts, 1 device, 2 names, 2 requests, MaxTokens = 3 | an account that is released by a device and the one made next; two names for one account; a token, one that replaces it and one more. Proved for every instance |
| dispatch_safety | 2 servers, connections A, A, B, commands with a shared req_id, CacheSize = 1, MaxBooked = 2 | the second command evicts the first; the third comes from another server |
| gameplay, gameplay_granted_once | a level of 2 turns and 2 orders that one card a turn can just win, MaxSessions = 2, 2 workers, MaxCommands = 2, MaxClock = 3, LostReplies = 1 | the last order is completed by the last card and draws one that is ready at once; a requirement is listed twice; a level is started over the other; two commands race, or one follows the other; an absence is below, at and above its limits; prices with one, two and no items |
| social | 3 players, 1 guild, 2 workers, PageSize = 1, MaxRows = 3 | a pair and a third; approve and a race with it; three pages of one row, with rows added and deleted between them |
| directory | 2 servers with limits 2 and 3, load 1, 1 login, 2 pairs of hashes | either server first and second, the one or the other drained, none; a sweep against a server that comes back; a late report and a late removal of each server. Logins only meet in the index, which the other servers' steps change as well; several late commands of a kind count as one. Other loads, equal ratios and more candidates are left to the proof |
| gateway | 2 connections, 1 ticket, MaxConnections = 2, SendQueueSize = 1, MaxRequests = 2, MaxTime = 2 | the ticket is used twice, before, at and after its expiry; the second answer finds the queue full; a connection is registered before and after the sweep. Two connections never meet the refusal at MaxConnections = 2, and a queue of one cannot be reordered: `SlotsStayHeld` and `AnswersInOrder` prove both for every size |

The named bounds in guards are `MaxTokens` (OpenSession), `MaxBooked` (Book),
`LostReplies` (SettleReplyLost, CommitSettle), `MaxSessions` (StartLevel),
`MaxCommands` (Begin of PlayerEconomy), `MaxClock` (Tick), `MaxRows` (inserts of
Social), `MaxRequests` (Receive) and `MaxTime` (Tick of Gateway); the number of
connections, runtimes and guild ids bounds the rest, as each is used once.
Symmetry is only used where no liveness property or refinement needs the values
apart, and only on values the specification does not distinguish: connections on
one server, players and guilds of Social, guild ids, workers, accounts and names.
The runs of PlayerOwner, Social, Gateway and Gameplay do not check deadlock:
their commands or connections are used up at a bound and the system is quiescent.

## 5. Fairness

- PlayerOwner: weak fairness of every handler step and of a command that runs;
  strong fairness of the end of a read loop whose socket is closed (the loop may
  first execute what it has received, but not for ever); weak fairness of each
  step of the reconciler (a ticker runs it
  for the life of the process); strong fairness of `FetchOwners`, that is,
  Redis answers GetOwners again and again though not each time.  Nothing is
  assumed of logins, notices, claims or refreshes.
- BattleRuntime: strong fairness of each goroutine's own steps.  A Go mutex
  switches to first-in-first-out when a waiter starves, and a transaction ends
  in a commit or an error.  New calls are not fair.
- Gateway: weak fairness of every handler, of the write pump and of the steps of
  Stop; and of the read error, but only for a socket that the server has closed:
  a client need not ever hang up.
- ServerDirectory: weak fairness of the heartbeat's ticker, of a report's end
  (it arrives or is given up, which is a choice and may be always the latter), of
  a late command that is going to arrive, of Redis expiring what it may, and of a
  login that has begun.  Nothing is assumed of
  starts, stops, crashes and new logins.
- Guild has no liveness property: its statements wait only for row locks, and
  `NoCircularWait` says that among the waiting transactions there is always one
  that waits for none of them.
- The other modules have safety properties only.

## 6. Proofs

TLAPS proves the theorems below for every value of the constants.  All
assumptions are the ASSUMEs of the modules they are about: None is a fresh
value, the uids of Guild are numbers and finitely many, the connections are typed, expiry times and bounds are natural numbers, limits are
positive, cards and facilities are finitely many, and the game data is what
`game_data_validate.go` accepts (`LevelData`, `AssetData`, `RewardData`).  The
assumption of an instantiated module is no fact for the prover, so the theorems
about ServerDirectory have it as their hypothesis, `ServersAreNumbered`.
Every leaf is also proved within a tenth of the usual time (`tlapm --stretch 0.1`),
so that the proofs do not depend on a fast machine.

**PlayerOwnerProofs.**

| Theorem | Statement |
|---|---|
| `Typing` | `Spec => []TypeOK` |
| `SessionsAlive` | `Spec => []SessionsNameLiveHandlers` |
| `OfflineIsGone` | `Spec => []OfflineMeansGone` |
| `NoticeSparesOwner` | `Spec => KickNoticeSparesOwner` |
| `StaleStateDropped` | `Spec => OnlyLateWorkIsTakenUp` |

`SessionsNameLiveHandlers` and `OfflineMeansGone` are inductive given the types
(the second uses the first: `MarkOffline` only happens past the end of its
connection's handler).  `KickNoticeSparesOwner` is an action property and needs
history: a notice names a connection that a later claim has replaced.  `KickInv`
says so in three parts: a record names a connection past its claim
(`OwnersClaimed`); a connection kept in `previous` is no longer the owner and,
being past its claim, will not be again (`PreviousReplaced`); and so is any
named by a notice (`NoticesReplaced`).  `OnlyLateWorkIsTakenUp` is shown step by
step from the types alone: it names what each kind of step can do to the owner, the
eras and the login that is about to delete.

**GuildProofs.**

| Theorem | Statement |
|---|---|
| `Invariance` | `Spec => []GuildInv` |
| `Typing` | `Spec => []TypeOK` |
| `Pending` | `Spec => []ApplicationsArePending` |
| `OwnerLeads` | `Spec => []LeaderIsOwner` |
| `NoDeadlock` | `Spec => []NoCircularWait` |
| `ImplementsMembership` | `Spec => MembershipIsAtomic` |

`GuildInv` has three parts beside the types.  `LocksInv`: by how far it is, a
transaction has locked exactly the players it is about, in uid order, and then
the guild.  `TablesInv`: roles and rosters name the same members, a player is in
one guild, members and applications are of open guilds.  `ChecksInv`: what a
transaction has read is still so when it writes.  For a leaver that is less than
one would think: a member is still a member, a leader still the leader, but a
member may have become the leader meanwhile, which is what *guild_leaderless*
runs into; `LeaderIsOwner` survives it.  `NoDeadlock` does not go step by step:
of the transactions that wait for players take the one that waits for the
greatest uid.  Whoever holds that row has locked it, so waits for a greater one,
or for the guild, and whoever holds a guild waits for nothing.  For the
refinement, each end of a transaction is shown to change `guildOf` as the
abstract action does, from the rosters before and after (`RemoveTheOne`: a roster
without repetitions loses its member and closes the gap).

**BattleRuntimeProofs.**

| Theorem | Statement |
|---|---|
| `Invariance` | `Spec => []RuntimeInv` |
| `Typing` | `Spec => []TypeOK` |
| `DeletedIsGone` | `Spec => []DeletedMeansGone` |
| `StartSpares` | `Spec => StartSparesUnfinishedLevel` |
| `OverStaysOver` | `Spec => OverIsOver` |
| `ImplementsLifecycle` | `Spec => LevelsRunTheirCourse` |

A goroutine waits for `rs.mu` with a pointer it has read long ago.  `RuntimeInv`
says what it can rely on: the runtime is in the map or its deleted flag is set
(`PointersKnown`), what it has checked under the lock stays so (`LockHeld`), and
the runtime it is about to store is known to nobody else (`StartsFresh`,
`StartsApart`).  `Effects` then lists the ways in which a step can change the map
and the levels, and the action properties and the refinement follow from it.

**CommandDispatchProofs.**

| Theorem | Statement |
|---|---|
| `Invariance` | `Spec => []DispatchInv` |
| `Typing` | `Spec => []TypeOK` |
| `KnownIsAnswered` | `Spec => []KnownIsNotExecuted` |
| `BooksAreBalanced` | `Spec => []BooksBalance` |

`ShardHeld`: the shard's mutex names the connection that executes, so there is
one on a server, and one at all while `overlap` is false (`OneServer`); then what
its transaction has read is still the balance (`BalanceStands`).  The balance is
compared with a sum over the log, a recursive function: that it exists, is the
only one and grows by the change of the command that is appended
(`TotalExists`, `TotalsAgree`, `SumOfAppend`) is shown by induction.

**GameplayProofs.**

| Theorem | Statement |
|---|---|
| `Invariance` | `Spec => []GameplayInv` |
| `CompletionIsExhaustive` | `Spec => []NoReadyOrderWaits` |
| `OrdersAgree` | `Spec => []OrdersAddUp` |
| `OnlyRepetitionOverdraws` | `Spec => []NegativeOnlyByRepetition` |
| `AbsenceIsPaidOnce` | `Spec => []AbsencePaidOnce` |
| `FirstClearIsRewardedOnce` | `Spec => []FirstClearOnce` |
| `GrantsWereWon` | `Spec => []GrantsAreWon` |
| `LevelsWerePaid` | `Spec => []LevelsArePaid` |
| `Typing` | `Spec => []TypeOK` |
| `ImplementsLifecycle` | `Spec => LevelsRunTheirCourse` |

Half of this module is about the loops in the rules of a level: what consuming a
price, applying the effects of a card, a pass over the orders, all passes and the
dealing of the first orders keep (`ConsumeCovered`, `CardCovered`, `Advanced`),
each by induction over its steps.  `CompletionEnds` is the one that counts: a
pass that finds something completes an order, the number dealt is known
(`Dealt`), so after `MaxPasses` there was one that found nothing.  `Sound`
collects what holds of a level after every command.  In the economy, each action
is of one of nine kinds, and the invariant is shown for the kinds: the row of the
level is there once its first clear has been rewarded, and as long as nobody
overlaps, the time a claim goes by is the one in the row (`ClaimsFollowTheRow`).
`GrantsKept` bounds the grants of a level by its stage and the lost answers; it needs that the level
whose settlement is being written may still be settled (`SettlingIsDue`), which is
what holding `rs.mu` is for.

That levels are paid is not inductive with the levels in the rows: two servers
that upgrade at once write absolute levels, so a level can fall, and what was paid
for the higher one must not be forgotten.  `Covers(top)` says it of some levels
`top` that no row and no copy in a transaction exceeds: what was spent is at least
the cost of all of them.  An upgrade raises `top` only if it writes a level above
it, and then it has paid that very step.  `CostOfGrows` brings the bound down from
`top` to the rows.  While nobody overlaps, `Balanced` has the equations.  The costs
are sums of sums of merged price lists, recursive functions again; each gets a
lemma on what one more step adds.  The types need that no card is taken away
(`Owns`), so that a deck stays one of cards that the player owns (`DeckOwned`).

**AccountServiceProofs.**

| Theorem | Statement |
|---|---|
| `Invariance` | `Spec => []Inv` |
| `Typing` | `Spec => []TypeOK` |
| `GuestsUnbound` | `Spec => []GuestsAreUnbound` |
| `NamesAreUnique` | `Spec => []OneIdentity` |
| `GuestsStay` | `Spec => []GuestsAreNotLost` |
| `RevokedForGood` | `Spec => RevokedStaysRevoked` |
| `DevicesOpenGuests` | `Spec => DeviceOpensOnlyGuests` |
| `BusiestIsSpared` | `Directory!Spec => Directory!NotToTheBusiest` |
| `AllocatesAvailable` | `Directory!Spec =>` a login gets an available server, or none if there is none |
| `DirectoryTyping` | `Directory!Spec => []DirectoryTypeOK` |

The properties are not inductive: that a logout writes back the guest device it
has read is only harmless if nobody has changed it since.  `Inv` adds that.
`CopyIsCurrent`: from the lock to the commit, a transaction's copy is the row,
for whoever writes a row has it locked (so two transactions never hold copies
of one row, `OneWriter`), except the inserts, which only touch accounts nobody
has found.  That takes `RequestsFound` (a request names an account that exists)
and `UnusedIsUnknown` (nothing names one that does not).  `TablesStep` and
`TokenStep` then say which steps change devices, identities and tokens at all,
and the theorems follow from these without looking at the actions again.

The other part of the login server is at the end of this module, `Directory ==
INSTANCE ServerDirectory`.  In a finite set of ids every rank below its size is
taken by exactly one id (`RankedType`), so both indices of
`pickLoadAwareNode` name available servers (`PickedIsAvailable`), and because the
second offset is from 1 to the size less 1, two different ones.  The less loaded
of two different servers is not the busiest of all (`PickedNode`), as no two
servers are each less loaded than the other.  `DirectoryInv` adds the
types of what a login has read, which is what it decides by.

**SocialProofs.**

| Theorem | Statement |
|---|---|
| `FriendsStayAgreed` | `Spec => []FriendsAgreed` |
| `DissolvedStaySilent` | `Spec => DissolvedGuildsFallSilent` |
| `PagesTellAll` | `Spec => []PagesTellAllOnce` |
| `MembersAreSettled` | `Spec => []MembersAndApplicants` |
| `Typing` | `Spec => []TypeOK` |

Friends: an approval is decided in one step and written in another;
`RequestOfOther` says what the row lock makes of that: as long as a worker is
about to approve, the row of the two players is a request of the other one.
Without a row there is nothing to lock, so a new row is only inserted while
nobody approves for that pair.

Guilds: members are in open guilds only (`MembersOfOpen`), so the senders of a
dissolved guild only become fewer, and a message takes the place of the worker
that stored it.  `MembersAndApplicants` is the rest of what GuildMembership
promises: a member waits for no answer, and applications are to open guilds.

Pages: a page ends with its cursor, and the rest of the list follows it
(`PageAndRest`, which needs that a finite list has a first and a last row, and
is the lemma the mutant with the cursor of the extra row breaks).  `CursorDivides`
says that of the whole list: told rows do not follow the cursor, and a row that
was there from the start is told or follows it.  What happens between two pages
only removes such rows, because new ones have new ids (`TablesKeep`).

**GatewayProofs.**

| Theorem | Statement |
|---|---|
| `SlotsStayHeld` | `Spec => []SlotsAreHeld` |
| `TicketsAdmitOnce` | `Spec => []TicketAdmitsOnce` |
| `AnswersInOrder` | `Spec => NoAnswerIsSkipped` |
| `LateSocketsAreTurnedAway` | `Spec => []SweptServeNobody` |
| `Typing` | `Spec => []TypeOK` |

Slots: the handlers that hold one are finitely many even if connections never
run out, and each step moves one handler and the counter together (`SlotInv`).
Tickets: `TicketInv` adds that a claim under verification was received not later
than now, and that an accepted ticket is remembered until it has expired.  The
lifetime of the nonce is computed from the earlier time and counted from the
later one, so it can only be too long.
Answers: the i-th frame of a queue is the i-th answer after the last one written,
less the kick if that is before it (`InOrder`); writing and appending keep this
(`PumpedInOrder`, `AppendedInOrder`).  It holds as long as the socket is open:
an answer that cannot be queued closes it, and a broken one is not written to.
That there is one kick at most takes `kicked`, and that a queue is empty when its
socket opens takes that only a client that has entered is sent anything.
Stop: `HandlersEnd` is liveness, but what could break it is a handler that serves
an open socket behind the sweep, and that there is none is safety.  Before the
sweep every handler past `AddSocket` has its socket where the sweep finds it
(`SocketsRegistered`); after it, one that comes late finds drain mode on
(`StopDrains`), unless an operator has switched it off.
Types: a queue is within `SendQueueSize` because an answer or a kick that finds it
full closes the socket instead.

## 7. Only model-checked, and not modelled

Only model-checked: the liveness properties, that is `OldServersLetGo`,
`CallsReturn`, `RunningServersAreListed`, `DeadServersVanish` and `HandlersEnd`.
Liveness under fairness and ENABLED are out of TLAPS's reach here; of
`HandlersEnd` the half that is safety is proved (`LateSocketsAreTurnedAway`).  Every
invariant, safety action property and refinement of a passing run is a theorem.  The violated
properties are of course not.

Induction with the library's theorems is out of reach as well, since they take an
operator as a parameter.  The proofs here
do it with sets instead (`SetInduction`: a set with 0 and the successor of every
member has every number, from the well-foundedness of <), which is enough for
recursive functions; no module uses a RECURSIVE operator.

What the proofs have changed: `NegativeOnlyByRepetition` used to say that only a
repeated requirement overdraws a resource, which TLC found true of its cards and
a proof cannot show, because the validation lets a card give a negative amount;
and the assumptions on the game data now say all that the validation ensures and
no more.

Not modelled, with the reason per component in PROJECT.json:

- rate limits (HTTP per minute, websocket gap between frames), the codec and the
  origin check: they refuse input before anything is changed;
- queries without effect: inventory, profile, guild search and application
  lists, web search;
- the idempotent creation of a player's profile: one INSERT that leaves a row
  alone that is there, by nobody's decision;
- wiring, HTTP plumbing, readiness, configuration, reading of the game data (what
  the validation guarantees is assumed as `LevelData`, `AssetData` and `RewardData`), metrics,
  logging, migrations, scripts and test utilities;
- libraries: MySQL, Redis, websockets and password hashing, of which the modules
  take what the code relies on (row locks, snapshots, atomic scripts, unique
  indexes, closed sockets that fail reads).

Simplifications worth knowing when reading a result:

- A server's clock exists in Gateway (tickets) and PlayerEconomy (absence) only.
  Elsewhere TTLs may run out at any moment, so nothing is concluded from a TTL
  being long enough; ServerDirectory assumes that the heartbeat is more frequent
  than the TTL.
- One player's cache and shard are modelled; a shard is shared with other
  players, who can only make it busy.
- In PlayerOwner, `DeletePlayerRuntime` and `CommandCache.Delete` are one step, a
  store between the two being one after both; why a connection is kicked is left
  out.  A command of the earlier visit is one that began before another server's
  claim, or while another server owned the player.
- Guild transactions wait for rows of players and guilds.  A wait for a row of
  guild_members or guild_applications, which two statements may also meet in, is
  not modelled: `NoCircularWait` speaks of players and guilds, and a circle
  through other rows, which InnoDB breaks by a rollback, is `Abort`.
- The limit on sessions and the size limit of a cached result refuse before
  anything is changed, or leave the result uncached, which `Put` may do.
- In AccountService a COMMIT is answered.  One that is not would only make a
  client ignorant of what happened, as if it had not read the answer.
- The level of a player never changes in the code, so the offline reward has one
  rate.  Levels won on another server are settled there in Gameplay, but played
  out of sight.
- The validation does not look at first-clear and repeat rewards.  `AssetData`
  allows any; a settlement that meets one it cannot grant fails (`ReadSettle`).

## 8. Plan

Done, in this order: PlayerOwner with its proofs, since everything else
presupposes who serves a player; Guild; BattleRuntime; AccountService with its
proofs; CommandDispatch; the abstract GuildMembership and LevelLifecycle;
LevelSession, PlayerEconomy and Gameplay; Social; ServerDirectory; Gateway.

Then the proofs of Guild and its refinement of GuildMembership, of BattleRuntime
and its refinement of LevelLifecycle, of CommandDispatch, of Gameplay and its
refinement of LevelLifecycle, of the rest of Social, of the order of answers in
Gateway, of the payment of levels, of the choice of a server, of the sweep of
Stop, and of the types of every module with a passing run of its own.

Next, proofs: only liveness is left, once the prover can reason about fairness.

Next, models: the profile of a player created by two first logins, and the
queries of guilds as pages like those of Social.
