---------------------------- MODULE CommandDispatch ----------------------------
(***************************************************************************)
(* The business commands of one player: handler.Dispatcher runs them one   *)
(* at a time on a server (the mutex of the player's shard), answers a      *)
(* retry from the CommandCache of that server, and otherwise executes a    *)
(* transaction that reads a balance, writes the new one as an absolute     *)
(* value and appends the change to asset_log.                              *)
(*                                                                         *)
(* A member of Conn is a connection slot on server On[c]: the goroutine    *)
(* that reads commands from one websocket and handles each to its end.     *)
(* Which server owns the player is decided when a connection logs in; an   *)
(* older connection on another server goes on until it is closed (see      *)
(* PlayerOwner for how that comes about), and the command it is handling   *)
(* at that moment runs to its end.                                         *)
(***************************************************************************)
EXTENDS Integers, Sequences, FiniteSets, SequencesExt

CONSTANTS Node, Conn, On, Command, None,
          ReqId,        \* ReqId[m]: the req_id of command m
          Delta,        \* Delta[m]: what command m adds to the balance
          CacheSize,    \* CommandCache.maxEntries
          Start,        \* the balance of a new player
          MaxBooked     \* bound: how many changes are committed

ASSUME NoneFresh == None \notin Node \cup Conn \cup Command
ASSUME ConnTyped == On \in [Conn -> Node]
ASSUME CommandTyped == DOMAIN ReqId = Command /\ Delta \in [Command -> Int]
ASSUME SizesTyped ==
    CacheSize \in Nat \ {0} /\ Start \in Nat /\ MaxBooked \in Nat

VARIABLES
    open,     \* the connections that are open
    owner,    \* the server that Redis records for the player
    task,     \* task[c]: the command connection c is handling
    shard,    \* shard[n]: the connection that holds the player's shard of n
    cache,    \* cache[n]: the commands whose results n keeps, oldest first
    gold,     \* players.gold
    booked,   \* asset_log: the changes, in the order of their commits
    overlap   \* have two servers ever executed commands at the same time?

vars == <<open, owner, task, shard, cache, gold, booked, overlap>>

\* balance is what the transaction has read.
Task == [pc: {"idle", "queued", "read", "write", "put"},
         command: Command \cup {None}, balance: Int]
NoTask == [pc |-> "idle", command |-> None, balance |-> 0]
Executing == {"read", "write", "put"}

TypeOK ==
    /\ open \subseteq Conn
    /\ owner \in Node \cup {None}
    /\ task \in [Conn -> Task]
    /\ shard \in [Node -> Conn \cup {None}]
    /\ \A n \in Node : shard[n] # None =>
           On[shard[n]] = n /\ task[shard[n]].pc \in Executing
    /\ DOMAIN cache = Node
    /\ \A n \in Node : cache[n] \in Seq(Command) /\ Len(cache[n]) <= CacheSize
    /\ gold \in Nat
    /\ booked \in Seq(Command)
    /\ overlap \in BOOLEAN

Init ==
    /\ open = {}
    /\ owner = None
    /\ task = [c \in Conn |-> NoTask]
    /\ shard = [n \in Node |-> None]
    /\ cache = [n \in Node |-> <<>>]
    /\ gold = Start
    /\ booked = <<>>
    /\ overlap = FALSE

-----------------------------------------------------------------------------
(* Connections and ownership. *)

\* Local results are kept only if the record still named this server.
Login(c) ==
    /\ c \notin open
    /\ task[c].pc = "idle"
    /\ open' = open \cup {c}
    /\ owner' = On[c]
    /\ cache' = IF owner = On[c] THEN cache ELSE [cache EXCEPT ![On[c]] = <<>>]
    /\ UNCHANGED <<task, shard, gold, booked, overlap>>

\* A kick or a disconnect: the read loop ends, a running command does not.
Close(c) ==
    /\ c \in open
    /\ open' = open \ {c}
    /\ UNCHANGED <<owner, task, shard, cache, gold, booked, overlap>>

\* The offline TTL of the record passes.
OwnerExpires ==
    /\ owner # None
    /\ owner' = None
    /\ UNCHANGED <<open, task, shard, cache, gold, booked, overlap>>

\* The reconciler of a server that is not the owner deletes its results; and
\* any server does when nothing was put for the TTL.  Neither takes the shard.
Forget(n) ==
    /\ cache[n] # <<>>
    /\ cache' = [cache EXCEPT ![n] = <<>>]
    /\ UNCHANGED <<open, owner, task, shard, gold, booked, overlap>>

\* The process dies: transactions are rolled back, memory is gone.
Crash(n) ==
    LET lost == {c \in Conn : On[c] = n}
    IN
    /\ lost \cap open # {}
    /\ open' = open \ lost
    /\ task' = [c \in Conn |-> IF c \in lost THEN NoTask ELSE task[c]]
    /\ shard' = [shard EXCEPT ![n] = None]
    /\ cache' = [cache EXCEPT ![n] = <<>>]
    /\ UNCHANGED <<owner, gold, booked, overlap>>

-----------------------------------------------------------------------------
(* Dispatcher.Handle. *)

Become(c, t) == task' = [task EXCEPT ![c] = t]

\* Answer the client and unlock the shard.
Return(c) ==
    /\ Become(c, NoTask)
    /\ shard' = [shard EXCEPT ![On[c]] = None]

\* A command is read from the socket; a client may send it again and again,
\* and use its req_id for another command.
Receive(c, m) ==
    /\ c \in open
    /\ task[c].pc = "idle"
    /\ Become(c, [NoTask EXCEPT !.pc = "queued", !.command = m])
    /\ UNCHANGED <<open, owner, shard, cache, gold, booked, overlap>>

\* Is there a result for the req_id?  If it is of another command the answer
\* is REQUEST_ID_CONFLICT, else the result: neither executes anything.
Known(n, m) == \E k \in Range(cache[n]) : ReqId[k] = ReqId[m]

OtherServerExecutes(n) ==
    \E c \in Conn : On[c] # n /\ task[c].pc \in Executing

\* Mutant of Execute: the command runs without the shard.
ExecuteAtOnce(c) ==
    LET n == On[c]
    IN
    /\ task[c].pc = "queued"
    /\ IF Known(n, task[c].command)
       THEN Become(c, NoTask) /\ UNCHANGED overlap
       ELSE /\ task' = [task EXCEPT ![c].pc = "read"]
            /\ overlap' = (overlap \/ OtherServerExecutes(n))
    /\ UNCHANGED <<open, owner, shard, cache, gold, booked>>

\* ShardExecutor.Submit: wait for the shard, then look into the cache.
Execute(c) ==
    LET n == On[c]
    IN
    /\ task[c].pc = "queued"
    /\ shard[n] = None
    /\ IF Known(n, task[c].command)
       THEN Become(c, NoTask) /\ UNCHANGED <<shard, overlap>>
       ELSE /\ task' = [task EXCEPT ![c].pc = "read"]
            /\ shard' = [shard EXCEPT ![n] = c]
            /\ overlap' = (overlap \/ OtherServerExecutes(n))
    /\ UNCHANGED <<open, owner, cache, gold, booked>>

\* GetPlayerAssetInTx reads without a lock; a negative balance is refused.
ReadBalance(c) ==
    /\ task[c].pc = "read"
    /\ IF gold + Delta[task[c].command] < 0
       THEN Return(c)
       ELSE /\ task' = [task EXCEPT ![c].pc = "write", ![c].balance = gold]
            /\ UNCHANGED shard
    /\ UNCHANGED <<open, owner, cache, gold, booked, overlap>>

\* SaveGoldInTx writes the balance computed from what was read.
NewBalance(c) == task[c].balance + Delta[task[c].command]

Book(c) ==
    /\ task[c].pc = "write"
    /\ Len(booked) < MaxBooked
    /\ gold' = NewBalance(c)
    /\ booked' = Append(booked, task[c].command)

Commit(c) ==
    /\ Book(c)
    /\ task' = [task EXCEPT ![c].pc = "put"]
    /\ UNCHANGED <<open, owner, shard, cache, overlap>>

\* COMMIT is not answered: the handler returns an error, nothing is cached.
CommitReplyLost(c) ==
    /\ Book(c)
    /\ Return(c)
    /\ UNCHANGED <<open, owner, cache, overlap>>

\* A statement fails: the transaction is rolled back.
Fail(c) ==
    /\ task[c].pc \in {"read", "write"}
    /\ Return(c)
    /\ UNCHANGED <<open, owner, cache, gold, booked, overlap>>

\* At most CacheSize results stay, the oldest goes.
Kept(results) ==
    IF Len(results) > CacheSize THEN Tail(results) ELSE results

\* CommandCache.Put, after the commit; too large a result is not kept.
Put(c) ==
    LET n == On[c]
    IN
    /\ task[c].pc = "put"
    /\ \/ cache' = [cache EXCEPT ![n] = Kept(Append(@, task[c].command))]
       \/ cache' = cache
    /\ Return(c)
    /\ UNCHANGED <<open, owner, gold, booked, overlap>>

-----------------------------------------------------------------------------

Handle(c) ==
    \/ Execute(c) \/ ReadBalance(c) \/ Commit(c) \/ CommitReplyLost(c)
    \/ Fail(c) \/ Put(c)

Next ==
    \/ \E c \in Conn : \/ Login(c) \/ Close(c) \/ Handle(c)
                       \/ \E m \in Command : Receive(c, m)
    \/ OwnerExpires
    \/ \E n \in Node : Forget(n) \/ Crash(n)

Spec == Init /\ [][Next]_vars

-----------------------------------------------------------------------------
(* Properties. *)

Sum(commands) ==
    LET total[n \in 0 .. Len(commands)] ==
            IF n = 0 THEN 0 ELSE total[n - 1] + Delta[commands[n]]
    IN  total[Len(commands)]

\* While a server keeps a result, no command with that req_id is executed
\* there: a retry that was queued behind the first attempt, or came over
\* another connection, finds the result instead.
KnownIsNotExecuted ==
    \A c \in Conn : task[c].pc \in Executing => ~ Known(On[c], task[c].command)

\* Two executions of the player never overlap on a server, whatever happens
\* to the connections they came from; so the balance is the sum of the log as
\* long as no other server executed at the same time.
BooksBalance == overlap \/ gold = Start + Sum(booked)
=============================================================================
