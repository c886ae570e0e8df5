----------------------------- MODULE PlayerOwner -----------------------------
(***************************************************************************)
(* One player's connections across the game servers: the local session     *)
(* map and client registry of every server, the shared Redis record that   *)
(* says which server owns a player, the kick notices servers send each     *)
(* other, the reconciler that every server runs every few seconds, and     *)
(* what a server keeps of a player between commands: the battle runtime    *)
(* and the cached results, written by commands that outlast the ownership  *)
(* they began under.                                                       *)
(*                                                                         *)
(* A member of Conn is one authenticated websocket (connIDs are fresh      *)
(* UUIDs, so a connection is never reused).  NodeOf and UidOf say where    *)
(* and as whom it logs in: quantifying over them is quantifying over what  *)
(* clients may do.  phase[c] is the program counter of the goroutine of c. *)
(***************************************************************************)
EXTENDS Naturals, FiniteSets

CONSTANTS Node, Uid, Conn, None, NodeOf, UidOf,
          Operated,  \* the servers whose players operators kick
          Playing    \* the connections that send commands

ASSUME NoneFresh == None \notin Node \cup Uid \cup Conn
ASSUME ConnTyped == NodeOf \in [Conn -> Node] /\ UidOf \in [Conn -> Uid]
ASSUME FaultsTyped == Operated \subseteq Node /\ Playing \subseteq Conn

VARIABLES
    phase,     \* phase[c]: where the handler of c stands
    oldConn,   \* oldConn[c]: local variable oldConnID of authenticate
    previous,  \* previous[c]: the owner that the Claim of c replaced
    sessions,  \* sessions[n][u]: MemoryManager.items of n
    clients,   \* clients[n]: ws.Server.clients of n
    closing,   \* the connections that have been told to close
    runtime,   \* runtime[n][u]: the era of n's battle runtime of u, or "none"
    results,   \* results[n][u]: the oldest era of n's cached results of u
    command,   \* command[c]: the command the read loop of c is executing
    owner,     \* owner[u]: the Redis hash player_owner:{uid}
    notices,   \* kick notices published and not yet delivered
    rec        \* rec[n]: the reconciler goroutine of n

\* What the commands of players leave on a server, and the commands.
playVars == <<runtime, results, command>>

vars == <<phase, oldConn, previous, sessions, clients, closing, playVars,
          owner, notices, rec>>

LoginPhases == {"bound", "claimed", "claimFailed", "owned", "registered"}
Phases == {"idle"} \cup LoginPhases \cup {"live", "unbound", "offlining", "gone"}

OwnerRecord == [server: Node, conn: Conn, ttl: {"owner", "offline"}]
NoOwner == [server |-> None, conn |-> None, ttl |-> "none"]
Notice == [server: Node, uid: Uid, conn: Conn]

\* Begun while this server owned the player, or outlived by a claim of another
\* server (nothing in the program records the difference).
Era == {"fresh", "stale"}

\* A command is idle, in its handler, or between the handler's return and Put.
Command == [pc: {"idle", "handler", "put"}, era: Era \cup {"none"}]
IdleCommand == [pc |-> "idle", era |-> "none"]

Reconciler == [pc: {"idle", "scanned", "fetched"}, uids: SUBSET Uid,
               active: SUBSET Uid, drop: SUBSET Uid, refresh: SUBSET Uid]
IdleReconciler == [pc |-> "idle", uids |-> {}, active |-> {}, drop |-> {},
                   refresh |-> {}]

TypeOK ==
    /\ phase \in [Conn -> Phases]
    /\ oldConn \in [Conn -> Conn \cup {None}]
    /\ previous \in [Conn -> OwnerRecord \cup {NoOwner}]
    /\ sessions \in [Node -> [Uid -> Conn \cup {None}]]
    /\ clients \in [Node -> SUBSET Conn]
    /\ closing \subseteq Conn
    /\ runtime \in [Node -> [Uid -> Era \cup {"none"}]]
    /\ results \in [Node -> [Uid -> Era \cup {"none"}]]
    /\ command \in [Conn -> Command]
    /\ owner \in [Uid -> OwnerRecord \cup {NoOwner}]
    /\ notices \subseteq Notice
    /\ rec \in [Node -> Reconciler]

Init ==
    /\ phase = [c \in Conn |-> "idle"]
    /\ oldConn = [c \in Conn |-> None]
    /\ previous = [c \in Conn |-> NoOwner]
    /\ sessions = [n \in Node |-> [u \in Uid |-> None]]
    /\ clients = [n \in Node |-> {}]
    /\ closing = {}
    /\ runtime = [n \in Node |-> [u \in Uid |-> "none"]]
    /\ results = [n \in Node |-> [u \in Uid |-> "none"]]
    /\ command = [c \in Conn |-> IdleCommand]
    /\ owner = [u \in Uid |-> NoOwner]
    /\ notices = {}
    /\ rec = [n \in Node |-> IdleReconciler]

-----------------------------------------------------------------------------
(* Helpers. *)

\* The connection the session map of c's server holds for c's player.
Session(c) == sessions[NodeOf[c]][UidOf[c]]

SamePlace(c, d) == NodeOf[c] = NodeOf[d] /\ UidOf[c] = UidOf[d]

\* MemoryManager.Unbind: only the entry that is still c's own goes.
Unbind(c) ==
    sessions' = IF Session(c) = c
                THEN [sessions EXCEPT ![NodeOf[c]][UidOf[c]] = None]
                ELSE sessions

\* kickClient: a connection the registry of n does not hold is not told
\* anything.  Close happens at once or 50 ms later; both are CloseSocket.
KickClient(n, x) == closing' = closing \cup ({x} \cap clients[n])

\* Mutant of KickUID: the player is looked up but nobody is kicked.
KickNobody(n, u) == UNCHANGED closing

\* KickUID: only the connection that the session map names can be kicked.
KickUID(n, u) ==
    IF sessions[n][u] # None
    THEN KickClient(n, sessions[n][u])
    ELSE UNCHANGED closing

\* The claim of another server ends the era in which a thing was begun.
Outlived(era) == IF era = "fresh" THEN "stale" ELSE era

EraEnds(u, n) ==
    /\ runtime' = [m \in Node |->
                     IF m # n THEN [runtime[m] EXCEPT ![u] = Outlived(@)]
                              ELSE runtime[m]]
    /\ results' = [m \in Node |->
                     IF m # n THEN [results[m] EXCEPT ![u] = Outlived(@)]
                              ELSE results[m]]
    /\ command' = [c \in Conn |->
                     IF NodeOf[c] # n /\ UidOf[c] = u
                     THEN [command[c] EXCEPT !.era = Outlived(@)]
                     ELSE command[c]]

\* DeletePlayerRuntime and CommandCache.Delete.  They are two calls; a store
\* between them is one that comes after both, followed or not by a Put.
DeleteLocalState(n, u) ==
    /\ runtime' = [runtime EXCEPT ![n][u] = "none"]
    /\ results' = [results EXCEPT ![n][u] = "none"]
    /\ UNCHANGED command

-----------------------------------------------------------------------------
(* Login: ws.Server.authenticate and the OnSessionBound callback. *)

\* BindWithinLimit replaces the session and remembers the one it replaced.
Bind(c) ==
    /\ phase[c] = "idle"
    /\ phase' = [phase EXCEPT ![c] = "bound"]
    /\ oldConn' = [oldConn EXCEPT ![c] = Session(c)]
    /\ sessions' = [sessions EXCEPT ![NodeOf[c]][UidOf[c]] = c]
    /\ UNCHANGED <<previous, clients, closing, playVars, owner, notices, rec>>

\* The Lua script: overwrite the record, return the one that was there.
ApplyClaim(c) ==
    /\ owner' = [owner EXCEPT ![UidOf[c]] =
                    [server |-> NodeOf[c], conn |-> c, ttl |-> "owner"]]
    /\ EraEnds(UidOf[c], NodeOf[c])

Claim(c) ==
    /\ phase[c] = "bound"
    /\ phase' = [phase EXCEPT ![c] = "claimed"]
    /\ previous' = [previous EXCEPT ![c] = owner[UidOf[c]]]
    /\ ApplyClaim(c)
    /\ UNCHANGED <<oldConn, sessions, clients, closing, notices, rec>>

\* Redis is unreachable and the claim was not applied.
ClaimFails(c) ==
    /\ phase[c] = "bound"
    /\ phase' = [phase EXCEPT ![c] = "claimFailed"]
    /\ UNCHANGED <<oldConn, previous, sessions, clients, closing, playVars,
                   owner, notices, rec>>

\* The claim was applied but its reply is lost: the handler sees an error.
ClaimReplyLost(c) ==
    /\ phase[c] = "bound"
    /\ phase' = [phase EXCEPT ![c] = "claimFailed"]
    /\ ApplyClaim(c)
    /\ UNCHANGED <<oldConn, previous, sessions, clients, closing, notices, rec>>

\* Mutant of AbortLogin: the failed login leaves its session entry behind.
AbortLoginKeepsSession(c) ==
    /\ phase[c] = "claimFailed"
    /\ phase' = [phase EXCEPT ![c] = "gone"]
    /\ oldConn' = [oldConn EXCEPT ![c] = None]
    /\ UNCHANGED <<previous, sessions, clients, closing, playVars, owner,
                   notices, rec>>

\* authenticate gives up: Unbind, answer an error, close the socket.  The
\* connection that Bind replaced is neither restored nor kicked.
AbortLogin(c) ==
    /\ phase[c] = "claimFailed"
    /\ phase' = [phase EXCEPT ![c] = "gone"]
    /\ Unbind(c)
    /\ oldConn' = [oldConn EXCEPT ![c] = None]
    /\ UNCHANGED <<previous, clients, closing, playVars, owner, notices, rec>>

\* Mutants of DropsLocalState and Informs: an expired record is taken for
\* continuous ownership; a notice is published when there was no owner.
DropsOnlyForeignState(prev, n) == prev.server \notin {None, n}
InformsAnyPrevious(prev, n) == prev.server # n

\* Ownership was not continuous: another server's record, or none.
DropsLocalState(prev, n) == prev.server # n

\* Another server held the player and has a connection to close.
Informs(prev, n) == prev.server \notin {None, n}

\* The rest of OnSessionBound: local state survives only when the record the
\* claim replaced was this server's own (a running command is not waited for);
\* another server is told to kick the connection it named.  Publishing may
\* fail, which is only logged.
AdoptOwnership(c) ==
    LET n == NodeOf[c]
        u == UidOf[c]
        prev == previous[c]
    IN
    /\ phase[c] = "claimed"
    /\ phase' = [phase EXCEPT ![c] = "owned"]
    /\ IF DropsLocalState(prev, n)
       THEN DeleteLocalState(n, u)
       ELSE UNCHANGED playVars
    /\ \/ notices' = notices
       \/ /\ Informs(prev, n)
          /\ notices' = notices \cup
                 {[server |-> prev.server, uid |-> u, conn |-> prev.conn]}
    /\ previous' = [previous EXCEPT ![c] = NoOwner]
    /\ UNCHANGED <<oldConn, sessions, clients, closing, owner, rec>>

Register(c) ==
    /\ phase[c] = "owned"
    /\ phase' = [phase EXCEPT ![c] = "registered"]
    /\ clients' = [clients EXCEPT ![NodeOf[c]] = @ \cup {c}]
    /\ UNCHANGED <<oldConn, previous, sessions, closing, playVars, owner,
                   notices, rec>>

\* auth_ack is queued, then the replaced connection is kicked.
FinishLogin(c) ==
    /\ phase[c] = "registered"
    /\ phase' = [phase EXCEPT ![c] = "live"]
    /\ IF oldConn[c] # None
       THEN KickClient(NodeOf[c], oldConn[c])
       ELSE UNCHANGED closing
    /\ oldConn' = [oldConn EXCEPT ![c] = None]
    /\ UNCHANGED <<previous, sessions, clients, playVars, owner, notices, rec>>

\* A kick closed c before auth_ack could be queued: the login is undone, but
\* OnDisconnect does not run and the replaced connection is not kicked.
AckFails(c) ==
    /\ phase[c] = "registered"
    /\ c \in closing
    /\ phase' = [phase EXCEPT ![c] = "gone"]
    /\ clients' = [clients EXCEPT ![NodeOf[c]] = @ \ {c}]
    /\ Unbind(c)
    /\ oldConn' = [oldConn EXCEPT ![c] = None]
    /\ closing' = closing \ {c}
    /\ UNCHANGED <<previous, playVars, owner, notices, rec>>

-----------------------------------------------------------------------------
(* A live connection and its end: the read loop of handleWS and its defer. *)

\* Dispatcher.Handle under the player's shard mutex of this server.  Nobody
\* asks who owns the player, so a server that lost the player goes on.
BeginCommand(c) ==
    LET n == NodeOf[c]
        u == UidOf[c]
    IN
    /\ c \in Playing
    /\ phase[c] = "live"
    /\ \A d \in Conn : SamePlace(c, d) => command[d].pc = "idle"
    /\ command' = [command EXCEPT ![c] =
           [pc |-> "handler",
            era |-> IF owner[u].server \in {n, None} THEN "fresh" ELSE "stale"]]
    /\ UNCHANGED <<phase, oldConn, previous, sessions, clients, closing,
                   runtime, results, owner, notices, rec>>

\* The handler returns.  StartLevel has stored a new level, where there was
\* none or only an ended one; other commands store nothing of their own.
HandlerReturns(c) ==
    /\ command[c].pc = "handler"
    /\ command' = [command EXCEPT ![c].pc = "put"]
    /\ \/ runtime' = runtime
       \/ runtime' = [runtime EXCEPT ![NodeOf[c]][UidOf[c]] = command[c].era]
    /\ UNCHANGED <<phase, oldConn, previous, sessions, clients, closing,
                   results, owner, notices, rec>>

\* cache.Put after the handler, without another look at the owner.  Results of
\* an earlier era stay, or are pushed out of the few that are kept.
PutResult(c) ==
    /\ command[c].pc = "put"
    /\ command' = [command EXCEPT ![c] = IdleCommand]
    /\ \/ results' = [results EXCEPT ![NodeOf[c]][UidOf[c]] = command[c].era]
       \/ /\ results[NodeOf[c]][UidOf[c]] = "stale"
          /\ results' = results
    /\ UNCHANGED <<phase, oldConn, previous, sessions, clients, closing,
                   runtime, owner, notices, rec>>

\* Nothing is cached: the result was cached already, the handler refused or
\* failed, the result is too large, or the route caches none.
EndUncached(c) ==
    /\ command[c].pc # "idle"
    /\ command' = [command EXCEPT ![c] = IdleCommand]
    /\ UNCHANGED <<phase, oldConn, previous, sessions, clients, closing,
                   runtime, results, owner, notices, rec>>

\* Get or CleanupExpired finds the player's results older than their TTL.
ResultsExpire(n, u) ==
    /\ results[n][u] # "none"
    /\ results' = [results EXCEPT ![n][u] = "none"]
    /\ UNCHANGED <<phase, oldConn, previous, sessions, clients, closing,
                   runtime, command, owner, notices, rec>>

\* The read loop ends (client gone, pong timeout, or closed by a kick) and
\* the deferred function starts with Unbind.  The loop executes commands
\* itself: a kick does not end the one that is running.
Disconnect(c) ==
    /\ phase[c] = "live"
    /\ command[c].pc = "idle"
    /\ phase' = [phase EXCEPT ![c] = "unbound"]
    /\ Unbind(c)
    /\ UNCHANGED <<oldConn, previous, clients, closing, playVars, owner, notices,
                   rec>>

\* removeClient, then the first half of OnDisconnect: a newer session of the
\* player on this server makes the callback return.
LeaveClients(c) ==
    /\ phase[c] = "unbound"
    /\ clients' = [clients EXCEPT ![NodeOf[c]] = @ \ {c}]
    /\ phase' = [phase EXCEPT ![c] =
                    IF Session(c) \in {None, c} THEN "offlining" ELSE "gone"]
    /\ closing' = closing \ {c}
    /\ UNCHANGED <<oldConn, previous, sessions, playVars, owner,
                   notices, rec>>

\* Mutant of StillOwns: the script compares the server id only.
StillOwnsByServer(c) == owner[UidOf[c]].server = NodeOf[c]

\* The record names this server and this very connection.
StillOwns(c) ==
    /\ owner[UidOf[c]].server = NodeOf[c]
    /\ owner[UidOf[c]].conn = c

\* The second half: MarkOffline shortens the record only while it still names
\* this server and this connection.  A Redis error is only logged.
MarkOffline(c) ==
    /\ phase[c] = "offlining"
    /\ phase' = [phase EXCEPT ![c] = "gone"]
    /\ \/ owner' = owner
       \/ /\ StillOwns(c)
          /\ owner' = [owner EXCEPT ![UidOf[c]].ttl = "offline"]
    /\ UNCHANGED <<oldConn, previous, sessions, clients, closing, playVars,
                   notices, rec>>

-----------------------------------------------------------------------------
(* Redis: the record expires; notices are delivered at most once. *)

Expire(u) ==
    /\ owner[u] # NoOwner
    /\ owner' = [owner EXCEPT ![u] = NoOwner]
    /\ UNCHANGED <<phase, oldConn, previous, sessions, clients, closing,
                   playVars, notices, rec>>

\* Mutant of KickConnection: kick whatever connection the player has now.
KickCurrent(m) == KickUID(m.server, m.uid)

\* Uid and connection must both match a registered client.
KickConnection(m) ==
    IF UidOf[m.conn] = m.uid
    THEN KickClient(m.server, m.conn)
    ELSE UNCHANGED closing

DeliverNotice(m) ==
    /\ m \in notices
    /\ notices' = notices \ {m}
    /\ KickConnection(m)
    /\ UNCHANGED <<phase, oldConn, previous, sessions, clients, playVars, owner,
                   rec>>

LoseNotice(m) ==
    /\ m \in notices
    /\ notices' = notices \ {m}
    /\ UNCHANGED <<phase, oldConn, previous, sessions, clients, closing,
                   playVars, owner, rec>>

\* The two other targets the subscriber knows, sent by operators: the player's
\* current connection on this server, or every connection it has.
OperatorKicksPlayer(n, u) ==
    /\ KickUID(n, u)
    /\ UNCHANGED <<phase, oldConn, previous, sessions, clients, playVars, owner,
                   notices, rec>>

OperatorKicksAll(n) ==
    /\ closing' = closing \cup clients[n]
    /\ UNCHANGED <<phase, oldConn, previous, sessions, clients, playVars, owner,
                   notices, rec>>

-----------------------------------------------------------------------------
(* playerOwnerReconciler.ReconcileOwners, one round at a time. *)

\* localUIDs: everybody with a session or a battle runtime here.  A player of
\* whom only cached results are left is not looked at.
Scan(n) ==
    LET online == {u \in Uid : sessions[n][u] # None}
        local == online \cup {u \in Uid : runtime[n][u] # "none"}
    IN
    /\ rec[n].pc = "idle"
    /\ local # {}
    /\ rec' = [rec EXCEPT ![n] = [IdleReconciler EXCEPT !.pc = "scanned",
                                    !.uids = local, !.active = online]]
    /\ UNCHANGED <<phase, oldConn, previous, sessions, clients, closing,
                   playVars, owner, notices>>

\* What is left of a round; with nothing left, it is over.
Remaining(drop, refresh) ==
    IF drop \cup refresh = {}
    THEN IdleReconciler
    ELSE [IdleReconciler EXCEPT !.pc = "fetched", !.drop = drop,
                                !.refresh = refresh]

\* GetOwners answers; what follows is decided from this answer alone.
FetchOwners(n) ==
    LET r == rec[n]
        missing == {u \in r.uids : owner[u] = NoOwner}
        foreign == {u \in r.uids \ missing : owner[u].server # n}
        drop == foreign \cup (missing \ r.active)
        refresh == r.active \ (missing \cup foreign)
    IN
    /\ r.pc = "scanned"
    /\ rec' = [rec EXCEPT ![n] = Remaining(drop, refresh)]
    /\ UNCHANGED <<phase, oldConn, previous, sessions, clients, closing,
                   playVars, owner, notices>>

\* GetOwners fails: the round ends and nothing local is deleted.
FetchFails(n) ==
    /\ rec[n].pc = "scanned"
    /\ rec' = [rec EXCEPT ![n] = IdleReconciler]
    /\ UNCHANGED <<phase, oldConn, previous, sessions, clients, closing,
                   playVars, owner, notices>>

\* removePlayerRuntime: kick whatever session the map holds now, then delete
\* the battle runtime and the cached results.
RemovePlayerRuntime(n, u) ==
    /\ rec[n].pc = "fetched"
    /\ u \in rec[n].drop
    /\ rec' = [rec EXCEPT ![n] = Remaining(rec[n].drop \ {u}, rec[n].refresh)]
    /\ KickUID(n, u)
    /\ DeleteLocalState(n, u)
    /\ UNCHANGED <<phase, oldConn, previous, sessions, clients, owner, notices>>

\* RefreshOwned, guarded in Redis by the server id; it may fail.
RefreshOwned(n) ==
    /\ rec[n].pc = "fetched"
    /\ rec[n].drop = {}
    /\ \/ owner' = owner
       \/ owner' = [u \in Uid |->
                      IF u \in rec[n].refresh /\ owner[u].server = n
                      THEN [owner[u] EXCEPT !.ttl = "owner"]
                      ELSE owner[u]]
    /\ rec' = [rec EXCEPT ![n] = IdleReconciler]
    /\ UNCHANGED <<phase, oldConn, previous, sessions, clients, closing,
                   playVars, notices>>

-----------------------------------------------------------------------------
(* A server process dies and restarts under the same server id. *)

Crash(n) ==
    LET lost == {c \in Conn : NodeOf[c] = n /\ phase[c] \notin {"idle", "gone"}}
    IN
    /\ lost # {}
    /\ phase' = [c \in Conn |-> IF c \in lost THEN "gone" ELSE phase[c]]
    /\ oldConn' = [c \in Conn |-> IF c \in lost THEN None ELSE oldConn[c]]
    /\ previous' = [c \in Conn |-> IF c \in lost THEN NoOwner ELSE previous[c]]
    /\ sessions' = [sessions EXCEPT ![n] = [u \in Uid |-> None]]
    /\ clients' = [clients EXCEPT ![n] = {}]
    /\ runtime' = [runtime EXCEPT ![n] = [u \in Uid |-> "none"]]
    /\ results' = [results EXCEPT ![n] = [u \in Uid |-> "none"]]
    /\ command' = [c \in Conn |-> IF c \in lost THEN IdleCommand ELSE command[c]]
    /\ rec' = [rec EXCEPT ![n] = IdleReconciler]
    /\ notices' = {m \in notices : m.server # n}
    /\ closing' = closing \ lost
    /\ UNCHANGED owner

-----------------------------------------------------------------------------

HandlerStep(c) ==
    \/ Claim(c) \/ ClaimFails(c) \/ ClaimReplyLost(c) \/ AbortLogin(c)
    \/ AdoptOwnership(c) \/ Register(c) \/ FinishLogin(c) \/ AckFails(c)
    \/ LeaveClients(c) \/ MarkOffline(c)

CommandStep(c) == HandlerReturns(c) \/ PutResult(c) \/ EndUncached(c)

ConnNext(c) ==
    \/ Bind(c) \/ HandlerStep(c) \/ BeginCommand(c) \/ CommandStep(c)
    \/ Disconnect(c)

ReconcilerNext(n) ==
    \/ Scan(n) \/ FetchOwners(n) \/ FetchFails(n) \/ RefreshOwned(n)
    \/ \E u \in Uid : RemovePlayerRuntime(n, u)

Next ==
    \/ \E c \in Conn : ConnNext(c)
    \/ \E u \in Uid : Expire(u)
    \/ \E m \in notices : DeliverNotice(m) \/ LoseNotice(m)
    \/ \E n \in Node : \/ ReconcilerNext(n) \/ Crash(n)
                       \/ \E u \in Uid : ResultsExpire(n, u)
    \/ \E n \in Operated : \/ OperatorKicksAll(n)
                           \/ \E u \in Uid : OperatorKicksPlayer(n, u)

Spec == Init /\ [][Next]_vars

\* Goroutines that can run do run, commands end, a closed socket ends its read
\* loop (strongly fair: between two commands, at the latest when what it had
\* received is read), the maintainer's ticker keeps firing, and Redis answers
\* GetOwners now and then (strongly fair: a round may fail, not every round).
Fairness ==
    /\ \A c \in Conn : /\ WF_vars(HandlerStep(c)) /\ WF_vars(CommandStep(c))
                       /\ SF_vars(c \in closing /\ Disconnect(c))
    /\ \A n \in Node : /\ WF_vars(Scan(n))
                       /\ SF_vars(FetchOwners(n))
                       /\ WF_vars(RefreshOwned(n))
                       /\ \A u \in Uid : WF_vars(RemovePlayerRuntime(n, u))

FairSpec == Spec /\ Fairness
-----------------------------------------------------------------------------
(* Properties. *)

\* The session map of a server never names a dead connection, nor one of
\* another server or player: whatever way a login ends (claim refused, ack
\* refused, kick, crash), Unbind has removed exactly its own entry.
SessionsNameLiveHandlers ==
    \A n \in Node, u \in Uid : \A c \in Conn :
        sessions[n][u] = c =>
            /\ NodeOf[c] = n
            /\ UidOf[c] = u
            /\ phase[c] \in LoginPhases \cup {"live"}

\* A notice that is delayed, or overtaken by the player's return, never kicks
\* the connection that owns the player: KickConnection matches a connection
\* that some later claim has replaced (server.go, KickConnection).
KickNoticeSparesOwner ==
    [][\A m \in notices : m \notin notices' =>
          \A c \in closing' \ closing : owner[UidOf[c]].conn # c]_vars

\* The offline TTL is only ever put on a record whose connection is finished,
\* although the check of OnDisconnect and MarkOffline are separate steps and
\* the player may log in again between them.
OfflineMeansGone ==
    \A u \in Uid : owner[u].ttl = "offline" => phase[owner[u].conn] = "gone"

\* Server n owns the player and holds state begun before another server's
\* claim, and no login of the player there is between its Claim and the
\* deletion: that state would be taken up again (A -> B -> A).
TakesUpStaleState(n, u) ==
    /\ owner[u].server = n
    /\ "stale" \in {runtime[n][u], results[n][u]}
    /\ ~ \E c \in Conn : /\ NodeOf[c] = n /\ UidOf[c] = u
                         /\ phase[c] = "claimed"
                         /\ previous[c].server # n

\* A step of a command that began in an earlier ownership.
LateStore(c) == command[c].era = "stale" /\ command'[c] # command[c]

\* A login that claims the player for its server and does not learn of it.
UnansweredClaim(c) == phase[c] = "bound" /\ phase'[c] = "claimFailed"

\* However a player comes back to a server (over expired records, aborted
\* logins, stale reconciler rounds, crashes), what the server kept from an
\* earlier ownership is deleted.  Only two things get past the deletion: a
\* command of the earlier ownership that stores after it, and a claim whose
\* answer was lost, after which the next login finds its own server's record.
OnlyLateWorkIsTakenUp ==
    [][\A n \in Node, u \in Uid :
          TakesUpStaleState(n, u)' /\ ~ TakesUpStaleState(n, u)
              => \E c \in Conn : /\ NodeOf[c] = n /\ UidOf[c] = u
                                 /\ LateStore(c) \/ UnansweredClaim(c)]_vars

\* "When continuity of ownership cannot be shown, local battle state and
\* recent results are not reused, so that nothing out of date is restored
\* after A -> B -> A" (bootstrap.go:191): the connection that owns the player
\* finds nothing on its server from before another server's claim.
ReturningPlayersStartAfresh ==
    \A c \in Conn :
        LET n == NodeOf[c]
            u == UidOf[c]
        IN (phase[c] = "live" /\ owner[u].conn = c) =>
               "stale" \notin {runtime[n][u], results[n][u]}

\* "Single sign-on kicks the old connection": once no login of the player is
\* under way on a server, at most one of its connections there is live and
\* not told to close.
SingleSignOn ==
    \A c, d \in Conn :
        (/\ c # d /\ SamePlace(c, d)
         /\ phase[c] = "live" /\ phase[d] = "live"
         /\ {c, d} \cap closing = {})
        => \E e \in Conn : SamePlace(c, e) /\ phase[e] \in LoginPhases

\* Once a player stays with one server, every other server loses its session
\* for good and keeps deleting what runtime state it has, even if every kick
\* notice is lost: the reconciler is the backstop.
OldServersLetGo ==
    \A u \in Uid, m \in Node :
        <>[](owner[u].server = m) =>
            \A n \in Node \ {m} : /\ <>[](sessions[n][u] = None)
                                  /\ []<>(runtime[n][u] = "none")
=============================================================================
