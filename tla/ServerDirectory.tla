--------------------------- MODULE ServerDirectory ---------------------------
(***************************************************************************)
(* How a player who has logged in is given a game server.  Every game      *)
(* server reports its load to Redis: its id in an index, and a hash that   *)
(* expires unless it is reported again in time.  The login server reads    *)
(* the index, reads the hash of every id in it, removes from the index     *)
(* the ids whose hash it did not find, and allocates a server: the one     *)
(* where the player was, or else the less loaded of two that depend on     *)
(* the player.                                                             *)
(*                                                                         *)
(* Each command of Redis is a step.  A report may be lost, and a command   *)
(* whose sender waits no longer, because of a timeout, a stop or a crash,  *)
(* may still arrive, even after the server has started again.  Where the   *)
(* player was is what the ownership of players says, here any server; the  *)
(* load is what the gateway counts, here any number.                       *)
(***************************************************************************)
EXTENDS Integers, FiniteSets

CONSTANTS Server,    \* server ids: numbers, in the order of the strings
          Login,     \* concurrent calls of Enter
          None,
          Load,      \* values of Online that are reported
          MaxOnline, \* MaxOnline[s]: the limit of server s; none if it is not positive
          Hash       \* pairs of hashes of a player

ASSUME DirectoryAssumption ==
    /\ Server \subseteq Nat /\ IsFiniteSet(Server) /\ Load \subseteq Nat
    /\ MaxOnline \in [Server -> Int] /\ Hash \subseteq Nat \X Nat

VARIABLES
    phase,   \* phase[s]: is the server "down", "starting" or "up"?
    report,  \* report[s]: a report of s is on its way to Redis
    late,    \* late[s]: commands of s still to arrive that nobody waits for any
             \* more; several of a kind count as one
    missed,  \* missed[s]: a report has been lost since the last that arrived
    index,   \* Redis: the ids of the servers
    node,    \* Redis: node[s]: the hash of s, or None
    call     \* call[l]: where Enter has got to, and its answer

vars == <<phase, report, late, missed, index, node, call>>

NodeInfo(s) == [online : Load, max : {MaxOnline[s]}, drain : BOOLEAN]

Idle == [pc |-> "idle", server |-> None, back |-> FALSE]

Init ==
    /\ phase = [s \in Server |-> "down"]
    /\ report = [s \in Server |-> FALSE]
    /\ late = [s \in Server |-> {}]
    /\ missed = [s \in Server |-> FALSE]
    /\ index = {} /\ node = [s \in Server |-> None]
    /\ call = [l \in Login |-> Idle]

-----------------------------------------------------------------------------
(* Game servers. *)

\* Start listens and then reports; the heartbeat begins when that succeeded.
Start(s) ==
    /\ phase[s] = "down"
    /\ phase' = [phase EXCEPT ![s] = "starting"]
    /\ report' = [report EXCEPT ![s] = TRUE]
    /\ UNCHANGED <<late, missed, index, node, call>>

Heartbeat(s) ==
    /\ phase[s] = "up" /\ ~ report[s]
    /\ report' = [report EXCEPT ![s] = TRUE]
    /\ UNCHANGED <<phase, late, missed, index, node, call>>

\* Mutant of IndexWith: the id is only added together with a new hash.
IndexOfNew(s) == IF node[s] = None THEN index \cup {s} ELSE index

IndexWith(s) == index \cup {s}

\* SADD, HSET and EXPIRE, in one transaction of Redis.  The load is the one of
\* the moment when the report was sent.
UpsertNode(s) ==
    /\ index' = IndexWith(s)
    /\ \E n \in NodeInfo(s) : node' = [node EXCEPT ![s] = n]

ReportArrives(s) ==
    /\ report[s]
    /\ UpsertNode(s)
    /\ report' = [report EXCEPT ![s] = FALSE]
    /\ missed' = [missed EXCEPT ![s] = FALSE]
    /\ phase' = [phase EXCEPT ![s] = IF @ = "starting" THEN "up" ELSE @]
    /\ UNCHANGED <<late, call>>

\* Nobody waits for these commands of s any more: each may still arrive.
Abandon(s, sent) ==
    /\ report' = [report EXCEPT ![s] = FALSE]
    /\ \E l \in SUBSET sent : late' = [late EXCEPT ![s] = @ \cup l]

Waiting(s) == IF report[s] THEN {"report"} ELSE {}

\* The call fails or times out.  The heartbeat logs the error and goes on;
\* Start gives up.
LoseReport(s) ==
    /\ report[s]
    /\ Abandon(s, {"report"})
    /\ missed' = [missed EXCEPT ![s] = TRUE]
    /\ phase' = [phase EXCEPT ![s] = IF @ = "starting" THEN "down" ELSE @]
    /\ UNCHANGED <<index, node, call>>

\* DEL and SREM, in one transaction of Redis.
RemoveNode(s) ==
    /\ index' = index \ {s}
    /\ node' = [node EXCEPT ![s] = None]

\* Stop ends the heartbeat, whose call is cancelled, before it removes the
\* node, which may fail or time out.
Stop(s) ==
    /\ phase[s] = "up"
    /\ phase' = [phase EXCEPT ![s] = "down"]
    /\ \/ RemoveNode(s) /\ Abandon(s, Waiting(s))
       \/ UNCHANGED <<index, node>> /\ Abandon(s, Waiting(s) \cup {"removal"})
    /\ UNCHANGED <<missed, call>>

Crash(s) ==
    /\ phase[s] # "down"
    /\ phase' = [phase EXCEPT ![s] = "down"]
    /\ Abandon(s, Waiting(s))
    /\ UNCHANGED <<missed, index, node, call>>

LateCommandArrives(s) ==
    /\ \E cmd \in late[s] :
           /\ late' = [late EXCEPT ![s] = @ \ {cmd}]
           /\ \/ cmd = "report" /\ UpsertNode(s)
              \/ cmd = "removal" /\ RemoveNode(s)
    /\ UNCHANGED <<phase, report, missed, call>>

\* Mutant of Expires: the hash is written without EXPIRE.
NeverExpires(s) == FALSE

\* The heartbeat is more frequent than the TTL: a hash expires when its server
\* is down or a report was lost.
Expires(s) == node[s] # None /\ (phase[s] # "up" \/ missed[s])

Expire(s) ==
    /\ Expires(s)
    /\ node' = [node EXCEPT ![s] = None]
    /\ UNCHANGED <<phase, report, late, missed, index, call>>

-----------------------------------------------------------------------------
(* Allocation of a server, from the nodes that were read. *)

Available(n) == ~ n.drain /\ (n.max <= 0 \/ n.online < n.max)

AvailableOf(nodes) == {s \in DOMAIN nodes : Available(nodes[s])}

\* loadRatio, as a fraction.
Numerator(n) == IF n.max <= 0 THEN 0 ELSE n.online
Denominator(n) == IF n.max <= 0 THEN 1 ELSE n.max

LessLoad(m, n) ==
    LET a == Numerator(m) * Denominator(n)
        b == Numerator(n) * Denominator(m)
    IN a < b \/ (a = b /\ m.online < n.online)

\* Mutant of SecondOffset: the second choice may be the first.
OffsetFromZero(hash, count) == hash % count

SecondOffset(hash, count) == 1 + (hash % (count - 1))

\* The k-th server in the order of the ids, from 0.
Ranked(servers, k) == CHOOSE s \in servers : Cardinality({t \in servers : t < s}) = k

PickLoadAwareNode(nodes, hash) ==
    LET available == AvailableOf(nodes)
        count == Cardinality(available)
        offset == SecondOffset(hash[2], count)
        first == Ranked(available, hash[1] % count)
        second == Ranked(available, ((hash[1] % count) + offset) % count)
    IN IF count = 1 THEN Ranked(available, 0)
       ELSE IF LessLoad(nodes[second], nodes[first]) THEN second ELSE first

Allocate(nodes, last, hash) ==
    IF last \in AvailableOf(nodes) THEN last
    ELSE IF AvailableOf(nodes) = {} THEN None
    ELSE PickLoadAwareNode(nodes, hash)

-----------------------------------------------------------------------------
(* Enter on the login server. *)

\* SMEMBERS
ListIds(l) ==
    /\ call[l].pc = "idle"
    /\ call' = [call EXCEPT ![l] = [pc |-> "load", ids |-> index]]
    /\ UNCHANGED <<phase, report, late, missed, index, node>>

\* HGETALL of every id.
LoadNodes(l) ==
    /\ call[l].pc = "load"
    /\ LET found == {s \in call[l].ids : node[s] # None}
       IN call' = [call EXCEPT ![l] = [pc |-> "sweep", stale |-> call[l].ids \ found,
                                       nodes |-> [s \in found |-> node[s]]]]
    /\ UNCHANGED <<phase, report, late, missed, index, node>>

\* SREM of the ids without a hash.  The rest reads where the player was,
\* allocates and signs a ticket; LastServer of the service is nil.
Enter(l) ==
    /\ call[l].pc = "sweep"
    /\ index' = index \ call[l].stale
    /\ \E last \in Server \cup {None}, hash \in Hash :
           LET server == Allocate(call[l].nodes, last, hash)
           IN call' = [call EXCEPT ![l] =
                  [pc |-> "idle", server |-> server, back |-> server = last]]
    /\ UNCHANGED <<phase, report, late, missed, node>>

Next ==
    \/ \E s \in Server :
           \/ Start(s) \/ Heartbeat(s) \/ ReportArrives(s) \/ LoseReport(s)
           \/ Stop(s) \/ Crash(s) \/ LateCommandArrives(s) \/ Expire(s)
    \/ \E l \in Login : ListIds(l) \/ LoadNodes(l) \/ Enter(l)

\* The heartbeat's ticker goes on, Redis answers or the call times out, and
\* expires hashes; a late command arrives some time; Enter runs to its end.
Fairness ==
    /\ \A s \in Server :
           /\ WF_vars(Heartbeat(s)) /\ WF_vars(Expire(s))
           /\ WF_vars(ReportArrives(s) \/ LoseReport(s))
           /\ WF_vars(LateCommandArrives(s))
    /\ \A l \in Login : WF_vars(LoadNodes(l)) /\ WF_vars(Enter(l))

Spec == Init /\ [][Next]_vars /\ Fairness

-----------------------------------------------------------------------------
(* Properties. *)

\* A player who is sent to a busy server was there before, or another server
\* that could take him was no less busy, as far as the login server could read:
\* two choices never end at the busiest of several.
NotToTheBusiest ==
    [][\A l \in Login : Enter(l) =>
          LET nodes == call[l].nodes
              server == call'[l].server
          IN Cardinality(AvailableOf(nodes)) > 1 /\ ~ call'[l].back =>
                 \E s \in AvailableOf(nodes) \ {server} : ~ LessLoad(nodes[s], nodes[server])
      ]_call

\* A login that found the hash of a server missing may remove the server from
\* the index after the server has come back, and so may the removal that a
\* stop sent before the restart.  If its reports arrive from then on, it is in
\* the index again, and stays there.
RunningServersAreListed ==
    \A s \in Server :
        <>[](phase[s] = "up" /\ ~ missed[s]) => <>[](s \in index /\ node[s] # None)

\* A server that is gone is forgotten, although Stop could not remove it, or
\* a late report of it arrived afterwards.
DeadServersVanish ==
    \A s \in Server : <>[](phase[s] = "down") => <>[](node[s] = None)
=============================================================================
