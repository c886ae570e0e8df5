-------------------------------- MODULE Guild --------------------------------
(***************************************************************************)
(* The guild commands of globalcore.LocalGuildService on the shared MySQL  *)
(* tables.  Every command is one database transaction that runs in several *)
(* statements: lock the players' rows in uid order, lock the guild's row,  *)
(* read memberships, write.  A server runs one command of a player at a    *)
(* time, but commands of different players, and of one player on two       *)
(* servers, run together: a member of Worker is a goroutine of some        *)
(* server, and the row locks are all that orders them.                     *)
(*                                                                         *)
(* InnoDB, REPEATABLE READ: a plain SELECT reads the snapshot taken by the *)
(* first plain SELECT of the transaction; SELECT ... FOR UPDATE waits for  *)
(* the row and reads its last committed version.  Writes of a transaction  *)
(* become visible together when it commits, and its locks go then; here a  *)
(* transaction writes, commits and unlocks in its last action.             *)
(***************************************************************************)
EXTENDS Naturals, Sequences, FiniteSets, SequencesExt

CONSTANTS Uid, Guild, Worker, None

ASSUME UidOrdered == Uid \subseteq Nat /\ IsFiniteSet(Uid)
ASSUME NoneFresh == None \notin Uid \cup Guild \cup Worker

VARIABLES
    status,        \* status[g]: has the row of guild g been inserted, deleted?
    owner,         \* owner[g]: guilds.owner_uid
    roster,        \* roster[g]: guild_members of g in the order of joining
    role,          \* role[u]: guild_members.role of u
    applications,  \* guild_applications: pairs of a guild and a player
    playerLock,    \* playerLock[u]: the transaction that locks players row u
    guildLock,     \* guildLock[g]: the transaction that locks guilds row g
    tx             \* tx[w]: the transaction that worker w runs

tables == <<status, owner, roster, role, applications>>
locks == <<playerLock, guildLock>>
vars == <<tables, locks, tx>>

Op == {"create", "apply", "approve", "leave"}
Role == {"none", "leader", "member"}

\* role is what Leave read of its own membership, before it locks the guild.
Transaction == [pc: {"idle", "players", "read", "guild", "write"}, op: Op,
                uid: Uid \cup {None}, guild: Guild \cup {None},
                target: Uid \cup {None}, role: Role, toLock: SUBSET Uid]
NoTransaction == [pc |-> "idle", op |-> "create", uid |-> None, guild |-> None,
                  target |-> None, role |-> "none", toLock |-> {}]

TypeOK ==
    /\ status \in [Guild -> {"unused", "open", "dissolved"}]
    /\ owner \in [Guild -> Uid \cup {None}]
    /\ \A g \in Guild : roster[g] \in Seq(Uid) /\ IsInjective(roster[g])
    /\ DOMAIN roster = Guild
    /\ role \in [Uid -> Role]
    /\ applications \subseteq Guild \X Uid
    /\ playerLock \in [Uid -> Worker \cup {None}]
    /\ guildLock \in [Guild -> Worker \cup {None}]
    /\ tx \in [Worker -> Transaction]

Init ==
    /\ status = [g \in Guild |-> "unused"]
    /\ owner = [g \in Guild |-> None]
    /\ roster = [g \in Guild |-> <<>>]
    /\ role = [u \in Uid |-> "none"]
    /\ applications = {}
    /\ playerLock = [u \in Uid |-> None]
    /\ guildLock = [g \in Guild |-> None]
    /\ tx = [w \in Worker |-> NoTransaction]

-----------------------------------------------------------------------------
(* Helpers. *)

Members(g) == Range(roster[g])
GuildOf(u) == CHOOSE g \in Guild : u \in Members(g)
ApplicationsOf(u) == Guild \X {u}

\* Commit or roll back: the transaction is over and its row locks go.
Finish(w) ==
    /\ tx' = [tx EXCEPT ![w] = NoTransaction]
    /\ playerLock' = [u \in Uid |-> IF playerLock[u] = w THEN None ELSE playerLock[u]]
    /\ guildLock' = [g \in Guild |-> IF guildLock[g] = w THEN None ELSE guildLock[g]]

-----------------------------------------------------------------------------
(* Transactions begin.  A new guild has a fresh id; ApproveJoin refuses an  *)
(* operator who is the target.                                             *)

Begin(w, request) ==
    /\ tx[w].pc = "idle"
    /\ tx' = [tx EXCEPT ![w] = request]
    /\ UNCHANGED <<tables, locks>>

BeginCreate(w, u, g) ==
    /\ status[g] = "unused"
    /\ \A x \in Worker : ~ (tx[x].op = "create" /\ tx[x].guild = g)
    /\ Begin(w, [NoTransaction EXCEPT !.pc = "players", !.op = "create",
                    !.uid = u, !.guild = g, !.toLock = {u}])

BeginApply(w, u, g) ==
    Begin(w, [NoTransaction EXCEPT !.pc = "players", !.op = "apply", !.uid = u,
                 !.guild = g, !.toLock = {u}])

BeginApprove(w, u, g, v) ==
    /\ u # v
    /\ Begin(w, [NoTransaction EXCEPT !.pc = "players", !.op = "approve",
                    !.uid = u, !.guild = g, !.target = v, !.toLock = {u, v}])

BeginLeave(w, u) ==
    Begin(w, [NoTransaction EXCEPT !.pc = "players", !.op = "leave", !.uid = u,
                 !.toLock = {u}])

-----------------------------------------------------------------------------
(* Locks and the read of Leave. *)

\* Mutant of NextToLock: the operator's own row first, as they were passed.
OperatorFirst(t) == IF t.uid \in t.toLock THEN t.uid ELSE t.target

\* lockGuildPlayers sorts the uids.
NextToLock(t) == CHOOSE u \in t.toLock : \A v \in t.toLock : u <= v

AfterPlayers(op) ==
    CASE op = "create" -> "write"
      [] op = "leave" -> "read"
      [] OTHER -> "guild"

\* SELECT ... FOR UPDATE of one players row: waits while another holds it.
LockPlayer(w) ==
    LET t == tx[w]
        u == NextToLock(t)
        left == t.toLock \ {u}
    IN
    /\ t.pc = "players"
    /\ playerLock[u] = None
    /\ playerLock' = [playerLock EXCEPT ![u] = w]
    /\ tx' = [tx EXCEPT ![w].toLock = left,
                        ![w].pc = IF left = {} THEN AfterPlayers(t.op) ELSE @]
    /\ UNCHANGED <<tables, guildLock>>

\* GetMembership in Leave: a plain read, before the guild is locked.
ReadMembership(w) ==
    LET u == tx[w].uid
    IN
    /\ tx[w].pc = "read"
    /\ IF role[u] = "none"
       THEN Finish(w)
       ELSE /\ tx' = [tx EXCEPT ![w].pc = "guild", ![w].guild = GuildOf(u),
                                ![w].role = role[u]]
            /\ UNCHANGED locks
    /\ UNCHANGED tables

LockGuild(w) ==
    LET g == tx[w].guild
    IN
    /\ tx[w].pc = "guild"
    /\ guildLock[g] = None
    /\ IF status[g] # "open"
       THEN Finish(w)
       ELSE /\ guildLock' = [guildLock EXCEPT ![g] = w]
            /\ tx' = [tx EXCEPT ![w].pc = "write"]
            /\ UNCHANGED playerLock
    /\ UNCHANGED tables

-----------------------------------------------------------------------------
(* The rest of each command: checks, writes, commit.  Memberships read here *)
(* are of a snapshot taken after the last lock.                             *)

\* AddGuildMemberData, and CreateGuildData for the first member.
AddMember(g, u, r) ==
    /\ roster' = [roster EXCEPT ![g] = Append(@, u)]
    /\ role' = [role EXCEPT ![u] = r]

\* Mutant of ApplicationsLeft: only the application to the guild joined goes.
ApplicationsElsewhere(g, u) == applications \ {<<g, u>>}

\* DeleteGuildApplicationsByUID: whoever joins a guild applies nowhere.
ApplicationsLeft(g, u) == applications \ ApplicationsOf(u)

\* RemoveGuildMemberData deletes by uid alone, which is a key of the table.
RemoveMember(u) ==
    roster' = [g \in Guild |-> RemoveFirst(roster[g], u)]

\* FindGuildSuccessorForUpdate: the other members, in the order of joining.
Heirs(g, u) == RemoveFirst(roster[g], u)

MayCreate(t) == role[t.uid] = "none"

Create(w) ==
    LET t == tx[w]
    IN
    /\ t.pc = "write" /\ t.op = "create"
    /\ IF MayCreate(t)
       THEN /\ status' = [status EXCEPT ![t.guild] = "open"]
            /\ owner' = [owner EXCEPT ![t.guild] = t.uid]
            /\ AddMember(t.guild, t.uid, "leader")
            /\ applications' = ApplicationsLeft(t.guild, t.uid)
       ELSE UNCHANGED tables
    /\ Finish(w)

\* CreateGuildApplicationData: an application that is there stays.
AddApplication(g, u) == applications \cup {<<g, u>>}

ApplyJoin(w) ==
    LET t == tx[w]
    IN
    /\ t.pc = "write" /\ t.op = "apply"
    /\ applications' = IF role[t.uid] = "none"
                       THEN AddApplication(t.guild, t.uid)
                       ELSE applications
    /\ UNCHANGED <<status, owner, roster, role>>
    /\ Finish(w)

\* GetGuildApplicationForUpdate
Applied(g, u) == <<g, u>> \in applications

\* The operator leads this very guild, the target applied and is in no guild.
MayApprove(t) ==
    /\ t.uid \in Members(t.guild)
    /\ role[t.uid] = "leader"
    /\ Applied(t.guild, t.target)
    /\ role[t.target] = "none"

ApproveJoin(w) ==
    LET t == tx[w]
    IN
    /\ t.pc = "write" /\ t.op = "approve"
    /\ IF MayApprove(t)
       THEN /\ AddMember(t.guild, t.target, "member")
            /\ applications' = ApplicationsLeft(t.guild, t.target)
            /\ UNCHANGED <<status, owner>>
       ELSE UNCHANGED tables
    /\ Finish(w)

LeaveAsMember(w) ==
    LET t == tx[w]
    IN
    /\ t.pc = "write" /\ t.op = "leave" /\ t.role = "member"
    /\ RemoveMember(t.uid)
    /\ role' = [role EXCEPT ![t.uid] = "none"]
    /\ UNCHANGED <<status, owner, applications>>
    /\ Finish(w)

\* Mutant of Succeeds: owner_uid keeps naming the leader who left.
KeepOwner(g, heir) == UNCHANGED owner

\* The owner column follows the promoted role.
Succeeds(g, heir) == owner' = [owner EXCEPT ![g] = heir]

\* The other member who joined first becomes the leader.
TransferLeadership(w) ==
    LET t == tx[w]
        heirs == Heirs(t.guild, t.uid)
    IN
    /\ t.pc = "write" /\ t.op = "leave" /\ t.role = "leader"
    /\ heirs # <<>>
    /\ RemoveMember(t.uid)
    /\ role' = [role EXCEPT ![t.uid] = "none", ![Head(heirs)] = "leader"]
    /\ Succeeds(t.guild, Head(heirs))
    /\ UNCHANGED <<status, applications>>
    /\ Finish(w)

\* Nobody is left: the guild, its last member and its applications go.
Dissolve(w) ==
    LET t == tx[w]
    IN
    /\ t.pc = "write" /\ t.op = "leave" /\ t.role = "leader"
    /\ Heirs(t.guild, t.uid) = <<>>
    /\ status' = [status EXCEPT ![t.guild] = "dissolved"]
    /\ owner' = [owner EXCEPT ![t.guild] = None]
    /\ RemoveMember(t.uid)
    /\ role' = [role EXCEPT ![t.uid] = "none"]
    /\ applications' = applications \ ({t.guild} \X Uid)
    /\ Finish(w)

\* A statement fails, the name is taken, the request is cancelled or its
\* server dies: MySQL rolls the transaction back.
Abort(w) ==
    /\ tx[w].pc # "idle"
    /\ UNCHANGED tables
    /\ Finish(w)

-----------------------------------------------------------------------------

Continue(w) ==
    \/ LockPlayer(w) \/ ReadMembership(w) \/ LockGuild(w)
    \/ Create(w) \/ ApplyJoin(w) \/ ApproveJoin(w)
    \/ LeaveAsMember(w) \/ TransferLeadership(w) \/ Dissolve(w)

BeginSome(w) ==
    \E u \in Uid :
        \/ BeginLeave(w, u)
        \/ \E g \in Guild : \/ BeginCreate(w, u, g)
                            \/ BeginApply(w, u, g)
                            \/ \E v \in Uid : BeginApprove(w, u, g, v)

Next == \E w \in Worker : BeginSome(w) \/ Continue(w) \/ Abort(w)

Spec == Init /\ [][Next]_vars

-----------------------------------------------------------------------------
(* Properties. *)

\* Whoever waits for an answer is in no guild, and the guild is there to
\* answer: joining deletes the applications elsewhere and dissolving those to
\* the guild, whatever was being applied for at the same time.
ApplicationsArePending ==
    \A a \in applications : status[a[1]] = "open" /\ role[a[2]] = "none"

\* The role and the owner column cannot disagree about who leads a guild; in
\* particular no guild has two leaders.
LeaderIsOwner ==
    \A g \in Guild : \A u \in Members(g) : role[u] = "leader" => owner[g] = u

\* "A leader's leaving transfers or dissolves, it does not leave a guild
\* without a leader."
EveryGuildIsLed ==
    \A g \in Guild : status[g] = "open" =>
        \E u \in Members(g) : role[u] = "leader"

\* However the locks are taken, each command has its effect in one step, and
\* it is one that GuildMembership allows: nobody joins a guild without having
\* applied, or while being in another, or after it was dissolved.
Membership == INSTANCE GuildMembership WITH
    guildOf <- [u \in Uid |-> IF role[u] = "none" THEN None ELSE GuildOf(u)]
MembershipIsAtomic == Membership!Spec

\* w waits for a row that x has locked.
Waits(w, x) ==
    \/ tx[w].pc = "players" /\ playerLock[NextToLock(tx[w])] = x
    \/ tx[w].pc = "guild" /\ guildLock[tx[w].guild] = x

\* Players are locked in uid order and before guilds: among the transactions
\* there is always one that waits for none of them, so no command waits for
\* ever although the database never has to break a deadlock.
NoCircularWait ==
    \A ws \in (SUBSET Worker) \ {{}} : \E w \in ws : \A x \in ws : ~ Waits(w, x)
=============================================================================
