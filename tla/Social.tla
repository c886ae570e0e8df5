------------------------------- MODULE Social -------------------------------
(***************************************************************************)
(* Friends and chat.  Two players share at most one row of                 *)
(* friend_relations, which says who asked and whether the other agreed.    *)
(* A chat message is stored under a channel: the world's, or that of the   *)
(* guild the sender is in.  Who is in which guild is what GuildMembership  *)
(* promises.                                                               *)
(*                                                                         *)
(* Commands of different players run on any worker of any server, and the  *)
(* database's row locks are all that orders them.  A command that reads    *)
(* and writes has a step for each; the row it read FOR UPDATE is locked in *)
(* between.  The ids of both tables grow with every insertion.             *)
(***************************************************************************)
EXTENDS Naturals, FiniteSets

CONSTANTS Uid, Guild, Worker, None,
          World,     \* the channel of all players
          PageSize,  \* rows in a page of a list
          MaxRows    \* bound: rows ever inserted

ASSUME SocialAssumption ==
    /\ PageSize \in Nat \ {0} /\ MaxRows \in Nat
    /\ World \notin Guild \cup {None} /\ None \notin Guild

VARIABLES
    status, guildOf, applications,  \* of GuildMembership
    relations,  \* rows of friend_relations
    messages,   \* rows of chat_messages
    lastId,     \* the last id given to a row
    task,       \* task[w]: what worker w is doing between two statements
    listing     \* the list that a player reads page by page; as reading changes
                \* nothing, one reader stands for all

guildVars == <<status, guildOf, applications>>
friendVars == <<relations, messages, lastId>>
vars == <<guildVars, friendVars, task, listing>>

Membership == INSTANCE GuildMembership

Channel == Guild \cup {World}
RowId == 1..MaxRows
Pair == {p \in SUBSET Uid : Cardinality(p) = 2}

Idle == [cmd |-> "idle"]
NotReading == [list |-> None, ended |-> TRUE]

Init ==
    /\ Membership!Init
    /\ relations = {} /\ messages = {} /\ lastId = 0
    /\ task = [w \in Worker |-> Idle]
    /\ listing = NotReading

-----------------------------------------------------------------------------
(* Friends. *)

RelationOf(pair) == {r \in relations : r.pair = pair}

\* Mutant of Locked: the relation is read without FOR UPDATE.
ReadWithoutLock(pair) == FALSE

Locked(pair) == \E w \in Worker : task[w].cmd = "approve" /\ task[w].pair = pair

\* INSERT with the next id, unless there is a row.
CreateRelation(requester, other) ==
    /\ RelationOf({requester, other}) = {}
    /\ lastId < MaxRows
    /\ lastId' = lastId + 1
    /\ relations' = relations \cup {[id |-> lastId + 1, pair |-> {requester, other},
                                     requester |-> requester, agreed |-> None]}

\* DELETE by the two uids.
DeleteRelation(pair) == relations' = relations \ RelationOf(pair)

\* A request or its repetition.  What the reader of the answer learns from
\* the second SELECT changes nothing.
FriendApply(uid, other) ==
    /\ uid # other /\ ~ Locked({uid, other})
    /\ CreateRelation(uid, other)
    /\ UNCHANGED <<guildVars, messages, task, listing>>

\* SELECT ... FOR UPDATE: only the other's request can be approved.
BeginApprove(w, uid, other) ==
    /\ task[w] = Idle /\ uid # other /\ ~ Locked({uid, other})
    /\ \E r \in RelationOf({uid, other}) : r.agreed = None /\ r.requester = other
    /\ task' = [task EXCEPT ![w] = [cmd |-> "approve", pair |-> {uid, other}, uid |-> uid]]
    /\ UNCHANGED <<guildVars, friendVars, listing>>

\* UPDATE by the two uids, and COMMIT.
Approve(w) ==
    /\ task[w].cmd = "approve"
    /\ relations' = {IF r.pair = task[w].pair THEN [r EXCEPT !.agreed = task[w].uid] ELSE r :
                        r \in relations}
    /\ task' = [task EXCEPT ![w] = Idle]
    /\ UNCHANGED <<guildVars, messages, lastId, listing>>

FriendRemove(pair) ==
    /\ ~ Locked(pair)
    /\ RelationOf(pair) # {}
    /\ DeleteRelation(pair)
    /\ UNCHANGED <<guildVars, messages, lastId, task, listing>>

-----------------------------------------------------------------------------
(* Chat. *)

\* resolveChannel: the guild is the one the player is in now.  The list of
\* friends has no channel; it stands under the world's.
ResolveChannel(uid, list) == IF list = "guild" THEN guildOf[uid] ELSE World

BeginSend(w, uid, list) ==
    /\ task[w] = Idle
    /\ ResolveChannel(uid, list) # None
    /\ task' = [task EXCEPT ![w] = [cmd |-> "send", channel |-> ResolveChannel(uid, list)]]
    /\ UNCHANGED <<guildVars, friendVars, listing>>

Send(w) ==
    /\ task[w].cmd = "send"
    /\ lastId < MaxRows
    /\ lastId' = lastId + 1
    /\ messages' = messages \cup {[id |-> lastId', channel |-> task[w].channel]}
    /\ task' = [task EXCEPT ![w] = Idle]
    /\ UNCHANGED <<guildVars, relations, listing>>

-----------------------------------------------------------------------------
(* Guilds. *)

GuildCommand ==
    /\ \E u \in Uid, g \in Guild :
           \/ Membership!Found(u, g) \/ Membership!Apply(u, g)
           \/ Membership!Join(u, g) \/ Membership!Quit(u, g)
    /\ UNCHANGED <<friendVars, task, listing>>

\* Mutant of DeleteChannelMessages: the history of the channel stays.
KeepChannelMessages(g) == messages

DeleteChannelMessages(g) == {m \in messages : m.channel # g}

\* The last member leaves: the transaction that deletes the guild deletes its
\* messages.  A concurrent INSERT into the channel waits for the index range.
GuildDissolve ==
    /\ \E u \in Uid, g \in Guild :
           /\ Membership!Dissolve(u, g)
           /\ messages' = DeleteChannelMessages(g)
    /\ UNCHANGED <<relations, lastId, task, listing>>

-----------------------------------------------------------------------------
(* Lists.  Friends are listed from the oldest row, messages from the       *)
(* newest.  A page names the row from which the next one continues, or 0   *)
(* at the end; the player sends that cursor with the next command.         *)

Precedes(list, i, j) == IF list = "friends" THEN i < j ELSE i > j

\* The ids that a list of player u holds now.
Rows(u, list) ==
    IF list = "friends" THEN {r.id : r \in {q \in relations : u \in q.pair}}
    ELSE {m.id : m \in {n \in messages : n.channel = ResolveChannel(u, list)}}

After(list, cursor, ids) == {i \in ids : cursor = 0 \/ Precedes(list, cursor, i)}

\* Up to n rows, those that come first.
Leading(list, ids, n) ==
    {i \in ids : Cardinality({j \in ids : Precedes(list, j, i)}) < n}

Last(list, ids) == CHOOSE i \in ids : \A j \in ids : i = j \/ Precedes(list, j, i)

\* Mutant of NextCursor: the row that showed that there is more is the cursor.
CursorOfExtraRow(list, ids) ==
    IF Cardinality(ids) > PageSize THEN Last(list, Leading(list, ids, PageSize + 1)) ELSE 0

\* One row more than the page is read, to see whether there is a next page.
NextCursor(list, ids) ==
    IF Cardinality(ids) > PageSize THEN Last(list, Leading(list, ids, PageSize)) ELSE 0

CanList(u, list) == ResolveChannel(u, list) # None

\* The page after the cursor of l, and what the player has been told so far.
NextPage(l) ==
    LET ids == After(l.list, l.cursor, Rows(l.uid, l.list))
        page == Leading(l.list, ids, PageSize)
    IN [l EXCEPT !.cursor = NextCursor(l.list, ids),
                 !.ended = NextCursor(l.list, ids) = 0,
                 !.told = @ \cup page,
                 !.twice = @ \/ page \cap l.told # {},
                 !.one = @ /\ l.channel = ResolveChannel(l.uid, l.list)]

FirstPage(u, list) ==
    /\ listing.ended
    /\ CanList(u, list)
    /\ listing' = NextPage([uid |-> u, list |-> list, cursor |-> 0, ended |-> FALSE,
                            told |-> {}, start |-> Rows(u, list), twice |-> FALSE,
                            channel |-> ResolveChannel(u, list), one |-> TRUE])
    /\ UNCHANGED <<guildVars, friendVars, task>>

MorePages ==
    /\ ~ listing.ended
    /\ CanList(listing.uid, listing.list)
    /\ listing' = NextPage(listing)
    /\ UNCHANGED <<guildVars, friendVars, task>>

Next ==
    \/ \E uid \in Uid, other \in Uid :
           FriendApply(uid, other) \/ \E w \in Worker : BeginApprove(w, uid, other)
    \/ \E pair \in Pair : FriendRemove(pair)
    \/ \E w \in Worker :
           \/ Approve(w) \/ Send(w)
           \/ \E uid \in Uid, list \in {"world", "guild"} : BeginSend(w, uid, list)
    \/ \E u \in Uid :
           \E list \in {"friends", "world", "guild"} : FirstPage(u, list)
    \/ MorePages
    \/ GuildCommand \/ GuildDissolve

Spec == Init /\ [][Next]_vars

-----------------------------------------------------------------------------
(* Properties. *)

\* Two players are friends only by the will of both: whoever agreed is not
\* the one who asked, even if the request was withdrawn and made the other way
\* round while it was being approved; and they share one row.
FriendsAgreed ==
    /\ \A r \in relations : r.agreed # None => {r.requester, r.agreed} = r.pair
    /\ \A p \in Pair : Cardinality(RelationOf(p)) <= 1

\* What is stored under the channel of a guild, and who is about to add to it.
Sent(g) == {m \in messages : m.channel = g}
Senders(g) == {w \in Worker : task[w].cmd = "send" /\ task[w].channel = g}

\* A send that was running stores its message, and is over.
StoresOneMessage(g) ==
    \E w \in Senders(g), m \in Sent(g)' :
        w \notin Senders(g)' /\ Sent(g)' \ {m} \subseteq Sent(g)

\* Dissolving a guild deletes every message of its channel, and from then on
\* nobody begins to send to it: each message that appears there later was sent
\* by a command of its own that had looked up its guild before the guild was
\* dissolved, and that is over with the message.
DissolvedGuildsFallSilent ==
    [][\A g \in Guild : status'[g] = "dissolved" =>
        /\ Senders(g)' \subseteq Senders(g)
        /\ status[g] # "dissolved" => Sent(g)' = {}
        /\ status[g] = "dissolved" => Sent(g)' \subseteq Sent(g) \/ StoresOneMessage(g)]_vars

\* Dissolving a guild deletes its chat history for good, and a message is only
\* sent by a member of the guild.  The code does not keep this: a send that
\* looked up its guild before stores its message after.
DissolvedGuildsLeaveNoHistory == \A g \in Guild : status[g] = "dissolved" => Sent(g) = {}

\* Reading a list page by page tells no row twice, whatever is inserted and
\* deleted between two pages.  It ends with every row told that was there
\* from the start to the end, provided that the player stayed in the guild
\* whose messages he reads: the cursor does not say from which guild it is.
PagesTellAllOnce ==
    listing # NotReading =>
        /\ ~ listing.twice
        /\ listing.one /\ listing.ended =>
               listing.start \cap Rows(listing.uid, listing.list) \subseteq listing.told
=============================================================================
