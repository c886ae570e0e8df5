----------------------------- MODULE SocialProofs -----------------------------
(***************************************************************************)
(* Friends are agreed on, dissolved guilds fall silent and lists are told  *)
(* completely, for any number of players, guilds, workers and rows.        *)
(*                                                                         *)
(* FriendInv adds to FriendsAgreed what a row lock is for: as long as a    *)
(* worker is about to approve a request, the row of the two players is     *)
(* still the request of the other one that the worker has read.            *)
(* SilentInv says that members are in open guilds, which is why nobody     *)
(* begins to send to a dissolved one, as DissolvedGuildsFallSilent has it. *)
(* ListingInv says of the cursor of a list what makes it one: it divides   *)
(* the rows into those told and those to come.                             *)
(* MembershipInv adds to the types what GuildMembership promises to chat:  *)
(* members are in open guilds, and whoever waits for an answer is in none. *)
(***************************************************************************)
EXTENDS Social, FiniteSetTheorems, NaturalsInduction, TLAPS

Relation == [id: Nat, pair: SUBSET Uid, requester: Uid, agreed: Uid \cup {None}]

Approval == [cmd: {"approve"}, pair: SUBSET Uid, uid: Uid]

FriendTypeOK ==
    /\ relations \subseteq Relation
    /\ lastId \in Nat
    /\ task = [w \in Worker |-> task[w]]
    /\ \A w \in Worker : task[w].cmd = "approve" => task[w] \in Approval

\* Two players share one row.
OneRow == \A r, s \in relations : r.pair = s.pair => r = s

\* Who approves is the one of the two who did not ask.
RequestOfOther ==
    \A w \in Worker : task[w].cmd = "approve" =>
        \A r \in RelationOf(task[w].pair) : {r.requester, task[w].uid} = r.pair

AgreedByBoth == \A r \in relations : r.agreed # None => {r.requester, r.agreed} = r.pair

FriendInv == FriendTypeOK /\ OneRow /\ RequestOfOther /\ AgreedByBoth

-----------------------------------------------------------------------------

LEMMA FriendInit == Init => FriendInv
BY DEF Init, FriendInv, FriendTypeOK, OneRow, RequestOfOther, AgreedByBoth, Idle

\* A row that is locked is neither inserted nor deleted nor taken by another
\* worker; without a row nobody can lock it, so a new request finds no worker
\* that approves an older one.
LEMMA ApplyKeeps ==
    ASSUME FriendInv, NEW uid \in Uid, NEW other \in Uid, FriendApply(uid, other)
    PROVE  FriendInv'
<1> DEFINE r0 == [id |-> lastId + 1, pair |-> {uid, other}, requester |-> uid,
                  agreed |-> None]
<1>1. /\ lastId' = lastId + 1 /\ relations' = relations \cup {r0} /\ task' = task
      /\ RelationOf({uid, other}) = {} /\ ~ Locked({uid, other})
    BY DEF FriendApply, CreateRelation
<1>2. r0 \in Relation /\ r0.pair = {uid, other} /\ r0.requester = uid /\ r0.agreed = None
    BY DEF FriendInv, FriendTypeOK, Relation
<1>3. FriendTypeOK'
    BY <1>1, <1>2 DEF FriendInv, FriendTypeOK
<1>4. OneRow'
    BY <1>1, <1>2 DEF FriendInv, OneRow, RelationOf
<1>5. RequestOfOther'
    <2> SUFFICES ASSUME NEW w \in Worker, task[w].cmd = "approve",
                        NEW r \in relations', r.pair = task[w].pair
                 PROVE  {r.requester, task[w].uid} = r.pair
        BY <1>1 DEF RequestOfOther, RelationOf
    <2>1. r # r0
        BY <1>1, <1>2 DEF Locked
    <2> QED
        BY <1>1, <2>1 DEF FriendInv, RequestOfOther, RelationOf
<1>6. AgreedByBoth'
    BY <1>1, <1>2 DEF FriendInv, AgreedByBoth
<1> QED
    BY <1>3, <1>4, <1>5, <1>6 DEF FriendInv

LEMMA BeginApproveKeeps ==
    ASSUME FriendInv, NEW w \in Worker, NEW uid \in Uid, NEW other \in Uid,
           BeginApprove(w, uid, other)
    PROVE  FriendInv'
<1> DEFINE t0 == [cmd |-> "approve", pair |-> {uid, other}, uid |-> uid]
<1>1. task' = [task EXCEPT ![w] = t0] /\ relations' = relations /\ lastId' = lastId
    BY DEF BeginApprove, friendVars
<1>2. t0 \in Approval /\ t0.cmd = "approve" /\ t0.pair = {uid, other} /\ t0.uid = uid
    BY DEF Approval
<1>3. FriendTypeOK'
    BY <1>1, <1>2 DEF FriendInv, FriendTypeOK
<1>4. PICK r \in relations : r.pair = {uid, other} /\ r.requester = other
    BY DEF BeginApprove, RelationOf
<1>5. RequestOfOther'
    <2> SUFFICES ASSUME NEW v \in Worker, task'[v].cmd = "approve",
                        NEW q \in relations, q.pair = task'[v].pair
                 PROVE  {q.requester, task'[v].uid} = q.pair
        BY <1>1 DEF RequestOfOther, RelationOf
    <2>1. CASE v = w
        <3>1. task'[v] = t0
            BY <1>1, <2>1 DEF FriendInv, FriendTypeOK
        <3>2. task'[v].pair = {uid, other} /\ task'[v].uid = uid
            BY <3>1, <1>2
        <3>3. q = r
            BY <3>2, <1>4 DEF FriendInv, OneRow
        <3> QED
            BY <3>2, <3>3, <1>4
    <2>2. CASE v # w
        BY <1>1, <2>2 DEF FriendInv, FriendTypeOK, RequestOfOther, RelationOf
    <2> QED
        BY <2>1, <2>2
<1> QED
    BY <1>1, <1>3, <1>5 DEF FriendInv, OneRow, AgreedByBoth

LEMMA ApproveKeeps ==
    ASSUME FriendInv, NEW w \in Worker, Approve(w)
    PROVE  FriendInv'
<1> DEFINE Agreed(r) == IF r.pair = task[w].pair
                        THEN [r EXCEPT !.agreed = task[w].uid] ELSE r
<1>1. /\ relations' = {Agreed(r) : r \in relations} /\ lastId' = lastId
      /\ task' = [task EXCEPT ![w] = Idle] /\ task[w].cmd = "approve"
    BY DEF Approve
<1>2. task[w] \in Approval
    BY <1>1 DEF FriendInv, FriendTypeOK
<1>3. ASSUME NEW r \in relations
      PROVE  /\ Agreed(r) \in Relation
             /\ Agreed(r).pair = r.pair /\ Agreed(r).requester = r.requester
             /\ r.pair = task[w].pair => Agreed(r).agreed = task[w].uid
             /\ r.pair # task[w].pair => Agreed(r) = r
    <2>1. r \in Relation
        BY DEF FriendInv, FriendTypeOK
    <2> QED
        BY <1>2, <2>1 DEF Relation, Approval
<1> HIDE DEF Agreed
<1>4. \A v \in Worker : task'[v] = IF v = w THEN Idle ELSE task[v]
    BY <1>1 DEF FriendInv, FriendTypeOK
<1>5. FriendTypeOK'
    <2>1. Idle.cmd # "approve"
        BY DEF Idle
    <2> QED
        BY <1>1, <1>3, <1>4, <2>1 DEF FriendInv, FriendTypeOK
<1>6. OneRow'
    BY <1>1, <1>3 DEF FriendInv, OneRow
<1>7. RequestOfOther'
    <2> SUFFICES ASSUME NEW v \in Worker, task'[v].cmd = "approve",
                        NEW q \in relations', q.pair = task'[v].pair
                 PROVE  {q.requester, task'[v].uid} = q.pair
        BY DEF RequestOfOther, RelationOf
    <2>1. PICK r \in relations : q = Agreed(r)
        BY <1>1
    <2>2. v # w /\ task'[v] = task[v]
        BY <1>4 DEF Idle
    <2> QED
        BY <2>1, <2>2, <1>3 DEF FriendInv, RequestOfOther, RelationOf
<1>8. AgreedByBoth'
    <2> SUFFICES ASSUME NEW q \in relations', q.agreed # None
                 PROVE  {q.requester, q.agreed} = q.pair
        BY DEF AgreedByBoth
    <2>1. PICK r \in relations : q = Agreed(r)
        BY <1>1
    <2>2. CASE r.pair = task[w].pair
        BY <1>1, <1>3, <2>1, <2>2 DEF FriendInv, RequestOfOther, RelationOf
    <2>3. CASE r.pair # task[w].pair
        BY <1>3, <2>1, <2>3 DEF FriendInv, AgreedByBoth
    <2> QED
        BY <2>2, <2>3
<1> QED
    BY <1>5, <1>6, <1>7, <1>8 DEF FriendInv

LEMMA RemoveKeeps ==
    ASSUME FriendInv, NEW pair \in Pair, FriendRemove(pair)
    PROVE  FriendInv'
BY DEF FriendRemove, DeleteRelation, FriendInv, FriendTypeOK, OneRow, RequestOfOther,
       AgreedByBoth, RelationOf

\* What a worker sends, and what is listed, leaves friends alone.
LEMMA OtherStepsKeep ==
    ASSUME FriendInv, relations' = relations, lastId' \in Nat,
           task' = [w \in Worker |-> task'[w]],
           \A w \in Worker : task'[w].cmd = "approve" => task'[w] = task[w]
    PROVE  FriendInv'
BY DEF FriendInv, FriendTypeOK, OneRow, RequestOfOther, AgreedByBoth, RelationOf

LEMMA SendersKeep ==
    ASSUME FriendInv, NEW w \in Worker,
           Send(w) \/ \E uid \in Uid, list \in {"world", "guild"} : BeginSend(w, uid, list)
    PROVE  FriendInv'
<1>1. CASE Send(w)
    <2>1. /\ relations' = relations /\ lastId' = lastId + 1
          /\ task' = [task EXCEPT ![w] = Idle]
        BY <1>1 DEF Send
    <2>2. Idle.cmd # "approve"
        BY DEF Idle
    <2>3. \A v \in Worker : task'[v].cmd = "approve" => task'[v] = task[v]
        BY <2>1, <2>2 DEF FriendInv, FriendTypeOK
    <2> QED
        BY <2>1, <2>2, <2>3, OtherStepsKeep DEF FriendInv, FriendTypeOK
<1>2. ASSUME NEW uid \in Uid, NEW list \in {"world", "guild"}, BeginSend(w, uid, list)
      PROVE  FriendInv'
    <2> DEFINE t0 == [cmd |-> "send", channel |-> ResolveChannel(uid, list)]
    <2>1. /\ relations' = relations /\ lastId' = lastId
          /\ task' = [task EXCEPT ![w] = t0]
        BY <1>2 DEF BeginSend, friendVars
    <2>2. t0.cmd # "approve"
        OBVIOUS
    <2>3. \A v \in Worker : task'[v].cmd = "approve" => task'[v] = task[v]
        BY <2>1, <2>2 DEF FriendInv, FriendTypeOK
    <2> QED
        BY <2>1, <2>2, <2>3, OtherStepsKeep DEF FriendInv, FriendTypeOK
<1> QED
    BY <1>1, <1>2

-----------------------------------------------------------------------------

LEMMA FriendStep == FriendInv /\ [Next]_vars => FriendInv'
<1> SUFFICES ASSUME FriendInv, [Next]_vars
             PROVE  FriendInv'
    OBVIOUS
<1>1. ASSUME NEW uid \in Uid, NEW other \in Uid, FriendApply(uid, other)
      PROVE  FriendInv'
    BY <1>1, ApplyKeeps
<1>2. ASSUME NEW w \in Worker, NEW uid \in Uid, NEW other \in Uid,
             BeginApprove(w, uid, other)
      PROVE  FriendInv'
    BY <1>2, BeginApproveKeeps
<1>3. ASSUME NEW pair \in Pair, FriendRemove(pair)
      PROVE  FriendInv'
    BY <1>3, RemoveKeeps
<1>4. ASSUME NEW w \in Worker, Approve(w)
      PROVE  FriendInv'
    BY <1>4, ApproveKeeps
<1>5. ASSUME NEW w \in Worker,
             Send(w) \/ \E uid \in Uid, list \in {"world", "guild"} : BeginSend(w, uid, list)
      PROVE  FriendInv'
    BY <1>5, SendersKeep
<1>6. CASE UNCHANGED <<relations, lastId, task>>
    BY <1>6, OtherStepsKeep DEF FriendInv, FriendTypeOK
<1>7. ASSUME NEW u \in Uid, NEW list \in {"friends", "world", "guild"}, FirstPage(u, list)
      PROVE  FriendInv'
    BY <1>6, <1>7 DEF FirstPage, friendVars
<1>8. CASE MorePages
    BY <1>6, <1>8 DEF MorePages, friendVars
<1>9. CASE GuildCommand
    BY <1>6, <1>9 DEF GuildCommand, friendVars
<1>10. CASE GuildDissolve
    BY <1>6, <1>10 DEF GuildDissolve
<1>11. CASE UNCHANGED vars
    BY <1>6, <1>11 DEF vars, friendVars
<1> QED
    BY <1>1, <1>2, <1>3, <1>4, <1>5, <1>7, <1>8, <1>9, <1>10, <1>11 DEF Next

\* The rows of a pair are none or one.
LEMMA AtMostOne ==
    ASSUME OneRow, NEW p
    PROVE  Cardinality(RelationOf(p)) <= 1
<1>1. CASE RelationOf(p) = {}
    BY <1>1, FS_EmptySet
<1>2. CASE RelationOf(p) # {}
    <2>1. PICK r : RelationOf(p) = {r}
        BY <1>2 DEF OneRow, RelationOf
    <2> QED
        BY <2>1, FS_Singleton
<1> QED
    BY <1>1, <1>2

-----------------------------------------------------------------------------

\* Nobody becomes a friend without having agreed, and two players share one
\* row of friend_relations, however requests, approvals and removals of any
\* number of players interleave.
THEOREM FriendsStayAgreed == Spec => []FriendsAgreed
<1>1. FriendInv => FriendsAgreed
    BY AtMostOne DEF FriendInv, AgreedByBoth, FriendsAgreed
<1> QED
    BY <1>1, FriendInit, FriendStep, PTL DEF Spec

-----------------------------------------------------------------------------
(* Dissolved guilds. *)

\* The channel of a dissolved guild is nobody's any more.
MembersOfOpen ==
    /\ status = [g \in Guild |-> status[g]]
    /\ guildOf \in [Uid -> Guild \cup {None}]
    /\ \A u \in Uid : guildOf[u] \in Guild => status[guildOf[u]] = "open"

SilentInv == MembersOfOpen /\ task = [w \in Worker |-> task[w]]

\* The step that DissolvedGuildsFallSilent allows for guild g.
SilentFor(g) ==
    status'[g] = "dissolved" =>
        /\ Senders(g)' \subseteq Senders(g)
        /\ status[g] # "dissolved" => Sent(g)' = {}
        /\ status[g] = "dissolved" => Sent(g)' \subseteq Sent(g) \/ StoresOneMessage(g)

LEMMA SilentInit == Init => SilentInv
<1> SUFFICES ASSUME Init PROVE SilentInv
    OBVIOUS
<1>1. MembersOfOpen
    BY SocialAssumption DEF Init, Membership!Init, MembersOfOpen
<1>2. task = [w \in Worker |-> Idle]
    BY DEF Init
<1> QED
    BY <1>1, <1>2 DEF SilentInv

\* A step that touches neither guilds, nor messages, nor workers.
LEMMA QuietKeeps ==
    ASSUME SilentInv, UNCHANGED <<guildVars, messages, task>>
    PROVE  SilentInv' /\ \A g \in Guild : SilentFor(g)
BY DEF SilentInv, MembersOfOpen, guildVars, SilentFor, Sent, Senders

\* Nobody turns to sending to a guild that is not open.
LEMMA OtherTaskKeeps ==
    ASSUME SilentInv, UNCHANGED <<guildVars, messages>>, NEW w \in Worker, NEW t,
           task' = [task EXCEPT ![w] = t],
           \A g \in Guild : t.cmd = "send" /\ t.channel = g => status[g] = "open"
    PROVE  SilentInv' /\ \A g \in Guild : SilentFor(g)
<1>1. \A v \in Worker : task'[v] = IF v = w THEN t ELSE task[v]
    BY DEF SilentInv
<1>2. task' = [v \in Worker |-> task'[v]]
    BY <1>1 DEF SilentInv
<1>3. MembersOfOpen' /\ status' = status /\ messages' = messages
    BY DEF SilentInv, MembersOfOpen, guildVars
<1>4. ASSUME NEW g \in Guild, status[g] = "dissolved" PROVE Senders(g)' \subseteq Senders(g)
    BY <1>1, <1>4 DEF Senders
<1>5. \A g \in Guild : Sent(g)' = Sent(g)
    BY <1>3 DEF Sent
<1> QED
    BY <1>2, <1>3, <1>4, <1>5 DEF SilentInv, SilentFor

\* The message that is stored takes the place of its sender.
LEMMA SendKeepsSilence ==
    ASSUME SilentInv, NEW w \in Worker, Send(w)
    PROVE  SilentInv' /\ \A g \in Guild : SilentFor(g)
<1> DEFINE m0 == [id |-> lastId', channel |-> task[w].channel]
<1>1. /\ task[w].cmd = "send" /\ task' = [task EXCEPT ![w] = Idle]
      /\ messages' = messages \cup {m0}
      /\ status' = status /\ guildOf' = guildOf
    BY DEF Send, guildVars
<1>2. m0.channel = task[w].channel
    OBVIOUS
<1> HIDE DEF m0
<1>3. \A v \in Worker : task'[v] = IF v = w THEN Idle ELSE task[v]
    BY <1>1 DEF SilentInv
<1>4. SilentInv'
    BY <1>1, <1>3 DEF SilentInv, MembersOfOpen
<1>5. ASSUME NEW g \in Guild PROVE SilentFor(g)
    <2>1. CASE task[w].channel = g
        <3>1. Sent(g)' = Sent(g) \cup {m0}
            BY <1>1, <1>2, <2>1 DEF Sent
        <3>2. w \in Senders(g) /\ Senders(g)' = Senders(g) \ {w}
            BY <1>1, <1>3, <2>1 DEF Senders, Idle
        <3>3. StoresOneMessage(g)
            BY <3>1, <3>2 DEF StoresOneMessage
        <3> QED
            BY <1>1, <3>2, <3>3 DEF SilentFor
    <2>2. CASE task[w].channel # g
        <3>1. Sent(g)' = Sent(g) /\ Senders(g)' = Senders(g)
            BY <1>1, <1>2, <1>3, <2>2 DEF Sent, Senders, Idle
        <3> QED
            BY <1>1, <3>1 DEF SilentFor
    <2> QED
        BY <2>1, <2>2
<1> QED
    BY <1>4, <1>5

\* Only the last member dissolves a guild, so that nobody is left in it.
LEMMA DissolveKeepsSilence ==
    ASSUME SilentInv, GuildDissolve
    PROVE  SilentInv' /\ \A g \in Guild : SilentFor(g)
<1>1. PICK u \in Uid, g \in Guild :
          Membership!Dissolve(u, g) /\ messages' = DeleteChannelMessages(g)
    BY DEF GuildDissolve
<1>2. /\ \A v \in Uid : guildOf[v] = g <=> v = u
      /\ guildOf' = [guildOf EXCEPT ![u] = None]
      /\ status' = [status EXCEPT ![g] = "dissolved"]
      /\ task' = task /\ messages' = {m \in messages : m.channel # g}
    BY <1>1 DEF Membership!Dissolve, Membership!Members, DeleteChannelMessages, GuildDissolve
<1>3. /\ \A h \in Guild : status'[h] = IF h = g THEN "dissolved" ELSE status[h]
      /\ \A v \in Uid : guildOf'[v] = IF v = u THEN None ELSE guildOf[v]
    BY <1>2 DEF SilentInv, MembersOfOpen
<1>4. SilentInv'
    BY <1>2, <1>3, SocialAssumption DEF SilentInv, MembersOfOpen
<1>5. ASSUME NEW h \in Guild PROVE SilentFor(h)
    <2>1. Senders(h)' = Senders(h)
        BY <1>2 DEF Senders
    <2>2. CASE h = g
        <3>1. Sent(h)' = {}
            BY <1>2, <2>2 DEF Sent
        <3> QED
            BY <2>1, <3>1 DEF SilentFor
    <2>3. CASE h # g
        <3>1. Sent(h)' = Sent(h) /\ status'[h] = status[h]
            BY <1>2, <1>3, <2>3 DEF Sent
        <3> QED
            BY <2>1, <3>1 DEF SilentFor
    <2> QED
        BY <2>2, <2>3
<1> QED
    BY <1>4, <1>5

LEMMA GuildCommandKeepsSilence ==
    ASSUME SilentInv, GuildCommand
    PROVE  SilentInv' /\ \A g \in Guild : SilentFor(g)
<1>1. task' = task /\ messages' = messages
    BY DEF GuildCommand, friendVars
<1>2. PICK u \in Uid, g \in Guild :
          \/ Membership!Found(u, g) \/ Membership!Apply(u, g)
          \/ Membership!Join(u, g) \/ Membership!Quit(u, g)
    BY DEF GuildCommand
<1>3. /\ MembersOfOpen'
      /\ \A h \in Guild : status'[h] = "dissolved" => status[h] = "dissolved"
    <2>1. CASE Membership!Found(u, g)
        <3>1. /\ status' = [status EXCEPT ![g] = "open"]
              /\ guildOf' = [guildOf EXCEPT ![u] = g]
            BY <2>1 DEF Membership!Found, Membership!Enter
        <3> QED
            BY <3>1 DEF SilentInv, MembersOfOpen
    <2>2. CASE Membership!Apply(u, g)
        BY <2>2 DEF Membership!Apply, SilentInv, MembersOfOpen
    <2>3. CASE Membership!Join(u, g)
        <3>1. status[g] = "open" /\ status' = status /\ guildOf' = [guildOf EXCEPT ![u] = g]
            BY <2>3 DEF Membership!Join, Membership!Enter
        <3> QED
            BY <3>1 DEF SilentInv, MembersOfOpen
    <2>4. CASE Membership!Quit(u, g)
        <3>1. status' = status /\ guildOf' = [guildOf EXCEPT ![u] = None]
            BY <2>4 DEF Membership!Quit
        <3> QED
            BY <3>1, SocialAssumption DEF SilentInv, MembersOfOpen
    <2> QED
        BY <1>2, <2>1, <2>2, <2>3, <2>4
<1>4. \A h \in Guild : Senders(h)' = Senders(h) /\ Sent(h)' = Sent(h)
    BY <1>1 DEF Senders, Sent
<1> QED
    BY <1>1, <1>3, <1>4 DEF SilentInv, SilentFor

LEMMA SilentStep ==
    SilentInv /\ [Next]_vars => SilentInv' /\ \A g \in Guild : SilentFor(g)
<1> DEFINE Silent == SilentInv' /\ \A g \in Guild : SilentFor(g)
<1> SUFFICES ASSUME SilentInv, [Next]_vars
             PROVE  Silent
    OBVIOUS
<1>1. UNCHANGED <<guildVars, messages, task>> => Silent
    BY QuietKeeps
<1>2. ASSUME NEW uid \in Uid, NEW other \in Uid, FriendApply(uid, other)
      PROVE  Silent
    BY <1>1, <1>2 DEF FriendApply
<1>3. ASSUME NEW w \in Worker, NEW uid \in Uid, NEW other \in Uid,
             BeginApprove(w, uid, other)
      PROVE  Silent
    <2>1. PICK t : t = [cmd |-> "approve", pair |-> {uid, other}, uid |-> uid]
        OBVIOUS
    <2>2. task' = [task EXCEPT ![w] = t] /\ UNCHANGED <<guildVars, messages>>
        BY <1>3, <2>1 DEF BeginApprove, friendVars
    <2>3. \A g \in Guild : t.cmd = "send" /\ t.channel = g => status[g] = "open"
        BY <2>1
    <2> QED
        BY <2>2, <2>3, OtherTaskKeeps
<1>4. ASSUME NEW pair \in Pair, FriendRemove(pair)
      PROVE  Silent
    BY <1>1, <1>4 DEF FriendRemove
<1>5. ASSUME NEW w \in Worker, Approve(w)
      PROVE  Silent
    <2>1. task' = [task EXCEPT ![w] = Idle] /\ UNCHANGED <<guildVars, messages>>
        BY <1>5 DEF Approve
    <2>2. Idle.cmd # "send"
        BY DEF Idle
    <2>3. \A g \in Guild : Idle.cmd = "send" /\ Idle.channel = g => status[g] = "open"
        BY <2>2
    <2> QED
        BY <2>1, <2>3, OtherTaskKeeps
<1>6. ASSUME NEW w \in Worker, NEW uid \in Uid, NEW list \in {"world", "guild"},
             BeginSend(w, uid, list)
      PROVE  Silent
    <2>1. PICK t : t = [cmd |-> "send", channel |-> ResolveChannel(uid, list)]
        OBVIOUS
    <2>2. task' = [task EXCEPT ![w] = t] /\ UNCHANGED <<guildVars, messages>>
        BY <1>6, <2>1 DEF BeginSend, friendVars
    <2>3. t.channel = ResolveChannel(uid, list)
        BY <2>1
    <2>4. \A g \in Guild : t.cmd = "send" /\ t.channel = g => status[g] = "open"
        BY <2>3, SocialAssumption DEF ResolveChannel, SilentInv, MembersOfOpen
    <2> QED
        BY <2>2, <2>4, OtherTaskKeeps
<1>7. ASSUME NEW u \in Uid, NEW list \in {"friends", "world", "guild"}, FirstPage(u, list)
      PROVE  Silent
    BY <1>1, <1>7 DEF FirstPage, friendVars
<1>8. CASE MorePages
    BY <1>1, <1>8 DEF MorePages, friendVars
<1>9. CASE UNCHANGED vars
    BY <1>1, <1>9 DEF vars, friendVars
<1>10. ASSUME NEW w \in Worker, Send(w)
       PROVE  Silent
    BY <1>10, SendKeepsSilence
<1>11. CASE GuildDissolve
    BY <1>11, DissolveKeepsSilence
<1>12. CASE GuildCommand
    BY <1>12, GuildCommandKeepsSilence
<1> HIDE DEF Silent
<1> QED
    BY <1>2, <1>3, <1>4, <1>5, <1>6, <1>7, <1>8, <1>9, <1>10, <1>11, <1>12 DEF Next

\* Dissolving a guild deletes all of its messages, and only sends that were
\* running then add to its channel, one message each, for any number of
\* guilds, players and workers.
THEOREM DissolvedStaySilent == Spec => DissolvedGuildsFallSilent
<1>1. SilentInv /\ [Next]_vars
          => SilentInv' /\ [\A g \in Guild : SilentFor(g)]_vars
    BY SilentStep
<1>2. [\A g \in Guild : SilentFor(g)]_vars =>
      [\A g \in Guild : status'[g] = "dissolved" =>
        /\ Senders(g)' \subseteq Senders(g)
        /\ status[g] # "dissolved" => Sent(g)' = {}
        /\ status[g] = "dissolved" => Sent(g)' \subseteq Sent(g) \/ StoresOneMessage(g)]_vars
    BY DEF SilentFor
<1> QED
    BY <1>1, <1>2, SilentInit, PTL DEF Spec, DissolvedGuildsFallSilent

-----------------------------------------------------------------------------
(* Pages. *)

Lists == {"friends", "world", "guild"}

LEMMA Least ==
    ASSUME NEW T \in SUBSET Nat, T # {}
    PROVE  \E i \in T : \A j \in T : i <= j
<1> DEFINE R == OpToRel(<, Nat)
<1>1. \E i \in T : \A j \in T : ~ (<<j, i>> \in R)
    <2>1. IsWellFoundedOn(R, Nat)
        BY NatLessThanWellFounded
    <2> HIDE DEF R
    <2> QED
        BY <2>1, WFMin
<1>2. PICK i \in T : \A j \in T : ~ (<<j, i>> \in R)
    BY <1>1
<1>3. \A j \in T : ~ (j < i)
    BY <1>2 DEF OpToRel
<1> QED
    BY <1>3

\* Of finitely many ids one is the greatest.
LEMMA Greatest ==
    ASSUME NEW n \in Nat, NEW T \in SUBSET (1 .. n), T # {}
    PROVE  \E i \in T : \A j \in T : j <= i
<1> DEFINE U == {k \in Nat : n - k \in T}
<1>1. U \in SUBSET Nat /\ U # {}
    <2>1. PICK i \in T : TRUE
        OBVIOUS
    <2>2. n - i \in Nat /\ n - (n - i) = i
        BY <2>1
    <2> QED
        BY <2>1, <2>2
<1>2. PICK k \in U : \A j \in U : k <= j
    <2> HIDE DEF U
    <2> QED
        BY <1>1, Least
<1>3. ASSUME NEW j \in T PROVE j <= n - k
    <2>1. n - j \in U
        <3>1. n - j \in Nat /\ n - (n - j) = j
            OBVIOUS
        <3> QED
            BY <3>1
    <2> QED
        BY <1>2, <2>1
<1> QED
    BY <1>2, <1>3

\* A list has a first and a last row.
LEMMA Ends ==
    ASSUME NEW list, NEW n \in Nat, NEW T \in SUBSET (1 .. n), T # {}
    PROVE  /\ \E i \in T : \A j \in T : i = j \/ Precedes(list, i, j)
           /\ \E i \in T : \A j \in T : i = j \/ Precedes(list, j, i)
<1>1. PICK i \in T : \A j \in T : i <= j
    BY Least
<1>2. PICK k \in T : \A j \in T : j <= k
    BY Greatest
<1> QED
    BY <1>1, <1>2 DEF Precedes

\* The part of a list that a page is: it has a row if the list has, whatever
\* precedes one of its rows, and all rows if they are not too many.
LEMMA LeadingPart ==
    ASSUME NEW list, NEW n \in Nat, NEW ids \in SUBSET (1 .. n)
    PROVE  /\ Leading(list, ids, PageSize) \subseteq ids
           /\ ids # {} => Leading(list, ids, PageSize) # {}
           /\ \A i \in ids, j \in Leading(list, ids, PageSize) :
                  Precedes(list, i, j) => i \in Leading(list, ids, PageSize)
           /\ ~ (Cardinality(ids) > PageSize) => Leading(list, ids, PageSize) = ids
<1> DEFINE Before(i) == {j \in ids : Precedes(list, j, i)}
<1>1. PageSize \in Nat \ {0}
    BY SocialAssumption
<1>2. IsFiniteSet(ids) /\ Cardinality(ids) \in Nat
    <2>1. 1 \in Int /\ n \in Int
        OBVIOUS
    <2>2. IsFiniteSet(1 .. n)
        BY <2>1, FS_Interval
    <2> QED
        BY <2>2, FS_Subset, FS_CardinalityType
<1>3. \A i \in ids : IsFiniteSet(Before(i)) /\ Cardinality(Before(i)) \in Nat
    BY <1>2, FS_Subset, FS_CardinalityType
<1>4. Leading(list, ids, PageSize) = {i \in ids : Cardinality(Before(i)) < PageSize}
    BY DEF Leading
<1>5. ids # {} => Leading(list, ids, PageSize) # {}
    <2> SUFFICES ASSUME ids # {} PROVE \E i \in ids : Cardinality(Before(i)) < PageSize
        BY <1>4
    <2>1. PICK i \in ids : \A j \in ids : i = j \/ Precedes(list, i, j)
        BY Ends
    <2>2. Before(i) = {}
        <3> SUFFICES ASSUME NEW j \in ids, Precedes(list, j, i) PROVE FALSE
            OBVIOUS
        <3>1. i \in Nat /\ j \in Nat
            OBVIOUS
        <3>2. i = j \/ Precedes(list, i, j)
            BY <2>1
        <3> QED
            BY <3>1, <3>2 DEF Precedes
    <2> QED
        BY <1>1, <2>2, FS_EmptySet
<1>6. ASSUME NEW i \in ids, NEW j \in Leading(list, ids, PageSize), Precedes(list, i, j)
      PROVE  i \in Leading(list, ids, PageSize)
    <2>1. j \in ids /\ Cardinality(Before(j)) < PageSize
        BY <1>4
    <2>2. Before(i) \in SUBSET Before(j)
        <3> SUFFICES ASSUME NEW k \in ids, Precedes(list, k, i) PROVE Precedes(list, k, j)
            OBVIOUS
        <3>1. i \in Nat /\ j \in Nat /\ k \in Nat
            BY <2>1
        <3> QED
            BY <3>1, <1>6 DEF Precedes
    <2>3. Cardinality(Before(i)) <= Cardinality(Before(j))
        BY <1>3, <2>1, <2>2, FS_Subset
    <2> HIDE DEF Before
    <2> QED
        BY <1>1, <1>3, <1>4, <2>1, <2>3
<1>7. ASSUME ~ (Cardinality(ids) > PageSize), NEW i \in ids
      PROVE  Cardinality(Before(i)) < PageSize
    <2>1. Before(i) \in SUBSET (ids \ {i})
        BY DEF Precedes
    <2>2. IsFiniteSet(ids \ {i}) /\ Cardinality(ids \ {i}) = Cardinality(ids) - 1
        BY <1>2, FS_RemoveElement
    <2>3. Cardinality(Before(i)) <= Cardinality(ids \ {i})
        BY <2>1, <2>2, FS_Subset
    <2> HIDE DEF Before
    <2> QED
        BY <1>1, <1>2, <1>3, <1>7, <2>2, <2>3
<1> HIDE DEF Before
<1> QED
    BY <1>4, <1>5, <1>6, <1>7

\* A page and its cursor divide the list: the page ends with the cursor and the
\* rest follows it.  Without a cursor the page is the list.
LEMMA PageAndRest ==
    ASSUME NEW list, NEW n \in Nat, NEW ids \in SUBSET (1 .. n)
    PROVE  LET page == Leading(list, ids, PageSize)
               next == NextCursor(list, ids)
           IN  /\ page \subseteq ids
               /\ \/ next = 0 /\ page = ids
                  \/ /\ next \in page
                     /\ \A i \in page : i = next \/ Precedes(list, i, next)
                     /\ \A i \in ids \ page : Precedes(list, next, i)
<1> DEFINE page == Leading(list, ids, PageSize)
<1>1. /\ page \subseteq ids
      /\ ids # {} => page # {}
      /\ \A i \in ids, j \in page : Precedes(list, i, j) => i \in page
      /\ ~ (Cardinality(ids) > PageSize) => page = ids
    BY LeadingPart
<1>2. CASE ~ (Cardinality(ids) > PageSize)
    BY <1>1, <1>2 DEF NextCursor
<1>3. CASE Cardinality(ids) > PageSize
    <2>1. NextCursor(list, ids) = Last(list, page)
        BY <1>3 DEF NextCursor
    <2>2. ids # {}
        BY <1>3, SocialAssumption, FS_EmptySet
    <2> HIDE DEF page
    <2>3. page \in SUBSET (1 .. n) /\ page # {}
        BY <1>1, <2>2
    <2>4. \E i \in page : \A j \in page : i = j \/ Precedes(list, j, i)
        BY <2>3, Ends
    <2>5. Last(list, page) \in page
          /\ \A j \in page : Last(list, page) = j \/ Precedes(list, j, Last(list, page))
        BY <2>4 DEF Last
    <2>6. PICK c : c = Last(list, page)
        OBVIOUS
    <2>7. c \in 1 .. n /\ \A i \in ids : i \in 1 .. n
        BY <2>3, <2>5, <2>6
    <2>8. ASSUME NEW i \in ids \ page PROVE Precedes(list, c, i)
        <3>1. ~ Precedes(list, i, c) /\ i # c
            BY <1>1, <2>5, <2>6
        <3> QED
            BY <2>7, <3>1 DEF Precedes
    <2> QED
        BY <1>1, <2>1, <2>5, <2>6, <2>8 DEF page
<1> QED
    BY <1>2, <1>3

-----------------------------------------------------------------------------
(* Reading a list while rows come and go. *)

\* Ids are given once.
RowsNumbered ==
    /\ lastId \in Nat
    /\ \A r \in relations : r.id \in 1 .. lastId
    /\ \A m \in messages : m.id \in 1 .. lastId
    /\ \A m, n \in messages : m.id = n.id => m = n

\* The ids of the rows that are still there of the list that l began with.
Kept(l) ==
    IF l.list = "friends" THEN {r.id : r \in {q \in relations : l.uid \in q.pair}}
    ELSE {m.id : m \in {n \in messages : n.channel = l.channel}}

ReadingTyped(l) ==
    l \in [uid: Uid, list: Lists, cursor: Nat, ended: BOOLEAN, told: SUBSET Nat,
           start: SUBSET (1 .. lastId), twice: BOOLEAN,
           channel: Guild \cup {World}, one: BOOLEAN]

\* What was at the start in the list of a channel is of that channel.
OfOneChannel(l) ==
    l.list # "friends" => \A m \in messages : m.id \in l.start => m.channel = l.channel

\* The cursor divides the list into what is told and what is to come.
CursorDivides(l) ==
    /\ l.ended = (l.cursor = 0)
    /\ ~ l.twice
    /\ l.cursor # 0 => \A i \in l.told : i = l.cursor \/ Precedes(l.list, i, l.cursor)
    /\ l.one => \A i \in l.start \cap Kept(l) :
           i \in l.told \/ (l.cursor # 0 /\ Precedes(l.list, l.cursor, i))

Reading(l) == ReadingTyped(l) /\ OfOneChannel(l) /\ CursorDivides(l)

ListingInv ==
    /\ RowsNumbered
    /\ guildOf \in [Uid -> Guild \cup {None}]
    /\ listing = NotReading \/ Reading(listing)

LEMMA RowsWithin ==
    ASSUME RowsNumbered, NEW u \in Uid, NEW list \in Lists
    PROVE  Rows(u, list) \in SUBSET (1 .. lastId)
BY DEF RowsNumbered, Rows

\* A page is turned: whatever was told precedes what comes after the cursor,
\* and no row that was there from the start is left out between the two.
LEMMA PageTurns ==
    ASSUME RowsNumbered, NEW l, ReadingTyped(l), OfOneChannel(l), ~ l.twice,
           \A i \in l.told, j \in After(l.list, l.cursor, Rows(l.uid, l.list)) :
               Precedes(l.list, i, j),
           l.one /\ l.channel = ResolveChannel(l.uid, l.list) =>
               \A i \in l.start \cap Kept(l) :
                   i \in l.told \cup After(l.list, l.cursor, Rows(l.uid, l.list))
    PROVE  Reading(NextPage(l))
<1> DEFINE ids == After(l.list, l.cursor, Rows(l.uid, l.list))
           page == Leading(l.list, ids, PageSize)
           next == NextCursor(l.list, ids)
           n == NextPage(l)
<1>1. ids \in SUBSET (1 .. lastId)
    BY RowsWithin DEF ReadingTyped, After
<1>2. /\ page \subseteq ids
      /\ \/ next = 0 /\ page = ids
         \/ /\ next \in page
            /\ \A i \in page : i = next \/ Precedes(l.list, i, next)
            /\ \A i \in ids \ page : Precedes(l.list, next, i)
    <2>1. lastId \in Nat
        BY DEF RowsNumbered
    <2> HIDE DEF ids
    <2> QED
        BY <1>1, <2>1, PageAndRest
<1>3. n = [l EXCEPT !.cursor = next, !.ended = (next = 0), !.told = @ \cup page,
                    !.twice = @ \/ page \cap l.told # {},
                    !.one = @ /\ l.channel = ResolveChannel(l.uid, l.list)]
    BY DEF NextPage
<1>4. \A i \in l.told, j \in ids : Precedes(l.list, i, j)
    OBVIOUS
<1>5. l.one /\ l.channel = ResolveChannel(l.uid, l.list) =>
          \A i \in l.start \cap Kept(l) : i \in l.told \cup ids
    OBVIOUS
<1> HIDE DEF ids, page, next, n
<1>6. page \in SUBSET Nat /\ next \in Nat /\ 0 \notin ids
    <2>1. 1 .. lastId \in SUBSET (Nat \ {0})
        BY DEF RowsNumbered
    <2>2. ids \in SUBSET (Nat \ {0})
        BY <1>1, <2>1
    <2>3. ids \in SUBSET Nat /\ 0 \notin ids
        BY <2>2
    <2>4. page \in SUBSET Nat
        BY <1>2, <2>3
    <2>5. next = 0 \/ next \in page
        BY <1>2
    <2>6. next \in Nat
        <3>1. 0 \in Nat
            OBVIOUS
        <3>2. CASE next = 0
            BY <3>1, <3>2, Zenon
        <3>3. CASE next \in page
            BY <2>4, <3>3, Zenon
        <3> QED
            BY <2>5, <3>2, <3>3
    <2> QED
        BY <2>3, <2>4, <2>6
<1>7. ReadingTyped(n)
    BY <1>3, <1>6 DEF ReadingTyped
<1>8. /\ n.uid = l.uid /\ n.list = l.list /\ n.start = l.start /\ n.channel = l.channel
      /\ n.cursor = next /\ n.ended = (next = 0) /\ n.told = l.told \cup page
      /\ n.twice = (l.twice \/ page \cap l.told # {})
      /\ n.one = (l.one /\ l.channel = ResolveChannel(l.uid, l.list))
    BY <1>3 DEF ReadingTyped
<1>9. l.told \in SUBSET Nat /\ l.start \in SUBSET Nat
    BY DEF ReadingTyped
<1>10. OfOneChannel(n)
    BY <1>8 DEF OfOneChannel
<1>11. CursorDivides(n)
    <2>1. page \cap l.told = {}
        <3>1. \A i \in l.told, j \in page : Precedes(l.list, i, j)
            BY <1>2, <1>4
        <3>2. \A i \in l.told : ~ Precedes(l.list, i, i)
            BY <1>9 DEF Precedes
        <3> QED
            BY <3>1, <3>2
    <2>2. ASSUME next # 0, NEW i \in l.told \cup page
          PROVE  i = next \/ Precedes(l.list, i, next)
        BY <1>2, <1>4, <2>2
    <2>3. ASSUME n.one, NEW i \in l.start \cap Kept(l)
          PROVE  i \in l.told \cup page \/ (next # 0 /\ Precedes(l.list, next, i))
        <3>1. i \in l.told \cup ids
            BY <1>5, <1>8, <2>3
        <3> QED
            BY <1>2, <1>6, <3>1
    <2>4. Kept(n) = Kept(l)
        BY <1>8 DEF Kept
    <2>5. ~ n.twice
        BY <1>8, <2>1
    <2> QED
        BY <1>8, <2>2, <2>3, <2>4, <2>5 DEF CursorDivides
<1> QED
    BY <1>7, <1>10, <1>11 DEF Reading, n

LEMMA ListingInit == Init => ListingInv
<1> SUFFICES ASSUME Init PROVE ListingInv
    OBVIOUS
<1>1. relations = {} /\ messages = {} /\ lastId = 0 /\ listing = NotReading
    BY DEF Init
<1>2. guildOf \in [Uid -> Guild \cup {None}]
    BY DEF Init, Membership!Init
<1> QED
    BY <1>1, <1>2 DEF ListingInv, RowsNumbered

\* What is still there of the list is what the player would be told now, as
\* long as he reads the same channel.
LEMMA KeptIsListed ==
    ASSUME NEW l, l.channel = ResolveChannel(l.uid, l.list)
    PROVE  Kept(l) = Rows(l.uid, l.list)
BY DEF Kept, Rows

LEMMA ChannelTyped ==
    ASSUME ListingInv, NEW u \in Uid, NEW list \in Lists, CanList(u, list)
    PROVE  ResolveChannel(u, list) \in Guild \cup {World}
BY DEF ListingInv, CanList, ResolveChannel

LEMMA FirstPageKeeps ==
    ASSUME ListingInv, NEW u \in Uid, NEW list \in Lists, FirstPage(u, list)
    PROVE  ListingInv'
<1>1. PICK l : l = [uid |-> u, list |-> list, cursor |-> 0, ended |-> FALSE,
                    told |-> {}, start |-> Rows(u, list), twice |-> FALSE,
                    channel |-> ResolveChannel(u, list), one |-> TRUE]
    OBVIOUS
<1>2. /\ l.uid = u /\ l.list = list /\ l.told = {} /\ l.start = Rows(u, list)
      /\ l.cursor = 0 /\ ~ l.twice /\ l.channel = ResolveChannel(u, list)
    BY <1>1
<1>3. ResolveChannel(u, list) \in Guild \cup {World}
    BY ChannelTyped DEF FirstPage
<1>4. ReadingTyped(l)
    <2>1. Rows(u, list) \in SUBSET (1 .. lastId)
        BY RowsWithin DEF ListingInv
    <2> QED
        BY <1>1, <1>3, <2>1 DEF ReadingTyped
<1>5. OfOneChannel(l)
    <2> SUFFICES ASSUME list # "friends", NEW m \in messages, m.id \in Rows(u, list)
                 PROVE  m.channel = ResolveChannel(u, list)
        BY <1>2 DEF OfOneChannel
    <2>1. PICK k \in messages : k.id = m.id /\ k.channel = ResolveChannel(u, list)
        BY DEF Rows
    <2> QED
        BY <2>1 DEF ListingInv, RowsNumbered
<1>6. After(l.list, l.cursor, Rows(l.uid, l.list)) = Rows(u, list)
    BY <1>2 DEF After
<1>7. Reading(NextPage(l))
    BY <1>2, <1>4, <1>5, <1>6, PageTurns DEF ListingInv
<1>8. listing' = NextPage(l) /\ UNCHANGED <<guildVars, friendVars>>
    BY <1>1 DEF FirstPage
<1>9. Reading(listing)'
    BY <1>7, <1>8 DEF Reading, ReadingTyped, OfOneChannel, CursorDivides, Kept, friendVars
<1> QED
    BY <1>8, <1>9 DEF ListingInv, RowsNumbered, friendVars, guildVars

LEMMA MorePagesKeeps ==
    ASSUME ListingInv, MorePages
    PROVE  ListingInv'
<1>1. PICK l : l = listing
    OBVIOUS
<1>2. ~ l.ended /\ listing' = NextPage(l) /\ UNCHANGED <<guildVars, friendVars>>
    BY <1>1 DEF MorePages
<1>3. ReadingTyped(l) /\ OfOneChannel(l) /\ CursorDivides(l)
    BY <1>1, <1>2 DEF ListingInv, NotReading, Reading
<1>4. l.cursor # 0 /\ l.cursor \in Nat /\ l.told \in SUBSET Nat /\ ~ l.twice
    BY <1>2, <1>3 DEF CursorDivides, ReadingTyped
<1>5. Rows(l.uid, l.list) \in SUBSET (1 .. lastId) /\ lastId \in Nat
    BY <1>3, RowsWithin DEF ListingInv, RowsNumbered, ReadingTyped
<1>6. ASSUME NEW i \in l.told, NEW j \in After(l.list, l.cursor, Rows(l.uid, l.list))
      PROVE  Precedes(l.list, i, j)
    <2>1. j \in Nat /\ i \in Nat /\ Precedes(l.list, l.cursor, j)
        BY <1>4, <1>5 DEF After
    <2>2. i = l.cursor \/ Precedes(l.list, i, l.cursor)
        BY <1>3, <1>4 DEF CursorDivides
    <2> QED
        BY <1>4, <2>1, <2>2 DEF Precedes
<1>7. ASSUME l.one, l.channel = ResolveChannel(l.uid, l.list), NEW i \in l.start \cap Kept(l)
      PROVE  i \in l.told \cup After(l.list, l.cursor, Rows(l.uid, l.list))
    <2>1. i \in Rows(l.uid, l.list)
        BY <1>7, KeptIsListed
    <2>2. i \in l.told \/ Precedes(l.list, l.cursor, i)
        BY <1>3, <1>7 DEF CursorDivides
    <2> QED
        BY <2>1, <2>2 DEF After
<1>8. Reading(NextPage(l))
    BY <1>3, <1>4, <1>6, <1>7, PageTurns DEF ListingInv
<1>9. Reading(listing)'
    BY <1>2, <1>8 DEF Reading, ReadingTyped, OfOneChannel, CursorDivides, Kept, friendVars
<1> QED
    BY <1>2, <1>9 DEF ListingInv, RowsNumbered, friendVars, guildVars

\* Rows that come have new ids, and so a list that is being read only shrinks.
LEMMA TablesKeep ==
    ASSUME ListingInv, listing' = listing, RowsNumbered', lastId <= lastId',
           guildOf' \in [Uid -> Guild \cup {None}],
           \A r \in relations' : r.id > lastId
                                 \/ \E q \in relations : q.id = r.id /\ q.pair = r.pair,
           \A m \in messages' : m.id > lastId \/ m \in messages
    PROVE  ListingInv'
<1>1. PICK l : l = listing
    OBVIOUS
<1>2. CASE l = NotReading
    BY <1>1, <1>2 DEF ListingInv, NotReading
<1>3. CASE Reading(l)
    <2>1. lastId \in Nat /\ lastId' \in Nat
        BY DEF ListingInv, RowsNumbered
    <2>2. ReadingTyped(l) /\ OfOneChannel(l) /\ CursorDivides(l)
        BY <1>3 DEF Reading
    <2>3. l.start \in SUBSET (1 .. lastId)
        BY <2>2 DEF ReadingTyped
    <2>4. \A i \in l.start : i \in Nat /\ ~ (i > lastId)
        BY <2>1, <2>3
    <2>5. l.start \in SUBSET (1 .. lastId')
        BY <2>1, <2>3
    <2>6. ReadingTyped(listing)'
        BY <1>1, <2>2, <2>5 DEF ReadingTyped
    <2>7. OfOneChannel(listing)'
        <3> SUFFICES ASSUME l.list # "friends", NEW m \in messages', m.id \in l.start
                     PROVE  m.channel = l.channel
            BY <1>1 DEF OfOneChannel
        <3> QED
            BY <2>2, <2>4 DEF OfOneChannel
    <2>8. ASSUME NEW i \in l.start, i \in Kept(listing)' PROVE i \in Kept(l)
        <3>1. CASE l.list = "friends"
            <4>1. PICK r \in relations' : r.id = i /\ l.uid \in r.pair
                BY <1>1, <2>8, <3>1 DEF Kept
            <4>2. PICK q \in relations : q.id = i /\ q.pair = r.pair
                BY <2>4, <4>1
            <4> QED
                BY <3>1, <4>1, <4>2 DEF Kept
        <3>2. CASE l.list # "friends"
            <4>1. PICK m \in messages' : m.id = i /\ m.channel = l.channel
                BY <1>1, <2>8, <3>2 DEF Kept
            <4>2. m \in messages
                BY <2>4, <4>1
            <4> QED
                BY <3>2, <4>1, <4>2 DEF Kept
        <3> QED
            BY <3>1, <3>2
    <2>9. CursorDivides(listing)'
        BY <1>1, <2>2, <2>8 DEF CursorDivides
    <2> QED
        BY <2>6, <2>7, <2>9 DEF ListingInv, Reading
<1> QED
    BY <1>1, <1>2, <1>3 DEF ListingInv

LEMMA GuildsKeepListing ==
    ASSUME ListingInv, GuildCommand \/ GuildDissolve
    PROVE  ListingInv'
<1>1. guildOf' \in [Uid -> Guild \cup {None}]
    BY DEF ListingInv, GuildCommand, GuildDissolve, Membership!Found, Membership!Apply,
           Membership!Join, Membership!Quit, Membership!Enter, Membership!Dissolve
<1>2. /\ listing' = listing /\ relations' = relations /\ lastId' = lastId
      /\ messages' \subseteq messages
    BY DEF GuildCommand, GuildDissolve, DeleteChannelMessages, friendVars
<1>3. RowsNumbered'
    BY <1>2 DEF ListingInv, RowsNumbered
<1>4. lastId <= lastId'
    BY <1>2 DEF ListingInv, RowsNumbered
<1> QED
    BY <1>1, <1>2, <1>3, <1>4, TablesKeep

LEMMA ListingStep == FriendInv /\ ListingInv /\ [Next]_vars => ListingInv'
<1> SUFFICES ASSUME FriendInv, ListingInv, [Next]_vars
             PROVE  ListingInv'
    OBVIOUS
<1>1. CASE UNCHANGED <<guildVars, friendVars, listing>>
    BY <1>1 DEF ListingInv, RowsNumbered, Reading, ReadingTyped, OfOneChannel,
                CursorDivides, Kept, NotReading, guildVars, friendVars
<1>2. ASSUME NEW uid \in Uid, NEW other \in Uid, FriendApply(uid, other)
      PROVE  ListingInv'
    <2>1. PICK r0 : r0 = [id |-> lastId + 1, pair |-> {uid, other}, requester |-> uid,
                          agreed |-> None]
        OBVIOUS
    <2>2. /\ relations' = relations \cup {r0} /\ r0.id = lastId + 1 /\ lastId' = lastId + 1
          /\ messages' = messages /\ listing' = listing /\ guildOf' = guildOf
        BY <1>2, <2>1 DEF FriendApply, CreateRelation, guildVars
    <2>3. RowsNumbered' /\ lastId \in Nat
        BY <2>2 DEF ListingInv, RowsNumbered
    <2>4. /\ guildOf' \in [Uid -> Guild \cup {None}] /\ lastId <= lastId'
          /\ \A r \in relations' : r.id > lastId \/ r \in relations
        BY <2>2, <2>3 DEF ListingInv
    <2> QED
        BY <2>2, <2>3, <2>4, TablesKeep
<1>3. ASSUME NEW w \in Worker, NEW uid \in Uid, NEW other \in Uid,
             BeginApprove(w, uid, other)
      PROVE  ListingInv'
    BY <1>1, <1>3 DEF BeginApprove
<1>4. ASSUME NEW pair \in Pair, FriendRemove(pair)
      PROVE  ListingInv'
    <2>1. /\ relations' \subseteq relations /\ lastId' = lastId
          /\ messages' = messages /\ listing' = listing /\ guildOf' = guildOf
        BY <1>4 DEF FriendRemove, DeleteRelation, guildVars
    <2>2. RowsNumbered' /\ lastId <= lastId' /\ guildOf' \in [Uid -> Guild \cup {None}]
        BY <2>1 DEF ListingInv, RowsNumbered
    <2> QED
        BY <2>1, <2>2, TablesKeep
<1>5. ASSUME NEW w \in Worker, Approve(w)
      PROVE  ListingInv'
    <2>1. /\ relations' = {IF r.pair = task[w].pair THEN [r EXCEPT !.agreed = task[w].uid]
                           ELSE r : r \in relations}
          /\ lastId' = lastId
          /\ messages' = messages /\ listing' = listing /\ guildOf' = guildOf
        BY <1>5 DEF Approve, guildVars
    <2>2. \A r \in relations' : \E q \in relations : q.id = r.id /\ q.pair = r.pair
        <3>1. ASSUME NEW q \in relations
              PROVE  /\ [q EXCEPT !.agreed = task[w].uid].id = q.id
                     /\ [q EXCEPT !.agreed = task[w].uid].pair = q.pair
            BY DEF FriendInv, FriendTypeOK, Relation
        <3>2. TAKE r \in relations'
        <3>3. PICK q \in relations :
                  r = q \/ r = [q EXCEPT !.agreed = task[w].uid]
            BY <2>1
        <3> QED
            BY <3>1, <3>3
    <2>3. RowsNumbered' /\ lastId <= lastId' /\ guildOf' \in [Uid -> Guild \cup {None}]
        BY <2>1, <2>2 DEF ListingInv, RowsNumbered
    <2> QED
        BY <2>1, <2>2, <2>3, TablesKeep
<1>6. ASSUME NEW w \in Worker, NEW uid \in Uid, NEW list \in {"world", "guild"},
             BeginSend(w, uid, list)
      PROVE  ListingInv'
    BY <1>1, <1>6 DEF BeginSend
<1>7. ASSUME NEW w \in Worker, Send(w)
      PROVE  ListingInv'
    <2>1. PICK m0 : m0 = [id |-> lastId + 1, channel |-> task[w].channel]
        OBVIOUS
    <2>2. /\ messages' = messages \cup {m0} /\ m0.id = lastId + 1 /\ lastId' = lastId + 1
          /\ relations' = relations /\ listing' = listing /\ guildOf' = guildOf
        BY <1>7, <2>1 DEF Send, guildVars
    <2>3. lastId \in Nat /\ \A m \in messages : m.id \in 1 .. lastId
        BY DEF ListingInv, RowsNumbered
    <2>4. m0 \notin messages /\ \A m \in messages : m.id # m0.id
        BY <2>2, <2>3
    <2>5. RowsNumbered'
        BY <2>2, <2>4 DEF ListingInv, RowsNumbered
    <2>6. /\ guildOf' \in [Uid -> Guild \cup {None}] /\ lastId <= lastId'
          /\ \A m \in messages' : m.id > lastId \/ m \in messages
        BY <2>2, <2>3 DEF ListingInv
    <2> QED
        BY <2>2, <2>5, <2>6, TablesKeep
<1>8. ASSUME NEW u \in Uid, NEW list \in {"friends", "world", "guild"}, FirstPage(u, list)
      PROVE  ListingInv'
    BY <1>8, FirstPageKeeps DEF Lists
<1>9. CASE UNCHANGED vars
    BY <1>1, <1>9 DEF vars
<1> QED
    BY <1>2, <1>3, <1>4, <1>5, <1>6, <1>7, <1>8, <1>9, MorePagesKeeps,
       GuildsKeepListing DEF Next

\* Whoever reads a list page by page is told no row twice, and every row that
\* stays there from the start to the end, whatever any number of players insert
\* and delete meanwhile and however many rows a page has.
THEOREM PagesTellAll == Spec => []PagesTellAllOnce
<1>1. ListingInv => PagesTellAllOnce
    <2> SUFFICES ASSUME Reading(listing)
                 PROVE  /\ ~ listing.twice
                        /\ listing.one /\ listing.ended =>
                               listing.start \cap Rows(listing.uid, listing.list)
                                   \subseteq listing.told
        BY DEF ListingInv, PagesTellAllOnce
    <2>1. listing.start \cap Rows(listing.uid, listing.list) \subseteq Kept(listing)
        BY DEF Reading, OfOneChannel, Rows, Kept
    <2> QED
        BY <2>1 DEF Reading, CursorDivides
<1> QED
    BY <1>1, FriendInit, FriendStep, ListingInit, ListingStep, PTL DEF Spec

-----------------------------------------------------------------------------
(* Types, and what GuildMembership promises. *)

\* Whoever is in a guild is in an open one and waits for no answer, and nobody
\* waits for the answer of a guild that is not open.
MembersAndApplicants ==
    /\ \A u \in Uid : guildOf[u] # None => status[guildOf[u]] = "open"
    /\ \A g \in Guild, u \in Uid :
           <<g, u>> \in applications => status[g] = "open" /\ guildOf[u] = None

MembershipTyped ==
    /\ status \in [Guild -> {"unused", "open", "dissolved"}]
    /\ guildOf \in [Uid -> Guild \cup {None}]
    /\ applications \subseteq Guild \X Uid

MembershipInv == MembershipTyped /\ MembersAndApplicants

\* A row of friend_relations is of two players, of whom one has asked.
Row == [id : Nat, pair : Pair, requester : Uid, agreed : Uid \cup {None}]

RowsTyped ==
    /\ lastId \in 0 .. MaxRows
    /\ relations \subseteq Row /\ messages \subseteq [id : Nat, channel : Channel]
    /\ \A r \in relations : r.requester \in r.pair

Task ==
    [cmd : {"idle"}] \cup [cmd : {"approve"}, pair : Pair, uid : Uid]
        \cup [cmd : {"send"}, channel : Channel]

TypeOK ==
    /\ MembershipTyped
    /\ RowsTyped /\ RowsNumbered
    /\ task \in [Worker -> Task]
    /\ listing = NotReading \/ ReadingTyped(listing)

LEMMA TwoPlayers ==
    ASSUME NEW u \in Uid, NEW v \in Uid, u # v
    PROVE  {u, v} \in Pair
<1>1. IsFiniteSet({u}) /\ Cardinality({u}) = 1
    BY FS_Singleton
<1>2. {u, v} = {u} \cup {v} /\ v \notin {u}
    OBVIOUS
<1>3. Cardinality({u, v}) = 2
    BY <1>1, <1>2, FS_AddElement
<1> QED
    BY <1>3 DEF Pair

LEMMA TypesInitially == Init => MembershipInv /\ RowsTyped /\ task \in [Worker -> Task]
<1>1. Init => MembershipInv
    BY DEF Init, Membership!Init, MembershipInv, MembershipTyped, MembersAndApplicants
<1>2. Init => RowsTyped
    <2>1. 0 \in 0 .. MaxRows
        BY SocialAssumption
    <2> QED
        BY <2>1 DEF Init, RowsTyped
<1>3. Init => task \in [Worker -> Task]
    BY DEF Init, Task, Idle
<1> QED
    BY <1>1, <1>2, <1>3

\* Entering a guild ends the applications elsewhere, dissolving one those to it.
LEMMA MembershipStep ==
    ASSUME MembershipInv, NEW u \in Uid, NEW g \in Guild,
           \/ Membership!Found(u, g) \/ Membership!Apply(u, g) \/ Membership!Join(u, g)
           \/ Membership!Quit(u, g) \/ Membership!Dissolve(u, g)
    PROVE  MembershipInv'
<1> USE DEF MembershipInv, MembershipTyped, MembersAndApplicants
<1>1. CASE Membership!Found(u, g)
    <2>1. /\ status' = [status EXCEPT ![g] = "open"] /\ guildOf' = [guildOf EXCEPT ![u] = g]
          /\ applications' = applications \ (Guild \X {u})
        BY <1>1 DEF Membership!Found, Membership!Enter
    <2> QED
        BY <2>1
<1>2. CASE Membership!Apply(u, g)
    <2>1. /\ status[g] = "open" /\ guildOf[u] = None /\ UNCHANGED <<status, guildOf>>
          /\ applications' = applications \cup {<<g, u>>}
        BY <1>2 DEF Membership!Apply
    <2> QED
        BY <2>1
<1>3. CASE Membership!Join(u, g)
    <2>1. /\ status[g] = "open" /\ status' = status /\ guildOf' = [guildOf EXCEPT ![u] = g]
          /\ applications' = applications \ (Guild \X {u})
        BY <1>3 DEF Membership!Join, Membership!Enter
    <2> QED
        BY <2>1
<1>4. CASE Membership!Quit(u, g)
    <2>1. guildOf' = [guildOf EXCEPT ![u] = None] /\ UNCHANGED <<status, applications>>
        BY <1>4 DEF Membership!Quit
    <2> QED
        BY <2>1, SocialAssumption
<1>5. CASE Membership!Dissolve(u, g)
    <2>1. /\ \A v \in Uid : guildOf[v] = g <=> v = u
          /\ guildOf' = [guildOf EXCEPT ![u] = None]
          /\ status' = [status EXCEPT ![g] = "dissolved"]
          /\ applications' = applications \ ({g} \X Uid)
        BY <1>5 DEF Membership!Dissolve, Membership!Members
    <2> QED
        BY <2>1, SocialAssumption
<1> QED
    BY <1>1, <1>2, <1>3, <1>4, <1>5

LEMMA GuildsKeep == MembershipInv /\ [Next]_vars => MembershipInv'
<1> SUFFICES ASSUME MembershipInv, [Next]_vars PROVE MembershipInv'
    OBVIOUS
<1>1. CASE UNCHANGED guildVars
    BY <1>1 DEF guildVars, MembershipInv, MembershipTyped, MembersAndApplicants
<1>2. CASE GuildCommand \/ GuildDissolve
    BY <1>2, MembershipStep DEF GuildCommand, GuildDissolve
<1>3. ASSUME NEW w \in Worker, NEW u \in Uid, NEW v \in Uid, NEW list,
             BeginApprove(w, u, v) \/ BeginSend(w, u, list)
      PROVE  UNCHANGED guildVars
    BY <1>3 DEF BeginApprove, BeginSend
<1>4. ASSUME NEW u \in Uid, NEW v \in Uid, FriendApply(u, v) PROVE UNCHANGED guildVars
    BY <1>4 DEF FriendApply
<1>5. ASSUME NEW u \in Uid, NEW list, FirstPage(u, list) PROVE UNCHANGED guildVars
    BY <1>5 DEF FirstPage
<1>6. ASSUME NEW w \in Worker, Approve(w) \/ Send(w) PROVE UNCHANGED guildVars
    BY <1>6 DEF Approve, Send
<1>7. ASSUME MorePages \/ \E pair \in Pair : FriendRemove(pair) PROVE UNCHANGED guildVars
    BY <1>7 DEF MorePages, FriendRemove
<1> QED
    BY <1>1, <1>2, <1>3, <1>4, <1>5, <1>6, <1>7 DEF Next, vars

\* What a worker is about to do is of two players or of a channel.
LEMMA TasksKeep ==
    ASSUME MembershipTyped, task \in [Worker -> Task], [Next]_vars
    PROVE  task' \in [Worker -> Task]
<1>1. ASSUME NEW w \in Worker, NEW t \in Task, task' = [task EXCEPT ![w] = t]
      PROVE  task' \in [Worker -> Task]
    BY <1>1
<1>2. ASSUME NEW w \in Worker, NEW u \in Uid, NEW v \in Uid, BeginApprove(w, u, v)
      PROVE  task' \in [Worker -> Task]
    <2>1. u # v /\ task' = [task EXCEPT ![w] =
                                [cmd |-> "approve", pair |-> {u, v}, uid |-> u]]
        BY <1>2 DEF BeginApprove
    <2>2. {u, v} \in Pair
        BY <2>1, TwoPlayers
    <2>3. [cmd |-> "approve", pair |-> {u, v}, uid |-> u] \in Task
        BY <2>2 DEF Task
    <2> QED
        BY <1>1, <2>1, <2>3
<1>3. ASSUME NEW w \in Worker, NEW u \in Uid, NEW list, BeginSend(w, u, list)
      PROVE  task' \in [Worker -> Task]
    <2>1. ResolveChannel(u, list) \in Channel
        BY <1>3 DEF BeginSend, ResolveChannel, MembershipTyped, Channel
    <2>2. [cmd |-> "send", channel |-> ResolveChannel(u, list)] \in Task
        BY <2>1 DEF Task
    <2> QED
        BY <1>1, <1>3, <2>2 DEF BeginSend
<1>4. ASSUME NEW w \in Worker, Approve(w) \/ Send(w)
      PROVE  task' \in [Worker -> Task]
    <2>1. task' = [task EXCEPT ![w] = Idle] /\ Idle \in Task
        BY <1>4 DEF Approve, Send, Idle, Task
    <2> QED
        BY <1>1, <2>1
<1>5. CASE UNCHANGED task
    BY <1>5
<1>6. ASSUME NEW u \in Uid, NEW v \in Uid, FriendApply(u, v) PROVE UNCHANGED task
    BY <1>6 DEF FriendApply
<1>7. ASSUME NEW u \in Uid, NEW list, FirstPage(u, list) PROVE UNCHANGED task
    BY <1>7 DEF FirstPage
<1>8. ASSUME MorePages \/ GuildCommand \/ GuildDissolve \/ \E pair \in Pair : FriendRemove(pair)
      PROVE  UNCHANGED task
    BY <1>8 DEF MorePages, GuildCommand, GuildDissolve, FriendRemove
<1> QED
    BY <1>2, <1>3, <1>4, <1>5, <1>6, <1>7, <1>8 DEF Next, vars

LEMMA RowsKeep ==
    ASSUME RowsTyped, task \in [Worker -> Task], [Next]_vars
    PROVE  RowsTyped'
<1> USE DEF RowsTyped
<1>0. lastId \in Nat /\ lastId + 1 \in Nat /\ (lastId < MaxRows => lastId + 1 \in 0 .. MaxRows)
    BY SocialAssumption
<1>1. ASSUME NEW u \in Uid, NEW v \in Uid, FriendApply(u, v)
      PROVE  RowsTyped'
    <2>1. /\ u # v /\ lastId < MaxRows /\ lastId' = lastId + 1 /\ messages' = messages
          /\ relations' = relations \cup {[id |-> lastId + 1, pair |-> {u, v},
                                           requester |-> u, agreed |-> None]}
        BY <1>1 DEF FriendApply, CreateRelation
    <2>2. {u, v} \in Pair
        BY <2>1, TwoPlayers
    <2>3. PICK r : r = [id |-> lastId + 1, pair |-> {u, v}, requester |-> u, agreed |-> None]
        OBVIOUS
    <2>4. r \in Row /\ r.requester \in r.pair
        BY <1>0, <2>2, <2>3 DEF Row
    <2> QED
        BY <1>0, <2>1, <2>3, <2>4
<1>2. ASSUME NEW w \in Worker, Approve(w)
      PROVE  RowsTyped'
    <2>1. PICK t \in Task : t = task[w] /\ t.cmd = "approve"
        BY <1>2 DEF Approve
    <2>2. t.uid \in Uid
        BY <2>1 DEF Task
    <2>3. UNCHANGED <<messages, lastId>>
          /\ relations' = {IF r.pair = t.pair THEN [r EXCEPT !.agreed = t.uid] ELSE r :
                               r \in relations}
        BY <1>2, <2>1 DEF Approve
    <2>4. ASSUME NEW r \in relations
          PROVE  /\ [r EXCEPT !.agreed = t.uid] \in Row
                 /\ [r EXCEPT !.agreed = t.uid].requester \in [r EXCEPT !.agreed = t.uid].pair
        BY <2>2 DEF Row
    <2> QED
        BY <2>3, <2>4
<1>3. ASSUME NEW w \in Worker, Send(w)
      PROVE  RowsTyped'
    <2>1. PICK t \in Task : t = task[w] /\ t.cmd = "send"
        BY <1>3 DEF Send
    <2>2. /\ lastId < MaxRows /\ lastId' = lastId + 1 /\ relations' = relations
          /\ messages' = messages \cup {[id |-> lastId + 1, channel |-> t.channel]}
        BY <1>3, <2>1 DEF Send
    <2>3. t.channel \in Channel
        BY <2>1 DEF Task
    <2>4. [id |-> lastId + 1, channel |-> t.channel] \in [id : Nat, channel : Channel]
        BY <1>0, <2>3
    <2> QED
        BY <1>0, <2>2, <2>4
<1>4. ASSUME lastId' = lastId, relations' \subseteq relations, messages' \subseteq messages
      PROVE  RowsTyped'
    BY <1>4
<1>5. ASSUME GuildCommand \/ GuildDissolve \/ \E pair \in Pair : FriendRemove(pair)
      PROVE  RowsTyped'
    BY <1>4, <1>5 DEF GuildCommand, GuildDissolve, FriendRemove, DeleteRelation,
                      DeleteChannelMessages, friendVars
<1>6. ASSUME NEW w \in Worker, NEW u \in Uid, NEW v \in Uid, BeginApprove(w, u, v)
      PROVE  RowsTyped'
    BY <1>4, <1>6 DEF BeginApprove, friendVars
<1>7. ASSUME NEW w \in Worker, NEW u \in Uid, NEW list, BeginSend(w, u, list)
      PROVE  RowsTyped'
    BY <1>4, <1>7 DEF BeginSend, friendVars
<1>8. ASSUME NEW u \in Uid, NEW list, FirstPage(u, list)
      PROVE  RowsTyped'
    BY <1>4, <1>8 DEF FirstPage, friendVars
<1>9. CASE MorePages \/ UNCHANGED vars
    BY <1>4, <1>9 DEF MorePages, friendVars, vars
<1> QED
    BY <1>1, <1>2, <1>3, <1>5, <1>6, <1>7, <1>8, <1>9 DEF Next

\* What the commands of guilds promise the rest of the system: a member's guild is
\* there, and nobody waits for an answer who is in a guild or whose guild is gone.
THEOREM MembersAreSettled == Spec => []MembersAndApplicants
<1>1. MembershipInv => MembersAndApplicants
    BY DEF MembershipInv
<1> QED
    BY <1>1, TypesInitially, GuildsKeep, PTL DEF Spec

\* Every variable keeps its type, whoever writes to it between two statements of
\* another command; ids are given once.
THEOREM Typing == Spec => []TypeOK
<1>1. MembershipInv /\ task \in [Worker -> Task] /\ [Next]_vars => (task \in [Worker -> Task])'
    BY TasksKeep DEF MembershipInv
<1>2. RowsTyped /\ task \in [Worker -> Task] /\ [Next]_vars => RowsTyped'
    BY RowsKeep
<1>3. MembershipInv /\ ListingInv /\ RowsTyped /\ task \in [Worker -> Task] => TypeOK
    BY DEF MembershipInv, ListingInv, TypeOK, Reading
<1> QED
    BY <1>1, <1>2, <1>3, TypesInitially, GuildsKeep, FriendInit, FriendStep, ListingInit,
       ListingStep, PTL DEF Spec
=============================================================================
