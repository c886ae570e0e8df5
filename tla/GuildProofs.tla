------------------------------ MODULE GuildProofs ------------------------------
(***************************************************************************)
(* The guild commands on shared tables, for any number of players, guilds  *)
(* and transactions.                                                       *)
(*                                                                         *)
(* What a transaction has read stays true because of the rows it locks:    *)
(* PlayersLocked and GuildLocked say which these are, LeaversKnown and     *)
(* GuildsStay what they protect.  Nothing protects the role of a member    *)
(* who leaves: a leader who leaves at the same time may make him leader.   *)
(***************************************************************************)
EXTENDS Guild, FiniteSetTheorems, SequenceTheorems, TLAPS

\* The players whose rows a transaction locks.
Parties(t) == {t.uid} \cup (IF t.op = "approve" THEN {t.target} ELSE {})

Running(w) == tx[w].pc # "idle"

\* What is locked, by how far the transaction is: players in the order of their
\* uids, then the guild.
PlayersLocked ==
    \A w \in Worker, u \in Uid :
        playerLock[u] = w <=> Running(w) /\ u \in Parties(tx[w]) \ tx[w].toLock

GuildLocked ==
    \A w \in Worker, g \in Guild :
        guildLock[g] = w <=> tx[w].pc = "write" /\ tx[w].op # "create" /\ tx[w].guild = g

LocksInOrder ==
    \A w \in Worker :
        /\ tx[w].pc = "players" => tx[w].toLock # {}
        /\ tx[w].pc \in {"read", "guild", "write"} => tx[w].toLock = {}
        /\ Running(w) => Parties(tx[w]) \subseteq Uid /\ tx[w].toLock \subseteq Parties(tx[w])
        /\ \A u \in Parties(tx[w]) \ tx[w].toLock, v \in tx[w].toLock : Running(w) => u < v

\* Which commands get where, and with which parameters.
CommandsTyped ==
    \A w \in Worker :
        /\ Running(w) /\ tx[w].op # "leave" => tx[w].guild \in Guild
        /\ tx[w].pc \in {"guild", "write"} => tx[w].guild \in Guild
        /\ tx[w].pc = "read" => tx[w].op = "leave"
        /\ tx[w].pc = "guild" => tx[w].op # "create"

\* The roster and the roles are one table: whoever has a role is in one guild,
\* which is open.
MembersHaveRoles ==
    \A u \in Uid : role[u] # "none" <=> \E g \in Guild : u \in Members(g)
OneGuildEach ==
    \A g, h \in Guild : g # h => Members(g) \cap Members(h) = {}
MembersOfOpen ==
    \A g \in Guild : Members(g) # {} => status[g] = "open"

\* A leader who leaves is still the leader; a member is still in the guild.
LeaversKnown ==
    \A w \in Worker :
        tx[w].op = "leave" /\ tx[w].pc \in {"guild", "write"} =>
            /\ tx[w].uid \in Members(tx[w].guild)
            /\ tx[w].role # "none"
            /\ tx[w].role = "leader" => role[tx[w].uid] = "leader"

\* The guild that is locked is open, the guild that is created is not.
GuildsStay ==
    \A w \in Worker :
        /\ tx[w].pc = "write" /\ tx[w].op # "create" => status[tx[w].guild] = "open"
        /\ Running(w) /\ tx[w].op = "create" => status[tx[w].guild] = "unused"

CreatorsApart ==
    \A w, x \in Worker :
        Running(w) /\ Running(x) /\ tx[w].op = "create" /\ tx[x].op = "create"
        /\ tx[w].guild = tx[x].guild => w = x

LocksInv == PlayersLocked /\ GuildLocked /\ LocksInOrder /\ CommandsTyped
TablesInv ==
    /\ MembersHaveRoles /\ OneGuildEach /\ MembersOfOpen
    /\ ApplicationsArePending /\ LeaderIsOwner
ChecksInv == LeaversKnown /\ GuildsStay /\ CreatorsApart

GuildInv == TypeOK /\ LocksInv /\ TablesInv /\ ChecksInv

-----------------------------------------------------------------------------
(* Sequences without repetitions, and numbers. *)

LEMMA AppendNew ==
    ASSUME NEW S, NEW s \in Seq(S), IsInjective(s), NEW u \in S, u \notin Range(s)
    PROVE  /\ Append(s, u) \in Seq(S) /\ IsInjective(Append(s, u))
           /\ Range(Append(s, u)) = Range(s) \cup {u}
<1>1. /\ Append(s, u) \in Seq(S) /\ Len(s) \in Nat /\ DOMAIN s = 1 .. Len(s)
      /\ DOMAIN Append(s, u) = 1 .. Len(s) + 1
      /\ Append(s, u)[Len(s) + 1] = u
      /\ \A i \in 1 .. Len(s) : Append(s, u)[i] = s[i]
    BY LenProperties
<1>2. IsInjective(Append(s, u))
    BY <1>1 DEF IsInjective, Range
<1>3. Range(Append(s, u)) = Range(s) \cup {u}
    BY <1>1 DEF Range
<1> QED
    BY <1>1, <1>2, <1>3

\* RemoveFirst closes the gap that the removed element leaves.
LEMMA RemoveTheOne ==
    ASSUME NEW S, NEW s \in Seq(S), IsInjective(s), NEW i \in 1 .. Len(s)
    PROVE  /\ RemoveFirst(s, s[i]) \in Seq(S)
           /\ Len(RemoveFirst(s, s[i])) = Len(s) - 1
           /\ \A j \in 1 .. Len(s) - 1 :
                 RemoveFirst(s, s[i])[j] = IF j < i THEN s[j] ELSE s[j + 1]
<1>1. {j \in 1 .. Len(s) : s[j] = s[i]} = {i}
    BY DEF IsInjective
<1>2. SelectInSeq(s, LAMBDA v : v = s[i]) = i
    BY <1>1 DEF SelectInSeq, Min
<1>3. RemoveFirst(s, s[i]) = SubSeq(s, 1, i - 1) \o SubSeq(s, i + 1, Len(s))
    BY <1>2 DEF RemoveFirst, RemoveAt
<1> DEFINE p == SubSeq(s, 1, i - 1)
           q == SubSeq(s, i + 1, Len(s))
<1>4. Len(s) \in Nat /\ \A j \in 1 .. Len(s) : s[j] \in S
    BY LenProperties, ElementOfSeq
<1>5. /\ p \in Seq(S) /\ Len(p) = i - 1
      /\ \A j \in 1 .. i - 1 : p[j] = s[j]
    <2>1. \A j \in 1 .. i - 1 : s[j] \in S
        BY <1>4
    <2>2. /\ SubSeq(s, 1, i - 1) \in Seq(S)
          /\ Len(SubSeq(s, 1, i - 1)) = IF 1 <= i - 1 THEN i - 1 - 1 + 1 ELSE 0
          /\ \A j \in 1 .. i - 1 - 1 + 1 : SubSeq(s, 1, i - 1)[j] = s[1 + j - 1]
        BY <2>1, SubSeqProperties
    <2> QED
        BY <2>2
<1>6. /\ q \in Seq(S) /\ Len(q) = Len(s) - i
      /\ \A j \in 1 .. Len(s) - i : q[j] = s[i + j]
    <2>1. \A j \in i + 1 .. Len(s) : s[j] \in S
        BY <1>4
    <2>2. /\ SubSeq(s, i + 1, Len(s)) \in Seq(S)
          /\ Len(SubSeq(s, i + 1, Len(s))) =
                IF i + 1 <= Len(s) THEN Len(s) - (i + 1) + 1 ELSE 0
          /\ \A j \in 1 .. Len(s) - (i + 1) + 1 :
                SubSeq(s, i + 1, Len(s))[j] = s[i + 1 + j - 1]
        BY <1>4, <2>1, SubSeqProperties
    <2> QED
        BY <1>4, <2>2
<1> HIDE DEF p, q
<1>7. /\ p \o q \in Seq(S) /\ Len(p \o q) = Len(p) + Len(q)
      /\ \A j \in 1 .. Len(p) + Len(q) :
            (p \o q)[j] = IF j <= Len(p) THEN p[j] ELSE q[j - Len(p)]
    BY <1>5, <1>6, ConcatProperties
<1>8. RemoveFirst(s, s[i]) = p \o q
    BY <1>3 DEF p, q
<1>9. Len(p) = i - 1 /\ Len(q) = Len(s) - i /\ Len(p) + Len(q) = Len(s) - 1
    BY <1>4, <1>5, <1>6
<1>10. ASSUME NEW j \in 1 .. Len(s) - 1
       PROVE  (p \o q)[j] = IF j < i THEN s[j] ELSE s[j + 1]
    <2>1. (p \o q)[j] = IF j <= i - 1 THEN p[j] ELSE q[j - (i - 1)]
        BY <1>7, <1>9
    <2>2. CASE j < i
        BY <1>4, <1>5, <2>1, <2>2
    <2>3. CASE ~ (j < i)
        <3>1. j - (i - 1) \in 1 .. Len(s) - i /\ ~ (j <= i - 1) /\ i + (j - (i - 1)) = j + 1
            BY <1>4, <2>3
        <3> QED
            BY <1>6, <2>1, <2>3, <3>1
    <2> QED
        BY <2>2, <2>3
<1> QED
    BY <1>7, <1>8, <1>9, <1>10

\* Who occurs once and is removed once is gone.
LEMMA RemoveOne ==
    ASSUME NEW S, NEW s \in Seq(S), IsInjective(s), NEW u
    PROVE  /\ RemoveFirst(s, u) \in Seq(S) /\ IsInjective(RemoveFirst(s, u))
           /\ Range(RemoveFirst(s, u)) = Range(s) \ {u}
<1>1. CASE \A i \in 1 .. Len(s) : s[i] # u
    <2>1. RemoveFirst(s, u) = s
        BY <1>1 DEF RemoveFirst
    <2>2. u \notin Range(s)
        BY <1>1, LenProperties DEF Range
    <2> QED
        BY <2>1, <2>2
<1>2. CASE \E i \in 1 .. Len(s) : s[i] = u
    <2> DEFINE r == RemoveFirst(s, u)
    <2>1. PICK i \in 1 .. Len(s) : s[i] = u
        BY <1>2
    <2>2. /\ r \in Seq(S) /\ Len(r) = Len(s) - 1
          /\ \A j \in 1 .. Len(s) - 1 : r[j] = IF j < i THEN s[j] ELSE s[j + 1]
        BY <2>1, RemoveTheOne
    <2> HIDE DEF r
    <2>3. /\ Len(s) \in Nat /\ DOMAIN s = 1 .. Len(s) /\ DOMAIN r = 1 .. Len(s) - 1
        BY <2>2, LenProperties
    <2>4. IsInjective(r)
        <3> DEFINE old(j) == IF j < i THEN j ELSE j + 1
        <3> SUFFICES ASSUME NEW a \in 1 .. Len(s) - 1, NEW b \in 1 .. Len(s) - 1, r[a] = r[b]
                     PROVE  a = b
            BY <2>3 DEF IsInjective
        <3>1. r[a] = s[old(a)] /\ r[b] = s[old(b)]
            BY <2>2
        <3>2. old(a) \in 1 .. Len(s) /\ old(b) \in 1 .. Len(s)
            BY <2>3
        <3>3. old(a) = old(b)
            BY <2>3, <3>1, <3>2 DEF IsInjective
        <3> QED
            BY <3>3
    <2>5. Range(r) = Range(s) \ {u}
        <3>1. ASSUME NEW j \in 1 .. Len(s), j # i PROVE s[j] \in Range(r)
            <4>1. CASE j < i
                BY <2>2, <2>3, <4>1, j \in 1 .. Len(s) - 1 DEF Range
            <4>2. CASE j > i
                <5>1. j - 1 \in 1 .. Len(s) - 1 /\ ~ (j - 1 < i) /\ j - 1 + 1 = j
                    BY <2>3, <4>2
                <5>2. r[j - 1] = s[j]
                    BY <2>2, <5>1
                <5> QED
                    BY <2>3, <5>1, <5>2 DEF Range
            <4> QED
                BY <3>1, <4>1, <4>2
        <3>2. ASSUME NEW j \in 1 .. Len(s) - 1 PROVE r[j] \in Range(s) /\ r[j] # u
            <4> DEFINE k == IF j < i THEN j ELSE j + 1
            <4>1. k \in 1 .. Len(s) /\ k # i /\ r[j] = s[k]
                BY <2>2, <2>3
            <4> QED
                BY <2>1, <2>3, <4>1 DEF Range, IsInjective
        <3> QED
            BY <2>1, <2>3, <3>1, <3>2 DEF Range
    <2> QED
        BY <2>2, <2>4, <2>5 DEF r
<1> QED
    BY <1>1, <1>2

\* Who is first in a sequence is in it.
LEMMA FirstIsMember ==
    ASSUME NEW S, NEW s \in Seq(S)
    PROVE  /\ s # <<>> => Head(s) \in Range(s)
           /\ s = <<>> => Range(s) = {}
BY LenProperties DEF Range

\* Numbers are well-founded, so a set of them has a least one.
LEMMA Least ==
    ASSUME NEW T \in SUBSET Nat, T # {}
    PROVE  \E u \in T : \A v \in T : u <= v
<1> DEFINE R == OpToRel(<, Nat)
<1>1. IsWellFoundedOn(R, Nat)
    BY NatLessThanWellFounded
<1>2. \E u \in T : \A v \in T : ~ (<<v, u>> \in R)
    <2> HIDE DEF R
    <2> QED
        BY <1>1, WFMin
<1>3. PICK u \in T : \A v \in T : ~ (<<v, u>> \in R)
    BY <1>2
<1>4. \A v \in T : ~ (v < u)
    BY <1>3 DEF OpToRel
<1> QED
    BY <1>4

\* Induction: the least number outside S would follow one in S.
LEMMA SetInduction ==
    ASSUME NEW S, 0 \in S, \A n \in Nat : n \in S => n + 1 \in S
    PROVE  \A n \in Nat : n \in S
<1> SUFFICES ASSUME NEW k \in Nat, k \notin S PROVE FALSE
    OBVIOUS
<1> DEFINE T == {n \in Nat : n \notin S}
<1>1. T \in SUBSET Nat /\ T # {}
    OBVIOUS
<1>2. PICK x \in T : \A y \in T : x <= y
    <2> HIDE DEF T
    <2> QED
        BY <1>1, Least
<1>3. x # 0 /\ x \in Nat
    OBVIOUS
<1>4. x - 1 \in Nat /\ ~ (x <= x - 1) /\ x - 1 + 1 = x
    BY <1>3
<1>5. x - 1 \notin T
    BY <1>2, <1>4
<1> QED
    BY <1>4, <1>5

\* A finite set of numbers has a greatest one: by induction on its size.
LEMMA Greatest ==
    ASSUME NEW T \in SUBSET Nat, T # {}, IsFiniteSet(T)
    PROVE  \E u \in T : \A v \in T : v <= u
<1> DEFINE B == {n \in Nat : \A U \in SUBSET Nat :
                    U # {} /\ IsFiniteSet(U) /\ Cardinality(U) <= n =>
                        \E u \in U : \A v \in U : v <= u}
<1>1. 0 \in B
    <2> SUFFICES ASSUME NEW U \in SUBSET Nat, U # {}, IsFiniteSet(U), Cardinality(U) <= 0
                 PROVE  FALSE
        OBVIOUS
    <2> QED
        BY FS_CardinalityType, FS_EmptySet
<1>2. ASSUME NEW n \in Nat, n \in B PROVE n + 1 \in B
    <2> SUFFICES ASSUME NEW U \in SUBSET Nat, U # {}, IsFiniteSet(U), Cardinality(U) <= n + 1
                 PROVE  \E u \in U : \A v \in U : v <= u
        OBVIOUS
    <2>1. PICK x \in U : TRUE
        OBVIOUS
    <2>2. IsFiniteSet(U \ {x}) /\ Cardinality(U \ {x}) = Cardinality(U) - 1
        BY FS_RemoveElement
    <2>3. Cardinality(U \ {x}) <= n
        BY <2>2, FS_CardinalityType
    <2>4. CASE U \ {x} = {}
        BY <2>1, <2>4
    <2>5. CASE U \ {x} # {}
        <3>1. PICK u \in U \ {x} : \A v \in U \ {x} : v <= u
            <4>1. U \ {x} \in SUBSET Nat
                OBVIOUS
            <4> QED
                BY <1>2, <2>2, <2>3, <2>5, <4>1
        <3> QED
            BY <2>1, <3>1
    <2> QED
        BY <2>4, <2>5
<1>3. \A n \in Nat : n \in B
    <2> HIDE DEF B
    <2> QED
        BY <1>1, <1>2, SetInduction
<1>4. Cardinality(T) \in Nat
    BY FS_CardinalityType
<1> QED
    BY <1>3, <1>4

-----------------------------------------------------------------------------
(* What the writes do to who is in which guild. *)

LocksTyped ==
    /\ playerLock \in [Uid -> Worker \cup {None}]
    /\ guildLock \in [Guild -> Worker \cup {None}]
    /\ tx \in [Worker -> Transaction]

TablesTyped ==
    /\ status \in [Guild -> {"unused", "open", "dissolved"}]
    /\ owner \in [Guild -> Uid \cup {None}]
    /\ \A g \in Guild : roster[g] \in Seq(Uid) /\ IsInjective(roster[g])
    /\ DOMAIN roster = Guild
    /\ role \in [Uid -> Role]
    /\ applications \subseteq Guild \X Uid

LEMMA Types == TypeOK <=> TablesTyped /\ LocksTyped
BY DEF TypeOK, TablesTyped, LocksTyped

LEMMA MembersAdded ==
    ASSUME TypeOK, NEW g \in Guild, NEW u \in Uid, NEW r, u \notin Members(g),
           AddMember(g, u, r)
    PROVE  /\ DOMAIN roster' = Guild
           /\ \A h \in Guild : roster'[h] \in Seq(Uid) /\ IsInjective(roster'[h])
           /\ Members(g)' = Members(g) \cup {u}
           /\ \A h \in Guild \ {g} : Members(h)' = Members(h)
BY AppendNew DEF TypeOK, AddMember, Members

LEMMA MembersRemoved ==
    ASSUME TypeOK, NEW u \in Uid, RemoveMember(u)
    PROVE  /\ DOMAIN roster' = Guild
           /\ \A h \in Guild : roster'[h] \in Seq(Uid) /\ IsInjective(roster'[h])
           /\ \A h \in Guild : Members(h)' = Members(h) \ {u}
BY RemoveOne DEF TypeOK, RemoveMember, Members

LEMMA HeirsAreMembers ==
    ASSUME TypeOK, NEW g \in Guild, NEW u \in Uid
    PROVE  /\ Heirs(g, u) # <<>> => Head(Heirs(g, u)) \in Members(g) \ {u}
           /\ Heirs(g, u) = <<>> => Members(g) \subseteq {u}
BY RemoveOne, FirstIsMember DEF TypeOK, Heirs, Members

LEMMA MembersArePlayers ==
    ASSUME TypeOK, NEW g \in Guild
    PROVE  Members(g) \subseteq Uid
BY LenProperties, ElementOfSeq DEF TypeOK, Members, Range

LEMMA TheGuildOf ==
    ASSUME OneGuildEach, NEW g \in Guild, NEW u \in Members(g)
    PROVE  GuildOf(u) = g
BY DEF OneGuildEach, GuildOf

LEMMA NextIsLeast ==
    ASSUME NEW t, t.toLock \subseteq Uid, t.toLock # {}
    PROVE  /\ NextToLock(t) \in t.toLock
           /\ \A v \in t.toLock : NextToLock(t) <= v
<1>1. t.toLock \in SUBSET Nat
    BY UidOrdered
<1>2. \E u \in t.toLock : \A v \in t.toLock : u <= v
    BY <1>1, Least
<1> QED
    BY <1>2 DEF NextToLock

-----------------------------------------------------------------------------

(* The end of a transaction: its locks go and nobody else's. *)

LEMMA FinishKeeps ==
    ASSUME LocksTyped, LocksInv, CreatorsApart, NEW w \in Worker, Finish(w)
    PROVE  /\ LocksTyped' /\ LocksInv' /\ CreatorsApart'
           /\ \A x \in Worker : tx'[x] = IF x = w THEN NoTransaction ELSE tx[x]
<1> USE DEF LocksTyped, LocksInv, PlayersLocked, GuildLocked, LocksInOrder, CommandsTyped,
            CreatorsApart, Running, Parties
<1>1. w # None
    BY NoneFresh
<1>2. \A x \in Worker : tx'[x] = IF x = w THEN NoTransaction ELSE tx[x]
    BY DEF Finish
<1>3. NoTransaction \in Transaction /\ NoTransaction.pc = "idle"
    BY DEF NoTransaction, Transaction, Op, Role
<1>4. LocksTyped'
    BY <1>3 DEF Finish
<1>5. PlayersLocked'
    <2> SUFFICES ASSUME NEW x \in Worker, NEW u \in Uid
                 PROVE  playerLock'[u] = x <=> tx'[x].pc # "idle"
                                /\ u \in Parties(tx'[x]) \ tx'[x].toLock
        OBVIOUS
    <2>1. playerLock'[u] = x <=> x # w /\ playerLock[u] = x
        BY <1>1, NoneFresh DEF Finish
    <2> QED
        BY <1>2, <1>3, <2>1
<1>6. GuildLocked'
    <2> SUFFICES ASSUME NEW x \in Worker, NEW g \in Guild
                 PROVE  guildLock'[g] = x <=> tx'[x].pc = "write" /\ tx'[x].op # "create"
                                                /\ tx'[x].guild = g
        OBVIOUS
    <2>1. guildLock'[g] = x <=> x # w /\ guildLock[g] = x
        BY <1>1, NoneFresh DEF Finish
    <2> QED
        BY <1>2, <1>3, <2>1
<1>7. LocksInOrder'
    BY <1>2, <1>3
<1>8. CommandsTyped'
    BY <1>2, <1>3
<1>9. CreatorsApart'
    BY <1>2, <1>3
<1> QED
    BY <1>2, <1>4, <1>5, <1>6, <1>7, <1>8, <1>9

\* Transactions that have locked all their players share none.
LEMMA PartiesApart ==
    ASSUME LocksInv, NEW w \in Worker, NEW x \in Worker, w # x,
           tx[w].pc \in {"read", "guild", "write"}, tx[x].pc \in {"read", "guild", "write"}
    PROVE  Parties(tx[w]) \cap Parties(tx[x]) = {}
BY DEF LocksInv, PlayersLocked, LocksInOrder, Running

-----------------------------------------------------------------------------

(* The invariant. *)

LEMMA GuildInit == Init => GuildInv
<1> SUFFICES ASSUME Init PROVE GuildInv
    OBVIOUS
<1>1. \A g \in Guild : Members(g) = {}
    BY DEF Init, Members, Range
<1>2. TypeOK
    BY DEF Init, TypeOK, Transaction, NoTransaction, Op, Role, IsInjective
<1>3. LocksInv
    BY NoneFresh DEF Init, LocksInv, PlayersLocked, GuildLocked, LocksInOrder, CommandsTyped,
        NoTransaction, Running
<1>4. TablesInv
    BY <1>1 DEF Init, TablesInv, MembersHaveRoles, OneGuildEach, MembersOfOpen,
        ApplicationsArePending, LeaderIsOwner
<1>5. ChecksInv
    BY DEF Init, ChecksInv, LeaversKnown, GuildsStay, CreatorsApart, NoTransaction, Running
<1> QED
    BY <1>2, <1>3, <1>4, <1>5 DEF GuildInv

LEMMA TablesStay ==
    ASSUME TablesTyped, TablesInv, UNCHANGED tables
    PROVE  TablesTyped' /\ TablesInv' /\ \A g \in Guild : Members(g)' = Members(g)
BY DEF tables, TablesTyped, TablesInv, MembersHaveRoles, OneGuildEach, MembersOfOpen,
       ApplicationsArePending, LeaderIsOwner, Members

LEMMA FinishWithoutWriting ==
    ASSUME GuildInv, NEW w \in Worker, Finish(w), UNCHANGED tables
    PROVE  GuildInv'
<1>1. TablesTyped' /\ TablesInv' /\ \A g \in Guild : Members(g)' = Members(g)
    BY TablesStay, Types DEF GuildInv
<1>2. /\ LocksTyped' /\ LocksInv' /\ CreatorsApart'
      /\ \A x \in Worker : tx'[x] = IF x = w THEN NoTransaction ELSE tx[x]
    BY FinishKeeps, Types DEF GuildInv, ChecksInv
<1>3. LeaversKnown' /\ GuildsStay'
    BY <1>1, <1>2 DEF GuildInv, ChecksInv, LeaversKnown, GuildsStay, NoTransaction, Running,
        tables, LocksInv, CommandsTyped
<1>4. TypeOK'
    BY <1>1, <1>2 DEF TypeOK, TablesTyped, LocksTyped
<1> QED
    BY <1>1, <1>2, <1>3, <1>4 DEF GuildInv, ChecksInv

\* A command that begins holds nothing yet.
LEMMA BeginKeeps ==
    ASSUME GuildInv, NEW w \in Worker, NEW t \in Transaction,
           t.pc = "players", t.op \in Op, t.uid \in Uid,
           t.toLock = Parties(t), Parties(t) \subseteq Uid,
           t.op # "leave" => t.guild \in Guild,
           t.op = "create" => /\ status[t.guild] = "unused"
                              /\ \A x \in Worker : ~ (tx[x].op = "create" /\ tx[x].guild = t.guild),
           Begin(w, t)
    PROVE  GuildInv'
<1> USE DEF GuildInv
<1>1. /\ tx[w].pc = "idle" /\ UNCHANGED <<tables, locks>>
      /\ \A x \in Worker : tx'[x] = IF x = w THEN t ELSE tx[x]
    BY Types DEF Begin, LocksTyped
<1>2. TablesTyped' /\ TablesInv' /\ \A g \in Guild : Members(g)' = Members(g)
    BY <1>1, TablesStay, Types
<1>3. LocksTyped'
    BY <1>1, Types DEF LocksTyped, locks, Begin
<1>4. PlayersLocked' /\ GuildLocked'
    BY <1>1 DEF LocksInv, PlayersLocked, GuildLocked, Running, locks, Parties
<1>5. LocksInOrder'
    BY <1>1 DEF LocksInv, LocksInOrder, Running, Parties
<1>6. CommandsTyped'
    BY <1>1 DEF LocksInv, CommandsTyped, Running
<1>7. LeaversKnown'
    BY <1>1, <1>2 DEF ChecksInv, LeaversKnown, tables, LocksInv, CommandsTyped
<1>8. GuildsStay'
    BY <1>1 DEF ChecksInv, GuildsStay, tables, Running
<1>9. CreatorsApart'
    BY <1>1 DEF ChecksInv, CreatorsApart, Running
<1>10. TypeOK'
    BY <1>2, <1>3 DEF TypeOK, TablesTyped, LocksTyped
<1> QED
    BY <1>2, <1>4, <1>5, <1>6, <1>7, <1>8, <1>9, <1>10 DEF ChecksInv, LocksInv

LEMMA BeginSomeKeeps ==
    ASSUME GuildInv, NEW w \in Worker, BeginSome(w)
    PROVE  GuildInv'
<1> USE DEF Parties, NoTransaction, Transaction, Op, Role
<1>1. ASSUME NEW u \in Uid, BeginLeave(w, u) PROVE GuildInv'
    <2> DEFINE t == [NoTransaction EXCEPT !.pc = "players", !.op = "leave", !.uid = u,
                                          !.toLock = {u}]
    <2>1. t \in Transaction /\ t.pc = "players" /\ t.op = "leave" /\ t.uid = u /\ t.toLock = {u}
        OBVIOUS
    <2>2. Begin(w, t)
        BY <1>1 DEF BeginLeave
    <2> HIDE DEF t
    <2> QED
        BY <2>1, <2>2, BeginKeeps
<1>2. ASSUME NEW u \in Uid, NEW g \in Guild, BeginCreate(w, u, g) PROVE GuildInv'
    <2> DEFINE t == [NoTransaction EXCEPT !.pc = "players", !.op = "create", !.uid = u,
                                          !.guild = g, !.toLock = {u}]
    <2>1. /\ t \in Transaction /\ t.pc = "players" /\ t.op = "create" /\ t.uid = u
          /\ t.guild = g /\ t.toLock = {u}
        OBVIOUS
    <2>2. /\ Begin(w, t) /\ status[g] = "unused"
          /\ \A x \in Worker : ~ (tx[x].op = "create" /\ tx[x].guild = g)
        BY <1>2 DEF BeginCreate
    <2> HIDE DEF t
    <2> QED
        BY <2>1, <2>2, BeginKeeps
<1>3. ASSUME NEW u \in Uid, NEW g \in Guild, BeginApply(w, u, g) PROVE GuildInv'
    <2> DEFINE t == [NoTransaction EXCEPT !.pc = "players", !.op = "apply", !.uid = u,
                                          !.guild = g, !.toLock = {u}]
    <2>1. /\ t \in Transaction /\ t.pc = "players" /\ t.op = "apply" /\ t.uid = u
          /\ t.guild = g /\ t.toLock = {u}
        OBVIOUS
    <2>2. Begin(w, t)
        BY <1>3 DEF BeginApply
    <2> HIDE DEF t
    <2> QED
        BY <2>1, <2>2, BeginKeeps
<1>4. ASSUME NEW u \in Uid, NEW g \in Guild, NEW v \in Uid, BeginApprove(w, u, g, v)
      PROVE  GuildInv'
    <2> DEFINE t == [NoTransaction EXCEPT !.pc = "players", !.op = "approve", !.uid = u,
                                          !.guild = g, !.target = v, !.toLock = {u, v}]
    <2>1. /\ t \in Transaction /\ t.pc = "players" /\ t.op = "approve" /\ t.uid = u
          /\ t.guild = g /\ t.target = v /\ t.toLock = {u, v}
        OBVIOUS
    <2>2. Begin(w, t)
        BY <1>4 DEF BeginApprove
    <2> HIDE DEF t
    <2> QED
        BY <2>1, <2>2, BeginKeeps
<1> QED
    BY <1>1, <1>2, <1>3, <1>4 DEF BeginSome

-----------------------------------------------------------------------------

LEMMA LockPlayerKeeps ==
    ASSUME GuildInv, NEW w \in Worker, LockPlayer(w)
    PROVE  GuildInv'
<1> USE DEF GuildInv
<1> DEFINE t == tx[w]
           u == NextToLock(t)
           left == t.toLock \ {u}
           s == [t EXCEPT !.toLock = left, !.pc = IF left = {} THEN AfterPlayers(t.op) ELSE @]
<1>1. w # None
    BY NoneFresh
<1>2. /\ t.pc = "players" /\ t \in Transaction /\ playerLock[u] = None
      /\ t.toLock # {} /\ t.toLock \subseteq Parties(t) /\ Parties(t) \subseteq Uid
    BY Types DEF LockPlayer, LocksTyped, LocksInv, LocksInOrder, Running
<1>3. u \in t.toLock /\ \A v \in t.toLock : u <= v
    BY <1>2, NextIsLeast
<1>4. /\ playerLock' = [playerLock EXCEPT ![u] = w] /\ UNCHANGED <<tables, guildLock>>
      /\ tx' = [tx EXCEPT ![w] = s]
      /\ \A x \in Worker : tx'[x] = IF x = w THEN s ELSE tx[x]
    BY Types, Zenon DEF LockPlayer, LocksTyped
<1>5. /\ s \in Transaction /\ Parties(s) = Parties(t) /\ s.op = t.op /\ s.toLock = left
      /\ s.uid = t.uid /\ s.guild = t.guild
      /\ s.pc = IF left = {} THEN AfterPlayers(t.op) ELSE "players"
    BY <1>2, Zenon DEF Transaction, Op, AfterPlayers, Parties
<1>6. /\ s.pc \in {"players", "read", "guild", "write"}
      /\ s.pc = "read" <=> left = {} /\ t.op = "leave"
      /\ s.pc = "write" <=> left = {} /\ t.op = "create"
      /\ s.pc = "guild" <=> left = {} /\ t.op \in {"apply", "approve"}
    BY <1>2, <1>5, Zenon DEF Transaction, Op, AfterPlayers
<1> HIDE DEF t, u, left, s
<1>7. TablesTyped' /\ TablesInv' /\ \A g \in Guild : Members(g)' = Members(g)
    BY <1>4, TablesStay, Types
<1>8. LocksTyped'
    BY <1>2, <1>3, <1>4, <1>5, Types DEF LocksTyped
<1>9. PlayersLocked'
    <2> SUFFICES ASSUME NEW x \in Worker, NEW v \in Uid
                 PROVE  playerLock'[v] = x <=> tx'[x].pc # "idle"
                                                /\ v \in Parties(tx'[x]) \ tx'[x].toLock
        BY DEF PlayersLocked, Running, Parties
    <2>1. playerLock'[v] = IF v = u THEN w ELSE playerLock[v]
        BY <1>4, Types DEF LocksTyped
    <2>2. playerLock[v] = x <=> tx[x].pc # "idle" /\ v \in Parties(tx[x]) \ tx[x].toLock
        BY DEF LocksInv, PlayersLocked, Running
    <2>3. CASE x = w
        BY <1>2, <1>3, <1>4, <1>5, <1>6, <2>1, <2>2, <2>3 DEF t, left
    <2>4. CASE x # w
        BY <1>1, <1>2, <1>4, <2>1, <2>2, <2>4, NoneFresh
    <2> QED
        BY <2>3, <2>4
<1>10. GuildLocked'
    BY <1>2, <1>4, <1>5, <1>6 DEF LocksInv, GuildLocked, t
<1>11. LocksInOrder'
    <2> SUFFICES ASSUME NEW x \in Worker
                 PROVE  /\ s.pc = "players" => s.toLock # {}
                        /\ s.pc \in {"read", "guild", "write"} => s.toLock = {}
                        /\ Parties(s) \subseteq Uid /\ s.toLock \subseteq Parties(s)
                        /\ \A v1 \in Parties(s) \ s.toLock, v2 \in s.toLock : v1 < v2
        BY <1>4 DEF LocksInv, LocksInOrder, Running, Parties
    <2>1. \A v1 \in Parties(t) \ t.toLock, v2 \in t.toLock : v1 < v2
        BY <1>2 DEF LocksInv, LocksInOrder, Running, t
    <2>2. \A v2 \in left : u < v2
        BY <1>2, <1>3, UidOrdered DEF left
    <2>3. ASSUME NEW v1 \in Parties(s) \ s.toLock, NEW v2 \in s.toLock PROVE v1 < v2
        <3>1. v2 \in left /\ v2 \in t.toLock /\ (v1 = u \/ v1 \in Parties(t) \ t.toLock)
            BY <1>5 DEF left
        <3> QED
            BY <2>1, <2>2, <3>1
    <2>4. Parties(s) \subseteq Uid /\ s.toLock \subseteq Parties(s)
        BY <1>2, <1>5 DEF left
    <2>5. /\ s.pc = "players" => s.toLock # {}
          /\ s.pc \in {"read", "guild", "write"} => s.toLock = {}
        BY <1>2, <1>5, <1>6 DEF Transaction, Op
    <2> QED
        BY <2>3, <2>4, <2>5
<1>12. CommandsTyped'
    BY <1>2, <1>4, <1>5, <1>6 DEF LocksInv, CommandsTyped, Running, t
<1>13. LeaversKnown'
    BY <1>2, <1>4, <1>5, <1>6, <1>7 DEF ChecksInv, LeaversKnown, tables, LocksInv, CommandsTyped
<1>14. GuildsStay'
    BY <1>2, <1>4, <1>5, <1>6 DEF ChecksInv, GuildsStay, tables, Running, t
<1>15. CreatorsApart'
    BY <1>2, <1>4, <1>5, <1>6 DEF ChecksInv, CreatorsApart, Running, t
<1>16. TypeOK'
    BY <1>7, <1>8 DEF TypeOK, TablesTyped, LocksTyped
<1> QED
    BY <1>7, <1>9, <1>10, <1>11, <1>12, <1>13, <1>14, <1>15, <1>16 DEF ChecksInv, LocksInv

LEMMA ReadMembershipKeeps ==
    ASSUME GuildInv, NEW w \in Worker, ReadMembership(w)
    PROVE  GuildInv'
<1> USE DEF GuildInv
<1>1. CASE role[tx[w].uid] = "none"
    BY <1>1, FinishWithoutWriting DEF ReadMembership
<1>2. CASE role[tx[w].uid] # "none"
    <2> DEFINE t == tx[w]
               g == GuildOf(t.uid)
               s == [t EXCEPT !.pc = "guild", !.guild = g, !.role = role[t.uid]]
    <2>1. /\ t.pc = "read" /\ t \in Transaction /\ t.op = "leave" /\ t.uid \in Uid /\ t.toLock = {}
        BY Types DEF ReadMembership, LocksTyped, LocksInv, LocksInOrder, CommandsTyped, Running,
            Parties
    <2>2. /\ UNCHANGED <<tables, locks>>
          /\ tx' = [tx EXCEPT ![w] = s]
          /\ \A x \in Worker : tx'[x] = IF x = w THEN s ELSE tx[x]
        BY <1>2, Types DEF ReadMembership, LocksTyped
    <2>3. g \in Guild /\ t.uid \in Members(g)
        <3>1. PICK h \in Guild : t.uid \in Members(h)
            BY <1>2, <2>1 DEF TablesInv, MembersHaveRoles
        <3> QED
            BY <3>1, TheGuildOf DEF TablesInv
    <2>4. role[t.uid] \in Role
        BY <2>1 DEF TypeOK
    <2> HIDE DEF g
    <2>5. /\ s \in Transaction /\ Parties(s) = Parties(t) /\ s.op = "leave" /\ s.toLock = {}
          /\ s.uid = t.uid /\ s.guild = g /\ s.pc = "guild" /\ s.role = role[t.uid]
        BY <2>1, <2>3, <2>4 DEF Transaction, Parties
    <2> HIDE DEF t, s
    <2>6. TablesTyped' /\ TablesInv' /\ \A h \in Guild : Members(h)' = Members(h)
        BY <2>2, TablesStay, Types
    <2>7. LocksTyped'
        BY <2>2, <2>5, Types DEF LocksTyped, locks
    <2>8. PlayersLocked' /\ GuildLocked'
        <3>1. \A x \in Worker : /\ Parties(tx'[x]) = Parties(tx[x]) /\ tx'[x].toLock = tx[x].toLock
                                /\ tx'[x].pc # "idle" <=> tx[x].pc # "idle"
                                /\ tx'[x].pc = "write" <=> tx[x].pc = "write"
                                /\ x # w => tx'[x] = tx[x]
            BY <2>1, <2>2, <2>5 DEF t
        <3>2. PlayersLocked'
            BY <2>2, <3>1 DEF LocksInv, PlayersLocked, Running, Parties, locks
        <3>3. GuildLocked'
            BY <2>1, <2>2, <2>5, <3>1 DEF LocksInv, GuildLocked, locks, t
        <3> QED
            BY <3>2, <3>3
    <2>9. LocksInOrder'
        BY <2>1, <2>2, <2>5 DEF LocksInv, LocksInOrder, Running, Parties, t
    <2>10. CommandsTyped'
        BY <2>1, <2>2, <2>3, <2>5 DEF LocksInv, CommandsTyped, Running, t
    <2>11. LeaversKnown'
        BY <1>2, <2>1, <2>2, <2>3, <2>5, <2>6
           DEF ChecksInv, LeaversKnown, tables, LocksInv, CommandsTyped, t
    <2>12. GuildsStay' /\ CreatorsApart'
        BY <2>1, <2>2, <2>5 DEF ChecksInv, GuildsStay, CreatorsApart, tables, Running, t
    <2>13. TypeOK'
        BY <2>6, <2>7 DEF TypeOK, TablesTyped, LocksTyped
    <2> QED
        BY <2>6, <2>8, <2>9, <2>10, <2>11, <2>12, <2>13 DEF ChecksInv, LocksInv
<1> QED
    BY <1>1, <1>2

LEMMA LockGuildKeeps ==
    ASSUME GuildInv, NEW w \in Worker, LockGuild(w)
    PROVE  GuildInv'
<1> USE DEF GuildInv
<1>1. CASE status[tx[w].guild] # "open"
    BY <1>1, FinishWithoutWriting DEF LockGuild
<1>2. CASE status[tx[w].guild] = "open"
    <2> DEFINE t == tx[w]
               g == t.guild
               s == [t EXCEPT !.pc = "write"]
    <2>1. /\ t.pc = "guild" /\ t \in Transaction /\ t.op # "create" /\ g \in Guild /\ t.toLock = {}
          /\ guildLock[g] = None
        BY Types DEF LockGuild, LocksTyped, LocksInv, LocksInOrder, CommandsTyped, Running
    <2>2. /\ UNCHANGED <<tables, playerLock>> /\ guildLock' = [guildLock EXCEPT ![g] = w]
          /\ tx' = [tx EXCEPT ![w] = s]
          /\ \A x \in Worker : tx'[x] = IF x = w THEN s ELSE tx[x]
        BY <1>2, Types DEF LockGuild, LocksTyped
    <2>3. /\ s \in Transaction /\ Parties(s) = Parties(t) /\ s.op = t.op /\ s.toLock = {}
          /\ s.uid = t.uid /\ s.guild = g /\ s.pc = "write" /\ s.role = t.role
        BY <2>1 DEF Transaction, Parties
    <2> HIDE DEF t, s, g
    <2>4. TablesTyped' /\ TablesInv' /\ \A h \in Guild : Members(h)' = Members(h)
        BY <2>2, TablesStay, Types
    <2>5. LocksTyped'
        BY <2>1, <2>2, <2>3, Types DEF LocksTyped
    <2>6. \A x \in Worker : /\ Parties(tx'[x]) = Parties(tx[x]) /\ tx'[x].toLock = tx[x].toLock
                            /\ tx'[x].pc # "idle" <=> tx[x].pc # "idle"
                            /\ x # w => tx'[x] = tx[x]
        BY <2>1, <2>2, <2>3 DEF t
    <2>7. PlayersLocked'
        BY <2>2, <2>6 DEF LocksInv, PlayersLocked, Running, Parties
    <2>8. GuildLocked'
        BY <2>1, <2>2, <2>3, NoneFresh, Types DEF LocksInv, GuildLocked, t, g, LocksTyped
    <2>9. LocksInOrder'
        BY <2>1, <2>2, <2>3 DEF LocksInv, LocksInOrder, Running, Parties, t
    <2>10. CommandsTyped'
        BY <2>1, <2>2, <2>3 DEF LocksInv, CommandsTyped, Running, t, g
    <2>11. LeaversKnown'
        BY <2>1, <2>2, <2>3, <2>4 DEF ChecksInv, LeaversKnown, tables, LocksInv, CommandsTyped, t, g
    <2>12. GuildsStay' /\ CreatorsApart'
        BY <1>2, <2>1, <2>2, <2>3 DEF ChecksInv, GuildsStay, CreatorsApart, tables, Running, t, g
    <2>13. TypeOK'
        BY <2>4, <2>5 DEF TypeOK, TablesTyped, LocksTyped
    <2> QED
        BY <2>4, <2>7, <2>8, <2>9, <2>10, <2>11, <2>12, <2>13 DEF ChecksInv, LocksInv
<1> QED
    BY <1>1, <1>2

-----------------------------------------------------------------------------
(* The commands that write.  No other command that is past its locks names  *)
(* the same players or has locked the same guild.                           *)

LEMMA Writer ==
    ASSUME GuildInv, NEW w \in Worker, tx[w].pc = "write"
    PROVE  /\ tx[w] \in Transaction /\ tx[w].uid \in Uid /\ tx[w].guild \in Guild
           /\ tx[w].op = "approve" => tx[w].target \in Uid
           /\ tx[w].op = "create" => status[tx[w].guild] = "unused"
           /\ tx[w].op # "create" => status[tx[w].guild] = "open"
           /\ \A x \in Worker \ {w} :
                 /\ tx[x].pc \in {"guild", "write"} => tx[x].uid \notin Parties(tx[w])
                 /\ tx[x].pc = "write" => tx[x].guild # tx[w].guild
                 /\ tx[x].pc # "idle" /\ tx[w].op = "create" /\ tx[x].op = "create" =>
                       tx[x].guild # tx[w].guild
<1> USE DEF GuildInv, LocksInv, ChecksInv
<1>1. tx[w] \in Transaction
    BY DEF TypeOK
<1>2. Parties(tx[w]) \subseteq Uid /\ tx[w].guild \in Guild
    BY DEF LocksInOrder, CommandsTyped, Running
<1>3. tx[w].uid \in Uid /\ (tx[w].op = "approve" => tx[w].target \in Uid)
    BY <1>2 DEF Parties
<1>4. /\ tx[w].op = "create" => status[tx[w].guild] = "unused"
      /\ tx[w].op # "create" => status[tx[w].guild] = "open"
    BY DEF GuildsStay, Running
<1>5. ASSUME NEW x \in Worker \ {w}, tx[x].pc \in {"guild", "write"}
      PROVE  tx[x].uid \notin Parties(tx[w])
    <2>1. tx[x].uid \in Parties(tx[x])
        BY DEF Parties
    <2> QED
        BY <1>5, <2>1, PartiesApart
<1>6. ASSUME NEW x \in Worker \ {w}, tx[x].pc = "write" PROVE tx[x].guild # tx[w].guild
    <2>1. tx[x].op # "create" => status[tx[x].guild] = "open"
        BY <1>6 DEF GuildsStay
    <2>2. tx[x].op = "create" => status[tx[x].guild] = "unused"
        BY <1>6 DEF GuildsStay, Running
    <2> QED
        BY <1>2, <1>4, <1>6, <2>1, <2>2 DEF CreatorsApart, GuildLocked, Running
<1>7. ASSUME NEW x \in Worker \ {w}, tx[x].pc # "idle", tx[w].op = "create", tx[x].op = "create"
      PROVE  tx[x].guild # tx[w].guild
    BY <1>7 DEF CreatorsApart, Running
<1> QED
    BY <1>1, <1>2, <1>3, <1>4, <1>5, <1>6, <1>7

LEMMA CreateKeeps ==
    ASSUME GuildInv, NEW w \in Worker, Create(w)
    PROVE  GuildInv'
<1> USE DEF GuildInv
<1> DEFINE t == tx[w]
<1>1. CASE ~ MayCreate(t)
    BY <1>1, FinishWithoutWriting DEF Create
<1>2. CASE MayCreate(t)
    <2>1. PICK g \in Guild, u \in Uid : g = t.guild /\ u = t.uid
        BY Writer DEF Create
    <2>2. /\ t.op = "create" /\ t.pc = "write" /\ g \in Guild /\ u \in Uid
          /\ status[g] = "unused" /\ role[u] = "none" /\ Finish(w)
          /\ status' = [status EXCEPT ![g] = "open"] /\ owner' = [owner EXCEPT ![g] = u]
          /\ role' = [role EXCEPT ![u] = "leader"] /\ AddMember(g, u, "leader")
          /\ applications' = applications \ (Guild \X {u})
        BY <1>2, <2>1, Writer DEF Create, MayCreate, AddMember, ApplicationsLeft, ApplicationsOf
    <2>3. /\ \A x \in Worker \ {w} :
                /\ tx[x].pc \in {"guild", "write"} => tx[x].uid # u
                /\ tx[x].pc = "write" => tx[x].guild # g
                /\ tx[x].pc # "idle" /\ tx[x].op = "create" => tx[x].guild # g
        BY <2>1, <2>2, Writer DEF Parties
    <2>4. Members(g) = {} /\ \A h \in Guild : u \notin Members(h)
        BY <2>2 DEF TablesInv, MembersOfOpen, MembersHaveRoles
    <2>5. /\ DOMAIN roster' = Guild
          /\ \A h \in Guild : roster'[h] \in Seq(Uid) /\ IsInjective(roster'[h])
          /\ Members(g)' = {u}
          /\ \A h \in Guild \ {g} : Members(h)' = Members(h)
        BY <2>2, <2>4, MembersAdded
    <2>6. /\ LocksTyped' /\ LocksInv' /\ CreatorsApart'
          /\ \A x \in Worker : tx'[x] = IF x = w THEN NoTransaction ELSE tx[x]
        BY <2>2, FinishKeeps, Types DEF ChecksInv
    <2> HIDE DEF t
    <2>7. TypeOK'
        BY <2>2, <2>5, <2>6 DEF TypeOK, LocksTyped, Role
    <2>8. /\ \A v \in Uid : role'[v] = IF v = u THEN "leader" ELSE role[v]
          /\ \A h \in Guild : /\ status'[h] = IF h = g THEN "open" ELSE status[h]
                              /\ owner'[h] = IF h = g THEN u ELSE owner[h]
        BY <2>2 DEF TypeOK
    <2>9. MembersHaveRoles' /\ OneGuildEach' /\ MembersOfOpen'
        BY <2>2, <2>4, <2>5, <2>8 DEF TablesInv, MembersHaveRoles, OneGuildEach, MembersOfOpen
    <2>10. ApplicationsArePending'
        BY <2>2, <2>8 DEF TablesInv, ApplicationsArePending, TypeOK
    <2>11. LeaderIsOwner'
        BY <2>2, <2>4, <2>5, <2>8, MembersArePlayers DEF TablesInv, LeaderIsOwner
    <2>12. LeaversKnown'
        <3> SUFFICES ASSUME NEW x \in Worker, tx'[x].op = "leave",
                            tx'[x].pc \in {"guild", "write"}
                     PROVE  /\ (tx[x].uid \in Members(tx[x].guild))'
                            /\ tx'[x].role # "none"
                            /\ tx'[x].role = "leader" => role'[tx'[x].uid] = "leader"
            BY DEF LeaversKnown
        <3>1. x # w /\ tx'[x] = tx[x]
            BY <2>6 DEF NoTransaction
        <3>2. /\ tx[x].uid \in Members(tx[x].guild) /\ tx[x].role # "none"
              /\ tx[x].role = "leader" => role[tx[x].uid] = "leader"
            BY <3>1 DEF ChecksInv, LeaversKnown
        <3>3. tx[x].guild \in Guild
            BY <3>1 DEF LocksInv, CommandsTyped
        <3>4. tx[x].guild # g /\ tx[x].uid # u
            BY <2>4, <3>2, <3>3
        <3>5. (tx[x].uid \in Members(tx[x].guild))'
            <4>1. PICK h \in Guild : h = tx[x].guild
                BY <3>3
            <4>2. Members(h)' = Members(h)
                BY <2>5, <3>4, <4>1
            <4>3. tx[x].uid \in Members(h)'
                BY <3>2, <4>1, <4>2
            <4>4. h = tx'[x].guild /\ tx[x].uid = tx'[x].uid
                BY <3>1, <4>1
            <4> QED
                BY <4>3, <4>4
        <3>6. tx[x].uid \in Uid
            BY <3>2, <3>3, MembersArePlayers
        <3>7. role'[tx[x].uid] = role[tx[x].uid]
            BY <2>8, <3>4, <3>6
        <3> QED
            BY <3>1, <3>2, <3>5, <3>7
    <2>13. GuildsStay'
        BY <2>2, <2>3, <2>6, <2>8
           DEF ChecksInv, GuildsStay, NoTransaction, Running, LocksInv, CommandsTyped
    <2> QED
        BY <2>6, <2>7, <2>9, <2>10, <2>11, <2>12, <2>13 DEF TablesInv, ChecksInv
<1> QED
    BY <1>1, <1>2

LEMMA ApplyJoinKeeps ==
    ASSUME GuildInv, NEW w \in Worker, ApplyJoin(w)
    PROVE  GuildInv'
<1> USE DEF GuildInv
<1>1. /\ tx[w].guild \in Guild /\ tx[w].uid \in Uid /\ status[tx[w].guild] = "open"
    BY Writer DEF ApplyJoin
<1>2. /\ LocksTyped' /\ LocksInv' /\ CreatorsApart'
      /\ \A x \in Worker : tx'[x] = IF x = w THEN NoTransaction ELSE tx[x]
    BY FinishKeeps, Types DEF ChecksInv, ApplyJoin
<1>3. TypeOK'
    BY <1>1, <1>2 DEF TypeOK, LocksTyped, ApplyJoin, AddApplication
<1>4. TablesInv'
    BY <1>1 DEF TablesInv, MembersHaveRoles, OneGuildEach, MembersOfOpen, LeaderIsOwner,
        ApplicationsArePending, Members, ApplyJoin, AddApplication
<1>5. LeaversKnown' /\ GuildsStay'
    BY <1>2 DEF ApplyJoin, ChecksInv, LeaversKnown, GuildsStay, NoTransaction, Running,
        LocksInv, CommandsTyped, Members
<1> QED
    BY <1>2, <1>3, <1>4, <1>5 DEF ChecksInv

LEMMA ApproveJoinKeeps ==
    ASSUME GuildInv, NEW w \in Worker, ApproveJoin(w)
    PROVE  GuildInv'
<1> USE DEF GuildInv
<1> DEFINE t == tx[w]
<1>1. CASE ~ MayApprove(t)
    BY <1>1, FinishWithoutWriting DEF ApproveJoin
<1>2. CASE MayApprove(t)
    <2>1. PICK g \in Guild, u \in Uid : g = t.guild /\ u = t.target
        BY Writer DEF ApproveJoin
    <2>2. /\ t.op = "approve" /\ t.pc = "write" /\ g \in Guild /\ u \in Uid
          /\ status[g] = "open" /\ role[u] = "none" /\ Finish(w)
          /\ UNCHANGED <<status, owner>>
          /\ role' = [role EXCEPT ![u] = "member"] /\ AddMember(g, u, "member")
          /\ applications' = applications \ (Guild \X {u})
        BY <1>2, <2>1, Writer
        DEF ApproveJoin, MayApprove, AddMember, ApplicationsLeft, ApplicationsOf
    <2>3. \A x \in Worker \ {w} : tx[x].pc \in {"guild", "write"} => tx[x].uid # u
        BY <2>1, <2>2, Writer DEF Parties
    <2>4. \A h \in Guild : u \notin Members(h)
        BY <2>2 DEF TablesInv, MembersHaveRoles
    <2>5. /\ DOMAIN roster' = Guild
          /\ \A h \in Guild : roster'[h] \in Seq(Uid) /\ IsInjective(roster'[h])
          /\ Members(g)' = Members(g) \cup {u}
          /\ \A h \in Guild \ {g} : Members(h)' = Members(h)
        BY <2>2, <2>4, MembersAdded
    <2>6. /\ LocksTyped' /\ LocksInv' /\ CreatorsApart'
          /\ \A x \in Worker : tx'[x] = IF x = w THEN NoTransaction ELSE tx[x]
        BY <2>2, FinishKeeps, Types DEF ChecksInv
    <2> HIDE DEF t
    <2>7. TypeOK'
        BY <2>2, <2>5, <2>6 DEF TypeOK, LocksTyped, Role
    <2>8. \A v \in Uid : role'[v] = IF v = u THEN "member" ELSE role[v]
        BY <2>2 DEF TypeOK
    <2>9. MembersHaveRoles' /\ OneGuildEach' /\ MembersOfOpen'
        <3>1. MembersHaveRoles'
            <4> SUFFICES ASSUME NEW v \in Uid
                         PROVE  role'[v] # "none" <=> \E h \in Guild : v \in Members(h)'
                BY DEF MembersHaveRoles
            <4>1. CASE v = u
                BY <2>2, <2>5, <2>8, <4>1
            <4>2. CASE v # u
                <5>1. role'[v] = role[v]
                    BY <2>8, <4>2
                <5>2. \A h \in Guild : v \in Members(h)' <=> v \in Members(h)
                    BY <2>5, <4>2
                <5> QED
                    BY <5>1, <5>2 DEF TablesInv, MembersHaveRoles
            <4> QED
                BY <4>1, <4>2
        <3>2. OneGuildEach'
            BY <2>2, <2>4, <2>5 DEF TablesInv, OneGuildEach
        <3>3. MembersOfOpen'
            BY <2>2, <2>5 DEF TablesInv, MembersOfOpen
        <3> QED
            BY <3>1, <3>2, <3>3
    <2>10. ApplicationsArePending'
        BY <2>2, <2>8 DEF TablesInv, ApplicationsArePending, TypeOK
    <2>11. LeaderIsOwner'
        BY <2>2, <2>4, <2>5, <2>8, MembersArePlayers DEF TablesInv, LeaderIsOwner
    <2>12. LeaversKnown'
        <3>1. ASSUME NEW x \in Worker, tx'[x].op = "leave", tx'[x].pc \in {"guild", "write"}
              PROVE  x # w /\ tx'[x] = tx[x]
            BY <2>6, <3>1 DEF NoTransaction
        <3>2. ASSUME NEW x \in Worker \ {w}, tx[x].op = "leave", tx[x].pc \in {"guild", "write"}
              PROVE  /\ tx[x].guild \in Guild
                     /\ tx[x].uid \in Members(tx[x].guild)
                     /\ tx[x].role # "none"
                     /\ tx[x].role = "leader" => role'[tx[x].uid] = "leader"
            <4>1. tx[x].guild \in Guild /\ tx[x].uid \in Uid \ {u}
                BY <2>3, <3>2 DEF LocksInv, CommandsTyped, LocksInOrder, Running, Parties
            <4> QED
                BY <2>8, <3>2, <4>1 DEF ChecksInv, LeaversKnown
        <3> QED
            BY <2>5, <3>1, <3>2 DEF LeaversKnown
    <2>13. GuildsStay'
        BY <2>2, <2>6
           DEF ChecksInv, GuildsStay, NoTransaction, Running, LocksInv, CommandsTyped
    <2> QED
        BY <2>6, <2>7, <2>9, <2>10, <2>11, <2>12, <2>13 DEF TablesInv, ChecksInv
<1> QED
    BY <1>1, <1>2

LEMMA LeaveAsMemberKeeps ==
    ASSUME GuildInv, NEW w \in Worker, LeaveAsMember(w)
    PROVE  GuildInv'
<1> USE DEF GuildInv
<1> DEFINE u == tx[w].uid
<1>1. /\ tx[w].op = "leave" /\ tx[w].pc = "write" /\ u \in Uid /\ Finish(w)
      /\ UNCHANGED <<status, owner, applications>> /\ RemoveMember(u)
      /\ role' = [role EXCEPT ![u] = "none"]
    BY Writer DEF LeaveAsMember
<1>2. \A x \in Worker \ {w} : tx[x].pc \in {"guild", "write"} => tx[x].uid # u
    BY <1>1, Writer DEF Parties
<1>3. /\ DOMAIN roster' = Guild
      /\ \A h \in Guild : roster'[h] \in Seq(Uid) /\ IsInjective(roster'[h])
      /\ \A h \in Guild : Members(h)' = Members(h) \ {u}
    BY <1>1, MembersRemoved
<1>4. /\ LocksTyped' /\ LocksInv' /\ CreatorsApart'
      /\ \A x \in Worker : tx'[x] = IF x = w THEN NoTransaction ELSE tx[x]
    BY <1>1, FinishKeeps, Types DEF ChecksInv
<1> HIDE DEF u
<1>5. TypeOK'
    BY <1>1, <1>3, <1>4 DEF TypeOK, LocksTyped, Role
<1>6. \A v \in Uid : role'[v] = IF v = u THEN "none" ELSE role[v]
    BY <1>1 DEF TypeOK
<1>7. MembersHaveRoles' /\ OneGuildEach' /\ MembersOfOpen'
    BY <1>1, <1>3, <1>6 DEF TablesInv, MembersHaveRoles, OneGuildEach, MembersOfOpen
<1>8. ApplicationsArePending'
    BY <1>1, <1>6 DEF TablesInv, ApplicationsArePending, TypeOK
<1>9. LeaderIsOwner'
    BY <1>1, <1>3, <1>6, MembersArePlayers DEF TablesInv, LeaderIsOwner
<1>10. LeaversKnown'
    BY <1>1, <1>2, <1>3, <1>4, <1>6
       DEF ChecksInv, LeaversKnown, NoTransaction, LocksInv, CommandsTyped, LocksInOrder,
           Running, Parties
<1>11. GuildsStay'
    BY <1>1, <1>4 DEF ChecksInv, GuildsStay, NoTransaction, Running, LocksInv, CommandsTyped
<1> QED
    BY <1>4, <1>5, <1>7, <1>8, <1>9, <1>10, <1>11 DEF TablesInv, ChecksInv

LEMMA TransferLeadershipKeeps ==
    ASSUME GuildInv, NEW w \in Worker, TransferLeadership(w)
    PROVE  GuildInv'
<1> USE DEF GuildInv
<1> DEFINE u == tx[w].uid
           g == tx[w].guild
           heir == Head(Heirs(g, u))
<1>1. /\ tx[w].op = "leave" /\ tx[w].pc = "write" /\ tx[w].role = "leader"
      /\ u \in Uid /\ g \in Guild /\ Finish(w)
      /\ UNCHANGED <<status, applications>> /\ RemoveMember(u)
      /\ role' = [role EXCEPT ![u] = "none", ![heir] = "leader"]
      /\ owner' = [owner EXCEPT ![g] = heir] /\ Heirs(g, u) # <<>>
    BY Writer DEF TransferLeadership, Succeeds
<1>2. heir \in Members(g) /\ heir # u /\ heir \in Uid
    BY <1>1, HeirsAreMembers, MembersArePlayers
<1>3. \A x \in Worker \ {w} :
          tx[x].pc \in {"guild", "write"} => tx[x].uid # u
    BY <1>1, Writer DEF Parties
<1>4. /\ DOMAIN roster' = Guild
      /\ \A h \in Guild : roster'[h] \in Seq(Uid) /\ IsInjective(roster'[h])
      /\ \A h \in Guild : Members(h)' = Members(h) \ {u}
    BY <1>1, MembersRemoved
<1>5. /\ LocksTyped' /\ LocksInv' /\ CreatorsApart'
      /\ \A x \in Worker : tx'[x] = IF x = w THEN NoTransaction ELSE tx[x]
    BY <1>1, FinishKeeps, Types DEF ChecksInv
<1>6. u \in Members(g) /\ role[u] = "leader"
    BY <1>1 DEF ChecksInv, LeaversKnown
<1> HIDE DEF u, g, heir
<1>7. TypeOK'
    BY <1>1, <1>2, <1>4, <1>5 DEF TypeOK, LocksTyped, Role
<1>8. /\ \A v \in Uid : role'[v] = IF v = heir THEN "leader" ELSE IF v = u THEN "none" ELSE role[v]
      /\ \A h \in Guild : owner'[h] = IF h = g THEN heir ELSE owner[h]
    BY <1>1, <1>2 DEF TypeOK
<1>9. MembersHaveRoles' /\ OneGuildEach' /\ MembersOfOpen'
    <2>1. MembersHaveRoles'
        <3> SUFFICES ASSUME NEW v \in Uid
                     PROVE  role'[v] # "none" <=> \E h \in Guild : v \in Members(h)'
            BY DEF MembersHaveRoles
        <3>1. CASE v = u
            BY <1>2, <1>4, <1>8, <3>1
        <3>2. CASE v # u
            <4>1. \A h \in Guild : v \in Members(h)' <=> v \in Members(h)
                BY <1>4, <3>2
            <4>2. role'[v] # "none" <=> role[v] # "none"
                <5>1. CASE v = heir
                    <6>1. role[v] # "none"
                        BY <1>1, <1>2, <5>1 DEF TablesInv, MembersHaveRoles
                    <6> QED
                        BY <1>8, <5>1, <6>1
                <5>2. CASE v # heir
                    BY <1>8, <3>2, <5>2
                <5> QED
                    BY <5>1, <5>2
            <4> QED
                BY <4>1, <4>2 DEF TablesInv, MembersHaveRoles
        <3> QED
            BY <3>1, <3>2
    <2>2. OneGuildEach'
        BY <1>4 DEF TablesInv, OneGuildEach
    <2>3. MembersOfOpen'
        BY <1>1, <1>4 DEF TablesInv, MembersOfOpen
    <2> QED
        BY <2>1, <2>2, <2>3
<1>10. role[heir] # "none"
    BY <1>1, <1>2 DEF TablesInv, MembersHaveRoles
<1>11. ApplicationsArePending'
    BY <1>1, <1>8, <1>10 DEF TablesInv, ApplicationsArePending, TypeOK
<1>12. LeaderIsOwner'
    BY <1>1, <1>2, <1>4, <1>6, <1>8, MembersArePlayers DEF TablesInv, LeaderIsOwner, OneGuildEach
<1>13. LeaversKnown'
    <2>1. ASSUME NEW x \in Worker, tx'[x].op = "leave", tx'[x].pc \in {"guild", "write"}
          PROVE  x # w /\ tx'[x] = tx[x]
        BY <1>5, <2>1 DEF NoTransaction
    <2>2. ASSUME NEW x \in Worker \ {w}, tx[x].op = "leave", tx[x].pc \in {"guild", "write"}
          PROVE  /\ tx[x].guild \in Guild /\ tx[x].uid \in Uid \ {u}
                 /\ tx[x].uid \in Members(tx[x].guild)
                 /\ tx[x].role # "none"
                 /\ tx[x].role = "leader" => role'[tx[x].uid] = "leader"
        <3>1. tx[x].guild \in Guild /\ tx[x].uid \in Uid \ {u}
            BY <1>3, <2>2 DEF LocksInv, CommandsTyped, LocksInOrder, Running, Parties
        <3> QED
            BY <1>8, <2>2, <3>1 DEF ChecksInv, LeaversKnown
    <2> QED
        BY <1>4, <2>1, <2>2 DEF LeaversKnown
<1>14. GuildsStay'
    BY <1>1, <1>5 DEF ChecksInv, GuildsStay, NoTransaction, Running, LocksInv, CommandsTyped
<1> QED
    BY <1>5, <1>7, <1>9, <1>11, <1>12, <1>13, <1>14 DEF TablesInv, ChecksInv

LEMMA DissolveKeeps ==
    ASSUME GuildInv, NEW w \in Worker, Dissolve(w)
    PROVE  GuildInv'
<1> USE DEF GuildInv
<1> DEFINE u == tx[w].uid
           g == tx[w].guild
<1>1. /\ tx[w].op = "leave" /\ tx[w].pc = "write" /\ tx[w].role = "leader"
      /\ u \in Uid /\ g \in Guild /\ Finish(w) /\ status[g] = "open"
      /\ status' = [status EXCEPT ![g] = "dissolved"] /\ RemoveMember(u)
      /\ role' = [role EXCEPT ![u] = "none"]
      /\ owner' = [owner EXCEPT ![g] = None] /\ Heirs(g, u) = <<>>
      /\ applications' = applications \ ({g} \X Uid)
    BY Writer DEF Dissolve
<1>2. Members(g) \subseteq {u}
    BY <1>1, HeirsAreMembers
<1>3. \A x \in Worker \ {w} : /\ tx[x].pc \in {"guild", "write"} => tx[x].uid # u
                              /\ tx[x].pc = "write" => tx[x].guild # g
    BY <1>1, Writer DEF Parties
<1>4. /\ DOMAIN roster' = Guild
      /\ \A h \in Guild : roster'[h] \in Seq(Uid) /\ IsInjective(roster'[h])
      /\ \A h \in Guild : Members(h)' = Members(h) \ {u}
    BY <1>1, MembersRemoved
<1>5. /\ LocksTyped' /\ LocksInv' /\ CreatorsApart'
      /\ \A x \in Worker : tx'[x] = IF x = w THEN NoTransaction ELSE tx[x]
    BY <1>1, FinishKeeps, Types DEF ChecksInv
<1> HIDE DEF u, g
<1>6. TypeOK'
    BY <1>1, <1>4, <1>5 DEF TypeOK, LocksTyped, Role
<1>7. /\ \A v \in Uid : role'[v] = IF v = u THEN "none" ELSE role[v]
      /\ \A h \in Guild : /\ status'[h] = IF h = g THEN "dissolved" ELSE status[h]
                          /\ owner'[h] = IF h = g THEN None ELSE owner[h]
    BY <1>1 DEF TypeOK
<1>8. MembersHaveRoles' /\ OneGuildEach' /\ MembersOfOpen'
    BY <1>1, <1>2, <1>4, <1>7 DEF TablesInv, MembersHaveRoles, OneGuildEach, MembersOfOpen
<1>9. ApplicationsArePending'
    BY <1>1, <1>7 DEF TablesInv, ApplicationsArePending, TypeOK
<1>10. LeaderIsOwner'
    BY <1>1, <1>2, <1>4, <1>7, MembersArePlayers DEF TablesInv, LeaderIsOwner
<1>11. LeaversKnown'
    BY <1>1, <1>3, <1>4, <1>5, <1>7
       DEF ChecksInv, LeaversKnown, NoTransaction, LocksInv, CommandsTyped, LocksInOrder,
           Running, Parties
<1>12. GuildsStay'
    BY <1>1, <1>3, <1>5, <1>7
       DEF ChecksInv, GuildsStay, NoTransaction, Running, LocksInv, CommandsTyped
<1> QED
    BY <1>5, <1>6, <1>8, <1>9, <1>10, <1>11, <1>12 DEF TablesInv, ChecksInv

-----------------------------------------------------------------------------

LEMMA GuildNext == GuildInv /\ [Next]_vars => GuildInv'
<1> SUFFICES ASSUME GuildInv, [Next]_vars PROVE GuildInv'
    OBVIOUS
<1>1. CASE UNCHANGED vars
    <2>1. TablesTyped' /\ TablesInv' /\ \A g \in Guild : Members(g)' = Members(g)
        BY <1>1, TablesStay, Types DEF GuildInv, vars
    <2>2. TypeOK' /\ LocksInv' /\ ChecksInv'
        BY <1>1, <2>1
           DEF GuildInv, vars, tables, locks, TypeOK, LocksInv, PlayersLocked, GuildLocked,
               LocksInOrder, CommandsTyped, ChecksInv, LeaversKnown, GuildsStay, CreatorsApart,
               Running, Members
    <2> QED
        BY <2>1, <2>2 DEF GuildInv
<1>2. ASSUME NEW w \in Worker, BeginSome(w) \/ Continue(w) \/ Abort(w) PROVE GuildInv'
    <2>1. CASE BeginSome(w)
        BY <2>1, BeginSomeKeeps
    <2>2. CASE Continue(w)
        BY <2>2, LockPlayerKeeps, ReadMembershipKeeps, LockGuildKeeps, CreateKeeps,
           ApplyJoinKeeps, ApproveJoinKeeps, LeaveAsMemberKeeps, TransferLeadershipKeeps,
           DissolveKeeps DEF Continue
    <2>3. CASE Abort(w)
        BY <2>3, FinishWithoutWriting DEF Abort
    <2> QED
        BY <1>2, <2>1, <2>2, <2>3
<1> QED
    BY <1>1, <1>2 DEF Next

\* Init and every step establish what the locks are for.
THEOREM Invariance == Spec => []GuildInv
BY GuildInit, GuildNext, PTL DEF Spec

\* The tables, the locks and the transactions have their types; a roster never
\* names a player twice.
THEOREM Typing == Spec => []TypeOK
BY Invariance, PTL DEF GuildInv

\* Whichever commands run at the same time, an application waits for an open
\* guild and comes from a player who is in none: ApplyJoin and ApproveJoin have
\* locked the applicant, Dissolve the guild.
THEOREM Pending == Spec => []ApplicationsArePending
<1>1. GuildInv => ApplicationsArePending
    BY DEF GuildInv, TablesInv
<1> QED
    BY <1>1, Invariance, PTL

\* Create, TransferLeadership and Dissolve keep the leader's role and owner_uid
\* together, so a guild has one leader at most.
THEOREM OwnerLeads == Spec => []LeaderIsOwner
<1>1. GuildInv => LeaderIsOwner
    BY DEF GuildInv, TablesInv
<1> QED
    BY <1>1, Invariance, PTL

-----------------------------------------------------------------------------
\* No set of commands wait for one another: a command that holds a guild waits
\* for nothing, and of those that wait for players the one that waits for the
\* greatest uid waits for a command that waits for a greater one.
THEOREM NoDeadlock == Spec => []NoCircularWait
<1>1. ASSUME GuildInv, NEW ws \in (SUBSET Worker) \ {{}}, \A w \in ws : \E x \in ws : Waits(w, x)
      PROVE  FALSE
    <2> DEFINE T == {NextToLock(tx[w]) : w \in ws}
    <2>1. /\ ws \subseteq Worker /\ ws # {}
          /\ PlayersLocked /\ GuildLocked /\ LocksInOrder /\ CommandsTyped
        BY <1>1 DEF GuildInv, LocksInv
    <2>2. ASSUME NEW w \in ws, NEW x \in ws, Waits(w, x)
          PROVE  tx[x].pc \in {"players", "guild"} /\ tx[w].pc \in {"players", "guild"}
        <3>1. PICK y \in ws : Waits(x, y)
            BY <1>1
        <3> QED
            BY <2>2, <3>1 DEF Waits
    <2>3. ASSUME NEW w \in ws PROVE tx[w].pc = "players"
        <3>1. PICK x \in ws : Waits(w, x)
            BY <1>1
        <3>2. tx[x].pc # "write"
            BY <2>2, <3>1
        <3>3. tx[w].pc # "guild"
            <4> SUFFICES ASSUME tx[w].pc = "guild" PROVE FALSE
                OBVIOUS
            <4>1. guildLock[tx[w].guild] = x /\ tx[w].guild \in Guild
                BY <2>1, <3>1 DEF Waits, CommandsTyped
            <4> QED
                BY <2>1, <3>2, <4>1 DEF GuildLocked
        <3> QED
            BY <3>1, <3>3 DEF Waits
    <2>4. ASSUME NEW w \in ws
          PROVE  /\ NextToLock(tx[w]) \in tx[w].toLock
                 /\ NextToLock(tx[w]) \in Uid
        <3>1. tx[w].toLock # {} /\ tx[w].toLock \subseteq Uid
            BY <2>1, <2>3 DEF LocksInOrder, Running
        <3> QED
            BY <3>1, NextIsLeast
    <2>5. ASSUME NEW w \in ws
          PROVE  \E x \in ws : NextToLock(tx[w]) < NextToLock(tx[x])
        <3>1. PICK x \in ws : Waits(w, x)
            BY <1>1
        <3>2. playerLock[NextToLock(tx[w])] = x
            BY <2>3, <3>1 DEF Waits
        <3>3. Running(x) /\ NextToLock(tx[w]) \in Parties(tx[x]) \ tx[x].toLock
            BY <2>1, <2>4, <3>2 DEF PlayersLocked
        <3>4. NextToLock(tx[x]) \in tx[x].toLock
            BY <2>4
        <3> QED
            BY <2>1, <3>3, <3>4 DEF LocksInOrder
    <2>6. T \subseteq Uid /\ T # {}
        BY <2>1, <2>4
    <2>7. IsFiniteSet(T) /\ T \in SUBSET Nat
        BY <2>6, UidOrdered, FS_Subset
    <2>8. PICK m \in T : \A v \in T : v <= m
        <3> HIDE DEF T
        <3> QED
            BY <2>6, <2>7, Greatest
    <2>9. PICK w \in ws : m = NextToLock(tx[w])
        OBVIOUS
    <2>10. PICK x \in ws : NextToLock(tx[w]) < NextToLock(tx[x])
        BY <2>5
    <2>11. NextToLock(tx[x]) \in T /\ NextToLock(tx[x]) \in Nat /\ m \in Nat
        BY <2>7
    <2> QED
        BY <2>8, <2>9, <2>10, <2>11
<1>2. GuildInv => NoCircularWait
    BY <1>1 DEF NoCircularWait
<1> QED
    BY <1>2, Invariance, PTL

-----------------------------------------------------------------------------
(* The refinement. *)

\* The guild of every player, as GuildMembership sees it.
GuildOfEach == [u \in Uid |-> IF role[u] = "none" THEN None ELSE GuildOf(u)]

WhoIsWhere ==
    \A u \in Uid : /\ GuildOfEach[u] \in Guild \cup {None}
                   /\ \A g \in Guild : GuildOfEach[u] = g <=> u \in Members(g)

LEMMA GuildOfEachIs == GuildInv => WhoIsWhere
<1> SUFFICES ASSUME GuildInv, NEW u \in Uid
             PROVE  /\ GuildOfEach[u] \in Guild \cup {None}
                    /\ \A g \in Guild : GuildOfEach[u] = g <=> u \in Members(g)
    BY DEF WhoIsWhere
<1>1. CASE role[u] = "none"
    BY <1>1, NoneFresh DEF GuildOfEach, GuildInv, TablesInv, MembersHaveRoles
<1>2. CASE role[u] # "none"
    <2>1. PICK g \in Guild : u \in Members(g)
        BY <1>2 DEF GuildInv, TablesInv, MembersHaveRoles
    <2>2. \A h \in Guild : u \in Members(h) => GuildOf(u) = h
        BY TheGuildOf DEF GuildInv, TablesInv
    <2>3. GuildOfEach[u] = g
        BY <1>2, <2>1, <2>2 DEF GuildOfEach
    <2> QED
        BY <2>1, <2>2, <2>3
<1> QED
    BY <1>1, <1>2

LEMMA GuildOfEachStays == GuildInv' => WhoIsWhere'
BY GuildOfEachIs, PTL

LEMMA NoGuildIs ==
    ASSUME GuildInv, NEW u \in Uid
    PROVE  GuildOfEach[u] = None <=> role[u] = "none"
BY GuildOfEachIs, NoneFresh DEF WhoIsWhere, GuildInv, TablesInv, MembersHaveRoles

\* One player moves and the others stay where they are.
LEMMA OneMoves ==
    ASSUME GuildInv, GuildInv', NEW u \in Uid, NEW g \in Guild \cup {None},
           g = None => \A h \in Guild : u \notin Members(h)',
           g # None => u \in Members(g)',
           \A v \in Uid \ {u}, h \in Guild : v \in Members(h)' <=> v \in Members(h)
    PROVE  GuildOfEach' = [GuildOfEach EXCEPT ![u] = g]
<1>1. WhoIsWhere /\ WhoIsWhere'
    BY GuildOfEachIs, GuildOfEachStays
<1>2. GuildOfEach'[u] = g
    BY <1>1, NoneFresh DEF WhoIsWhere
<1>3. ASSUME NEW v \in Uid \ {u} PROVE GuildOfEach'[v] = GuildOfEach[v]
    BY <1>1, NoneFresh DEF WhoIsWhere
<1> QED
    BY <1>2, <1>3 DEF GuildOfEach

LEMMA CreateFounds ==
    ASSUME GuildInv, GuildInv', NEW w \in Worker, Create(w)
    PROVE  [Membership!Next]_<<status, GuildOfEach, applications>>
<1>1. PICK g \in Guild, u \in Uid : g = tx[w].guild /\ u = tx[w].uid
    BY Writer DEF Create
<1>2. CASE ~ MayCreate(tx[w])
    BY <1>2 DEF Create, tables, GuildOfEach, GuildOf, Members
<1>3. CASE MayCreate(tx[w])
    <2>1. /\ status[g] = "unused" /\ role[u] = "none"
          /\ status' = [status EXCEPT ![g] = "open"] /\ AddMember(g, u, "leader")
          /\ applications' = applications \ (Guild \X {u})
        BY <1>1, <1>3, Writer DEF Create, MayCreate, AddMember, ApplicationsLeft, ApplicationsOf
    <2>2. \A h \in Guild : u \notin Members(h)
        BY <2>1 DEF GuildInv, TablesInv, MembersHaveRoles
    <2>3. /\ Members(g)' = Members(g) \cup {u}
          /\ \A h \in Guild \ {g} : Members(h)' = Members(h)
        BY <2>1, <2>2, MembersAdded DEF GuildInv
    <2>4. GuildOfEach' = [GuildOfEach EXCEPT ![u] = g]
        BY <2>3, NoneFresh, OneMoves
    <2>5. GuildOfEach[u] = None
        BY <2>1, NoGuildIs
    <2>6. Membership!Found(u, g)
        BY <2>1, <2>4, <2>5 DEF Membership!Found, Membership!Enter, GuildOfEach
    <2> QED
        BY <2>6 DEF Membership!Next
<1> QED
    BY <1>2, <1>3

LEMMA ApplyJoinApplies ==
    ASSUME GuildInv, GuildInv', NEW w \in Worker, ApplyJoin(w)
    PROVE  [Membership!Next]_<<status, GuildOfEach, applications>>
<1>1. PICK g \in Guild, u \in Uid : g = tx[w].guild /\ u = tx[w].uid
    BY Writer DEF ApplyJoin
<1>2. GuildOfEach' = GuildOfEach /\ status' = status
    BY DEF ApplyJoin, GuildOfEach, GuildOf, Members
<1>3. CASE role[u] = "none"
    <2>1. GuildOfEach[u] = None /\ status[g] = "open"
        BY <1>1, <1>3, NoGuildIs, Writer DEF ApplyJoin
    <2>2. Membership!Apply(u, g)
        BY <1>1, <1>2, <1>3, <2>1 DEF Membership!Apply, ApplyJoin, AddApplication, GuildOfEach
    <2> QED
        BY <2>2 DEF Membership!Next
<1>4. CASE role[u] # "none"
    BY <1>1, <1>2, <1>4 DEF ApplyJoin
<1> QED
    BY <1>3, <1>4

LEMMA ApproveJoinJoins ==
    ASSUME GuildInv, GuildInv', NEW w \in Worker, ApproveJoin(w)
    PROVE  [Membership!Next]_<<status, GuildOfEach, applications>>
<1>1. PICK g \in Guild, u \in Uid : g = tx[w].guild /\ u = tx[w].target
    BY Writer DEF ApproveJoin
<1>2. CASE ~ MayApprove(tx[w])
    BY <1>2 DEF ApproveJoin, tables, GuildOfEach, GuildOf, Members
<1>3. CASE MayApprove(tx[w])
    <2>1. /\ status[g] = "open" /\ role[u] = "none" /\ <<g, u>> \in applications
          /\ status' = status /\ AddMember(g, u, "member")
          /\ applications' = applications \ (Guild \X {u})
        BY <1>1, <1>3, Writer
           DEF ApproveJoin, MayApprove, Applied, AddMember, ApplicationsLeft, ApplicationsOf
    <2>2. \A h \in Guild : u \notin Members(h)
        BY <2>1 DEF GuildInv, TablesInv, MembersHaveRoles
    <2>3. /\ Members(g)' = Members(g) \cup {u}
          /\ \A h \in Guild \ {g} : Members(h)' = Members(h)
        BY <2>1, <2>2, MembersAdded DEF GuildInv
    <2>4. GuildOfEach' = [GuildOfEach EXCEPT ![u] = g]
        BY <2>3, NoneFresh, OneMoves
    <2>5. GuildOfEach[u] = None
        BY <2>1, NoGuildIs
    <2>6. Membership!Join(u, g)
        BY <2>1, <2>4, <2>5 DEF Membership!Join, Membership!Enter, GuildOfEach
    <2> QED
        BY <2>6 DEF Membership!Next
<1> QED
    BY <1>2, <1>3

\* A player who leaves a guild that goes on.
LEMMA LeavingQuits ==
    ASSUME GuildInv, GuildInv', NEW w \in Worker, LeaveAsMember(w) \/ TransferLeadership(w)
    PROVE  [Membership!Next]_<<status, GuildOfEach, applications>>
<1>1. PICK g \in Guild, u \in Uid : g = tx[w].guild /\ u = tx[w].uid
    BY Writer DEF LeaveAsMember, TransferLeadership
<1>2. /\ RemoveMember(u) /\ UNCHANGED <<status, applications>> /\ u \in Members(g)
    BY <1>1 DEF LeaveAsMember, TransferLeadership, GuildInv, ChecksInv, LeaversKnown
<1>3. \A h \in Guild : Members(h)' = Members(h) \ {u}
    BY <1>2, MembersRemoved DEF GuildInv
<1>4. GuildOfEach' = [GuildOfEach EXCEPT ![u] = None]
    BY <1>3, OneMoves
<1>5. GuildOfEach[u] = g
    BY <1>2, GuildOfEachIs DEF WhoIsWhere
<1>6. Membership!Quit(u, g)
    BY <1>2, <1>4, <1>5 DEF Membership!Quit, GuildOfEach
<1> QED
    BY <1>6 DEF Membership!Next

LEMMA DissolveDissolves ==
    ASSUME GuildInv, GuildInv', NEW w \in Worker, Dissolve(w)
    PROVE  [Membership!Next]_<<status, GuildOfEach, applications>>
<1>1. PICK g \in Guild, u \in Uid : g = tx[w].guild /\ u = tx[w].uid
    BY Writer DEF Dissolve
<1>2. /\ RemoveMember(u) /\ status' = [status EXCEPT ![g] = "dissolved"]
      /\ applications' = applications \ ({g} \X Uid)
      /\ Heirs(g, u) = <<>> /\ u \in Members(g)
    BY <1>1 DEF Dissolve, GuildInv, ChecksInv, LeaversKnown
<1>3. \A h \in Guild : Members(h)' = Members(h) \ {u}
    BY <1>2, MembersRemoved DEF GuildInv
<1>4. GuildOfEach' = [GuildOfEach EXCEPT ![u] = None]
    BY <1>3, OneMoves
<1>5. Members(g) = {u}
    BY <1>2, HeirsAreMembers DEF GuildInv
<1>6. {v \in Uid : GuildOfEach[v] = g} = {u}
    BY <1>5, GuildOfEachIs DEF WhoIsWhere
<1>7. Membership!Dissolve(u, g)
    BY <1>2, <1>4, <1>6 DEF Membership!Dissolve, Membership!Members, GuildOfEach
<1> QED
    BY <1>7 DEF Membership!Next

\* The commands, statement by statement, implement the guild membership that
\* players are promised: every commit is one step of it or none.
THEOREM ImplementsMembership == Spec => MembershipIsAtomic
<1>1. Init => Membership!Init
    BY DEF Init, Membership!Init
<1>2. GuildInv /\ GuildInv' /\ [Next]_vars =>
          [Membership!Next]_<<status, GuildOfEach, applications>>
    <2> SUFFICES ASSUME GuildInv, GuildInv', [Next]_vars
                 PROVE  [Membership!Next]_<<status, GuildOfEach, applications>>
        OBVIOUS
    <2>1. ASSUME UNCHANGED tables PROVE UNCHANGED <<status, GuildOfEach, applications>>
        BY <2>1 DEF tables, GuildOfEach, GuildOf, Members
    <2>2. CASE UNCHANGED vars
        BY <2>1, <2>2 DEF vars
    <2>3. ASSUME NEW w \in Worker, BeginSome(w) \/ Continue(w) \/ Abort(w)
          PROVE  [Membership!Next]_<<status, GuildOfEach, applications>>
        <3>1. CASE BeginSome(w)
            BY <2>1, <3>1, Zenon
               DEF BeginSome, BeginLeave, BeginCreate, BeginApply, BeginApprove, Begin
        <3>2. CASE LockPlayer(w) \/ ReadMembership(w) \/ LockGuild(w) \/ Abort(w)
            BY <2>1, <3>2 DEF LockPlayer, ReadMembership, LockGuild, Abort
        <3>3. CASE Create(w) \/ ApplyJoin(w) \/ ApproveJoin(w)
            BY <3>3, CreateFounds, ApplyJoinApplies, ApproveJoinJoins
        <3>4. CASE LeaveAsMember(w) \/ TransferLeadership(w) \/ Dissolve(w)
            BY <3>4, LeavingQuits, DissolveDissolves
        <3> QED
            BY <2>3, <3>1, <3>2, <3>3, <3>4, Zenon DEF Continue
    <2> QED
        BY <2>2, <2>3 DEF Next
<1>3. GuildInv /\ GuildInv' /\ [Next]_vars =>
          [Membership!Next]_<<status, [u \in Uid |-> IF role[u] = "none" THEN None ELSE GuildOf(u)],
                              applications>>
    BY <1>2 DEF GuildOfEach
<1> QED
    BY <1>1, <1>3, Invariance, PTL DEF Spec, MembershipIsAtomic, Membership!Spec
=============================================================================
