------------------------- MODULE CommandDispatchProofs -------------------------
(***************************************************************************)
(* The dispatcher's two promises, for any servers, connections, commands   *)
(* and sizes of the cache: a result that is kept is not computed again, and *)
(* the balance is the sum of its log while one server executes at a time.  *)
(*                                                                         *)
(* ShardHeld is what the mutex of the player's shard is for.  From it no   *)
(* two connections execute on one server (OneServer adds: on two servers,  *)
(* while overlap is false), so what a transaction has read is still the    *)
(* balance when it writes (BalanceStands).                                 *)
(***************************************************************************)
EXTENDS CommandDispatch, FiniteSetTheorems, SequenceTheorems, TLAPS

Runs(c) == task[c].pc \in Executing

ShardHeld ==
    \A n \in Node, c \in Conn : shard[n] = c <=> On[c] = n /\ Runs(c)

OneServer == overlap \/ \A c, d \in Conn : Runs(c) /\ Runs(d) => On[c] = On[d]

CommandsKnown ==
    \A c \in Conn :
        /\ task[c].pc # "idle" => task[c].command \in Command
        /\ task[c].pc = "write" => NewBalance(c) \in Nat

BalanceStands == overlap \/ \A c \in Conn : task[c].pc = "write" => task[c].balance = gold

DispatchInv ==
    /\ TypeOK /\ ShardHeld /\ OneServer /\ CommandsKnown
    /\ BalanceStands /\ KnownIsNotExecuted /\ BooksBalance

-----------------------------------------------------------------------------
(* What Sum computes: a recursive function exists for every sequence and is *)
(* the only one, and a command appended adds its change.                    *)

\* Induction: no number is the least one outside S.
LEMMA SetInduction ==
    ASSUME NEW S, 0 \in S, \A n \in Nat : n \in S => n + 1 \in S
    PROVE  \A n \in Nat : n \in S
<1> SUFFICES ASSUME NEW k \in Nat, k \notin S PROVE FALSE
    OBVIOUS
<1> DEFINE T == {n \in Nat : n \notin S}
           R == OpToRel(<, Nat)
<1>1. \E x \in T : \A y \in T : ~ (<<y, x>> \in R)
    <2>1. T \subseteq Nat /\ T # {} /\ IsWellFoundedOn(R, Nat)
        BY NatLessThanWellFounded
    <2> HIDE DEF T, R
    <2> QED
        BY <2>1, WFMin
<1>2. PICK x \in T : \A y \in T : ~ (y < x)
    BY <1>1 DEF OpToRel
<1>3. x - 1 \in Nat /\ x - 1 < x /\ x - 1 + 1 = x
    OBVIOUS
<1> QED
    BY <1>2, <1>3

\* f is the running total of the first n commands.
IsTotal(f, s, n) == f = [k \in 0 .. n |-> IF k = 0 THEN 0 ELSE f[k - 1] + Delta[s[k]]]

LEMMA TotalExists ==
    ASSUME NEW s
    PROVE  \A n \in Nat : \E f : IsTotal(f, s, n)
<1> DEFINE S == {n \in Nat : \E f : IsTotal(f, s, n)}
<1>1. 0 \in S
    <2>1. IsTotal([k \in 0 .. 0 |-> 0], s, 0)
        BY DEF IsTotal
    <2> QED
        BY <2>1
<1>2. ASSUME NEW n \in Nat, n \in S PROVE n + 1 \in S
    <2>1. PICK f : IsTotal(f, s, n)
        BY <1>2
    <2> DEFINE g == [k \in 0 .. n + 1 |-> IF k = n + 1 THEN f[n] + Delta[s[k]] ELSE f[k]]
    <2>2. ASSUME NEW k \in 0 .. n + 1
          PROVE  g[k] = IF k = 0 THEN 0 ELSE g[k - 1] + Delta[s[k]]
        <3>1. CASE k = n + 1
            BY <3>1
        <3>2. CASE k \in 0 .. n
            <4>1. g[k] = f[k] /\ (k # 0 => k - 1 \in 0 .. n + 1 /\ g[k - 1] = f[k - 1])
                BY <3>2
            <4>2. f[k] = IF k = 0 THEN 0 ELSE f[k - 1] + Delta[s[k]]
                BY <2>1, <3>2 DEF IsTotal
            <4> QED
                BY <4>1, <4>2
        <3> QED
            BY <3>1, <3>2
    <2>3. IsTotal(g, s, n + 1)
        BY <2>2 DEF IsTotal
    <2> QED
        BY <2>3
<1>3. \A n \in Nat : n \in S
    <2> HIDE DEF S
    <2> QED
        BY <1>1, <1>2, SetInduction
<1> QED
    BY <1>3

\* Totals of sequences that begin alike are alike, and integers.
LEMMA TotalsAgree ==
    ASSUME NEW s, NEW t, NEW m \in Nat, NEW n \in Nat, m <= n,
           \A k \in 1 .. m : s[k] \in Command /\ s[k] = t[k],
           NEW f, IsTotal(f, s, m), NEW g, IsTotal(g, t, n)
    PROVE  \A k \in 0 .. m : f[k] \in Int /\ f[k] = g[k]
<1> DEFINE S == {k \in Nat : k \in 0 .. m => f[k] \in Int /\ f[k] = g[k]}
<1>1. 0 \in S
    <2>1. f[0] = 0 /\ g[0] = 0
        BY DEF IsTotal
    <2> QED
        BY <2>1
<1>2. ASSUME NEW k \in Nat, k \in S PROVE k + 1 \in S
    <2> SUFFICES ASSUME k + 1 \in 0 .. m PROVE f[k + 1] \in Int /\ f[k + 1] = g[k + 1]
        OBVIOUS
    <2>1. f[k] \in Int /\ f[k] = g[k]
        BY <1>2
    <2>2. /\ f[k + 1] = f[k] + Delta[s[k + 1]]
          /\ g[k + 1] = g[k] + Delta[t[k + 1]]
        BY DEF IsTotal
    <2>3. s[k + 1] \in Command /\ s[k + 1] = t[k + 1]
        OBVIOUS
    <2> QED
        BY <2>1, <2>2, <2>3, CommandTyped
<1>3. \A k \in Nat : k \in S
    <2> HIDE DEF S
    <2> QED
        BY <1>1, <1>2, SetInduction
<1> QED
    BY <1>3

LEMMA SumIsTotal ==
    ASSUME NEW s \in Seq(Command)
    PROVE  \E f : IsTotal(f, s, Len(s)) /\ Sum(s) = f[Len(s)]
<1> DEFINE total == CHOOSE f : f = [k \in 0 .. Len(s) |-> IF k = 0 THEN 0
                                                    ELSE f[k - 1] + Delta[s[k]]]
<1>1. \E f : IsTotal(f, s, Len(s))
    BY TotalExists, LenProperties
<1>2. IsTotal(total, s, Len(s))
    BY <1>1 DEF IsTotal
<1>3. Sum(s) = total[Len(s)]
    BY DEF Sum
<1> QED
    BY <1>2, <1>3

LEMMA SumOfNone == Sum(<<>>) = 0
<1>1. PICK f : IsTotal(f, <<>>, 0) /\ Sum(<<>>) = f[0]
    BY SumIsTotal, EmptySeq
<1> QED
    BY <1>1 DEF IsTotal

LEMMA SumOfAppend ==
    ASSUME NEW s \in Seq(Command), NEW m \in Command
    PROVE  Sum(s) \in Int /\ Sum(Append(s, m)) = Sum(s) + Delta[m]
<1> DEFINE t == Append(s, m)
           n == Len(s)
<1>1. /\ n \in Nat /\ t \in Seq(Command) /\ Len(t) = n + 1 /\ t[n + 1] = m
      /\ \A k \in 1 .. n : s[k] \in Command /\ s[k] = t[k]
    BY LenProperties, ElementOfSeq
<1> HIDE DEF t, n
<1>2. PICK f : IsTotal(f, s, n) /\ Sum(s) = f[n]
    BY SumIsTotal DEF n
<1>3. PICK g : IsTotal(g, t, n + 1) /\ Sum(t) = g[n + 1]
    BY <1>1, SumIsTotal
<1>4. f[n] \in Int /\ f[n] = g[n]
    <2>1. n <= n + 1 /\ n + 1 \in Nat /\ n \in 0 .. n
        BY <1>1
    <2>2. \A k \in 0 .. n : f[k] \in Int /\ f[k] = g[k]
        BY <1>1, <1>2, <1>3, <2>1, TotalsAgree
    <2> QED
        BY <2>1, <2>2
<1>5. g[n + 1] = g[n] + Delta[m]
    BY <1>1, <1>3 DEF IsTotal
<1> QED
    BY <1>2, <1>3, <1>4, <1>5 DEF t

-----------------------------------------------------------------------------
(* The invariant. *)

LEMMA DispatchInit == Init => DispatchInv
<1> SUFFICES ASSUME Init PROVE DispatchInv
    OBVIOUS
<1>1. \A c \in Conn : task[c] = NoTask
    BY DEF Init
<1>2. NoTask \in Task /\ NoTask.pc = "idle"
    BY DEF Task, NoTask
<1>3. TypeOK
    <2>1. /\ open \subseteq Conn /\ owner \in Node \cup {None} /\ task \in [Conn -> Task]
          /\ shard \in [Node -> Conn \cup {None}] /\ \A n \in Node : shard[n] = None
          /\ gold \in Nat /\ booked \in Seq(Command) /\ overlap \in BOOLEAN
        BY <1>2, EmptySeq, SizesTyped DEF Init
    <2>2. /\ DOMAIN cache = Node
          /\ \A n \in Node : cache[n] \in Seq(Command) /\ Len(cache[n]) <= CacheSize
        BY EmptySeq, SizesTyped DEF Init
    <2> QED
        BY <2>1, <2>2 DEF TypeOK
<1>4. ShardHeld /\ OneServer /\ CommandsKnown /\ BalanceStands /\ KnownIsNotExecuted
    BY <1>1, <1>2, NoneFresh
       DEF Init, ShardHeld, OneServer, CommandsKnown, BalanceStands, KnownIsNotExecuted,
           Runs, Executing
<1>5. BooksBalance
    BY SumOfNone, SizesTyped DEF Init, BooksBalance
<1> QED
    BY <1>3, <1>4, <1>5 DEF DispatchInv

\* Steps that neither execute nor keep anything: connections, requests, and
\* memory that is lost.
LEMMA NothingRuns ==
    ASSUME DispatchInv, TypeOK', ShardHeld', UNCHANGED <<gold, booked, overlap>>,
           \A c \in Conn : task'[c] = task[c] \/ task'[c].pc \in {"idle", "queued"},
           \A c \in Conn : task'[c].pc # "idle" => task'[c].command \in Command,
           \A n \in Node : cache'[n] = cache[n] \/ cache'[n] = <<>>
    PROVE  DispatchInv'
<1>1. \A c \in Conn : Runs(c)' => task'[c] = task[c] /\ Runs(c)
    BY DEF Runs, Executing
<1>2. \A c \in Conn : task'[c].pc = "write" => task'[c] = task[c]
    OBVIOUS
<1>3. OneServer' /\ CommandsKnown' /\ BalanceStands' /\ BooksBalance'
    BY <1>1, <1>2
       DEF DispatchInv, OneServer, CommandsKnown, BalanceStands, BooksBalance, NewBalance
<1>4. KnownIsNotExecuted'
    <2> SUFFICES ASSUME NEW c \in Conn, task'[c].pc \in Executing,
                        NEW k \in Range(cache'[On[c]]), ReqId[k] = ReqId[task'[c].command]
                 PROVE  FALSE
        BY DEF KnownIsNotExecuted, Known
    <2>1. On[c] \in Node
        BY ConnTyped
    <2>2. cache'[On[c]] = cache[On[c]]
        BY <2>1 DEF Range
    <2> QED
        BY <1>1, <2>2 DEF DispatchInv, KnownIsNotExecuted, Known, Runs
<1> QED
    BY <1>3, <1>4 DEF DispatchInv

LEMMA LoginKeeps ==
    ASSUME DispatchInv, NEW c \in Conn, Login(c)
    PROVE  DispatchInv'
<1>1. TypeOK'
    BY ConnTyped, SizesTyped DEF DispatchInv, TypeOK, Login
<1>2. ShardHeld'
    BY DEF DispatchInv, ShardHeld, Runs, Login
<1> QED
    BY <1>1, <1>2, NothingRuns, ConnTyped DEF Login, DispatchInv, TypeOK, CommandsKnown

LEMMA OthersKeep ==
    ASSUME DispatchInv, (\E c \in Conn : Close(c)) \/ OwnerExpires
    PROVE  DispatchInv'
<1>1. TypeOK'
    BY DEF DispatchInv, TypeOK, Close, OwnerExpires
<1>2. ShardHeld'
    BY DEF DispatchInv, ShardHeld, Runs, Close, OwnerExpires
<1> QED
    BY <1>1, <1>2, NothingRuns DEF Close, OwnerExpires, DispatchInv, CommandsKnown

LEMMA ForgetKeeps ==
    ASSUME DispatchInv, NEW n \in Node, Forget(n)
    PROVE  DispatchInv'
<1>1. TypeOK'
    BY SizesTyped DEF DispatchInv, TypeOK, Forget
<1>2. ShardHeld'
    BY DEF DispatchInv, ShardHeld, Runs, Forget
<1> QED
    BY <1>1, <1>2, NothingRuns DEF Forget, DispatchInv, TypeOK, CommandsKnown

LEMMA CrashKeeps ==
    ASSUME DispatchInv, NEW n \in Node, Crash(n)
    PROVE  DispatchInv'
<1>1. NoTask \in Task /\ NoTask.pc = "idle"
    BY DEF Task, NoTask
<1>2. \A c \in Conn : task'[c] = IF On[c] = n THEN NoTask ELSE task[c]
    BY DEF Crash
<1>3. \A k \in Node : shard'[k] = IF k = n THEN None ELSE shard[k]
    BY DEF Crash, DispatchInv, TypeOK
<1>4. ShardHeld'
    BY <1>1, <1>2, <1>3, NoneFresh DEF DispatchInv, ShardHeld, Runs, Executing
<1>5. TypeOK'
    <2>1. task' \in [Conn -> Task] /\ shard' \in [Node -> Conn \cup {None}]
        BY <1>1 DEF Crash, DispatchInv, TypeOK
    <2>2. \A k \in Node : shard'[k] # None =>
              On[shard'[k]] = k /\ task'[shard'[k]].pc \in Executing
        BY <1>4, <2>1 DEF ShardHeld, Runs
    <2>3. /\ DOMAIN cache' = Node
          /\ \A k \in Node : cache'[k] \in Seq(Command) /\ Len(cache'[k]) <= CacheSize
        BY SizesTyped DEF Crash, DispatchInv, TypeOK
    <2> QED
        BY <2>1, <2>2, <2>3 DEF Crash, DispatchInv, TypeOK
<1> QED
    BY <1>1, <1>2, <1>4, <1>5, NothingRuns DEF Crash, DispatchInv, TypeOK, CommandsKnown

LEMMA ReceiveKeeps ==
    ASSUME DispatchInv, NEW c \in Conn, NEW m \in Command, Receive(c, m)
    PROVE  DispatchInv'
<1> DEFINE t == [NoTask EXCEPT !.pc = "queued", !.command = m]
<1>1. t \in Task /\ t.pc = "queued" /\ t.command = m
    <2>1. NoTask \in Task
        BY DEF NoTask, Task
    <2> QED
        BY <2>1 DEF Task
<1>2. /\ task[c].pc = "idle" /\ UNCHANGED <<open, owner, shard, cache, gold, booked, overlap>>
      /\ task' = [task EXCEPT ![c] = t]
    BY DEF Receive, Become
<1> HIDE DEF t
<1>3. \A d \in Conn : task'[d] = IF d = c THEN t ELSE task[d]
    BY <1>2 DEF DispatchInv, TypeOK
<1>4. ShardHeld'
    BY <1>1, <1>2, <1>3 DEF DispatchInv, ShardHeld, Runs, Executing
<1>5. TypeOK'
    BY <1>1, <1>2, <1>3 DEF DispatchInv, TypeOK, Executing
<1> QED
    BY <1>1, <1>2, <1>3, <1>4, <1>5, NothingRuns DEF DispatchInv, CommandsKnown

-----------------------------------------------------------------------------
(* The handler.  Return leaves the shard to the next command. *)

LEMMA ReturnTypes ==
    ASSUME TypeOK, ShardHeld, NEW c \in Conn, Return(c), Runs(c)
    PROVE  /\ \A d \in Conn : task'[d] = IF d = c THEN NoTask ELSE task[d]
           /\ task' \in [Conn -> Task] /\ shard' \in [Node -> Conn \cup {None}]
           /\ ShardHeld' /\ NoTask.pc = "idle"
           /\ \A n \in Node : shard'[n] # None =>
                  On[shard'[n]] = n /\ task'[shard'[n]].pc \in Executing
<1>1. NoTask \in Task /\ NoTask.pc = "idle"
    BY DEF Task, NoTask
<1>2. \A d \in Conn : task'[d] = IF d = c THEN NoTask ELSE task[d]
    BY DEF Return, Become, TypeOK
<1>3. \A n \in Node : shard'[n] = IF n = On[c] THEN None ELSE shard[n]
    BY DEF Return, TypeOK
<1>4. task' \in [Conn -> Task] /\ shard' \in [Node -> Conn \cup {None}]
    BY <1>1 DEF Return, Become, TypeOK
<1>5. ShardHeld'
    BY <1>1, <1>2, <1>3, NoneFresh DEF ShardHeld, Runs, Executing
<1> QED
    BY <1>1, <1>2, <1>4, <1>5 DEF ShardHeld, Runs

\* Refused, failed, or answered from the cache: the command changed nothing.
LEMMA ReturnKeeps ==
    ASSUME DispatchInv, NEW c \in Conn, Return(c), Runs(c),
           UNCHANGED <<open, owner, cache, gold, booked, overlap>>
    PROVE  DispatchInv'
<1>1. TypeOK'
    BY ReturnTypes DEF DispatchInv, TypeOK
<1> QED
    BY <1>1, ReturnTypes, NothingRuns DEF DispatchInv, CommandsKnown

LEMMA ExecuteKeeps ==
    ASSUME DispatchInv, NEW c \in Conn, Execute(c)
    PROVE  DispatchInv'
<1> USE DEF DispatchInv
<1>1. NoTask \in Task /\ NoTask.pc = "idle" /\ On[c] \in Node
    BY ConnTyped DEF Task, NoTask
<1>2. CASE Known(On[c], task[c].command)
    <2>1. /\ UNCHANGED <<open, owner, shard, cache, gold, booked, overlap>>
          /\ task' = [task EXCEPT ![c] = NoTask] /\ task[c].pc = "queued"
        BY <1>2 DEF Execute, Become
    <2>2. \A d \in Conn : task'[d] = IF d = c THEN NoTask ELSE task[d]
        BY <2>1 DEF TypeOK
    <2>3. ShardHeld'
        BY <1>1, <2>1, <2>2 DEF ShardHeld, Runs, Executing
    <2>4. TypeOK'
        BY <1>1, <2>1, <2>2 DEF TypeOK, Executing
    <2> QED
        BY <1>1, <2>1, <2>2, <2>3, <2>4, NothingRuns DEF CommandsKnown
<1>3. CASE ~ Known(On[c], task[c].command)
    <2> DEFINE t == [task[c] EXCEPT !.pc = "read"]
    <2>1. /\ UNCHANGED <<open, owner, cache, gold, booked>> /\ task[c].pc = "queued"
          /\ task' = [task EXCEPT ![c] = t] /\ shard[On[c]] = None
          /\ shard' = [shard EXCEPT ![On[c]] = c]
          /\ overlap' = (overlap \/ OtherServerExecutes(On[c]))
        BY <1>3 DEF Execute
    <2>2. t \in Task /\ t.pc = "read" /\ t.command = task[c].command /\ t.command \in Command
        <3>1. task[c] \in Task /\ task[c].command \in Command
            BY <2>1 DEF TypeOK, CommandsKnown
        <3>2. t \in Task
            BY <3>1 DEF Task
        <3>3. t.pc = "read" /\ t.command = task[c].command
            BY <3>1 DEF Task
        <3> QED
            BY <3>1, <3>2, <3>3
    <2> HIDE DEF t
    <2>3. /\ \A d \in Conn : task'[d] = IF d = c THEN t ELSE task[d]
          /\ \A n \in Node : shard'[n] = IF n = On[c] THEN c ELSE shard[n]
        BY <2>1 DEF TypeOK
    <2>4. ShardHeld'
        BY <1>1, <2>1, <2>2, <2>3, NoneFresh DEF ShardHeld, Runs, Executing
    <2>5. TypeOK'
        <3>1. \A n \in Node : shard'[n] # None =>
                  On[shard'[n]] = n /\ task'[shard'[n]].pc \in Executing
            BY <2>1, <2>2, <2>3 DEF TypeOK, Executing
        <3> QED
            BY <2>1, <2>2, <3>1 DEF TypeOK
    <2>6. OneServer'
        <3>1. \A d \in Conn \ {c} : Runs(d)' = Runs(d)
            BY <2>3 DEF Runs
        <3>2. overlap' \/ \A d \in Conn : Runs(d) => On[d] = On[c]
            BY <2>1 DEF OtherServerExecutes, Runs
        <3> QED
            BY <2>1, <3>1, <3>2 DEF OneServer
    <2>7. CommandsKnown' /\ BalanceStands' /\ BooksBalance'
        <3>1. /\ task'[c].pc = "read" /\ task'[c].command = task[c].command
              /\ \A d \in Conn \ {c} : task'[d] = task[d]
            BY <2>2, <2>3
        <3>2. CommandsKnown'
            BY <2>2, <3>1 DEF CommandsKnown, NewBalance
        <3>3. BalanceStands'
            BY <2>1, <3>1 DEF BalanceStands
        <3>4. BooksBalance'
            BY <2>1 DEF BooksBalance
        <3> QED
            BY <3>2, <3>3, <3>4
    <2>8. KnownIsNotExecuted'
        BY <1>3, <2>1, <2>2, <2>3 DEF KnownIsNotExecuted, Known
    <2> QED
        BY <2>4, <2>5, <2>6, <2>7, <2>8
<1> QED
    BY <1>2, <1>3

LEMMA ReadBalanceKeeps ==
    ASSUME DispatchInv, NEW c \in Conn, ReadBalance(c)
    PROVE  DispatchInv'
<1> USE DEF DispatchInv
<1>1. task[c].pc = "read" /\ Runs(c)
    BY DEF ReadBalance, Runs, Executing
<1>2. CASE gold + Delta[task[c].command] < 0
    BY <1>1, <1>2, ReturnKeeps DEF ReadBalance
<1>3. CASE ~ (gold + Delta[task[c].command] < 0)
    <2> DEFINE t == [task[c] EXCEPT !.pc = "write", !.balance = gold]
    <2>1. /\ UNCHANGED <<open, owner, cache, gold, booked, overlap, shard>>
          /\ task' = [task EXCEPT ![c].pc = "write", ![c].balance = gold]
        BY <1>3 DEF ReadBalance
    <2>2. /\ t \in Task /\ t.pc = "write" /\ t.command = task[c].command /\ t.command \in Command
          /\ t.balance = gold /\ gold \in Nat
        <3>1. task[c] \in Task /\ task[c].command \in Command /\ gold \in Nat /\ gold \in Int
            BY <1>1 DEF TypeOK, CommandsKnown
        <3>2. t \in Task
            BY <3>1 DEF Task
        <3>3. t.pc = "write" /\ t.command = task[c].command /\ t.balance = gold
            BY <3>1 DEF Task
        <3> QED
            BY <3>1, <3>2, <3>3
    <2>3. task' = [task EXCEPT ![c] = t]
        BY <2>1
    <2> HIDE DEF t
    <2>4. \A d \in Conn : task'[d] = IF d = c THEN t ELSE task[d]
        BY <2>3 DEF TypeOK
    <2>5. \A d \in Conn : Runs(d)' = Runs(d) /\ task'[d].command = task[d].command
        BY <1>1, <2>2, <2>4 DEF Runs, Executing
    <2>6. ShardHeld' /\ OneServer' /\ BooksBalance'
        BY <2>1, <2>5 DEF ShardHeld, OneServer, BooksBalance
    <2>7. TypeOK'
        <3>1. \A n \in Node : shard'[n] # None =>
                  On[shard'[n]] = n /\ task'[shard'[n]].pc \in Executing
            BY <2>1, <2>5 DEF TypeOK, Runs
        <3>2. task' \in [Conn -> Task]
            BY <2>2, <2>3 DEF TypeOK
        <3> QED
            BY <2>1, <3>1, <3>2 DEF TypeOK
    <2>8. CommandsKnown'
        <3>1. gold + Delta[t.command] \in Nat
            BY <1>3, <2>2, CommandTyped
        <3> QED
            BY <2>2, <2>4, <3>1 DEF CommandsKnown, NewBalance
    <2>9. BalanceStands'
        BY <2>1, <2>2, <2>4 DEF BalanceStands
    <2>10. KnownIsNotExecuted'
        BY <2>1, <2>5 DEF KnownIsNotExecuted, Known, Runs
    <2> QED
        BY <2>6, <2>7, <2>8, <2>9, <2>10
<1> QED
    BY <1>2, <1>3

\* What a commit does to the books, whichever way its server learns of it.
LEMMA BookKeeps ==
    ASSUME DispatchInv, NEW c \in Conn, Book(c), UNCHANGED overlap
    PROVE  /\ gold' \in Nat /\ booked' \in Seq(Command) /\ BooksBalance'
           /\ overlap \/ \A d \in Conn : task[d].pc = "write" => d = c
<1> USE DEF DispatchInv
<1>1. /\ task[c].pc = "write" /\ task[c].command \in Command /\ NewBalance(c) \in Nat
      /\ gold' = NewBalance(c) /\ booked' = Append(booked, task[c].command)
      /\ booked \in Seq(Command) /\ gold \in Nat
    BY DEF Book, CommandsKnown, TypeOK
<1>2. booked' \in Seq(Command)
    BY <1>1
<1>3. BooksBalance'
    <2> SUFFICES ASSUME ~ overlap PROVE gold' = Start + Sum(booked')
        BY DEF BooksBalance
    <2>1. gold' = gold + Delta[task[c].command] /\ gold = Start + Sum(booked)
        BY <1>1 DEF BalanceStands, BooksBalance, NewBalance
    <2>2. Sum(booked) \in Int /\ Sum(booked') = Sum(booked) + Delta[task[c].command]
        BY <1>1, SumOfAppend
    <2> QED
        BY <1>1, <2>1, <2>2, CommandTyped, SizesTyped
<1>4. ASSUME ~ overlap, NEW d \in Conn, task[d].pc = "write" PROVE d = c
    <2>1. Runs(c) /\ Runs(d) /\ On[c] = On[d] /\ On[c] \in Node
        BY <1>1, <1>4, ConnTyped DEF Runs, Executing, OneServer
    <2> QED
        BY <2>1 DEF ShardHeld
<1> QED
    BY <1>1, <1>2, <1>3, <1>4

LEMMA CommitKeeps ==
    ASSUME DispatchInv, NEW c \in Conn, Commit(c)
    PROVE  DispatchInv'
<1> USE DEF DispatchInv
<1> DEFINE t == [task[c] EXCEPT !.pc = "put"]
<1>1. /\ Book(c) /\ task[c].pc = "write" /\ task' = [task EXCEPT ![c] = t]
      /\ UNCHANGED <<open, owner, shard, cache, overlap>>
    BY DEF Commit, Book
<1>2. t \in Task /\ t.pc = "put" /\ t.command = task[c].command /\ t.command \in Command
    <2>1. task[c] \in Task /\ task[c].command \in Command
        BY <1>1 DEF TypeOK, CommandsKnown
    <2>2. t \in Task
        BY <2>1 DEF Task
    <2>3. t.pc = "put" /\ t.command = task[c].command
        BY <2>1 DEF Task
    <2> QED
        BY <2>1, <2>2, <2>3
<1> HIDE DEF t
<1>3. \A d \in Conn : task'[d] = IF d = c THEN t ELSE task[d]
    BY <1>1 DEF TypeOK
<1>4. \A d \in Conn : Runs(d)' = Runs(d) /\ task'[d].command = task[d].command
    BY <1>1, <1>2, <1>3 DEF Runs, Executing
<1>5. /\ gold' \in Nat /\ booked' \in Seq(Command) /\ BooksBalance'
      /\ overlap \/ \A d \in Conn : task[d].pc = "write" => d = c
    BY <1>1, BookKeeps
<1>6. ShardHeld' /\ OneServer'
    BY <1>1, <1>4 DEF ShardHeld, OneServer
<1>7. TypeOK'
    <2>1. \A n \in Node : shard'[n] # None =>
              On[shard'[n]] = n /\ task'[shard'[n]].pc \in Executing
        BY <1>1, <1>4 DEF TypeOK, Runs
    <2>2. task' \in [Conn -> Task]
        BY <1>1, <1>2 DEF TypeOK
    <2> QED
        BY <1>1, <1>5, <2>1, <2>2 DEF TypeOK
<1>8. CommandsKnown' /\ BalanceStands'
    BY <1>1, <1>2, <1>3, <1>5 DEF CommandsKnown, BalanceStands, NewBalance
<1>9. KnownIsNotExecuted'
    BY <1>1, <1>4 DEF KnownIsNotExecuted, Known, Runs
<1> QED
    BY <1>5, <1>6, <1>7, <1>8, <1>9

LEMMA CommitReplyLostKeeps ==
    ASSUME DispatchInv, NEW c \in Conn, CommitReplyLost(c)
    PROVE  DispatchInv'
<1> USE DEF DispatchInv
<1>1. /\ Book(c) /\ Return(c) /\ task[c].pc = "write" /\ Runs(c)
      /\ UNCHANGED <<open, owner, cache, overlap>>
    BY DEF CommitReplyLost, Book, Runs, Executing
<1>2. /\ \A d \in Conn : task'[d] = IF d = c THEN NoTask ELSE task[d]
      /\ task' \in [Conn -> Task] /\ shard' \in [Node -> Conn \cup {None}]
      /\ ShardHeld' /\ NoTask.pc = "idle"
      /\ \A n \in Node : shard'[n] # None =>
             On[shard'[n]] = n /\ task'[shard'[n]].pc \in Executing
    BY <1>1, ReturnTypes
<1>3. /\ gold' \in Nat /\ booked' \in Seq(Command) /\ BooksBalance'
      /\ overlap \/ \A d \in Conn : task[d].pc = "write" => d = c
    BY <1>1, BookKeeps
<1>4. TypeOK'
    BY <1>1, <1>2, <1>3 DEF TypeOK
<1>5. OneServer' /\ CommandsKnown' /\ BalanceStands'
    BY <1>1, <1>2, <1>3
       DEF OneServer, CommandsKnown, BalanceStands, NewBalance, Runs, Executing
<1>6. KnownIsNotExecuted'
    BY <1>1, <1>2 DEF KnownIsNotExecuted, Known, Executing
<1> QED
    BY <1>2, <1>3, <1>4, <1>5, <1>6

\* A result is kept by the connection that holds the shard, so no other one
\* executes a command with its req_id there.
LEMMA PutKeeps ==
    ASSUME DispatchInv, NEW c \in Conn, Put(c)
    PROVE  DispatchInv'
<1> USE DEF DispatchInv
<1>1. /\ Return(c) /\ task[c].pc = "put" /\ Runs(c) /\ task[c].command \in Command
      /\ On[c] \in Node /\ UNCHANGED <<open, owner, gold, booked, overlap>>
    BY ConnTyped DEF Put, Runs, Executing, CommandsKnown
<1>2. /\ \A d \in Conn : task'[d] = IF d = c THEN NoTask ELSE task[d]
      /\ task' \in [Conn -> Task] /\ shard' \in [Node -> Conn \cup {None}]
      /\ ShardHeld' /\ NoTask.pc = "idle"
      /\ \A n \in Node : shard'[n] # None =>
             On[shard'[n]] = n /\ task'[shard'[n]].pc \in Executing
    BY <1>1, ReturnTypes
<1>3. /\ DOMAIN cache' = Node /\ \A n \in Node \ {On[c]} : cache'[n] = cache[n]
      /\ cache'[On[c]] \in {cache[On[c]], Kept(Append(cache[On[c]], task[c].command))}
    <2>1. cache' = cache
          \/ cache' = [cache EXCEPT ![On[c]] = Kept(Append(cache[On[c]], task[c].command))]
        BY DEF Put
    <2> QED
        BY <1>1, <2>1 DEF TypeOK
<1>4. /\ Kept(Append(cache[On[c]], task[c].command)) \in Seq(Command)
      /\ Len(Kept(Append(cache[On[c]], task[c].command))) <= CacheSize
    <2> DEFINE s == cache[On[c]]
               r == Append(s, task[c].command)
    <2>1. s \in Seq(Command) /\ Len(s) <= CacheSize /\ Len(s) \in Nat
        BY <1>1 DEF TypeOK
    <2>2. r \in Seq(Command) /\ Len(r) = Len(s) + 1 /\ r # <<>>
        BY <1>1, <2>1
    <2>3. Tail(r) \in Seq(Command) /\ Len(Tail(r)) = Len(s)
        BY <2>1, <2>2, HeadTailProperties
    <2> HIDE DEF r, s
    <2>4. Kept(r) \in Seq(Command) /\ Len(Kept(r)) <= CacheSize
        BY <2>1, <2>2, <2>3, SizesTyped DEF Kept
    <2> QED
        BY <2>4 DEF r, s
<1>5. TypeOK'
    BY <1>1, <1>2, <1>3, <1>4 DEF TypeOK
<1>6. OneServer' /\ CommandsKnown' /\ BalanceStands' /\ BooksBalance'
    BY <1>1, <1>2
       DEF OneServer, CommandsKnown, BalanceStands, BooksBalance, NewBalance, Runs, Executing
<1>7. KnownIsNotExecuted'
    <2> SUFFICES ASSUME NEW d \in Conn, task'[d].pc \in Executing
                 PROVE  ~ Known(On[d], task[d].command)' /\ task'[d] = task[d]
        BY DEF KnownIsNotExecuted
    <2>1. d # c /\ task'[d] = task[d] /\ Runs(d) /\ On[d] \in Node
        BY <1>2, ConnTyped DEF Runs, Executing
    <2>2. On[d] # On[c]
        BY <1>1, <2>1 DEF ShardHeld
    <2>3. cache'[On[d]] = cache[On[d]]
        BY <1>3, <2>1, <2>2
    <2> QED
        BY <2>1, <2>3 DEF KnownIsNotExecuted, Known, Runs
<1> QED
    BY <1>2, <1>5, <1>6, <1>7

-----------------------------------------------------------------------------

LEMMA DispatchNext == DispatchInv /\ [Next]_vars => DispatchInv'
<1> SUFFICES ASSUME DispatchInv, [Next]_vars PROVE DispatchInv'
    OBVIOUS
<1>1. CASE UNCHANGED vars
    <2>1. TypeOK' /\ ShardHeld'
        BY <1>1 DEF vars, DispatchInv, TypeOK, ShardHeld, Runs
    <2> QED
        BY <1>1, <2>1, NothingRuns DEF vars, DispatchInv, CommandsKnown
<1>2. ASSUME NEW c \in Conn, Handle(c) PROVE DispatchInv'
    <2>1. CASE Fail(c)
        BY <2>1, ReturnKeeps DEF Fail, Runs, Executing
    <2> QED
        BY <1>2, <2>1, ExecuteKeeps, ReadBalanceKeeps, CommitKeeps, CommitReplyLostKeeps,
           PutKeeps DEF Handle
<1>3. ASSUME NEW c \in Conn, Login(c) \/ Close(c) \/ \E m \in Command : Receive(c, m)
      PROVE  DispatchInv'
    BY <1>3, LoginKeeps, OthersKeep, ReceiveKeeps
<1>4. ASSUME NEW n \in Node, Forget(n) \/ Crash(n) PROVE DispatchInv'
    BY <1>4, ForgetKeeps, CrashKeeps
<1>5. CASE OwnerExpires
    BY <1>5, OthersKeep
<1> QED
    BY <1>1, <1>2, <1>3, <1>4, <1>5 DEF Next

\* Init and every step establish what the shard is for.
THEOREM Invariance == Spec => []DispatchInv
BY DispatchInit, DispatchNext, PTL DEF Spec

\* The types; in particular the balance is never negative and a server keeps
\* at most maxEntries results.
THEOREM Typing == Spec => []TypeOK
BY Invariance, PTL DEF DispatchInv

\* As long as CommandCache keeps the result of a req_id, Dispatcher.Handle
\* executes no command with that req_id on this server, whichever connections
\* the attempts come over.
THEOREM KnownIsAnswered == Spec => []KnownIsNotExecuted
<1>1. DispatchInv => KnownIsNotExecuted
    BY DEF DispatchInv
<1> QED
    BY <1>1, Invariance, PTL

\* SaveGoldInTx writes an absolute balance, and yet the balance is the sum of
\* asset_log: transactions that the dispatcher of one server runs never overlap.
THEOREM BooksAreBalanced == Spec => []BooksBalance
<1>1. DispatchInv => BooksBalance
    BY DEF DispatchInv
<1> QED
    BY <1>1, Invariance, PTL
===============================================================================
