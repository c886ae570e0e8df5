---------------------------- MODULE BattleRuntime ----------------------------
(***************************************************************************)
(* battle.Service of one game server: the in-memory runtime of a player's  *)
(* current level, under two kinds of locks.  s.mu guards the map from      *)
(* players to runtimes, rs.mu one runtime.  Every operation looks its      *)
(* runtime up under s.mu, lets go, and then waits for rs.mu, so the        *)
(* runtime it gets may be one that has left the map in between.            *)
(*                                                                         *)
(* Players do not share runtimes, so the map is modelled for one player.   *)
(* Critical sections of s.mu wait for nothing and are single actions;      *)
(* rs.mu is held across several actions (SettleLevel keeps it during its   *)
(* database transaction) and holder[s] says by whom.  A member of Caller   *)
(* is a goroutine inside an operation: a player's command, or a deletion   *)
(* by the reconciler or by a login.                                        *)
(***************************************************************************)
EXTENDS Naturals, FiniteSets

CONSTANTS Session, Caller, None,
          LostReplies  \* how many COMMITs of one runtime may succeed without
                       \* their answer arriving (0: the database never does that)

ASSUME NoneFresh == None \notin Session \cup Caller
ASSUME LostRepliesTyped == LostReplies \in Nat

VARIABLES
    current,  \* Service.sessions[uid]
    deleted,  \* the runtimes whose deleted flag is set
    level,    \* level[s]: how far the level of runtime s is
    holder,   \* holder[s]: the caller that holds rs.mu of s
    call,     \* call[c]: the operation that goroutine c executes
    granted   \* granted[s]: committed settlements of s (level progress, gold)

vars == <<current, deleted, level, holder, call, granted>>

\* "won": CompletedOrders has reached the goal; "settled": settleResult is set.
Level == {"unborn", "playing", "won", "failed", "settled"}
Op == {"start", "play", "endTurn", "settle", "delete"}

\* session: the runtime a start creates, or the session id a command names.
\* runtime: the pointer that was read from the map.
Call == [pc: {"idle", "retry", "insert", "lock", "swap", "commit", "remove"},
         op: Op, session: Session \cup {None}, runtime: Session \cup {None}]
NoCall == [pc |-> "idle", op |-> "play", session |-> None, runtime |-> None]

\* With the lock discipline: a mutex is held only by a goroutine that is at a
\* point from which it releases it.
TypeOK ==
    /\ current \in Session \cup {None}
    /\ deleted \subseteq Session
    /\ level \in [Session -> Level]
    /\ holder \in [Session -> Caller \cup {None}]
    /\ call \in [Caller -> Call]
    /\ granted \in [Session -> Nat]
    /\ \A s \in Session, c \in Caller : holder[s] = c =>
           call[c].runtime = s /\ call[c].pc \in {"swap", "commit", "remove"}

Init ==
    /\ current = None
    /\ deleted = {}
    /\ level = [s \in Session |-> "unborn"]
    /\ holder = [s \in Session |-> None]
    /\ call = [c \in Caller |-> NoCall]
    /\ granted = [s \in Session |-> 0]

-----------------------------------------------------------------------------
(* Helpers: the control of one goroutine. *)

GoTo(c, pc) == call' = [call EXCEPT ![c].pc = pc]
Return(c) == call' = [call EXCEPT ![c] = NoCall]

Retry(c) == call' = [call EXCEPT ![c].pc = "retry", ![c].runtime = None]

Lock(c, s) == holder' = [holder EXCEPT ![s] = c]
Unlock(s) == holder' = [holder EXCEPT ![s] = None]

Finished(s) == level[s] \in {"settled", "failed"}

-----------------------------------------------------------------------------
(* Every operation starts by looking the player up under s.mu.              *)

LookUp(c, op, s) ==
    LET at(pc) == [pc |-> pc, op |-> op, session |-> s, runtime |-> current]
    IN call' = [call EXCEPT ![c] =
                   IF current # None THEN at("lock")
                   ELSE IF op = "start" THEN at("insert")
                   ELSE NoCall]

\* StartLevel builds a runtime with a fresh session id and calls storeSession.
StartLevel(c, s) ==
    /\ call[c].pc = "idle"
    /\ level[s] = "unborn"
    /\ level' = [level EXCEPT ![s] = "playing"]
    /\ LookUp(c, "start", s)
    /\ UNCHANGED <<current, deleted, holder, granted>>

\* A client names a session it has been told of, perhaps long ago.
Command(c, op, s) ==
    /\ call[c].pc = "idle"
    /\ level[s] # "unborn"
    /\ LookUp(c, op, s)
    /\ UNCHANGED <<current, deleted, level, holder, granted>>

DeletePlayerRuntime(c) ==
    /\ call[c].pc = "idle"
    /\ LookUp(c, "delete", None)
    /\ UNCHANGED <<current, deleted, level, holder, granted>>

\* The loop of storeSession starts over.
LookAgain(c) ==
    /\ call[c].pc = "retry"
    /\ LookUp(c, "start", call[c].session)
    /\ UNCHANGED <<current, deleted, level, holder, granted>>

-----------------------------------------------------------------------------
(* storeSession. *)

\* Mutant of Insert: the map is not looked at again under the write lock.
InsertBlindly(c) ==
    /\ call[c].pc = "insert"
    /\ current' = call[c].session
    /\ Return(c)
    /\ UNCHANGED <<deleted, level, holder, granted>>

Insert(c) ==
    /\ call[c].pc = "insert"
    /\ IF current = None
       THEN /\ current' = call[c].session
            /\ Return(c)
       ELSE /\ Retry(c)
            /\ UNCHANGED current
    /\ UNCHANGED <<deleted, level, holder, granted>>

\* Mutant of LockForStart: ErrBattleInProgress is returned with rs.mu held.
LockForStartAndLeak(c) ==
    LET s == call[c].runtime
    IN
    /\ call[c].pc = "lock" /\ call[c].op = "start"
    /\ holder[s] = None
    /\ IF s \in deleted THEN Retry(c) /\ UNCHANGED holder
       ELSE IF Finished(s) THEN GoTo(c, "swap") /\ Lock(c, s)
       ELSE Return(c) /\ Lock(c, s)
    /\ UNCHANGED <<current, deleted, level, granted>>

\* Lock the runtime found: start over if it is deleted, refuse if it is an
\* unfinished level, else keep the lock and replace it.
LockForStart(c) ==
    LET s == call[c].runtime
    IN
    /\ call[c].pc = "lock" /\ call[c].op = "start"
    /\ holder[s] = None
    /\ IF s \in deleted THEN Retry(c) /\ UNCHANGED holder
       ELSE IF Finished(s) THEN GoTo(c, "swap") /\ Lock(c, s)
       ELSE Return(c) /\ UNCHANGED holder
    /\ UNCHANGED <<current, deleted, level, granted>>

Swap(c) ==
    LET s == call[c].runtime
    IN
    /\ call[c].pc = "swap"
    /\ IF current = s
       THEN /\ deleted' = deleted \cup {s}
            /\ current' = call[c].session
            /\ Return(c)
       ELSE /\ Retry(c)
            /\ UNCHANGED <<current, deleted>>
    /\ Unlock(s)
    /\ UNCHANGED <<level, granted>>

-----------------------------------------------------------------------------
(* PlayCard, EndTurn and SettleLevel: lockSession, then the command.        *)

\* Mutant of Usable: the deleted flag is not looked at.
UsableById(c) == call[c].runtime = call[c].session

\* What lockSession checks once it holds the lock.
Usable(c) ==
    /\ call[c].runtime \notin deleted
    /\ call[c].runtime = call[c].session

\* The lock is free and the call is over without having changed anything.
RefuseCommand(c) ==
    LET s == call[c].runtime
    IN
    /\ call[c].pc = "lock" /\ call[c].op \in {"play", "endTurn", "settle"}
    /\ holder[s] = None
    /\ ~ Usable(c)
    /\ Return(c)
    /\ UNCHANGED <<current, deleted, level, holder, granted>>

\* A card may complete the last order the goal asks for.  It is refused for
\* cost, resources or hand, and has no effect on a finished level.
PlayCard(c) ==
    LET s == call[c].runtime
    IN
    /\ call[c].pc = "lock" /\ call[c].op = "play"
    /\ holder[s] = None
    /\ Usable(c)
    /\ \/ level' = level
       \/ level[s] = "playing" /\ level' = [level EXCEPT ![s] = "won"]
    /\ Return(c)
    /\ UNCHANGED <<current, deleted, holder, granted>>

\* The last turn may end: the level fails, unless the goal is reached.
EndTurn(c) ==
    LET s == call[c].runtime
    IN
    /\ call[c].pc = "lock" /\ call[c].op = "endTurn"
    /\ holder[s] = None
    /\ Usable(c)
    /\ \/ level' = level
       \/ level[s] = "playing" /\ level' = [level EXCEPT ![s] = "failed"]
    /\ Return(c)
    /\ UNCHANGED <<current, deleted, holder, granted>>

\* Mutant of Settleable: Failed is not looked at.
SettleableThoughFailed(s) == level[s] \in {"won", "failed"}

\* No settleResult yet, not failed, and the goal is reached.
Settleable(s) == level[s] = "won"

\* Only such a level opens a transaction, and rs.mu stays held.
Settle(c) ==
    LET s == call[c].runtime
    IN
    /\ call[c].pc = "lock" /\ call[c].op = "settle"
    /\ holder[s] = None
    /\ Usable(c)
    /\ IF Settleable(s)
       THEN GoTo(c, "commit") /\ Lock(c, s)
       ELSE Return(c) /\ UNCHANGED holder
    /\ UNCHANGED <<current, deleted, level, granted>>

\* Progress and rewards are committed, settleResult is kept.
SettleCommits(c) ==
    LET s == call[c].runtime
    IN
    /\ call[c].pc = "commit"
    /\ granted' = [granted EXCEPT ![s] = @ + 1]
    /\ level' = [level EXCEPT ![s] = "settled"]
    /\ Unlock(s)
    /\ Return(c)
    /\ UNCHANGED <<current, deleted>>

\* The transaction is rolled back: the level stays as it was.
SettleFails(c) ==
    /\ call[c].pc = "commit"
    /\ Unlock(call[c].runtime)
    /\ Return(c)
    /\ UNCHANGED <<current, deleted, level, granted>>

\* The transaction is committed but its answer is lost: Tx.Do returns an
\* error and the level stays as it was.
SettleReplyLost(c) ==
    LET s == call[c].runtime
    IN
    /\ call[c].pc = "commit"
    /\ granted[s] < LostReplies
    /\ granted' = [granted EXCEPT ![s] = @ + 1]
    /\ Unlock(s)
    /\ Return(c)
    /\ UNCHANGED <<current, deleted, level>>

-----------------------------------------------------------------------------
(* DeletePlayerRuntime: ownership moved on. *)

LockForDelete(c) ==
    LET s == call[c].runtime
    IN
    /\ call[c].pc = "lock" /\ call[c].op = "delete"
    /\ holder[s] = None
    /\ GoTo(c, "remove")
    /\ Lock(c, s)
    /\ UNCHANGED <<current, deleted, level, granted>>

\* Mutant of Remove: the map entry goes whatever runtime it holds by now.
RemoveBlindly(c) ==
    /\ call[c].pc = "remove"
    /\ deleted' = deleted \cup {call[c].runtime}
    /\ current' = None
    /\ Unlock(call[c].runtime)
    /\ Return(c)
    /\ UNCHANGED <<level, granted>>

Remove(c) ==
    LET s == call[c].runtime
    IN
    /\ call[c].pc = "remove"
    /\ IF current = s
       THEN /\ deleted' = deleted \cup {s}
            /\ current' = None
       ELSE UNCHANGED <<current, deleted>>
    /\ Unlock(s)
    /\ Return(c)
    /\ UNCHANGED <<level, granted>>

-----------------------------------------------------------------------------

Continue(c) ==
    \/ LookAgain(c) \/ Insert(c) \/ LockForStart(c) \/ Swap(c)
    \/ RefuseCommand(c) \/ PlayCard(c) \/ EndTurn(c)
    \/ Settle(c) \/ SettleCommits(c) \/ SettleFails(c) \/ SettleReplyLost(c)
    \/ LockForDelete(c) \/ Remove(c)

Begin(c) ==
    \/ DeletePlayerRuntime(c)
    \/ \E s \in Session :
           \/ StartLevel(c, s)
           \/ \E op \in {"play", "endTurn", "settle"} : Command(c, op, s)

Next == \E c \in Caller : Begin(c) \/ Continue(c)

Spec == Init /\ [][Next]_vars

\* Goroutines run, transactions end, and whoever waits for a mutex that is
\* released again and again gets it (Go mutexes do not starve waiters).
Fairness == \A c \in Caller : SF_vars(Continue(c))

FairSpec == Spec /\ Fairness

-----------------------------------------------------------------------------
(* Properties. *)

\* A runtime that has left the map carries the deleted flag, and the one in
\* the map does not: a goroutine that still has a pointer can always tell,
\* however starts, deletions and commands overlap.
DeletedMeansGone ==
    /\ current \notin deleted
    /\ current # None => level[current] # "unborn"
    /\ \A s \in Session :
           (granted[s] > 0 \/ level[s] \in {"won", "failed", "settled"}) =>
               s = current \/ s \in deleted

\* A level only ends by being played: a start never displaces an unfinished
\* level, whose rewards would be lost, although it looked at the map before
\* it had the lock.
StartSparesUnfinishedLevel ==
    [][current # None /\ current' \notin {current, None} => Finished(current)]_vars

\* Nothing happens to a runtime that has left the map or whose level is over:
\* no settlement is committed for a player who has been taken over meanwhile,
\* nor a second one for a level that is settled.
OverIsOver ==
    [][\A s \in Session : s \in deleted \/ Finished(s) =>
           granted'[s] = granted[s] /\ level'[s] = level[s]]_vars

\* What clients are promised of a level, LevelLifecycle, holds for whatever
\* goroutines meet in the runtime: no check is passed by one and undone by
\* another before it acts.
Lifecycle == INSTANCE LevelLifecycle
LevelsRunTheirCourse == Lifecycle!Spec

\* Every call returns: a lock is released on every path, locks are taken in
\* one order, and the retry loop of storeSession ends.
CallsReturn == \A c \in Caller : call[c].pc # "idle" ~> call[c].pc = "idle"
=============================================================================
