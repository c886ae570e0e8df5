-------------------------- MODULE BattleRuntimeProofs --------------------------
(***************************************************************************)
(* The runtime of a player's level, for any number of levels, goroutines   *)
(* and lost answers.                                                       *)
(*                                                                         *)
(* A goroutine has a pointer to a runtime that it read from the map long   *)
(* before it got the lock.  RuntimeInv says what it can still rely on: the *)
(* runtime is in the map, or its deleted flag is set (PointersKnown); what *)
(* it has checked under the lock stays so until it unlocks (LockHeld); and *)
(* the runtime it is about to store is known to nobody else (StartsFresh). *)
(***************************************************************************)
EXTENDS BattleRuntime, TLAPS

Holding == {"swap", "commit", "remove"}

\* A goroutine that starts a level and has not stored its runtime yet.
Storing(c) == call[c].op = "start" /\ call[c].pc \in {"retry", "insert", "lock", "swap"}

\* What is known of a runtime that nobody has put into the map.
Unseen(s) == s # current /\ s \notin deleted /\ level[s] = "playing"

\* A runtime that somebody points to is in the map or marked as deleted.
PointersKnown ==
    \A c \in Caller : call[c].runtime # None =>
        call[c].runtime = current \/ call[c].runtime \in deleted

\* Whoever waits for a lock or holds it has a runtime.
PointersSet ==
    \A c \in Caller : call[c].pc \in {"lock"} \cup Holding => call[c].runtime # None

\* rs.mu is held from a check until the step that relies on it.
LockHeld ==
    \A c \in Caller :
        /\ call[c].pc \in Holding => holder[call[c].runtime] = c
        /\ call[c].pc = "swap" => Finished(call[c].runtime)
        /\ call[c].pc = "commit" =>
               level[call[c].runtime] = "won" /\ call[c].runtime \notin deleted

\* A runtime that is to be stored is fresh and known to one goroutine.
OnlyStartsStore ==
    \A c \in Caller : call[c].pc \in {"retry", "insert", "swap"} => call[c].op = "start"

StartsFresh ==
    \A c \in Caller : Storing(c) =>
        call[c].session \in Session /\ Unseen(call[c].session)

StartsApart ==
    \A c, d \in Caller : Storing(c) /\ Storing(d) /\ c # d =>
        call[c].session # call[d].session

DeletedWasStarted == \A s \in deleted : level[s] # "unborn"

\* The parts, by what they are about.
PointersInv == PointersKnown /\ PointersSet
StartsInv == OnlyStartsStore /\ StartsFresh /\ StartsApart
MapInv == DeletedWasStarted /\ DeletedMeansGone

RuntimeInv == TypeOK /\ PointersInv /\ LockHeld /\ StartsInv /\ MapInv

-----------------------------------------------------------------------------

LEMMA Names == None \notin Session /\ None \notin Caller
BY NoneFresh

\* What a start is about to store is new, so no other one can be storing it.
LEMMA StartLevelKeeps ==
    ASSUME RuntimeInv, NEW c \in Caller, NEW s \in Session, StartLevel(c, s)
    PROVE  RuntimeInv'
<1>1. TypeOK'
    BY DEF RuntimeInv, TypeOK, Call, Level, Op, LookUp, StartLevel
<1>2. PointersInv'
    BY DEF RuntimeInv, PointersInv, PointersKnown, PointersSet, LookUp, Holding, StartLevel
<1>3. LockHeld'
    BY DEF RuntimeInv, LockHeld, Finished, LookUp, Holding, StartLevel
<1>4. StartsInv'
    BY Names DEF RuntimeInv, TypeOK, StartsInv, OnlyStartsStore, StartsFresh, StartsApart, MapInv,
       DeletedWasStarted, DeletedMeansGone, LookUp, Storing, Unseen, StartLevel
<1>5. MapInv'
    BY DEF RuntimeInv, MapInv, DeletedWasStarted, DeletedMeansGone, StartLevel
<1> QED
    BY <1>1, <1>2, <1>3, <1>4, <1>5 DEF RuntimeInv

LEMMA CommandKeeps ==
    ASSUME RuntimeInv, NEW c \in Caller, NEW s \in Session,
           NEW op \in {"play", "endTurn", "settle"}, Command(c, op, s)
    PROVE  RuntimeInv'
<1>1. TypeOK'
    BY DEF RuntimeInv, TypeOK, Call, Op, LookUp, NoCall, Command
<1>2. PointersInv'
    BY DEF RuntimeInv, PointersInv, PointersKnown, PointersSet, LookUp, NoCall, Holding, Command
<1>3. LockHeld'
    BY DEF RuntimeInv, LockHeld, Finished, LookUp, NoCall, Holding, Command
<1>4. StartsInv'
    BY DEF RuntimeInv, StartsInv, OnlyStartsStore, StartsFresh, StartsApart, LookUp, NoCall,
       Storing, Unseen, Command
<1>5. MapInv'
    BY DEF RuntimeInv, MapInv, DeletedWasStarted, DeletedMeansGone, Command
<1> QED
    BY <1>1, <1>2, <1>3, <1>4, <1>5 DEF RuntimeInv

\* A retry reads the map again and goes on from what is in it now.
LEMMA LookAgainKeeps ==
    ASSUME RuntimeInv, NEW c \in Caller, LookAgain(c)
    PROVE  RuntimeInv'
<1>1. TypeOK'
    BY DEF RuntimeInv, TypeOK, Call, Op, LookUp, LookAgain
<1>2. PointersInv'
    BY DEF RuntimeInv, PointersInv, PointersKnown, PointersSet, LookUp, Holding, LookAgain
<1>3. LockHeld'
    BY DEF RuntimeInv, LockHeld, Finished, LookUp, Holding, LookAgain
<1>4. StartsInv'
    BY DEF RuntimeInv, StartsInv, OnlyStartsStore, StartsFresh, StartsApart, LookUp, Storing,
       Unseen, LookAgain
<1>5. MapInv'
    BY DEF RuntimeInv, MapInv, DeletedWasStarted, DeletedMeansGone, LookAgain
<1> QED
    BY <1>1, <1>2, <1>3, <1>4, <1>5 DEF RuntimeInv

\* Runtimes that are to be stored stay fresh and apart in a step that touches none
\* of them and gives nobody another one.
LEMMA StartsStay ==
    ASSUME StartsInv, \A s \in Session : Unseen(s) => Unseen(s)',
           \A d \in Caller : Storing(d)' => Storing(d) /\ call'[d].session = call[d].session,
           \A d \in Caller : call'[d].pc \in {"retry", "insert", "swap"} => call'[d].op = "start"
    PROVE  StartsInv'
<1>1. OnlyStartsStore'
    BY DEF OnlyStartsStore
<1>2. StartsFresh'
    BY DEF StartsInv, StartsFresh
<1>3. StartsApart'
    BY DEF StartsInv, StartsApart
<1> QED
    BY <1>1, <1>2, <1>3 DEF StartsInv

\* Storing into an empty map: nobody has seen the runtime before.
LEMMA InsertKeeps ==
    ASSUME RuntimeInv, NEW c \in Caller, Insert(c)
    PROVE  RuntimeInv'
<1>1. TypeOK'
    BY DEF RuntimeInv, TypeOK, Call, Op, Return, Retry, NoCall, Insert
<1>2. PointersInv'
    <2>1. call'[c].runtime = None /\ call'[c].pc \in {"idle", "retry"}
          /\ \A d \in Caller \ {c} : call'[d] = call[d]
        BY DEF RuntimeInv, TypeOK, Call, Return, Retry, NoCall, Insert
    <2>2. deleted' = deleted /\ (current' = current \/ current = None)
        BY DEF Insert
    <2>3. PointersKnown'
        BY <2>1, <2>2 DEF RuntimeInv, PointersInv, PointersKnown
    <2>4. PointersSet'
        BY <2>1 DEF RuntimeInv, PointersInv, PointersSet, Holding
    <2> QED
        BY <2>3, <2>4 DEF PointersInv
<1>3. LockHeld'
    BY DEF RuntimeInv, TypeOK, Call, LockHeld, Return, Retry, Finished, NoCall, Holding, Insert
<1>4. StartsInv'
    <2>1. Storing(c) /\ deleted' = deleted /\ level' = level
        BY DEF RuntimeInv, StartsInv, OnlyStartsStore, Storing, Insert
    <2>2. \A d \in Caller \ {c} : call'[d] = call[d]
        BY DEF RuntimeInv, TypeOK, Return, Retry, Insert
    <2>3. CASE current = None
        <3>1. call'[c] = NoCall /\ current' = call[c].session
            BY <2>3 DEF RuntimeInv, TypeOK, Return, Insert
        <3>2. ~ Storing(c)' /\ OnlyStartsStore'
            BY <2>2, <3>1 DEF RuntimeInv, StartsInv, OnlyStartsStore, NoCall, Storing
        <3>3. StartsFresh'
            BY <2>1, <2>2, <3>1, <3>2
               DEF RuntimeInv, StartsInv, StartsFresh, StartsApart, Storing, Unseen
        <3>4. StartsApart'
            BY <2>2, <3>2 DEF RuntimeInv, StartsInv, StartsApart, Storing
        <3> QED
            BY <3>2, <3>3, <3>4 DEF StartsInv
    <2>4. CASE current # None
        <3>1. /\ call'[c].pc = "retry" /\ call'[c].op = call[c].op
              /\ call'[c].session = call[c].session /\ current' = current
            BY <2>4 DEF RuntimeInv, TypeOK, Call, Retry, Insert
        <3>2. \A d \in Caller : Storing(d)' => Storing(d) /\ call'[d].session = call[d].session
            BY <2>1, <2>2, <3>1 DEF Storing
        <3>3. \A s \in Session : Unseen(s) => Unseen(s)'
            BY <2>1, <3>1 DEF Unseen
        <3>4. \A d \in Caller :
                  call'[d].pc \in {"retry", "insert", "swap"} => call'[d].op = "start"
            BY <2>1, <2>2, <3>1 DEF RuntimeInv, StartsInv, OnlyStartsStore, Storing
        <3> QED
            BY <3>2, <3>3, <3>4, StartsStay DEF RuntimeInv
    <2> QED
        BY <2>3, <2>4
<1>5. MapInv'
    BY Names DEF RuntimeInv, StartsInv, OnlyStartsStore, StartsFresh, MapInv, DeletedWasStarted,
       DeletedMeansGone, Storing, Unseen, Insert
<1> QED
    BY <1>1, <1>2, <1>3, <1>4, <1>5 DEF RuntimeInv

\* The lock is kept only if the level found under it is finished.
LEMMA LockForStartKeeps ==
    ASSUME RuntimeInv, NEW c \in Caller, LockForStart(c)
    PROVE  RuntimeInv'
<1>1. TypeOK'
    BY DEF RuntimeInv, TypeOK, Call, Op, GoTo, Return, Retry, Lock, NoCall, LockForStart
<1>2. PointersInv'
    <2>1. PointersKnown'
        BY DEF RuntimeInv, TypeOK, Call, PointersInv, PointersKnown, GoTo, Return, Retry, Finished,
           NoCall, LockForStart
    <2>2. PointersSet'
        BY DEF RuntimeInv, TypeOK, Call, PointersInv, PointersSet, LockHeld, GoTo, Return, Retry,
           NoCall, Holding, LockForStart
    <2> QED
        BY <2>1, <2>2 DEF PointersInv
<1>3. LockHeld'
    BY Names DEF RuntimeInv, TypeOK, Call, PointersInv, PointersSet, LockHeld, GoTo, Return, Retry,
       Lock, Finished, NoCall, Holding, LockForStart
<1>4. StartsInv'
    <2>1. Storing(c) /\ UNCHANGED <<current, deleted, level>>
        BY DEF Storing, LockForStart
    <2>2. \A d \in Caller \ {c} : call'[d] = call[d]
        BY DEF RuntimeInv, TypeOK, GoTo, Return, Retry, LockForStart
    <2>3. \/ call'[c].pc = "idle"
          \/ call'[c].op = "start" /\ call'[c].session = call[c].session
        BY DEF RuntimeInv, TypeOK, Call, GoTo, Return, Retry, NoCall, LockForStart
    <2>4. \A d \in Caller : Storing(d)' => Storing(d) /\ call'[d].session = call[d].session
        BY <2>1, <2>2, <2>3 DEF Storing
    <2>5. \A s \in Session : Unseen(s) => Unseen(s)'
        BY <2>1 DEF Unseen
    <2>6. \A d \in Caller : call'[d].pc \in {"retry", "insert", "swap"} => call'[d].op = "start"
        BY <2>2, <2>3 DEF RuntimeInv, StartsInv, OnlyStartsStore
    <2> QED
        BY <2>4, <2>5, <2>6, StartsStay DEF RuntimeInv
<1>5. MapInv'
    BY DEF RuntimeInv, MapInv, DeletedWasStarted, DeletedMeansGone, LockForStart
<1> QED
    BY <1>1, <1>2, <1>3, <1>4, <1>5 DEF RuntimeInv

\* The finished runtime leaves the map with its deleted flag set, by whoever
\* holds its lock.
LEMMA SwapKeeps ==
    ASSUME RuntimeInv, NEW c \in Caller, Swap(c)
    PROVE  RuntimeInv'
<1>1. TypeOK'
    <2>1. call' \in [Caller -> Call]
        BY DEF RuntimeInv, TypeOK, Call, Op, Return, Retry, NoCall, Swap
    <2>2. current' \in Session \cup {None} /\ deleted' \subseteq Session
          /\ level' = level /\ granted' = granted /\ holder' \in [Session -> Caller \cup {None}]
        BY DEF RuntimeInv, TypeOK, Call, PointersInv, PointersSet, Unlock, Holding, Swap
    <2>3. \A s \in Session, d \in Caller :
              holder'[s] = d => d # c /\ holder[s] = d /\ call'[d] = call[d]
        BY Names DEF RuntimeInv, TypeOK, Return, Retry, Unlock, Swap
    <2> QED
        BY <2>1, <2>2, <2>3 DEF RuntimeInv, TypeOK
<1>2. PointersInv'
    <2>1. PointersKnown'
        <3>1. call'[c].runtime = None /\ \A d \in Caller \ {c} : call'[d] = call[d]
            BY DEF RuntimeInv, TypeOK, Call, Return, Retry, NoCall, Swap
        <3>2. \/ current' = current /\ deleted' = deleted
              \/ deleted' = deleted \cup {current}
            BY DEF Swap
        <3> QED
            BY <3>1, <3>2 DEF RuntimeInv, PointersInv, PointersKnown
    <2>2. PointersSet'
        BY DEF RuntimeInv, TypeOK, Call, PointersInv, PointersSet, Return, Retry, NoCall, Holding,
           Swap
    <2> QED
        BY <2>1, <2>2 DEF PointersInv
<1>3. LockHeld'
    BY DEF RuntimeInv, TypeOK, Call, LockHeld, Return, Retry, Unlock, Finished, NoCall, Holding,
       Swap
<1>4. StartsInv'
    <2>1. Storing(c) /\ Finished(call[c].runtime) /\ level' = level
        BY DEF RuntimeInv, StartsInv, OnlyStartsStore, LockHeld, Storing, Swap
    <2>2. \A d \in Caller \ {c} : call'[d] = call[d]
        BY DEF RuntimeInv, TypeOK, Return, Retry, Swap
    <2>3. CASE current = call[c].runtime
        <3>1. /\ call'[c] = NoCall /\ current' = call[c].session
              /\ deleted' = deleted \cup {call[c].runtime}
            BY <2>3 DEF RuntimeInv, TypeOK, Return, Swap
        <3>2. ~ Storing(c)' /\ OnlyStartsStore'
            BY <2>2, <3>1 DEF RuntimeInv, StartsInv, OnlyStartsStore, NoCall, Storing
        <3>3. StartsFresh'
            BY <2>1, <2>2, <3>1, <3>2
               DEF RuntimeInv, StartsInv, StartsFresh, StartsApart, Storing, Unseen, Finished
        <3>4. StartsApart'
            BY <2>2, <3>2 DEF RuntimeInv, StartsInv, StartsApart, Storing
        <3> QED
            BY <3>2, <3>3, <3>4 DEF StartsInv
    <2>4. CASE current # call[c].runtime
        <3>1. /\ call'[c].pc = "retry" /\ call'[c].op = call[c].op
              /\ call'[c].session = call[c].session
              /\ current' = current /\ deleted' = deleted
            BY <2>4 DEF RuntimeInv, TypeOK, Call, Retry, Swap
        <3>2. OnlyStartsStore'
            BY <2>1, <2>2, <3>1 DEF RuntimeInv, StartsInv, OnlyStartsStore, Storing
        <3>3. \A d \in Caller : Storing(d)' => Storing(d) /\ call'[d].session = call[d].session
            BY <2>1, <2>2, <3>1 DEF Storing
        <3>4. StartsFresh'
            BY <2>1, <3>1, <3>3 DEF RuntimeInv, StartsInv, StartsFresh, Unseen
        <3>5. StartsApart'
            BY <3>3 DEF RuntimeInv, StartsInv, StartsApart
        <3> QED
            BY <3>2, <3>4, <3>5 DEF StartsInv
    <2> QED
        BY <2>3, <2>4
<1>5. MapInv'
    BY DEF RuntimeInv, LockHeld, StartsInv, OnlyStartsStore, StartsFresh, MapInv, DeletedWasStarted,
       DeletedMeansGone, Finished, Storing, Unseen, Swap
<1> QED
    BY <1>1, <1>2, <1>3, <1>4, <1>5 DEF RuntimeInv

LEMMA RefuseCommandKeeps ==
    ASSUME RuntimeInv, NEW c \in Caller, RefuseCommand(c)
    PROVE  RuntimeInv'
<1>1. TypeOK'
    BY DEF RuntimeInv, TypeOK, Call, Op, Return, NoCall, RefuseCommand
<1>2. PointersInv'
    BY DEF RuntimeInv, PointersInv, PointersKnown, PointersSet, Return, NoCall, Holding,
       RefuseCommand
<1>3. LockHeld'
    BY DEF RuntimeInv, LockHeld, Return, Finished, NoCall, Holding, RefuseCommand
<1>4. StartsInv'
    BY DEF RuntimeInv, StartsInv, OnlyStartsStore, StartsFresh, StartsApart, Return, NoCall,
       Storing, Unseen, RefuseCommand
<1>5. MapInv'
    BY DEF RuntimeInv, MapInv, DeletedWasStarted, DeletedMeansGone, RefuseCommand
<1> QED
    BY <1>1, <1>2, <1>3, <1>4, <1>5 DEF RuntimeInv

LEMMA PlayCardKeeps ==
    ASSUME RuntimeInv, NEW c \in Caller, PlayCard(c)
    PROVE  RuntimeInv'
<1>1. TypeOK'
    BY DEF RuntimeInv, TypeOK, Call, Level, Return, NoCall, PlayCard
<1>2. PointersInv'
    BY DEF RuntimeInv, PointersInv, PointersKnown, PointersSet, Return, NoCall, Holding, PlayCard
<1>3. LockHeld'
    BY DEF RuntimeInv, TypeOK, Call, PointersInv, PointersSet, LockHeld, Return, Finished, NoCall,
       Holding, PlayCard
<1>4. StartsInv'
    BY DEF RuntimeInv, TypeOK, PointersInv, PointersKnown, PointersSet, StartsInv, OnlyStartsStore,
       StartsFresh, StartsApart, Return, NoCall, Storing, Unseen, PlayCard
<1>5. MapInv'
    BY Names DEF RuntimeInv, TypeOK, PointersInv, PointersKnown, MapInv, DeletedWasStarted,
       DeletedMeansGone, PlayCard
<1> QED
    BY <1>1, <1>2, <1>3, <1>4, <1>5 DEF RuntimeInv

LEMMA EndTurnKeeps ==
    ASSUME RuntimeInv, NEW c \in Caller, EndTurn(c)
    PROVE  RuntimeInv'
<1>1. TypeOK'
    BY DEF RuntimeInv, TypeOK, Call, Level, Op, Return, NoCall, EndTurn
<1>2. PointersInv'
    BY DEF RuntimeInv, PointersInv, PointersKnown, PointersSet, Return, NoCall, Holding, EndTurn
<1>3. LockHeld'
    BY DEF RuntimeInv, TypeOK, Call, PointersInv, PointersSet, LockHeld, Return, Finished, NoCall,
       Holding, EndTurn
<1>4. StartsInv'
    BY DEF RuntimeInv, TypeOK, PointersInv, PointersKnown, PointersSet, StartsInv, OnlyStartsStore,
       StartsFresh, StartsApart, Return, NoCall, Storing, Unseen, EndTurn
<1>5. MapInv'
    BY Names DEF RuntimeInv, TypeOK, PointersInv, PointersKnown, MapInv, DeletedWasStarted,
       DeletedMeansGone, EndTurn
<1> QED
    BY <1>1, <1>2, <1>3, <1>4, <1>5 DEF RuntimeInv

\* What is checked here is what the commit relies on.
LEMMA SettleKeeps ==
    ASSUME RuntimeInv, NEW c \in Caller, Settle(c)
    PROVE  RuntimeInv'
<1>1. TypeOK'
    BY DEF RuntimeInv, TypeOK, Call, Op, GoTo, Return, Lock, NoCall, Settle
<1>2. PointersInv'
    BY DEF RuntimeInv, TypeOK, Call, Level, Op, PointersInv, PointersKnown, PointersSet, GoTo,
       Return, NoCall, Holding, Settle
<1>3. LockHeld'
    BY Names DEF RuntimeInv, TypeOK, Call, PointersInv, PointersKnown, PointersSet, LockHeld, GoTo,
       Return, Lock, Finished, NoCall, Holding, Usable, Settleable, Settle
<1>4. StartsInv'
    <2>1. \A d \in Caller \ {c} : call'[d] = call[d]
        BY DEF RuntimeInv, TypeOK, GoTo, Return, Settle
    <2>2. call'[c].pc \in {"idle", "commit"}
        BY DEF RuntimeInv, TypeOK, Call, GoTo, Return, NoCall, Settle
    <2>3. \A d \in Caller : Storing(d)' => Storing(d) /\ call'[d].session = call[d].session
        BY <2>1, <2>2 DEF Storing
    <2>4. \A s \in Session : Unseen(s) => Unseen(s)'
        BY DEF Unseen, Settle
    <2>5. \A d \in Caller : call'[d].pc \in {"retry", "insert", "swap"} => call'[d].op = "start"
        BY <2>1, <2>2 DEF RuntimeInv, StartsInv, OnlyStartsStore
    <2> QED
        BY <2>3, <2>4, <2>5, StartsStay DEF RuntimeInv
<1>5. MapInv'
    BY DEF RuntimeInv, MapInv, DeletedWasStarted, DeletedMeansGone, Settle
<1> QED
    BY <1>1, <1>2, <1>3, <1>4, <1>5 DEF RuntimeInv

LEMMA SettleCommitsKeeps ==
    ASSUME RuntimeInv, NEW c \in Caller, SettleCommits(c)
    PROVE  RuntimeInv'
<1>1. TypeOK'
    BY Names DEF RuntimeInv, TypeOK, Call, Level, Op, PointersInv, PointersSet, Return, Unlock,
       NoCall, Holding, SettleCommits
<1>2. PointersInv'
    BY DEF RuntimeInv, PointersInv, PointersKnown, PointersSet, Return, NoCall, Holding,
       SettleCommits
<1>3. LockHeld'
    BY DEF RuntimeInv, TypeOK, LockHeld, Return, Unlock, Finished, NoCall, Holding, SettleCommits
<1>4. StartsInv'
    BY DEF RuntimeInv, LockHeld, StartsInv, OnlyStartsStore, StartsFresh, StartsApart, Return,
       NoCall, Storing, Unseen, SettleCommits
<1>5. MapInv'
    BY Names DEF RuntimeInv, PointersInv, PointersKnown, MapInv, DeletedWasStarted,
       DeletedMeansGone, SettleCommits
<1> QED
    BY <1>1, <1>2, <1>3, <1>4, <1>5 DEF RuntimeInv

LEMMA SettleFailsKeeps ==
    ASSUME RuntimeInv, NEW c \in Caller, SettleFails(c)
    PROVE  RuntimeInv'
<1>1. TypeOK'
    BY Names DEF RuntimeInv, TypeOK, Call, Op, PointersInv, PointersSet, Return, Unlock, NoCall,
       Holding, SettleFails
<1>2. PointersInv'
    BY DEF RuntimeInv, PointersInv, PointersKnown, PointersSet, Return, NoCall, Holding, SettleFails
<1>3. LockHeld'
    BY DEF RuntimeInv, TypeOK, LockHeld, Return, Unlock, Finished, NoCall, Holding, SettleFails
<1>4. StartsInv'
    BY DEF RuntimeInv, StartsInv, OnlyStartsStore, StartsFresh, StartsApart, Return, NoCall,
       Storing, Unseen, SettleFails
<1>5. MapInv'
    BY DEF RuntimeInv, MapInv, DeletedWasStarted, DeletedMeansGone, SettleFails
<1> QED
    BY <1>1, <1>2, <1>3, <1>4, <1>5 DEF RuntimeInv

\* The settlement is counted, but the level stays won.
LEMMA SettleReplyLostKeeps ==
    ASSUME RuntimeInv, NEW c \in Caller, SettleReplyLost(c)
    PROVE  RuntimeInv'
<1>1. TypeOK'
    BY Names DEF RuntimeInv, TypeOK, Call, Op, PointersInv, PointersSet, Return, Unlock, NoCall,
       Holding, SettleReplyLost
<1>2. PointersInv'
    BY DEF RuntimeInv, PointersInv, PointersKnown, PointersSet, Return, NoCall, Holding,
       SettleReplyLost
<1>3. LockHeld'
    BY DEF RuntimeInv, TypeOK, LockHeld, Return, Unlock, Finished, NoCall, Holding, SettleReplyLost
<1>4. StartsInv'
    BY DEF RuntimeInv, StartsInv, OnlyStartsStore, StartsFresh, StartsApart, Return, NoCall,
       Storing, Unseen, SettleReplyLost
<1>5. MapInv'
    BY Names DEF RuntimeInv, PointersInv, PointersKnown, MapInv, DeletedWasStarted,
       DeletedMeansGone, SettleReplyLost
<1> QED
    BY <1>1, <1>2, <1>3, <1>4, <1>5 DEF RuntimeInv

LEMMA LockForDeleteKeeps ==
    ASSUME RuntimeInv, NEW c \in Caller, LockForDelete(c)
    PROVE  RuntimeInv'
<1>1. TypeOK'
    BY DEF RuntimeInv, TypeOK, Call, PointersInv, PointersSet, GoTo, Lock, LockForDelete
<1>2. PointersInv'
    BY DEF RuntimeInv, PointersInv, PointersKnown, PointersSet, GoTo, LockForDelete
<1>3. LockHeld'
    BY Names DEF RuntimeInv, TypeOK, PointersInv, PointersKnown, PointersSet, LockHeld, GoTo, Lock,
       Finished, LockForDelete
<1>4. StartsInv'
    BY DEF RuntimeInv, StartsInv, OnlyStartsStore, StartsFresh, StartsApart, GoTo, Storing, Unseen,
       LockForDelete
<1>5. MapInv'
    BY DEF RuntimeInv, MapInv, DeletedWasStarted, DeletedMeansGone, LockForDelete
<1> QED
    BY <1>1, <1>2, <1>3, <1>4, <1>5 DEF RuntimeInv

\* The runtime leaves the map, if it is still there, in the step that sets its
\* deleted flag.
LEMMA RemoveKeeps ==
    ASSUME RuntimeInv, NEW c \in Caller, Remove(c)
    PROVE  RuntimeInv'
<1>1. TypeOK'
    BY Names DEF RuntimeInv, TypeOK, Call, Op, PointersInv, PointersSet, Return, Unlock, NoCall,
       Holding, Remove
<1>2. PointersInv'
    BY DEF RuntimeInv, PointersInv, PointersKnown, PointersSet, Return, NoCall, Holding, Remove
<1>3. LockHeld'
    BY DEF RuntimeInv, TypeOK, LockHeld, Return, Unlock, Finished, NoCall, Holding, Remove
<1>4. StartsInv'
    BY Names DEF RuntimeInv, StartsInv, OnlyStartsStore, StartsFresh, StartsApart, Return, NoCall,
       Storing, Unseen, Remove
<1>5. MapInv'
    BY Names DEF RuntimeInv, TypeOK, PointersInv, PointersSet, MapInv, DeletedWasStarted,
       DeletedMeansGone, Holding, Remove
<1> QED
    BY <1>1, <1>2, <1>3, <1>4, <1>5 DEF RuntimeInv

\* The pointer is read before the lock is taken.
LEMMA DeletePlayerRuntimeKeeps ==
    ASSUME RuntimeInv, NEW c \in Caller, DeletePlayerRuntime(c)
    PROVE  RuntimeInv'
<1>1. TypeOK'
    BY DEF RuntimeInv, TypeOK, Call, Op, LookUp, NoCall, DeletePlayerRuntime
<1>2. PointersInv'
    BY DEF RuntimeInv, PointersInv, PointersKnown, PointersSet, LookUp, NoCall, Holding,
       DeletePlayerRuntime
<1>3. LockHeld'
    BY DEF RuntimeInv, LockHeld, Finished, LookUp, NoCall, Holding, DeletePlayerRuntime
<1>4. StartsInv'
    BY DEF RuntimeInv, StartsInv, OnlyStartsStore, StartsFresh, StartsApart, LookUp, NoCall,
       Storing, Unseen, DeletePlayerRuntime
<1>5. MapInv'
    BY DEF RuntimeInv, MapInv, DeletedWasStarted, DeletedMeansGone, DeletePlayerRuntime
<1> QED
    BY <1>1, <1>2, <1>3, <1>4, <1>5 DEF RuntimeInv

-----------------------------------------------------------------------------

LEMMA RuntimeInit == Init => RuntimeInv
BY Names DEF Init, RuntimeInv, TypeOK, Call, Level, Op, NoCall, PointersInv, PointersKnown,
   PointersSet, LockHeld, StartsInv, OnlyStartsStore, StartsFresh, StartsApart, Holding, Storing,
   MapInv, DeletedWasStarted, DeletedMeansGone

LEMMA RuntimeStep == RuntimeInv /\ [Next]_vars => RuntimeInv'
<1> SUFFICES ASSUME RuntimeInv, [Next]_vars
             PROVE  RuntimeInv'
    OBVIOUS
<1>1. ASSUME NEW c \in Caller, Begin(c)
      PROVE  RuntimeInv'
    BY <1>1, DeletePlayerRuntimeKeeps, StartLevelKeeps, CommandKeeps DEF Begin
<1>2. ASSUME NEW c \in Caller, Continue(c)
      PROVE  RuntimeInv'
    BY <1>2, LookAgainKeeps, InsertKeeps, LockForStartKeeps, SwapKeeps, RefuseCommandKeeps,
       PlayCardKeeps, EndTurnKeeps, SettleKeeps, SettleCommitsKeeps, SettleFailsKeeps,
       SettleReplyLostKeeps, LockForDeleteKeeps, RemoveKeeps DEF Continue
<1>3. CASE UNCHANGED vars
    BY <1>3 DEF vars, RuntimeInv, TypeOK, PointersInv, PointersKnown, PointersSet, LockHeld,
       StartsInv, OnlyStartsStore, StartsFresh, StartsApart, Storing, Unseen, Finished, MapInv,
       DeletedWasStarted, DeletedMeansGone
<1> QED
    BY <1>1, <1>2, <1>3 DEF Next

\* However starts, commands, settlements and deletions interleave, what a
\* goroutine knows of its runtime stays true until it lets go of it.
THEOREM Invariance == Spec => []RuntimeInv
BY RuntimeInit, RuntimeStep, PTL DEF Spec

\* The variables keep their types, and a mutex is held by a goroutine that is
\* about to release it.
THEOREM Typing == Spec => []TypeOK
<1>1. RuntimeInv => TypeOK
    BY DEF RuntimeInv
<1> QED
    BY <1>1, Invariance, PTL

\* A goroutine can always tell a runtime that has left the map from the one
\* that is in it.
THEOREM DeletedIsGone == Spec => []DeletedMeansGone
<1>1. RuntimeInv => DeletedMeansGone
    BY DEF RuntimeInv, MapInv
<1> QED
    BY <1>1, Invariance, PTL

-----------------------------------------------------------------------------
(* Steps. *)

\* What a step does to the level, the settlements and the map: nothing, or
\* one of five things.
LEMMA Effects ==
    ASSUME RuntimeInv, [Next]_vars
    PROVE  \/ UNCHANGED <<level, granted, current>>
           \/ /\ UNCHANGED <<level, granted>>
              /\ current = None \/ current' = None \/ Finished(current)
           \/ /\ UNCHANGED <<granted, current>>
              /\ \E s \in Session : /\ s \notin deleted
                                   /\ \/ Lifecycle!Become(s, "unborn", "playing")
                                      \/ Lifecycle!Become(s, "playing", "won")
                                      \/ Lifecycle!Become(s, "playing", "failed")
           \/ /\ UNCHANGED current
              /\ \E s \in Session :
                     /\ s \notin deleted /\ level[s] = "won"
                     /\ granted' = [granted EXCEPT ![s] = @ + 1]
                     /\ level' = level \/ Lifecycle!Become(s, "won", "settled")
<1>1. ASSUME NEW c \in Caller, Begin(c)
      PROVE  \/ UNCHANGED <<level, granted, current>>
             \/ /\ UNCHANGED <<granted, current>>
                /\ \E s \in Session :
                       s \notin deleted /\ Lifecycle!Become(s, "unborn", "playing")
    BY <1>1 DEF Begin, DeletePlayerRuntime, Command, StartLevel, Lifecycle!Become, RuntimeInv,
       MapInv, DeletedWasStarted
<1>2. ASSUME NEW c \in Caller,
             \/ LookAgain(c) \/ LockForStart(c) \/ RefuseCommand(c) \/ Settle(c)
             \/ SettleFails(c) \/ LockForDelete(c)
      PROVE  UNCHANGED <<level, granted, current>>
    BY <1>2 DEF LookAgain, LockForStart, RefuseCommand, Settle, SettleFails, LockForDelete
<1>3. ASSUME NEW c \in Caller, Insert(c) \/ Swap(c) \/ Remove(c)
      PROVE  /\ UNCHANGED <<level, granted>>
             /\ current = None \/ current' = current \/ current' = None \/ Finished(current)
    BY <1>3 DEF Insert, Swap, Remove, RuntimeInv, LockHeld
<1>4. ASSUME NEW c \in Caller, PlayCard(c) \/ EndTurn(c)
      PROVE  /\ UNCHANGED <<granted, current>>
             /\ \/ level' = level
                \/ \E s \in Session :
                       /\ s \notin deleted
                       /\ \/ Lifecycle!Become(s, "playing", "won")
                          \/ Lifecycle!Become(s, "playing", "failed")
    <2>1. call[c].runtime \in Session
        BY <1>4 DEF PlayCard, EndTurn, RuntimeInv, TypeOK, Call, PointersInv, PointersSet
    <2> QED
        BY <1>4, <2>1 DEF PlayCard, EndTurn, Usable, Lifecycle!Become
<1>5. ASSUME NEW c \in Caller, SettleCommits(c) \/ SettleReplyLost(c)
      PROVE  /\ UNCHANGED current
             /\ \E s \in Session :
                    /\ s \notin deleted /\ level[s] = "won"
                    /\ granted' = [granted EXCEPT ![s] = @ + 1]
                    /\ level' = level \/ Lifecycle!Become(s, "won", "settled")
    <2> DEFINE s == call[c].runtime
    <2>1. call[c].pc = "commit"
        BY <1>5 DEF SettleCommits, SettleReplyLost
    <2>2. s \in Session /\ s \notin deleted /\ level[s] = "won"
        BY <2>1 DEF RuntimeInv, TypeOK, Call, PointersInv, PointersSet, LockHeld, Holding
    <2> QED
        BY <1>5, <2>2 DEF SettleCommits, SettleReplyLost, Lifecycle!Become
<1>6. CASE UNCHANGED vars
    BY <1>6 DEF vars
<1> QED
    BY <1>1, <1>2, <1>3, <1>4, <1>5, <1>6 DEF Next, Continue

\* A start never displaces an unfinished level.
THEOREM StartSpares == Spec => StartSparesUnfinishedLevel
<1>1. RuntimeInv /\ [Next]_vars =>
          [current # None /\ current' \notin {current, None} => Finished(current)]_vars
    BY Effects
<1> QED
    BY <1>1, Invariance, PTL DEF Spec, StartSparesUnfinishedLevel

\* Nothing happens to a runtime that has left the map or whose level is over.
THEOREM OverStaysOver == Spec => OverIsOver
<1>1. ASSUME RuntimeInv, [Next]_vars
      PROVE  \A s \in Session : s \in deleted \/ Finished(s) =>
                 granted'[s] = granted[s] /\ level'[s] = level[s]
    BY <1>1, Effects DEF RuntimeInv, TypeOK, Finished, Lifecycle!Become
<1>2. RuntimeInv /\ [Next]_vars =>
          [\A s \in Session : s \in deleted \/ Finished(s) =>
               granted'[s] = granted[s] /\ level'[s] = level[s]]_vars
    BY <1>1
<1> QED
    BY <1>2, Invariance, PTL DEF Spec, OverIsOver

\* The service with its two kinds of locks implements what clients are
\* promised of a level.
THEOREM ImplementsLifecycle == Spec => LevelsRunTheirCourse
<1>1. Init => Lifecycle!Init
    BY DEF Init, Lifecycle!Init
<1>2. RuntimeInv /\ [Next]_vars => [Lifecycle!Next]_level
    BY Effects DEF Lifecycle!Next
<1> QED
    BY <1>1, <1>2, Invariance, PTL DEF Spec, LevelsRunTheirCourse, Lifecycle!Spec
=============================================================================
