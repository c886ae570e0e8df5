-------------------------- MODULE PlayerOwnerProofs --------------------------
(***************************************************************************)
(* Proofs about PlayerOwner, for any set of servers, players and logins.   *)
(***************************************************************************)
EXTENDS PlayerOwner, TLAPS

USE DEF LoginPhases, Phases, OwnerRecord, NoOwner, Notice, Era, Command,
        IdleCommand, Reconciler, IdleReconciler, playVars

-----------------------------------------------------------------------------
(* Types. *)

\* Kicking a connection is the only thing that adds to closing, and it keeps
\* the type.
LEMMA KickTyped ==
    ASSUME TypeOK, NEW n \in Node, NEW x, KickClient(n, x)
    PROVE  closing' \subseteq Conn
  BY DEF TypeOK, KickClient

\* Unbind keeps the type of the session maps.
LEMMA UnbindTyped ==
    ASSUME TypeOK, NEW c \in Conn, Unbind(c)
    PROVE  sessions' \in [Node -> [Uid -> Conn \cup {None}]]
  BY ConnTyped DEF TypeOK, Unbind, Session

\* What remains of a round is a reconciler state.
LEMMA RemainingTyped ==
    ASSUME NEW drop \in SUBSET Uid, NEW refresh \in SUBSET Uid
    PROVE  Remaining(drop, refresh) \in Reconciler
  BY DEF Remaining

\* A claim keeps the types of the owner records and of what is left behind.
LEMMA ApplyClaimTyped ==
    ASSUME TypeOK, NEW c \in Conn, ApplyClaim(c)
    PROVE  /\ owner' \in [Uid -> OwnerRecord \cup {NoOwner}]
           /\ runtime' \in [Node -> [Uid -> Era \cup {"none"}]]
           /\ results' \in [Node -> [Uid -> Era \cup {"none"}]]
           /\ command' \in [Conn -> Command]
  <1>1. owner' \in [Uid -> OwnerRecord \cup {NoOwner}]
    BY ConnTyped DEF TypeOK, ApplyClaim
  <1>2. EraEnds(UidOf[c], NodeOf[c])
    BY DEF ApplyClaim
  <1>3. \A e \in Era \cup {"none"} : Outlived(e) \in Era \cup {"none"}
    BY DEF Outlived
  <1>4. /\ runtime' \in [Node -> [Uid -> Era \cup {"none"}]]
        /\ results' \in [Node -> [Uid -> Era \cup {"none"}]]
    <2> DEFINE Eras == Era \cup {"none"}
    <2>1. \A f \in [Uid -> Eras] :
            [f EXCEPT ![UidOf[c]] = Outlived(@)] \in [Uid -> Eras]
      BY <1>3, ConnTyped
    <2>2. \A m \in Node : runtime[m] \in [Uid -> Eras] /\ results[m] \in [Uid -> Eras]
      BY DEF TypeOK
    <2> HIDE DEF Eras
    <2>3. /\ runtime' \in [Node -> [Uid -> Eras]]
          /\ results' \in [Node -> [Uid -> Eras]]
      BY <1>2, <2>1, <2>2 DEF EraEnds
    <2>4. QED
      BY <2>3 DEF Eras
  <1>5. \A k \in Command : [k EXCEPT !.era = Outlived(@)] \in Command
    BY <1>3
  <1>6. \A d \in Conn : command[d] \in Command
    BY DEF TypeOK
  <1>7. command' \in [Conn -> Command]
    <2> HIDE DEF Command
    <2>1. QED
      BY <1>2, <1>5, <1>6 DEF EraEnds
  <1>8. QED
    BY <1>1, <1>4, <1>7

\* What a command leaves behind replaces one entry of the table.
LEMMA EntryTyped ==
    ASSUME NEW f \in [Node -> [Uid -> Era \cup {"none"}]], NEW n \in Node,
           NEW u \in Uid, NEW e \in Era \cup {"none"}
    PROVE  /\ [f EXCEPT ![n][u] = e] \in [Node -> [Uid -> Era \cup {"none"}]]
           /\ \A m \in Node, v \in Uid :
                [f EXCEPT ![n][u] = e][m][v] =
                    IF m = n /\ v = u THEN e ELSE f[m][v]
  OBVIOUS

\* Deleting what a server keeps of a player keeps the types.
LEMMA DeleteTyped ==
    ASSUME TypeOK, NEW n \in Node, NEW u \in Uid, DeleteLocalState(n, u)
    PROVE  /\ runtime' \in [Node -> [Uid -> Era \cup {"none"}]]
           /\ results' \in [Node -> [Uid -> Era \cup {"none"}]]
           /\ command' \in [Conn -> Command]
  BY DEF TypeOK, DeleteLocalState

\* Setting the TTL of a record that some server holds gives a record.
LEMMA TtlTyped ==
    ASSUME NEW r \in OwnerRecord \cup {NoOwner}, r.server \in Node,
           NEW t \in {"owner", "offline"}
    PROVE  [r EXCEPT !.ttl = t] \in OwnerRecord
  <1>1. r \in OwnerRecord
    BY NoneFresh
  <1>2. QED
    BY <1>1

\* The type invariant is inductive.
LEMMA TypeStep == TypeOK /\ [Next]_vars => TypeOK'
  <1> SUFFICES ASSUME TypeOK, [Next]_vars PROVE TypeOK'
    OBVIOUS
  <1> USE ConnTyped, NoneFresh
  <1>1. ASSUME NEW c \in Conn, ConnNext(c) PROVE TypeOK'
    <2>1. CASE Bind(c)
      BY <2>1 DEF Bind, TypeOK, Session
    <2>2. CASE Claim(c)
      BY <2>2, ApplyClaimTyped DEF Claim, TypeOK
    <2>3. CASE ClaimFails(c)
      BY <2>3 DEF ClaimFails, TypeOK
    <2>4. CASE ClaimReplyLost(c)
      BY <2>4, ApplyClaimTyped DEF ClaimReplyLost, TypeOK
    <2>5. CASE AbortLogin(c)
      BY <2>5, UnbindTyped DEF AbortLogin, TypeOK
    <2>6. CASE AdoptOwnership(c)
      <3>1. /\ runtime' \in [Node -> [Uid -> Era \cup {"none"}]]
            /\ results' \in [Node -> [Uid -> Era \cup {"none"}]]
            /\ command' \in [Conn -> Command]
        <4>1. CASE DeleteLocalState(NodeOf[c], UidOf[c])
          BY <4>1, DeleteTyped
        <4>2. CASE UNCHANGED playVars
          BY <4>2 DEF TypeOK
        <4>3. QED
          BY <2>6, <4>1, <4>2 DEF AdoptOwnership
      <3>2. notices' \subseteq Notice
        <4>1. previous[c] \in OwnerRecord \cup {NoOwner}
          BY DEF TypeOK
        <4>2. Informs(previous[c], NodeOf[c]) => previous[c] \in OwnerRecord
          BY <4>1 DEF Informs
        <4>3. QED
          BY <2>6, <4>2 DEF AdoptOwnership, TypeOK
      <3>3. QED
        BY <2>6, <3>1, <3>2 DEF AdoptOwnership, TypeOK
    <2>7. CASE Register(c)
      BY <2>7 DEF Register, TypeOK
    <2>8. CASE FinishLogin(c)
      <3>1. closing' \subseteq Conn
        BY <2>8, KickTyped DEF FinishLogin, TypeOK
      <3>2. QED
        BY <2>8, <3>1 DEF FinishLogin, TypeOK
    <2>9. CASE AckFails(c)
      BY <2>9, UnbindTyped DEF AckFails, TypeOK
    <2>10. CASE LeaveClients(c)
      BY <2>10 DEF LeaveClients, TypeOK
    <2>11. CASE MarkOffline(c)
      <3>1. owner[UidOf[c]] \in OwnerRecord \cup {NoOwner}
        BY DEF TypeOK
      <3>2. StillOwns(c) =>
              [owner[UidOf[c]] EXCEPT !.ttl = "offline"] \in OwnerRecord
        BY <3>1, TtlTyped DEF StillOwns
      <3>3. owner' \in [Uid -> OwnerRecord \cup {NoOwner}]
        BY <2>11, <3>2 DEF MarkOffline, TypeOK
      <3>4. QED
        BY <2>11, <3>3 DEF MarkOffline, TypeOK
    <2>12. CASE BeginCommand(c)
      BY <2>12 DEF BeginCommand, TypeOK
    <2>13. CASE Disconnect(c)
      BY <2>13, UnbindTyped DEF Disconnect, TypeOK
    <2>14. CASE CommandStep(c)
      <3>1. command[c] \in Command
        BY DEF TypeOK
      <3>2. CASE HandlerReturns(c)
        <4>1. command[c].pc = "handler"
          BY <3>2 DEF HandlerReturns
        <4>2. [command[c] EXCEPT !.pc = "put"] \in Command
          BY <3>1
        <4>3. command' \in [Conn -> Command]
          <5>1. command' = [command EXCEPT ![c] = [command[c] EXCEPT !.pc = "put"]]
            BY <3>2 DEF HandlerReturns
          <5>2. command \in [Conn -> Command]
            BY DEF TypeOK
          <5> HIDE DEF Command
          <5>3. QED
            BY <4>2, <5>1, <5>2
        <4>4. runtime' \in [Node -> [Uid -> Era \cup {"none"}]]
          <5>1. command[c].era \in Era \cup {"none"}
            BY <3>1
          <5>2. \/ runtime' = runtime
                \/ runtime' = [runtime EXCEPT ![NodeOf[c]][UidOf[c]] = command[c].era]
            BY <3>2 DEF HandlerReturns
          <5>3. runtime \in [Node -> [Uid -> Era \cup {"none"}]]
            BY DEF TypeOK
          <5> DEFINE stored == [runtime EXCEPT ![NodeOf[c]][UidOf[c]] = command[c].era]
          <5>4. stored \in [Node -> [Uid -> Era \cup {"none"}]]
            BY <5>1, <5>3, EntryTyped
          <5> HIDE DEF stored
          <5>5. QED
            BY <5>2, <5>3, <5>4 DEF stored
        <4>5. QED
          BY <3>2, <4>3, <4>4 DEF HandlerReturns, TypeOK
      <3>3. CASE PutResult(c)
        <4>1. command[c].era \in Era \cup {"none"}
          BY <3>1
        <4>2. \/ results' = results
              \/ results' = [results EXCEPT ![NodeOf[c]][UidOf[c]] = command[c].era]
          BY <3>3 DEF PutResult
        <4>3. results' \in [Node -> [Uid -> Era \cup {"none"}]]
          <5>1. results \in [Node -> [Uid -> Era \cup {"none"}]]
            BY DEF TypeOK
          <5> DEFINE stored == [results EXCEPT ![NodeOf[c]][UidOf[c]] = command[c].era]
          <5>2. stored \in [Node -> [Uid -> Era \cup {"none"}]]
            BY <4>1, <5>1, EntryTyped
          <5> HIDE DEF stored
          <5>3. QED
            BY <4>2, <5>1, <5>2 DEF stored
        <4>4. command' \in [Conn -> Command]
          BY <3>3 DEF PutResult, TypeOK
        <4>5. QED
          BY <3>3, <4>3, <4>4 DEF PutResult, TypeOK
      <3>4. CASE EndUncached(c)
        BY <3>4 DEF EndUncached, TypeOK
      <3>5. QED
        BY <2>14, <3>2, <3>3, <3>4 DEF CommandStep
    <2>15. QED
      BY <1>1, <2>1, <2>2, <2>3, <2>4, <2>5, <2>6, <2>7, <2>8, <2>9, <2>10,
         <2>11, <2>12, <2>13, <2>14 DEF ConnNext, HandlerStep
  <1>2. ASSUME NEW u \in Uid, Expire(u) PROVE TypeOK'
    BY <1>2 DEF Expire, TypeOK
  <1>3. ASSUME NEW m \in notices, DeliverNotice(m) PROVE TypeOK'
    <2>1. m.server \in Node /\ m.conn \in Conn
      BY DEF TypeOK
    <2>2. closing' \subseteq Conn
      BY <1>3, <2>1, KickTyped DEF DeliverNotice, KickConnection, TypeOK
    <2>3. QED
      BY <1>3, <2>2 DEF DeliverNotice, TypeOK
  <1>4. ASSUME NEW m \in notices, LoseNotice(m) PROVE TypeOK'
    BY <1>4 DEF LoseNotice, TypeOK
  <1>5. ASSUME NEW n \in Node, ReconcilerNext(n) PROVE TypeOK'
    <2>1. CASE Scan(n)
      BY <2>1 DEF Scan, TypeOK
    <2>2. CASE FetchOwners(n)
      <3>1. rec[n] \in Reconciler
        BY DEF TypeOK
      <3>2. rec' \in [Node -> Reconciler]
        BY <2>2, <3>1, RemainingTyped DEF FetchOwners, TypeOK
      <3>3. QED
        BY <2>2, <3>2 DEF FetchOwners, TypeOK
    <2>3. CASE FetchFails(n)
      BY <2>3 DEF FetchFails, TypeOK
    <2>4. CASE RefreshOwned(n)
      <3>1. owner' \in [Uid -> OwnerRecord \cup {NoOwner}]
        <4>1. \A u \in Uid : owner[u].server = n =>
                [owner[u] EXCEPT !.ttl = "owner"] \in OwnerRecord
          <5> SUFFICES ASSUME NEW u \in Uid, owner[u].server = n
                       PROVE  [owner[u] EXCEPT !.ttl = "owner"] \in OwnerRecord
            OBVIOUS
          <5>1. owner[u] \in OwnerRecord \cup {NoOwner}
            BY DEF TypeOK
          <5>2. owner[u].server \in Node
            OBVIOUS
          <5> HIDE DEF OwnerRecord, NoOwner
          <5>3. QED
            BY <5>1, <5>2, TtlTyped
        <4>2. \A u \in Uid : owner[u] \in OwnerRecord \cup {NoOwner}
          BY DEF TypeOK
        <4>3. CASE owner' = owner
          BY <4>3 DEF TypeOK
        <4>4. CASE owner' # owner
          BY <2>4, <4>1, <4>2, <4>4 DEF RefreshOwned
        <4>5. QED
          BY <4>3, <4>4
      <3>2. QED
        BY <2>4, <3>1 DEF RefreshOwned, TypeOK
    <2>5. ASSUME NEW u \in Uid, RemovePlayerRuntime(n, u) PROVE TypeOK'
      <3>1. closing' \subseteq Conn
        BY <2>5, KickTyped DEF RemovePlayerRuntime, KickUID, TypeOK
      <3>2. rec' \in [Node -> Reconciler]
        <4>1. rec[n] \in Reconciler
          BY DEF TypeOK
        <4>2. Remaining(rec[n].drop \ {u}, rec[n].refresh) \in Reconciler
          BY <4>1, RemainingTyped
        <4>3. QED
          BY <2>5, <4>2 DEF RemovePlayerRuntime, TypeOK
      <3>3. QED
        BY <2>5, <3>1, <3>2, DeleteTyped DEF RemovePlayerRuntime, TypeOK
    <2>6. QED
      BY <1>5, <2>1, <2>2, <2>3, <2>4, <2>5 DEF ReconcilerNext
  <1>6. ASSUME NEW n \in Node, Crash(n) PROVE TypeOK'
    <2>1. \A d \in Conn : command'[d] = IdleCommand \/ command'[d] = command[d]
      BY <1>6 DEF Crash
    <2>2. command' \in [Conn -> Command]
      BY <1>6, <2>1 DEF Crash, TypeOK
    <2>3. /\ runtime' \in [Node -> [Uid -> Era \cup {"none"}]]
          /\ results' \in [Node -> [Uid -> Era \cup {"none"}]]
      BY <1>6 DEF Crash, TypeOK
    <2>4. /\ phase' \in [Conn -> Phases]
          /\ oldConn' \in [Conn -> Conn \cup {None}]
          /\ previous' \in [Conn -> OwnerRecord \cup {NoOwner}]
      BY <1>6 DEF Crash, TypeOK
    <2>5. /\ sessions' \in [Node -> [Uid -> Conn \cup {None}]]
          /\ clients' \in [Node -> SUBSET Conn]
          /\ closing' \subseteq Conn
      BY <1>6 DEF Crash, TypeOK
    <2>6. /\ owner' \in [Uid -> OwnerRecord \cup {NoOwner}]
          /\ notices' \subseteq Notice
          /\ rec' \in [Node -> Reconciler]
      BY <1>6 DEF Crash, TypeOK
    <2>7. QED
      BY <2>2, <2>3, <2>4, <2>5, <2>6 DEF TypeOK
  <1>7. ASSUME NEW n \in Operated, OperatorKicksAll(n) PROVE TypeOK'
    BY <1>7, FaultsTyped DEF OperatorKicksAll, TypeOK
  <1>8. ASSUME NEW n \in Operated, NEW u \in Uid, OperatorKicksPlayer(n, u)
        PROVE TypeOK'
    <2>1. n \in Node
      BY FaultsTyped
    <2>2. closing' \subseteq Conn
      BY <1>8, <2>1, KickTyped DEF OperatorKicksPlayer, KickUID, TypeOK
    <2>3. QED
      BY <1>8, <2>2 DEF OperatorKicksPlayer, TypeOK
  <1>9. ASSUME NEW n \in Node, NEW u \in Uid, ResultsExpire(n, u) PROVE TypeOK'
    BY <1>9 DEF ResultsExpire, TypeOK
  <1>10. CASE UNCHANGED vars
    BY <1>10 DEF vars, TypeOK
  <1>11. QED
    BY <1>1, <1>2, <1>3, <1>4, <1>5, <1>6, <1>7, <1>8, <1>9, <1>10 DEF Next

LEMMA TypeInit == Init => TypeOK
  BY NoneFresh DEF Init, TypeOK

\* The variables of the model keep their types.
THEOREM Typing == Spec => []TypeOK
  BY TypeInit, TypeStep, PTL DEF Spec

-----------------------------------------------------------------------------
(* Sessions and the offline mark. *)

LEMMA SessionsInit == Init => SessionsNameLiveHandlers
  BY NoneFresh DEF Init, SessionsNameLiveHandlers

\* Unbind with the end of the handler of c leaves no entry that names c.
LEMMA UnbindRemoves ==
    ASSUME TypeOK, SessionsNameLiveHandlers, NEW c \in Conn, Unbind(c),
           NEW p \in Phases, phase' = [phase EXCEPT ![c] = p]
    PROVE  SessionsNameLiveHandlers'
  <1> USE ConnTyped, NoneFresh
  <1> SUFFICES ASSUME NEW n \in Node, NEW u \in Uid, NEW d \in Conn,
                      sessions'[n][u] = d
               PROVE  /\ NodeOf[d] = n /\ UidOf[d] = u
                      /\ phase'[d] \in LoginPhases \cup {"live"}
    BY DEF SessionsNameLiveHandlers
  <1>1. sessions[n][u] = d
    BY DEF Unbind, Session, TypeOK
  <1>2. NodeOf[d] = n /\ UidOf[d] = u /\ phase[d] \in LoginPhases \cup {"live"}
    BY <1>1 DEF SessionsNameLiveHandlers
  <1>3. d # c
    BY <1>1, <1>2 DEF Unbind, Session, TypeOK
  <1>4. QED
    BY <1>2, <1>3 DEF TypeOK

LEMMA SessionsStep ==
    TypeOK /\ SessionsNameLiveHandlers /\ [Next]_vars => SessionsNameLiveHandlers'
  <1> SUFFICES ASSUME TypeOK, SessionsNameLiveHandlers, [Next]_vars
               PROVE  SessionsNameLiveHandlers'
    OBVIOUS
  <1> USE ConnTyped, NoneFresh
  <1>1. /\ phase \in [Conn -> Phases]
        /\ sessions \in [Node -> [Uid -> Conn \cup {None}]]
    BY DEF TypeOK
  <1>2. ASSUME sessions' = sessions,
               \A d \in Conn : phase[d] \in LoginPhases \cup {"live"}
                                => phase'[d] \in LoginPhases \cup {"live"}
        PROVE  SessionsNameLiveHandlers'
    BY <1>2 DEF SessionsNameLiveHandlers
  <1>3. ASSUME NEW c \in Conn, ConnNext(c) PROVE SessionsNameLiveHandlers'
    <2>1. CASE Bind(c)
      <3>1. \A n \in Node, u \in Uid :
              \/ sessions'[n][u] = sessions[n][u]
              \/ n = NodeOf[c] /\ u = UidOf[c] /\ sessions'[n][u] = c
        BY <1>1, <2>1 DEF Bind
      <3>2. phase' = [phase EXCEPT ![c] = "bound"]
        BY <2>1 DEF Bind
      <3>3. QED
        BY <1>1, <3>1, <3>2 DEF SessionsNameLiveHandlers
    <2>2. CASE Claim(c) \/ ClaimFails(c) \/ ClaimReplyLost(c)
      BY <1>1, <1>2, <2>2 DEF Claim, ClaimFails, ClaimReplyLost
    <2>3. CASE AdoptOwnership(c) \/ Register(c) \/ FinishLogin(c)
      BY <1>1, <1>2, <2>3 DEF AdoptOwnership, Register, FinishLogin
    <2>4. CASE AbortLogin(c) \/ AckFails(c) \/ Disconnect(c)
      BY <2>4, UnbindRemoves DEF AbortLogin, AckFails, Disconnect
    <2>5. CASE LeaveClients(c) \/ MarkOffline(c)
      BY <1>1, <1>2, <2>5 DEF LeaveClients, MarkOffline
    <2>6. CASE BeginCommand(c) \/ CommandStep(c)
      BY <1>2, <2>6
         DEF BeginCommand, CommandStep, HandlerReturns, PutResult, EndUncached
    <2>7. QED
      BY <1>3, <2>1, <2>2, <2>3, <2>4, <2>5, <2>6 DEF ConnNext, HandlerStep
  <1>4. ASSUME NEW n \in Node, Crash(n) PROVE SessionsNameLiveHandlers'
    <2> DEFINE lost == {c \in Conn : NodeOf[c] = n
                                     /\ phase[c] \notin {"idle", "gone"}}
    <2>1. /\ sessions' = [sessions EXCEPT ![n] = [u \in Uid |-> None]]
          /\ phase' = [c \in Conn |-> IF c \in lost THEN "gone" ELSE phase[c]]
      BY <1>4 DEF Crash
    <2>2. ASSUME NEW m \in Node, NEW u \in Uid, NEW d \in Conn,
                 sessions'[m][u] = d
          PROVE  m # n /\ sessions[m][u] = d
      BY <1>1, <2>1, <2>2
    <2>3. ASSUME NEW d \in Conn, NodeOf[d] # n PROVE phase'[d] = phase[d]
      BY <2>1, <2>3
    <2>4. QED
      BY <2>2, <2>3 DEF SessionsNameLiveHandlers
  <1>5. ASSUME UNCHANGED <<phase, sessions>> PROVE SessionsNameLiveHandlers'
    BY <1>5 DEF SessionsNameLiveHandlers
  <1>6. QED
    BY <1>3, <1>4, <1>5
       DEF Next, vars, Expire, DeliverNotice, LoseNotice, ReconcilerNext, Scan,
           FetchOwners, FetchFails, RefreshOwned, RemovePlayerRuntime,
           OperatorKicksAll, OperatorKicksPlayer, ResultsExpire

\* However a login or a connection ends, the session map of a server names
\* only connections of that server and player whose handler still runs.
THEOREM SessionsAlive == Spec => []SessionsNameLiveHandlers
  BY SessionsInit, SessionsStep, Typing, PTL DEF Spec

LEMMA OfflineStep ==
    TypeOK /\ OfflineMeansGone /\ [Next]_vars => OfflineMeansGone'
  <1> SUFFICES ASSUME TypeOK, OfflineMeansGone, [Next]_vars
               PROVE  OfflineMeansGone'
    OBVIOUS
  <1> USE ConnTyped, NoneFresh
  <1>1. \A u \in Uid : owner[u].ttl = "offline" => owner[u].conn \in Conn
    BY DEF TypeOK
  <1>2. ASSUME owner' = owner,
               \A c \in Conn : phase[c] = "gone" => phase'[c] = "gone"
        PROVE  OfflineMeansGone'
    BY <1>1, <1>2 DEF OfflineMeansGone
  <1>3. ASSUME NEW c \in Conn, ConnNext(c) PROVE OfflineMeansGone'
    <2>1. CASE Claim(c) \/ ClaimReplyLost(c)
      <3>1. \A u \in Uid : \/ owner'[u] = owner[u]
                           \/ owner'[u].ttl = "owner"
        BY <2>1 DEF Claim, ClaimReplyLost, ApplyClaim, TypeOK
      <3>2. phase[c] = "bound" /\ \A d \in Conn \ {c} : phase'[d] = phase[d]
        BY <2>1 DEF Claim, ClaimReplyLost, TypeOK
      <3>3. QED
        BY <1>1, <3>1, <3>2 DEF OfflineMeansGone
    <2>2. CASE MarkOffline(c)
      <3>1. CASE owner' = owner
        BY <1>2, <2>2, <3>1 DEF MarkOffline, TypeOK
      <3>2. CASE owner' # owner
        <4>1. StillOwns(c)
          BY <2>2, <3>2 DEF MarkOffline
        <4>2. owner' = [owner EXCEPT ![UidOf[c]].ttl = "offline"]
          BY <2>2, <3>2 DEF MarkOffline
        <4>3. /\ owner \in [Uid -> OwnerRecord \cup {NoOwner}]
              /\ UidOf[c] \in Uid
              /\ owner[UidOf[c]].conn = c
          BY <4>1 DEF TypeOK, StillOwns
        <4>4. /\ \A u \in Uid \ {UidOf[c]} : owner'[u] = owner[u]
              /\ owner'[UidOf[c]].conn = c
          BY <4>2, <4>3
        <4>5. phase' = [phase EXCEPT ![c] = "gone"]
          BY <2>2 DEF MarkOffline
        <4>6. phase'[c] = "gone" /\ \A d \in Conn \ {c} : phase'[d] = phase[d]
          BY <4>5 DEF TypeOK
        <4>7. QED
          BY <1>1, <4>4, <4>6 DEF OfflineMeansGone
      <3>3. QED
        BY <3>1, <3>2
    <2>3. CASE Bind(c) \/ ClaimFails(c) \/ AbortLogin(c) \/ AdoptOwnership(c)
               \/ Register(c) \/ FinishLogin(c) \/ AckFails(c)
               \/ Disconnect(c) \/ LeaveClients(c)
      BY <1>2, <2>3
         DEF Bind, ClaimFails, AbortLogin, AdoptOwnership, Register,
             FinishLogin, AckFails, Disconnect, LeaveClients, TypeOK
    <2>4. CASE BeginCommand(c) \/ CommandStep(c)
      BY <1>2, <2>4
         DEF BeginCommand, CommandStep, HandlerReturns, PutResult, EndUncached
    <2>5. QED
      BY <1>3, <2>1, <2>2, <2>3, <2>4 DEF ConnNext, HandlerStep
  <1>4. ASSUME NEW u \in Uid, Expire(u) PROVE OfflineMeansGone'
    BY <1>4 DEF Expire, OfflineMeansGone, TypeOK
  <1>5. ASSUME NEW n \in Node, ReconcilerNext(n) PROVE OfflineMeansGone'
    <2>1. CASE RefreshOwned(n)
      <3>1. \A u \in Uid : \/ owner'[u] = owner[u]
                           \/ owner'[u] = [owner[u] EXCEPT !.ttl = "owner"]
        <4>1. CASE owner' = owner
          BY <4>1
        <4>2. CASE owner' # owner
          BY <2>1, <4>2 DEF RefreshOwned
        <4>3. QED
          BY <4>1, <4>2
      <3>2. \A u \in Uid : \/ owner'[u] = owner[u]
                           \/ owner'[u].ttl # "offline"
        <4>1. SUFFICES ASSUME NEW u \in Uid,
                              owner'[u] = [owner[u] EXCEPT !.ttl = "owner"]
                       PROVE  owner'[u].ttl # "offline"
          BY <3>1
        <4>2. owner[u] \in OwnerRecord \cup {NoOwner}
          BY DEF TypeOK
        <4>3. QED
          BY <4>1, <4>2
      <3>3. phase' = phase
        BY <2>1 DEF RefreshOwned
      <3>4. QED
        BY <3>2, <3>3 DEF OfflineMeansGone
    <2>2. CASE ~ RefreshOwned(n)
      BY <1>2, <1>5, <2>2
         DEF ReconcilerNext, Scan, FetchOwners, FetchFails, RemovePlayerRuntime
    <2>3. QED
      BY <2>1, <2>2
  <1>6. ASSUME NEW n \in Node, Crash(n) PROVE OfflineMeansGone'
    BY <1>2, <1>6 DEF Crash, TypeOK
  <1>7. ASSUME UNCHANGED <<phase, owner>> PROVE OfflineMeansGone'
    BY <1>2, <1>7
  <1>8. QED
    BY <1>3, <1>4, <1>5, <1>6, <1>7
       DEF Next, vars, DeliverNotice, LoseNotice, OperatorKicksAll,
           OperatorKicksPlayer, ResultsExpire

\* The offline TTL is only ever on the record of a finished connection: a
\* late OnDisconnect of a replaced connection cannot shorten the record of
\* the connection that replaced it.
THEOREM OfflineIsGone == Spec => []OfflineMeansGone
  <1>1. Init => OfflineMeansGone
    BY DEF Init, OfflineMeansGone
  <1>2. QED
    BY <1>1, OfflineStep, Typing, PTL DEF Spec

-----------------------------------------------------------------------------
(* Kick notices.  A connection claims at most once, and only before anybody *)
(* can name it; whoever names it afterwards names a replaced connection.    *)

\* The handler of c is past the point where it may claim.
PastClaim(c) == phase[c] \notin {"idle", "bound"}

\* An owner record names a connection that logged in there as that player.
OwnersClaimed ==
    \A u \in Uid : owner[u] # NoOwner =>
        /\ PastClaim(owner[u].conn)
        /\ UidOf[owner[u].conn] = u

\* The connection a handler found in the record is not in the record any more.
PreviousReplaced ==
    \A c \in Conn : previous[c] # NoOwner =>
        /\ PastClaim(previous[c].conn)
        /\ UidOf[previous[c].conn] = UidOf[c]
        /\ owner[UidOf[c]].conn # previous[c].conn

\* The connection a notice names is not in the record either.
NoticesReplaced ==
    \A m \in notices :
        /\ PastClaim(m.conn)
        /\ UidOf[m.conn] = m.uid
        /\ owner[m.uid].conn # m.conn

KickInv == OwnersClaimed /\ PreviousReplaced /\ NoticesReplaced

LEMMA KickInit == Init => KickInv
  BY DEF Init, KickInv, OwnersClaimed, PreviousReplaced, NoticesReplaced

\* A step that names no connection anew keeps the invariant.
LEMMA KickFrame ==
    ASSUME TypeOK, TypeOK', KickInv,
           \A c \in Conn : PastClaim(c) => PastClaim(c)',
           \A u \in Uid : owner'[u] = NoOwner \/ owner'[u].conn = owner[u].conn,
           \A c \in Conn : previous'[c] = NoOwner \/ previous'[c] = previous[c],
           notices' \subseteq notices
    PROVE  KickInv'
  <1> USE NoneFresh, ConnTyped
  <1>1. \A u \in Uid : owner'[u] # NoOwner =>
          owner'[u].conn \in Conn /\ owner'[u].conn = owner[u].conn
                                 /\ owner[u] # NoOwner
    BY DEF TypeOK
  <1>2. OwnersClaimed'
    BY <1>1 DEF KickInv, OwnersClaimed
  <1>3. \A c \in Conn : previous[c] # NoOwner => previous[c].conn \in Conn
    BY DEF TypeOK
  <1>4. PreviousReplaced'
    BY <1>1, <1>3 DEF KickInv, PreviousReplaced
  <1>5. \A m \in notices : m.conn \in Conn /\ m.uid \in Uid
    BY DEF TypeOK
  <1>6. NoticesReplaced'
    BY <1>1, <1>5 DEF KickInv, NoticesReplaced
  <1>7. QED
    BY <1>2, <1>4, <1>6 DEF KickInv

\* A claim names only the claiming connection, which nobody named before.
LEMMA KickClaim ==
    ASSUME TypeOK, KickInv, NEW c \in Conn, phase[c] = "bound",
           NEW p \in {"claimed", "claimFailed"},
           phase' = [phase EXCEPT ![c] = p], ApplyClaim(c),
           \/ previous' = previous
           \/ previous' = [previous EXCEPT ![c] = owner[UidOf[c]]],
           notices' = notices
    PROVE  KickInv'
  <1> USE NoneFresh, ConnTyped
  <1>1. /\ owner'[UidOf[c]] = [server |-> NodeOf[c], conn |-> c, ttl |-> "owner"]
        /\ \A u \in Uid \ {UidOf[c]} : owner'[u] = owner[u]
    BY DEF ApplyClaim, TypeOK
  <1>2. \A d \in Conn : PastClaim(d) =>
          d # c /\ PastClaim(d) /\ phase'[d] \notin {"idle", "bound"}
    BY DEF PastClaim, TypeOK
  <1>3. PastClaim(c)'
    BY DEF PastClaim, TypeOK
  <1>4. \A u \in Uid : owner[u] # NoOwner => owner[u].conn \in Conn
    BY DEF TypeOK
  <1>5. OwnersClaimed'
    BY <1>1, <1>2, <1>3, <1>4 DEF KickInv, OwnersClaimed, PastClaim
  <1>6. ASSUME NEW d \in Conn, previous'[d] # NoOwner
        PROVE  /\ phase'[previous'[d].conn] \notin {"idle", "bound"}
               /\ UidOf[previous'[d].conn] = UidOf[d]
               /\ owner'[UidOf[d]].conn # previous'[d].conn
    <2>1. CASE previous'[d] = previous[d]
      <3>1. /\ previous[d].conn \in Conn /\ PastClaim(previous[d].conn)
            /\ UidOf[previous[d].conn] = UidOf[d]
            /\ owner[UidOf[d]].conn # previous[d].conn
        BY <1>6, <2>1 DEF KickInv, PreviousReplaced, TypeOK
      <3>2. previous[d].conn # c
        BY <1>2, <3>1
      <3>3. QED
        BY <1>1, <1>2, <2>1, <3>1, <3>2
    <2>2. CASE previous'[d] # previous[d]
      <3>1. d = c /\ previous'[d] = owner[UidOf[c]]
        BY <2>2 DEF TypeOK
      <3>2. /\ owner[UidOf[c]].conn \in Conn
            /\ PastClaim(owner[UidOf[c]].conn)
            /\ UidOf[owner[UidOf[c]].conn] = UidOf[c]
        BY <1>4, <1>6, <3>1 DEF KickInv, OwnersClaimed
      <3>3. QED
        BY <1>1, <1>2, <3>1, <3>2
    <2>3. QED
      BY <2>1, <2>2
  <1>7. PreviousReplaced'
    BY <1>6 DEF PreviousReplaced, PastClaim
  <1>8. ASSUME NEW m \in notices
        PROVE  /\ phase'[m.conn] \notin {"idle", "bound"}
               /\ owner'[m.uid].conn # m.conn
    <2>1. m.conn \in Conn /\ m.uid \in Uid
      BY DEF TypeOK
    <2>2. PastClaim(m.conn) /\ owner[m.uid].conn # m.conn
      BY DEF KickInv, NoticesReplaced
    <2>3. QED
      BY <1>1, <1>2, <2>1, <2>2
  <1>9. NoticesReplaced'
    BY <1>8 DEF KickInv, NoticesReplaced, PastClaim
  <1>10. QED
    BY <1>5, <1>7, <1>9 DEF KickInv

LEMMA KickStep == TypeOK /\ TypeOK' /\ KickInv /\ [Next]_vars => KickInv'
  <1> SUFFICES ASSUME TypeOK, TypeOK', KickInv, [Next]_vars PROVE KickInv'
    OBVIOUS
  <1> USE NoneFresh, ConnTyped
  <1>1. ASSUME NEW c \in Conn, ConnNext(c) PROVE KickInv'
    <2>1. CASE Claim(c)
      BY <2>1, KickClaim DEF Claim
    <2>2. CASE ClaimReplyLost(c)
      BY <2>2, KickClaim DEF ClaimReplyLost
    <2>3. CASE AdoptOwnership(c)
      <3>1. /\ owner' = owner
            /\ \A d \in Conn : previous'[d] = NoOwner \/ previous'[d] = previous[d]
            /\ \A d \in Conn : PastClaim(d) => PastClaim(d)'
        BY <2>3 DEF AdoptOwnership, PastClaim, TypeOK
      <3>2. CASE notices' = notices
        BY <3>1, <3>2, KickFrame
      <3>3. CASE notices' # notices
        <4> DEFINE m0 == [server |-> previous[c].server, uid |-> UidOf[c],
                          conn |-> previous[c].conn]
        <4>1. notices' = notices \cup {m0} /\ Informs(previous[c], NodeOf[c])
          BY <2>3, <3>3 DEF AdoptOwnership
        <4>2. previous[c] # NoOwner
          BY <4>1 DEF Informs
        <4>3. /\ PastClaim(previous[c].conn)
              /\ UidOf[previous[c].conn] = UidOf[c]
              /\ owner[UidOf[c]].conn # previous[c].conn
              /\ previous[c].conn \in Conn
          BY <4>2 DEF KickInv, PreviousReplaced, TypeOK
        <4>4. OwnersClaimed' /\ PreviousReplaced'
          <5>1. OwnersClaimed'
            BY <3>1 DEF KickInv, OwnersClaimed, TypeOK
          <5>2. \A d \in Conn : previous[d] # NoOwner => previous[d].conn \in Conn
            BY DEF TypeOK
          <5>3. PreviousReplaced'
            BY <3>1, <5>2 DEF KickInv, PreviousReplaced
          <5>4. QED
            BY <5>1, <5>3
        <4>5. ASSUME NEW m \in notices'
              PROVE  /\ PastClaim(m.conn)' /\ UidOf[m.conn] = m.uid
                     /\ owner'[m.uid].conn # m.conn
          <5>1. CASE m \in notices
            <6>1. m.conn \in Conn
              BY <5>1 DEF TypeOK
            <6>2. QED
              BY <3>1, <5>1, <6>1 DEF KickInv, NoticesReplaced
          <5>2. CASE m = m0
            BY <3>1, <4>3, <5>2
          <5>3. QED
            BY <4>1, <5>1, <5>2
        <4>6. QED
          BY <4>4, <4>5 DEF KickInv, NoticesReplaced
      <3>4. QED
        BY <3>2, <3>3
    <2>4. CASE MarkOffline(c)
      <3>1. \A u \in Uid : owner'[u].conn = owner[u].conn
        <4>1. \A u \in Uid : owner[u] \in OwnerRecord \cup {NoOwner}
          BY DEF TypeOK
        <4>2. \/ owner' = owner
              \/ owner' = [owner EXCEPT ![UidOf[c]].ttl = "offline"]
          BY <2>4 DEF MarkOffline
        <4>3. owner \in [Uid -> OwnerRecord \cup {NoOwner}] /\ UidOf[c] \in Uid
          BY DEF TypeOK
        <4>4. QED
          BY <4>1, <4>2, <4>3
      <3>2. QED
        BY <2>4, <3>1, KickFrame DEF MarkOffline, PastClaim, TypeOK
    <2>5. CASE Bind(c) \/ ClaimFails(c) \/ AbortLogin(c) \/ Register(c)
               \/ FinishLogin(c) \/ AckFails(c) \/ Disconnect(c)
               \/ LeaveClients(c)
      <3>1. owner' = owner /\ previous' = previous /\ notices' = notices
        BY <2>5 DEF Bind, ClaimFails, AbortLogin, Register, FinishLogin,
                    AckFails, Disconnect, LeaveClients
      <3>2. \A d \in Conn : PastClaim(d) => PastClaim(d)'
        BY <2>5 DEF Bind, ClaimFails, AbortLogin, Register, FinishLogin,
                    AckFails, Disconnect, LeaveClients, PastClaim, TypeOK
      <3>3. QED
        BY <3>1, <3>2, KickFrame
    <2>6. CASE BeginCommand(c) \/ CommandStep(c)
      <3>1. UNCHANGED <<phase, owner, previous, notices>>
        BY <2>6 DEF BeginCommand, CommandStep, HandlerReturns, PutResult,
                    EndUncached
      <3>2. QED
        BY <3>1, KickFrame DEF PastClaim
    <2>7. QED
      BY <1>1, <2>1, <2>2, <2>3, <2>4, <2>5, <2>6 DEF ConnNext, HandlerStep
  <1>2. ASSUME NEW n \in Node, RefreshOwned(n) PROVE KickInv'
    <2>1. \A u \in Uid : owner'[u].conn = owner[u].conn
      <3>1. \A u \in Uid : owner[u] \in OwnerRecord \cup {NoOwner}
        BY DEF TypeOK
      <3>2. \A u \in Uid : \/ owner'[u] = owner[u]
                           \/ owner'[u] = [owner[u] EXCEPT !.ttl = "owner"]
        BY <1>2 DEF RefreshOwned
      <3>3. SUFFICES ASSUME NEW u \in Uid
                     PROVE  owner'[u].conn = owner[u].conn
        OBVIOUS
      <3>4. CASE owner'[u] = owner[u]
        BY <3>4
      <3>5. CASE owner'[u] = [owner[u] EXCEPT !.ttl = "owner"]
        BY <3>1, <3>5
      <3>6. QED
        BY <3>2, <3>4, <3>5
    <2>2. phase' = phase /\ previous' = previous /\ notices' = notices
      BY <1>2 DEF RefreshOwned
    <2>3. QED
      BY <2>1, <2>2, KickFrame DEF PastClaim
  <1>3. ASSUME NEW n \in Node, ReconcilerNext(n), ~ RefreshOwned(n) PROVE KickInv'
    <2>1. UNCHANGED <<phase, owner, previous, notices>>
      BY <1>3 DEF ReconcilerNext, Scan, FetchOwners, FetchFails,
                  RemovePlayerRuntime
    <2>2. QED
      BY <2>1, KickFrame DEF PastClaim
  <1>4. ASSUME NEW n \in Node, Crash(n) PROVE KickInv'
    <2>1. \A c \in Conn : PastClaim(c) => PastClaim(c)'
      BY <1>4 DEF Crash, PastClaim, TypeOK
    <2>2. \A c \in Conn : previous'[c] = NoOwner \/ previous'[c] = previous[c]
      BY <1>4 DEF Crash
    <2>3. owner' = owner /\ notices' \subseteq notices
      BY <1>4 DEF Crash
    <2>4. QED
      BY <2>1, <2>2, <2>3, KickFrame
  <1>5. ASSUME NEW u \in Uid, Expire(u) PROVE KickInv'
    <2>1. \A v \in Uid : owner'[v] = NoOwner \/ owner'[v] = owner[v]
      BY <1>5 DEF Expire, TypeOK
    <2>2. phase' = phase /\ previous' = previous /\ notices' = notices
      BY <1>5 DEF Expire
    <2>3. QED
      BY <2>1, <2>2, KickFrame DEF PastClaim
  <1>6. ASSUME UNCHANGED <<phase, owner, previous>>, notices' \subseteq notices
        PROVE  KickInv'
    BY <1>6, KickFrame DEF PastClaim
  <1>7. QED
    BY <1>1, <1>2, <1>3, <1>4, <1>5, <1>6
       DEF Next, vars, DeliverNotice, LoseNotice, OperatorKicksAll,
           OperatorKicksPlayer, ResultsExpire

\* Only the delivery of a notice consumes it and closes a connection.
LEMMA NoticeKicks ==
    ASSUME TypeOK, KickInv, [Next]_vars, NEW n \in notices, n \notin notices',
           NEW x \in closing' \ closing
    PROVE  owner[UidOf[x]].conn # x
  <1> USE NoneFresh, ConnTyped
  <1>1. PICK m \in notices : DeliverNotice(m)
    <2>1. ASSUME NEW c \in Conn, ConnNext(c) PROVE FALSE
      <3>1. notices \subseteq notices'
        BY <2>1
           DEF ConnNext, HandlerStep, Bind, Claim, ClaimFails, ClaimReplyLost,
               AbortLogin, AdoptOwnership, Register, FinishLogin, AckFails,
               BeginCommand, CommandStep, HandlerReturns, PutResult,
               EndUncached, Disconnect, LeaveClients, MarkOffline
      <3>2. QED
        BY <3>1
    <2>2. ASSUME NEW k \in Node, ReconcilerNext(k) PROVE FALSE
      BY <2>2 DEF ReconcilerNext, Scan, FetchOwners, FetchFails, RefreshOwned,
                  RemovePlayerRuntime
    <2>3. ASSUME NEW k \in Node, Crash(k) PROVE FALSE
      BY <2>3 DEF Crash
    <2>4. QED
      BY <2>1, <2>2, <2>3
         DEF Next, vars, Expire, LoseNotice, OperatorKicksAll,
             OperatorKicksPlayer, ResultsExpire
  <1>2. m.conn = x /\ UidOf[x] = m.uid
    BY <1>1 DEF DeliverNotice, KickConnection, KickClient, TypeOK
  <1>3. QED
    BY <1>2 DEF KickInv, NoticesReplaced

\* A delayed kick notice never closes the connection that owns the player.
THEOREM NoticeSparesOwner == Spec => KickNoticeSparesOwner
  <1>1. TypeOK /\ KickInv /\ [Next]_vars =>
          [\A m \in notices : m \notin notices' =>
             \A c \in closing' \ closing : owner[UidOf[c]].conn # c]_vars
    BY NoticeKicks
  <1>2. QED
    BY <1>1, KickInit, KickStep, Typing, PTL DEF Spec, KickNoticeSparesOwner

-----------------------------------------------------------------------------
(* State left over from an earlier ownership.  The fact needs no invariant  *)
(* beyond the types: every step but two kinds keeps what it says.           *)

\* A login of player u on server n that will delete n's state for u.
Dropper(c, n, u) == /\ NodeOf[c] = n /\ UidOf[c] = u
                    /\ phase[c] = "claimed"
                    /\ previous[c].server # n

\* Server n holds state of u from before another server's claim.
HoldsStale(n, u) == "stale" \in {runtime[n][u], results[n][u]}

\* If no owner moves to n, no state of n becomes stale and no dropper goes
\* away, nothing is newly taken up.
LEMMA StaleFrame ==
    ASSUME NEW n \in Node, NEW u \in Uid,
           owner'[u].server = n => owner[u].server = n,
           HoldsStale(n, u)' => HoldsStale(n, u),
           \A c \in Conn : Dropper(c, n, u) => Dropper(c, n, u)',
           TakesUpStaleState(n, u)'
    PROVE  TakesUpStaleState(n, u)
  BY DEF TakesUpStaleState, Dropper, HoldsStale

\* A claim that is answered brings stale state into the reach of its server
\* only together with a login that will delete it.
LEMMA ClaimDrops ==
    ASSUME TypeOK, NEW c \in Conn, Claim(c), NEW n \in Node, NEW u \in Uid,
           TakesUpStaleState(n, u)'
    PROVE  TakesUpStaleState(n, u)
  <1> USE NoneFresh, ConnTyped
  <1>1. /\ phase \in [Conn -> Phases]
        /\ previous \in [Conn -> OwnerRecord \cup {NoOwner}]
        /\ owner \in [Uid -> OwnerRecord \cup {NoOwner}]
        /\ runtime \in [Node -> [Uid -> Era \cup {"none"}]]
        /\ results \in [Node -> [Uid -> Era \cup {"none"}]]
    BY DEF TypeOK
  <1>2. /\ phase[c] = "bound" /\ phase' = [phase EXCEPT ![c] = "claimed"]
        /\ previous' = [previous EXCEPT ![c] = owner[UidOf[c]]]
        /\ owner' = [owner EXCEPT ![UidOf[c]] =
               [server |-> NodeOf[c], conn |-> c, ttl |-> "owner"]]
        /\ EraEnds(UidOf[c], NodeOf[c])
    BY DEF Claim, ApplyClaim
  <1>3. \A d \in Conn : Dropper(d, n, u) => Dropper(d, n, u)'
    BY <1>1, <1>2 DEF Dropper
  <1>4. CASE UidOf[c] # u
    <2>1. owner'[u] = owner[u]
      BY <1>1, <1>2, <1>4
    <2>2. runtime'[n][u] = runtime[n][u] /\ results'[n][u] = results[n][u]
      BY <1>1, <1>2, <1>4 DEF EraEnds
    <2>3. QED
      BY <1>3, <2>1, <2>2, StaleFrame DEF HoldsStale
  <1>5. CASE UidOf[c] = u
    <2>1. owner'[u].server = NodeOf[c]
      BY <1>1, <1>2, <1>5
    <2>2. n = NodeOf[c]
      BY <2>1 DEF TakesUpStaleState
    <2>3. runtime'[n] = runtime[n] /\ results'[n] = results[n]
      BY <1>2, <2>2 DEF EraEnds
    <2>4. CASE owner[u].server = n
      BY <1>3, <2>3, <2>4, StaleFrame DEF HoldsStale
    <2>5. CASE owner[u].server # n
      <3>1. Dropper(c, n, u)'
        BY <1>1, <1>2, <1>5, <2>2, <2>5 DEF Dropper
      <3>2. QED
        BY <3>1 DEF TakesUpStaleState, Dropper
    <2>6. QED
      BY <2>4, <2>5
  <1>6. QED
    BY <1>4, <1>5

\* The deletion leaves nothing stale where it happens, and touches nothing
\* anywhere else.
LEMMA DeleteClears ==
    ASSUME TypeOK, NEW m \in Node, NEW v \in Uid, DeleteLocalState(m, v),
           NEW n \in Node, NEW u \in Uid
    PROVE  /\ HoldsStale(n, u)' => HoldsStale(n, u)
           /\ n = m /\ u = v => ~ HoldsStale(n, u)'
  BY DEF DeleteLocalState, HoldsStale, TypeOK

\* The login that drops the state and the one that need not.
LEMMA AdoptDrops ==
    ASSUME TypeOK, NEW c \in Conn, AdoptOwnership(c), NEW n \in Node,
           NEW u \in Uid, TakesUpStaleState(n, u)'
    PROVE  TakesUpStaleState(n, u)
  <1> USE NoneFresh, ConnTyped
  <1>1. /\ owner' = owner
        /\ phase' = [phase EXCEPT ![c] = "owned"]
        /\ previous' = [previous EXCEPT ![c] = NoOwner]
        /\ IF DropsLocalState(previous[c], NodeOf[c])
           THEN DeleteLocalState(NodeOf[c], UidOf[c])
           ELSE UNCHANGED playVars
    BY DEF AdoptOwnership
  <1>2. HoldsStale(n, u)' => HoldsStale(n, u)
    <2>1. CASE DeleteLocalState(NodeOf[c], UidOf[c])
      BY <2>1, DeleteClears
    <2>2. CASE UNCHANGED playVars
      BY <2>2 DEF HoldsStale
    <2>3. QED
      BY <1>1, <2>1, <2>2
  <1>3. \A d \in Conn \ {c} : Dropper(d, n, u) => Dropper(d, n, u)'
    BY <1>1 DEF Dropper, TypeOK
  <1>4. CASE Dropper(c, n, u)
    <2>1. DeleteLocalState(NodeOf[c], UidOf[c]) /\ n = NodeOf[c] /\ u = UidOf[c]
      BY <1>1, <1>4 DEF Dropper, DropsLocalState
    <2>2. ~ HoldsStale(n, u)'
      BY <2>1, DeleteClears
    <2>3. QED
      BY <2>2 DEF TakesUpStaleState, HoldsStale
  <1>5. CASE ~ Dropper(c, n, u)
    BY <1>1, <1>2, <1>3, <1>5, StaleFrame
  <1>6. QED
    BY <1>4, <1>5

\* A command that began in the present ownership stores nothing stale.
LEMMA FreshCommand ==
    ASSUME TypeOK, NEW c \in Conn, CommandStep(c), ~ LateStore(c),
           NEW n \in Node, NEW u \in Uid, HoldsStale(n, u)'
    PROVE  HoldsStale(n, u)
  <1> USE ConnTyped
  <1>1. /\ runtime \in [Node -> [Uid -> Era \cup {"none"}]]
        /\ results \in [Node -> [Uid -> Era \cup {"none"}]]
        /\ command[c] \in Command /\ command \in [Conn -> Command]
        /\ command[c].era \in Era \cup {"none"}
    BY DEF TypeOK
  <1>2. command'[c].pc # command[c].pc
    BY <1>1 DEF CommandStep, HandlerReturns, PutResult, EndUncached
  <1>3. command[c].era # "stale"
    BY <1>2 DEF LateStore
  <1>4. CASE HandlerReturns(c)
    <2>1. /\ results' = results
          /\ \/ runtime' = runtime
             \/ runtime' = [runtime EXCEPT ![NodeOf[c]][UidOf[c]] = command[c].era]
      BY <1>4 DEF HandlerReturns
    <2>2. runtime'[n][u] \in {runtime[n][u], command[c].era}
      <3>1. CASE runtime' = runtime
        BY <3>1
      <3>2. CASE runtime' = [runtime EXCEPT ![NodeOf[c]][UidOf[c]] = command[c].era]
        BY <1>1, <3>2, EntryTyped
      <3>3. QED
        BY <2>1, <3>1, <3>2
    <2>3. QED
      BY <1>3, <2>1, <2>2 DEF HoldsStale
  <1>5. CASE PutResult(c)
    <2>1. /\ runtime' = runtime
          /\ \/ results' = results
             \/ results' = [results EXCEPT ![NodeOf[c]][UidOf[c]] = command[c].era]
      BY <1>5 DEF PutResult
    <2>2. results'[n][u] \in {results[n][u], command[c].era}
      <3>1. CASE results' = results
        BY <3>1
      <3>2. CASE results' = [results EXCEPT ![NodeOf[c]][UidOf[c]] = command[c].era]
        BY <1>1, <3>2, EntryTyped
      <3>3. QED
        BY <2>1, <3>1, <3>2
    <2>3. QED
      BY <1>3, <2>1, <2>2 DEF HoldsStale
  <1>6. CASE EndUncached(c)
    BY <1>6 DEF EndUncached, HoldsStale
  <1>7. QED
    BY <1>4, <1>5, <1>6 DEF CommandStep

\* Only a late store and an unanswered claim bring stale state back.
LEMMA StaleStep ==
    ASSUME TypeOK, [Next]_vars, NEW n \in Node, NEW u \in Uid,
           TakesUpStaleState(n, u)', ~ TakesUpStaleState(n, u)
    PROVE  \E c \in Conn : /\ NodeOf[c] = n /\ UidOf[c] = u
                           /\ LateStore(c) \/ UnansweredClaim(c)
  <1> USE NoneFresh, ConnTyped
  <1>1. ASSUME UNCHANGED <<owner, runtime, results, previous>>,
               \A c \in Conn : phase[c] = "claimed" => phase'[c] = "claimed"
        PROVE  FALSE
    BY <1>1, StaleFrame DEF Dropper, HoldsStale
  <1>2. ASSUME NEW c \in Conn, ConnNext(c), ~ ClaimReplyLost(c),
               ~ CommandStep(c)
        PROVE  FALSE
    <2>1. CASE Claim(c)
      BY <2>1, ClaimDrops
    <2>2. CASE AdoptOwnership(c)
      BY <2>2, AdoptDrops
    <2>3. CASE MarkOffline(c)
      <3>1. owner'[u].server = owner[u].server
        <4>1. \/ owner' = owner
              \/ owner' = [owner EXCEPT ![UidOf[c]].ttl = "offline"]
          BY <2>3 DEF MarkOffline
        <4>2. \/ owner'[u] = owner[u]
              \/ owner'[u] = [owner[u] EXCEPT !.ttl = "offline"]
          <5>1. owner \in [Uid -> OwnerRecord \cup {NoOwner}] /\ UidOf[c] \in Uid
            BY DEF TypeOK
          <5> HIDE DEF OwnerRecord, NoOwner
          <5>2. QED
            BY <4>1, <5>1
        <4>3. owner[u] \in OwnerRecord \cup {NoOwner}
          BY DEF TypeOK
        <4>4. QED
          BY <4>2, <4>3
      <3>2. /\ UNCHANGED <<previous, runtime, results>>
            /\ \A d \in Conn : phase[d] = "claimed" => phase'[d] = "claimed"
        BY <2>3 DEF MarkOffline, TypeOK
      <3>3. \A d \in Conn : Dropper(d, n, u) => Dropper(d, n, u)'
        BY <3>2 DEF Dropper
      <3>4. QED
        BY <3>1, <3>2, <3>3, StaleFrame DEF HoldsStale
    <2>4. CASE \/ Bind(c) \/ ClaimFails(c) \/ AbortLogin(c) \/ Register(c)
               \/ FinishLogin(c) \/ AckFails(c) \/ Disconnect(c)
               \/ LeaveClients(c) \/ BeginCommand(c)
      <3>1. UNCHANGED <<owner, runtime, results, previous>>
        BY <2>4 DEF Bind, ClaimFails, AbortLogin, Register, FinishLogin,
                    AckFails, Disconnect, LeaveClients, BeginCommand
      <3>2. \A d \in Conn : phase[d] = "claimed" => phase'[d] = "claimed"
        BY <2>4 DEF Bind, ClaimFails, AbortLogin, Register, FinishLogin,
                    AckFails, Disconnect, LeaveClients, BeginCommand, TypeOK
      <3>3. QED
        BY <1>1, <3>1, <3>2
    <2>5. QED
      BY <1>2, <2>1, <2>2, <2>3, <2>4 DEF ConnNext, HandlerStep
  <1>3. ASSUME NEW c \in Conn, ClaimReplyLost(c)
        PROVE  NodeOf[c] = n /\ UidOf[c] = u /\ UnansweredClaim(c)
    <2>1. UnansweredClaim(c)
      BY <1>3 DEF ClaimReplyLost, UnansweredClaim, TypeOK
    <2>2. /\ previous' = previous /\ EraEnds(UidOf[c], NodeOf[c])
          /\ owner' = [owner EXCEPT ![UidOf[c]] =
                 [server |-> NodeOf[c], conn |-> c, ttl |-> "owner"]]
          /\ phase[c] = "bound" /\ phase' = [phase EXCEPT ![c] = "claimFailed"]
      BY <1>3 DEF ClaimReplyLost, ApplyClaim
    <2>3. \A d \in Conn : Dropper(d, n, u) => Dropper(d, n, u)'
      BY <2>2 DEF Dropper, TypeOK
    <2>4. ASSUME UidOf[c] # u PROVE FALSE
      <3>1. owner'[u] = owner[u]
        BY <2>2, <2>4 DEF TypeOK
      <3>2. runtime'[n][u] = runtime[n][u] /\ results'[n][u] = results[n][u]
        BY <2>2, <2>4 DEF EraEnds, TypeOK
      <3>3. QED
        BY <2>3, <3>1, <3>2, StaleFrame DEF HoldsStale
    <2>5. owner'[UidOf[c]].server = NodeOf[c]
      BY <2>2 DEF TypeOK
    <2>6. QED
      BY <2>1, <2>4, <2>5 DEF TakesUpStaleState
  <1>4. ASSUME NEW c \in Conn, CommandStep(c)
        PROVE  NodeOf[c] = n /\ UidOf[c] = u /\ LateStore(c)
    <2>1. UNCHANGED <<phase, previous, owner>>
      BY <1>4 DEF CommandStep, HandlerReturns, PutResult, EndUncached
    <2>2. LateStore(c)
      BY <1>4, <2>1, FreshCommand, StaleFrame DEF Dropper
    <2>3. /\ runtime \in [Node -> [Uid -> Era \cup {"none"}]]
          /\ results \in [Node -> [Uid -> Era \cup {"none"}]]
          /\ command[c].era \in Era \cup {"none"}
      BY DEF TypeOK
    <2>4. ASSUME ~ (NodeOf[c] = n /\ UidOf[c] = u) PROVE FALSE
      <3>1. runtime'[n][u] = runtime[n][u]
        <4>1. \/ runtime' = runtime
              \/ runtime' = [runtime EXCEPT ![NodeOf[c]][UidOf[c]] = command[c].era]
          BY <1>4 DEF CommandStep, HandlerReturns, PutResult, EndUncached
        <4>2. QED
          BY <2>4, <2>3, <4>1, EntryTyped
      <3>2. results'[n][u] = results[n][u]
        <4>1. \/ results' = results
              \/ results' = [results EXCEPT ![NodeOf[c]][UidOf[c]] = command[c].era]
          BY <1>4 DEF CommandStep, HandlerReturns, PutResult, EndUncached
        <4>2. QED
          BY <2>4, <2>3, <4>1, EntryTyped
      <3>3. QED
        BY <2>1, <3>1, <3>2, StaleFrame DEF Dropper, HoldsStale
    <2>5. QED
      BY <2>2, <2>4
  <1>5. ASSUME NEW m \in Node, ReconcilerNext(m) PROVE FALSE
    <2>1. UNCHANGED <<phase, previous>>
      BY <1>5 DEF ReconcilerNext, Scan, FetchOwners, FetchFails, RefreshOwned,
                  RemovePlayerRuntime
    <2>2. CASE RefreshOwned(m)
      <3>1. \/ owner'[u] = owner[u]
            \/ owner'[u] = [owner[u] EXCEPT !.ttl = "owner"]
        BY <2>2 DEF RefreshOwned
      <3>2. owner[u] \in OwnerRecord \cup {NoOwner}
        BY DEF TypeOK
      <3>3. owner'[u].server = owner[u].server
        BY <3>1, <3>2
      <3>4. runtime' = runtime /\ results' = results
        BY <2>2 DEF RefreshOwned
      <3>5. QED
        BY <2>1, <3>3, <3>4, StaleFrame DEF Dropper, HoldsStale
    <2>3. ASSUME NEW v \in Uid, RemovePlayerRuntime(m, v) PROVE FALSE
      <3>1. owner' = owner /\ DeleteLocalState(m, v)
        BY <2>3 DEF RemovePlayerRuntime
      <3>2. HoldsStale(n, u)' => HoldsStale(n, u)
        BY <3>1, DeleteClears
      <3>3. QED
        BY <2>1, <3>1, <3>2, StaleFrame DEF Dropper
    <2>4. CASE UNCHANGED <<owner, playVars>>
      BY <1>1, <2>1, <2>4
    <2>5. QED
      BY <1>5, <2>2, <2>3, <2>4
         DEF ReconcilerNext, Scan, FetchOwners, FetchFails
  <1>6. ASSUME NEW m \in Node, Crash(m) PROVE FALSE
    <2>1. /\ owner' = owner
          /\ runtime' = [runtime EXCEPT ![m] = [v \in Uid |-> "none"]]
          /\ results' = [results EXCEPT ![m] = [v \in Uid |-> "none"]]
      BY <1>6 DEF Crash
    <2>2. CASE m = n
      <3>1. runtime'[n][u] = "none" /\ results'[n][u] = "none"
        BY <2>1, <2>2 DEF TypeOK
      <3>2. QED
        BY <3>1 DEF TakesUpStaleState
    <2>3. CASE m # n
      <3>1. runtime'[n] = runtime[n] /\ results'[n] = results[n]
        BY <2>1, <2>3 DEF TypeOK
      <3>2. \A c \in Conn : NodeOf[c] # m => /\ phase'[c] = phase[c]
                                             /\ previous'[c] = previous[c]
        BY <1>6 DEF Crash
      <3>3. \A c \in Conn : Dropper(c, n, u) => Dropper(c, n, u)'
        BY <2>3, <3>2 DEF Dropper
      <3>4. QED
        BY <2>1, <3>1, <3>3, StaleFrame DEF HoldsStale
    <2>4. QED
      BY <2>2, <2>3
  <1>7. ASSUME NEW v \in Uid, Expire(v) PROVE FALSE
    <2>1. owner'[u] = owner[u] \/ owner'[u].server = None
      BY <1>7 DEF Expire, TypeOK
    <2>2. UNCHANGED <<phase, previous, runtime, results>>
      BY <1>7 DEF Expire
    <2>3. QED
      BY <2>1, <2>2, StaleFrame DEF Dropper, HoldsStale
  <1>8. ASSUME NEW m \in Node, NEW v \in Uid, ResultsExpire(m, v) PROVE FALSE
    <2>1. UNCHANGED <<phase, previous, owner, runtime>>
      BY <1>8 DEF ResultsExpire
    <2>2. results'[n][u] \in {results[n][u], "none"}
      BY <1>8 DEF ResultsExpire, TypeOK
    <2>3. QED
      BY <2>1, <2>2, StaleFrame DEF Dropper, HoldsStale
  <1>9. CASE UNCHANGED <<phase, previous, owner, playVars>>
    BY <1>1, <1>9
  <1>10. QED
    BY <1>2, <1>3, <1>4, <1>5, <1>6, <1>7, <1>8, <1>9
       DEF Next, vars, DeliverNotice, LoseNotice, OperatorKicksAll,
           OperatorKicksPlayer

\* However a player comes back to a server, what the server kept from an
\* earlier ownership is deleted before it can be taken up, unless a command of
\* that ownership stores it afterwards or the answer to a claim was lost.
THEOREM StaleStateDropped == Spec => OnlyLateWorkIsTakenUp
  <1>1. TypeOK /\ [Next]_vars =>
          [\A n \in Node, u \in Uid :
             TakesUpStaleState(n, u)' /\ ~ TakesUpStaleState(n, u)
                 => \E c \in Conn : /\ NodeOf[c] = n /\ UidOf[c] = u
                                    /\ LateStore(c) \/ UnansweredClaim(c)]_vars
    BY StaleStep
  <1>2. QED
    BY <1>1, Typing, PTL DEF Spec, OnlyLateWorkIsTakenUp
=============================================================================
