------------------------- MODULE AccountServiceProofs -------------------------
(***************************************************************************)
(* Proofs about AccountService, for any accounts, devices, names, requests *)
(* and tokens.  All of them follow from one fact: the copy of its row that *)
(* a transaction will write back is what the table holds, because every    *)
(* statement that changes a row is executed under the row's lock, or on a  *)
(* row that nobody can have found yet.                                     *)
(*                                                                         *)
(* The last part is about ServerDirectory, the other half of the login     *)
(* server: an instance of it, for any servers, loads, limits and hashes.   *)
(***************************************************************************)
EXTENDS AccountService, FiniteSetTheorems, TLAPS

USE DEF Op

-----------------------------------------------------------------------------
(* The inductive invariant. *)

\* A request that has found an account names one that exists, and carries the
\* device or the name that its operation will use.
RequestFound(w) ==
    /\ req[w].pc \in {"lock", "write"} =>
           req[w].uid \in Uid /\ status[req[w].uid] # "unused"
    /\ req[w].pc # "idle" /\ req[w].op \in {"registerGuest", "guestLogin"}
           => req[w].device \in Device
    /\ req[w].pc # "idle" /\ req[w].op = "bind" => req[w].name \in Name
    /\ req[w].pc \in {"find", "create"} => req[w].op = "registerGuest"
RequestsFound == \A w \in Worker : RequestFound(w)

\* Nothing refers to an account that has not been created.
UnusedUnknown(u) ==
    status[u] = "unused" => guest[u] = None /\ issued[u] = 0 /\ ~ Bound(u)
UnusedIsUnknown == \A u \in Uid : UnusedUnknown(u)

\* Between the lock and the commit, a transaction's copy of the row is the row.
CopyCurrent(w) ==
    req[w].pc = "write" =>
        rowLock[req[w].uid] = w /\ req[w].row = RowOf(req[w].uid)
CopyIsCurrent == \A w \in Worker : CopyCurrent(w)

Inv == TypeOK /\ RequestsFound /\ UnusedIsUnknown /\ CopyIsCurrent

-----------------------------------------------------------------------------
(* What single operators do. *)

\* The row of an existing or missing account is a row.
LEMMA RowTyped ==
    ASSUME TypeOK, NEW u \in Uid
    PROVE  RowOf(u) \in Row
  BY DEF TypeOK, RowOf, Bound, Row

\* The records that requests start from are requests.
LEMMA NoRowTyped == NoRow \in Row
  BY DEF NoRow, Row

LEMMA RequestsTyped ==
    /\ NoRequest \in Request
    /\ \A d \in Device \cup {None}, k \in 1..2 : Search(d, k) \in Request
    /\ \A op \in Op, u \in Uid, d \in Device \cup {None},
         n \in Name \cup {None}, t \in Nat : Found(op, u, d, n, t) \in Request
  BY NoRowTyped DEF NoRequest, Search, Found, Request

\* The end of a transaction frees its locks and nobody else's, and leaves its
\* request idle or, for a guest registration, at its second attempt.
LEMMA FinishTyped ==
    ASSUME TypeOK, NEW w \in Worker, Finish(w) \/ Retry(w)
    PROVE  /\ req' \in [Worker -> Request]
           /\ rowLock' \in [Uid -> Worker \cup {None}]
           /\ \A v \in Worker \ {w} : req'[v] = req[v]
           /\ \A v \in Worker \ {w}, u \in Uid :
                  rowLock[u] = v => rowLock'[u] = v
           /\ req'[w] = NoRequest \/ req'[w] = Search(req[w].device, 2)
           /\ Finish(w) => req'[w] = NoRequest
  <1>1. rowLock' = [u \in Uid |-> IF rowLock[u] = w THEN None ELSE rowLock[u]]
    BY DEF Finish, Retry, Release
  <1>2. req[w].device \in Device \cup {None}
    BY DEF TypeOK, Request
  <1>3. NoRequest \in Request /\ Search(req[w].device, 2) \in Request
    BY <1>2, RequestsTyped
  <1>4. /\ \/ req' = [req EXCEPT ![w] = NoRequest]
           \/ req' = [req EXCEPT ![w] = Search(req[w].device, 2)]
        /\ Finish(w) => req' = [req EXCEPT ![w] = NoRequest]
    BY DEF Finish, Retry
  <1>5. /\ req' \in [Worker -> Request]
        /\ \A v \in Worker \ {w} : req'[v] = req[v]
        /\ req'[w] = NoRequest \/ req'[w] = Search(req[w].device, 2)
        /\ Finish(w) => req'[w] = NoRequest
    BY <1>3, <1>4 DEF TypeOK
  <1>6. /\ rowLock' \in [Uid -> Worker \cup {None}]
        /\ \A v \in Worker \ {w}, u \in Uid :
               rowLock[u] = v => rowLock'[u] = v
    BY <1>1 DEF TypeOK
  <1>7. QED
    BY <1>5, <1>6

\* Two transactions never both hold a copy of one row.
LEMMA OneWriter ==
    ASSUME CopyIsCurrent, NEW v \in Worker, NEW w \in Worker,
           req[v].pc = "write", req[w].pc = "write", req[v].uid = req[w].uid
    PROVE  v = w
  BY DEF CopyIsCurrent, CopyCurrent

-----------------------------------------------------------------------------
(* Types. *)

\* Begin puts one request into its worker's slot.
LEMMA BeginTyped ==
    ASSUME TypeOK, NEW w \in Worker, BeginSome(w)
    PROVE  /\ req' \in [Worker -> Request]
           /\ UNCHANGED <<tables, rowLock, issued, told>>
           /\ \A v \in Worker \ {w} : req'[v] = req[v]
           /\ \/ \E d \in Device : req'[w] = Search(d, 1)
              \/ \E u \in Uid, d \in Device :
                     guest[u] = d /\ req'[w] = Found("guestLogin", u, d, None, 0)
              \/ \E n \in Name : identity[n] # None /\
                     req'[w] = Found("passwordLogin", identity[n], None, None, 0)
              \/ \E u \in Uid : \E t \in 1..issued[u] :
                     \/ \E op \in {"authenticate", "logout"} :
                            req'[w] = Found(op, u, None, None, t)
                     \/ \E n \in Name : req'[w] = Found("bind", u, None, n, t)
  <1> DEFINE Put(r) == /\ req' \in [Worker -> Request]
                       /\ UNCHANGED <<tables, rowLock, issued, told>>
                       /\ \A v \in Worker \ {w} : req'[v] = req[v]
                       /\ req'[w] = r
  <1>1. ASSUME NEW r \in Request, Begin(w, r) PROVE Put(r)
    BY <1>1 DEF Begin, TypeOK
  <1>2. CASE \E d \in Device : BeginRegisterGuest(w, d)
    <2>1. PICK d \in Device : BeginRegisterGuest(w, d)
      BY <1>2
    <2>2. Put(Search(d, 1))
      BY <2>1, <1>1, RequestsTyped DEF BeginRegisterGuest
    <2>3. QED
      BY <2>2
  <1>3. CASE \E d \in Device : BeginGuestLogin(w, d)
    <2>1. PICK d \in Device, u \in Uid :
              guest[u] = d /\ Begin(w, Found("guestLogin", u, d, None, 0))
      BY <1>3 DEF BeginGuestLogin, GuestsOf
    <2>2. Put(Found("guestLogin", u, d, None, 0))
      BY <2>1, <1>1, RequestsTyped
    <2>3. QED
      BY <2>1, <2>2
  <1>4. CASE \E n \in Name : BeginPasswordLogin(w, n)
    <2>1. PICK n \in Name : BeginPasswordLogin(w, n)
      BY <1>4
    <2>2. identity[n] # None /\ identity[n] \in Uid
      BY <2>1 DEF BeginPasswordLogin, TypeOK
    <2>3. Put(Found("passwordLogin", identity[n], None, None, 0))
      BY <2>1, <2>2, <1>1, RequestsTyped DEF BeginPasswordLogin
    <2>4. QED
      BY <2>2, <2>3
  <1>5. ASSUME NEW u \in Uid, NEW t \in 1..issued[u],
               NEW op \in {"authenticate", "logout"},
               BeginWithToken(w, op, u, t, None)
        PROVE  Put(Found(op, u, None, None, t))
    <2>1. t \in Nat
      BY DEF TypeOK
    <2>2. QED
      BY <1>5, <2>1, <1>1, RequestsTyped DEF BeginWithToken
  <1>6. ASSUME NEW u \in Uid, NEW t \in 1..issued[u], NEW n \in Name,
               BeginWithToken(w, "bind", u, t, n)
        PROVE  Put(Found("bind", u, None, n, t))
    <2>1. t \in Nat
      BY DEF TypeOK
    <2>2. QED
      BY <1>6, <2>1, <1>1, RequestsTyped DEF BeginWithToken
  <1>7. QED
    BY <1>2, <1>3, <1>4, <1>5, <1>6 DEF BeginSome

\* What a transaction writes back is its copy of the row, changed or not.
LEMMA SaveTyped ==
    ASSUME TypeOK, NEW u \in Uid, NEW row \in Row, Save(u, row)
    PROVE  /\ guest' \in [Uid -> Device \cup {None}]
           /\ token' \in [Uid -> Nat]
  BY DEF TypeOK, Save, Row

\* A request's copy, and the changes to it that are written back, are rows.
LEMMA CopyTyped ==
    ASSUME TypeOK, NEW w \in Worker
    PROVE  /\ req[w].row \in Row
           /\ BoundRow(req[w].row) \in Row
           /\ LoggedOutRow(req[w].row) \in Row
           /\ \A t \in Nat : [req[w].row EXCEPT !.token = t] \in Row
  BY DEF TypeOK, Request, Row, BoundRow, LoggedOutRow

\* The type invariant is inductive, given that requests have found what they
\* need.
LEMMA TypeStep == TypeOK /\ RequestsFound /\ [Next]_vars => TypeOK'
  <1> SUFFICES ASSUME TypeOK, RequestsFound, [Next]_vars PROVE TypeOK'
    OBVIOUS
  <1>1. ASSUME NEW w \in Worker, BeginSome(w) PROVE TypeOK'
    BY <1>1, BeginTyped DEF TypeOK, tables
  <1>2. ASSUME NEW w \in Worker, Continue(w) PROVE TypeOK'
    <2>0. req[w] \in Request
      BY DEF TypeOK
    <2>1. CASE FindGuest(w)
      <3>1. ASSUME NEW u \in Uid PROVE [req[w] EXCEPT !.pc = "lock", !.uid = u] \in Request
        BY <2>0 DEF Request
      <3>2. [req[w] EXCEPT !.pc = "create"] \in Request
        BY <2>0 DEF Request
      <3>3. req' \in [Worker -> Request]
        BY <2>1, <3>1, <3>2 DEF FindGuest, TypeOK, GuestsOf
      <3>4. QED
        BY <2>1, <3>3 DEF FindGuest, TypeOK, tables
    <2>2. CASE LockAccount(w)
      <3>1. req[w].uid \in Uid
        BY <2>2 DEF LockAccount, RequestsFound, RequestFound
      <3>2. [req[w] EXCEPT !.pc = "write", !.row = RowOf(req[w].uid)] \in Request
        BY <2>0, <3>1, RowTyped DEF Request
      <3>3. req' \in [Worker -> Request]
        BY <2>2, <3>2 DEF LockAccount, TypeOK
      <3>4. rowLock' \in [Uid -> Worker \cup {None}]
        BY <2>2, <3>1 DEF LockAccount, TypeOK
      <3>5. QED
        BY <2>2, <3>3, <3>4 DEF LockAccount, TypeOK, tables
    <2>3. CASE CreateGuest(w)
      <3>1. req[w].device \in Device
        BY <2>3 DEF CreateGuest, RequestsFound, RequestFound
      <3>2. Finish(w) \/ Retry(w)
        BY <2>3 DEF CreateGuest
      <3>3. /\ status' \in [Uid -> {"unused", "active", "disabled"}]
            /\ guest' \in [Uid -> Device \cup {None}]
            /\ told' \subseteq Device \X Uid
        BY <2>3, <3>1 DEF CreateGuest, Answer, TypeOK
      <3>4. QED
        BY <2>3, <3>2, <3>3, FinishTyped DEF CreateGuest, TypeOK
    <2>4. CASE ReuseGuest(w)
      <3>1. req[w].device \in Device /\ req[w].uid \in Uid
        BY <2>4 DEF ReuseGuest, RequestsFound, RequestFound
      <3>2. Finish(w) \/ Retry(w)
        BY <2>4 DEF ReuseGuest
      <3>3. told' \subseteq Device \X Uid
        BY <2>4, <3>1 DEF ReuseGuest, Answer, TypeOK
      <3>4. QED
        BY <2>4, <3>2, <3>3, FinishTyped DEF ReuseGuest, TypeOK, tables
    <2>5. CASE Bind(w)
      <3>1. req[w].uid \in Uid /\ req[w].name \in Name
        BY <2>5 DEF Bind, RequestsFound, RequestFound
      <3>2. /\ guest' \in [Uid -> Device \cup {None}]
            /\ token' \in [Uid -> Nat]
        BY <2>5, <3>1, CopyTyped, SaveTyped DEF Bind, TypeOK
      <3>3. identity' \in [Name -> Uid \cup {None}]
        BY <2>5, <3>1 DEF Bind, TypeOK
      <3>4. Finish(w)
        BY <2>5 DEF Bind
      <3>5. QED
        BY <2>5, <3>2, <3>3, <3>4, FinishTyped DEF Bind, TypeOK
    <2>6. CASE OpenSession(w)
      <3> DEFINE fresh == issued[req[w].uid] + 1
      <3>1. req[w].uid \in Uid /\ fresh \in Nat
        BY <2>6 DEF OpenSession, RequestsFound, RequestFound, TypeOK
      <3>2. /\ guest' \in [Uid -> Device \cup {None}]
            /\ token' \in [Uid -> Nat]
        BY <2>6, <3>1, CopyTyped, SaveTyped DEF OpenSession
      <3>3. issued' \in [Uid -> Nat] /\ live' \subseteq Uid
        BY <2>6, <3>1 DEF OpenSession, TypeOK
      <3>4. told' \subseteq Device \X Uid
        <4>1. req[w].op = "guestLogin" => req[w].device \in Device
          BY <2>6 DEF OpenSession, RequestsFound, RequestFound
        <4>2. QED
          BY <2>6, <3>1, <4>1 DEF OpenSession, Answer, TypeOK
      <3>5. Finish(w)
        BY <2>6 DEF OpenSession
      <3>6. QED
        BY <2>6, <3>2, <3>3, <3>4, <3>5, FinishTyped DEF OpenSession, TypeOK
    <2>7. CASE Authenticate(w)
      <3>1. req[w].uid \in Uid
        BY <2>7 DEF Authenticate, RequestsFound, RequestFound
      <3>2. /\ guest' \in [Uid -> Device \cup {None}]
            /\ token' \in [Uid -> Nat]
            /\ live' \subseteq Uid
        BY <2>7, <3>1, CopyTyped, SaveTyped DEF Authenticate, TypeOK
      <3>3. Finish(w)
        BY <2>7 DEF Authenticate
      <3>4. QED
        BY <2>7, <3>2, <3>3, FinishTyped DEF Authenticate, TypeOK
    <2>8. CASE Logout(w)
      <3>1. req[w].uid \in Uid
        BY <2>8 DEF Logout, RequestsFound, RequestFound
      <3>2. /\ guest' \in [Uid -> Device \cup {None}]
            /\ token' \in [Uid -> Nat]
            /\ live' \subseteq Uid
        BY <2>8, <3>1, CopyTyped, SaveTyped DEF Logout, TypeOK
      <3>3. Finish(w)
        BY <2>8 DEF Logout
      <3>4. QED
        BY <2>8, <3>2, <3>3, FinishTyped DEF Logout, TypeOK
    <2>9. QED
      BY <1>2, <2>1, <2>2, <2>3, <2>4, <2>5, <2>6, <2>7, <2>8 DEF Continue
  <1>3. ASSUME NEW w \in Worker, Abort(w) PROVE TypeOK'
    BY <1>3, FinishTyped DEF Abort, TypeOK, tables
  <1>4. ASSUME NEW u \in Uid, Expire(u) PROVE TypeOK'
    BY <1>4 DEF Expire, TypeOK
  <1>5. ASSUME NEW u \in Uid, Disable(u) PROVE TypeOK'
    BY <1>5 DEF Disable, TypeOK
  <1>6. ASSUME NEW u \in Uid, NEW n \in Name, Register(u, n) PROVE TypeOK'
    BY <1>6 DEF Register, TypeOK
  <1>7. CASE UNCHANGED vars
    BY <1>7 DEF vars, tables, TypeOK
  <1>8. QED
    BY <1>1, <1>2, <1>3, <1>4, <1>5, <1>6, <1>7 DEF Next

-----------------------------------------------------------------------------
(* The invariant. *)

\* What the steps of a transaction leave alone: before it has written, all
\* rows; when it writes, the rows and identities of other accounts; and when
\* it creates a guest, those of accounts that exist.
LEMMA OthersUntouched ==
    ASSUME TypeOK, RequestsFound, NEW w \in Worker, Continue(w) \/ Abort(w),
           NEW u \in Uid,
           req[w].pc = "write" => req[w].uid # u,
           req[w].pc = "create" => status[u] # "unused"
    PROVE  RowOf(u)' = RowOf(u) /\ issued'[u] = issued[u]
  <1> DEFINE Same == /\ status'[u] = status[u] /\ guest'[u] = guest[u]
                     /\ token'[u] = token[u] /\ issued'[u] = issued[u]
                     /\ Bound(u)' = Bound(u)
  <1>1. CASE FindGuest(w) \/ LockAccount(w) \/ ReuseGuest(w) \/ Abort(w)
    <2>1. UNCHANGED <<status, guest, token, identity, issued>>
      BY <1>1 DEF FindGuest, LockAccount, ReuseGuest, Abort, tables
    <2>2. QED
      BY <2>1 DEF Bound, RowOf
  <1>2. CASE CreateGuest(w)
    <2>1. UNCHANGED <<token, identity, issued>>
      BY <1>2 DEF CreateGuest
    <2>2. status'[u] = status[u] /\ guest'[u] = guest[u]
      BY <1>2 DEF CreateGuest, TypeOK
    <2>3. QED
      BY <2>1, <2>2 DEF Bound, RowOf
  <1>3. CASE Bind(w)
    <2>1. req[w].uid # u
      BY <1>3 DEF Bind
    <2>2. /\ UNCHANGED <<status, issued>>
          /\ guest'[u] = guest[u] /\ token'[u] = token[u]
      BY <1>3, <2>1 DEF Bind, Save, TypeOK
    <2>3. Bound(u)' = Bound(u)
      <3>1. CASE UNCHANGED identity
        BY <3>1 DEF Bound
      <3>2. CASE /\ identity[req[w].name] = None
                 /\ identity' = [identity EXCEPT ![req[w].name] = req[w].uid]
        BY <3>2, <2>1, NoneFresh DEF Bound, TypeOK
      <3>3. QED
        BY <1>3, <3>1, <3>2 DEF Bind
    <2>4. QED
      BY <2>2, <2>3 DEF RowOf
  <1>4. CASE OpenSession(w) \/ Authenticate(w) \/ Logout(w)
    <2>1. req[w].uid # u
      BY <1>4 DEF OpenSession, Authenticate, Logout
    <2>2. UNCHANGED <<status, identity>>
      BY <1>4 DEF OpenSession, Authenticate, Logout
    <2>3. /\ guest'[u] = guest[u] /\ token'[u] = token[u]
          /\ issued'[u] = issued[u]
      BY <1>4, <2>1 DEF OpenSession, Authenticate, Logout, Save, TypeOK
    <2>4. QED
      BY <2>2, <2>3 DEF Bound, RowOf
  <1>5. QED
    BY <1>1, <1>2, <1>3, <1>4 DEF Continue

\* Accounts are never deleted.
LEMMA AccountsStay ==
    ASSUME TypeOK, [Next]_vars, NEW u \in Uid, status[u] # "unused"
    PROVE  status'[u] # "unused"
  <1>1. ASSUME NEW w \in Worker, BeginSome(w) \/ Continue(w) \/ Abort(w)
        PROVE  status'[u] # "unused"
    <2>1. CASE CreateGuest(w)
      BY <2>1 DEF CreateGuest, TypeOK
    <2>2. CASE ~ CreateGuest(w)
      <3>1. UNCHANGED status
        BY <1>1, <2>2, BeginTyped
           DEF Continue, FindGuest, LockAccount, ReuseGuest, Bind, OpenSession,
               Authenticate, Logout, Abort, tables
      <3>2. QED
        BY <3>1
    <2>3. QED
      BY <2>1, <2>2
  <1>2. ASSUME NEW v \in Uid, \/ Expire(v) \/ Disable(v)
                             \/ \E n \in Name : Register(v, n)
        PROVE  status'[u] # "unused"
    BY <1>2 DEF Expire, Disable, Register, TypeOK
  <1>3. CASE UNCHANGED vars
    BY <1>3 DEF vars, tables
  <1>4. QED
    BY <1>1, <1>2, <1>3 DEF Next

\* Requests go on naming accounts that exist.
LEMMA FoundStep ==
    TypeOK /\ RequestsFound /\ UnusedIsUnknown /\ [Next]_vars => RequestsFound'
  <1> SUFFICES ASSUME TypeOK, RequestsFound, UnusedIsUnknown, [Next]_vars,
                      NEW v \in Worker
               PROVE  RequestFound(v)'
    BY DEF RequestsFound
  <1>0. RequestFound(v)
    BY DEF RequestsFound
  <1>1. ASSUME req'[v] = req[v] PROVE RequestFound(v)'
    BY <1>0, <1>1, AccountsStay DEF RequestFound
  <1>2. ASSUME req'[v] = NoRequest PROVE RequestFound(v)'
    BY <1>2 DEF RequestFound, NoRequest
  <1>3. ASSUME NEW d \in Device, NEW k \in 1..2, req'[v] = Search(d, k)
        PROVE  RequestFound(v)'
    BY <1>3 DEF RequestFound, Search
  <1>4. ASSUME BeginSome(v) PROVE RequestFound(v)'
    <2>1. UNCHANGED status
      BY <1>4, BeginTyped DEF tables
    <2>2. CASE \E d \in Device : req'[v] = Search(d, 1)
      BY <2>2, <1>3
    <2>3. ASSUME NEW u \in Uid, NEW d \in Device, guest[u] = d,
                 req'[v] = Found("guestLogin", u, d, None, 0)
          PROVE  RequestFound(v)'
      <3>1. status[u] # "unused"
        BY <2>3, NoneFresh DEF UnusedIsUnknown, UnusedUnknown
      <3>2. QED
        BY <2>1, <2>3, <3>1 DEF RequestFound, Found
    <2>4. ASSUME NEW n \in Name, identity[n] # None,
                 req'[v] = Found("passwordLogin", identity[n], None, None, 0)
          PROVE  RequestFound(v)'
      <3>1. identity[n] \in Uid
        BY <2>4 DEF TypeOK
      <3>2. status[identity[n]] # "unused"
        BY <3>1 DEF UnusedIsUnknown, UnusedUnknown, Bound
      <3>3. QED
        BY <2>1, <2>4, <3>1, <3>2 DEF RequestFound, Found
    <2>5. ASSUME NEW u \in Uid, NEW t \in 1..issued[u]
          PROVE  status[u] # "unused"
      BY <2>5 DEF UnusedIsUnknown, UnusedUnknown
    <2>6. ASSUME NEW u \in Uid, NEW t \in 1..issued[u],
                 NEW op \in {"authenticate", "logout"},
                 req'[v] = Found(op, u, None, None, t)
          PROVE  RequestFound(v)'
      BY <2>1, <2>5, <2>6 DEF RequestFound, Found
    <2>7. ASSUME NEW u \in Uid, NEW t \in 1..issued[u], NEW n \in Name,
                 req'[v] = Found("bind", u, None, n, t)
          PROVE  RequestFound(v)'
      BY <2>1, <2>5, <2>7 DEF RequestFound, Found
    <2>8. QED
      BY <1>4, <2>2, <2>3, <2>4, <2>6, <2>7, BeginTyped
  <1>5. ASSUME FindGuest(v) PROVE RequestFound(v)'
    <2>1. /\ UNCHANGED status
          /\ req[v].pc = "find"
          /\ req[v].op = "registerGuest" /\ req[v].device \in Device
      BY <1>5, <1>0 DEF FindGuest, tables, RequestFound
    <2>2. CASE \E u \in GuestsOf(req[v].device) :
                   req' = [req EXCEPT ![v].pc = "lock", ![v].uid = u]
      <3>1. PICK u \in Uid :
                /\ guest[u] = req[v].device
                /\ req' = [req EXCEPT ![v].pc = "lock", ![v].uid = u]
        BY <2>2 DEF GuestsOf
      <3>2. status[u] # "unused"
        BY <2>1, <3>1, NoneFresh DEF UnusedIsUnknown, UnusedUnknown
      <3>3. QED
        BY <2>1, <3>1, <3>2 DEF RequestFound, TypeOK, Request
    <2>3. CASE req' = [req EXCEPT ![v].pc = "create"]
      BY <2>1, <2>3 DEF RequestFound, TypeOK, Request
    <2>4. QED
      BY <1>5, <2>2, <2>3 DEF FindGuest
  <1>6. ASSUME LockAccount(v) PROVE RequestFound(v)'
    <2>1. UNCHANGED status
      BY <1>6 DEF LockAccount, tables
    <2>2. QED
      BY <1>0, <1>6, <2>1 DEF LockAccount, RequestFound, TypeOK, Request
  <1>7. ASSUME NEW w \in Worker, Finish(w) \/ Retry(w),
               w = v => Finish(w) \/ req[w].device \in Device
        PROVE  RequestFound(v)'
    <2>1. CASE w # v
      BY <1>1, <1>7, <2>1, FinishTyped
    <2>2. CASE w = v /\ Finish(v)
      BY <1>2, <1>7, <2>2, FinishTyped
    <2>3. CASE w = v /\ req[v].device \in Device
      <3>1. req'[v] = NoRequest \/ req'[v] = Search(req[v].device, 2)
        BY <1>7, <2>3, FinishTyped
      <3>2. QED
        BY <3>1, <2>3, <1>2, <1>3
    <2>4. QED
      BY <1>7, <2>1, <2>2, <2>3
  <1>8. ASSUME NEW w \in Worker, Continue(w) \/ Abort(w) PROVE RequestFound(v)'
    <2>1. CASE FindGuest(w) \/ LockAccount(w)
      <3>1. CASE w = v
        BY <2>1, <3>1, <1>5, <1>6
      <3>2. CASE w # v
        <4>1. req'[v] = req[v]
          BY <2>1, <3>2 DEF FindGuest, LockAccount, TypeOK
        <4>2. QED
          BY <4>1, <1>1
      <3>3. QED
        BY <3>1, <3>2
    <2>2. CASE CreateGuest(w) \/ ReuseGuest(w)
      <3>1. /\ Finish(w) \/ Retry(w)
            /\ w = v => req[w].device \in Device
        BY <2>2, <1>0 DEF CreateGuest, ReuseGuest, RequestFound
      <3>2. QED
        BY <3>1, <1>7
    <2>3. CASE \/ Bind(w) \/ OpenSession(w) \/ Authenticate(w) \/ Logout(w)
               \/ Abort(w)
      <3>1. Finish(w)
        BY <2>3 DEF Bind, OpenSession, Authenticate, Logout, Abort
      <3>2. QED
        BY <3>1, <1>7
    <2>4. QED
      BY <1>8, <2>1, <2>2, <2>3 DEF Continue
  <1>9. ASSUME NEW w \in Worker, BeginSome(w) PROVE RequestFound(v)'
    <2>1. CASE w = v
      BY <1>9, <2>1, <1>4
    <2>2. CASE w # v
      BY <1>9, <2>2, <1>1, BeginTyped
    <2>3. QED
      BY <2>1, <2>2
  <1>10. ASSUME NEW u \in Uid, \/ Expire(u) \/ Disable(u)
                               \/ \E n \in Name : Register(u, n)
         PROVE  RequestFound(v)'
    BY <1>10, <1>1 DEF Expire, Disable, Register
  <1>11. CASE UNCHANGED vars
    BY <1>11, <1>1 DEF vars
  <1>12. QED
    BY <1>8, <1>9, <1>10, <1>11 DEF Next


\* A new account that is registered with a name, and one that is disabled, are
\* not among those that others have locked or know of.
LEMMA OutsideUntouched ==
    ASSUME TypeOK, UnusedIsUnknown, NEW u \in Uid, NEW x \in Uid,
           \/ u # x /\ \E n \in Name : Register(u, n)
           \/ u # x /\ Disable(u)
           \/ Expire(u)
    PROVE  RowOf(x)' = RowOf(x) /\ issued'[x] = issued[x]
  <1>1. CASE u # x /\ \E n \in Name : Register(u, n)
    <2>1. PICK n \in Name : Register(u, n)
      BY <1>1
    <2>2. Bound(x)' = Bound(x)
      BY <2>1, <1>1, NoneFresh DEF Register, Bound, TypeOK
    <2>3. status'[x] = status[x] /\ UNCHANGED <<guest, token, issued>>
      BY <2>1, <1>1 DEF Register, TypeOK
    <2>4. QED
      BY <2>2, <2>3 DEF RowOf
  <1>2. CASE u # x /\ Disable(u)
    <2>1. status'[x] = status[x] /\ UNCHANGED <<guest, token, identity, issued>>
      BY <1>2 DEF Disable, TypeOK
    <2>2. QED
      BY <2>1 DEF RowOf, Bound
  <1>3. CASE Expire(u)
    BY <1>3 DEF Expire, RowOf, Bound
  <1>4. QED
    BY <1>1, <1>2, <1>3

\* An account without a row stays unknown until it gets one.
LEMMA UnusedStep ==
    TypeOK /\ RequestsFound /\ UnusedIsUnknown /\ [Next]_vars => UnusedIsUnknown'
  <1> SUFFICES ASSUME TypeOK, RequestsFound, UnusedIsUnknown, [Next]_vars,
                      NEW x \in Uid, status'[x] = "unused"
               PROVE  guest'[x] = None /\ issued'[x] = 0 /\ ~ Bound(x)'
    BY DEF UnusedIsUnknown, UnusedUnknown
  <1>1. status[x] = "unused"
    BY AccountsStay
  <1>2. guest[x] = None /\ issued[x] = 0 /\ ~ Bound(x)
    BY <1>1 DEF UnusedIsUnknown, UnusedUnknown
  <1>3. ASSUME RowOf(x)' = RowOf(x) /\ issued'[x] = issued[x]
        PROVE  guest'[x] = None /\ issued'[x] = 0 /\ ~ Bound(x)'
    BY <1>2, <1>3 DEF RowOf
  <1>4. ASSUME NEW w \in Worker, Continue(w) \/ Abort(w), req[w].pc # "create"
        PROVE  guest'[x] = None /\ issued'[x] = 0 /\ ~ Bound(x)'
    <2>1. req[w].pc = "write" => req[w].uid # x
      BY <1>1 DEF RequestsFound, RequestFound
    <2>2. RowOf(x)' = RowOf(x) /\ issued'[x] = issued[x]
      BY <1>4, <2>1, OthersUntouched
    <2>3. QED
      BY <2>2, <1>3
  <1>5. ASSUME NEW w \in Worker, Continue(w) \/ Abort(w), req[w].pc = "create"
        PROVE  guest'[x] = None /\ issued'[x] = 0 /\ ~ Bound(x)'
    <2>1. CreateGuest(w) \/ Abort(w)
      BY <1>5 DEF Continue, FindGuest, LockAccount, ReuseGuest, Bind,
                  OpenSession, Authenticate, Logout
    <2>2. UNCHANGED <<identity, issued>> /\ guest'[x] = guest[x]
      BY <2>1, <1>1 DEF CreateGuest, Abort, tables, TypeOK
    <2>3. QED
      BY <2>2, <1>2 DEF Bound
  <1>6. ASSUME NEW w \in Worker, BeginSome(w)
        PROVE  guest'[x] = None /\ issued'[x] = 0 /\ ~ Bound(x)'
    BY <1>2, <1>6, BeginTyped DEF tables, Bound
  <1>7. ASSUME NEW u \in Uid, \/ Expire(u) \/ Disable(u)
                              \/ \E n \in Name : Register(u, n)
        PROVE  guest'[x] = None /\ issued'[x] = 0 /\ ~ Bound(x)'
    <2>1. u # x \/ Expire(u)
      BY <1>1, <1>7 DEF Disable, Register, TypeOK
    <2>2. RowOf(x)' = RowOf(x) /\ issued'[x] = issued[x]
      BY <1>7, <2>1, OutsideUntouched
    <2>3. QED
      BY <2>2, <1>3
  <1>8. CASE UNCHANGED vars
    BY <1>2, <1>8 DEF vars, tables, Bound
  <1>9. QED
    BY <1>4, <1>5, <1>6, <1>7, <1>8 DEF Next

\* A copy is as current as before if its request, lock and row are untouched.
LEMMA CopyKept ==
    ASSUME NEW v \in Worker, CopyCurrent(v), req'[v] = req[v],
           NEW x, x = req[v].uid,
           req[v].pc = "write" =>
               rowLock'[x] = rowLock[x] /\ RowOf(x)' = RowOf(x)
    PROVE  CopyCurrent(v)'
  BY DEF CopyCurrent, RowOf, Bound

\* A locked copy stays current until its transaction ends.
LEMMA CopyStep == Inv /\ [Next]_vars => CopyIsCurrent'
  <1> SUFFICES ASSUME Inv, [Next]_vars, NEW v \in Worker
               PROVE  CopyCurrent(v)'
    BY DEF CopyIsCurrent
  <1>0. TypeOK /\ RequestsFound /\ UnusedIsUnknown /\ CopyIsCurrent
    BY DEF Inv
  <1>x. PICK x : x = req[v].uid
    OBVIOUS
  <1>1. CopyCurrent(v)
    BY <1>0 DEF CopyIsCurrent
  <1>2. ASSUME req[v].pc = "write"
        PROVE  x \in Uid /\ status[x] # "unused" /\ rowLock[x] = v
    BY <1>0, <1>1, <1>2, <1>x DEF RequestsFound, RequestFound, CopyCurrent
  <1>3. ASSUME NEW w \in Worker, Continue(w) \/ Abort(w)
        PROVE  CopyCurrent(v)'
    <2>1. CASE w # v
      <3>1. /\ req'[v] = req[v]
            /\ \A u \in Uid : rowLock[u] = v => rowLock'[u] = v
        <4>1. CASE FindGuest(w)
          BY <4>1, <2>1, <1>0 DEF FindGuest, TypeOK
        <4>2. CASE LockAccount(w)
          BY <4>2, <2>1, <1>0, NoneFresh DEF LockAccount, TypeOK
        <4>3. CASE ~ (FindGuest(w) \/ LockAccount(w))
          <5>1. Finish(w) \/ Retry(w)
            BY <1>3, <4>3 DEF Continue, CreateGuest, ReuseGuest, Bind,
                  OpenSession, Authenticate, Logout, Abort
          <5>2. QED
            BY <5>1, <2>1, <1>0, FinishTyped
        <4>4. QED
          BY <4>1, <4>2, <4>3
      <3>2. ASSUME req[v].pc = "write"
            PROVE  rowLock'[x] = rowLock[x] /\ RowOf(x)' = RowOf(x)
        <4>1. x \in Uid /\ status[x] # "unused" /\ rowLock[x] = v
          BY <1>2, <3>2
        <4>2. req[w].pc = "write" => req[w].uid # x
          BY <3>2, <2>1, <1>0, <1>x, OneWriter
        <4>3. RowOf(x)' = RowOf(x)
          BY <4>1, <4>2, <1>0, <1>3, OthersUntouched
        <4>4. QED
          BY <3>1, <4>1, <4>3
      <3>3. QED
        BY <3>1, <3>2, <1>1, <1>x, CopyKept
    <2>2. CASE w = v /\ LockAccount(v)
      <3>1. x \in Uid
        BY <2>2, <1>0, <1>x DEF LockAccount, RequestsFound, RequestFound
      <3>2. /\ req'[v].uid = x /\ req'[v].row = RowOf(x)
            /\ rowLock'[x] = v
        BY <2>2, <3>1, <1>0, <1>x DEF LockAccount, TypeOK, Request
      <3>3. RowOf(x)' = RowOf(x)
        BY <2>2 DEF LockAccount, tables, RowOf, Bound
      <3>4. QED
        BY <3>2, <3>3 DEF CopyCurrent, RowOf, Bound
    <2>3. CASE w = v /\ ~ LockAccount(v)
      <3>1. req'[v].pc # "write"
        <4>1. CASE FindGuest(v)
          <5>1. CASE \E u : req' = [req EXCEPT ![v].pc = "lock", ![v].uid = u]
            BY <5>1, <1>0 DEF TypeOK, Request
          <5>2. CASE req' = [req EXCEPT ![v].pc = "create"]
            BY <5>2, <1>0 DEF TypeOK, Request
          <5>3. QED
            BY <4>1, <5>1, <5>2 DEF FindGuest
        <4>2. CASE ~ FindGuest(v)
          <5>1. Finish(v) \/ Retry(v)
            BY <1>3, <2>3, <4>2 DEF Continue, CreateGuest, ReuseGuest, Bind,
                  OpenSession, Authenticate, Logout, Abort
          <5>2. req'[v] = NoRequest \/ req'[v] = Search(req[v].device, 2)
            BY <5>1, <1>0, FinishTyped
          <5>3. QED
            BY <5>2 DEF NoRequest, Search
        <4>3. QED
          BY <4>1, <4>2
      <3>2. QED
        BY <3>1 DEF CopyCurrent
    <2>4. QED
      BY <1>3, <2>1, <2>2, <2>3
  <1>4. ASSUME NEW w \in Worker, BeginSome(w) PROVE CopyCurrent(v)'
    <2>1. CASE w # v
      <3>1. req'[v] = req[v] /\ UNCHANGED <<tables, rowLock>>
        BY <1>0, <1>4, <2>1, BeginTyped
      <3>2. RowOf(x)' = RowOf(x)
        BY <3>1 DEF RowOf, Bound, tables
      <3>3. QED
        BY <3>1, <3>2, <1>1, <1>x, CopyKept
    <2>2. CASE w = v
      <3>1. /\ \A d, k : Search(d, k).pc = "find"
            /\ \A op, u, d, n, t : Found(op, u, d, n, t).pc = "lock"
        BY DEF Search, Found
      <3>2. req'[v].pc \in {"find", "lock"}
        BY <3>1, <1>0, <1>4, <2>2, BeginTyped
      <3>3. QED
        BY <3>2 DEF CopyCurrent
    <2>3. QED
      BY <2>1, <2>2
  <1>5. ASSUME NEW u \in Uid, \/ Expire(u) \/ Disable(u)
                              \/ \E n \in Name : Register(u, n)
        PROVE  CopyCurrent(v)'
    <2>1. req' = req /\ rowLock' = rowLock
      BY <1>5 DEF Expire, Disable, Register
    <2>2. ASSUME req[v].pc = "write" PROVE RowOf(x)' = RowOf(x)
      <3>1. x \in Uid /\ (u # x \/ Expire(u))
        BY <2>2, <1>2, <1>5, NoneFresh DEF Disable, Register
      <3>2. QED
        BY <3>1, <1>0, <1>5, OutsideUntouched
    <2>3. QED
      BY <2>1, <2>2, <1>1, <1>x, CopyKept
  <1>6. CASE UNCHANGED vars
    <2>1. /\ req'[v] = req[v] /\ rowLock'[x] = rowLock[x]
          /\ RowOf(x)' = RowOf(x)
      BY <1>6 DEF vars, tables, RowOf, Bound
    <2>2. QED
      BY <2>1, <1>1, <1>x, CopyKept
  <1>7. QED
    BY <1>3, <1>4, <1>5, <1>6 DEF Next

\* Init satisfies it.
LEMMA InvInit == Init => Inv
  <1> SUFFICES ASSUME Init PROVE Inv
    OBVIOUS
  <1>1. TypeOK
    BY RequestsTyped DEF Init, TypeOK
  <1>2. RequestsFound /\ CopyIsCurrent
    BY DEF Init, NoRequest, RequestsFound, RequestFound, CopyIsCurrent,
           CopyCurrent
  <1>3. UnusedIsUnknown
    BY NoneFresh DEF Init, UnusedIsUnknown, UnusedUnknown, Bound
  <1>4. QED
    BY <1>1, <1>2, <1>3 DEF Inv

\* The four parts are inductive together.
LEMMA InvStep == Inv /\ [Next]_vars => Inv'
  BY TypeStep, FoundStep, UnusedStep, CopyStep DEF Inv

\* No request ever writes back a row that another one has changed since.
THEOREM Invariance == Spec => []Inv
  BY InvInit, InvStep, PTL DEF Spec

\* Every account, session and request is always of its type.
THEOREM Typing == Spec => []TypeOK
  BY Invariance, PTL DEF Inv

-----------------------------------------------------------------------------
(* What a step does to the tables. *)

\* The copy of the transaction that is about to write.
LEMMA WriterCopy ==
    ASSUME Inv, NEW w \in Worker, req[w].pc = "write"
    PROVE  /\ req[w].uid \in Uid
           /\ status[req[w].uid] # "unused"
           /\ req[w].row = RowOf(req[w].uid)
           /\ req[w].row.guest = guest[req[w].uid]
           /\ req[w].row.token = token[req[w].uid]
           /\ req[w].row.bound = Bound(req[w].uid)
  <1>1. /\ req[w].uid \in Uid /\ status[req[w].uid] # "unused"
        /\ req[w].row = RowOf(req[w].uid)
    BY DEF Inv, RequestsFound, RequestFound, CopyIsCurrent, CopyCurrent
  <1>2. QED
    BY <1>1 DEF RowOf

\* Opening, extending and clearing a session writes guest devices back as they
\* are.
LEMMA SessionsKeepGuests ==
    ASSUME Inv, NEW w \in Worker, OpenSession(w) \/ Authenticate(w) \/ Logout(w)
    PROVE  UNCHANGED <<guest, identity>>
  <1> DEFINE u == req[w].uid
  <1>1. u \in Uid /\ req[w].row.guest = guest[u] /\ req[w].row \in Row
    BY WriterCopy, CopyTyped DEF OpenSession, Authenticate, Logout, Inv
  <1>2. /\ \A t : [req[w].row EXCEPT !.token = t].guest = guest[u]
        /\ LoggedOutRow(req[w].row).guest = guest[u]
    BY <1>1 DEF Row, LoggedOutRow
  <1>3. ASSUME NEW row, row.guest = guest[u], Save(u, row) PROVE guest' = guest
    BY <1>1, <1>3 DEF Save, Inv, TypeOK
  <1>4. guest' = guest
    <2>1. CASE OpenSession(w)
      BY <2>1, <1>2, <1>3 DEF OpenSession
    <2>2. CASE Authenticate(w)
      BY <2>2, <1>1, <1>3 DEF Authenticate
    <2>3. CASE Logout(w)
      BY <2>3, <1>2, <1>3 DEF Logout
    <2>4. QED
      BY <2>1, <2>2, <2>3
  <1>5. QED
    BY <1>4 DEF OpenSession, Authenticate, Logout

\* A step may give a new account to a device, or a name to an account that has
\* none, which takes its device away: no other step touches either.
NewGuest(u, d) ==
    /\ ~ Bound(u)
    /\ guest' = [guest EXCEPT ![u] = d] /\ guest[u] = None
    /\ identity' = identity
NewName(u, n) ==
    /\ ~ Bound(u) /\ identity[n] = None
    /\ guest' = [guest EXCEPT ![u] = None]
    /\ identity' = [identity EXCEPT ![n] = u]

LEMMA TablesStep ==
    ASSUME Inv, [Next]_vars
    PROVE  \/ UNCHANGED <<guest, identity>>
           \/ \E u \in Uid, d \in Device : NewGuest(u, d)
           \/ \E u \in Uid, n \in Name : NewName(u, n)
  <1>0. TypeOK /\ RequestsFound /\ UnusedIsUnknown
    BY DEF Inv
  <1>1. ASSUME NEW w \in Worker, CreateGuest(w)
        PROVE  \/ UNCHANGED <<guest, identity>>
               \/ \E u \in Uid, d \in Device : NewGuest(u, d)
    <2>1. req[w].device \in Device /\ identity' = identity
      BY <1>0, <1>1 DEF CreateGuest, RequestsFound, RequestFound
    <2>2. CASE guest' = guest
      BY <2>1, <2>2
    <2>3. ASSUME NEW u \in Uid, status[u] = "unused",
                 guest' = [guest EXCEPT ![u] = req[w].device]
          PROVE  NewGuest(u, req[w].device)
      BY <1>0, <2>1, <2>3 DEF NewGuest, UnusedIsUnknown, UnusedUnknown
    <2>4. QED
      BY <1>1, <2>1, <2>2, <2>3 DEF CreateGuest
  <1>2. ASSUME NEW w \in Worker, Bind(w)
        PROVE  \/ UNCHANGED <<guest, identity>>
               \/ \E u \in Uid, n \in Name : NewName(u, n)
    <2>1. /\ req[w].uid \in Uid /\ req[w].name \in Name
          /\ req[w].row.bound = Bound(req[w].uid) /\ req[w].row \in Row
      BY <1>0, <1>2, WriterCopy, CopyTyped
         DEF Bind, RequestsFound, RequestFound
    <2>2. BoundRow(req[w].row).guest = None
      BY <2>1 DEF BoundRow, Row
    <2>3. CASE UNCHANGED <<identity, guest, token>>
      BY <2>3
    <2>4. CASE ~ UNCHANGED <<identity, guest, token>>
      <3>1. NewName(req[w].uid, req[w].name)
        BY <1>2, <2>1, <2>2, <2>4 DEF Bind, Save, NewName
      <3>2. QED
        BY <2>1, <3>1
    <2>5. QED
      BY <2>3, <2>4
  <1>3. ASSUME NEW w \in Worker, Continue(w) \/ Abort(w) \/ BeginSome(w),
               ~ CreateGuest(w), ~ Bind(w)
        PROVE  UNCHANGED <<guest, identity>>
    <2>1. CASE OpenSession(w) \/ Authenticate(w) \/ Logout(w)
      BY <2>1, SessionsKeepGuests
    <2>2. CASE FindGuest(w) \/ LockAccount(w) \/ ReuseGuest(w) \/ Abort(w)
      BY <2>2 DEF FindGuest, LockAccount, ReuseGuest, Abort, tables
    <2>3. CASE BeginSome(w)
      BY <2>3, <1>0, BeginTyped DEF tables
    <2>4. QED
      BY <1>3, <2>1, <2>2, <2>3 DEF Continue
  <1>4. ASSUME NEW u \in Uid, NEW n \in Name, Register(u, n)
        PROVE  NewName(u, n)
    <2>1. guest[u] = None /\ ~ Bound(u)
      BY <1>0, <1>4 DEF Register, UnusedIsUnknown, UnusedUnknown
    <2>2. guest' = [guest EXCEPT ![u] = None]
      BY <1>0, <1>4, <2>1 DEF Register, TypeOK
    <2>3. QED
      BY <1>4, <2>1, <2>2 DEF Register, NewName
  <1>5. ASSUME NEW u \in Uid, Expire(u) \/ Disable(u)
        PROVE  UNCHANGED <<guest, identity>>
    BY <1>5 DEF Expire, Disable
  <1>6. CASE UNCHANGED vars
    BY <1>6 DEF vars, tables
  <1>7. QED
    BY <1>1, <1>2, <1>3, <1>4, <1>5, <1>6 DEF Next

-----------------------------------------------------------------------------
(* Who can sign in. *)

\* Whoever can be recovered by a device has no identity.
THEOREM GuestsUnbound == Spec => []GuestsAreUnbound
  <1>1. Init => GuestsAreUnbound
    BY DEF Init, GuestsAreUnbound
  <1>2. Inv /\ GuestsAreUnbound /\ [Next]_vars => GuestsAreUnbound'
    <2> SUFFICES ASSUME Inv, GuestsAreUnbound, [Next]_vars, NEW x \in Uid,
                        guest'[x] # None
                 PROVE  ~ Bound(x)'
      BY DEF GuestsAreUnbound
    <2>0. TypeOK
      BY DEF Inv
    <2>1. CASE UNCHANGED <<guest, identity>>
      BY <2>1 DEF GuestsAreUnbound, Bound
    <2>2. ASSUME NEW u \in Uid, NEW d \in Device, NewGuest(u, d)
          PROVE  ~ Bound(x)'
      BY <2>0, <2>2 DEF NewGuest, GuestsAreUnbound, Bound, TypeOK
    <2>3. ASSUME NEW u \in Uid, NEW n \in Name, NewName(u, n)
          PROVE  ~ Bound(x)'
      <3>1. x # u /\ guest[x] # None
        BY <2>0, <2>3 DEF NewName, TypeOK
      <3>2. QED
        BY <2>0, <2>3, <3>1 DEF NewName, GuestsAreUnbound, Bound, TypeOK
    <2>4. QED
      BY <2>1, <2>2, <2>3, TablesStep
  <1>3. QED
    BY <1>1, <1>2, Invariance, PTL DEF Spec

\* An account has one name, however many requests try to bind one.
THEOREM NamesAreUnique == Spec => []OneIdentity
  <1>1. Init => OneIdentity
    BY DEF Init, OneIdentity
  <1>2. Inv /\ OneIdentity /\ [Next]_vars => OneIdentity'
    <2> SUFFICES ASSUME Inv, OneIdentity, [Next]_vars,
                        NEW m \in Name, NEW k \in Name,
                        identity'[m] = identity'[k], identity'[m] # None
                 PROVE  m = k
      BY DEF OneIdentity
    <2>1. CASE identity' = identity
      BY <2>1 DEF OneIdentity
    <2>2. ASSUME NEW u \in Uid, NEW n \in Name, NewName(u, n) PROVE m = k
      BY <2>2 DEF NewName, OneIdentity, Bound, Inv, TypeOK
    <2>3. QED
      BY <2>1, <2>2, TablesStep DEF NewGuest
  <1>3. QED
    BY <1>1, <1>2, Invariance, PTL DEF Spec

\* A uid is only told to a device that recovers it.
LEMMA ToldStep ==
    ASSUME Inv, [Next]_vars
    PROVE  \/ told' = told
           \/ \E u \in Uid, d \in Device :
                  told' = told \cup {<<d, u>>} /\ guest'[u] = d
  <1>0. TypeOK /\ RequestsFound
    BY DEF Inv
  <1>1. ASSUME NEW w \in Worker, CreateGuest(w), told' # told
        PROVE  \E u \in Uid, d \in Device :
                   told' = told \cup {<<d, u>>} /\ guest'[u] = d
    <2>1. req[w].device \in Device
      BY <1>0, <1>1 DEF CreateGuest, RequestsFound, RequestFound
    <2>2. QED
      BY <1>0, <1>1, <2>1 DEF CreateGuest, Answer, TypeOK
  <1>2. ASSUME NEW w \in Worker, ReuseGuest(w), told' # told
        PROVE  \E u \in Uid, d \in Device :
                   told' = told \cup {<<d, u>>} /\ guest'[u] = d
    <2>1. /\ req[w].uid \in Uid /\ req[w].device \in Device
          /\ req[w].row.guest = guest[req[w].uid]
      BY <1>0, <1>2, WriterCopy DEF ReuseGuest, RequestsFound, RequestFound
    <2>2. guest'[req[w].uid] = req[w].device
      BY <1>2, <2>1 DEF ReuseGuest, StillGuest, tables
    <2>3. told' = told \cup {<<req[w].device, req[w].uid>>}
      BY <1>2 DEF ReuseGuest, Answer
    <2>4. QED
      BY <2>1, <2>2, <2>3
  <1>3. ASSUME NEW w \in Worker, OpenSession(w), told' # told
        PROVE  \E u \in Uid, d \in Device :
                   told' = told \cup {<<d, u>>} /\ guest'[u] = d
    <2>1. req[w].op = "guestLogin" /\ StillGuest(w)
      BY <1>3 DEF OpenSession
    <2>2. /\ req[w].uid \in Uid /\ req[w].device \in Device
          /\ req[w].row.guest = guest[req[w].uid]
      BY <1>0, <1>3, <2>1, WriterCopy
         DEF OpenSession, RequestsFound, RequestFound
    <2>3. guest'[req[w].uid] = req[w].device
      BY <1>3, <2>1, <2>2, SessionsKeepGuests DEF StillGuest
    <2>4. told' = told \cup {<<req[w].device, req[w].uid>>}
      BY <1>3, <2>1 DEF OpenSession, Answer
    <2>5. QED
      BY <2>2, <2>3, <2>4
  <1>4. ASSUME NEW w \in Worker, BeginSome(w) \/ Continue(w) \/ Abort(w),
               ~ CreateGuest(w), ~ ReuseGuest(w), ~ OpenSession(w)
        PROVE  told' = told
    BY <1>0, <1>4, BeginTyped
       DEF Continue, FindGuest, LockAccount, Bind, Authenticate, Logout, Abort
  <1>5. ASSUME NEW u \in Uid, \/ Expire(u) \/ Disable(u)
                              \/ \E n \in Name : Register(u, n)
        PROVE  told' = told
    BY <1>5 DEF Expire, Disable, Register
  <1>6. CASE UNCHANGED vars
    BY <1>6 DEF vars
  <1>7. QED
    BY <1>1, <1>2, <1>3, <1>4, <1>5, <1>6 DEF Next, Continue

\* A device does not lose the account it was told, unless it got a name.
THEOREM GuestsStay == Spec => []GuestsAreNotLost
  <1>1. Init => GuestsAreNotLost
    BY DEF Init, GuestsAreNotLost
  <1>2. Inv /\ GuestsAreNotLost /\ [Next]_vars => GuestsAreNotLost'
    <2> SUFFICES ASSUME Inv, GuestsAreNotLost, [Next]_vars, NEW a \in told'
                 PROVE  guest'[a[2]] = a[1] \/ Bound(a[2])'
      BY DEF GuestsAreNotLost
    <2>0. TypeOK
      BY DEF Inv
    <2>1. ASSUME a \in told PROVE guest'[a[2]] = a[1] \/ Bound(a[2])'
      <3>1. /\ a[1] \in Device /\ a[2] \in Uid
            /\ guest[a[2]] = a[1] \/ Bound(a[2])
        BY <2>0, <2>1 DEF GuestsAreNotLost, TypeOK
      <3>2. CASE UNCHANGED <<guest, identity>>
        BY <3>1, <3>2 DEF Bound
      <3>3. ASSUME NEW u \in Uid, NEW d \in Device, NewGuest(u, d)
            PROVE  guest'[a[2]] = a[1] \/ Bound(a[2])'
        <4>1. a[2] # u
          BY <3>1, <3>3, NoneFresh DEF NewGuest
        <4>2. QED
          BY <2>0, <3>1, <3>3, <4>1 DEF NewGuest, Bound, TypeOK
      <3>4. ASSUME NEW u \in Uid, NEW n \in Name, NewName(u, n)
            PROVE  guest'[a[2]] = a[1] \/ Bound(a[2])'
        <4>1. CASE a[2] = u
          BY <2>0, <3>4, <4>1 DEF NewName, Bound, TypeOK
        <4>2. CASE a[2] # u
          BY <2>0, <3>1, <3>4, <4>2, NoneFresh DEF NewName, Bound, TypeOK
        <4>3. QED
          BY <4>1, <4>2
      <3>5. QED
        BY <3>2, <3>3, <3>4, TablesStep
    <2>2. ASSUME NEW u \in Uid, NEW d \in Device, a = <<d, u>>, guest'[u] = d
          PROVE  guest'[a[2]] = a[1] \/ Bound(a[2])'
      BY <2>2
    <2>3. QED
      BY <2>1, <2>2, ToldStep
  <1>3. QED
    BY <1>1, <1>2, Invariance, PTL DEF Spec

-----------------------------------------------------------------------------
(* Sessions. *)

\* Only a login and a logout change a token, each that of its own account.
LEMMA TokenStep ==
    ASSUME Inv, [Next]_vars, NEW u \in Uid, token'[u] # token[u]
    PROVE  \E w \in Worker :
               /\ req[w].pc = "write" /\ req[w].uid = u
               /\ \/ OpenSession(w) /\ token'[u] = issued[u] + 1
                  \/ Logout(w) /\ token'[u] = 0
  <1>0. TypeOK
    BY DEF Inv
  <1>1. ASSUME NEW w \in Worker, OpenSession(w)
        PROVE  req[w].pc = "write" /\ req[w].uid = u
               /\ token'[u] = issued[u] + 1
    <2>1. req[w].pc = "write" /\ req[w].row \in Row
      BY <1>0, <1>1, CopyTyped DEF OpenSession
    <2>2. req[w].uid \in Uid
      BY <2>1, WriterCopy
    <2>3. token' = [token EXCEPT ![req[w].uid] = issued[req[w].uid] + 1]
      BY <1>1, <2>1 DEF OpenSession, Save, Row
    <2>4. QED
      BY <1>0, <2>1, <2>2, <2>3 DEF TypeOK
  <1>2. ASSUME NEW w \in Worker, Logout(w)
        PROVE  req[w].pc = "write" /\ req[w].uid = u /\ token'[u] = 0
    <2>1. req[w].pc = "write" /\ req[w].row \in Row
      BY <1>0, <1>2, CopyTyped DEF Logout
    <2>2. req[w].uid \in Uid
      BY <2>1, WriterCopy
    <2>3. token' = [token EXCEPT ![req[w].uid] = 0] \/ token' = token
      BY <1>2, <2>1 DEF Logout, Save, LoggedOutRow, Row
    <2>4. QED
      BY <1>0, <2>1, <2>2, <2>3 DEF TypeOK
  <1>3. ASSUME NEW w \in Worker, Bind(w) \/ Authenticate(w)
        PROVE  token' = token
    <2>1. /\ req[w].pc = "write"
          /\ req[w].row \in Row /\ BoundRow(req[w].row) \in Row
      BY <1>0, <1>3, CopyTyped DEF Bind, Authenticate
    <2>2. req[w].row.token = token[req[w].uid] /\ req[w].uid \in Uid
      BY <2>1, WriterCopy
    <2>3. BoundRow(req[w].row).token = token[req[w].uid]
      BY <2>1, <2>2 DEF BoundRow, Row
    <2>4. QED
      BY <1>0, <1>3, <2>2, <2>3 DEF Bind, Authenticate, Save, TypeOK
  <1>4. ASSUME NEW w \in Worker,
               \/ BeginSome(w) \/ FindGuest(w) \/ LockAccount(w)
               \/ CreateGuest(w) \/ ReuseGuest(w) \/ Abort(w)
        PROVE  token' = token
    BY <1>0, <1>4, BeginTyped
       DEF FindGuest, LockAccount, CreateGuest, ReuseGuest, Abort, tables
  <1>5. ASSUME NEW x \in Uid, \/ Expire(x) \/ Disable(x)
                              \/ \E n \in Name : Register(x, n)
        PROVE  token' = token
    BY <1>5 DEF Expire, Disable, Register
  <1>6. CASE UNCHANGED vars
    BY <1>6 DEF vars, tables
  <1>7. QED
    BY <1>1, <1>2, <1>3, <1>4, <1>5, <1>6 DEF Next, Continue

\* A token that was replaced or cleared never comes back.
THEOREM RevokedForGood == Spec => RevokedStaysRevoked
  <1>1. Inv /\ [Next]_vars =>
            [\A u \in Uid : token'[u] # token[u] =>
                 token'[u] = 0 \/ token'[u] > issued[u]]_vars
    <2> SUFFICES ASSUME Inv, [Next]_vars, NEW u \in Uid, token'[u] # token[u]
                 PROVE  token'[u] = 0 \/ token'[u] > issued[u]
      OBVIOUS
    <2>1. issued[u] + 1 > issued[u]
      BY DEF Inv, TypeOK
    <2>2. QED
      BY <2>1, TokenStep
  <1>2. QED
    BY <1>1, Invariance, PTL DEF Spec, RevokedStaysRevoked

\* A login by device never opens an account that was bound while it waited.
THEOREM DevicesOpenGuests == Spec => DeviceOpensOnlyGuests
  <1>1. Inv /\ [Next]_vars =>
            [\A w \in Worker : LET u == req[w].uid IN
                 req[w].op = "guestLogin" /\ req[w].pc = "write"
                     /\ token'[u] # token[u]
                 => guest[u] = req[w].device /\ ~ Bound(u)]_vars
    <2> SUFFICES ASSUME Inv, [Next]_vars, NEW w \in Worker,
                        req[w].op = "guestLogin", req[w].pc = "write",
                        token'[req[w].uid] # token[req[w].uid]
                 PROVE  /\ guest[req[w].uid] = req[w].device
                        /\ ~ Bound(req[w].uid)
      OBVIOUS
    <2>1. /\ req[w].uid \in Uid
          /\ req[w].row.guest = guest[req[w].uid]
          /\ req[w].row.bound = Bound(req[w].uid)
      BY WriterCopy
    <2>2. PICK v \in Worker : /\ req[v].pc = "write" /\ req[v].uid = req[w].uid
                              /\ OpenSession(v) \/ Logout(v)
      BY <2>1, TokenStep
    <2>3. v = w
      BY <2>2, OneWriter DEF Inv
    <2>4. StillGuest(w)
      BY <2>2, <2>3 DEF OpenSession, Logout
    <2>5. QED
      BY <2>1, <2>4 DEF StillGuest
  <1>2. QED
    BY <1>1, Invariance, PTL DEF Spec, DeviceOpensOnlyGuests

-----------------------------------------------------------------------------
(* The directory of game servers. *)

CONSTANTS Server, Login, Load, MaxOnline, Hash
VARIABLES phase, report, late, missed, index, node, call

\* ServerDirectory is the other part of the login server.
Directory == INSTANCE ServerDirectory

\* What ServerDirectory assumes of its constants.
ServersAreNumbered ==
    /\ Server \subseteq Nat /\ IsFiniteSet(Server) /\ Load \subseteq Nat
    /\ MaxOnline \in [Server -> Int] /\ Hash \subseteq Nat \X Nat

\* ServerDirectory counts as this module does.
LEMMA SameCount ==
    ASSUME NEW S
    PROVE  Directory!Cardinality(S) = Cardinality(S)
    BY DEF Directory!Cardinality, Cardinality

\* Each of the numbers below the size of a set is the rank of one of its members.
LEMMA RankedType ==
    ASSUME NEW S, S \subseteq Nat, IsFiniteSet(S), NEW k \in Nat, k < Cardinality(S)
    PROVE  /\ Directory!Ranked(S, k) \in S
           /\ Cardinality({t \in S : t < Directory!Ranked(S, k)}) = k
<1> DEFINE Below(s) == {t \in S : t < s}
           C == Cardinality(S)
           rank == [s \in S |-> Cardinality(Below(s))]
<1>1. C \in Nat
    BY FS_CardinalityType
<1>2. ASSUME NEW s \in S PROVE IsFiniteSet(Below(s)) /\ rank[s] \in 0 .. C - 1
    <2>1. Below(s) \in SUBSET S /\ s \in S /\ s \notin Below(s)
        OBVIOUS
    <2> HIDE DEF Below
    <2>2. IsFiniteSet(Below(s)) /\ Cardinality(Below(s)) <= C /\ C # Cardinality(Below(s))
        BY <2>1, FS_Subset
    <2>3. Cardinality(Below(s)) \in Nat
        BY <2>2, FS_CardinalityType
    <2> QED
        BY <1>1, <2>2, <2>3
<1>3. ASSUME NEW s \in S, NEW t \in S, s < t PROVE rank[s] < rank[t]
    <2>1. Below(s) \in SUBSET Below(t) /\ s \in Below(t) /\ s \notin Below(s)
        <3>1. s \in Nat /\ t \in Nat
            OBVIOUS
        <3>2. ASSUME NEW u \in S, u < s PROVE u < t
            <4>1. u \in Nat
                OBVIOUS
            <4> QED
                BY <1>3, <3>1, <3>2, <4>1
        <3>3. ~ (s < s)
            BY <3>1
        <3> QED
            BY <1>3, <3>2, <3>3
    <2>2. IsFiniteSet(Below(s)) /\ IsFiniteSet(Below(t)) /\ rank[s] \in Nat /\ rank[t] \in Nat
        BY <1>1, <1>2
    <2> HIDE DEF Below
    <2>3. Cardinality(Below(s)) <= Cardinality(Below(t))
          /\ Cardinality(Below(t)) # Cardinality(Below(s))
        BY <2>1, <2>2, FS_Subset
    <2> QED
        BY <2>2, <2>3
<1>4. rank \in Injection(S, 0 .. C - 1)
    <2>1. rank \in [S -> 0 .. C - 1]
        <3> HIDE DEF Below
        <3> QED
            BY <1>2
    <2>2. ASSUME NEW s \in S, NEW t \in S, s # t PROVE rank[s] # rank[t]
        <3>1. s < t \/ t < s
            BY <2>2
        <3>2. rank[s] \in Int /\ rank[t] \in Int
            BY <2>1
        <3> HIDE DEF rank
        <3> QED
            BY <1>3, <3>1, <3>2
    <2> HIDE DEF rank
    <2> QED
        BY <2>1, <2>2 DEF Injection, IsInjective
<1>5. rank \in Surjection(S, 0 .. C - 1)
    <2>1. IsFiniteSet(0 .. C - 1) /\ Cardinality(0 .. C - 1) = C
        <3>1. PICK n \in Nat : n = C
            BY <1>1
        <3>2. IsFiniteSet(0 .. n - 1) /\ Cardinality(0 .. n - 1) = n
            BY FS_Interval
        <3> QED
            BY <3>1, <3>2
    <2> HIDE DEF rank
    <2> QED
        BY <1>4, <2>1, FS_Injection
<1>6. PICK s \in S : rank[s] = k
    <2>1. k \in 0 .. C - 1
        BY <1>1
    <2> HIDE DEF rank
    <2> QED
        BY <1>5, <2>1 DEF Surjection
<1> QED
    BY <1>6, SameCount DEF Directory!Ranked

\* An offset that is neither 0 nor the size of the circle leads elsewhere.
LEMMA OffsetMoves ==
    ASSUME NEW c \in Nat, NEW i \in 0 .. c - 1, NEW d \in 1 .. c - 1
    PROVE  (i + d) % c \in 0 .. c - 1 /\ (i + d) % c # i
<1>1. CASE i + d < c
    BY <1>1
<1>2. CASE i + d >= c
    <2>1. (i + d) % c = i + d - c
        BY <1>2
    <2> QED
        BY <1>2, <2>1
<1> QED
    BY <1>1, <1>2

LEMMA Remainder ==
    ASSUME NEW n \in Nat, NEW c \in Nat \ {0}
    PROVE  n % c \in 0 .. c - 1
    OBVIOUS

\* Of two nodes at most one is the less loaded.
LEMMA LessLoadAsymmetric ==
    ASSUME NEW m, NEW n, {m.online, n.online} \subseteq Nat, {m.max, n.max} \subseteq Int,
           Directory!LessLoad(m, n)
    PROVE  ~ Directory!LessLoad(n, m)
<1>1. PICK a \in Int : a = Directory!Numerator(m) * Directory!Denominator(n)
    BY DEF Directory!Numerator, Directory!Denominator
<1>2. PICK b \in Int : b = Directory!Numerator(n) * Directory!Denominator(m)
    BY DEF Directory!Numerator, Directory!Denominator
<1> HIDE DEF Directory!Numerator, Directory!Denominator
<1> QED
    BY <1>1, <1>2 DEF Directory!LessLoad

\* Nodes as they were read.
NodesRead(nodes) ==
    /\ DOMAIN nodes \subseteq Server
    /\ \A s \in DOMAIN nodes : nodes[s] \in Directory!NodeInfo(s)

\* Of several nodes, the one that is picked is no busier than another.
LEMMA PickedNode ==
    ASSUME ServersAreNumbered, NEW nodes, NodesRead(nodes), NEW hash \in Nat \X Nat,
           Cardinality(Directory!AvailableOf(nodes)) > 1
    PROVE  \E s \in Directory!AvailableOf(nodes) \ {Directory!PickLoadAwareNode(nodes, hash)} :
               ~ Directory!LessLoad(nodes[s], nodes[Directory!PickLoadAwareNode(nodes, hash)])
<1>1. PICK S : S = Directory!AvailableOf(nodes)
    OBVIOUS
<1>2. S \subseteq Nat /\ IsFiniteSet(S)
    BY <1>1, FS_Subset DEF ServersAreNumbered, NodesRead, Directory!AvailableOf
<1>3. PICK c \in Nat : c = Cardinality(S) /\ c > 1
    BY <1>1, <1>2, FS_CardinalityType
<1>4. PICK i \in 0 .. c - 1 : i = hash[1] % c
    <2>1. PICK h \in Nat : h = hash[1]
        OBVIOUS
    <2>2. c \in Nat \ {0}
        BY <1>3
    <2>3. h % c \in 0 .. c - 1
        BY <2>2, Remainder
    <2> QED
        BY <2>1, <2>3
<1>5. PICK d \in 1 .. c - 1 : d = Directory!SecondOffset(hash[2], c)
    <2>1. PICK b \in Nat \ {0} : b = c - 1
        BY <1>3
    <2>2. PICK h \in Nat : h = hash[2]
        OBVIOUS
    <2>3. h % b \in 0 .. b - 1
        BY Remainder
    <2> QED
        BY <2>1, <2>2, <2>3 DEF Directory!SecondOffset
<1>6. PICK j \in 0 .. c - 1 : j = (i + d) % c /\ j # i
    BY <1>3, OffsetMoves
<1>7. PICK first \in S :
          first = Directory!Ranked(S, i) /\ Cardinality({t \in S : t < first}) = i
    <2>1. i \in Nat /\ i < Cardinality(S)
        BY <1>3
    <2> QED
        BY <1>2, <2>1, RankedType
<1>8. PICK second \in S :
          second = Directory!Ranked(S, j) /\ Cardinality({t \in S : t < second}) = j
    <2>1. j \in Nat /\ j < Cardinality(S)
        BY <1>3
    <2> QED
        BY <1>2, <2>1, RankedType
<1>9. first # second
    BY <1>6, <1>7, <1>8
<1>10. Directory!PickLoadAwareNode(nodes, hash) =
          IF Directory!LessLoad(nodes[second], nodes[first]) THEN second ELSE first
    BY <1>1, <1>3, <1>4, <1>5, <1>6, <1>7, <1>8, SameCount DEF Directory!PickLoadAwareNode
<1>11. ASSUME NEW s \in S PROVE nodes[s].online \in Nat /\ nodes[s].max \in Int
    <2>1. s \in Server /\ nodes[s] \in Directory!NodeInfo(s)
        BY <1>1 DEF Directory!AvailableOf, NodesRead
    <2> QED
        BY <2>1, ServersAreNumbered DEF ServersAreNumbered, Directory!NodeInfo
<1>12. Directory!LessLoad(nodes[second], nodes[first])
       => ~ Directory!LessLoad(nodes[first], nodes[second])
    BY <1>11, LessLoadAsymmetric
<1> QED
    BY <1>1, <1>9, <1>10, <1>12

\* One of several nodes is picked, or the only one.
LEMMA PickedIsAvailable ==
    ASSUME ServersAreNumbered, NEW nodes, NodesRead(nodes), NEW hash \in Nat \X Nat,
           Directory!AvailableOf(nodes) # {}
    PROVE  Directory!PickLoadAwareNode(nodes, hash) \in Directory!AvailableOf(nodes)
<1>1. PICK S : S = Directory!AvailableOf(nodes)
    OBVIOUS
<1>2. S \subseteq Nat /\ IsFiniteSet(S)
    BY <1>1, FS_Subset DEF ServersAreNumbered, NodesRead, Directory!AvailableOf
<1>3. PICK c \in Nat \ {0} : c = Cardinality(S)
    <2>1. Cardinality(S) \in Nat /\ (Cardinality(S) = 0 <=> S = {})
        BY <1>2, FS_CardinalityType, FS_EmptySet
    <2> QED
        BY <1>1, <2>1
<1>4. \A k \in Nat : k < c => Directory!Ranked(S, k) \in S
    BY <1>2, <1>3, RankedType
<1>5. ASSUME NEW n \in Nat PROVE n % c \in Nat /\ n % c < c
    <2>1. n % c \in 0 .. c - 1
        BY Remainder
    <2> QED
        BY <2>1
<1>6. CASE c = 1
    <2>1. Directory!PickLoadAwareNode(nodes, hash) = Directory!Ranked(S, 0)
        BY <1>1, <1>3, <1>6, SameCount DEF Directory!PickLoadAwareNode
    <2> QED
        BY <1>1, <1>4, <1>6, <2>1
<1>7. CASE c > 1
    <2>1. PICK i \in Nat : i = hash[1] % c /\ i < c
        <3>1. hash[1] \in Nat
            OBVIOUS
        <3> QED
            BY <1>5, <3>1
    <2>2. PICK d \in Nat : d = Directory!SecondOffset(hash[2], c)
        <3>1. PICK b \in Nat \ {0} : b = c - 1
            BY <1>3, <1>7
        <3>2. PICK h \in Nat : h = hash[2]
            OBVIOUS
        <3>3. h % b \in 0 .. b - 1
            BY Remainder
        <3> QED
            BY <3>1, <3>2, <3>3 DEF Directory!SecondOffset
    <2>3. PICK j \in Nat : j = (i + d) % c /\ j < c
        <3>1. i + d \in Nat
            OBVIOUS
        <3> QED
            BY <1>5, <3>1
    <2>4. PICK first \in S, second \in S :
              first = Directory!Ranked(S, i) /\ second = Directory!Ranked(S, j)
        BY <1>4, <2>1, <2>3
    <2>5. Directory!PickLoadAwareNode(nodes, hash) \in {first, second}
        BY <1>1, <1>3, <1>7, <2>1, <2>2, <2>3, <2>4, SameCount DEF Directory!PickLoadAwareNode
    <2> QED
        BY <1>1, <2>4, <2>5
<1> QED
    BY <1>3, <1>6, <1>7

\* What a call has read.
CallRead(c) ==
    /\ c.pc = "load" => c.ids \subseteq Server
    /\ c.pc = "sweep" => NodesRead(c.nodes)

DirectoryInv ==
    /\ index \subseteq Server
    /\ node = [s \in Server |-> node[s]]
    /\ \A s \in Server : node[s] \in Directory!NodeInfo(s) \cup {None}
    /\ call = [l \in Login |-> call[l]]
    /\ \A l \in Login : CallRead(call[l])

LEMMA DirectoryInitially == Directory!Init => DirectoryInv
    BY DEF Directory!Init, DirectoryInv, CallRead, Directory!Idle

LEMMA DirectoryKept ==
    ASSUME DirectoryInv, [Directory!Next]_Directory!vars
    PROVE  DirectoryInv'
<1> USE DEF DirectoryInv
<1>1. ASSUME NEW s \in Server, call' = call,
             \/ UNCHANGED <<index, node>>
             \/ index' = index /\ node' = [node EXCEPT ![s] = None]
             \/ Directory!RemoveNode(s) \/ Directory!UpsertNode(s)
      PROVE  DirectoryInv'
    BY <1>1 DEF Directory!RemoveNode, Directory!UpsertNode, Directory!IndexWith
<1>2. ASSUME NEW s \in Server,
             \/ Directory!Start(s) \/ Directory!Heartbeat(s) \/ Directory!ReportArrives(s)
             \/ Directory!LoseReport(s) \/ Directory!Stop(s) \/ Directory!Crash(s)
             \/ Directory!LateCommandArrives(s) \/ Directory!Expire(s)
      PROVE  DirectoryInv'
    BY <1>1, <1>2 DEF Directory!Start, Directory!Heartbeat, Directory!ReportArrives,
        Directory!LoseReport, Directory!Stop, Directory!Crash,
        Directory!LateCommandArrives, Directory!Expire
<1>3. ASSUME NEW l \in Login, NEW c, call' = [call EXCEPT ![l] = c], CallRead(c), node' = node,
             index' \subseteq index
      PROVE  DirectoryInv'
    BY <1>3
<1>4. ASSUME NEW l \in Login, Directory!ListIds(l) PROVE DirectoryInv'
    <2>1. PICK c : c = [pc |-> "load", ids |-> index]
        OBVIOUS
    <2>2. CallRead(c)
        BY <2>1 DEF CallRead
    <2> QED
        BY <1>3, <1>4, <2>1, <2>2 DEF Directory!ListIds
<1>5. ASSUME NEW l \in Login, Directory!LoadNodes(l) PROVE DirectoryInv'
    <2>1. PICK found : found = {s \in call[l].ids : node[s] # None}
        OBVIOUS
    <2>2. PICK c : c = [pc |-> "sweep", stale |-> call[l].ids \ found,
                        nodes |-> [s \in found |-> node[s]]]
        OBVIOUS
    <2>3. found \subseteq Server /\ \A s \in found : node[s] \in Directory!NodeInfo(s)
        BY <1>5, <2>1 DEF Directory!LoadNodes, CallRead
    <2>4. NodesRead([s \in found |-> node[s]])
        BY <2>3 DEF NodesRead
    <2>5. CallRead(c)
        BY <2>2, <2>4 DEF CallRead
    <2> QED
        BY <1>3, <1>5, <2>1, <2>2, <2>5 DEF Directory!LoadNodes
<1>6. ASSUME NEW l \in Login, Directory!Enter(l) PROVE DirectoryInv'
    <2>1. PICK server, back :
              call' = [call EXCEPT ![l] = [pc |-> "idle", server |-> server, back |-> back]]
        BY <1>6 DEF Directory!Enter
    <2>2. CallRead([pc |-> "idle", server |-> server, back |-> back])
        BY DEF CallRead
    <2> QED
        BY <1>3, <1>6, <2>1, <2>2 DEF Directory!Enter
<1>7. CASE UNCHANGED Directory!vars
    BY <1>7 DEF Directory!vars
<1> QED
    BY <1>2, <1>4, <1>5, <1>6, <1>7 DEF Directory!Next

\* Where Enter sends the player.
LEMMA EnterAnswers ==
    ASSUME NEW l, Directory!Enter(l)
    PROVE  \E last \in Server \cup {None}, hash \in Hash :
               call' = [call EXCEPT ![l] =
                   [pc |-> "idle",
                    server |-> Directory!Allocate(call[l].nodes, last, hash),
                    back |-> Directory!Allocate(call[l].nodes, last, hash) = last]]
    BY DEF Directory!Enter

\* Enter sends nobody to the busiest of several servers who was not there before.
LEMMA EnterPicks ==
    ASSUME ServersAreNumbered, DirectoryInv, NEW l \in Login, Directory!Enter(l),
           Cardinality(Directory!AvailableOf(call[l].nodes)) > 1, ~ call'[l].back
    PROVE  \E s \in Directory!AvailableOf(call[l].nodes) \ {call'[l].server} :
               ~ Directory!LessLoad(call[l].nodes[s], call[l].nodes[call'[l].server])
<1>1. PICK nodes : nodes = call[l].nodes
    OBVIOUS
<1>2. NodesRead(nodes)
    BY <1>1 DEF DirectoryInv, CallRead, Directory!Enter
<1>3. PICK last \in Server \cup {None}, hash \in Hash :
          call' = [call EXCEPT ![l] =
              [pc |-> "idle", server |-> Directory!Allocate(nodes, last, hash),
               back |-> Directory!Allocate(nodes, last, hash) = last]]
    BY <1>1, EnterAnswers
<1>4. call'[l].server = Directory!Allocate(nodes, last, hash)
      /\ Directory!Allocate(nodes, last, hash) # last
    BY <1>3 DEF DirectoryInv
<1>5. last \notin Directory!AvailableOf(nodes)
    BY <1>4 DEF Directory!Allocate
<1>6. Directory!AvailableOf(nodes) # {}
    BY <1>1, FS_EmptySet
<1>7. call'[l].server = Directory!PickLoadAwareNode(nodes, hash) /\ hash \in Nat \X Nat
    BY <1>4, <1>5, <1>6 DEF ServersAreNumbered, Directory!Allocate
<1> QED
    BY <1>1, <1>2, <1>7, PickedNode

\* However many servers there are and whatever loads they report, a login that does
\* not go back to where the player was never ends at the busiest of several servers
\* (Allocate and pickLoadAwareNode of login/allocator.go).
THEOREM BusiestIsSpared ==
    ASSUME ServersAreNumbered
    PROVE  Directory!Spec => Directory!NotToTheBusiest
<1>1. DirectoryInv /\ [Directory!Next]_Directory!vars => DirectoryInv'
    BY DirectoryKept
<1>2. DirectoryInv =>
          [\A l \in Login : Directory!Enter(l) =>
              LET nodes == call[l].nodes
                  server == call'[l].server
              IN Directory!Cardinality(Directory!AvailableOf(nodes)) > 1 /\ ~ call'[l].back =>
                     \E s \in Directory!AvailableOf(nodes) \ {server} :
                         ~ Directory!LessLoad(nodes[s], nodes[server])
          ]_call
    BY EnterPicks, SameCount
<1> QED
    BY DirectoryInitially, <1>1, <1>2, PTL DEF Directory!Spec, Directory!NotToTheBusiest

\* A player is sent to a server that could take him, or there was none.
Allocated(nodes, server) ==
    \/ server \in Directory!AvailableOf(nodes)
    \/ server = None /\ Directory!AvailableOf(nodes) = {}

LEMMA EnterAllocates ==
    ASSUME ServersAreNumbered, DirectoryInv, NEW l \in Login, Directory!Enter(l)
    PROVE  Allocated(call[l].nodes, call'[l].server)
<1>1. PICK nodes : nodes = call[l].nodes
    OBVIOUS
<1>2. NodesRead(nodes)
    BY <1>1 DEF DirectoryInv, CallRead, Directory!Enter
<1>3. PICK last \in Server \cup {None}, hash \in Hash :
          call' = [call EXCEPT ![l] =
              [pc |-> "idle", server |-> Directory!Allocate(nodes, last, hash),
               back |-> Directory!Allocate(nodes, last, hash) = last]]
    BY <1>1, EnterAnswers
<1>4. call'[l].server = Directory!Allocate(nodes, last, hash)
    BY <1>3 DEF DirectoryInv
<1>5. Directory!AvailableOf(nodes) # {} =>
          Directory!PickLoadAwareNode(nodes, hash) \in Directory!AvailableOf(nodes)
    BY <1>2, PickedIsAvailable DEF ServersAreNumbered
<1> QED
    BY <1>1, <1>4, <1>5 DEF Allocated, Directory!Allocate

\* Whatever the login server has read, it sends nobody to a server that drains or
\* has reached its limit, and sends nobody away as long as one server could take
\* him (Allocate of login/allocator.go).
THEOREM AllocatesAvailable ==
    ASSUME ServersAreNumbered
    PROVE  Directory!Spec =>
               [][\A l \in Login : Directory!Enter(l) =>
                     Allocated(call[l].nodes, call'[l].server)]_call
<1>1. DirectoryInv /\ [Directory!Next]_Directory!vars => DirectoryInv'
    BY DirectoryKept
<1>2. DirectoryInv =>
          [\A l \in Login : Directory!Enter(l) =>
               Allocated(call[l].nodes, call'[l].server)]_call
    BY EnterAllocates
<1> QED
    BY DirectoryInitially, <1>1, <1>2, PTL DEF Directory!Spec

\* What a call knows and has answered.
CallTyped(c) ==
    \/ c \in [pc : {"idle"}, server : Server \cup {None}, back : BOOLEAN]
    \/ c \in [pc : {"load"}, ids : SUBSET Server]
    \/ /\ c = [pc |-> "sweep", stale |-> c.stale, nodes |-> c.nodes]
       /\ c.stale \subseteq Server /\ NodesRead(c.nodes)

\* Whoever is starting waits for what becomes of a report, and whoever is down
\* waits for none.
ServersTyped ==
    /\ phase \in [Server -> {"down", "starting", "up"}]
    /\ report \in [Server -> BOOLEAN] /\ missed \in [Server -> BOOLEAN]
    /\ late \in [Server -> SUBSET {"report", "removal"}]
    /\ \A s \in Server :
           (phase[s] = "starting" => report[s]) /\ (report[s] => phase[s] # "down")

CallsTyped == \A l \in Login : CallTyped(call[l])

DirectoryTypeOK == DirectoryInv /\ ServersTyped /\ CallsTyped

LEMMA TypesOfDirectory == Directory!Init => ServersTyped /\ CallsTyped
    BY DEF Directory!Init, Directory!Idle, ServersTyped, CallsTyped, CallTyped

LEMMA ServersKept ==
    ASSUME ServersTyped, [Directory!Next]_Directory!vars
    PROVE  ServersTyped'
<1> USE DEF ServersTyped
<1>1. ASSUME NEW s \in Server,
             Directory!Start(s) \/ Directory!Heartbeat(s) \/ Directory!ReportArrives(s)
      PROVE  ServersTyped'
    BY <1>1 DEF Directory!Start, Directory!Heartbeat, Directory!ReportArrives
<1>2. CASE UNCHANGED <<phase, report, late, missed>>
    BY <1>2
<1>3. ASSUME NEW s \in Server, Directory!Expire(s) PROVE UNCHANGED <<phase, report, late, missed>>
    BY <1>3 DEF Directory!Expire
<1>4. ASSUME NEW l \in Login, Directory!ListIds(l) \/ Directory!LoadNodes(l) \/ Directory!Enter(l)
      PROVE  UNCHANGED <<phase, report, late, missed>>
    BY <1>4 DEF Directory!ListIds, Directory!LoadNodes, Directory!Enter
<1>5. ASSUME NEW s \in Server, NEW sent \in SUBSET {"report", "removal"},
             Directory!Abandon(s, sent), missed' \in [Server -> BOOLEAN],
             \/ phase' = [phase EXCEPT ![s] = "down"]
             \/ phase' = [phase EXCEPT ![s] = IF @ = "starting" THEN "down" ELSE @]
      PROVE  ServersTyped'
    <2>1. PICK l \in SUBSET sent : late' = [late EXCEPT ![s] = @ \cup l]
        BY <1>5 DEF Directory!Abandon
    <2>2. late' \in [Server -> SUBSET {"report", "removal"}]
        BY <2>1
    <2> QED
        BY <1>5, <2>2 DEF Directory!Abandon
<1>6. ASSUME NEW s \in Server,
             Directory!LoseReport(s) \/ Directory!Stop(s) \/ Directory!Crash(s)
      PROVE  ServersTyped'
    <2>1. missed' \in [Server -> BOOLEAN]
        BY <1>6 DEF Directory!LoseReport, Directory!Stop, Directory!Crash
    <2>2. Directory!Waiting(s) \in SUBSET {"report", "removal"}
        BY DEF Directory!Waiting
    <2>3. CASE Directory!LoseReport(s)
        BY <1>5, <2>1, <2>3 DEF Directory!LoseReport
    <2>4. CASE Directory!Stop(s)
        BY <1>5, <2>1, <2>2, <2>4 DEF Directory!Stop
    <2>5. CASE Directory!Crash(s)
        BY <1>5, <2>1, <2>2, <2>5 DEF Directory!Crash
    <2> QED
        BY <1>6, <2>3, <2>4, <2>5
<1>7. ASSUME NEW s \in Server, Directory!LateCommandArrives(s) PROVE ServersTyped'
    BY <1>7 DEF Directory!LateCommandArrives
<1> QED
    BY <1>1, <1>2, <1>3, <1>4, <1>6, <1>7 DEF Directory!Next, Directory!vars

LEMMA CallsKept ==
    ASSUME ServersAreNumbered, DirectoryInv, CallsTyped, [Directory!Next]_Directory!vars
    PROVE  CallsTyped'
<1> USE DEF CallsTyped
<1>1. ASSUME NEW l \in Login, NEW c, call' = [call EXCEPT ![l] = c], CallTyped(c)
      PROVE  CallsTyped'
    BY <1>1 DEF DirectoryInv
<1>2. ASSUME NEW l \in Login, Directory!ListIds(l) PROVE CallsTyped'
    <2>1. PICK c : c = [pc |-> "load", ids |-> index]
        OBVIOUS
    <2>2. CallTyped(c)
        BY <2>1 DEF CallTyped, DirectoryInv
    <2> QED
        BY <1>1, <1>2, <2>1, <2>2 DEF Directory!ListIds
<1>3. ASSUME NEW l \in Login, Directory!LoadNodes(l) PROVE CallsTyped'
    <2>1. PICK found : found = {s \in call[l].ids : node[s] # None}
        OBVIOUS
    <2>2. PICK c : c = [pc |-> "sweep", stale |-> call[l].ids \ found,
                        nodes |-> [s \in found |-> node[s]]]
        OBVIOUS
    <2>3. call[l].ids \subseteq Server
        BY <1>3 DEF Directory!LoadNodes, DirectoryInv, CallRead
    <2>4. found \subseteq Server /\ \A s \in found : node[s] \in Directory!NodeInfo(s)
        BY <2>1, <2>3 DEF DirectoryInv
    <2>5. NodesRead([s \in found |-> node[s]])
        BY <2>4 DEF NodesRead
    <2>6. CallTyped(c)
        BY <2>2, <2>3, <2>5 DEF CallTyped
    <2> QED
        BY <1>1, <1>3, <2>1, <2>2, <2>6 DEF Directory!LoadNodes
<1>4. ASSUME NEW l \in Login, Directory!Enter(l) PROVE CallsTyped'
    <2>1. PICK server, last :
              call' = [call EXCEPT ![l] =
                  [pc |-> "idle", server |-> server, back |-> server = last]]
        BY <1>4 DEF Directory!Enter
    <2>2. call'[l].server = server
        BY <2>1 DEF DirectoryInv
    <2>3. DOMAIN call[l].nodes \subseteq Server
        BY <1>4 DEF Directory!Enter, DirectoryInv, CallRead, NodesRead
    <2>4. server \in Server \cup {None}
        BY <1>4, <2>2, <2>3, EnterAllocates DEF Allocated, Directory!AvailableOf
    <2>5. CallTyped([pc |-> "idle", server |-> server, back |-> server = last])
        BY <2>4 DEF CallTyped
    <2> QED
        BY <1>1, <2>1, <2>5
<1>5. CASE UNCHANGED call
    BY <1>5
<1>6. ASSUME NEW s \in Server,
             \/ Directory!Start(s) \/ Directory!Heartbeat(s) \/ Directory!ReportArrives(s)
             \/ Directory!LoseReport(s) \/ Directory!Stop(s) \/ Directory!Crash(s)
             \/ Directory!LateCommandArrives(s) \/ Directory!Expire(s)
      PROVE  UNCHANGED call
    BY <1>6 DEF Directory!Start, Directory!Heartbeat, Directory!ReportArrives,
        Directory!LoseReport, Directory!Stop, Directory!Crash,
        Directory!LateCommandArrives, Directory!Expire
<1> QED
    BY <1>2, <1>3, <1>4, <1>5, <1>6 DEF Directory!Next, Directory!vars

\* Every variable of ServerDirectory keeps its type, and a login gets a server id
\* or none.
THEOREM DirectoryTyping ==
    ASSUME ServersAreNumbered
    PROVE  Directory!Spec => []DirectoryTypeOK
<1>1. DirectoryInv /\ [Directory!Next]_Directory!vars => DirectoryInv'
    BY DirectoryKept
<1>2. ServersTyped /\ [Directory!Next]_Directory!vars => ServersTyped'
    BY ServersKept
<1>3. DirectoryInv /\ CallsTyped /\ [Directory!Next]_Directory!vars => CallsTyped'
    BY CallsKept
<1>4. DirectoryInv /\ ServersTyped /\ CallsTyped => DirectoryTypeOK
    BY DEF DirectoryTypeOK
<1> QED
    BY DirectoryInitially, TypesOfDirectory, <1>1, <1>2, <1>3, <1>4, PTL DEF Directory!Spec
=============================================================================
