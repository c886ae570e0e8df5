---------------------------- MODULE AccountService ----------------------------
(***************************************************************************)
(* account.Service of the login server: accounts that are known by a name  *)
(* and password (an identity), or, until one is bound, by the device they  *)
(* were created on (guests).  An account has one session token, of which   *)
(* only the hash is stored.                                                *)
(*                                                                         *)
(* A request looks its account up with plain reads, then opens a           *)
(* transaction that locks the account's row (SELECT ... FOR UPDATE), checks *)
(* the row it has read, and saves it: token, expiry and guest device are   *)
(* all written back from that copy.  A member of Worker is a request on    *)
(* some login server.  Passwords are right and tokens are ones the service *)
(* has issued: others are refused before anything is changed.              *)
(***************************************************************************)
EXTENDS Naturals, FiniteSets

CONSTANTS Uid, Device, Name, Worker, None,
          MaxTokens  \* bound: how many tokens an account is issued

ASSUME NoneFresh == None \notin Uid \cup Device \cup Name \cup Worker
ASSUME MaxTokensTyped == MaxTokens \in Nat

VARIABLES
    status,    \* status[u]: accounts.status, "unused" while u has no row
    guest,     \* guest[u]: accounts.guest_device_id (unique index)
    token,     \* token[u]: accounts.token_hash as the number of the token, 0: ''
    live,      \* the accounts whose expires_at lies in the future
    identity,  \* identity[n]: account_identities.uid of name n (primary key)
    rowLock,   \* rowLock[u]: the transaction that has u's row locked
    req,       \* req[w]: the request that worker w handles
    issued,    \* issued[u]: how many tokens were made for u
    told       \* pairs of a device and the uid it was told as a guest

tables == <<status, guest, token, live, identity>>
vars == <<tables, rowLock, req, issued, told>>

Op == {"registerGuest", "bind", "guestLogin", "passwordLogin", "authenticate",
       "logout"}
Row == [status: {"unused", "active", "disabled"}, guest: Device \cup {None},
        token: Nat, bound: BOOLEAN]
NoRow == [status |-> "unused", guest |-> None, token |-> 0, bound |-> FALSE]

\* row is the local variable a, the row as it was read when it was locked, and
\* what HasIdentityInTx answered then: the first plain read of the transaction.
Request == [pc: {"idle", "find", "create", "lock", "write"}, op: Op,
            uid: Uid \cup {None}, device: Device \cup {None},
            name: Name \cup {None}, token: Nat, attempt: 1..2, row: Row]
NoRequest == [pc |-> "idle", op |-> "logout", uid |-> None, device |-> None,
              name |-> None, token |-> 0, attempt |-> 1, row |-> NoRow]

\* The k-th iteration of registerDevice begins; or an account has been found.
Search(d, k) == [pc |-> "find", op |-> "registerGuest", uid |-> None,
                 device |-> d, name |-> None, token |-> 0, attempt |-> k,
                 row |-> NoRow]
Found(op, u, d, n, t) == [pc |-> "lock", op |-> op, uid |-> u, device |-> d,
                          name |-> n, token |-> t, attempt |-> 1, row |-> NoRow]

TypeOK ==
    /\ status \in [Uid -> {"unused", "active", "disabled"}]
    /\ guest \in [Uid -> Device \cup {None}]
    /\ token \in [Uid -> Nat]
    /\ live \subseteq Uid
    /\ identity \in [Name -> Uid \cup {None}]
    /\ rowLock \in [Uid -> Worker \cup {None}]
    /\ req \in [Worker -> Request]
    /\ issued \in [Uid -> Nat]
    /\ told \subseteq Device \X Uid

Init ==
    /\ status = [u \in Uid |-> "unused"]
    /\ guest = [u \in Uid |-> None]
    /\ token = [u \in Uid |-> 0]
    /\ live = {}
    /\ identity = [n \in Name |-> None]
    /\ rowLock = [u \in Uid |-> None]
    /\ req = [w \in Worker |-> NoRequest]
    /\ issued = [u \in Uid |-> 0]
    /\ told = {}

-----------------------------------------------------------------------------
(* Helpers. *)

Bound(u) == \E n \in Name : identity[n] = u
RowOf(u) == [status |-> status[u], guest |-> guest[u], token |-> token[u],
             bound |-> Bound(u)]
GuestsOf(d) == {u \in Uid : guest[u] = d}

\* The transaction is over, committed or not, and so are its locks.
Release(w) ==
    rowLock' = [u \in Uid |-> IF rowLock[u] = w THEN None ELSE rowLock[u]]

Finish(w) == req' = [req EXCEPT ![w] = NoRequest] /\ Release(w)

\* The second iteration of registerDevice, or its ErrGuestDeviceExists.
Retry(w) ==
    IF req[w].attempt = 2
    THEN Finish(w)
    ELSE /\ req' = [req EXCEPT ![w] = Search(req[w].device, 2)]
         /\ Release(w)

\* SaveAccountInTx: the columns are written back from the copy.
Save(u, row) ==
    /\ guest' = [guest EXCEPT ![u] = row.guest]
    /\ token' = [token EXCEPT ![u] = row.token]

\* A guest's uid is answered to the device.
Answer(w, u) == told' = told \cup {<<req[w].device, u>>}

-----------------------------------------------------------------------------
(* Requests arrive and look their account up, outside of any transaction.   *)

Begin(w, request) ==
    /\ req[w].pc = "idle"
    /\ req' = [req EXCEPT ![w] = request]
    /\ UNCHANGED <<tables, rowLock, issued, told>>

BeginRegisterGuest(w, d) == Begin(w, Search(d, 1))

\* Login with a device only: Guest finds the unbound guest of the device.
BeginGuestLogin(w, d) ==
    \E u \in GuestsOf(d) :
        Begin(w, Found("guestLogin", u, d, None, 0))

\* Login with a password: verifyPassword reads the identity.
BeginPasswordLogin(w, n) ==
    /\ identity[n] # None
    /\ Begin(w, Found("passwordLogin", identity[n], None, None, 0))

\* A client presents a token it was given once: it names the account.
BeginWithToken(w, op, u, t, n) ==
    Begin(w, Found(op, u, None, n, t))

FindGuest(w) ==
    /\ req[w].pc = "find"
    /\ \/ \E u \in GuestsOf(req[w].device) :
              req' = [req EXCEPT ![w].pc = "lock", ![w].uid = u]
       \/ /\ GuestsOf(req[w].device) = {}
          /\ req' = [req EXCEPT ![w].pc = "create"]
    /\ UNCHANGED <<tables, rowLock, issued, told>>

-----------------------------------------------------------------------------
(* Transactions. *)

\* Mutant of LockAccount: the row is read without FOR UPDATE.
ReadAccount(w) ==
    /\ req[w].pc = "lock"
    /\ req' = [req EXCEPT ![w].pc = "write", ![w].row = RowOf(req[w].uid)]
    /\ UNCHANGED <<tables, rowLock, issued, told>>

\* AccountInTx: waits for the row and reads what was committed last.
LockAccount(w) ==
    LET u == req[w].uid
    IN
    /\ req[w].pc = "lock"
    /\ rowLock[u] = None
    /\ rowLock' = [rowLock EXCEPT ![u] = w]
    /\ req' = [req EXCEPT ![w].pc = "write", ![w].row = RowOf(u)]
    /\ UNCHANGED <<tables, issued, told>>

\* A guest with a fresh uid; the unique index refuses a second one.
CreateGuest(w) ==
    LET d == req[w].device
    IN
    /\ req[w].pc = "create"
    /\ IF GuestsOf(d) = {}
       THEN \E u \in Uid :
                /\ status[u] = "unused"
                /\ status' = [status EXCEPT ![u] = "active"]
                /\ guest' = [guest EXCEPT ![u] = d]
                /\ Answer(w, u)
                /\ Finish(w)
       ELSE /\ Retry(w)
            /\ UNCHANGED <<status, guest, told>>
    /\ UNCHANGED <<token, live, identity, issued>>

\* Mutant of StillGuest: the device found before the lock is trusted.
StillActive(w) == req[w].row.status = "active"

\* guestAccountInTx, once the recovery key is known to match.
StillGuest(w) ==
    /\ req[w].row.guest = req[w].device
    /\ req[w].row.status = "active"
    /\ ~ req[w].row.bound

\* registerDevice finds its guest again, unless the device was released.
ReuseGuest(w) ==
    /\ req[w].pc = "write" /\ req[w].op = "registerGuest"
    /\ IF req[w].row.guest # req[w].device
       THEN /\ Retry(w)
            /\ UNCHANGED told
       ELSE /\ Finish(w)
            /\ IF StillGuest(w) THEN Answer(w, req[w].uid) ELSE UNCHANGED told
    /\ UNCHANGED <<tables, issued>>

\* sessionInTx: the token is the account's current one.
Current(w) == req[w].row.token = req[w].token

\* activeSessionInTx.
ActiveSession(w) ==
    /\ Current(w)
    /\ req[w].row.status = "active"
    /\ req[w].uid \in live

\* Mutant of BoundRow: the guest keeps its recovery key.
KeepDevice(row) == row

\* The device no longer recovers an account that has an identity.
BoundRow(row) == [row EXCEPT !.guest = None]

\* Register with a session token: the guest gets an identity.
Bind(w) ==
    LET u == req[w].uid
        n == req[w].name
    IN
    /\ req[w].pc = "write" /\ req[w].op = "bind"
    /\ IF ActiveSession(w) /\ ~ req[w].row.bound /\ identity[n] = None
       THEN /\ identity' = [identity EXCEPT ![n] = u]
            /\ Save(u, BoundRow(req[w].row))
       ELSE UNCHANGED <<identity, guest, token>>
    /\ Finish(w)
    /\ UNCHANGED <<status, live, issued, told>>

\* Register without a token: account and identity in one transaction.
Register(u, n) ==
    /\ status[u] = "unused"
    /\ identity[n] = None
    /\ status' = [status EXCEPT ![u] = "active"]
    /\ identity' = [identity EXCEPT ![n] = u]
    /\ UNCHANGED <<guest, token, live, rowLock, req, issued, told>>

\* Login with a device or a password replaces the token.
OpenSession(w) ==
    LET u == req[w].uid
        fresh == issued[u] + 1
    IN
    /\ req[w].pc = "write"
    /\ \/ req[w].op = "guestLogin" /\ StillGuest(w)
       \/ req[w].op = "passwordLogin" /\ req[w].row.status = "active"
    /\ fresh <= MaxTokens
    /\ issued' = [issued EXCEPT ![u] = fresh]
    /\ Save(u, [req[w].row EXCEPT !.token = fresh])
    /\ live' = live \cup {u}
    /\ IF req[w].op = "guestLogin" THEN Answer(w, u) ELSE UNCHANGED told
    /\ Finish(w)
    /\ UNCHANGED <<status, identity>>

\* Login with a token, or any use of it: the session is extended.
Authenticate(w) ==
    LET u == req[w].uid
    IN
    /\ req[w].pc = "write" /\ req[w].op = "authenticate"
    /\ IF ActiveSession(w)
       THEN /\ Save(u, req[w].row)
            /\ live' = live \cup {u}
       ELSE UNCHANGED <<guest, token, live>>
    /\ Finish(w)
    /\ UNCHANGED <<status, identity, issued, told>>

\* Mutant of LoggedOutRow: everything that signs the player in is cleared.
ForgottenRow(row) == [row EXCEPT !.token = 0, !.guest = None]

LoggedOutRow(row) == [row EXCEPT !.token = 0]

\* Clears the session of the presented token and no other.
Logout(w) ==
    LET u == req[w].uid
    IN
    /\ req[w].pc = "write" /\ req[w].op = "logout"
    /\ IF Current(w)
       THEN /\ Save(u, LoggedOutRow(req[w].row))
            /\ live' = live \ {u}
       ELSE UNCHANGED <<guest, token, live>>
    /\ Finish(w)
    /\ UNCHANGED <<status, identity, issued, told>>

\* Refused logins, failed statements, a server that dies: rolled back.
Abort(w) ==
    /\ req[w].pc # "idle"
    /\ Finish(w)
    /\ UNCHANGED <<tables, issued, told>>

-----------------------------------------------------------------------------
(* Outside of the service. *)

\* Time passes: a session that is not used ends.
Expire(u) ==
    /\ u \in live
    /\ live' = live \ {u}
    /\ UNCHANGED <<status, guest, token, identity, rowLock, req, issued, told>>

\* No code here writes accounts.status again; an operator may, with SQL.
Disable(u) ==
    /\ status[u] = "active"
    /\ rowLock[u] = None
    /\ status' = [status EXCEPT ![u] = "disabled"]
    /\ UNCHANGED <<guest, token, live, identity, rowLock, req, issued, told>>

-----------------------------------------------------------------------------

BeginSome(w) ==
    \/ \E d \in Device : BeginRegisterGuest(w, d) \/ BeginGuestLogin(w, d)
    \/ \E n \in Name : BeginPasswordLogin(w, n)
    \/ \E u \in Uid : \E t \in 1..issued[u] :
           \/ \E op \in {"authenticate", "logout"} :
                  BeginWithToken(w, op, u, t, None)
           \/ \E n \in Name : BeginWithToken(w, "bind", u, t, n)

Continue(w) ==
    \/ FindGuest(w) \/ LockAccount(w) \/ CreateGuest(w) \/ ReuseGuest(w)
    \/ Bind(w) \/ OpenSession(w) \/ Authenticate(w) \/ Logout(w)

Next ==
    \/ \E w \in Worker : BeginSome(w) \/ Continue(w) \/ Abort(w)
    \/ \E u \in Uid : \/ Expire(u) \/ Disable(u)
                      \/ \E n \in Name : Register(u, n)

Spec == Init /\ [][Next]_vars

-----------------------------------------------------------------------------
(* Properties. *)

\* Whoever can be recovered by a device has no identity: binding, logins and
\* registrations that overlap never leave an account open to both.
GuestsAreUnbound == \A u \in Uid : guest[u] # None => ~ Bound(u)

\* An account has one name, although two bindings with the same session may
\* run at once: HasIdentityInTx is read after the row is locked.
OneIdentity ==
    \A m, n \in Name : identity[m] = identity[n] /\ identity[m] # None => m = n

\* A token that was replaced or cleared is never the account's token again: no
\* request writes back a row it read before another one's commit.
RevokedStaysRevoked ==
    [][\A u \in Uid : token'[u] # token[u] =>
           token'[u] = 0 \/ token'[u] > issued[u]]_vars

\* A uid that was answered to a device is not lost to it: the device still
\* recovers that account, or the account has got an identity meanwhile.
GuestsAreNotLost ==
    \A a \in told : guest[a[2]] = a[1] \/ Bound(a[2])

\* A device alone never opens an account that was bound meanwhile, although
\* it was found by the device before the transaction began.
DeviceOpensOnlyGuests ==
    [][\A w \in Worker : LET u == req[w].uid IN
           req[w].op = "guestLogin" /\ req[w].pc = "write"
               /\ token'[u] # token[u]
           => guest[u] = req[w].device /\ ~ Bound(u)]_vars
=============================================================================
