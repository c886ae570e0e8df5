----------------------------- MODULE GatewayProofs -----------------------------
(***************************************************************************)
(* Slots are counted right, tickets are accepted once and answers written  *)
(* in order, and Stop leaves nobody served, for any number of connections  *)
(* and tickets and any limit.                                              *)
(*                                                                         *)
(* Slots: every step moves one handler, and moves the counter exactly if   *)
(* the handler starts or stops to hold a slot.  The handlers that hold one *)
(* are finitely many even if connections never run out.                    *)
(*                                                                         *)
(* Tickets: whoever verifies took the time earlier, so the nonce of an     *)
(* accepted ticket is remembered until the ticket has expired.             *)
(*                                                                         *)
(* Answers: as long as a socket is open, its queue holds all answers from  *)
(* the last one written to the last one given, and at most one kick.       *)
(*                                                                         *)
(* Stop: before the sweep every socket of a handler that may serve is      *)
(* registered; after it drain mode turns the others away.                  *)
(***************************************************************************)
EXTENDS Gateway, FiniteSetTheorems, TLAPS

Ended == {"new", "gone"}
Holders == {c \in Conn : pc[c] \notin Ended}

SlotInv ==
    /\ pc = [c \in Conn |-> pc[c]]
    /\ IsFiniteSet(Holders)
    /\ connections = Cardinality(Holders)
    /\ connections <= MaxConnections

-----------------------------------------------------------------------------
(* What a step of a handler does to its slot. *)

LEMMA SlotTaken ==
    ASSUME SlotInv, NEW c \in Conn, pc[c] \in Ended, connections < MaxConnections,
           NEW label, label \notin Ended, Goto(c, label), connections' = connections + 1
    PROVE  SlotInv'
<1>1. Holders' = Holders \cup {c} /\ c \notin Holders
    BY DEF SlotInv, Goto, Holders
<1>2. IsFiniteSet(Holders') /\ Cardinality(Holders') = Cardinality(Holders) + 1
    BY <1>1, FS_AddElement DEF SlotInv
<1>3. Cardinality(Holders) \in Nat
    BY FS_CardinalityType DEF SlotInv
<1> QED
    BY <1>2, <1>3, GatewayAssumption DEF SlotInv, Goto

LEMMA SlotKept ==
    ASSUME SlotInv, NEW c \in Conn, NEW label, Goto(c, label),
           (pc[c] \in Ended) <=> (label \in Ended), connections' = connections
    PROVE  SlotInv'
<1>1. Holders' = Holders
    BY DEF SlotInv, Goto, Holders
<1> QED
    BY <1>1 DEF SlotInv, Goto

LEMMA SlotReturned ==
    ASSUME SlotInv, NEW c \in Conn, pc[c] \notin Ended, Refuse(c)
    PROVE  SlotInv'
<1>1. Holders' = Holders \ {c} /\ c \in Holders
    BY DEF SlotInv, Refuse, Goto, Holders, Ended
<1>2. IsFiniteSet(Holders') /\ Cardinality(Holders') = Cardinality(Holders) - 1
    BY <1>1, FS_RemoveElement DEF SlotInv
<1>3. Cardinality(Holders) \in Nat
    BY FS_CardinalityType DEF SlotInv
<1> QED
    BY <1>2, <1>3, GatewayAssumption DEF SlotInv, Refuse, Goto

LEMMA SlotsUntouched ==
    ASSUME SlotInv, pc' = pc, connections' = connections
    PROVE  SlotInv'
BY DEF SlotInv, Holders

LEMMA SlotInit == Init => SlotInv
<1> SUFFICES ASSUME Init
             PROVE  SlotInv
    OBVIOUS
<1>1. Holders = {}
    BY DEF Init, Holders, Ended
<1> QED
    BY <1>1, FS_EmptySet, GatewayAssumption DEF Init, SlotInv

LEMMA HandlerSlots ==
    ASSUME SlotInv, NEW c \in Conn, Accept(c) \/ Handler(c) \/ Receive(c) \/ ReadError(c)
    PROVE  SlotInv'
<1> USE DEF Ended
<1>1. CASE Accept(c)
    <2>1. CASE drain \/ connections >= MaxConnections
        BY <1>1, <2>1, SlotKept DEF Accept
    <2>2. CASE ~ (drain \/ connections >= MaxConnections)
        <3>1. connections < MaxConnections
            BY <2>2, FS_CardinalityType, GatewayAssumption DEF SlotInv
        <3> QED
            BY <1>1, <2>2, <3>1, SlotTaken DEF Accept
    <2> QED
        BY <2>1, <2>2
<1>2. CASE Begin(c)
    BY <1>2, SlotKept, SlotReturned DEF Begin
<1>3. CASE Upgrade(c)
    BY <1>3, SlotKept, SlotReturned DEF Upgrade
<1>4. CASE AddSocket(c)
    BY <1>4, SlotKept DEF AddSocket
<1>5. CASE ReadFirst(c)
    BY <1>5, SlotKept DEF ReadFirst, slotVars
<1>6. CASE Verify(c)
    BY <1>6, SlotKept DEF Verify, slotVars
<1>7. CASE CheckDrain(c)
    BY <1>7, SlotKept DEF CheckDrain, slotVars
<1>8. CASE Enter(c)
    BY <1>8, SlotKept DEF Enter, slotVars
<1>9. CASE Answer(c)
    BY <1>9, SlotKept DEF Answer, AnswerNotQueued, slotVars
<1>10. CASE Detach(c)
    BY <1>10, SlotKept DEF Detach, slotVars
<1>11. CASE Leave(c)
    BY <1>11, SlotReturned DEF Leave
<1>12. CASE Receive(c)
    BY <1>12, SlotKept DEF Receive, slotVars
<1>13. CASE ReadError(c)
    BY <1>13, SlotKept DEF ReadError, slotVars
<1> QED
    BY <1>1, <1>2, <1>3, <1>4, <1>5, <1>6, <1>7, <1>8, <1>9, <1>10, <1>11, <1>12, <1>13
       DEF Handler

LEMMA SlotStep == SlotInv /\ [Next]_vars => SlotInv'
<1> SUFFICES ASSUME SlotInv, [Next]_vars
             PROVE  SlotInv'
    OBVIOUS
<1>1. ASSUME NEW c \in Conn, Accept(c) \/ Handler(c) \/ Receive(c) \/ ReadError(c)
      PROVE  SlotInv'
    BY <1>1, HandlerSlots
<1>2. ASSUME NEW c \in Conn, Pump(c) \/ Break(c) \/ Kick(c) \/ CloseKicked(c)
      PROVE  SlotInv'
    BY <1>2, SlotsUntouched DEF Pump, Break, Kick, CloseKicked, slotVars
<1>3. CASE SetDrainMode \/ BeginStop \/ RefuseHandlers \/ Sweep \/ Tick
    BY <1>3, SlotsUntouched DEF SetDrainMode, BeginStop, RefuseHandlers, Sweep, Tick, slotVars
<1>4. CASE UNCHANGED vars
    BY <1>4, SlotsUntouched DEF vars, slotVars
<1> QED
    BY <1>1, <1>2, <1>3, <1>4 DEF Next

\* However requests are refused, upgrades fail, clients are kicked and the
\* server stops: the counter is the number of handlers that hold a slot, and
\* never more than the limit.
THEOREM SlotsStayHeld == Spec => []SlotsAreHeld
<1>1. SlotInv => SlotsAreHeld
    BY DEF SlotInv, SlotsAreHeld, Holders, Ended
<1> QED
    BY <1>1, SlotInit, SlotStep, PTL DEF Spec

-----------------------------------------------------------------------------
(* Tickets. *)

Claim == [ticket : Ticket, now : Nat]

\* Whoever verifies has a claim, received not later than now.
ClaimsReceived ==
    \A c \in Conn : pc[c] = "verify" => claims[c] \in Claim /\ claims[c].now <= clock

\* An accepted ticket is remembered until it has expired.
AcceptedRemembered ==
    \A t \in Ticket : admitted[t] >= 1 => nonces[t] >= Expiry[t]

TicketInv ==
    /\ pc = [c \in Conn |-> pc[c]] /\ claims = [c \in Conn |-> claims[c]]
    /\ clock \in Nat
    /\ nonces \in [Ticket -> Nat] /\ admitted \in [Ticket -> Nat]
    /\ ClaimsReceived /\ AcceptedRemembered /\ TicketAdmitsOnce

LEMMA TicketInit == Init => TicketInv
BY DEF Init, TicketInv, ClaimsReceived, AcceptedRemembered, TicketAdmitsOnce

\* A step that verifies nothing and makes nobody a verifier.
LEMMA TicketsUntouched ==
    ASSUME TicketInv, UNCHANGED ticketVars, clock' \in Nat, clock' >= clock,
           \/ pc' = pc
           \/ \E c \in Conn : \E label : label # "verify" /\ Goto(c, label)
    PROVE  TicketInv'
<1>1. ClaimsReceived'
    <2> SUFFICES ASSUME NEW c \in Conn, pc'[c] = "verify"
                 PROVE  claims[c] \in Claim /\ claims[c].now <= clock'
        BY DEF ClaimsReceived, ticketVars
    <2>1. pc[c] = "verify"
        BY DEF TicketInv, Goto
    <2>2. claims[c] \in Claim /\ claims[c].now <= clock
        BY <2>1 DEF TicketInv, ClaimsReceived
    <2>3. claims[c].now \in Nat
        BY <2>2 DEF Claim
    <2> QED
        BY <2>2, <2>3 DEF TicketInv
<1>2. pc' = [c \in Conn |-> pc'[c]]
    BY DEF TicketInv, Goto
<1> QED
    BY <1>1, <1>2 DEF TicketInv, ticketVars, AcceptedRemembered, TicketAdmitsOnce

LEMMA ReadFirstTickets ==
    ASSUME TicketInv, NEW c \in Conn, ReadFirst(c)
    PROVE  TicketInv'
<1>1. CASE UNCHANGED claims /\ Goto(c, "leave")
    BY <1>1, TicketsUntouched DEF ReadFirst, ticketVars, TicketInv
<1>2. ASSUME NEW t \in Ticket, claims' = [claims EXCEPT ![c] = [ticket |-> t, now |-> clock]],
             Goto(c, "verify")
      PROVE  TicketInv'
    <2>1. ClaimsReceived'
        <3> SUFFICES ASSUME NEW d \in Conn, pc'[d] = "verify"
                     PROVE  claims'[d] \in Claim /\ claims'[d].now <= clock
            BY DEF ClaimsReceived, ReadFirst
        <3>1. CASE d = c
            BY <1>2, <3>1 DEF TicketInv, Claim
        <3>2. CASE d # c
            BY <1>2, <3>2 DEF TicketInv, Goto, ClaimsReceived
        <3> QED
            BY <3>1, <3>2
    <2>2. pc' = [d \in Conn |-> pc'[d]] /\ claims' = [d \in Conn |-> claims'[d]]
        BY <1>2 DEF TicketInv, Goto
    <2> QED
        BY <2>1, <2>2 DEF ReadFirst, TicketInv, AcceptedRemembered, TicketAdmitsOnce
<1> QED
    BY <1>1, <1>2 DEF ReadFirst

LEMMA VerifyTickets ==
    ASSUME TicketInv, NEW c \in Conn, Verify(c)
    PROVE  TicketInv'
<1> DEFINE claim == claims[c]
           t == claim.ticket
<1>1. claim \in Claim /\ claim.now <= clock
    BY DEF TicketInv, ClaimsReceived, Verify
<1>2. t \in Ticket /\ claim.now \in Nat /\ Expiry[t] \in Nat /\ nonces[t] \in Nat
      /\ admitted[t] \in Nat /\ clock \in Nat
    BY <1>1, GatewayAssumption DEF Claim, TicketInv
<1>3. ASSUME NEW label, label # "verify", Goto(c, label)
      PROVE  /\ ClaimsReceived'
             /\ pc' = [d \in Conn |-> pc'[d]] /\ claims' = [d \in Conn |-> claims'[d]]
    <2>1. \A d \in Conn : pc'[d] = "verify" => d # c /\ pc[d] = "verify"
        BY <1>3 DEF TicketInv, Goto
    <2>2. \A d \in Conn : d # c => claims'[d] = claims[d]
        BY DEF TicketInv, Verify
    <2>3. clock' = clock
        BY DEF Verify
    <2>4. ClaimsReceived'
        BY <2>1, <2>2, <2>3 DEF TicketInv, ClaimsReceived
    <2> QED
        BY <1>3, <2>4 DEF TicketInv, Goto, Verify
<1>4. CASE Accepted(claim)
    <2>1. nonces' = [nonces EXCEPT ![t] = clock + NonceTTL(claim)]
          /\ admitted' = [admitted EXCEPT ![t] =
                 IF clock < Expiry[t] THEN admitted[t] + 1 ELSE admitted[t]]
          /\ Goto(c, "verified") /\ clock' = clock
        BY <1>4 DEF Verify
    <2>2. Expiry[t] > claim.now /\ nonces[t] <= clock
        BY <1>4 DEF Accepted
    <2>3. clock + NonceTTL(claim) \in Nat /\ clock + NonceTTL(claim) >= nonces[t]
          /\ clock + NonceTTL(claim) >= Expiry[t]
        BY <1>1, <1>2, <2>2 DEF NonceTTL
    <2>4. clock < Expiry[t] => admitted[t] = 0
        BY <1>2, <2>2 DEF TicketInv, AcceptedRemembered
    <2>5. nonces' \in [Ticket -> Nat] /\ admitted' \in [Ticket -> Nat]
        BY <1>2, <2>1, <2>3 DEF TicketInv
    <2>6. AcceptedRemembered'
        BY <1>2, <2>1, <2>3 DEF TicketInv, AcceptedRemembered
    <2>7. TicketAdmitsOnce'
        BY <1>2, <2>1, <2>4 DEF TicketInv, TicketAdmitsOnce
    <2> QED
        BY <1>2, <1>3, <2>1, <2>5, <2>6, <2>7 DEF TicketInv
<1>5. CASE ~ Accepted(claim)
    <2>1. Goto(c, "leave") /\ UNCHANGED <<nonces, admitted, clock>>
        BY <1>5 DEF Verify
    <2> QED
        BY <1>3, <2>1 DEF TicketInv, AcceptedRemembered, TicketAdmitsOnce
<1> QED
    BY <1>4, <1>5

LEMMA TicketStep == TicketInv /\ [Next]_vars => TicketInv'
<1> SUFFICES ASSUME TicketInv, [Next]_vars
             PROVE  TicketInv'
    OBVIOUS
<1>0. clock \in Nat
    BY DEF TicketInv
<1>1. ASSUME NEW c \in Conn, Verify(c) \/ ReadFirst(c)
      PROVE  TicketInv'
    BY <1>1, VerifyTickets, ReadFirstTickets
<1>2. ASSUME NEW c \in Conn,
             \/ Accept(c) \/ Begin(c) \/ Upgrade(c) \/ AddSocket(c) \/ CheckDrain(c)
             \/ Enter(c) \/ Answer(c) \/ Detach(c) \/ Leave(c) \/ Receive(c) \/ ReadError(c)
      PROVE  TicketInv'
    <2>1. UNCHANGED <<ticketVars, clock>>
        BY <1>2 DEF Accept, Begin, Upgrade, AddSocket, CheckDrain, Enter, Answer, Detach,
                    Leave, Receive, ReadError
    <2>2. \E label : label # "verify" /\ Goto(c, label)
        BY <1>2 DEF Accept, Begin, Upgrade, AddSocket, CheckDrain, Enter, Answer,
                    AnswerNotQueued, Detach, Leave, Receive, ReadError, Refuse
    <2> QED
        BY <1>0, <2>1, <2>2, TicketsUntouched
<1>3. ASSUME NEW c \in Conn, Pump(c) \/ Break(c) \/ Kick(c) \/ CloseKicked(c)
      PROVE  TicketInv'
    BY <1>0, <1>3, TicketsUntouched DEF Pump, Break, Kick, CloseKicked
<1>4. CASE SetDrainMode \/ BeginStop \/ RefuseHandlers \/ Sweep
    BY <1>0, <1>4, TicketsUntouched DEF SetDrainMode, BeginStop, RefuseHandlers, Sweep
<1>5. CASE Tick
    BY <1>0, <1>5, TicketsUntouched DEF Tick
<1>6. CASE UNCHANGED vars
    BY <1>0, <1>6, TicketsUntouched DEF vars
<1> QED
    BY <1>1, <1>2, <1>3, <1>4, <1>5, <1>6 DEF Next, Handler

\* However many handlers verify the same ticket at once, and however late the
\* nonce is looked at after the expiry was: one of them is accepted while the
\* ticket is valid.
THEOREM TicketsAdmitOnce == Spec => []TicketAdmitsOnce
<1>1. TicketInv => TicketAdmitsOnce
    BY DEF TicketInv
<1> QED
    BY <1>1, TicketInit, TicketStep, PTL DEF Spec

-----------------------------------------------------------------------------
(* Answers. *)

\* Nothing is queued before the upgrade.
Early == {"new", "slot", "begun"}

Outbox == [queue : Seq(Nat), answered : Nat, written : Nat]

\* How many of the frames before the i-th are a kick.
KicksBefore(q, i) == IF \E j \in 1 .. Len(q) : j < i /\ q[j] = KickFrame THEN 1 ELSE 0

\* The queue holds the answers from the last one that was written to the last
\* one that was given, and at most one kick among them.
InOrder(o) ==
    /\ \A i \in 1 .. Len(o.queue) :
           o.queue[i] = KickFrame \/ o.queue[i] + KicksBefore(o.queue, i) = o.written + i
    /\ \A i, j \in 1 .. Len(o.queue) :
           o.queue[i] = KickFrame /\ o.queue[j] = KickFrame => i = j
    /\ o.answered + KicksBefore(o.queue, Len(o.queue) + 1) = o.written + Len(o.queue)

KickQueued(o) == \E j \in 1 .. Len(o.queue) : o.queue[j] = KickFrame

\* Of a socket that is open.  What is queued for a broken one is not written.
OpenInOrder(c) ==
    link[c] = "open" => InOrder(sent[c]) /\ (KickQueued(sent[c]) => kicked[c])

AnswerInv ==
    /\ pc = [c \in Conn |-> pc[c]] /\ link = [c \in Conn |-> link[c]]
    /\ kicked = [c \in Conn |-> kicked[c]]
    /\ sent \in [Conn -> Outbox]
    /\ \A c \in Conn : pc[c] \in Early => sent[c] = NothingSent /\ c \notin clients
    /\ \A c \in Conn : OpenInOrder(c)

\* Numbers: one more before, one fewer after.
LEMMA Shift ==
    ASSUME NEW x \in Int, NEW k \in Int, NEW l \in Int, NEW v \in Int, NEW w \in Int,
           NEW n \in Int, x + k = v + n, w + k = v + 1 + l
    PROVE  x + l = w + (n - 1)
OBVIOUS

LEMMA Increment ==
    ASSUME NEW x \in Int, NEW k \in Int, NEW v \in Int, NEW n \in Int, x + k = v + n
    PROVE  (x + 1) + k = v + (n + 1)
OBVIOUS

\* The first frame is the answer after the last one that was written, and the
\* others follow it.
LEMMA PumpedInOrder ==
    ASSUME NEW o \in Outbox, InOrder(o), o.queue # <<>>,
           NEW w \in Nat, w = IF Head(o.queue) = KickFrame THEN o.written ELSE Head(o.queue)
    PROVE  /\ w <= o.written + 1
           /\ InOrder([o EXCEPT !.queue = Tail(@), !.written = w])
           /\ KickQueued([o EXCEPT !.queue = Tail(@), !.written = w]) => KickQueued(o)
<1>1. PICK q : q = o.queue
    OBVIOUS
<1>2. PICK p : p = [o EXCEPT !.queue = Tail(@), !.written = w]
    OBVIOUS
<1>3. /\ q \in Seq(Nat) /\ q # <<>> /\ o.written \in Nat /\ o.answered \in Nat
      /\ p.queue = Tail(q) /\ p.written = w /\ p.answered = o.answered
    BY <1>1, <1>2 DEF Outbox
<1>4. /\ Len(q) \in Nat \ {0} /\ Head(q) = q[1] /\ Len(Tail(q)) = Len(q) - 1
      /\ \A i \in 1 .. Len(q) - 1 : Tail(q)[i] = q[i + 1]
      /\ \A i \in 1 .. Len(q) : q[i] \in Nat
    BY <1>3
<1>5. /\ \A i \in 1 .. Len(q) : q[i] = KickFrame \/ q[i] + KicksBefore(q, i) = o.written + i
      /\ \A i, j \in 1 .. Len(q) : q[i] = KickFrame /\ q[j] = KickFrame => i = j
      /\ o.answered + KicksBefore(q, Len(q) + 1) = o.written + Len(q)
    BY <1>1 DEF InOrder
<1>6. KicksBefore(q, 1) = 0
    BY <1>4 DEF KicksBefore
<1>7. /\ q[1] = KickFrame => w = o.written
      /\ q[1] # KickFrame => w = o.written + 1 /\ q[1] = w
    <2>1. w = IF q[1] = KickFrame THEN o.written ELSE q[1]
        BY <1>1, <1>4
    <2>2. q[1] = KickFrame \/ q[1] + 0 = o.written + 1
        BY <1>4, <1>5, <1>6
    <2>3. q[1] \in Nat
        BY <1>4
    <2> QED
        BY <2>1, <2>2, <2>3
<1>8. ASSUME NEW i \in 1 .. Len(q)
      PROVE  w + KicksBefore(q, i + 1) = o.written + 1 + KicksBefore(Tail(q), i)
    <2>1. CASE q[1] = KickFrame
        <3>1. KicksBefore(q, i + 1) = 1
            BY <1>4, <2>1 DEF KicksBefore
        <3>2. KicksBefore(Tail(q), i) = 0
            <4> SUFFICES ASSUME NEW j \in 1 .. Len(q) - 1, Tail(q)[j] = KickFrame PROVE FALSE
                BY <1>4 DEF KicksBefore
            <4>1. j + 1 \in 1 .. Len(q) /\ q[j + 1] = KickFrame /\ 1 \in 1 .. Len(q)
                BY <1>4
            <4>2. j + 1 = 1
                BY <1>5, <2>1, <4>1
            <4> QED
                BY <4>2
        <3> QED
            BY <1>3, <1>7, <2>1, <3>1, <3>2
    <2>2. CASE q[1] # KickFrame
        <3>1. KicksBefore(q, i + 1) = KicksBefore(Tail(q), i)
            <4>1. ASSUME NEW j \in 1 .. Len(q), j < i + 1, q[j] = KickFrame
                  PROVE  j - 1 \in 1 .. Len(Tail(q)) /\ j - 1 < i /\ Tail(q)[j - 1] = KickFrame
                <5>1. j # 1
                    BY <2>2, <4>1
                <5>2. j - 1 \in 1 .. Len(q) - 1 /\ (j - 1) + 1 = j
                    BY <1>4, <5>1
                <5> QED
                    BY <1>4, <4>1, <5>2
            <4>2. ASSUME NEW j \in 1 .. Len(Tail(q)), j < i, Tail(q)[j] = KickFrame
                  PROVE  j + 1 \in 1 .. Len(q) /\ j + 1 < i + 1 /\ q[j + 1] = KickFrame
                BY <1>4, <4>2
            <4> QED
                BY <4>1, <4>2 DEF KicksBefore
        <3>2. KicksBefore(Tail(q), i) \in Nat
            BY DEF KicksBefore
        <3> QED
            BY <1>3, <1>7, <2>2, <3>1, <3>2
    <2> QED
        BY <2>1, <2>2
<1>9. \A i \in Nat : KicksBefore(q, i) \in Nat /\ KicksBefore(Tail(q), i) \in Nat
    BY DEF KicksBefore
<1>10. InOrder(p)
    <2>1. ASSUME NEW i \in 1 .. Len(Tail(q))
          PROVE  Tail(q)[i] = KickFrame \/ Tail(q)[i] + KicksBefore(Tail(q), i) = w + i
        <3>1. i \in 1 .. Len(q) /\ i + 1 \in 1 .. Len(q) /\ Tail(q)[i] = q[i + 1]
            BY <1>4
        <3>2. q[i + 1] = KickFrame
              \/ q[i + 1] + KicksBefore(q, i + 1) = o.written + (i + 1)
            BY <1>5, <3>1
        <3>3. w + KicksBefore(q, i + 1) = o.written + 1 + KicksBefore(Tail(q), i)
            BY <1>8, <3>1
        <3>4. i \in Nat /\ i + 1 \in Nat /\ q[i + 1] \in Nat
            BY <1>4, <3>1
        <3>5. KicksBefore(q, i + 1) \in Nat /\ KicksBefore(Tail(q), i) \in Nat
            BY <1>9, <3>4
        <3>6. o.written \in Nat /\ w \in Nat
            BY <1>3
        <3>7. q[i + 1] + KicksBefore(q, i + 1) = o.written + (i + 1)
              => q[i + 1] + KicksBefore(Tail(q), i) = w + i
            <4>1. PICK x \in Int, k \in Int, l \in Int, v \in Int :
                      /\ x = q[i + 1] /\ k = KicksBefore(q, i + 1)
                      /\ l = KicksBefore(Tail(q), i) /\ v = o.written
                BY <3>4, <3>5, <3>6
            <4>2. (i + 1) - 1 = i /\ i + 1 \in Int /\ w \in Int
                BY <3>4
            <4>3. PICK n \in Int : n = i + 1
                BY <4>2
            <4>4. w + k = v + 1 + l
                BY <3>3, <4>1
            <4>5. ASSUME x + k = v + n PROVE x + l = w + (n - 1)
                <5>1. PICK m \in Int : m = w
                    BY <4>2
                <5>2. m + k = v + 1 + l
                    BY <4>4, <5>1
                <5>3. x + l = m + (n - 1)
                    BY <4>5, <5>2, Shift
                <5> QED
                    BY <5>1, <5>3
            <4> QED
                BY <4>1, <4>2, <4>3, <4>5
        <3> QED
            BY <3>1, <3>2, <3>7
    <2>2. ASSUME NEW i \in 1 .. Len(Tail(q)), NEW j \in 1 .. Len(Tail(q)),
                 Tail(q)[i] = KickFrame, Tail(q)[j] = KickFrame
          PROVE  i = j
        <3>1. /\ i + 1 \in 1 .. Len(q) /\ q[i + 1] = KickFrame
              /\ j + 1 \in 1 .. Len(q) /\ q[j + 1] = KickFrame
            BY <1>4, <2>2
        <3>2. i + 1 = j + 1
            BY <1>5, <3>1
        <3> QED
            BY <3>2
    <2>3. o.answered + KicksBefore(Tail(q), Len(Tail(q)) + 1) = w + Len(Tail(q))
        <3>1. /\ Len(q) \in 1 .. Len(q) /\ Len(Tail(q)) + 1 = Len(q)
              /\ Len(q) \in Nat /\ Len(q) + 1 \in Nat
            BY <1>4
        <3>2. w + KicksBefore(q, Len(q) + 1) = o.written + 1 + KicksBefore(Tail(q), Len(q))
            BY <1>8, <3>1
        <3>3. /\ KicksBefore(q, Len(q) + 1) \in Nat
              /\ KicksBefore(Tail(q), Len(q)) \in Nat
            BY <1>9, <3>1
        <3>4. o.answered + KicksBefore(q, Len(q) + 1) = o.written + Len(q)
            BY <1>5
        <3>5. o.answered + KicksBefore(Tail(q), Len(q)) = w + (Len(q) - 1)
            <4>1. PICK x \in Int, v \in Int : x = o.answered /\ v = o.written
                BY <1>3
            <4>2. PICK k \in Int, l \in Int :
                      k = KicksBefore(q, Len(q) + 1) /\ l = KicksBefore(Tail(q), Len(q))
                BY <3>3
            <4>3. PICK n \in Int : n = Len(q)
                BY <3>1
            <4>4. x + k = v + n
                BY <3>4, <4>1, <4>2, <4>3
            <4>5. w + k = v + 1 + l
                BY <3>2, <4>1, <4>2
            <4>6. x + l = w + (n - 1)
                BY <4>4, <4>5, Shift
            <4> QED
                BY <4>1, <4>2, <4>3, <4>6
        <3> QED
            BY <1>4, <3>1, <3>5
    <2> QED
        BY <1>3, <2>1, <2>2, <2>3 DEF InOrder
<1>11. KickQueued(p) => KickQueued(o)
    <2> SUFFICES ASSUME NEW j \in 1 .. Len(Tail(q)), Tail(q)[j] = KickFrame
                 PROVE  \E k \in 1 .. Len(q) : q[k] = KickFrame
        BY <1>1, <1>3 DEF KickQueued
    <2>1. j + 1 \in 1 .. Len(q) /\ q[j + 1] = KickFrame
        BY <1>4
    <2> QED
        BY <2>1
<1>12. w <= o.written + 1
    BY <1>1, <1>3, <1>4, <1>7
<1> QED
    BY <1>2, <1>10, <1>11, <1>12

\* A frame is appended: the next answer, or the only kick.
LEMMA AppendedInOrder ==
    ASSUME NEW o \in Outbox, InOrder(o), NEW f \in Nat, NEW a \in Nat,
           \/ f = o.answered + 1 /\ a = o.answered + 1
           \/ f = KickFrame /\ a = o.answered /\ ~ KickQueued(o)
    PROVE  /\ InOrder([o EXCEPT !.queue = Append(@, f), !.answered = a])
           /\ KickQueued([o EXCEPT !.queue = Append(@, f), !.answered = a]) =>
                  f = KickFrame \/ KickQueued(o)
<1>1. PICK q : q = o.queue
    OBVIOUS
<1>2. PICK p : p = [o EXCEPT !.queue = Append(@, f), !.answered = a]
    OBVIOUS
<1>3. PICK r : r = Append(q, f)
    OBVIOUS
<1>4. /\ q \in Seq(Nat) /\ o.written \in Nat /\ o.answered \in Nat
      /\ p.queue = r /\ p.written = o.written /\ p.answered = a
    BY <1>1, <1>2, <1>3 DEF Outbox
<1>5. PICK n \in Nat : n = Len(q)
    BY <1>4
<1>6. /\ Len(r) = n + 1 /\ r[n + 1] = f
      /\ \A i \in 1 .. n : r[i] = q[i] /\ q[i] \in Nat
    BY <1>3, <1>4, <1>5
<1>7. /\ \A i \in 1 .. n : q[i] = KickFrame \/ q[i] + KicksBefore(q, i) = o.written + i
      /\ \A i, j \in 1 .. n : q[i] = KickFrame /\ q[j] = KickFrame => i = j
      /\ o.answered + KicksBefore(q, n + 1) = o.written + n
    BY <1>1, <1>5 DEF InOrder
<1>8. \A i \in 1 .. n + 1 : KicksBefore(r, i) = KicksBefore(q, i)
    <2> TAKE i \in 1 .. n + 1
    <2>1. (\E j \in 1 .. n + 1 : j < i /\ r[j] = KickFrame)
          <=> (\E j \in 1 .. n : j < i /\ q[j] = KickFrame)
        <3>1. \A j \in 1 .. n + 1 : j < i => j \in 1 .. n
            BY <1>5
        <3>2. \A j \in 1 .. n : j \in 1 .. n + 1
            BY <1>5
        <3> QED
            BY <1>6, <3>1, <3>2
    <2> QED
        BY <1>5, <1>6, <2>1 DEF KicksBefore
<1>9. KicksBefore(q, n + 1) \in Nat
    BY DEF KicksBefore
<1>10. CASE f = o.answered + 1 /\ a = o.answered + 1
    <2>1. f # KickFrame
        BY <1>4, <1>10 DEF KickFrame
    <2>2. \A j \in 1 .. n + 1 : r[j] = KickFrame => j \in 1 .. n /\ q[j] = KickFrame
        <3>1. \A j \in 1 .. n + 1 : j \in 1 .. n \/ j = n + 1
            BY <1>5
        <3> QED
            BY <1>6, <2>1, <3>1
    <2>3. KicksBefore(r, n + 2) = KicksBefore(q, n + 1)
        <3>1. (\E j \in 1 .. n + 1 : j < n + 2 /\ r[j] = KickFrame)
              <=> (\E j \in 1 .. n : j < n + 1 /\ q[j] = KickFrame)
            <4>1. \A j \in 1 .. n : j \in 1 .. n + 1 /\ j < n + 1 /\ j < n + 2
                BY <1>5
            <4> QED
                BY <1>6, <2>2, <4>1
        <3> QED
            BY <1>5, <1>6, <3>1 DEF KicksBefore
    <2>4. ASSUME NEW i \in 1 .. n + 1
          PROVE  r[i] = KickFrame \/ r[i] + KicksBefore(r, i) = o.written + i
        <3>1. CASE i = n + 1
            <4>1. KicksBefore(r, i) = KicksBefore(q, n + 1) /\ r[i] = o.answered + 1
                BY <1>6, <1>8, <1>10, <3>1
            <4>2. o.answered + KicksBefore(q, n + 1) = o.written + n
                BY <1>7
            <4>3. PICK x \in Int, k \in Int, v \in Int :
                      x = o.answered /\ k = KicksBefore(q, n + 1) /\ v = o.written
                BY <1>4, <1>9
            <4>4. x + k = v + n /\ n \in Int
                BY <4>2, <4>3
            <4>5. (x + 1) + k = v + (n + 1)
                BY <4>4, Increment
            <4> QED
                BY <3>1, <4>1, <4>3, <4>5
        <3>2. CASE i \in 1 .. n
            BY <1>6, <1>7, <1>8, <3>2
        <3> QED
            BY <1>5, <3>1, <3>2
    <2>5. \A i, j \in 1 .. n + 1 : r[i] = KickFrame /\ r[j] = KickFrame => i = j
        BY <1>7, <2>2
    <2>6. Len(r) + 1 = n + 2
        BY <1>5, <1>6
    <2>7. a + KicksBefore(r, Len(r) + 1) = o.written + Len(r)
        <3>1. o.answered + KicksBefore(q, n + 1) = o.written + n
            BY <1>7
        <3>2. a + KicksBefore(r, n + 2) = o.written + (n + 1)
            <4>1. PICK x \in Int, k \in Int, v \in Int :
                      x = o.answered /\ k = KicksBefore(q, n + 1) /\ v = o.written
                BY <1>4, <1>9
            <4>2. x + k = v + n /\ n \in Int
                BY <3>1, <4>1
            <4>3. (x + 1) + k = v + (n + 1)
                BY <4>2, Increment
            <4> QED
                BY <1>10, <2>3, <4>1, <4>3
        <3> QED
            BY <1>6, <2>6, <3>2
    <2>8. InOrder(p)
        BY <1>4, <1>6, <2>4, <2>5, <2>7 DEF InOrder
    <2>9. KickQueued(p) => KickQueued(o)
        BY <1>1, <1>4, <1>5, <1>6, <2>2 DEF KickQueued
    <2> QED
        BY <1>2, <2>8, <2>9
<1>11. CASE f = KickFrame /\ a = o.answered /\ ~ KickQueued(o)
    <2>1. \A j \in 1 .. n : q[j] # KickFrame
        BY <1>1, <1>5, <1>11 DEF KickQueued
    <2>2. \A j \in 1 .. n + 1 : r[j] = KickFrame => j = n + 1
        <3>1. \A j \in 1 .. n + 1 : j \in 1 .. n \/ j = n + 1
            BY <1>5
        <3> QED
            BY <1>6, <2>1, <3>1
    <2>3. KicksBefore(q, n + 1) = 0
        BY <1>5, <2>1 DEF KicksBefore
    <2>4. KicksBefore(r, n + 2) = 1
        BY <1>5, <1>6, <1>11 DEF KicksBefore
    <2>5. ASSUME NEW i \in 1 .. n + 1
          PROVE  r[i] = KickFrame \/ r[i] + KicksBefore(r, i) = o.written + i
        <3>1. CASE i = n + 1
            BY <1>6, <1>11, <3>1
        <3>2. CASE i \in 1 .. n
            BY <1>6, <1>7, <1>8, <3>2
        <3> QED
            BY <1>5, <3>1, <3>2
    <2>6. \A i, j \in 1 .. n + 1 : r[i] = KickFrame /\ r[j] = KickFrame => i = j
        BY <2>2
    <2>7. Len(r) + 1 = n + 2
        BY <1>5, <1>6
    <2>8. a + KicksBefore(r, Len(r) + 1) = o.written + Len(r)
        <3>1. o.answered + KicksBefore(q, n + 1) = o.written + n
            BY <1>7
        <3>2. a + KicksBefore(r, n + 2) = o.written + (n + 1)
            BY <1>4, <1>11, <2>3, <2>4, <3>1
        <3> QED
            BY <1>6, <2>7, <3>2
    <2>9. InOrder(p)
        BY <1>4, <1>6, <2>5, <2>6, <2>8 DEF InOrder
    <2> QED
        BY <1>2, <1>11, <2>9
<1> QED
    BY <1>10, <1>11

LEMMA AnswerInit == Init => AnswerInv
<1> SUFFICES ASSUME Init PROVE AnswerInv
    OBVIOUS
<1>1. NothingSent \in Outbox
    BY DEF NothingSent, Outbox
<1> QED
    BY <1>1 DEF Init, AnswerInv, OpenInOrder

\* A step that queues and writes nothing, opens no socket and knows no client
\* before the upgrade.
LEMMA QueuesUntouched ==
    ASSUME AnswerInv, UNCHANGED <<sent, kicked>>,
           link' = [c \in Conn |-> link'[c]], pc' = [c \in Conn |-> pc'[c]],
           \A c \in Conn : link'[c] = "open" => link[c] = "open",
           \A c \in Conn : pc'[c] \in Early => pc[c] \in Early /\ (c \in clients' => c \in clients)
    PROVE  AnswerInv'
<1>1. \A c \in Conn : OpenInOrder(c)'
    BY DEF AnswerInv, OpenInOrder
<1>2. \A c \in Conn : pc'[c] \in Early => sent'[c] = NothingSent /\ c \notin clients'
    BY DEF AnswerInv
<1> QED
    BY <1>1, <1>2 DEF AnswerInv

\* A step that changes one queue.
LEMMA QueueChanged ==
    ASSUME AnswerInv, NEW c \in Conn, NEW o \in Outbox, sent' = [sent EXCEPT ![c] = o],
           clients' = clients, pc[c] \notin Early,
           link' = [d \in Conn |-> link'[d]], pc' = [d \in Conn |-> pc'[d]],
           kicked' = [d \in Conn |-> kicked'[d]],
           \A d \in Conn : link'[d] = "open" => link[d] = "open",
           \A d \in Conn : pc'[d] \in Early => pc[d] \in Early,
           \A d \in Conn : d # c => kicked'[d] = kicked[d],
           link'[c] = "open" => InOrder(o) /\ (KickQueued(o) => kicked'[c])
    PROVE  AnswerInv'
<1>1. \A d \in Conn : sent'[d] = IF d = c THEN o ELSE sent[d]
    BY DEF AnswerInv
<1>2. \A d \in Conn : OpenInOrder(d)'
    BY <1>1 DEF AnswerInv, OpenInOrder
<1>3. \A d \in Conn : pc'[d] \in Early => sent'[d] = NothingSent /\ d \notin clients'
    BY <1>1 DEF AnswerInv
<1>4. sent' \in [Conn -> Outbox]
    BY DEF AnswerInv
<1> QED
    BY <1>2, <1>3, <1>4 DEF AnswerInv

LEMMA AnswerKeepsOrder ==
    ASSUME AnswerInv, NEW c \in Conn, Answer(c)
    PROVE  AnswerInv' /\ \A d \in Conn : sent'[d].written = sent[d].written
<1>1. CASE HasRoom(c) /\ Goto(c, "serving") /\ UNCHANGED link
           /\ sent' = [sent EXCEPT ![c].queue = Append(@, sent[c].answered + 1),
                                   ![c].answered = @ + 1]
    <2>1. PICK o : o = sent[c]
        OBVIOUS
    <2>2. PICK p : p = [o EXCEPT !.queue = Append(@, o.answered + 1), !.answered = o.answered + 1]
        OBVIOUS
    <2>3. o \in Outbox /\ o.answered \in Nat /\ o.answered + 1 \in Nat /\ o.queue \in Seq(Nat)
        BY <2>1 DEF AnswerInv, Outbox
    <2>4. p \in Outbox /\ p.written = o.written
        <3>1. Append(o.queue, o.answered + 1) \in Seq(Nat)
            BY <2>3
        <3> QED
            BY <2>2, <2>3, <3>1 DEF Outbox
    <2>5. sent' = [sent EXCEPT ![c] = p]
        BY <1>1, <2>1, <2>2, <2>3 DEF AnswerInv, Outbox
    <2>6. ASSUME link[c] = "open" PROVE InOrder(p) /\ (KickQueued(p) => kicked[c])
        <3>1. InOrder(o) /\ (KickQueued(o) => kicked[c])
            BY <2>1, <2>6 DEF AnswerInv, OpenInOrder
        <3>2. o.answered + 1 # KickFrame
            BY <2>3 DEF KickFrame
        <3>3. InOrder(p) /\ (KickQueued(p) => o.answered + 1 = KickFrame \/ KickQueued(o))
            BY <2>2, <2>3, <3>1, AppendedInOrder
        <3> QED
            BY <3>1, <3>2, <3>3
    <2>7. pc[c] \notin Early /\ clients' = clients /\ kicked' = kicked
        BY DEF Answer, Early
    <2>8. /\ pc' = [d \in Conn |-> pc'[d]]
          /\ \A d \in Conn : pc'[d] \in Early => pc[d] \in Early
        BY <1>1 DEF Goto, AnswerInv, Early
    <2>9. AnswerInv'
        BY <1>1, <2>4, <2>5, <2>6, <2>7, <2>8, QueueChanged DEF AnswerInv
    <2> QED
        BY <2>1, <2>4, <2>5, <2>9 DEF AnswerInv
<1>2. CASE AnswerNotQueued(c)
    BY <1>2, QueuesUntouched DEF Answer, AnswerNotQueued, AnswerInv, Goto, CloseClients, Early
<1> QED
    BY <1>1, <1>2 DEF Answer

LEMMA KickKeepsOrder ==
    ASSUME AnswerInv, NEW c \in Conn, Kick(c)
    PROVE  AnswerInv' /\ \A d \in Conn : sent'[d].written = sent[d].written
<1>1. c \in clients /\ ~ kicked[c] /\ pc' = pc /\ clients' = clients
    BY DEF Kick
<1>2. CASE HasRoom(c)
    <2>1. /\ sent' = [sent EXCEPT ![c].queue = Append(@, KickFrame)]
          /\ kicked' = [kicked EXCEPT ![c] = TRUE] /\ link' = link
        BY <1>2 DEF Kick
    <2>2. PICK o : o = sent[c]
        OBVIOUS
    <2>3. o \in Outbox /\ o.answered \in Nat /\ o.queue \in Seq(Nat) /\ KickFrame \in Nat
        BY <2>2 DEF AnswerInv, Outbox, KickFrame
    <2>4. PICK p : p = [o EXCEPT !.queue = Append(@, KickFrame), !.answered = o.answered]
        OBVIOUS
    <2>5. p \in Outbox /\ p.written = o.written
        <3>1. Append(o.queue, KickFrame) \in Seq(Nat)
            BY <2>3
        <3> QED
            BY <2>3, <2>4, <3>1 DEF Outbox
    <2>6. p = [o EXCEPT !.queue = Append(@, KickFrame)]
        BY <2>3, <2>4 DEF Outbox
    <2>7. sent' = [sent EXCEPT ![c] = p]
        BY <2>1, <2>2, <2>6 DEF AnswerInv
    <2>8. ASSUME link[c] = "open" PROVE InOrder(p)
        <3>1. InOrder(o) /\ ~ KickQueued(o)
            BY <1>1, <2>2, <2>8 DEF AnswerInv, OpenInOrder
        <3> QED
            BY <2>3, <2>4, <3>1, AppendedInOrder
    <2>9. /\ kicked' = [d \in Conn |-> kicked'[d]] /\ kicked'[c]
          /\ \A d \in Conn : d # c => kicked'[d] = kicked[d]
        BY <2>1 DEF AnswerInv
    <2>10. pc[c] \notin Early
        BY <1>1 DEF AnswerInv
    <2>11. /\ link' = [d \in Conn |-> link'[d]] /\ pc' = [d \in Conn |-> pc'[d]]
           /\ \A d \in Conn : link'[d] = "open" => link[d] = "open"
           /\ \A d \in Conn : pc'[d] \in Early => pc[d] \in Early
           /\ link'[c] = "open" => InOrder(p) /\ (KickQueued(p) => kicked'[c])
        BY <1>1, <2>1, <2>8, <2>9 DEF AnswerInv
    <2>12. AnswerInv'
        BY <1>1, <2>5, <2>7, <2>9, <2>10, <2>11, QueueChanged
    <2> QED
        BY <2>2, <2>5, <2>7, <2>12 DEF AnswerInv
<1>3. CASE ~ HasRoom(c)
    BY <1>1, <1>3, QueuesUntouched DEF Kick, AnswerInv, CloseClients
<1> QED
    BY <1>2, <1>3

\* What is written to an open socket is the next answer, or a kick.
LEMMA PumpKeepsOrder ==
    ASSUME AnswerInv, NEW c \in Conn, Pump(c)
    PROVE  AnswerInv' /\ \A d \in Conn : sent'[d].written <= sent[d].written + 1
<1>1. PICK o : o = sent[c]
    OBVIOUS
<1>2. o \in Outbox /\ o.queue \in Seq(Nat) /\ o.written \in Nat /\ o.answered \in Nat
    BY <1>1 DEF AnswerInv, Outbox
<1>3. o.queue # <<>> /\ link[c] \in {"open", "broken"}
      /\ pc' = pc /\ clients' = clients /\ kicked' = kicked
    BY <1>1 DEF Pump
<1>4. Head(o.queue) \in Nat /\ Tail(o.queue) \in Seq(Nat)
    BY <1>2, <1>3
<1>5. PICK w \in Nat : w = IF Head(o.queue) = KickFrame \/ link[c] = "broken"
                           THEN o.written ELSE Head(o.queue)
    BY <1>2, <1>4
<1>6. PICK p : p = [o EXCEPT !.queue = Tail(@), !.written = w]
    OBVIOUS
<1>7. p \in Outbox /\ p.written = w
    BY <1>2, <1>4, <1>6 DEF Outbox
<1>8. sent' = [sent EXCEPT ![c] = p]
    <2>1. sent' = [sent EXCEPT ![c].queue = Tail(@), ![c].written = w]
        BY <1>1, <1>2, <1>5 DEF Pump, AnswerInv, Outbox
    <2> QED
        BY <1>1, <1>2, <1>6, <2>1 DEF AnswerInv, Outbox
<1>9. pc[c] \notin Early
    BY <1>1, <1>3 DEF AnswerInv, NothingSent
<1>10. \A d \in Conn : sent'[d].written = IF d = c THEN w ELSE sent[d].written
    BY <1>7, <1>8 DEF AnswerInv
<1>11. \A d \in Conn : sent[d].written \in Nat
    BY DEF AnswerInv, Outbox
<1>12. CASE link[c] = "open"
    <2>1. link' = link
        BY <1>12 DEF Pump
    <2>2. InOrder(o) /\ (KickQueued(o) => kicked[c])
        BY <1>1, <1>12 DEF AnswerInv, OpenInOrder
    <2>3. w = IF Head(o.queue) = KickFrame THEN o.written ELSE Head(o.queue)
        BY <1>5, <1>12
    <2>4. w <= o.written + 1 /\ InOrder(p) /\ (KickQueued(p) => KickQueued(o))
        BY <1>2, <1>3, <1>6, <2>2, <2>3, PumpedInOrder
    <2>5. AnswerInv'
        BY <1>3, <1>7, <1>8, <1>9, <2>1, <2>2, <2>4, QueueChanged DEF AnswerInv
    <2> QED
        BY <1>1, <1>10, <1>11, <2>4, <2>5
<1>13. CASE link[c] = "broken"
    <2>1. link' = CloseClients({c})
        BY <1>13 DEF Pump
    <2>2. /\ link' = [d \in Conn |-> link'[d]] /\ link'[c] = "closed"
          /\ \A d \in Conn : link'[d] = "open" => link[d] = "open"
        BY <2>1 DEF CloseClients, AnswerInv
    <2>3. AnswerInv'
        BY <1>3, <1>7, <1>8, <1>9, <2>2, QueueChanged DEF AnswerInv
    <2>4. w = o.written
        BY <1>5, <1>13
    <2> QED
        BY <1>1, <1>10, <1>11, <2>3, <2>4
<1> QED
    BY <1>3, <1>12, <1>13

LEMMA LeaveKeepsOrder ==
    ASSUME AnswerInv, NEW c \in Conn, Leave(c)
    PROVE  AnswerInv' /\ \A d \in Conn : sent'[d].written <= sent[d].written + 1
<1>1. /\ pc[c] = "leave" /\ pc' = [pc EXCEPT ![c] = "gone"] /\ link' = CloseClients({c})
      /\ sent' = [sent EXCEPT ![c] = NothingSent]
      /\ kicked' = [kicked EXCEPT ![c] = FALSE] /\ clients' = clients
    BY DEF Leave, Refuse, Goto
<1>2. NothingSent \in Outbox /\ NothingSent.written = 0
    BY DEF NothingSent, Outbox
<1>3. /\ link' = [d \in Conn |-> link'[d]] /\ link'[c] = "closed"
      /\ \A d \in Conn : link'[d] = "open" => link[d] = "open"
    BY <1>1 DEF CloseClients, AnswerInv
<1>4. /\ pc' = [d \in Conn |-> pc'[d]] /\ pc[c] \notin Early
      /\ \A d \in Conn : pc'[d] \in Early => pc[d] \in Early
    BY <1>1 DEF AnswerInv, Early
<1>5. /\ kicked' = [d \in Conn |-> kicked'[d]]
      /\ \A d \in Conn : d # c => kicked'[d] = kicked[d]
    BY <1>1 DEF AnswerInv
<1>6. AnswerInv'
    BY <1>1, <1>2, <1>3, <1>4, <1>5, QueueChanged
<1>7. \A d \in Conn : sent'[d].written = IF d = c THEN 0 ELSE sent[d].written
    BY <1>1, <1>2 DEF AnswerInv
<1>8. \A d \in Conn : sent[d].written \in Nat
    BY DEF AnswerInv, Outbox
<1> QED
    BY <1>6, <1>7, <1>8

\* The upgrade opens a socket for which nothing is queued.
LEMMA UpgradeKeepsOrder ==
    ASSUME AnswerInv, NEW c \in Conn, Upgrade(c)
    PROVE  AnswerInv'
<1>1. pc[c] = "begun" /\ UNCHANGED <<sent, kicked, clients>>
    BY DEF Upgrade
<1>2. CASE Refuse(c) /\ UNCHANGED link
    BY <1>1, <1>2, QueuesUntouched DEF Refuse, Goto, AnswerInv, Early
<1>3. CASE Goto(c, "upgraded") /\ link' = [link EXCEPT ![c] = "open"]
    <2>1. /\ pc' = [d \in Conn |-> pc'[d]] /\ link' = [d \in Conn |-> link'[d]]
          /\ \A d \in Conn : pc'[d] \in Early => pc[d] \in Early
          /\ \A d \in Conn : d # c => link'[d] = link[d]
        BY <1>3 DEF Goto, AnswerInv, Early
    <2>2. sent[c] = NothingSent
        BY <1>1 DEF AnswerInv, Early
    <2>3. InOrder(NothingSent) /\ ~ KickQueued(NothingSent)
        BY DEF NothingSent, InOrder, KickQueued, KicksBefore
    <2>4. \A d \in Conn : OpenInOrder(d)'
        BY <1>1, <2>1, <2>2, <2>3 DEF AnswerInv, OpenInOrder
    <2> QED
        BY <1>1, <2>1, <2>4 DEF AnswerInv
<1> QED
    BY <1>2, <1>3 DEF Upgrade

LEMMA OthersKeepOrder ==
    ASSUME AnswerInv, NEW c \in Conn,
           \/ Accept(c) \/ Begin(c) \/ AddSocket(c) \/ ReadFirst(c) \/ Verify(c)
           \/ CheckDrain(c) \/ Enter(c) \/ Detach(c) \/ Receive(c) \/ ReadError(c)
           \/ Break(c) \/ CloseKicked(c)
    PROVE  AnswerInv' /\ sent' = sent
<1>1. UNCHANGED <<sent, kicked>>
    BY DEF Accept, Begin, AddSocket, ReadFirst, Verify, CheckDrain, Enter, Detach, Receive,
           ReadError, Break, CloseKicked, linkVars
<1>2. /\ link' = [d \in Conn |-> link'[d]]
      /\ \A d \in Conn : link'[d] = "open" => link[d] = "open"
    BY DEF AnswerInv, Accept, Begin, AddSocket, ReadFirst, Verify, CheckDrain, Enter, Detach,
           Receive, ReadError, Break, CloseKicked, linkVars, CloseClients
<1>3. /\ pc' = [d \in Conn |-> pc'[d]]
      /\ \A d \in Conn : pc'[d] \in Early => pc[d] \in Early /\ (d \in clients' => d \in clients)
    BY DEF AnswerInv, Early, Accept, Begin, AddSocket, ReadFirst, Verify, CheckDrain, Enter,
           Detach, Receive, ReadError, Break, CloseKicked, linkVars, Refuse, Goto
<1> QED
    BY <1>1, <1>2, <1>3, QueuesUntouched

LEMMA AnswerStep ==
    AnswerInv /\ [Next]_vars =>
        AnswerInv' /\ \A c \in Conn : sent'[c].written <= sent[c].written + 1
<1> SUFFICES ASSUME AnswerInv, [Next]_vars
             PROVE  AnswerInv' /\ \A c \in Conn : sent'[c].written <= sent[c].written + 1
    OBVIOUS
<1> DEFINE NoSkip == \A c \in Conn : sent'[c].written <= sent[c].written + 1
<1>1. sent' = sent => NoSkip
    BY DEF AnswerInv, Outbox
<1>2. ASSUME NEW c \in Conn, Answer(c) \/ Kick(c)
      PROVE  AnswerInv' /\ NoSkip
    <2>1. AnswerInv' /\ \A d \in Conn : sent'[d].written = sent[d].written
        BY <1>2, AnswerKeepsOrder, KickKeepsOrder
    <2>2. \A d \in Conn : sent[d].written \in Nat
        BY DEF AnswerInv, Outbox
    <2> QED
        BY <2>1, <2>2
<1>3. ASSUME NEW c \in Conn, Upgrade(c)
      PROVE  AnswerInv' /\ NoSkip
    BY <1>1, <1>3, UpgradeKeepsOrder DEF Upgrade
<1>4. ASSUME NEW c \in Conn, Pump(c) \/ Leave(c)
      PROVE  AnswerInv' /\ NoSkip
    BY <1>4, PumpKeepsOrder, LeaveKeepsOrder
<1>5. ASSUME NEW c \in Conn,
             \/ Accept(c) \/ Begin(c) \/ AddSocket(c) \/ ReadFirst(c) \/ Verify(c)
             \/ CheckDrain(c) \/ Enter(c) \/ Detach(c) \/ Receive(c) \/ ReadError(c)
             \/ Break(c) \/ CloseKicked(c)
      PROVE  AnswerInv' /\ NoSkip
    BY <1>1, <1>5, OthersKeepOrder
<1>6. CASE SetDrainMode \/ BeginStop \/ RefuseHandlers \/ Tick
    BY <1>1, <1>6, QueuesUntouched
       DEF SetDrainMode, BeginStop, RefuseHandlers, Tick, linkVars, AnswerInv
<1>7. CASE Sweep
    BY <1>1, <1>7, QueuesUntouched DEF Sweep, Closed, AnswerInv
<1>8. CASE UNCHANGED vars
    BY <1>1, <1>8, QueuesUntouched DEF vars, linkVars, AnswerInv
<1> QED
    BY <1>2, <1>3, <1>4, <1>5, <1>6, <1>7, <1>8 DEF Next, Handler

\* Whatever kicks, full queues and broken sockets come in between, for any
\* number of connections and any size of the queue: an answer is written to a
\* socket only after the one before it.
THEOREM AnswersInOrder == Spec => NoAnswerIsSkipped
<1>1. AnswerInv /\ [Next]_vars =>
          [\A c \in Conn : sent'[c].written <= sent[c].written + 1]_sent
    BY AnswerStep
<1>2. Spec => []AnswerInv
    BY AnswerInit, AnswerStep, PTL DEF Spec
<1> QED
    BY <1>1, <1>2, PTL DEF Spec, NoAnswerIsSkipped


-----------------------------------------------------------------------------
(* Stop. *)

\* Handlers whose socket Stop will close, from AddSocket to their end.
Registered == {"reading", "verify", "verified", "entering", "greeting", "serving",
               "handling", "detach", "leave"}

\* Handlers that have passed CheckDrain and will read commands.
Serving == {"entering", "greeting", "serving", "handling"}

\* Drain mode stays on, unless it is switched off.
StopDrains == stop # "no" /\ ~ reopened => drain

\* Nobody forgets a socket before the sweep.
SocketsRegistered == stop # "swept" => \A c \in Conn : pc[c] \in Registered => c \in sockets

\* Once the sweep is over no handler serves an open socket, although some were
\* upgraded too late for the sweep to find them.
SweptServeNobody ==
    stop = "swept" /\ ~ reopened => \A c \in Conn : pc[c] \in Serving => link[c] # "open"

StopInv == StopDrains /\ SocketsRegistered /\ SweptServeNobody

LEMMA StopInit == Init => StopInv
BY DEF Init, StopInv, StopDrains, SocketsRegistered, SweptServeNobody, Registered, Serving

\* A step of one handler that neither opens a socket nor forgets a registered one.
LEMMA HandlerKeepsStop ==
    ASSUME StopInv, NEW c \in Conn, NEW label, Goto(c, label), UNCHANGED stopVars,
           pc = [d \in Conn |-> pc[d]],
           \A d \in Conn : link'[d] = "open" => link[d] = "open",
           \A d \in Conn : d # c => (d \in sockets' <=> d \in sockets),
           label \in Registered => pc[c] \in Registered /\ (c \in sockets => c \in sockets'),
           label \in Serving => pc[c] \in Serving \/ (pc[c] = "verified" /\ ~ drain)
    PROVE  StopInv'
<1>1. \A d \in Conn : pc'[d] = IF d = c THEN label ELSE pc[d]
    BY DEF Goto
<1>2. StopDrains'
    BY DEF StopInv, StopDrains, stopVars
<1>3. SocketsRegistered'
    BY <1>1 DEF StopInv, SocketsRegistered, stopVars
<1>4. SweptServeNobody'
    BY <1>1 DEF StopInv, StopDrains, SweptServeNobody, stopVars
<1> QED
    BY <1>2, <1>3, <1>4 DEF StopInv

\* A step that moves no handler, and opens no socket.
LEMMA OthersKeepStop ==
    ASSUME StopInv, pc' = pc, sockets' = sockets, UNCHANGED stopVars,
           \A d \in Conn : link'[d] = "open" => link[d] = "open"
    PROVE  StopInv'
BY DEF StopInv, StopDrains, SocketsRegistered, SweptServeNobody, stopVars

LEMMA UpgradeKeepsStop ==
    ASSUME StopInv, pc = [d \in Conn |-> pc[d]], link = [d \in Conn |-> link[d]],
           NEW c \in Conn, Upgrade(c)
    PROVE  StopInv'
<1>1. PICK label \in {"upgraded", "gone"} : Goto(c, label)
    BY DEF Upgrade, Refuse
<1>2. \A d \in Conn : pc'[d] = IF d = c THEN label ELSE pc[d]
    BY <1>1 DEF Goto
<1>3. UNCHANGED <<stopVars, sockets>> /\ \A d \in Conn : d # c => link'[d] = link[d]
    BY DEF Upgrade
<1> QED
    BY <1>2, <1>3 DEF StopInv, StopDrains, SocketsRegistered, SweptServeNobody, stopVars,
                      Registered, Serving

LEMMA StopStep ==
    ASSUME StopInv, pc = [d \in Conn |-> pc[d]], link = [d \in Conn |-> link[d]], [Next]_vars
    PROVE  StopInv'
<1>1. ASSUME NEW c \in Conn, Upgrade(c) PROVE StopInv'
    BY <1>1, UpgradeKeepsStop
<1>2. ASSUME NEW c \in Conn, Accept(c) \/ Begin(c)
      PROVE  StopInv'
    <2>1. PICK label \in {"gone", "slot", "begun"} : Goto(c, label)
        BY <1>2 DEF Accept, Begin, Refuse
    <2>2. UNCHANGED <<stopVars, sockets, linkVars>>
        BY <1>2 DEF Accept, Begin
    <2> QED
        BY <2>1, <2>2, HandlerKeepsStop DEF linkVars, Registered, Serving
<1>3. ASSUME NEW c \in Conn, AddSocket(c) PROVE StopInv'
    <2>1. \A d \in Conn : pc'[d] = IF d = c THEN "reading" ELSE pc[d]
        BY <1>3 DEF AddSocket, Goto
    <2>2. UNCHANGED <<stopVars, linkVars>> /\ sockets' = sockets \cup {c}
        BY <1>3 DEF AddSocket
    <2> QED
        BY <2>1, <2>2 DEF StopInv, StopDrains, SocketsRegistered, SweptServeNobody, stopVars,
                          linkVars, Registered, Serving
<1>4. ASSUME NEW c \in Conn, ReadFirst(c) \/ Verify(c)
      PROVE  StopInv'
    <2>1. PICK label \in {"verify", "verified", "leave"} : Goto(c, label)
        BY <1>4 DEF ReadFirst, Verify
    <2>2. UNCHANGED <<stopVars, slotVars, linkVars>> /\ pc[c] \in Registered
        BY <1>4 DEF ReadFirst, Verify, Registered
    <2> QED
        BY <2>1, <2>2, HandlerKeepsStop DEF linkVars, slotVars, Registered, Serving
<1>5. ASSUME NEW c \in Conn, CheckDrain(c) PROVE StopInv'
    <2>1. PICK label \in {"entering", "leave"} :
              Goto(c, label) /\ (label = "entering" => ~ drain)
        BY <1>5 DEF CheckDrain, MayEnter
    <2>2. UNCHANGED <<stopVars, slotVars, linkVars>> /\ pc[c] = "verified"
        BY <1>5 DEF CheckDrain
    <2> QED
        BY <2>1, <2>2, HandlerKeepsStop DEF linkVars, slotVars, Registered, Serving
<1>6. ASSUME NEW c \in Conn, Enter(c) PROVE StopInv'
    <2>1. PICK label \in {"greeting", "leave"} : Goto(c, label)
        BY <1>6 DEF Enter
    <2>2. UNCHANGED <<stopVars, slotVars, link>> /\ pc[c] = "entering"
        BY <1>6 DEF Enter
    <2> QED
        BY <2>1, <2>2, HandlerKeepsStop DEF slotVars, Registered, Serving
<1>7. ASSUME NEW c \in Conn, Answer(c) \/ Receive(c) \/ ReadError(c) PROVE StopInv'
    <2>1. PICK label \in {"serving", "handling", "detach"} : Goto(c, label)
        BY <1>7 DEF Answer, AnswerNotQueued, Receive, ReadError
    <2>2. UNCHANGED <<stopVars, slotVars>> /\ pc[c] \in Serving
        BY <1>7 DEF Answer, Receive, ReadError, Serving
    <2>3. \A d \in Conn : link'[d] = "open" => link[d] = "open"
        BY <1>7 DEF Answer, AnswerNotQueued, Receive, ReadError, linkVars, CloseClients
    <2> QED
        BY <2>1, <2>2, <2>3, HandlerKeepsStop DEF slotVars, Registered, Serving
<1>8. ASSUME NEW c \in Conn, Detach(c) PROVE StopInv'
    <2>1. Goto(c, "leave") /\ UNCHANGED <<stopVars, slotVars>> /\ pc[c] = "detach"
          /\ link' = CloseClients({c})
        BY <1>8 DEF Detach
    <2>2. \A d \in Conn : link'[d] = "open" => link[d] = "open"
        BY <2>1 DEF CloseClients
    <2> QED
        BY <2>1, <2>2, HandlerKeepsStop DEF slotVars, Registered, Serving
<1>9. ASSUME NEW c \in Conn, Leave(c) PROVE StopInv'
    <2>1. Goto(c, "gone") /\ UNCHANGED stopVars /\ sockets' = sockets \ {c}
          /\ link' = CloseClients({c})
        BY <1>9 DEF Leave, Refuse
    <2>2. \A d \in Conn : link'[d] = "open" => link[d] = "open"
        BY <2>1 DEF CloseClients
    <2> QED
        BY <2>1, <2>2, HandlerKeepsStop DEF Registered, Serving
<1>10. ASSUME NEW c \in Conn, Pump(c) \/ Break(c) \/ Kick(c) \/ CloseKicked(c)
       PROVE  StopInv'
    <2>1. UNCHANGED <<stopVars, slotVars, pc>>
        BY <1>10 DEF Pump, Break, Kick, CloseKicked
    <2>2. \A d \in Conn : link'[d] = "open" => link[d] = "open"
        BY <1>10 DEF Pump, Break, Kick, CloseKicked, CloseClients
    <2> QED
        BY <2>1, <2>2, OthersKeepStop DEF slotVars
<1>11. CASE SetDrainMode \/ BeginStop \/ RefuseHandlers
    BY <1>11 DEF SetDrainMode, BeginStop, RefuseHandlers, slotVars, linkVars, StopInv,
                 StopDrains, SocketsRegistered, SweptServeNobody
<1>12. CASE Sweep
    <2>1. SocketsRegistered
        BY DEF StopInv
    <2>2. \A c \in Conn : c \in sockets => link'[c] # "open"
        BY <1>12 DEF Sweep, Closed
    <2>3. \A c \in Conn : pc[c] \in Serving => c \in sockets
        BY <1>12, <2>1 DEF SocketsRegistered, Sweep, Serving, Registered
    <2> QED
        BY <1>12, <2>2, <2>3
           DEF Sweep, StopInv, StopDrains, SocketsRegistered, SweptServeNobody
<1>13. CASE Tick \/ UNCHANGED vars
    BY <1>13, OthersKeepStop DEF Tick, vars, slotVars, linkVars
<1> QED
    BY <1>1, <1>2, <1>3, <1>4, <1>5, <1>6, <1>7, <1>8, <1>9, <1>10, <1>11, <1>12, <1>13
       DEF Next, Handler

\* After Stop has closed what it found, no handler serves an open socket: one that
\* registers its socket too late is turned away by drain mode, which Stop has
\* switched on before and which only an operator can have switched off.
THEOREM LateSocketsAreTurnedAway == Spec => []SweptServeNobody
<1>1. StopInv /\ AnswerInv /\ [Next]_vars => StopInv'
    BY StopStep DEF AnswerInv
<1>2. Spec => []AnswerInv
    BY AnswerInit, AnswerStep, PTL DEF Spec
<1>3. StopInv => SweptServeNobody
    BY DEF StopInv
<1> QED
    BY StopInit, <1>1, <1>2, <1>3, PTL DEF Spec

-----------------------------------------------------------------------------
(* Types. *)

Label == Ended \cup Early \cup {"upgraded"} \cup Registered

\* Handlers that have answered nothing.
Unanswered == Early \cup {"upgraded", "reading", "verify", "verified", "entering", "greeting"}

\* The queue of a client and the answers given to it are bounded.
Bounded(o, label) ==
    /\ Len(o.queue) <= SendQueueSize
    /\ o.answered <= MaxRequests + 1
    /\ label \in Unanswered => o.answered = 0
    /\ label = "handling" => o.answered <= MaxRequests

ServerTyped ==
    /\ drain \in BOOLEAN /\ reopened \in BOOLEAN
    /\ stop \in {"no", "draining", "stopping", "swept"}
    /\ clock \in 0 .. MaxTime

HandlersTyped ==
    /\ pc \in [Conn -> Label]
    /\ link \in [Conn -> {"none", "open", "broken", "closed"}]
    /\ sockets \subseteq Conn /\ clients \subseteq Conn
    /\ kicked \in [Conn -> BOOLEAN]
    /\ claims \in [Conn -> Claim \cup {None}]

QueuesBounded == \A c \in Conn : Bounded(sent[c], pc[c])

TypeOK ==
    /\ ServerTyped /\ HandlersTyped
    /\ connections \in 0 .. MaxConnections
    /\ sent \in [Conn -> Outbox] /\ QueuesBounded
    /\ nonces \in [Ticket -> Nat] /\ admitted \in [Ticket -> 0 .. 1]

LEMMA ServerStep == ServerTyped /\ [Next]_vars => ServerTyped'
<1> SUFFICES ASSUME ServerTyped, [Next]_vars
             PROVE  ServerTyped'
    OBVIOUS
<1> USE DEF ServerTyped
<1>1. CASE UNCHANGED <<stopVars, clock>>
    BY <1>1 DEF stopVars
<1>2. CASE SetDrainMode \/ BeginStop \/ RefuseHandlers \/ Sweep
    BY <1>2 DEF SetDrainMode, BeginStop, RefuseHandlers, Sweep
<1>3. CASE Tick
    BY <1>3, GatewayAssumption DEF Tick, stopVars
<1>4. ASSUME NEW c \in Conn, Handler(c) \/ Accept(c)
      PROVE  UNCHANGED <<stopVars, clock>>
    BY <1>4 DEF Handler, Accept, Begin, Upgrade, AddSocket, ReadFirst, Verify, CheckDrain,
                Enter, Answer, Detach, Leave
<1>5. ASSUME NEW c \in Conn,
             Receive(c) \/ ReadError(c) \/ Pump(c) \/ Break(c) \/ Kick(c) \/ CloseKicked(c)
      PROVE  UNCHANGED <<stopVars, clock>>
    BY <1>5 DEF Receive, ReadError, Pump, Break, Kick, CloseKicked
<1> QED
    BY <1>1, <1>2, <1>3, <1>4, <1>5 DEF Next, vars

\* Wherever a handler goes is a label.
LEMMA HandlersStep ==
    ASSUME HandlersTyped, TicketInv, [Next]_vars
    PROVE  HandlersTyped'
<1> USE DEF HandlersTyped, Label, Ended, Early, Registered
<1>1. ASSUME NEW c \in Conn, Accept(c) \/ Begin(c) \/ Upgrade(c) \/ AddSocket(c)
      PROVE  HandlersTyped'
    BY <1>1 DEF Accept, Begin, Upgrade, AddSocket, Refuse, Goto, linkVars, ticketVars
<1>2. ASSUME NEW c \in Conn, ReadFirst(c) \/ Verify(c)
      PROVE  HandlersTyped'
    <2>1. \A t \in Ticket : [ticket |-> t, now |-> clock] \in Claim
        BY DEF TicketInv, Claim
    <2>2. claims' \in [Conn -> Claim \cup {None}]
        BY <1>2, <2>1 DEF ReadFirst, Verify
    <2>3. \E label \in {"verify", "verified", "leave"} : Goto(c, label)
        BY <1>2 DEF ReadFirst, Verify
    <2> QED
        BY <1>2, <2>2, <2>3 DEF ReadFirst, Verify, Goto, linkVars, slotVars
<1>3. ASSUME NEW c \in Conn, CheckDrain(c) \/ Enter(c) \/ Answer(c) \/ Receive(c) \/ ReadError(c)
      PROVE  HandlersTyped'
    BY <1>3 DEF CheckDrain, Enter, Answer, AnswerNotQueued, Receive, ReadError, Goto,
                CloseClients, linkVars, slotVars, ticketVars
<1>4. ASSUME NEW c \in Conn, Detach(c) \/ Leave(c)
      PROVE  HandlersTyped'
    <2>1. CASE Detach(c)
        BY <2>1 DEF Detach, Refuse, Goto, CloseClients, slotVars, ticketVars
    <2>2. CASE Leave(c)
        BY <2>2 DEF Leave, Refuse, Goto, CloseClients, slotVars, ticketVars
    <2> QED
        BY <1>4, <2>1, <2>2
<1>5. ASSUME NEW c \in Conn, Pump(c) \/ Break(c) \/ Kick(c) \/ CloseKicked(c)
      PROVE  HandlersTyped'
    BY <1>5 DEF Pump, Break, Kick, CloseKicked, CloseClients, slotVars, ticketVars
<1>6. CASE SetDrainMode \/ BeginStop \/ RefuseHandlers \/ Tick \/ UNCHANGED vars
    BY <1>6 DEF SetDrainMode, BeginStop, RefuseHandlers, Tick, vars, linkVars, slotVars,
                ticketVars
<1>7. CASE Sweep
    BY <1>7 DEF Sweep, Closed, ticketVars
<1> QED
    BY <1>1, <1>2, <1>3, <1>4, <1>5, <1>6, <1>7 DEF Next, Handler

\* A step after which the queue of a connection is bounded, and which moves no
\* other handler.
LEMMA BoundKept ==
    ASSUME QueuesBounded, sent \in [Conn -> Outbox], pc = [d \in Conn |-> pc[d]],
           NEW c \in Conn, NEW o, NEW label,
           sent' = [sent EXCEPT ![c] = o], pc' = [pc EXCEPT ![c] = label], Bounded(o, label)
    PROVE  QueuesBounded'
BY DEF QueuesBounded

\* A handler goes where its answers are still bounded.
LEMMA HandlerKeepsBound ==
    ASSUME QueuesBounded, sent \in [Conn -> Outbox], pc = [d \in Conn |-> pc[d]],
           NEW c \in Conn, NEW label, sent' = sent, Goto(c, label),
           label \in Unanswered => pc[c] \in Unanswered,
           label = "handling" => sent[c].answered <= MaxRequests
    PROVE  QueuesBounded'
<1>1. sent' = [sent EXCEPT ![c] = sent[c]]
    OBVIOUS
<1>2. Bounded(sent[c], label)
    BY DEF QueuesBounded, Bounded
<1> QED
    BY <1>1, <1>2, BoundKept DEF Goto

LEMMA AnswerKeepsBound ==
    ASSUME QueuesBounded, sent \in [Conn -> Outbox], pc = [d \in Conn |-> pc[d]],
           NEW c \in Conn, Answer(c)
    PROVE  QueuesBounded'
<1>1. CASE AnswerNotQueued(c)
    BY <1>1, HandlerKeepsBound DEF AnswerNotQueued, Unanswered, Early
<1>2. CASE HasRoom(c) /\ Goto(c, "serving")
           /\ sent' = [sent EXCEPT ![c].queue = Append(@, sent[c].answered + 1),
                                   ![c].answered = @ + 1]
    <2>1. PICK o : o = sent[c]
        OBVIOUS
    <2>2. o.queue \in Seq(Nat) /\ o.answered \in Nat /\ Bounded(o, pc[c])
        BY <2>1 DEF Outbox, QueuesBounded
    <2>3. PICK p : p = [o EXCEPT !.queue = Append(@, o.answered + 1), !.answered = @ + 1]
        OBVIOUS
    <2>4. sent' = [sent EXCEPT ![c] = p]
        BY <1>2, <2>1, <2>3 DEF Outbox
    <2>5. p.queue = Append(o.queue, o.answered + 1) /\ p.answered = o.answered + 1
        BY <2>1, <2>3 DEF Outbox
    <2>6. Len(p.queue) = Len(o.queue) + 1 /\ Len(o.queue) \in Nat
        BY <2>2, <2>5
    <2>7. o.answered <= MaxRequests
        BY <2>2, GatewayAssumption DEF Answer, Bounded, Unanswered
    <2>8. Bounded(p, "serving")
        BY <1>2, <2>1, <2>2, <2>5, <2>6, <2>7, GatewayAssumption
           DEF HasRoom, Bounded, Unanswered, Early
    <2> QED
        BY <1>2, <2>4, <2>8, BoundKept DEF Goto
<1> QED
    BY <1>1, <1>2 DEF Answer

LEMMA KickKeepsBound ==
    ASSUME QueuesBounded, sent \in [Conn -> Outbox], pc = [d \in Conn |-> pc[d]],
           NEW c \in Conn, Kick(c)
    PROVE  QueuesBounded'
<1>1. CASE ~ HasRoom(c)
    BY <1>1 DEF Kick, QueuesBounded
<1>2. CASE HasRoom(c)
    <2>1. PICK o : o = sent[c]
        OBVIOUS
    <2>2. o.queue \in Seq(Nat) /\ Bounded(o, pc[c]) /\ Len(o.queue) < SendQueueSize
        BY <1>2, <2>1 DEF Outbox, QueuesBounded, HasRoom
    <2>3. PICK p : p = [o EXCEPT !.queue = Append(@, KickFrame)]
        OBVIOUS
    <2>4. sent' = [sent EXCEPT ![c] = p] /\ pc' = [pc EXCEPT ![c] = pc[c]]
        BY <1>2, <2>1, <2>3 DEF Kick
    <2>5. p.queue = Append(o.queue, KickFrame) /\ p.answered = o.answered
        BY <2>1, <2>3 DEF Outbox
    <2>6. Len(p.queue) = Len(o.queue) + 1 /\ Len(o.queue) \in Nat
        BY <2>2, <2>5 DEF KickFrame
    <2>7. Bounded(p, pc[c])
        BY <2>2, <2>5, <2>6, GatewayAssumption DEF Bounded
    <2> QED
        BY <2>4, <2>7, BoundKept
<1> QED
    BY <1>1, <1>2

LEMMA PumpKeepsBound ==
    ASSUME QueuesBounded, sent \in [Conn -> Outbox], pc = [d \in Conn |-> pc[d]],
           NEW c \in Conn, Pump(c)
    PROVE  QueuesBounded'
<1>1. PICK o : o = sent[c]
    OBVIOUS
<1>2. o.queue \in Seq(Nat) /\ Bounded(o, pc[c]) /\ o.queue # <<>>
    BY <1>1 DEF Outbox, QueuesBounded, Pump
<1>3. PICK w : w = IF Head(o.queue) = KickFrame \/ link[c] = "broken"
                   THEN o.written ELSE Head(o.queue)
    OBVIOUS
<1>4. PICK p : p = [o EXCEPT !.queue = Tail(@), !.written = w]
    OBVIOUS
<1>5. sent' = [sent EXCEPT ![c] = p] /\ pc' = [pc EXCEPT ![c] = pc[c]]
    <2>1. sent' = [sent EXCEPT ![c].queue = Tail(@), ![c].written = w] /\ pc' = pc
        BY <1>1, <1>3 DEF Pump, Outbox
    <2> QED
        BY <1>1, <1>4, <2>1 DEF Outbox
<1>6. p.queue = Tail(o.queue) /\ p.answered = o.answered
    BY <1>1, <1>4 DEF Outbox
<1>7. Len(p.queue) = Len(o.queue) - 1 /\ Len(o.queue) \in Nat
    BY <1>2, <1>6
<1>8. Bounded(p, pc[c])
    BY <1>2, <1>6, <1>7, GatewayAssumption DEF Bounded
<1> QED
    BY <1>5, <1>8, BoundKept

LEMMA LeaveKeepsBound ==
    ASSUME QueuesBounded, sent \in [Conn -> Outbox], pc = [d \in Conn |-> pc[d]],
           NEW c \in Conn, Leave(c)
    PROVE  QueuesBounded'
<1>1. sent' = [sent EXCEPT ![c] = NothingSent] /\ pc' = [pc EXCEPT ![c] = "gone"]
    BY DEF Leave, Refuse, Goto
<1>2. Bounded(NothingSent, "gone")
    BY GatewayAssumption DEF Bounded, NothingSent, Unanswered, Early
<1> QED
    BY <1>1, <1>2, BoundKept

LEMMA BoundStep ==
    ASSUME QueuesBounded, sent \in [Conn -> Outbox], pc = [d \in Conn |-> pc[d]], [Next]_vars
    PROVE  QueuesBounded'
<1>1. ASSUME NEW c \in Conn, Answer(c) \/ Kick(c) \/ Pump(c) \/ Leave(c)
      PROVE  QueuesBounded'
    BY <1>1, AnswerKeepsBound, KickKeepsBound, PumpKeepsBound, LeaveKeepsBound
<1>2. ASSUME NEW c \in Conn,
             \/ Accept(c) \/ Begin(c) \/ Upgrade(c) \/ AddSocket(c) \/ ReadFirst(c)
             \/ Verify(c) \/ CheckDrain(c) \/ Enter(c)
      PROVE  QueuesBounded'
    <2>1. /\ sent' = sent /\ pc[c] \in Unanswered
          /\ \E label : label # "handling" /\ Goto(c, label)
        BY <1>2 DEF Accept, Begin, Upgrade, AddSocket, ReadFirst, Verify, CheckDrain, Enter,
                    Refuse, linkVars, Unanswered, Early
    <2> QED
        BY <2>1, HandlerKeepsBound
<1>3. ASSUME NEW c \in Conn, Receive(c) \/ ReadError(c) \/ Detach(c)
      PROVE  QueuesBounded'
    <2>1. /\ sent' = sent
          /\ \/ Goto(c, "handling") /\ sent[c].answered <= MaxRequests
             \/ Goto(c, "detach") \/ Goto(c, "leave")
        BY <1>3 DEF Receive, ReadError, Detach, linkVars
    <2> QED
        BY <2>1, HandlerKeepsBound DEF Unanswered, Early
<1>4. ASSUME NEW c \in Conn, Break(c) \/ CloseKicked(c)
      PROVE  QueuesBounded'
    BY <1>4 DEF Break, CloseKicked, QueuesBounded
<1>5. CASE SetDrainMode \/ BeginStop \/ RefuseHandlers \/ Sweep \/ Tick \/ UNCHANGED vars
    BY <1>5 DEF SetDrainMode, BeginStop, RefuseHandlers, Sweep, Tick, vars, linkVars,
                QueuesBounded
<1> QED
    BY <1>1, <1>2, <1>3, <1>4, <1>5 DEF Next, Handler

LEMMA TypesInitially == Init => ServerTyped /\ HandlersTyped /\ QueuesBounded
<1>1. Init => ServerTyped
    <2>1. 0 \in 0 .. MaxTime
        BY GatewayAssumption
    <2> QED
        BY <2>1 DEF Init, ServerTyped
<1>2. Init => HandlersTyped
    BY DEF Init, HandlersTyped, Label, Ended
<1>3. Init => QueuesBounded
    BY GatewayAssumption DEF Init, QueuesBounded, Bounded, NothingSent, Unanswered, Early
<1> QED
    BY <1>1, <1>2, <1>3

\* Every variable keeps its type; no more than SendQueueSize frames wait for a
\* client, whoever kicks it.
THEOREM Typing == Spec => []TypeOK
<1>1. SlotInv => connections \in 0 .. MaxConnections
    BY FS_CardinalityType, GatewayAssumption DEF SlotInv
<1>2. TicketInv => nonces \in [Ticket -> Nat] /\ admitted \in [Ticket -> 0 .. 1]
    BY DEF TicketInv, TicketAdmitsOnce
<1>3. AnswerInv => sent \in [Conn -> Outbox] /\ pc = [c \in Conn |-> pc[c]]
    BY DEF AnswerInv
<1>4. Spec => []SlotInv
    BY SlotInit, SlotStep, PTL DEF Spec
<1>5. Spec => []TicketInv
    BY TicketInit, TicketStep, PTL DEF Spec
<1>6. Spec => []AnswerInv
    BY AnswerInit, AnswerStep, PTL DEF Spec
<1>7. Spec => []ServerTyped
    BY TypesInitially, ServerStep, PTL DEF Spec
<1>8. HandlersTyped /\ TicketInv /\ [Next]_vars => HandlersTyped'
    BY HandlersStep
<1>9. Spec => []HandlersTyped
    BY <1>5, <1>8, TypesInitially, PTL DEF Spec
<1>10. QueuesBounded /\ AnswerInv /\ [Next]_vars => QueuesBounded'
    BY <1>3, BoundStep
<1>11. Spec => []QueuesBounded
    BY <1>6, <1>10, TypesInitially, PTL DEF Spec
<1>12. ServerTyped /\ HandlersTyped /\ QueuesBounded /\ SlotInv /\ TicketInv /\ AnswerInv
           => TypeOK
    BY <1>1, <1>2, <1>3 DEF TypeOK
<1> QED
    BY <1>4, <1>5, <1>6, <1>7, <1>9, <1>11, <1>12, PTL

=============================================================================
