------------------------------- MODULE Gateway -------------------------------
(***************************************************************************)
(* The WebSocket server of one game server, from the request for a         *)
(* connection to its end.  Every connection has a handler, which takes a   *)
(* slot, upgrades the request, verifies a ticket, and then reads commands  *)
(* and queues the answers; a write pump that sends what is queued; and it  *)
(* may be kicked.  An operator may switch drain mode, and Stop ends it all *)
(* by closing what it finds in two maps.                                   *)
(*                                                                         *)
(* Who is online with which connection is left to PlayerOwner, and what a  *)
(* command does to CommandDispatch.  A server that starts again begins in  *)
(* an initial state: it knows none of the tickets that were used before.   *)
(***************************************************************************)
EXTENDS Naturals, FiniteSets, Sequences

CONSTANTS Conn, Ticket, None,
          Expiry,          \* Expiry[t]: the time from which ticket t is invalid
          MaxConnections, SendQueueSize,
          MaxRequests,     \* bound: commands of a connection
          MaxTime          \* bound of the clock

ASSUME GatewayAssumption ==
    /\ Expiry \in [Ticket -> Nat] /\ MaxTime \in Nat /\ MaxRequests \in Nat
    /\ MaxConnections \in Nat \ {0} /\ SendQueueSize \in Nat \ {0}

VARIABLES
    drain,        \* drainMode
    stop,         \* how far Stop has come
    reopened,     \* history: drain mode was switched off after Stop had begun
    connections,  \* the number of slots taken
    pc,           \* pc[c]: where the handler of connection c is
    link,         \* link[c]: its socket; "closed" once Client.Close was called
    sockets,      \* the sockets that Stop will close
    clients,      \* the authenticated clients that Stop will close
    sent,         \* sent[c]: the queue, answers given and answers written
    kicked,       \* kicked[c]: Client.Close will be called after a delay
    claims,       \* claims[c]: the ticket being verified, and when it was received
    nonces,       \* nonces[t]: the time until which ticket t is remembered
    admitted,     \* history: admitted[t]: how often t was accepted in time
    clock

stopVars == <<drain, stop, reopened>>
slotVars == <<connections, sockets>>
linkVars == <<link, clients, sent, kicked>>
ticketVars == <<claims, nonces, admitted>>
vars == <<stopVars, slotVars, pc, linkVars, ticketVars, clock>>

NothingSent == [queue |-> <<>>, answered |-> 0, written |-> 0]

Init ==
    /\ drain = FALSE /\ stop = "no" /\ reopened = FALSE
    /\ connections = 0 /\ sockets = {} /\ clients = {}
    /\ pc = [c \in Conn |-> "new"]
    /\ link = [c \in Conn |-> "none"]
    /\ sent = [c \in Conn |-> NothingSent]
    /\ kicked = [c \in Conn |-> FALSE]
    /\ claims = [c \in Conn |-> None]
    /\ nonces = [t \in Ticket |-> 0]
    /\ admitted = [t \in Ticket |-> 0]
    /\ clock = 0

Goto(c, label) == pc' = [pc EXCEPT ![c] = label]

\* Client.Close of the clients in S.
CloseClients(S) == [c \in Conn |-> IF c \in S THEN "closed" ELSE link[c]]

-----------------------------------------------------------------------------
(* handleWS up to the first frame. *)

\* A refused request ends at once.
Accept(c) ==
    /\ pc[c] = "new" /\ stop # "swept"
    /\ IF drain \/ connections >= MaxConnections
       THEN Goto(c, "gone") /\ UNCHANGED connections
       ELSE Goto(c, "slot") /\ connections' = connections + 1
    /\ UNCHANGED <<stopVars, sockets, linkVars, ticketVars, clock>>

\* Mutant of Refuse: the slot is not given back.
RefuseWithSlot(c) == Goto(c, "gone") /\ UNCHANGED connections

Refuse(c) == Goto(c, "gone") /\ connections' = connections - 1

\* beginHandler
Begin(c) ==
    /\ pc[c] = "slot"
    /\ IF stop \in {"no", "draining"} THEN Goto(c, "begun") /\ UNCHANGED connections
       ELSE Refuse(c)
    /\ UNCHANGED <<stopVars, sockets, linkVars, ticketVars, clock>>

Upgrade(c) ==
    /\ pc[c] = "begun"
    /\ \/ Goto(c, "upgraded") /\ link' = [link EXCEPT ![c] = "open"] /\ UNCHANGED connections
       \/ Refuse(c) /\ UNCHANGED link
    /\ UNCHANGED <<stopVars, sockets, clients, sent, kicked, ticketVars, clock>>

AddSocket(c) ==
    /\ pc[c] = "upgraded"
    /\ Goto(c, "reading")
    /\ sockets' = sockets \cup {c}
    /\ UNCHANGED <<stopVars, connections, linkVars, ticketVars, clock>>

-----------------------------------------------------------------------------
(* authenticate *)

\* The first frame carries a ticket, or it is not a valid one, or it does not
\* come in time.
ReadFirst(c) ==
    /\ pc[c] = "reading"
    /\ \/ /\ link[c] = "open"
          /\ \E t \in Ticket : claims' = [claims EXCEPT ![c] = [ticket |-> t, now |-> clock]]
          /\ Goto(c, "verify")
       \/ Goto(c, "leave") /\ UNCHANGED claims
    /\ UNCHANGED <<stopVars, slotVars, linkVars, nonces, admitted, clock>>

\* Mutant of NonceTTL: one second too short.
NonceTTLMinusOne(claim) == Expiry[claim.ticket] - claim.now - 1

NonceTTL(claim) == Expiry[claim.ticket] - claim.now

\* Expiry is judged by the time before Verify was called, the nonce by a later
\* one.
Accepted(claim) == Expiry[claim.ticket] > claim.now /\ nonces[claim.ticket] <= clock

Verify(c) ==
    /\ pc[c] = "verify"
    /\ LET claim == claims[c]
           t == claim.ticket
       IN IF Accepted(claim)
          THEN /\ nonces' = [nonces EXCEPT ![t] = clock + NonceTTL(claim)]
               /\ admitted' = [admitted EXCEPT ![t] = IF clock < Expiry[t] THEN @ + 1 ELSE @]
               /\ Goto(c, "verified")
          ELSE Goto(c, "leave") /\ UNCHANGED <<nonces, admitted>>
    /\ claims' = [claims EXCEPT ![c] = None]
    /\ UNCHANGED <<stopVars, slotVars, linkVars, clock>>

\* Mutant of MayEnter: drain mode is not looked at again.
EnterThoughDraining == TRUE

MayEnter == ~ drain

CheckDrain(c) ==
    /\ pc[c] = "verified"
    /\ Goto(c, IF MayEnter THEN "entering" ELSE "leave")
    /\ UNCHANGED <<stopVars, slotVars, linkVars, ticketVars, clock>>

\* The player is prepared, bound and claimed, each of which may fail; then the
\* client is known and its pump runs.
Enter(c) ==
    /\ pc[c] = "entering"
    /\ \/ Goto(c, "greeting") /\ clients' = clients \cup {c}
       \/ Goto(c, "leave") /\ UNCHANGED clients
    /\ UNCHANGED <<stopVars, slotVars, link, sent, kicked, ticketVars, clock>>

-----------------------------------------------------------------------------
(* The send queue. *)

\* TryEnqueue would succeed.
HasRoom(c) == link[c] # "closed" /\ Len(sent[c].queue) < SendQueueSize

\* Answers are numbered from 1.
KickFrame == 0

\* Mutant of AnswerNotQueued: the answer is dropped.
DropAnswer(c) ==
    /\ sent' = [sent EXCEPT ![c].answered = @ + 1]
    /\ Goto(c, "serving")
    /\ UNCHANGED link

\* enqueueEnvelope: a client that does not take its answers is closed.
AnswerNotQueued(c) ==
    /\ link' = CloseClients({c})
    /\ Goto(c, "detach")
    /\ UNCHANGED sent

\* The acknowledgement is the first answer.
Answer(c) ==
    /\ pc[c] \in {"greeting", "handling"}
    /\ \/ /\ HasRoom(c)
          /\ sent' = [sent EXCEPT ![c].queue = Append(@, sent[c].answered + 1),
                                  ![c].answered = @ + 1]
          /\ Goto(c, "serving")
          /\ UNCHANGED link
       \/ ~ HasRoom(c) /\ AnswerNotQueued(c)
    /\ UNCHANGED <<stopVars, slotVars, clients, kicked, ticketVars, clock>>

Receive(c) ==
    /\ pc[c] = "serving" /\ link[c] = "open"
    /\ sent[c].answered <= MaxRequests
    /\ Goto(c, "handling")
    /\ UNCHANGED <<stopVars, slotVars, linkVars, ticketVars, clock>>

\* RunWritePump writes a frame, or fails to and closes the client.
Pump(c) ==
    /\ sent[c].queue # <<>> /\ link[c] \in {"open", "broken"}
    /\ LET frame == Head(sent[c].queue) IN
       sent' = [sent EXCEPT ![c].queue = Tail(@),
                            ![c].written = IF frame = KickFrame \/ link[c] = "broken"
                                           THEN @ ELSE frame]
    /\ link' = IF link[c] = "open" THEN link ELSE CloseClients({c})
    /\ UNCHANGED <<stopVars, slotVars, pc, clients, kicked, ticketVars, clock>>

\* The peer is gone, or a write failed.
Break(c) ==
    /\ link[c] = "open"
    /\ link' = [link EXCEPT ![c] = "broken"]
    /\ UNCHANGED <<stopVars, slotVars, pc, clients, sent, kicked, ticketVars, clock>>

\* kickClient, for a newer login, a notice of another server or KickAll.  One
\* delayed close per client stands for all.
Kick(c) ==
    /\ c \in clients /\ ~ kicked[c]
    /\ IF HasRoom(c)
       THEN /\ sent' = [sent EXCEPT ![c].queue = Append(@, KickFrame)]
            /\ kicked' = [kicked EXCEPT ![c] = TRUE]
            /\ UNCHANGED link
       ELSE link' = CloseClients({c}) /\ UNCHANGED <<sent, kicked>>
    /\ UNCHANGED <<stopVars, slotVars, pc, clients, ticketVars, clock>>

CloseKicked(c) ==
    /\ kicked[c]
    /\ link' = CloseClients({c})
    /\ UNCHANGED <<stopVars, slotVars, pc, clients, sent, kicked, ticketVars, clock>>

-----------------------------------------------------------------------------
(* The end of a handler. *)

\* ReadMessage fails: the socket is closed, or nothing came in time.
ReadError(c) ==
    /\ pc[c] = "serving"
    /\ Goto(c, "detach")
    /\ UNCHANGED <<stopVars, slotVars, linkVars, ticketVars, clock>>

Detach(c) ==
    /\ pc[c] = "detach"
    /\ clients' = clients \ {c}
    /\ link' = CloseClients({c})
    /\ Goto(c, "leave")
    /\ UNCHANGED <<stopVars, slotVars, sent, kicked, ticketVars, clock>>

\* What the client had queued is garbage, and so is the delayed close.
Leave(c) ==
    /\ pc[c] = "leave"
    /\ link' = CloseClients({c})
    /\ sockets' = sockets \ {c}
    /\ Refuse(c)
    /\ sent' = [sent EXCEPT ![c] = NothingSent]
    /\ kicked' = [kicked EXCEPT ![c] = FALSE]
    /\ UNCHANGED <<stopVars, clients, ticketVars, clock>>

-----------------------------------------------------------------------------
(* The server. *)

\* POST /admin/drain; the admin server is stopped last.
SetDrainMode ==
    /\ drain' = ~ drain
    /\ reopened' = (reopened \/ (drain /\ stop # "no"))
    /\ UNCHANGED <<stop, slotVars, pc, linkVars, ticketVars, clock>>

BeginStop ==
    /\ stop = "no"
    /\ stop' = "draining" /\ drain' = TRUE
    /\ UNCHANGED <<reopened, slotVars, pc, linkVars, ticketVars, clock>>

\* From here on beginHandler refuses.  Shutdown closes the listener and waits
\* for the requests that are not upgraded yet, or until its time is up.
RefuseHandlers ==
    /\ stop = "draining"
    /\ stop' = "stopping"
    /\ UNCHANGED <<drain, reopened, slotVars, pc, linkVars, ticketVars, clock>>

Closed == [c \in Conn |-> IF c \in clients THEN "closed"
                          ELSE IF c \in sockets /\ link[c] = "open" THEN "broken"
                          ELSE link[c]]

Sweep ==
    /\ stop = "stopping"
    /\ stop' = "swept"
    /\ link' = Closed
    /\ sockets' = {} /\ clients' = {}
    /\ UNCHANGED <<drain, reopened, connections, pc, sent, kicked, ticketVars, clock>>

Tick ==
    /\ clock < MaxTime
    /\ clock' = clock + 1
    /\ UNCHANGED <<stopVars, slotVars, pc, linkVars, ticketVars>>

Handler(c) ==
    \/ Begin(c) \/ Upgrade(c) \/ AddSocket(c) \/ ReadFirst(c) \/ Verify(c)
    \/ CheckDrain(c) \/ Enter(c) \/ Answer(c) \/ Detach(c) \/ Leave(c)

Next ==
    \/ \E c \in Conn : \/ Accept(c) \/ Handler(c) \/ Receive(c) \/ ReadError(c)
                       \/ Pump(c) \/ Break(c) \/ Kick(c) \/ CloseKicked(c)
    \/ SetDrainMode \/ BeginStop \/ RefuseHandlers \/ Sweep \/ Tick

\* A handler goes on, and waits for the first frame no longer than its deadline;
\* on a socket that is closed it stops reading.  A client that sends heartbeats
\* may keep the socket open.  Stop, once called, goes on.
Fairness ==
    /\ \A c \in Conn : /\ WF_vars(Handler(c)) /\ WF_vars(Pump(c)) /\ WF_vars(CloseKicked(c))
                       /\ WF_vars(link[c] # "open" /\ ReadError(c))
    /\ WF_vars(RefuseHandlers) /\ WF_vars(Sweep)

Spec == Init /\ [][Next]_vars /\ Fairness

-----------------------------------------------------------------------------
(* Properties. *)

\* The server never serves more connections than its limit, and a slot is
\* held by a handler that runs: none is lost in a refusal or in Stop, which
\* would make a server look full for ever.
SlotsAreHeld ==
    /\ connections <= MaxConnections
    /\ connections = Cardinality({c \in Conn : pc[c] \notin {"new", "gone"}})

\* A server accepts a ticket once while it is valid.  Only a call that took
\* the time before the ticket expired and looked at the nonce afterwards can
\* be accepted in addition, and calls after a restart of the server.
TicketAdmitsOnce == \A t \in Ticket : admitted[t] <= 1

\* A client sees the answers to its commands one by one, in their order,
\* whatever kicks and full queues come in between: after an answer that could
\* not be queued nothing more is written.
NoAnswerIsSkipped ==
    [][\A c \in Conn : sent'[c].written <= sent[c].written + 1]_sent

\* After Stop has begun every handler ends, although a socket that is
\* registered after the sweep is closed by nobody: it is turned away because
\* the server drains.  That fails if drain mode is switched off meanwhile.
HandlersEnd ==
    stop # "no" ~> (reopened \/ \A c \in Conn : pc[c] \in {"new", "gone"})
=============================================================================
