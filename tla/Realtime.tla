------------------------------ MODULE Realtime ------------------------------
(***************************************************************************)
(* Live updates: the pages' reconnecting WebSocket clients (ws.ts), the    *)
(* single-use tickets they connect with (tickets.py), the socket handlers  *)
(* (ws.py, realtime/auth.py) and the registry that broadcasts and the      *)
(* heartbeat iterate over (manager.py).                                    *)
(*                                                                         *)
(* One asyncio process serves the sockets, so code between two awaits is   *)
(* one step; a broadcast awaits each send.  A cut connection is half-open: *)
(* neither end is told.  Its loss, a failed request and a restart of the   *)
(* process are faults, of which MaxFaults happen.  Time is abstract: a     *)
(* page whose socket is registered and whole hears a heartbeat (25 s)      *)
(* before it calls the socket stale (45 s).                                *)
(***************************************************************************)
EXTENDS Naturals, FiniteSets

CONSTANTS
    Pages,          \* staff screens and guests' phones, each with a ReconnectingWs object
    Sockets,        \* WebSocket connections that exist at one time
    Buckets,        \* roles and tables of the restaurant
    MaxFaults       \* bound on connections cut, requests failed and restarts

ASSUME RealtimeAssumption == Pages # {} /\ Buckets # {}

VARIABLES
    page,           \* [Pages -> the client's state]
    subject,        \* [Pages -> [bucket, valid]]: the user or table session behind the page
    sock,           \* [Sockets -> [owner, ticket, heard, up, handler, bucket]]
    registry,       \* [Buckets -> SUBSET Sockets], manager._staff and _customers
    sweep,          \* the heartbeat's and a broadcast's loops: [bucket, todo, dead]
    faults

rtVars == <<page, subject, sock, registry, sweep, faults>>

Sweeps == {"heartbeat", "broadcast"}

NoSocket == [owner |-> CHOOSE p \in Pages : TRUE, ticket |-> FALSE, heard |-> FALSE,
             up |-> FALSE, handler |-> "none", bucket |-> CHOOSE b \in Buckets : TRUE]

NoSweep == [bucket |-> CHOOSE b \in Buckets : TRUE, todo |-> {}, dead |-> {}]

RtInit ==
    /\ page = [p \in Pages |-> "closed"]
    /\ subject = [p \in Pages |-> [bucket |-> CHOOSE b \in Buckets : TRUE, valid |-> TRUE]]
    /\ sock = [s \in Sockets |-> NoSocket]
    /\ registry = [b \in Buckets |-> {}]
    /\ sweep = [w \in Sweeps |-> NoSweep]
    /\ faults = 0

Fault == faults < MaxFaults /\ faults' = faults + 1

\* A connection no page listens to and no handler serves is forgotten.
Forgetting(socks) ==
    [s \in Sockets |-> IF ~socks[s].heard /\ socks[s].handler \notin {"coming", "running"}
                       THEN NoSocket ELSE socks[s]]

\* Its identity is used again once no loop holds it.
Unused(s) ==
    /\ sock[s] = NoSocket
    /\ \A w \in Sweeps : s \notin sweep[w].todo \cup sweep[w].dead

Registered(s) == \E b \in Buckets : s \in registry[b]

\* Page p's handlers are attached to a socket that is registered and whole.
Connected(p) ==
    \E s \in Sockets : sock[s].owner = p /\ sock[s].heard /\ sock[s].up /\ Registered(s)

-----------------------------------------------------------------------------
(* The client *)

\* A page is shown and makes a client, which connects at once.
Mount(p) ==
    /\ page[p] = "closed"
    /\ page' = [page EXCEPT ![p] = "mint"]
    /\ UNCHANGED <<subject, sock, registry, sweep, faults>>

\* buildWsUrl and issue_ticket: a page with a good credential gets a ticket
\* and opens a socket with it.
Mint(p) ==
    /\ page[p] = "mint"
    /\ subject[p].valid
    /\ \E s \in Sockets :
         /\ Unused(s)
         /\ sock' = [sock EXCEPT ![s] = [owner |-> p, ticket |-> TRUE, heard |-> TRUE, up |-> TRUE,
                                         handler |-> "coming", bucket |-> subject[p].bucket]]
    /\ page' = [page EXCEPT ![p] = "connecting"]
    /\ UNCHANGED <<subject, registry, sweep, faults>>

\* connectAsync: the ticket request fails.
MintFails(p) ==
    /\ page[p] = "mint"
    /\ IF subject[p].valid THEN Fault ELSE UNCHANGED faults
    /\ page' = [page EXCEPT ![p] = "retry"]
    /\ UNCHANGED <<subject, sock, registry, sweep>>

\* The timer of scheduleReconnect.
Reconnect(p) ==
    /\ page[p] = "retry"
    /\ page' = [page EXCEPT ![p] = "mint"]
    /\ UNCHANGED <<subject, sock, registry, sweep, faults>>

\* onclose: code 1008 stops the client, any other reason makes it retry.
OnClose(s) ==
    /\ sock[s].heard /\ sock[s].up
    /\ sock[s].handler \in {"refused", "ended"}
    /\ page' = [page EXCEPT ![sock[s].owner] =
                    IF sock[s].handler = "refused" THEN "stopped" ELSE "retry"]
    /\ sock' = Forgetting([sock EXCEPT ![s].heard = FALSE])
    /\ UNCHANGED <<subject, registry, sweep, faults>>

\* Mutant: the stale socket's handlers stay attached.
ForceReconnectAttached(s) ==
    /\ sock[s].heard
    /\ page[sock[s].owner] = "open"
    /\ ~(sock[s].up /\ Registered(s))
    /\ page' = [page EXCEPT ![sock[s].owner] = "mint"]
    /\ UNCHANGED <<subject, sock, registry, sweep, faults>>

\* Mutant: silence is noticed on a whole connection only.
ForceReconnectIfUp(s) ==
    /\ sock[s].heard /\ sock[s].up
    /\ page[sock[s].owner] = "open"
    /\ ~Registered(s)
    /\ page' = [page EXCEPT ![sock[s].owner] = "mint"]
    /\ sock' = Forgetting([sock EXCEPT ![s].heard = FALSE])
    /\ UNCHANGED <<subject, registry, sweep, faults>>

\* The ping timer meets a silent socket: handlers off, close, connect anew.
ForceReconnect(s) ==
    /\ sock[s].heard
    /\ page[sock[s].owner] = "open"
    /\ ~(sock[s].up /\ Registered(s))
    /\ page' = [page EXCEPT ![sock[s].owner] = "mint"]
    /\ sock' = Forgetting([sock EXCEPT ![s].heard = FALSE])
    /\ UNCHANGED <<subject, registry, sweep, faults>>

\* destroy: the timers are cleared, the socket is closed, an answer to the
\* ticket request is dropped.
Destroy(p) ==
    /\ page[p] # "closed"
    /\ page' = [page EXCEPT ![p] = "closed"]
    /\ sock' = Forgetting([s \in Sockets |->
                   IF sock[s].owner = p THEN [sock[s] EXCEPT !.heard = FALSE] ELSE sock[s]])
    /\ UNCHANGED <<subject, registry, sweep, faults>>

-----------------------------------------------------------------------------
(* The server *)

\* The upgrade is accepted (the page's onopen runs), and the ticket redeemed.
Accept(s, handler) ==
    /\ sock[s].handler = "coming"
    /\ sock' = Forgetting([sock EXCEPT ![s].handler = handler, ![s].ticket = FALSE,
                                       ![s].bucket = subject[sock[s].owner].bucket])
    /\ page' = IF sock[s].heard THEN [page EXCEPT ![sock[s].owner] = "open"] ELSE page
    /\ UNCHANGED <<subject, sweep, faults>>

\* A live ticket of a user or session that is still good: registered under
\* the role or table the database names now.
AcceptTicket(s) ==
    /\ sock[s].ticket /\ subject[sock[s].owner].valid
    /\ Accept(s, "running")
    /\ registry' = [registry EXCEPT ![subject[sock[s].owner].bucket] = @ \cup {s}]

\* Anything else is closed with 1008.
RefuseTicket(s) ==
    /\ ~(sock[s].ticket /\ subject[sock[s].owner].valid)
    /\ Accept(s, "refused")
    /\ UNCHANGED registry

\* WS_TICKET_TTL_SECONDS pass before the socket arrives.
TicketExpires(s) ==
    /\ sock[s].handler = "coming" /\ sock[s].ticket
    /\ Fault
    /\ sock' = [sock EXCEPT ![s].ticket = FALSE]
    /\ UNCHANGED <<page, subject, registry, sweep>>

\* Mutant: the role is read again when the socket goes away.
DeregisterByRole(s) ==
    /\ sock[s].handler = "running"
    /\ ~(sock[s].heard /\ sock[s].up)
    /\ sock' = Forgetting([sock EXCEPT ![s].handler = "ended"])
    /\ registry' = [registry EXCEPT ![subject[sock[s].owner].bucket] = @ \ {s}]
    /\ UNCHANGED <<page, subject, sweep, faults>>

\* receive_text ends with the connection; `finally' deregisters the socket
\* from the bucket it was registered in.
Deregister(s) ==
    /\ sock[s].handler = "running"
    /\ ~(sock[s].heard /\ sock[s].up)
    /\ sock' = Forgetting([sock EXCEPT ![s].handler = "ended"])
    /\ registry' = [registry EXCEPT ![sock[s].bucket] = @ \ {s}]
    /\ UNCHANGED <<page, subject, sweep, faults>>

-----------------------------------------------------------------------------
(* Broadcasts and the heartbeat *)

\* list(conns): the loop works on a copy of the bucket.
StartSweep(w, b) ==
    /\ sweep[w] = NoSweep
    /\ registry[b] # {}
    /\ sweep' = [sweep EXCEPT ![w] = [bucket |-> b, todo |-> registry[b], dead |-> {}]]
    /\ UNCHANGED <<page, subject, sock, registry, faults>>

\* The frame goes out, if only into the buffers of a cut connection.
Send(w, s) ==
    /\ s \in sweep[w].todo
    /\ sock[s].handler = "running"
    /\ sweep' = [sweep EXCEPT ![w].todo = @ \ {s}]
    /\ UNCHANGED <<page, subject, sock, registry, faults>>

\* The send raises: a broadcast remembers the socket, the heartbeat drops it.
SendFails(w, s) ==
    /\ s \in sweep[w].todo
    /\ ~sock[s].up \/ ~sock[s].heard \/ sock[s].handler # "running"
    /\ IF w = "heartbeat"
       THEN /\ registry' = [registry EXCEPT ![sweep[w].bucket] = @ \ {s}]
            /\ sweep' = [sweep EXCEPT ![w].todo = @ \ {s}]
       ELSE /\ sweep' = [sweep EXCEPT ![w].todo = @ \ {s}, ![w].dead = @ \cup {s}]
            /\ UNCHANGED registry
    /\ UNCHANGED <<page, subject, sock, faults>>

\* The loop ends; a broadcast now drops its dead sockets.
EndSweep(w) ==
    /\ sweep[w] # NoSweep
    /\ sweep[w].todo = {}
    /\ registry' = [registry EXCEPT ![sweep[w].bucket] = @ \ sweep[w].dead]
    /\ sweep' = [sweep EXCEPT ![w] = NoSweep]
    /\ UNCHANGED <<page, subject, sock, faults>>

-----------------------------------------------------------------------------
(* The world *)

\* A connection goes half-open.
Cut(s) ==
    /\ sock[s].up /\ sock[s].handler = "running"
    /\ Fault
    /\ sock' = [sock EXCEPT ![s].up = FALSE]
    /\ UNCHANGED <<page, subject, registry, sweep>>

\* The process restarts: tickets, registry and loops were in its memory, the
\* sockets it served are closed; one still on its way reaches the new process.
Restart ==
    /\ Fault
    /\ sock' = Forgetting([s \in Sockets |->
                   [sock[s] EXCEPT !.ticket = FALSE,
                                   !.handler = IF @ = "running" THEN "ended" ELSE @]])
    /\ registry' = [b \in Buckets |-> {}]
    /\ sweep' = [w \in Sweeps |-> NoSweep]
    /\ UNCHANGED <<page, subject>>

\* An administrator gives the user another role.
ChangeBucket(p, b) ==
    /\ subject[p].bucket # b
    /\ Fault
    /\ subject' = [subject EXCEPT ![p].bucket = b]
    /\ UNCHANGED <<page, sock, registry, sweep>>

\* The user is switched off, the table session ends.
Invalidate(p) ==
    /\ subject[p].valid
    /\ subject' = [subject EXCEPT ![p].valid = FALSE]
    /\ UNCHANGED <<page, sock, registry, sweep, faults>>

-----------------------------------------------------------------------------
RtPage(p) == Mint(p) \/ Reconnect(p)

RtSocket(s) ==
    OnClose(s) \/ ForceReconnect(s) \/ AcceptTicket(s) \/ RefuseTicket(s) \/ Deregister(s)

RtLoop(w) == EndSweep(w) \/ \E s \in Sockets : Send(w, s) \/ SendFails(w, s)

RtNext ==
    \/ \E p \in Pages :
         \/ Mount(p) \/ RtPage(p) \/ MintFails(p) \/ Destroy(p) \/ Invalidate(p)
         \/ \E b \in Buckets : ChangeBucket(p, b)
    \/ \E s \in Sockets : RtSocket(s) \/ TicketExpires(s) \/ Cut(s)
    \/ \E w \in Sweeps :
         \/ RtLoop(w)
         \/ \E b \in Buckets : StartSweep(w, b)
    \/ Restart

\* Timers fire, the event loop runs what is ready and a whole connection delivers.
RtFairness ==
    /\ \A p \in Pages : WF_rtVars(RtPage(p))
    /\ \A s \in Sockets : WF_rtVars(RtSocket(s))
    /\ \A w \in Sweeps : WF_rtVars(RtLoop(w))

RtSpec == RtInit /\ [][RtNext]_rtVars /\ RtFairness

-----------------------------------------------------------------------------
(* Properties *)

(***************************************************************************)
(* No ghosts: whatever prunes and deregisters at the same time, a socket   *)
(* in the registry has a running handler, and it is in one bucket only,    *)
(* although the user's role may have changed since it connected.           *)
(***************************************************************************)
NoGhosts ==
    \A b \in Buckets : \A s \in registry[b] :
        sock[s].handler = "running" /\ \A c \in Buckets \ {b} : s \notin registry[c]

(***************************************************************************)
(* ws.ts: "exactly one reconnect happens".  A page listens to one socket   *)
(* at a time, so an event is never handled twice, and it has one exactly   *)
(* while it is connecting or open.                                         *)
(***************************************************************************)
OneSocketPerPage ==
    \A p \in Pages :
        Cardinality({s \in Sockets : sock[s].owner = p /\ sock[s].heard})
            = (IF page[p] \in {"connecting", "open"} THEN 1 ELSE 0)

(***************************************************************************)
(* A page never stays deaf: a half-open connection, a pruned socket and a  *)
(* restarted server are noticed, and the page is connected again, unless   *)
(* its credential ended or the client stopped.                             *)
(***************************************************************************)
PagesRecover ==
    \A p \in Pages :
        page[p] \in {"mint", "connecting", "open", "retry"} ~>
            (Connected(p) \/ page[p] \in {"stopped", "closed"} \/ ~subject[p].valid)

=============================================================================
