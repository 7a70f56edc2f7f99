------------------------------ MODULE KotQueue ------------------------------
(***************************************************************************)
(* The queue of kitchen tickets and the workers that print them            *)
(* (kot_print_service, api/printworker).  A worker polls the oldest        *)
(* pending tickets, prints them and acknowledges what its printer took; it *)
(* may crash or jam, the printer may take a ticket and put nothing on      *)
(* paper, an acknowledgement may be lost, the token may be replaced, and   *)
(* two workers may share a token.  The worker is not part of this          *)
(* repository: it is modelled from its contract.                           *)
(*                                                                         *)
(* Tickets are numbered by queue_id; the number is drawn at the insert and *)
(* a ticket shows at the commit, so they may appear in any order.          *)
(***************************************************************************)
EXTENDS Naturals, FiniteSets

CONSTANTS
    MaxTickets,     \* bound: tickets 1 .. MaxTickets
    FetchLimit,     \* fetch_pending's limit, 20 in the code
    Workers,
    MaxMishaps      \* bound: crashes, jams, swallowed tickets, lost acks, rotations,
                    \* shared tokens

VARIABLES
    ticket,         \* [1 .. MaxTickets -> {"none", "pending", "printed"}]
    copies,         \* [1 .. MaxTickets -> how often it is on paper, 2: more than once]
    current,        \* restaurant_settings.kot_worker_token, as a version
    trading,        \* restaurants.is_active
    worker,         \* [Workers -> [token, batch, done]]
    mishaps,
    swallowed       \* history: tickets a printer took without printing them

kqVars == <<ticket, copies, current, trading, worker, mishaps, swallowed>>

Tickets == 1 .. MaxTickets

KqInit ==
    /\ ticket = [n \in Tickets |-> "none"]
    /\ copies = [n \in Tickets |-> 0]
    /\ current = 1
    /\ trading = TRUE
    /\ worker = [w \in Workers |-> [token |-> IF w = CHOOSE v \in Workers : TRUE THEN 1 ELSE 0,
                                    batch |-> {}, done |-> {}]]
    /\ mishaps = 0
    /\ swallowed = {}

Mishap ==
    /\ mishaps < MaxMishaps
    /\ mishaps' = mishaps + 1

\* enqueue_job, when the order round that carries it commits.
EnqueueJob(n) ==
    /\ ticket[n] = "none"
    /\ ticket' = [ticket EXCEPT ![n] = "pending"]
    /\ UNCHANGED <<copies, current, trading, worker, mishaps, swallowed>>

\* get_settings_by_token: the restaurant whose token it is, if it is active.
Authorized(w) == trading /\ worker[w].token = current

Queue == {n \in Tickets : ticket[n] = "pending"}

\* Mutant: the limit is applied before the filter.
OldestRowsIfPending ==
    LET rows == {n \in Tickets : ticket[n] # "none"}
    IN  {n \in Queue : Cardinality({m \in rows : m < n}) < FetchLimit}

\* The oldest tickets, FetchLimit of them.
Oldest == {n \in Queue : Cardinality({m \in Queue : m < n}) < FetchLimit}

\* A worker at rest gets its next batch; nothing marks the tickets as taken.
FetchPending(w) ==
    /\ Authorized(w)
    /\ worker[w].batch = {} /\ worker[w].done = {}
    /\ Oldest # {}
    /\ worker' = [worker EXCEPT ![w].batch = Oldest]
    /\ UNCHANGED <<ticket, copies, current, trading, mishaps, swallowed>>

PrintTicket(w, n) ==
    /\ n \in worker[w].batch
    /\ copies' = [copies EXCEPT ![n] = IF @ < 2 THEN @ + 1 ELSE @]
    /\ worker' = [worker EXCEPT ![w].batch = @ \ {n}, ![w].done = @ \cup {n}]
    /\ UNCHANGED <<ticket, current, trading, mishaps, swallowed>>

\* The printer refuses a ticket: it is not acknowledged.
Jam(w, n) ==
    /\ n \in worker[w].batch
    /\ Mishap
    /\ worker' = [worker EXCEPT ![w].batch = @ \ {n}]
    /\ UNCHANGED <<ticket, copies, current, trading, swallowed>>

\* "Prints nothing but acks fine": a wrong printer name or a pseudo-printer.
SwallowTicket(w, n) ==
    /\ n \in worker[w].batch
    /\ Mishap
    /\ swallowed' = swallowed \cup {n}
    /\ worker' = [worker EXCEPT ![w].batch = @ \ {n}, ![w].done = @ \cup {n}]
    /\ UNCHANGED <<ticket, copies, current, trading>>

\* It has nothing in hand.
Rest(w) == worker' = [worker EXCEPT ![w].batch = {}, ![w].done = {}]

\* Mutant: whatever is pending is marked.
AckQueue(w) ==
    /\ worker[w].batch = {} /\ worker[w].done # {}
    /\ Authorized(w)
    /\ ticket' = [n \in Tickets |-> IF n \in Queue THEN "printed" ELSE ticket[n]]
    /\ Rest(w)
    /\ UNCHANGED <<copies, current, trading, mishaps, swallowed>>

\* ack_jobs, of those still pending.
AckJobs(w) ==
    /\ worker[w].batch = {} /\ worker[w].done # {}
    /\ Authorized(w)
    /\ ticket' = [n \in Tickets |-> IF n \in worker[w].done THEN "printed" ELSE ticket[n]]
    /\ Rest(w)
    /\ UNCHANGED <<copies, current, trading, mishaps, swallowed>>

\* The acknowledgement does not arrive, or is refused with 401: the worker
\* goes on polling.
AckLost(w) ==
    /\ worker[w].batch = {} /\ worker[w].done # {}
    /\ IF Authorized(w) THEN Mishap ELSE UNCHANGED mishaps
    /\ Rest(w)
    /\ UNCHANGED <<ticket, copies, current, trading, swallowed>>

\* The worker is restarted and has forgotten what it printed.
Crash(w) ==
    /\ worker[w].batch # {} \/ worker[w].done # {}
    /\ Mishap
    /\ Rest(w)
    /\ UNCHANGED <<ticket, copies, current, trading, swallowed>>

\* rotate_worker_token ...
RotateToken ==
    /\ Mishap
    /\ current' = current + 1
    /\ UNCHANGED <<ticket, copies, trading, worker, swallowed>>

\* ... and somebody enters the new token on a device.
Configure(w) ==
    /\ worker[w].token # current
    /\ IF \E v \in Workers : worker[v].token = current THEN Mishap ELSE UNCHANGED mishaps
    /\ worker' = [worker EXCEPT ![w] = [token |-> current, batch |-> {}, done |-> {}]]
    /\ UNCHANGED <<ticket, copies, current, trading, swallowed>>

\* The restaurant is suspended, or allowed to trade again.
SuspendRestaurant ==
    /\ Mishap
    /\ trading' = ~trading
    /\ UNCHANGED <<ticket, copies, current, worker, swallowed>>

WorkerStep(w) ==
    \/ FetchPending(w)
    \/ \E n \in Tickets : PrintTicket(w, n)
    \/ AckJobs(w)

KqNext ==
    \/ \E n \in Tickets : EnqueueJob(n)
    \/ \E w \in Workers :
         \/ WorkerStep(w)
         \/ \E n \in Tickets : Jam(w, n) \/ SwallowTicket(w, n)
         \/ AckLost(w) \/ Crash(w) \/ Configure(w)
    \/ RotateToken \/ SuspendRestaurant

KqFairness == \A w \in Workers : WF_kqVars(WorkerStep(w) \/ AckLost(w))

KqSpec == KqInit /\ [][KqNext]_kqVars /\ KqFairness

-----------------------------------------------------------------------------
(* Properties *)

\* The worker polls for ever; jams and lost acknowledgements are bounded.
CutOff == ~trading \/ \A w \in Workers : worker[w].token # current

(***************************************************************************)
(* No acknowledgement marks a ticket that no printer has taken: whatever   *)
(* crashes, retries and comes late from several workers, a ticket marked   *)
(* printed is on paper, unless the printer itself has swallowed it (the    *)
(* queue cannot know: printed_at is what the worker says).  Without any    *)
(* mishap a ticket is on paper only once ("each ticket still prints        *)
(* exactly once" when two workers share a token is not true).              *)
(***************************************************************************)
PrintedWasTaken ==
    \A n \in Tickets : /\ ticket[n] = "printed" => copies[n] >= 1 \/ n \in swallowed
                       /\ mishaps = 0 => copies[n] <= 1 /\ n \notin swallowed

(***************************************************************************)
(* fetch_pending's limit starves nobody: when the kitchen's orders pause   *)
(* every queued ticket gets to the kitchen's printer (which puts it on     *)
(* paper, if it works), as long as some worker holds the token of a        *)
(* trading restaurant.                                                     *)
(***************************************************************************)
Unprinted == {n \in Tickets : ticket[n] = "pending" /\ copies[n] = 0}

TicketsReachKitchen == Unprinted # {} ~> Unprinted = {} \/ CutOff

=============================================================================
