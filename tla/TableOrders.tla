---------------------------- MODULE TableOrders -----------------------------
(***************************************************************************)
(* One table of one restaurant: the guests' sessions, the orders they open *)
(* and append to, the waiter's approval gate, the kitchen's work on the    *)
(* items, the kitchen tickets queued for the printer, and the ways staff   *)
(* take an order to billing and close it.                                  *)
(*                                                                         *)
(* Rows of different tables share no lock and no invariant except the      *)
(* numbering counter, which module Numbering models.                       *)
(*                                                                         *)
(* The database is PostgreSQL at READ COMMITTED.  A staff handler takes    *)
(* the row lock of the order (or of the item) in its first statement and   *)
(* keeps it to its commit, so it is ONE action here.  A guest's request is *)
(* several actions, because it decides on rows it read WITHOUT a lock:     *)
(*   - every request checks its session first, in its own statement;       *)
(*   - place_or_append locks the TABLE row and then reads the order        *)
(*     unlocked; its item inserts take only a key-share lock on the order  *)
(*     row, which waits for a handler holding the row but not for the      *)
(*     status that handler wrote;                                          *)
(*   - request_bill reads the order unlocked and writes the stamp later.   *)
(* `req' holds what each such request has read so far.                     *)
(*                                                                         *)
(* The restaurant prints in worker mode (print_kot_enabled, kot_print_mode *)
(* = "worker"), so kitchen tickets are rows queued in the transaction.     *)
(***************************************************************************)
EXTENDS Naturals, FiniteSets

CONSTANTS
    Orders,         \* order rows that may be inserted
    Items,          \* order_items rows that may be inserted
    Sessions,       \* table_sessions rows that may be inserted
    Requests,       \* guests' HTTP requests served at the same time
    Null            \* an absent row

ASSUME NullAssumption == Null \notin Orders \cup Sessions

VARIABLES
    order,          \* [Orders -> [status, bill, session]]
    item,           \* [Items -> [status, order, tickets]]
    session,        \* [Sessions -> status column, "none" if not inserted]
    lapsed,         \* sessions whose expires_at has passed
    gate,           \* restaurant_settings.require_order_approval
    tableActive,    \* tables.is_active
    reprinted,      \* items some "ORDER REPRINT" ticket has listed
    req             \* [Requests -> [pc, session, order]]

vars == <<order, item, session, lapsed, gate, tableActive, reprinted, req>>

LiveStatus == {"OPEN", "MEAL_FINISHED"}
Accepted   == {"NEW", "PREPARING", "READY", "SERVED"}

-----------------------------------------------------------------------------
(* Queries *)

LiveOrders == {o \in Orders : order[o].status \in LiveStatus}

LiveSessions == {s \in Sessions : session[s] = "ACTIVE"} \ lapsed

ItemsOf(o) == {i \in Items : item[i].order = o}

Pending(o) == {i \in ItemsOf(o) : item[i].status = "PENDING_APPROVAL"}

Billable(o) == {i \in ItemsOf(o) : item[i].status \in Accepted}

\* The table row is locked FOR UPDATE between the two steps of an append, and
\* between those of a scan that creates a session.
TableLocked == \E r \in Requests : req[r].pc \in {"placing", "creating"}

Idle == [pc |-> "idle", session |-> Null, order |-> Null]

Answer(r) == req' = [req EXCEPT ![r] = Idle]

\* The request goes on, with the order it has read.
GoOn(r, pc, o) ==
    req' = [req EXCEPT ![r] = [pc |-> pc, session |-> req[r].session, order |-> o]]

Init ==
    /\ order = [o \in Orders |-> [status |-> "none", bill |-> FALSE, session |-> Null]]
    /\ item = [i \in Items |-> [status |-> "none", order |-> Null, tickets |-> 0]]
    /\ session = [s \in Sessions |-> "none"]
    /\ lapsed = {}
    /\ gate \in BOOLEAN
    /\ tableActive = TRUE
    /\ reprinted = {}
    /\ req = [r \in Requests |-> Idle]

-----------------------------------------------------------------------------
(* Sessions: the QR scan, the session check of every request, invalidation *)

\* The endpoint finds the table active, before any lock.
ScanTable(r) ==
    /\ req[r].pc = "idle"
    /\ tableActive
    /\ GoOn(r, "scanning", Null)
    /\ UNCHANGED <<order, item, session, lapsed, gate, tableActive, reprinted>>

\* Mutant: the scan looks for a session without locking the table row.
FindSessionUnlocked(r) ==
    /\ req[r].pc = "scanning"
    /\ \/ LiveSessions # {} /\ Answer(r)
       \/ LiveSessions = {} /\ GoOn(r, "creating", Null)
    /\ UNCHANGED <<order, item, session, lapsed, gate, tableActive, reprinted>>

\* Under the table lock: answer with the live session, or go on to insert one.
FindSession(r) ==
    /\ req[r].pc = "scanning"
    /\ ~TableLocked
    /\ \/ /\ LiveSessions # {}
          /\ Answer(r)
       \/ /\ LiveSessions = {}
          /\ GoOn(r, "creating", Null)
    /\ UNCHANGED <<order, item, session, lapsed, gate, tableActive, reprinted>>

CreateSession(r) ==
    /\ req[r].pc = "creating"
    /\ \E s \in Sessions : /\ session[s] = "none"
                          /\ session' = [session EXCEPT ![s] = "ACTIVE"]
    /\ Answer(r)
    /\ UNCHANGED <<order, item, lapsed, gate, tableActive, reprinted>>

\* get_current_session lets a request in; `pc' is the endpoint it enters.
Admit(r, s, pc) ==
    /\ req[r].pc = "idle"
    /\ s \in LiveSessions
    /\ req' = [req EXCEPT ![r] = [pc |-> pc, session |-> s, order |-> Null]]
    /\ UNCHANGED <<order, item, session, lapsed, gate, tableActive, reprinted>>

\* It reads an ACTIVE session past its expiry ...
FindExpired(r, s) ==
    /\ req[r].pc = "idle"
    /\ session[s] = "ACTIVE"
    /\ s \in lapsed
    /\ req' = [req EXCEPT ![r] = [pc |-> "expiring", session |-> s, order |-> Null]]
    /\ UNCHANGED <<order, item, session, lapsed, gate, tableActive, reprinted>>

\* ... and writes EXPIRED, whatever the row has become since.
MarkExpired(r) ==
    /\ req[r].pc = "expiring"
    /\ session' = [session EXCEPT ![req[r].session] = "EXPIRED"]
    /\ Answer(r)
    /\ UNCHANGED <<order, item, lapsed, gate, tableActive, reprinted>>

\* A guest ends a live session; staff end any session by its id.
InvalidateSession(s) ==
    /\ session[s] \in {"ACTIVE", "EXPIRED"}
    /\ session' = [session EXCEPT ![s] = "INVALIDATED"]
    /\ UNCHANGED <<order, item, lapsed, gate, tableActive, reprinted, req>>

\* TABLE_SESSION_TTL_HOURS pass; a session already dead shows no difference.
Lapse(s) ==
    /\ s \in LiveSessions
    /\ lapsed' = lapsed \cup {s}
    /\ UNCHANGED <<order, item, session, gate, tableActive, reprinted, req>>

-----------------------------------------------------------------------------
(* place_or_append *)

\* Mutants: the table row is not locked; is_active is not checked; an order in
\* billing is not looked for.
LockTableUnlocked(r) ==
    /\ req[r].pc = "place"
    /\ tableActive
    /\ \/ LiveOrders = {} /\ GoOn(r, "placing", Null)
       \/ \E o \in LiveOrders : GoOn(r, "placing", o)
    /\ UNCHANGED <<order, item, session, lapsed, gate, tableActive, reprinted>>

LockAnyTable(r) ==
    /\ req[r].pc = "place"
    /\ ~TableLocked
    /\ LiveOrders = {} /\ GoOn(r, "placing", Null)
    /\ UNCHANGED <<order, item, session, lapsed, gate, tableActive, reprinted>>

LockTableSeeingOpen(r) ==
    /\ req[r].pc = "place"
    /\ ~TableLocked
    /\ tableActive
    /\ \A o \in Orders : order[o].status # "OPEN"
    /\ GoOn(r, "placing", Null)
    /\ UNCHANGED <<order, item, session, lapsed, gate, tableActive, reprinted>>

\* Lock the table row, then read the table's live order without a lock.
LockTable(r) ==
    /\ req[r].pc = "place"
    /\ ~TableLocked
    /\ tableActive
    /\ \/ /\ LiveOrders = {}
          /\ GoOn(r, "placing", Null)
       \/ \E o \in LiveOrders :
              /\ order[o].status = "OPEN"
              /\ GoOn(r, "placing", o)
    /\ UNCHANGED <<order, item, session, lapsed, gate, tableActive, reprinted>>

\* Mutant: an append to an order in billing is left without an answer.
RefuseInactiveOnly(r) ==
    /\ req[r].pc = "place"
    /\ ~TableLocked
    /\ ~tableActive
    /\ Answer(r)
    /\ UNCHANGED <<order, item, session, lapsed, gate, tableActive, reprinted>>

\* 404 for an inactive table, 409 for an order already in billing.
RefusePlace(r) ==
    /\ req[r].pc = "place"
    /\ ~TableLocked
    /\ ~tableActive \/ \E o \in LiveOrders : order[o].status = "MEAL_FINISHED"
    /\ Answer(r)
    /\ UNCHANGED <<order, item, session, lapsed, gate, tableActive, reprinted>>

\* Mutant: the ticket is queued at placement even behind the gate.
NewItemTicketed(o) ==
    [status |-> IF gate THEN "PENDING_APPROVAL" ELSE "NEW", order |-> o, tickets |-> 1]

\* The new rows of a batch: parked behind the gate, or accepted and ticketed.
NewItem(o) ==
    IF gate THEN [status |-> "PENDING_APPROVAL", order |-> o, tickets |-> 0]
            ELSE [status |-> "NEW", order |-> o, tickets |-> 1]

InsertItems(batch, o) ==
    item' = [i \in Items |-> IF i \in batch THEN NewItem(o) ELSE item[i]]

Unborn == {i \in Items : item[i].status = "none"}

\* Insert into the order that was read, or into a new one, and commit.
CommitPlace(r, batch) ==
    /\ req[r].pc = "placing"
    /\ batch \subseteq Unborn
    /\ batch # {}
    /\ \/ /\ req[r].order # Null
          /\ InsertItems(batch, req[r].order)
          /\ UNCHANGED order
       \/ /\ req[r].order = Null
          /\ \E o \in Orders :
                /\ order[o].status = "none"
                /\ order' = [order EXCEPT ![o] =
                       [status |-> "OPEN", bill |-> FALSE, session |-> req[r].session]]
                /\ InsertItems(batch, o)
    /\ Answer(r)
    /\ UNCHANGED <<session, lapsed, gate, tableActive, reprinted>>

-----------------------------------------------------------------------------
(* request_bill by a guest, and its staff counterpart *)

ReadForBill(r) ==
    /\ req[r].pc = "bill"
    /\ \/ /\ \A o \in LiveOrders : order[o].bill     \* 404, or already stamped
          /\ Answer(r)
       \/ \E o \in LiveOrders :
              /\ ~order[o].bill
              /\ GoOn(r, "billing", o)
    /\ UNCHANGED <<order, item, session, lapsed, gate, tableActive, reprinted>>

\* UPDATE of the stamp alone, by primary key.
StampBill(r) ==
    /\ req[r].pc = "billing"
    /\ order' = [order EXCEPT ![req[r].order].bill = TRUE]
    /\ Answer(r)
    /\ UNCHANGED <<item, session, lapsed, gate, tableActive, reprinted>>

\* An unavailable product, a lost connection, a crash: rollback of the request.
Abort(r) ==
    /\ req[r].pc # "idle"
    /\ Answer(r)
    /\ UNCHANGED <<order, item, session, lapsed, gate, tableActive, reprinted>>

StaffStartBilling(o) ==
    /\ order[o].status = "OPEN"
    /\ order' = [order EXCEPT ![o].bill = TRUE]
    /\ UNCHANGED <<item, session, lapsed, gate, tableActive, reprinted, req>>

-----------------------------------------------------------------------------
(* The approval gate and the items *)

SetStatus(set, s) ==
    item' = [i \in Items |-> IF i \in set THEN [item[i] EXCEPT !.status = s] ELSE item[i]]

\* Mutants: the whole order is approved, not its pending items; a status the
\* order_item_status type does not have.
ApproveWholeOrder(o) ==
    /\ order[o].status = "OPEN"
    /\ Pending(o) # {}
    /\ SetStatus(ItemsOf(o), "NEW")
    /\ UNCHANGED <<order, session, lapsed, gate, tableActive, reprinted, req>>

ApproveAsApproved(o) ==
    /\ order[o].status = "OPEN"
    /\ Pending(o) # {}
    /\ SetStatus(Pending(o), "APPROVED")
    /\ UNCHANGED <<order, session, lapsed, gate, tableActive, reprinted, req>>

\* The batch's first kitchen ticket is queued in the same transaction.
ApprovePendingItems(o) ==
    /\ order[o].status = "OPEN"
    /\ Pending(o) # {}
    /\ item' = [i \in Items |->
           IF i \in Pending(o)
           THEN [item[i] EXCEPT !.status = "NEW", !.tickets = @ + 1]
           ELSE item[i]]
    /\ UNCHANGED <<order, session, lapsed, gate, tableActive, reprinted, req>>

RejectPendingItems(o) ==
    /\ order[o].status = "OPEN"
    /\ Pending(o) # {}
    /\ SetStatus(Pending(o), "CANCELLED")
    /\ UNCHANGED <<order, session, lapsed, gate, tableActive, reprinted, req>>

\* _ITEM_ALLOWED, cut to the targets the kitchen and waiter endpoints ask for.
ItemAllowed(s) ==
    CASE s = "PENDING_APPROVAL" -> {"CANCELLED"}
      [] s = "NEW"              -> {"PREPARING", "SERVED", "CANCELLED"}
      [] s = "PREPARING"        -> {"READY", "SERVED"}
      [] s = "READY"            -> {"SERVED"}
      [] OTHER                  -> {}

\* Locks the item row only; the order's status is not looked at.
TransitionItem(i, s) ==
    /\ s \in ItemAllowed(item[i].status)
    /\ SetStatus({i}, s)
    /\ UNCHANGED <<order, session, lapsed, gate, tableActive, reprinted, req>>

\* A whole-order reprint, from any order row the staff device still shows.
RequestKotPrint(o) ==
    /\ order[o].status # "none"
    /\ reprinted' = reprinted \cup Billable(o)
    /\ UNCHANGED <<order, item, session, lapsed, gate, tableActive, req>>

-----------------------------------------------------------------------------
(* Order transitions by staff *)

FinishMeal(o) ==
    /\ order[o].status = "OPEN"
    /\ order[o].bill
    /\ Pending(o) = {}
    /\ order' = [order EXCEPT ![o].status = "MEAL_FINISHED"]
    /\ UNCHANGED <<item, session, lapsed, gate, tableActive, reprinted, req>>

Reopen(o) ==
    /\ order[o].status = "MEAL_FINISHED"
    /\ order' = [order EXCEPT ![o].status = "OPEN"]
    /\ UNCHANGED <<item, session, lapsed, gate, tableActive, reprinted, req>>

CloseOrderAndResetTable(o) ==
    /\ order' = [order EXCEPT ![o] =
           [status |-> "CLOSED", bill |-> FALSE, session |-> order[o].session]]
    /\ session' = [s \in Sessions |->
           IF session[s] = "ACTIVE" THEN "INVALIDATED" ELSE session[s]]
    /\ UNCHANGED <<item, lapsed, gate, tableActive, reprinted, req>>

CloseUnpaid(o) ==
    /\ order[o].status \in LiveStatus
    /\ CloseOrderAndResetTable(o)

\* Any payment of the order's invoice; the invoices are those of Billing.
Settle(o) ==
    /\ order[o].status = "MEAL_FINISHED"
    /\ CloseOrderAndResetTable(o)

QuickBill(o) ==
    /\ order[o].status = "OPEN"
    /\ order[o].bill
    /\ Pending(o) = {}
    /\ Billable(o) # {}
    /\ CloseOrderAndResetTable(o)

-----------------------------------------------------------------------------
(* The administrator *)

ToggleApproval ==
    /\ gate' = ~gate
    /\ UNCHANGED <<order, item, session, lapsed, tableActive, reprinted, req>>

\* UPDATE of the table row: waits for an append that holds it.
ToggleTable ==
    /\ ~TableLocked
    /\ tableActive' = ~tableActive
    /\ UNCHANGED <<order, item, session, lapsed, gate, reprinted, req>>

-----------------------------------------------------------------------------

Guest(r) ==
    \/ ScanTable(r) \/ FindSession(r) \/ CreateSession(r)
    \/ \E s \in Sessions :
           Admit(r, s, "place") \/ Admit(r, s, "bill") \/ FindExpired(r, s)
    \/ MarkExpired(r)
    \/ LockTable(r) \/ RefusePlace(r)
    \/ \E batch \in SUBSET Items : CommitPlace(r, batch)
    \/ ReadForBill(r) \/ StampBill(r)
    \/ Abort(r)

Staff(o) ==
    \/ StaffStartBilling(o)
    \/ ApprovePendingItems(o) \/ RejectPendingItems(o)
    \/ RequestKotPrint(o)
    \/ FinishMeal(o) \/ Reopen(o)
    \/ CloseUnpaid(o) \/ Settle(o) \/ QuickBill(o)

Next ==
    \/ \E r \in Requests : Guest(r)
    \/ \E o \in Orders : Staff(o)
    \/ \E i \in Items : \E s \in {"PREPARING", "READY", "SERVED", "CANCELLED"} :
           TransitionItem(i, s)
    \/ \E s \in Sessions : InvalidateSession(s) \/ Lapse(s)
    \/ ToggleApproval \/ ToggleTable

Spec == Init /\ [][Next]_vars

(***************************************************************************)
(* Fairness: a request thread runs on until it waits for the table row     *)
(* (weak); PostgreSQL queues the waiters of a row, so one that is refused  *)
(* the lock now and again gets it in the end (strong).  A request that has *)
(* the lock commits, or rolls back over an item it cannot sell.            *)
(***************************************************************************)
Release(r) ==
    \/ \E batch \in SUBSET Items : CommitPlace(r, batch)
    \/ CreateSession(r)
    \/ req[r].pc \in {"placing", "creating"} /\ Abort(r)

EnterPlace(r) == LockTable(r) \/ RefusePlace(r)

Fairness ==
    \A r \in Requests :
        /\ SF_vars(EnterPlace(r))
        /\ WF_vars(Release(r))
        /\ WF_vars(ReadForBill(r) \/ StampBill(r))

FairSpec == Spec /\ Fairness

-----------------------------------------------------------------------------
(* Properties *)

\* Every variable has the shape the code's rows have.
TypeOK ==
    /\ order \in [Orders -> [status : {"none", "OPEN", "MEAL_FINISHED", "CLOSED"},
                             bill : BOOLEAN, session : Sessions \cup {Null}]]
    /\ item \in [Items -> [status : {"none", "PENDING_APPROVAL", "CANCELLED"} \cup Accepted,
                           order : Orders \cup {Null}, tickets : Nat]]
    /\ session \in [Sessions -> {"none", "ACTIVE", "EXPIRED", "INVALIDATED"}]
    /\ lapsed \subseteq Sessions
    /\ gate \in BOOLEAN
    /\ tableActive \in BOOLEAN
    /\ reprinted \subseteq Items
    /\ req \in [Requests ->
           [pc : {"idle", "scanning", "creating", "expiring",
                  "place", "placing", "bill", "billing"},
            session : Sessions \cup {Null}, order : Orders \cup {Null}]]

(***************************************************************************)
(* The unique index uq_orders_active_table is never hit: two guests whose  *)
(* first rounds race do not each open an order for the table.              *)
(***************************************************************************)
OneLiveOrder == \A o, p \in LiveOrders : o = p

(***************************************************************************)
(* All the guests who scan the code share one session: no race of scans,   *)
(* expiry and closing leaves two usable tokens, which create_or_reuse's    *)
(* scalar_one_or_none() would answer with a server error for ever after.   *)
(***************************************************************************)
OneLiveSession == \A s, t \in LiveSessions : s = t

(***************************************************************************)
(* The kitchen is told of an item by exactly one first ticket, when the    *)
(* item is accepted, however rounds, approvals, rejections and the gate    *)
(* setting interleave; and no reprint leaks an item nobody accepted.       *)
(***************************************************************************)
TicketedOnce ==
    \A i \in Items :
        /\ item[i].status \in Accepted => item[i].tickets = 1
        /\ item[i].status \in {"none", "PENDING_APPROVAL"} => item[i].tickets = 0
        /\ item[i].tickets <= 1
        /\ i \in reprinted => item[i].tickets = 1

(***************************************************************************)
(* Work the kitchen finished or the staff cancelled stays so, and an item  *)
(* never changes order: a batch approval touches no item but the pending.  *)
(***************************************************************************)
ItemsSettle ==
    [][\A i \in Items :
          /\ item[i].status # "none" => item'[i].order = item[i].order
          /\ item[i].status \in {"SERVED", "CANCELLED"} =>
                 item'[i].status = item[i].status]_vars

(***************************************************************************)
(* A table switched off takes no item: the switch waits for the append     *)
(* that holds the table row, and the append that comes after it sees it.   *)
(***************************************************************************)
InactiveTableTakesNothing ==
    [][(\E i \in Items : item[i].status = "none" /\ item'[i].status # "none")
          => tableActive]_vars

\* The table's orders live as OrderLifecycle promises, across all its parties.
Lifecycle == INSTANCE OrderLifecycle WITH status <- [o \in Orders |-> order[o].status]

LifecycleSpec == Lifecycle!Spec

(***************************************************************************)
(* A guest's append or bill request is answered: no interleaving leaves it *)
(* waiting for the table row.                                              *)
(***************************************************************************)
RequestsAnswered ==
    \A r \in Requests : req[r].pc \in {"place", "bill"} ~> req[r].pc = "idle"

(***************************************************************************)
(* order_service: "Appending items is only allowed when the order is OPEN."*)
(* The append reads the status before a staff handler changes it and       *)
(* inserts afterwards.                                                     *)
(***************************************************************************)
AppendsOnlyToOpenOrders ==
    [][\A i \in Items :
          item[i].status = "none" /\ item'[i].status # "none" =>
              order'[item'[i].order].status = "OPEN"]_vars

=============================================================================
