------------------------------ MODULE Billing -------------------------------
(***************************************************************************)
(* Invoices and payments of the orders of a restaurant: the two-step and   *)
(* the one-tap bill, counter payments with an idempotency key, gateway     *)
(* payments whose callbacks come late, twice or never, the administrator's *)
(* override, and the close without payment.                                *)
(*                                                                         *)
(* A transaction that locks one row and commits is one action.  Those that *)
(* lock two rows are two actions, with the first lock held in between:     *)
(* payments lock the invoice and then the order, close_unpaid locks the    *)
(* order and then its invoices.  PostgreSQL breaks the deadlock of such a  *)
(* pair by aborting either.  `proc' is the work of the threads that hold a *)
(* first lock.                                                             *)
(*                                                                         *)
(* An append to the order read it OPEN some time before it inserts         *)
(* (TableOrders); the appends under way are `appending'.                   *)
(***************************************************************************)
EXTENDS Naturals, FiniteSets

CONSTANTS
    Orders,         \* orders, each live at a table of its own
    Items,          \* order_items rows that may be inserted
    Invoices,       \* invoices rows that may be inserted
    Procs,          \* threads that may hold a first lock
    Keys,           \* Idempotency-Key headers of the staff clients
    Txns,           \* transaction ids of the gateways
    Null            \* an absent row, or a NULL column

ASSUME BillingNull == Null \notin Orders \cup Invoices \cup Keys \cup Txns

VARIABLES
    order,          \* [Orders -> [status, bill]]
    item,           \* [Items -> [order, status]]; "billable" is NEW to SERVED
    appending,      \* orders an append has read OPEN and not inserted into yet
    invoice,        \* [Invoices -> [status, order, items, key]]
    intents,        \* invoices a gateway has been asked to collect
    callbacks,      \* what the gateways have reported, to be delivered at will
    proc            \* [Procs -> [op, invoice, order, key]]

vars == <<order, item, appending, invoice, intents, callbacks, proc>>

Collectible == {"DRAFT", "PENDING_PAYMENT"}
Active      == Collectible \cup {"PAID"}

-----------------------------------------------------------------------------
(* Queries *)

ItemsIn(o, s) == {i \in Items : item[i] = [order |-> o, status |-> s]}

InvoicesIn(o, S) == {v \in Invoices : invoice[v].order = o /\ invoice[v].status \in S}

PayOps == {"counter", "webhook", "override"}

InvoiceLocked(v) == \E p \in Procs : proc[p].op \in PayOps /\ proc[p].invoice = v

OrderLocked(o) == \E p \in Procs : proc[p].op = "close_unpaid" /\ proc[p].order = o

\* UNIQUE (gateway_transaction_id), NULLs apart.
KeyFree(k, v) == k = Null \/ \A w \in Invoices \ {v} : invoice[w].key # k

IdleProc == [op |-> "idle", invoice |-> Null, order |-> Null, key |-> Null]

Finish(p) == proc' = [proc EXCEPT ![p] = IdleProc]

Init ==
    /\ order = [o \in Orders |-> [status |-> "OPEN", bill |-> FALSE]]
    /\ item = [i \in Items |-> [order |-> Null, status |-> "none"]]
    /\ appending = {}
    /\ invoice = [v \in Invoices |->
           [status |-> "none", order |-> Null, items |-> {}, key |-> Null]]
    /\ intents = {}
    /\ callbacks = {}
    /\ proc = [p \in Procs |-> IdleProc]

-----------------------------------------------------------------------------
(* The order, as far as billing depends on it *)

BeginAppend(o) ==
    /\ order[o].status = "OPEN"
    /\ appending' = appending \cup {o}
    /\ UNCHANGED <<order, item, invoice, intents, callbacks, proc>>

\* One item, behind the approval gate or not; it waits for the order's lock.
FinishAppend(o, i) ==
    /\ o \in appending
    /\ ~OrderLocked(o)
    /\ item[i].status = "none"
    /\ \E s \in {"pending", "billable"} :
           item' = [item EXCEPT ![i] = [order |-> o, status |-> s]]
    /\ appending' = appending \ {o}
    /\ UNCHANGED <<order, invoice, intents, callbacks, proc>>

DecidePending(o) ==
    /\ ~OrderLocked(o)
    /\ order[o].status = "OPEN"
    /\ ItemsIn(o, "pending") # {}
    /\ \E s \in {"billable", "cancelled"} :
           item' = [i \in Items |->
               IF i \in ItemsIn(o, "pending") THEN [item[i] EXCEPT !.status = s] ELSE item[i]]
    /\ UNCHANGED <<order, appending, invoice, intents, callbacks, proc>>

\* The kitchen cancels an item, whatever has become of its order.
CancelItem(i) ==
    /\ item[i].status \in {"pending", "billable"}
    /\ item' = [item EXCEPT ![i].status = "cancelled"]
    /\ UNCHANGED <<order, appending, invoice, intents, callbacks, proc>>

RequestBill(o) ==
    /\ ~OrderLocked(o)
    /\ order[o].status = "OPEN"
    /\ order' = [order EXCEPT ![o].bill = TRUE]
    /\ UNCHANGED <<item, appending, invoice, intents, callbacks, proc>>

FinishMeal(o) ==
    /\ ~OrderLocked(o)
    /\ order[o].status = "OPEN"
    /\ order[o].bill
    /\ ItemsIn(o, "pending") = {}
    /\ order' = [order EXCEPT ![o].status = "MEAL_FINISHED"]
    /\ UNCHANGED <<item, appending, invoice, intents, callbacks, proc>>

\* Mutant: a closed order can be reopened as well.
ReopenAnything(o) ==
    /\ ~OrderLocked(o)
    /\ order[o].status # "OPEN"
    /\ order' = [order EXCEPT ![o].status = "OPEN"]
    /\ UNCHANGED <<item, appending, invoice, intents, callbacks, proc>>

\* The invoices of the order are left as they are.
Reopen(o) ==
    /\ ~OrderLocked(o)
    /\ order[o].status = "MEAL_FINISHED"
    /\ order' = [order EXCEPT ![o].status = "OPEN"]
    /\ UNCHANGED <<item, appending, invoice, intents, callbacks, proc>>

CloseOrder(o) == order' = [order EXCEPT ![o] = [status |-> "CLOSED", bill |-> FALSE]]

-----------------------------------------------------------------------------
(* Bills *)

\* Mutant: a bill the gateway is collecting does not stop a new one.
GenerateBesidePending(o, v) ==
    /\ ~OrderLocked(o)
    /\ order[o].status = "MEAL_FINISHED"
    /\ InvoicesIn(o, {"DRAFT", "PAID"}) = {}
    /\ ItemsIn(o, "billable") # {}
    /\ invoice[v].status = "none"
    /\ invoice' = [invoice EXCEPT ![v] =
           [status |-> "DRAFT", order |-> o, items |-> ItemsIn(o, "billable"), key |-> Null]]
    /\ UNCHANGED <<order, item, appending, intents, callbacks, proc>>

\* FOR UPDATE on the order; the invoices and items are then read unlocked.
GenerateInvoice(o, v) ==
    /\ ~OrderLocked(o)
    /\ order[o].status = "MEAL_FINISHED"
    /\ InvoicesIn(o, Active) = {}
    /\ ItemsIn(o, "pending") = {}
    /\ ItemsIn(o, "billable") # {}
    /\ invoice[v].status = "none"
    /\ invoice' = [invoice EXCEPT ![v] =
           [status |-> "DRAFT", order |-> o, items |-> ItemsIn(o, "billable"), key |-> Null]]
    /\ UNCHANGED <<order, item, appending, intents, callbacks, proc>>

\* Bill, pay and close in one transaction that locks the order only.  A key
\* some other invoice carries is refused by the unique index at the commit.
QuickBill(o, v, k) ==
    /\ ~OrderLocked(o)
    /\ order[o].status = "OPEN"
    /\ order[o].bill
    /\ ItemsIn(o, "pending") = {}
    /\ InvoicesIn(o, Active) = {}
    /\ ItemsIn(o, "billable") # {}
    /\ invoice[v].status = "none"
    /\ KeyFree(k, v)
    /\ invoice' = [invoice EXCEPT ![v] =
           [status |-> "PAID", order |-> o, items |-> ItemsIn(o, "billable"), key |-> k]]
    /\ CloseOrder(o)
    /\ UNCHANGED <<item, appending, intents, callbacks, proc>>

-----------------------------------------------------------------------------
(* Payments: the invoice is locked and judged first, then the order *)

LockInvoice(p, v, op, k) ==
    /\ proc[p].op = "idle"
    /\ ~InvoiceLocked(v)
    /\ invoice[v].status \in Collectible
    /\ proc' = [proc EXCEPT ![p] =
           [op |-> op, invoice |-> v, order |-> invoice[v].order, key |-> k]]
    /\ UNCHANGED <<order, item, appending, invoice, intents, callbacks>>

RecordCounterPayment(p, v, k) == LockInvoice(p, v, "counter", k)

\* Mutant: the override does not ask for the transition.  (Its docstring promises
\* just that, "any non-PAID invoice"; the code does ask.)
OverrideUnpaid(p, v) ==
    /\ proc[p].op = "idle"
    /\ ~InvoiceLocked(v)
    /\ invoice[v].status \in {"FAILED", "VOID"} \cup Collectible
    /\ proc' = [proc EXCEPT ![p] =
           [op |-> "override", invoice |-> v, order |-> invoice[v].order, key |-> Null]]
    /\ UNCHANGED <<order, item, appending, invoice, intents, callbacks>>

ManualOverride(p, v) == LockInvoice(p, v, "override", Null)

\* Mutant: whatever the gateway reports is taken for a payment.
HandleAnyReport(p, c) ==
    /\ invoice[c.invoice].key # c.txn
    /\ LockInvoice(p, c.invoice, "webhook", c.txn)

\* A callback is delivered any number of times; one whose transaction the
\* invoice already carries, or that finds it settled, changes nothing.
HandlePaid(p, c) ==
    /\ c.status = "PAID"
    /\ invoice[c.invoice].key # c.txn
    /\ LockInvoice(p, c.invoice, "webhook", c.txn)

HandleFailed(c) ==
    /\ c.status = "FAILED"
    /\ ~InvoiceLocked(c.invoice)
    /\ invoice[c.invoice].key # c.txn
    /\ invoice[c.invoice].status = "PENDING_PAYMENT"
    /\ KeyFree(c.txn, c.invoice)
    /\ invoice' = [invoice EXCEPT ![c.invoice].status = "FAILED",
                                  ![c.invoice].key = c.txn]
    /\ UNCHANGED <<order, item, appending, intents, callbacks, proc>>

\* With both locks: credit the invoice and close the order ...
CommitPayment(p) ==
    LET v == proc[p].invoice
        o == proc[p].order
        k == IF proc[p].key = Null THEN invoice[v].key ELSE proc[p].key
    IN  /\ proc[p].op \in PayOps
        /\ ~OrderLocked(o)
        /\ order[o].status = "MEAL_FINISHED"
        /\ KeyFree(k, v)
        /\ invoice' = [invoice EXCEPT ![v].status = "PAID", ![v].key = k]
        /\ CloseOrder(o)
        /\ Finish(p)
        /\ UNCHANGED <<item, appending, intents, callbacks>>

\* Mutant: an order that left billing meanwhile is waited for.
RefuseTakenKey(p) ==
    /\ proc[p].op \in PayOps
    /\ ~OrderLocked(proc[p].order)
    /\ ~KeyFree(proc[p].key, proc[p].invoice)
    /\ Finish(p)
    /\ UNCHANGED <<order, item, appending, invoice, intents, callbacks>>

\* ... or answer 409: the order is not in billing, or the key is taken.
RefusePayment(p) ==
    /\ proc[p].op \in PayOps
    /\ ~OrderLocked(proc[p].order)
    /\ \/ order[proc[p].order].status # "MEAL_FINISHED"
       \/ ~KeyFree(proc[p].key, proc[p].invoice)
    /\ Finish(p)
    /\ UNCHANGED <<order, item, appending, invoice, intents, callbacks>>

-----------------------------------------------------------------------------
(* The close without payment: the order is locked first, then the invoices *)

LockOrder(p, o) ==
    /\ proc[p].op = "idle"
    /\ ~OrderLocked(o)
    /\ order[o].status # "CLOSED"
    /\ proc' = [proc EXCEPT ![p] =
           [op |-> "close_unpaid", invoice |-> Null, order |-> o, key |-> Null]]
    /\ UNCHANGED <<order, item, appending, invoice, intents, callbacks>>

\* Mutant: only drafts are voided.
CloseVoidingDrafts(p) ==
    LET o == proc[p].order
    IN  /\ proc[p].op = "close_unpaid"
        /\ invoice' = [v \in Invoices |->
               IF v \in InvoicesIn(o, {"DRAFT"})
               THEN [invoice[v] EXCEPT !.status = "VOID"] ELSE invoice[v]]
        /\ CloseOrder(o)
        /\ Finish(p)
        /\ UNCHANGED <<item, appending, intents, callbacks>>

CommitClose(p) ==
    LET o == proc[p].order
    IN  /\ proc[p].op = "close_unpaid"
        /\ \A v \in InvoicesIn(o, Collectible) : ~InvoiceLocked(v)
        /\ invoice' = [v \in Invoices |->
               IF v \in InvoicesIn(o, Collectible)
               THEN [invoice[v] EXCEPT !.status = "VOID"] ELSE invoice[v]]
        /\ CloseOrder(o)
        /\ Finish(p)
        /\ UNCHANGED <<item, appending, intents, callbacks>>

\* p and q wait for each other's row: PostgreSQL aborts either.
AbortDeadlock(p) ==
    /\ \E q, r \in Procs :
           /\ p \in {q, r}
           /\ proc[q].op \in PayOps
           /\ proc[r].op = "close_unpaid"
           /\ proc[r].order = proc[q].order
           /\ proc[q].invoice \in InvoicesIn(proc[r].order, Collectible)
    /\ Finish(p)
    /\ UNCHANGED <<order, item, appending, invoice, intents, callbacks>>

\* A thread dies, or its connection does: its transaction is rolled back.
Crash(p) ==
    /\ proc[p].op # "idle"
    /\ Finish(p)
    /\ UNCHANGED <<order, item, appending, invoice, intents, callbacks>>

-----------------------------------------------------------------------------
(* The gateways *)

\* create_intent calls the gateway before it commits the new status, so a
\* failed commit leaves the gateway asked to collect a DRAFT.
CreatePaymentIntent(v) ==
    /\ ~InvoiceLocked(v)
    /\ invoice[v].status \in Collectible
    /\ intents' = intents \cup {v}
    /\ \/ invoice' = [invoice EXCEPT ![v].status = "PENDING_PAYMENT"]
       \/ UNCHANGED invoice
    /\ UNCHANGED <<order, item, appending, callbacks, proc>>

\* A guest's attempt at the gateway ends; its transaction id is new.
GatewayReports(v, t) ==
    /\ v \in intents
    /\ \A c \in callbacks : c.txn # t
    /\ \E s \in {"PAID", "FAILED"} :
           callbacks' = callbacks \cup {[invoice |-> v, txn |-> t, status |-> s]}
    /\ UNCHANGED <<order, item, appending, invoice, intents, proc>>

-----------------------------------------------------------------------------

Next ==
    \/ \E o \in Orders :
          \/ BeginAppend(o) \/ DecidePending(o) \/ RequestBill(o)
          \/ FinishMeal(o) \/ Reopen(o)
          \/ \E i \in Items : FinishAppend(o, i)
          \/ \E v \in Invoices : GenerateInvoice(o, v)
          \/ \E v \in Invoices, k \in Keys \cup {Null} : QuickBill(o, v, k)
    \/ \E i \in Items : CancelItem(i)
    \/ \E p \in Procs :
          \/ \E v \in Invoices :
                \/ ManualOverride(p, v)
                \/ \E k \in Keys \cup {Null} : RecordCounterPayment(p, v, k)
          \/ \E c \in callbacks : HandlePaid(p, c)
          \/ CommitPayment(p) \/ RefusePayment(p)
          \/ \E o \in Orders : LockOrder(p, o)
          \/ CommitClose(p) \/ AbortDeadlock(p) \/ Crash(p)
    \/ \E c \in callbacks : HandleFailed(c)
    \/ \E v \in Invoices :
          CreatePaymentIntent(v) \/ \E t \in Txns : GatewayReports(v, t)

Spec == Init /\ [][Next]_vars

(***************************************************************************)
(* Fairness: a thread that holds its locks runs to its commit or answer,   *)
(* and PostgreSQL's deadlock detector runs.  Nothing else is assumed.      *)
(***************************************************************************)
Fairness ==
    \A p \in Procs :
        WF_vars(CommitPayment(p) \/ RefusePayment(p) \/ CommitClose(p) \/ AbortDeadlock(p))

FairSpec == Spec /\ Fairness

-----------------------------------------------------------------------------
(* Properties *)

\* The columns hold the values of the schema's types.
TypeOK ==
    /\ order \in [Orders -> [status : {"OPEN", "MEAL_FINISHED", "CLOSED"}, bill : BOOLEAN]]
    /\ item \in [Items -> [order : Orders \cup {Null},
                           status : {"none", "pending", "billable", "cancelled"}]]
    /\ appending \subseteq Orders
    /\ invoice \in [Invoices ->
           [status : {"none", "FAILED", "VOID"} \cup Active, order : Orders \cup {Null},
            items : SUBSET Items, key : Keys \cup Txns \cup {Null}]]
    /\ intents \subseteq Invoices
    /\ callbacks \subseteq [invoice : Invoices, txn : Txns, status : {"PAID", "FAILED"}]
    /\ proc \in [Procs -> [op : {"idle", "close_unpaid"} \cup PayOps,
                           invoice : Invoices \cup {Null}, order : Orders \cup {Null},
                           key : Keys \cup Txns \cup {Null}]]

(***************************************************************************)
(* No two bills of an order are payable, or paid, at once - over every     *)
(* race of generation, one-tap bill, payment, failure and reopening.       *)
(***************************************************************************)
OneActiveInvoice ==
    \A o \in Orders : \A v, w \in InvoicesIn(o, Active) : v = w

(***************************************************************************)
(* The books and the floor agree at every commit: a paid bill's order is   *)
(* closed, and a closed order has no bill anyone could still collect.      *)
(***************************************************************************)
BooksMatchFloor ==
    \A v \in Invoices :
        /\ invoice[v].status = "PAID" => order[invoice[v].order].status = "CLOSED"
        /\ invoice[v].status \in Collectible => order[invoice[v].order].status # "CLOSED"

(***************************************************************************)
(* What a gateway transaction did to an invoice is what the gateway said   *)
(* of that transaction and that invoice, though reports are late, repeated *)
(* and out of order.  A string that is a staff client's Idempotency-Key as *)
(* well says nothing: the column holds either.                             *)
(***************************************************************************)
CreditsAreReported ==
    \A v \in Invoices : invoice[v].key \in Txns \ Keys =>
        [invoice |-> v, txn |-> invoice[v].key, status |-> invoice[v].status] \in callbacks

(***************************************************************************)
(* A settled bill is final: its status, its items and its transaction      *)
(* never change, whatever arrives late: VALID_INVOICE_TRANSITIONS has no   *)
(* way out of PAID, FAILED and VOID, and every payment asks it.  (The      *)
(* docstring of manual_override promises to mark "any non-PAID invoice as  *)
(* PAID"; the code refuses a FAILED and a VOID one.)                       *)
(***************************************************************************)
SettledForGood ==
    [][\A v \in Invoices :
          invoice[v].status \in {"PAID", "FAILED", "VOID"} => invoice'[v] = invoice[v]]_vars

\* Each order lives as OrderLifecycle promises of a table's order.
Lifecycle(o) == INSTANCE OrderLifecycle
                    WITH Orders <- {o}, status <- [x \in {o} |-> order[x].status]

\* The order exists when billing begins, so only the steps are compared.
LifecycleSteps ==
    [][\A o \in Orders : [Lifecycle(o)!Next]_(order[o].status)]_vars

BillOf(o) ==
    IF order[o].status # "CLOSED" THEN "open"
    ELSE IF InvoicesIn(o, {"PAID"}) # {} THEN "paid" ELSE "written_off"

\* Every order is paid once or written off once.
Books == INSTANCE Settlement WITH bill <- [o \in Orders |-> BillOf(o)]

SettlementSpec == Books!Spec

(***************************************************************************)
(* No payment and no close stays blocked, though they lock in opposite     *)
(* orders.                                                                 *)
(***************************************************************************)
LocksReleased == \A p \in Procs : proc[p].op # "idle" ~> proc[p].op = "idle"

(***************************************************************************)
(* quick_bill_and_close: "no active invoice should exist on an OPEN        *)
(* order".  Reopening leaves the bill where it is.                         *)
(***************************************************************************)
NoBillOnOpenOrder ==
    \A v \in Invoices :
        invoice[v].status \in Active => order[invoice[v].order].status # "OPEN"

(***************************************************************************)
(* The guest's bill page reads the order's bills that are not VOID with    *)
(* scalar_one_or_none(), which asserts there is at most one.               *)
(***************************************************************************)
OwnInvoiceIsUnique ==
    \A o \in Orders :
        order[o].status # "CLOSED" =>
            \A v, w \in InvoicesIn(o, {"FAILED"} \cup Active) : v = w

=============================================================================
