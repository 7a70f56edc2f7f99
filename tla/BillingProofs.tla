--------------------------- MODULE BillingProofs ----------------------------
(***************************************************************************)
(* The books of Billing, for any number of orders, invoices, threads, keys *)
(* and gateway transactions.  The properties lean on each other and on     *)
(* what the threads hold: a payment that was judged while its invoice was  *)
(* locked still finds it collectible at the commit, a close still finds    *)
(* its order live, and a webhook carries what a gateway reported.          *)
(***************************************************************************)
EXTENDS Billing, TLAPS

OrderRow   == [status : {"OPEN", "MEAL_FINISHED", "CLOSED"}, bill : BOOLEAN]
ItemRow    == [order : Orders \cup {Null}, status : {"none", "pending", "billable", "cancelled"}]
InvoiceRow == [status : {"none", "FAILED", "VOID"} \cup Active, order : Orders \cup {Null},
               items : SUBSET Items, key : Keys \cup Txns \cup {Null}]
Report     == [invoice : Invoices, txn : Txns, status : {"PAID", "FAILED"}]
Work       == [op : {"idle", "close_unpaid"} \cup PayOps, invoice : Invoices \cup {Null},
               order : Orders \cup {Null}, key : Keys \cup Txns \cup {Null}]

\* Only a row that was inserted has an order; one that can still be
\* collected has no transaction yet.
BilledOrder ==
    \A v \in Invoices :
        /\ invoice[v].status # "none" => invoice[v].order \in Orders
        /\ invoice[v].status \in {"none"} \cup Collectible => invoice[v].key = Null

\* Who pays an invoice holds it alone, and it is still collectible.
PayHolds ==
    \A p \in Procs : proc[p].op \in PayOps =>
        /\ proc[p].invoice \in Invoices
        /\ invoice[proc[p].invoice].status \in Collectible
        /\ proc[p].order = invoice[proc[p].invoice].order
        /\ \A q \in Procs : proc[q].op \in PayOps /\ proc[q].invoice = proc[p].invoice => p = q

\* Who closes an order holds it alone, and it is still live.
CloseHolds ==
    \A p \in Procs : proc[p].op = "close_unpaid" =>
        /\ proc[p].order \in Orders
        /\ order[proc[p].order].status # "CLOSED"
        /\ \A q \in Procs : proc[q].op = "close_unpaid" /\ proc[q].order = proc[p].order => p = q

\* A webhook pays with a transaction reported PAID, staff with a key of theirs.
KeyOfPayment ==
    \A p \in Procs :
        /\ proc[p].op = "webhook" =>
               [invoice |-> proc[p].invoice, txn |-> proc[p].key, status |-> "PAID"] \in callbacks
        /\ proc[p].op # "webhook" => proc[p].key \in Keys \cup {Null}

BillInv ==
    /\ TypeOK
    /\ OneActiveInvoice /\ BooksMatchFloor /\ CreditsAreReported
    /\ BilledOrder /\ PayHolds /\ CloseHolds /\ KeyOfPayment

LEMMA InitBill == Init => BillInv
  <1> SUFFICES ASSUME Init PROVE BillInv
    OBVIOUS
  <1>1. TypeOK
    BY DEF Init, TypeOK, IdleProc
  <1>2. OneActiveInvoice /\ BooksMatchFloor /\ BilledOrder
    BY DEF Init, OneActiveInvoice, InvoicesIn, Active, Collectible, BooksMatchFloor, BilledOrder
  <1>3. CreditsAreReported
    BY BillingNull DEF Init, CreditsAreReported
  <1>4. PayHolds /\ CloseHolds /\ KeyOfPayment
    BY DEF Init, IdleProc, PayOps, PayHolds, CloseHolds, KeyOfPayment
  <1> QED
    BY <1>1, <1>2, <1>3, <1>4 DEF BillInv

-----------------------------------------------------------------------------
(* The order and its items *)

\* A step that leaves bills and threads alone and closes or revives no order.
LEMMA FloorKept ==
  ASSUME BillInv, TypeOK', UNCHANGED <<invoice, proc>>, callbacks \subseteq callbacks',
         \A o \in Orders : order'[o].status = "CLOSED" <=> order[o].status = "CLOSED"
  PROVE  BillInv'
  <1>1. OneActiveInvoice' /\ BilledOrder' /\ PayHolds'
    BY DEF BillInv, OneActiveInvoice, InvoicesIn, BilledOrder, PayHolds
  <1>2. BooksMatchFloor'
    BY DEF BillInv, BooksMatchFloor, BilledOrder, Collectible
  <1>3. CreditsAreReported' /\ KeyOfPayment'
    BY DEF BillInv, CreditsAreReported, KeyOfPayment
  <1>4. CloseHolds'
    BY DEF BillInv, CloseHolds
  <1> QED
    BY <1>1, <1>2, <1>3, <1>4 DEF BillInv

LEMMA ItemSteps ==
  ASSUME BillInv,
         \/ \E o \in Orders :
               BeginAppend(o) \/ DecidePending(o) \/ \E i \in Items : FinishAppend(o, i)
         \/ \E i \in Items : CancelItem(i)
  PROVE  BillInv'
  <1> USE DEF BillInv
  <1>1. UNCHANGED <<order, invoice, intents, callbacks, proc>>
    BY DEF BeginAppend, DecidePending, FinishAppend, CancelItem
  <1>2. item \in [Items -> ItemRow] /\ appending \subseteq Orders
    BY DEF TypeOK, ItemRow
  <1> DEFINE Kept == item' \in [Items -> ItemRow] /\ appending' \subseteq Orders
  <1>3. Kept
    <2>1. ASSUME NEW o \in Orders, BeginAppend(o) PROVE Kept
      BY <1>2, <2>1 DEF BeginAppend
    <2>2. ASSUME NEW o \in Orders, DecidePending(o) PROVE Kept
      BY <1>2, <2>2 DEF DecidePending, ItemRow
    <2>3. ASSUME NEW o \in Orders, NEW i \in Items, FinishAppend(o, i) PROVE Kept
      BY <1>2, <2>3 DEF FinishAppend, ItemRow
    <2>4. ASSUME NEW i \in Items, CancelItem(i) PROVE Kept
      BY <1>2, <2>4 DEF CancelItem, ItemRow
    <2> QED BY <2>1, <2>2, <2>3, <2>4
  <1>4. TypeOK'
    BY <1>1, <1>3 DEF TypeOK, ItemRow
  <1> QED
    BY <1>1, <1>4, FloorKept

LEMMA OrderSteps ==
  ASSUME BillInv, NEW o \in Orders, RequestBill(o) \/ FinishMeal(o) \/ Reopen(o)
  PROVE  BillInv'
  <1>1. UNCHANGED <<item, appending, invoice, intents, callbacks, proc>>
    BY DEF RequestBill, FinishMeal, Reopen
  <1>2. order \in [Orders -> OrderRow]
    BY DEF BillInv, TypeOK, OrderRow
  <1>3. /\ order' \in [Orders -> OrderRow]
        /\ \A x \in Orders : order'[x].status = "CLOSED" <=> order[x].status = "CLOSED"
    BY <1>2 DEF RequestBill, FinishMeal, Reopen, OrderRow
  <1>4. TypeOK'
    BY <1>1, <1>3 DEF BillInv, TypeOK, OrderRow
  <1> QED
    BY <1>1, <1>3, <1>4, FloorKept

-----------------------------------------------------------------------------
(* The threads *)

\* A step of a thread that touches no row leaves the books as they are.
LEMMA BooksKept ==
  ASSUME BillInv, UNCHANGED <<order, item, appending, invoice, intents, callbacks>>,
         proc' \in [Procs -> Work], PayHolds', CloseHolds', KeyOfPayment'
  PROVE  BillInv'
  <1>1. TypeOK'
    BY DEF BillInv, TypeOK, Work
  <1>2. OneActiveInvoice' /\ BooksMatchFloor' /\ CreditsAreReported' /\ BilledOrder'
    BY DEF BillInv, OneActiveInvoice, InvoicesIn, BooksMatchFloor, CreditsAreReported, BilledOrder
  <1> QED
    BY <1>1, <1>2 DEF BillInv

\* A thread that gives its lock up takes no claim from the others.
LEMMA FinishKept ==
  ASSUME BillInv, NEW p \in Procs, Finish(p),
         UNCHANGED <<order, item, appending, invoice, intents, callbacks>>
  PROVE  BillInv'
  <1>1. proc \in [Procs -> Work]
    BY DEF BillInv, TypeOK, Work
  <1>2. /\ proc' \in [Procs -> Work]
        /\ proc'[p].op = "idle" /\ proc'[p].key = Null
        /\ \A q \in Procs \ {p} : proc'[q] = proc[q]
    BY <1>1 DEF Finish, IdleProc, Work
  <1>3. PayHolds'
    BY <1>2 DEF BillInv, PayHolds, PayOps
  <1>4. CloseHolds'
    BY <1>2 DEF BillInv, CloseHolds
  <1>5. KeyOfPayment'
    BY <1>2 DEF BillInv, KeyOfPayment
  <1> QED
    BY <1>2, <1>3, <1>4, <1>5, BooksKept

LEMMA GivingUp ==
  ASSUME BillInv, NEW p \in Procs, RefusePayment(p) \/ AbortDeadlock(p) \/ Crash(p)
  PROVE  BillInv'
  BY FinishKept DEF RefusePayment, AbortDeadlock, Crash

\* What a thread is locked to, and carries, when it has judged an invoice.
LEMMA LockInvoiceKept ==
  ASSUME BillInv, NEW p \in Procs, NEW v \in Invoices, NEW op \in PayOps,
         NEW k \in Keys \cup Txns \cup {Null}, LockInvoice(p, v, op, k),
         IF op = "webhook" THEN [invoice |-> v, txn |-> k, status |-> "PAID"] \in callbacks
                           ELSE k \in Keys \cup {Null}
  PROVE  BillInv'
  <1>1. proc \in [Procs -> Work] /\ invoice \in [Invoices -> InvoiceRow]
    BY DEF BillInv, TypeOK, Work, InvoiceRow
  <1>2. UNCHANGED <<order, item, appending, invoice, intents, callbacks>>
    BY DEF LockInvoice
  <1>3. /\ proc' \in [Procs -> Work]
        /\ proc'[p] = [op |-> op, invoice |-> v, order |-> invoice[v].order, key |-> k]
        /\ \A q \in Procs \ {p} : proc'[q] = proc[q]
    BY <1>1 DEF LockInvoice, InvoiceRow, Work
  <1>4. PayHolds'
    <2>1. invoice[v].status \in Collectible
          /\ \A q \in Procs : ~(proc[q].op \in PayOps /\ proc[q].invoice = v)
      BY DEF LockInvoice, InvoiceLocked
    <2> QED
      BY <1>2, <1>3, <2>1 DEF BillInv, PayHolds
  <1>5. CloseHolds'
    BY <1>2, <1>3 DEF BillInv, CloseHolds, PayOps
  <1>6. KeyOfPayment'
    BY <1>2, <1>3 DEF BillInv, KeyOfPayment
  <1> QED
    BY <1>2, <1>3, <1>4, <1>5, <1>6, BooksKept

LEMMA Locking ==
  ASSUME BillInv, NEW p \in Procs,
         \/ \E v \in Invoices :
               \/ ManualOverride(p, v)
               \/ \E k \in Keys \cup {Null} : RecordCounterPayment(p, v, k)
         \/ \E c \in callbacks : HandlePaid(p, c)
  PROVE  BillInv'
  <1>1. ASSUME NEW v \in Invoices, ManualOverride(p, v) PROVE BillInv'
    BY <1>1, LockInvoiceKept DEF ManualOverride, PayOps
  <1>2. ASSUME NEW v \in Invoices, NEW k \in Keys \cup {Null}, RecordCounterPayment(p, v, k)
        PROVE  BillInv'
    BY <1>2, LockInvoiceKept DEF RecordCounterPayment, PayOps
  <1>3. ASSUME NEW c \in callbacks, HandlePaid(p, c) PROVE BillInv'
    <2>1. c \in Report
      BY DEF BillInv, TypeOK, Report
    <2>2. /\ c.invoice \in Invoices /\ c.txn \in Txns
          /\ c = [invoice |-> c.invoice, txn |-> c.txn, status |-> "PAID"]
      BY <1>3, <2>1 DEF HandlePaid, Report
    <2>3. LockInvoice(p, c.invoice, "webhook", c.txn)
      BY <1>3 DEF HandlePaid
    <2> QED
      BY <2>2, <2>3, LockInvoiceKept DEF PayOps
  <1> QED
    BY <1>1, <1>2, <1>3

LEMMA LockOrderKept ==
  ASSUME BillInv, NEW p \in Procs, NEW o \in Orders, LockOrder(p, o)
  PROVE  BillInv'
  <1>1. proc \in [Procs -> Work]
    BY DEF BillInv, TypeOK, Work
  <1>2. UNCHANGED <<order, item, appending, invoice, intents, callbacks>>
    BY DEF LockOrder
  <1>3. /\ proc' \in [Procs -> Work]
        /\ proc'[p] = [op |-> "close_unpaid", invoice |-> Null, order |-> o, key |-> Null]
        /\ \A q \in Procs \ {p} : proc'[q] = proc[q]
    BY <1>1 DEF LockOrder, Work
  <1>4. PayHolds'
    BY <1>2, <1>3 DEF BillInv, PayHolds, PayOps
  <1>5. CloseHolds'
    BY <1>2, <1>3 DEF BillInv, CloseHolds, LockOrder, OrderLocked
  <1>6. KeyOfPayment'
    BY <1>2, <1>3 DEF BillInv, KeyOfPayment
  <1> QED
    BY <1>2, <1>3, <1>4, <1>5, <1>6, BooksKept

-----------------------------------------------------------------------------
(* The bills *)

LEMMA RowTypes ==
  ASSUME TypeOK
  PROVE  /\ order \in [Orders -> OrderRow] /\ invoice \in [Invoices -> InvoiceRow]
         /\ callbacks \subseteq Report /\ proc \in [Procs -> Work]
  BY DEF TypeOK, OrderRow, InvoiceRow, Report, Work

LEMMA TypesOfRows ==
  ASSUME TypeOK, UNCHANGED <<item, appending, callbacks>>,
         order' \in [Orders -> OrderRow], invoice' \in [Invoices -> InvoiceRow],
         intents' \subseteq Invoices, proc' \in [Procs -> Work]
  PROVE  TypeOK'
  BY DEF TypeOK, OrderRow, InvoiceRow, Work

\* A row is inserted for an order that has no active one.
LEMMA Inserted ==
  ASSUME BillInv, TypeOK', NEW o \in Orders, NEW v \in Invoices, UNCHANGED <<callbacks, proc>>,
         InvoicesIn(o, Active) = {}, invoice[v].status = "none", ~OrderLocked(o),
         \A w \in Invoices \ {v} : invoice'[w] = invoice[w],
         \A x \in Orders \ {o} : order'[x] = order[x],
         invoice'[v].order = o, invoice'[v].key \in Keys \cup {Null},
         \/ /\ invoice'[v].status = "PAID" /\ order'[o].status = "CLOSED"
         \/ /\ invoice'[v].status = "DRAFT" /\ order'[o].status # "CLOSED" /\ invoice'[v].key = Null
  PROVE  BillInv'
  <1>1. OneActiveInvoice'
    BY DEF BillInv, OneActiveInvoice, InvoicesIn
  <1>2. BooksMatchFloor'
    BY DEF BillInv, BooksMatchFloor, BilledOrder, InvoicesIn, Active, Collectible
  <1>3. CreditsAreReported'
    BY BillingNull DEF BillInv, CreditsAreReported
  <1>4. BilledOrder'
    BY DEF BillInv, BilledOrder, Collectible
  <1>5. PayHolds'
    BY DEF BillInv, PayHolds, Collectible
  <1>6. CloseHolds'
    BY DEF BillInv, CloseHolds, OrderLocked
  <1>7. KeyOfPayment'
    BY DEF BillInv, KeyOfPayment
  <1> QED
    BY <1>1, <1>2, <1>3, <1>4, <1>5, <1>6, <1>7 DEF BillInv

LEMMA GenerateInvoiceKept ==
  ASSUME BillInv, NEW o \in Orders, NEW v \in Invoices, GenerateInvoice(o, v)
  PROVE  BillInv'
  <1>1. invoice \in [Invoices -> InvoiceRow] /\ ItemsIn(o, "billable") \subseteq Items
    BY RowTypes DEF BillInv, ItemsIn
  <1>2. /\ invoice' \in [Invoices -> InvoiceRow]
        /\ invoice'[v] = [status |-> "DRAFT", order |-> o, items |-> ItemsIn(o, "billable"), key |-> Null]
        /\ \A w \in Invoices \ {v} : invoice'[w] = invoice[w]
    BY <1>1 DEF GenerateInvoice, InvoiceRow, Active, Collectible
  <1>3. TypeOK'
    BY <1>2, RowTypes, TypesOfRows DEF BillInv, GenerateInvoice, TypeOK
  <1> QED
    BY <1>2, <1>3, Inserted DEF GenerateInvoice

LEMMA QuickBillKept ==
  ASSUME BillInv, NEW o \in Orders, NEW v \in Invoices, NEW k \in Keys \cup {Null}, QuickBill(o, v, k)
  PROVE  BillInv'
  <1>1. /\ invoice \in [Invoices -> InvoiceRow] /\ ItemsIn(o, "billable") \subseteq Items
        /\ order \in [Orders -> OrderRow]
    BY RowTypes DEF BillInv, ItemsIn
  <1>2. /\ invoice' \in [Invoices -> InvoiceRow]
        /\ invoice'[v] = [status |-> "PAID", order |-> o, items |-> ItemsIn(o, "billable"), key |-> k]
        /\ \A w \in Invoices \ {v} : invoice'[w] = invoice[w]
    BY <1>1 DEF QuickBill, InvoiceRow, Active
  <1>3. /\ order' \in [Orders -> OrderRow]
        /\ order'[o].status = "CLOSED"
        /\ \A x \in Orders \ {o} : order'[x] = order[x]
    BY <1>1 DEF QuickBill, CloseOrder, OrderRow
  <1>4. TypeOK'
    BY <1>2, <1>3, RowTypes, TypesOfRows DEF BillInv, QuickBill, TypeOK
  <1> QED
    BY <1>2, <1>3, <1>4, Inserted DEF QuickBill

-----------------------------------------------------------------------------
(* Payments, closes and the gateways *)

LEMMA CommitPaymentKept ==
  ASSUME BillInv, NEW p \in Procs, CommitPayment(p)
  PROVE  BillInv'
  <1> DEFINE v == proc[p].invoice
             o == proc[p].order
             k == proc[p].key
  <1>1. /\ proc[p].op \in PayOps /\ ~OrderLocked(o) /\ order[o].status = "MEAL_FINISHED"
        /\ UNCHANGED <<item, appending, intents, callbacks>>
    BY DEF CommitPayment
  <1>2. /\ v \in Invoices /\ o \in Orders /\ invoice[v].order = o
        /\ invoice[v].status \in Collectible /\ invoice[v].key = Null
    BY <1>1 DEF BillInv, PayHolds, BilledOrder, Collectible
  <1>3. /\ order \in [Orders -> OrderRow] /\ invoice \in [Invoices -> InvoiceRow]
        /\ callbacks \subseteq Report /\ proc \in [Procs -> Work]
    BY RowTypes DEF BillInv
  <1>4. invoice' = [invoice EXCEPT ![v].status = "PAID", ![v].key = k]
    BY <1>2 DEF CommitPayment
  <1>5. k \in Keys \cup Txns \cup {Null}
    BY <1>3 DEF Work
  <1>6. /\ invoice' \in [Invoices -> InvoiceRow]
        /\ invoice'[v].status = "PAID" /\ invoice'[v].key = k /\ invoice'[v].order = o
        /\ \A w \in Invoices \ {v} : invoice'[w] = invoice[w]
    BY <1>2, <1>3, <1>4, <1>5 DEF InvoiceRow, Active
  <1>7. /\ order' \in [Orders -> OrderRow]
        /\ order'[o].status = "CLOSED"
        /\ \A x \in Orders \ {o} : order'[x] = order[x]
    BY <1>2, <1>3 DEF CommitPayment, CloseOrder, OrderRow
  <1>8. /\ proc' \in [Procs -> Work]
        /\ proc'[p].op = "idle" /\ proc'[p].key = Null
        /\ \A q \in Procs \ {p} : proc'[q] = proc[q]
    BY <1>3 DEF CommitPayment, Finish, IdleProc, Work
  <1> HIDE DEF v, o, k
  <1>9. TypeOK'
    BY <1>1, <1>6, <1>7, <1>8, TypesOfRows DEF BillInv, TypeOK
  <1>10. OneActiveInvoice'
    BY <1>2, <1>6 DEF BillInv, OneActiveInvoice, InvoicesIn, Active
  <1>11. BooksMatchFloor'
    BY <1>2, <1>6, <1>7 DEF BillInv, BooksMatchFloor, BilledOrder, OneActiveInvoice,
                            InvoicesIn, Active, Collectible
  <1>12. CreditsAreReported'
    <2>1. k \in Txns \ Keys => [invoice |-> v, txn |-> k, status |-> "PAID"] \in callbacks
      BY <1>1, BillingNull DEF BillInv, KeyOfPayment, v, k
    <2> QED
      BY <1>1, <1>6, <2>1 DEF BillInv, CreditsAreReported
  <1>13. BilledOrder'
    BY <1>2, <1>6 DEF BillInv, BilledOrder, Collectible
  <1>14. PayHolds'
    <2>1. \A q \in Procs \ {p} : proc[q].op \in PayOps => proc[q].invoice # v
      BY <1>1 DEF BillInv, PayHolds, v
    <2> QED
      BY <1>6, <1>8, <2>1 DEF BillInv, PayHolds, PayOps
  <1>15. CloseHolds'
    BY <1>1, <1>7, <1>8 DEF BillInv, CloseHolds, OrderLocked
  <1>16. KeyOfPayment'
    BY <1>1, <1>8 DEF BillInv, KeyOfPayment
  <1> QED
    BY <1>9, <1>10, <1>11, <1>12, <1>13, <1>14, <1>15, <1>16 DEF BillInv

LEMMA CommitCloseKept ==
  ASSUME BillInv, NEW p \in Procs, CommitClose(p)
  PROVE  BillInv'
  <1> DEFINE o == proc[p].order
             due == InvoicesIn(o, Collectible)
  <1>1. /\ proc[p].op = "close_unpaid" /\ \A v \in due : ~InvoiceLocked(v)
        /\ UNCHANGED <<item, appending, intents, callbacks>>
    BY DEF CommitClose
  <1>2. /\ o \in Orders /\ order[o].status # "CLOSED"
        /\ \A q \in Procs \ {p} : proc[q].op = "close_unpaid" => proc[q].order # o
    BY <1>1 DEF BillInv, CloseHolds
  <1>3. /\ order \in [Orders -> OrderRow] /\ invoice \in [Invoices -> InvoiceRow]
        /\ callbacks \subseteq Report /\ proc \in [Procs -> Work]
    BY RowTypes DEF BillInv
  <1>4. invoice' = [v \in Invoices |->
            IF v \in due THEN [invoice[v] EXCEPT !.status = "VOID"] ELSE invoice[v]]
    BY DEF CommitClose
  <1>5. due \subseteq Invoices
    BY DEF InvoicesIn
  <1>6. /\ \A v \in Invoices : invoice'[v] \in InvoiceRow
        /\ \A v \in due : /\ invoice'[v].status = "VOID"
                          /\ invoice'[v].order = invoice[v].order
                          /\ invoice'[v].key = invoice[v].key
        /\ \A v \in Invoices \ due : invoice'[v] = invoice[v]
    <2> HIDE DEF due
    <2> QED
      BY <1>3, <1>4, <1>5 DEF InvoiceRow
  <1>7. invoice' \in [Invoices -> InvoiceRow]
    BY <1>4, <1>6
  <1>8. /\ order' \in [Orders -> OrderRow]
        /\ order'[o].status = "CLOSED"
        /\ \A x \in Orders \ {o} : order'[x] = order[x]
    BY <1>2, <1>3 DEF CommitClose, CloseOrder, OrderRow
  <1>9. /\ proc' \in [Procs -> Work]
        /\ proc'[p].op = "idle" /\ proc'[p].key = Null
        /\ \A q \in Procs \ {p} : proc'[q] = proc[q]
    BY <1>3 DEF CommitClose, Finish, IdleProc, Work
  <1>10. /\ \A v \in due : invoice[v].order = o /\ invoice[v].status \in Collectible
         /\ \A v \in Invoices \ due : invoice[v].order = o => invoice[v].status \notin Collectible
    BY DEF InvoicesIn
  <1> HIDE DEF o, due
  <1>11. TypeOK'
    BY <1>1, <1>7, <1>8, <1>9, TypesOfRows DEF BillInv, TypeOK
  <1>12. OneActiveInvoice'
    BY <1>6 DEF BillInv, OneActiveInvoice, InvoicesIn, Active, Collectible
  <1>13. BooksMatchFloor'
    BY <1>2, <1>6, <1>8, <1>10 DEF BillInv, BooksMatchFloor, BilledOrder, Collectible
  <1>14. BilledOrder'
    BY <1>5, <1>6, <1>10 DEF BillInv, BilledOrder, Collectible
  <1>15. CreditsAreReported'
    BY <1>1, <1>6, <1>10, BillingNull DEF BillInv, CreditsAreReported, BilledOrder
  <1>16. PayHolds'
    BY <1>1, <1>6, <1>9 DEF BillInv, PayHolds, PayOps, InvoiceLocked
  <1>17. CloseHolds'
    BY <1>2, <1>8, <1>9 DEF BillInv, CloseHolds
  <1>18. KeyOfPayment'
    BY <1>1, <1>9 DEF BillInv, KeyOfPayment
  <1> QED
    BY <1>11, <1>12, <1>13, <1>14, <1>15, <1>16, <1>17, <1>18 DEF BillInv

LEMMA HandleFailedKept ==
  ASSUME BillInv, NEW c \in callbacks, HandleFailed(c)
  PROVE  BillInv'
  <1> DEFINE v == c.invoice
  <1>1. /\ c \in Report /\ order \in [Orders -> OrderRow]
        /\ invoice \in [Invoices -> InvoiceRow] /\ proc \in [Procs -> Work]
    BY RowTypes DEF BillInv
  <1>2. /\ v \in Invoices /\ c.txn \in Txns
        /\ c = [invoice |-> v, txn |-> c.txn, status |-> "FAILED"]
    BY <1>1 DEF HandleFailed, Report
  <1>3. /\ ~InvoiceLocked(v) /\ invoice[v].status = "PENDING_PAYMENT"
        /\ invoice' = [invoice EXCEPT ![v].status = "FAILED", ![v].key = c.txn]
        /\ UNCHANGED <<order, item, appending, intents, callbacks, proc>>
    BY DEF HandleFailed
  <1> HIDE DEF v
  <1>4. /\ invoice' \in [Invoices -> InvoiceRow]
        /\ invoice'[v].status = "FAILED" /\ invoice'[v].key = c.txn
        /\ invoice'[v].order = invoice[v].order
        /\ \A w \in Invoices \ {v} : invoice'[w] = invoice[w]
    BY <1>1, <1>2, <1>3 DEF InvoiceRow
  <1>5. TypeOK'
    BY <1>1, <1>3, <1>4, TypesOfRows DEF BillInv, TypeOK
  <1>6. OneActiveInvoice' /\ BooksMatchFloor'
    BY <1>3, <1>4 DEF BillInv, OneActiveInvoice, InvoicesIn, Active, BooksMatchFloor, Collectible
  <1>7. CreditsAreReported'
    BY <1>2, <1>3, <1>4 DEF BillInv, CreditsAreReported
  <1>8. BilledOrder'
    BY <1>3, <1>4 DEF BillInv, BilledOrder, Collectible
  <1>9. PayHolds'
    BY <1>3, <1>4 DEF BillInv, PayHolds, InvoiceLocked
  <1>10. CloseHolds' /\ KeyOfPayment'
    BY <1>3 DEF BillInv, CloseHolds, KeyOfPayment
  <1> QED
    BY <1>5, <1>6, <1>7, <1>8, <1>9, <1>10 DEF BillInv

LEMMA CreatePaymentIntentKept ==
  ASSUME BillInv, NEW v \in Invoices, CreatePaymentIntent(v)
  PROVE  BillInv'
  <1>1. /\ order \in [Orders -> OrderRow] /\ intents' \subseteq Invoices
        /\ invoice \in [Invoices -> InvoiceRow] /\ proc \in [Procs -> Work]
    BY RowTypes DEF BillInv, TypeOK, CreatePaymentIntent
  <1>2. /\ ~InvoiceLocked(v) /\ invoice[v].status \in Collectible
        /\ UNCHANGED <<order, item, appending, callbacks, proc>>
    BY DEF CreatePaymentIntent
  <1>3. /\ invoice' \in [Invoices -> InvoiceRow]
        /\ invoice'[v].status \in Collectible /\ invoice'[v].key = invoice[v].key
        /\ invoice'[v].order = invoice[v].order
        /\ \A w \in Invoices \ {v} : invoice'[w] = invoice[w]
    BY <1>1, <1>2 DEF CreatePaymentIntent, InvoiceRow, Collectible, Active
  <1>4. TypeOK'
    BY <1>1, <1>2, <1>3, TypesOfRows DEF BillInv, TypeOK
  <1>5. OneActiveInvoice' /\ BooksMatchFloor'
    BY <1>2, <1>3 DEF BillInv, OneActiveInvoice, InvoicesIn, Active, BooksMatchFloor, Collectible
  <1>6. BilledOrder'
    BY <1>2, <1>3 DEF BillInv, BilledOrder, Collectible
  <1>7. CreditsAreReported'
    BY <1>2, <1>3, BillingNull DEF BillInv, CreditsAreReported, BilledOrder
  <1>8. PayHolds'
    BY <1>2, <1>3 DEF BillInv, PayHolds, InvoiceLocked
  <1>9. CloseHolds' /\ KeyOfPayment'
    BY <1>2 DEF BillInv, CloseHolds, KeyOfPayment
  <1> QED
    BY <1>4, <1>5, <1>6, <1>7, <1>8, <1>9 DEF BillInv

LEMMA GatewayReportsKept ==
  ASSUME BillInv, NEW v \in Invoices, NEW t \in Txns, GatewayReports(v, t)
  PROVE  BillInv'
  <1>1. TypeOK'
    BY DEF BillInv, TypeOK, GatewayReports
  <1> QED
    BY <1>1, FloorKept DEF GatewayReports

-----------------------------------------------------------------------------
(* The books, always *)

LEMMA StepBill == BillInv /\ [Next]_vars => BillInv'
  <1> SUFFICES ASSUME BillInv, [Next]_vars PROVE BillInv'
    OBVIOUS
  <1>1. CASE Next
    BY <1>1, ItemSteps, OrderSteps, GenerateInvoiceKept, QuickBillKept, Locking, CommitPaymentKept,
       GivingUp, LockOrderKept, CommitCloseKept, HandleFailedKept, CreatePaymentIntentKept,
       GatewayReportsKept DEF Next
  <1>2. CASE UNCHANGED vars
    <2>1. TypeOK'
      BY <1>2 DEF vars, BillInv, TypeOK
    <2> QED
      BY <1>2, <2>1, FloorKept DEF vars
  <1> QED
    BY <1>1, <1>2

LEMMA BillAlways == Spec => []BillInv
  BY InitBill, StepBill, PTL DEF Spec

\* The columns of orders, items, invoices and the work of the threads keep their types.
THEOREM BillingTypes == Spec => []TypeOK
  <1>1. BillInv => TypeOK
    BY DEF BillInv
  <1> QED
    BY <1>1, BillAlways, PTL

(***************************************************************************)
(* An order never has two bills that are payable or paid, over every race  *)
(* of the two ways to bill it, payment, failure and reopening.             *)
(***************************************************************************)
THEOREM OneBillAtOnce == Spec => []OneActiveInvoice
  <1>1. BillInv => OneActiveInvoice
    BY DEF BillInv
  <1> QED
    BY <1>1, BillAlways, PTL

(***************************************************************************)
(* At every commit a paid bill's order is closed, and a closed order has   *)
(* no bill anyone could still collect.                                     *)
(***************************************************************************)
THEOREM BooksAlwaysMatch == Spec => []BooksMatchFloor
  <1>1. BillInv => BooksMatchFloor
    BY DEF BillInv
  <1> QED
    BY <1>1, BillAlways, PTL

(***************************************************************************)
(* A gateway transaction did to its invoice what the gateway reported of   *)
(* that transaction and that invoice.                                      *)
(***************************************************************************)
THEOREM CreditsFollowReports == Spec => []CreditsAreReported
  <1>1. BillInv => CreditsAreReported
    BY DEF BillInv
  <1> QED
    BY <1>1, BillAlways, PTL

-----------------------------------------------------------------------------
(* What a step may do to a bill *)

LEMMA InvoiceSteps ==
  ASSUME [Next]_vars
  PROVE  \/ UNCHANGED invoice
         \/ \E o \in Orders, v \in Invoices :
               \/ GenerateInvoice(o, v)
               \/ \E k \in Keys \cup {Null} : QuickBill(o, v, k)
         \/ \E p \in Procs : CommitPayment(p) \/ CommitClose(p)
         \/ \E c \in callbacks : HandleFailed(c)
         \/ \E v \in Invoices : CreatePaymentIntent(v)
  BY DEF Next, vars, BeginAppend, DecidePending, RequestBill, FinishMeal, Reopen, FinishAppend,
         CancelItem, ManualOverride, RecordCounterPayment, HandlePaid, LockInvoice, RefusePayment,
         LockOrder, AbortDeadlock, Crash, GatewayReports

LEMMA SettledStays ==
  ASSUME BillInv, [Next]_vars, NEW v \in Invoices, invoice[v].status \in {"PAID", "FAILED", "VOID"}
  PROVE  invoice'[v] = invoice[v]
  <1>0. invoice \in [Invoices -> InvoiceRow] /\ callbacks \subseteq Report
    BY RowTypes DEF BillInv
  <1>1. ASSUME NEW o \in Orders, NEW w \in Invoices, GenerateInvoice(o, w)
        PROVE  invoice'[v] = invoice[v]
    BY <1>0, <1>1 DEF GenerateInvoice
  <1>2. ASSUME NEW o \in Orders, NEW w \in Invoices, NEW k \in Keys \cup {Null}, QuickBill(o, w, k)
        PROVE  invoice'[v] = invoice[v]
    BY <1>0, <1>2 DEF QuickBill
  <1>3. ASSUME NEW p \in Procs, CommitPayment(p) PROVE invoice'[v] = invoice[v]
    <2>1. proc[p].invoice \in Invoices /\ invoice[proc[p].invoice].status \in Collectible
      BY <1>3 DEF BillInv, PayHolds, CommitPayment
    <2> QED
      BY <1>0, <1>3, <2>1 DEF CommitPayment, Collectible
  <1>4. ASSUME NEW p \in Procs, CommitClose(p) PROVE invoice'[v] = invoice[v]
    BY <1>0, <1>4 DEF CommitClose, InvoicesIn, Collectible
  <1>5. ASSUME NEW c \in callbacks, HandleFailed(c) PROVE invoice'[v] = invoice[v]
    BY <1>0, <1>5 DEF HandleFailed, Report
  <1>6. ASSUME NEW w \in Invoices, CreatePaymentIntent(w) PROVE invoice'[v] = invoice[v]
    BY <1>0, <1>6 DEF CreatePaymentIntent, Collectible
  <1> QED
    BY <1>1, <1>2, <1>3, <1>4, <1>5, <1>6, InvoiceSteps

(***************************************************************************)
(* A bill that is paid, failed or void never changes again, whatever       *)
(* arrives late.                                                           *)
(***************************************************************************)
THEOREM SettledBillsStay == Spec => SettledForGood
  <1>1. BillInv /\ [Next]_vars =>
            [\A v \in Invoices :
                invoice[v].status \in {"PAID", "FAILED", "VOID"} => invoice'[v] = invoice[v]]_vars
    BY SettledStays
  <1> QED
    BY BillAlways, <1>1, PTL DEF Spec, SettledForGood

-----------------------------------------------------------------------------
(* The refinement of Settlement *)

Bills == [o \in Orders |-> BillOf(o)]

LEMMA FloorSteps ==
  ASSUME [Next]_vars
  PROVE  \/ UNCHANGED order
         \/ \E o \in Orders :
               \/ RequestBill(o) \/ FinishMeal(o) \/ Reopen(o)
               \/ \E v \in Invoices, k \in Keys \cup {Null} : QuickBill(o, v, k)
         \/ \E p \in Procs : CommitPayment(p) \/ CommitClose(p)
  BY DEF Next, vars, BeginAppend, DecidePending, GenerateInvoice, FinishAppend,
         CancelItem, ManualOverride, RecordCounterPayment, HandlePaid, LockInvoice, RefusePayment,
         LockOrder, AbortDeadlock, Crash, HandleFailed, CreatePaymentIntent, GatewayReports

\* What the three steps that close an order close, and with which invoice.
LEMMA Closing ==
  ASSUME BillInv
  PROVE  /\ \A o \in Orders, v \in Invoices, k \in Keys \cup {Null} :
               QuickBill(o, v, k) =>
                   /\ order[o].status = "OPEN"
                   /\ order' = [order EXCEPT ![o] = [status |-> "CLOSED", bill |-> FALSE]]
                   /\ invoice'[v].status = "PAID" /\ invoice'[v].order = o
                   /\ \A w \in Invoices \ {v} : invoice'[w] = invoice[w]
         /\ \A p \in Procs :
               CommitPayment(p) =>
                   \E o \in Orders, v \in Invoices :
                       /\ order[o].status = "MEAL_FINISHED"
                       /\ order' = [order EXCEPT ![o] = [status |-> "CLOSED", bill |-> FALSE]]
                       /\ invoice'[v].status = "PAID" /\ invoice'[v].order = o
                       /\ \A w \in Invoices \ {v} : invoice'[w] = invoice[w]
         /\ \A p \in Procs :
               CommitClose(p) =>
                   \E o \in Orders :
                       /\ order[o].status # "CLOSED"
                       /\ order' = [order EXCEPT ![o] = [status |-> "CLOSED", bill |-> FALSE]]
                       /\ \A w \in Invoices : invoice'[w] = invoice[w] \/ invoice'[w].status = "VOID"
  <1>1. invoice \in [Invoices -> InvoiceRow]
    BY RowTypes DEF BillInv
  <1>2. ASSUME NEW o \in Orders, NEW v \in Invoices, NEW k \in Keys \cup {Null}, QuickBill(o, v, k)
        PROVE  /\ order[o].status = "OPEN"
               /\ order' = [order EXCEPT ![o] = [status |-> "CLOSED", bill |-> FALSE]]
               /\ invoice'[v].status = "PAID" /\ invoice'[v].order = o
               /\ \A w \in Invoices \ {v} : invoice'[w] = invoice[w]
    BY <1>1, <1>2 DEF QuickBill, CloseOrder
  <1>3. ASSUME NEW p \in Procs, CommitPayment(p)
        PROVE  LET o == proc[p].order
                   v == proc[p].invoice
               IN  /\ o \in Orders /\ v \in Invoices /\ order[o].status = "MEAL_FINISHED"
                   /\ order' = [order EXCEPT ![o] = [status |-> "CLOSED", bill |-> FALSE]]
                   /\ invoice'[v].status = "PAID" /\ invoice'[v].order = o
                   /\ \A w \in Invoices \ {v} : invoice'[w] = invoice[w]
    <2> DEFINE v == proc[p].invoice
    <2>1. /\ v \in Invoices /\ proc[p].order = invoice[v].order
          /\ invoice[v].order \in Orders
      BY <1>3 DEF BillInv, PayHolds, BilledOrder, CommitPayment, Collectible
    <2>2. PICK k : invoice' = [invoice EXCEPT ![v].status = "PAID", ![v].key = k]
      BY <1>3 DEF CommitPayment
    <2>3. invoice[v] \in InvoiceRow
      BY <1>1, <2>1
    <2>4. invoice'[v].status = "PAID" /\ invoice'[v].order = invoice[v].order
      BY <1>1, <2>1, <2>2, <2>3 DEF InvoiceRow
    <2> QED
      BY <1>1, <1>3, <2>1, <2>2, <2>4 DEF CommitPayment, CloseOrder
  <1>4. ASSUME NEW p \in Procs, CommitClose(p)
        PROVE  LET o == proc[p].order
               IN  /\ o \in Orders /\ order[o].status # "CLOSED"
                   /\ order' = [order EXCEPT ![o] = [status |-> "CLOSED", bill |-> FALSE]]
                   /\ \A w \in Invoices : invoice'[w] = invoice[w] \/ invoice'[w].status = "VOID"
    BY <1>1, <1>4 DEF BillInv, CloseHolds, CommitClose, CloseOrder, InvoiceRow
  <1> QED
    BY <1>2, <1>3, <1>4

\* What a closed order's bill came to does not change.
LEMMA ClosedStays ==
  ASSUME BillInv, [Next]_vars, NEW o \in Orders, order[o].status = "CLOSED"
  PROVE  order'[o].status = "CLOSED" /\ BillOf(o)' = BillOf(o)
  <1>1. order \in [Orders -> OrderRow] /\ invoice \in [Invoices -> InvoiceRow]
    BY RowTypes DEF BillInv
  <1>2. order'[o].status = "CLOSED"
    <2>1. ASSUME NEW x \in Orders, RequestBill(x) \/ FinishMeal(x) \/ Reopen(x)
          PROVE  order'[o].status = "CLOSED"
      BY <1>1, <2>1 DEF RequestBill, FinishMeal, Reopen, OrderRow
    <2> QED
      BY <1>1, <2>1, FloorSteps, Closing
  <1> DEFINE NoNewPaid ==
            \A v \in Invoices :
                invoice'[v].order = o /\ invoice'[v].status = "PAID" =>
                    invoice[v].order = o /\ invoice[v].status = "PAID"
  <1>3. NoNewPaid
    <2>1. ASSUME NEW x \in Orders, NEW v \in Invoices, GenerateInvoice(x, v) PROVE NoNewPaid
      BY <1>1, <2>1 DEF GenerateInvoice
    <2>2. ASSUME NEW c \in callbacks, HandleFailed(c) PROVE NoNewPaid
      BY <1>1, <2>2, RowTypes DEF HandleFailed, BillInv, Report, InvoiceRow
    <2>3. ASSUME NEW v \in Invoices, CreatePaymentIntent(v) PROVE NoNewPaid
      BY <1>1, <2>3 DEF CreatePaymentIntent, InvoiceRow
    <2> QED
      BY <2>1, <2>2, <2>3, InvoiceSteps, Closing
  <1>4. \A v \in Invoices :
            invoice[v].order = o /\ invoice[v].status = "PAID" => invoice'[v] = invoice[v]
    BY SettledStays
  <1>5. InvoicesIn(o, {"PAID"})' = InvoicesIn(o, {"PAID"})
    BY <1>3, <1>4 DEF InvoicesIn
  <1> QED
    BY <1>2, <1>5 DEF BillOf

\* An order that is closed for a payment is paid, ...
LEMMA PaidStep ==
  ASSUME BillInv, [Next]_vars, NEW o \in Orders, NEW v \in Invoices, order[o].status # "CLOSED",
         order' = [order EXCEPT ![o] = [status |-> "CLOSED", bill |-> FALSE]],
         invoice'[v].status = "PAID", invoice'[v].order = o
  PROVE  Books!Pay(o)
  <1>1. order \in [Orders -> OrderRow]
    BY RowTypes DEF BillInv
  <1>2. BillOf(o) = "open" /\ BillOf(o)' = "paid"
    BY <1>1 DEF BillOf, InvoicesIn
  <1>3. \A x \in Orders \ {o} : BillOf(x)' = BillOf(x)
    BY <1>1, ClosedStays DEF BillOf
  <1> QED
    BY <1>2, <1>3 DEF Books!Pay

\* ... and one that is closed without is written off.
LEMMA WriteOffStep ==
  ASSUME BillInv, [Next]_vars, NEW o \in Orders, order[o].status # "CLOSED",
         order' = [order EXCEPT ![o] = [status |-> "CLOSED", bill |-> FALSE]],
         \A w \in Invoices : invoice'[w] = invoice[w] \/ invoice'[w].status = "VOID"
  PROVE  Books!WriteOff(o)
  <1>1. order \in [Orders -> OrderRow]
    BY RowTypes DEF BillInv
  <1>2. InvoicesIn(o, {"PAID"})' = {}
    BY DEF BillInv, BooksMatchFloor, InvoicesIn
  <1>3. BillOf(o) = "open" /\ BillOf(o)' = "written_off"
    BY <1>1, <1>2 DEF BillOf
  <1>4. \A x \in Orders \ {o} : BillOf(x)' = BillOf(x)
    BY <1>1, ClosedStays DEF BillOf
  <1> QED
    BY <1>3, <1>4 DEF Books!WriteOff

LEMMA BooksStep == BillInv /\ [Next]_vars => [Books!Next]_Bills
  <1> SUFFICES ASSUME BillInv, [Next]_vars PROVE [Books!Next]_Bills
    OBVIOUS
  <1>1. order \in [Orders -> OrderRow]
    BY RowTypes DEF BillInv
  <1>2. ASSUME \A o \in Orders : order'[o].status = "CLOSED" <=> order[o].status = "CLOSED"
        PROVE  UNCHANGED Bills
    BY <1>2, ClosedStays DEF Bills, BillOf
  <1>3. ASSUME NEW o \in Orders, RequestBill(o) \/ FinishMeal(o) \/ Reopen(o)
        PROVE  UNCHANGED Bills
    BY <1>1, <1>2, <1>3 DEF RequestBill, FinishMeal, Reopen, OrderRow
  <1>4. CASE UNCHANGED order
    BY <1>2, <1>4
  <1>5. ASSUME NEW o \in Orders, NEW v \in Invoices, NEW k \in Keys \cup {Null}, QuickBill(o, v, k)
        PROVE  Books!Next
    BY <1>5, Closing, PaidStep DEF Books!Next
  <1>6. ASSUME NEW p \in Procs, CommitPayment(p) PROVE Books!Next
    BY <1>6, Closing, PaidStep DEF Books!Next
  <1>7. ASSUME NEW p \in Procs, CommitClose(p) PROVE Books!Next
    BY <1>7, Closing, WriteOffStep DEF Books!Next
  <1> QED
    BY <1>3, <1>4, <1>5, <1>6, <1>7, FloorSteps

(***************************************************************************)
(* Billing implements Settlement: for any number of orders, bills, threads *)
(* and gateway reports, every order is paid once or written off once.      *)
(***************************************************************************)
THEOREM BillingImplementsSettlement == Spec => SettlementSpec
  <1>1. Init => Books!Init
    BY DEF Init, Books!Init, BillOf
  <1>2. BillInv /\ [Next]_vars => [Books!Next]_Bills
    BY BooksStep
  <1> QED
    BY BillAlways, <1>1, <1>2, PTL DEF Spec, SettlementSpec, Books!Spec, Bills

-----------------------------------------------------------------------------
(* The life of an order *)

LEMMA LifeStep ==
  ASSUME BillInv, [Next]_vars, NEW o \in Orders
  PROVE  [Lifecycle(o)!Next]_(order[o].status)
  <1>1. order \in [Orders -> OrderRow]
    BY RowTypes DEF BillInv
  <1>2. CASE order'[o].status = "CLOSED" /\ order[o].status # "CLOSED"
    <2>1. Lifecycle(o)!Close(o)
      BY <1>1, <1>2 DEF Lifecycle!Close, Lifecycle!Live, OrderRow
    <2> QED
      BY <2>1 DEF Lifecycle!Next
  <1>3. ASSUME NEW x \in Orders, RequestBill(x) PROVE order'[o].status = order[o].status
    BY <1>1, <1>3 DEF RequestBill, OrderRow
  <1>4. CASE FinishMeal(o)
    <2>1. Lifecycle(o)!FinishMeal(o)
      BY <1>1, <1>4 DEF Lifecycle!FinishMeal, FinishMeal, OrderRow
    <2> QED
      BY <2>1 DEF Lifecycle!Next
  <1>5. CASE Reopen(o)
    <2>1. Lifecycle(o)!ReopenOrder(o)
      BY <1>1, <1>5 DEF Lifecycle!ReopenOrder, Reopen, OrderRow
    <2> QED
      BY <2>1 DEF Lifecycle!Next
  <1>6. ASSUME NEW x \in Orders \ {o}, FinishMeal(x) \/ Reopen(x)
        PROVE  order'[o].status = order[o].status
    BY <1>1, <1>6 DEF FinishMeal, Reopen
  <1>7. ASSUME NEW x \in Orders, order[x].status # "CLOSED",
               order' = [order EXCEPT ![x] = [status |-> "CLOSED", bill |-> FALSE]]
        PROVE  \/ order'[o].status = order[o].status
               \/ order'[o].status = "CLOSED" /\ order[o].status # "CLOSED"
    BY <1>1, <1>7
  <1>8. ASSUME NEW x \in Orders, NEW v \in Invoices, NEW k \in Keys \cup {Null}, QuickBill(x, v, k)
        PROVE  \/ order'[o].status = order[o].status
               \/ order'[o].status = "CLOSED" /\ order[o].status # "CLOSED"
    BY <1>7, <1>8, Closing
  <1>9. ASSUME NEW p \in Procs, CommitPayment(p) \/ CommitClose(p)
        PROVE  \/ order'[o].status = order[o].status
               \/ order'[o].status = "CLOSED" /\ order[o].status # "CLOSED"
    BY <1>7, <1>9, Closing
  <1> QED
    BY <1>2, <1>3, <1>4, <1>5, <1>6, <1>8, <1>9, FloorSteps

(***************************************************************************)
(* Every order billing touches lives as OrderLifecycle promises of the     *)
(* orders of a table: it never leaves CLOSED, and opens again only from    *)
(* MEAL_FINISHED.                                                          *)
(***************************************************************************)
THEOREM BillingKeepsTheLifecycle == Spec => LifecycleSteps
  <1>1. BillInv /\ [Next]_vars =>
            [\A o \in Orders : [Lifecycle(o)!Next]_(order[o].status)]_vars
    BY LifeStep
  <1> QED
    BY BillAlways, <1>1, PTL DEF Spec, LifecycleSteps

=============================================================================
