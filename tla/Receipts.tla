------------------------------ MODULE Receipts ------------------------------
(***************************************************************************)
(* Contact details and emailed receipts at one table (customer_service,    *)
(* receipt_email).  Parties follow one another; each has its session, its  *)
(* order and its invoice.  A guest may leave an address when asking for    *)
(* the bill or after paying, within the grace window of a session the      *)
(* payment has ended; whoever settles an invoice then mails the receipt.   *)
(*                                                                         *)
(* Staff's transactions are one action each (Billing has their steps); a   *)
(* capture and a mailing are followed statement by statement.  A guest is  *)
(* identified with the party, and so with the address it gives.            *)
(*                                                                         *)
(* A mailing decides on the invoice as the request last loaded it: after   *)
(* its own commit, before it waits for the row.  The SELECT ... FOR UPDATE *)
(* waits and locks, but the session does not overwrite the object it has.  *)
(***************************************************************************)
EXTENDS Naturals, FiniteSets

CONSTANTS
    Parties,        \* 1 .. how many parties come
    Servers,        \* requests served at the same time
    NoGuest

ASSUME NoGuestAssumption == NoGuest \notin Parties \cup Servers

ASSUME ServersAssumption == IsFiniteSet(Servers)

VARIABLES
    seat,           \* [Parties -> {"none", "ACTIVE", "INVALIDATED", "over"}], sessions
    meal,           \* [Parties -> [status, guest]], orders and their customer_id
    bill,           \* [Parties -> [status, guest, stamped]], invoices
    billLock,       \* [Parties -> the server that holds the invoice]
    server,         \* [Servers -> [at, party, ended, bill, due]]
    mailed,         \* [Parties -> receipts of that invoice sent]
    forgone         \* history: bills with a receipt due that a crash or a payment
                    \* that mails nothing has dropped

rcVars == <<seat, meal, bill, billLock, server, mailed, forgone>>

Free == [at |-> "free", party |-> NoGuest, ended |-> FALSE, bill |-> NoGuest, due |-> FALSE]

RcInit ==
    /\ seat = [v \in Parties |-> "none"]
    /\ meal = [v \in Parties |-> [status |-> "none", guest |-> NoGuest]]
    /\ bill = [v \in Parties |-> [status |-> "none", guest |-> NoGuest, stamped |-> FALSE]]
    /\ billLock = [v \in Parties |-> NoGuest]
    /\ server = [s \in Servers |-> Free]
    /\ mailed = [v \in Parties |-> 0]
    /\ forgone = {}

\* The order that is not CLOSED, if there is one.
LiveMeals == {v \in Parties : meal[v].status = "LIVE"}

-----------------------------------------------------------------------------
(* The table *)

\* The next party scans the code once the last session has ended.
Sit(v) ==
    /\ seat[v] = "none"
    /\ \A w \in Parties : (w < v => seat[w] \notin {"none", "ACTIVE"}) /\ seat[w] # "ACTIVE"
    /\ seat' = [seat EXCEPT ![v] = "ACTIVE"]
    /\ UNCHANGED <<meal, bill, billLock, server, mailed, forgone>>

OrderMeal(v) ==
    /\ seat[v] = "ACTIVE"
    /\ meal[v].status = "none"
    /\ LiveMeals = {}
    /\ meal' = [meal EXCEPT ![v].status = "LIVE"]
    /\ UNCHANGED <<seat, bill, billLock, server, mailed, forgone>>

\* generate_invoice takes the address from the order.
MakeBill(v) ==
    /\ meal[v].status = "LIVE"
    /\ bill[v].status = "none"
    /\ bill' = [bill EXCEPT ![v] = [status |-> "DUE", guest |-> meal[v].guest, stamped |-> FALSE]]
    /\ UNCHANGED <<seat, meal, billLock, server, mailed, forgone>>

\* _close_order_and_reset_table
CloseTable(v) ==
    /\ meal' = [meal EXCEPT ![v].status = "CLOSED"]
    /\ seat' = [w \in Parties |-> IF seat[w] = "ACTIVE" THEN "INVALIDATED" ELSE seat[w]]

\* record_counter_payment, and then the receipt.
PayAtCounter(s, v) ==
    /\ server[s] = Free
    /\ bill[v].status = "DUE" /\ billLock[v] = NoGuest
    /\ bill' = [bill EXCEPT ![v].status = "PAID"]
    /\ CloseTable(v)
    /\ server' = [server EXCEPT ![s] = [Free EXCEPT !.at = "reload", !.bill = v]]
    /\ UNCHANGED <<billLock, mailed, forgone>>

\* quick_bill_and_close: invoice and payment at once, and then the receipt.
QuickBillAndClose(s, v) ==
    /\ server[s] = Free
    /\ meal[v].status = "LIVE" /\ bill[v].status = "none"
    /\ bill' = [bill EXCEPT ![v] = [status |-> "PAID", guest |-> meal[v].guest, stamped |-> FALSE]]
    /\ CloseTable(v)
    /\ server' = [server EXCEPT ![s] = [Free EXCEPT !.at = "reload", !.bill = v]]
    /\ UNCHANGED <<billLock, mailed, forgone>>

\* handle_webhook and manual_override: no receipt is mailed.
PayElsewhere(v) ==
    /\ bill[v].status = "DUE" /\ billLock[v] = NoGuest
    /\ bill' = [bill EXCEPT ![v].status = "PAID"]
    /\ forgone' = IF bill[v].guest # NoGuest THEN forgone \cup {v} ELSE forgone
    /\ CloseTable(v)
    /\ UNCHANGED <<billLock, server, mailed>>

WriteOffMeal(v) ==
    /\ meal[v].status = "LIVE"
    /\ bill[v].status # "none" => billLock[v] = NoGuest
    /\ bill' = [bill EXCEPT ![v].status = IF @ = "DUE" THEN "VOID" ELSE @]
    /\ CloseTable(v)
    /\ UNCHANGED <<billLock, server, mailed, forgone>>

\* The grace window of an ended session is over.
GraceEnds(v) ==
    /\ seat[v] = "INVALIDATED"
    /\ seat' = [seat EXCEPT ![v] = "over"]
    /\ UNCHANGED <<meal, bill, billLock, server, mailed, forgone>>

-----------------------------------------------------------------------------
(* capture_contact *)

EndServing(s) ==
    /\ server' = [server EXCEPT ![s] = Free]
    /\ billLock' = [v \in Parties |-> IF billLock[v] = s THEN NoGuest ELSE billLock[v]]

\* get_contact_capture_session: a live session, or one in its grace window.
Submit(s, v) ==
    /\ server[s] = Free
    /\ seat[v] \in {"ACTIVE", "INVALIDATED"}
    /\ server' = [server EXCEPT ![s] =
            [at |-> "bill", party |-> v, ended |-> seat[v] = "INVALIDATED", bill |-> NoGuest,
             due |-> FALSE]]
    /\ UNCHANGED <<seat, meal, bill, billLock, mailed, forgone>>

\* The table's newest invoice that is not VOID; for an ended session, the
\* newest that is no younger than its end.
BillsFor(v, ended) ==
    {w \in Parties : bill[w].status \notin {"none", "VOID"} /\ (ended => w <= v)}

\* _invoice_for_visit
FindBill(s) ==
    LET found == BillsFor(server[s].party, server[s].ended)
    IN  /\ server[s].at = "bill"
        /\ \/ found = {} /\ server' = [server EXCEPT ![s].at = "order"]
           \/ \E w \in found :
                /\ \A u \in found : u <= w
                /\ server' = [server EXCEPT ![s].at = "lock", ![s].bill = w]
        /\ UNCHANGED <<seat, meal, bill, billLock, mailed, forgone>>

\* Mutant: the invoice is read without FOR UPDATE.
CheckBillUnlocked(s) ==
    LET w == server[s].bill
    IN  /\ server[s].at = "lock"
        /\ bill[w].status # "VOID"
        /\ bill[w].guest \in {NoGuest, server[s].party}
        /\ server' = [server EXCEPT ![s].at = "order"]
        /\ UNCHANGED <<seat, meal, bill, billLock, mailed, forgone>>

\* Its row is locked, if nobody else's address is on it.
LockBill(s) ==
    LET w == server[s].bill
    IN  /\ server[s].at = "lock"
        /\ billLock[w] = NoGuest
        /\ bill[w].status # "VOID"
        /\ bill[w].guest \in {NoGuest, server[s].party}
        /\ billLock' = [billLock EXCEPT ![w] = s]
        /\ server' = [server EXCEPT ![s].at = "order"]
        /\ UNCHANGED <<seat, meal, bill, mailed, forgone>>

\* It was voided while the lock was awaited: the capture goes on without it.
BillWasVoided(s) ==
    /\ server[s].at = "lock"
    /\ bill[server[s].bill].status = "VOID"
    /\ server' = [server EXCEPT ![s] = [@ EXCEPT !.at = "order", !.bill = NoGuest]]
    /\ UNCHANGED <<seat, meal, bill, billLock, mailed, forgone>>

\* 409, and rollback.
RefuseSecondPayer(s) ==
    LET w == server[s].bill
    IN  /\ server[s].at = "lock"
        /\ billLock[w] = NoGuest
        /\ bill[w].status # "VOID"
        /\ bill[w].guest \notin {NoGuest, server[s].party}
        /\ EndServing(s)
        /\ UNCHANGED <<seat, meal, bill, mailed, forgone>>

\* Mutant: the receipt is left to the payment.
AttachAndLeave(s) ==
    LET v == server[s].party
    IN  /\ server[s].at = "order"
        /\ meal' = [u \in Parties |-> IF u \in LiveMeals THEN [meal[u] EXCEPT !.guest = v] ELSE meal[u]]
        /\ bill' = [u \in Parties |-> IF u = server[s].bill THEN [bill[u] EXCEPT !.guest = v] ELSE bill[u]]
        /\ EndServing(s)
        /\ UNCHANGED <<seat, mailed, forgone>>

\* The live order is linked too, and all is committed; then the status of the
\* bill is looked at again.
Attach(s) ==
    LET v == server[s].party
        w == server[s].bill
    IN  /\ server[s].at = "order"
        /\ meal' = [u \in Parties |-> IF u \in LiveMeals THEN [meal[u] EXCEPT !.guest = v] ELSE meal[u]]
        /\ bill' = [u \in Parties |-> IF u = w THEN [bill[u] EXCEPT !.guest = v] ELSE bill[u]]
        /\ IF w # NoGuest
           THEN /\ server' = [server EXCEPT ![s].at = "reload"]
                /\ billLock' = [u \in Parties |-> IF billLock[u] = s THEN NoGuest ELSE billLock[u]]
           ELSE EndServing(s)
        /\ UNCHANGED <<seat, mailed, forgone>>

-----------------------------------------------------------------------------
(* send_receipt *)

\* db.refresh after a payment, or the expired object's reload after a capture:
\* this is the invoice the rest of the request sees.  A bill that is PAID may
\* have its receipt due: somebody asked for it and it has not been sent.
Reload(s) ==
    LET w == server[s].bill
    IN  /\ server[s].at = "reload"
        /\ server' = [server EXCEPT ![s] =
                IF bill[w].status = "PAID"
                THEN [@ EXCEPT !.at = "mail", !.due = bill[w].guest # NoGuest /\ ~bill[w].stamped]
                ELSE Free]
        /\ UNCHANGED <<seat, meal, bill, billLock, mailed, forgone>>

\* The row is locked; the judgement is of what was loaded before.
LockReceipt(s) ==
    LET w == server[s].bill
    IN  /\ server[s].at = "mail"
        /\ billLock[w] = NoGuest
        /\ billLock' = IF server[s].due THEN [billLock EXCEPT ![w] = s] ELSE billLock
        /\ server' = [server EXCEPT ![s] = IF server[s].due THEN [@ EXCEPT !.at = "stamp"] ELSE Free]
        /\ UNCHANGED <<seat, meal, bill, mailed, forgone>>

\* Mutant: the claim is not committed before the dispatch.
StampAndForget(s) ==
    /\ server[s].at = "stamp"
    /\ billLock' = [u \in Parties |-> IF billLock[u] = s THEN NoGuest ELSE billLock[u]]
    /\ server' = [server EXCEPT ![s].at = "dispatch"]
    /\ UNCHANGED <<seat, meal, bill, mailed, forgone>>

\* "Claim the send before dispatching".
StampReceipt(s) ==
    /\ server[s].at = "stamp"
    /\ bill' = [bill EXCEPT ![server[s].bill].stamped = TRUE]
    /\ billLock' = [u \in Parties |-> IF billLock[u] = s THEN NoGuest ELSE billLock[u]]
    /\ server' = [server EXCEPT ![s].at = "dispatch"]
    /\ UNCHANGED <<seat, meal, mailed, forgone>>

Dispatch(s) ==
    /\ server[s].at = "dispatch"
    /\ mailed' = [mailed EXCEPT ![server[s].bill] = @ + 1]
    /\ EndServing(s)
    /\ UNCHANGED <<seat, meal, bill, forgone>>

\* The process dies, or the provider refuses the message.
ServerDies(s) ==
    /\ server[s] # Free
    /\ EndServing(s)
    /\ forgone' = IF server[s].at \in {"reload", "mail", "stamp", "dispatch"}
                  THEN forgone \cup {server[s].bill} ELSE forgone
    /\ UNCHANGED <<seat, meal, bill, mailed>>

RcNext ==
    \/ \E v \in Parties :
         \/ Sit(v) \/ OrderMeal(v) \/ MakeBill(v) \/ PayElsewhere(v) \/ WriteOffMeal(v) \/ GraceEnds(v)
         \/ \E s \in Servers : PayAtCounter(s, v) \/ QuickBillAndClose(s, v) \/ Submit(s, v)
    \/ \E s \in Servers :
         \/ FindBill(s) \/ LockBill(s) \/ BillWasVoided(s) \/ RefuseSecondPayer(s) \/ Attach(s)
         \/ Reload(s) \/ LockReceipt(s) \/ StampReceipt(s) \/ Dispatch(s) \/ ServerDies(s)

RcSpec == RcInit /\ [][RcNext]_rcVars

-----------------------------------------------------------------------------
(* Properties *)

(***************************************************************************)
(* "Send the receipt [...] at most once", of the payment and the captures  *)
(* that race for it.  Violated: who waited for the row still sees it as it *)
(* was loaded before.                                                      *)
(***************************************************************************)
ReceiptOnce == \A v \in Parties : mailed[v] <= 1

(***************************************************************************)
(* What the claim does achieve: only requests that had loaded the invoice  *)
(* before the first claim was committed can mail it again.  However many   *)
(* submissions and retries come later, a bill's receipt is mailed no more  *)
(* often than requests are served at the same time.                        *)
(***************************************************************************)
RepeatsOverlap == \A v \in Parties : mailed[v] <= Cardinality(Servers)

(***************************************************************************)
(* Whoever completes the pair mails: when a bill is PAID and carries an    *)
(* address its receipt has gone out, or a request is on its way to send    *)
(* it - whichever of the payment and the capture committed first, and with *)
(* stale copies in the hands of both - unless a crash or a payment that    *)
(* mails nothing (gateway, override) has dropped it.                       *)
(***************************************************************************)
Sending(s, v) ==
    /\ server[s].bill = v
    /\ server[s].at \in {"reload", "stamp", "dispatch"} \/ (server[s].at = "mail" /\ server[s].due)

PairCompleted ==
    \A v \in Parties :
        bill[v].status = "PAID" /\ bill[v].guest # NoGuest /\ mailed[v] = 0 =>
            v \in forgone \/ \E s \in Servers : Sending(s, v)

(***************************************************************************)
(* "A settled bill's payer is not something a second submission gets to    *)
(* rewrite": an address on an invoice stays, whoever submits meanwhile.    *)
(***************************************************************************)
PayerStays == [][\A v \in Parties : bill[v].guest # NoGuest => bill'[v].guest = bill[v].guest]_rcVars

(***************************************************************************)
(* "The invoice belonging to THIS session's visit": an invoice carries,    *)
(* and its receipt is mailed to, the address of the party it is for.       *)
(* Violated: a live session is given the table's newest invoice, which is  *)
(* the last party's until its own is made.                                 *)
(***************************************************************************)
OwnVisitOnly == \A v \in Parties : bill[v].guest \in {NoGuest, v}

=============================================================================
