----------------------------- MODULE MCRowLocks -----------------------------
(***************************************************************************)
(* TLC instances of the three components whose requests wait for row       *)
(* locks: the guests' rounds at a table (TableOrders), payments and closes *)
(* (Billing) and the counter (Numbering).  A behaviour is one of one of    *)
(* them, `locked', while the others stay as they start.                    *)
(***************************************************************************)
EXTENDS Numbering

CONSTANTS Orders, Items, Sessions, Requests, Invoices, Procs, Keys, Txns, Null

VARIABLES
    locked,
    tableOrder, tableItem, session, lapsed, gate, tableActive, reprinted, req,
    order, item, appending, invoice, intents, callbacks, proc

\* One item of the rounds is enough: what is ordered does not decide who waits.
T == INSTANCE TableOrders WITH
         Items <- {CHOOSE i \in Items : TRUE}, order <- tableOrder, item <- tableItem

B == INSTANCE Billing

tableVars == <<tableOrder, tableItem, session, lapsed, gate, tableActive, reprinted, req>>
billVars == <<order, item, appending, invoice, intents, callbacks, proc>>
locksVars == <<locked, tableVars, billVars, vars>>

LocksInit ==
    /\ locked \in {"table", "bills", "counter"}
    /\ T!Init /\ B!Init /\ Init
    /\ locked # "table" => ~gate

TableNext == locked = "table" /\ T!Next /\ UNCHANGED <<locked, billVars, vars>>
BillsNext == locked = "bills" /\ B!Next /\ UNCHANGED <<locked, tableVars, vars>>
CounterNext == locked = "counter" /\ Next /\ UNCHANGED <<locked, tableVars, billVars>>

LocksNext == TableNext \/ BillsNext \/ CounterNext

LocksSpec ==
    /\ LocksInit /\ [][LocksNext]_locksVars
    /\ T!Fairness /\ B!Fairness
    /\ \A c \in Callers : SF_vars(locked = "counter" /\ Draws(c)) /\ WF_vars(locked = "counter" /\ Ends(c))

\* A guest's request that waits for the table row is answered.
RequestsAnswered == T!RequestsAnswered

\* A thread that holds an invoice or an order lets it go.
LocksReleased == B!LocksReleased

=============================================================================
