------------------------------ MODULE MCGuests ------------------------------
(***************************************************************************)
(* TLC instances of what the guests of a table do beside ordering: they    *)
(* scan its code, call the waiter, see the prices the offers make and      *)
(* leave an address for the receipt.  Those share no row, so a behaviour   *)
(* is one of one of them, `guests', while the others stay as they start.   *)
(***************************************************************************)
EXTENDS TableOrders, WaiterCalls, Receipts, Pricing, Offers, TLC

VARIABLE guests

guestsVars == <<guests, vars, wcVars, rcVars, prVars, ofVars>>

\* One table and one offer stand for all while they are not looked at.
GuestsInit ==
    /\ guests \in {"scans", "calls", "receipts", "prices", "offers"}
    /\ Init /\ WcInit /\ RcInit /\ PrInit /\ OfInit
    /\ guests # "scans" => ~gate
    /\ guests # "offers" => offer.to = "CATEGORY" /\ ~offer.enabled

ScansNext == guests = "scans" /\ Next /\ UNCHANGED <<guests, wcVars, rcVars, prVars, ofVars>>
CallsNext == guests = "calls" /\ WcNext /\ UNCHANGED <<guests, vars, rcVars, prVars, ofVars>>
ReceiptsNext == guests = "receipts" /\ RcNext /\ UNCHANGED <<guests, vars, wcVars, prVars, ofVars>>
PricesNext == guests = "prices" /\ PrNext /\ UNCHANGED <<guests, vars, wcVars, rcVars, ofVars>>
OffersNext == guests = "offers" /\ OfNext /\ UNCHANGED <<guests, vars, wcVars, rcVars, prVars>>

GuestsNext == ScansNext \/ CallsNext \/ ReceiptsNext \/ PricesNext \/ OffersNext

GuestsSpec == GuestsInit /\ [][GuestsNext]_guestsVars

\* Rows and requests may be permuted.  The sets of different parts are given
\* the same values, so that few permutations serve all of them.
Symmetry == Permutations(Sessions) \cup Permutations(Requests)

=============================================================================
