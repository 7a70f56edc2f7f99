--------------------------- MODULE OrderLifecycle ---------------------------
(***************************************************************************)
(* What the ordering backend promises about the orders of ONE table, seen  *)
(* from outside: every order is opened once, alternates between OPEN and   *)
(* MEAL_FINISHED while the party is there, is closed once and stays        *)
(* closed, and a table never carries two live orders.                      *)
(*                                                                         *)
(* The promise is spread over the code: the transition table of            *)
(* backend/app/services/order_state.py, the partial unique index           *)
(* uq_orders_active_table of the schema, and the two closing paths of      *)
(* payment_service that leave OPEN directly (close_unpaid, quick bill).    *)
(* TableOrders and Billing are each shown to implement this module.        *)
(***************************************************************************)

CONSTANT Orders         \* the rows the orders table may come to hold

VARIABLE status         \* the status column; "none" is a row not inserted yet

OrderStatus == {"OPEN", "MEAL_FINISHED", "CLOSED"}

\* What the partial unique index of the schema indexes.
Live == {o \in Orders : status[o] \in {"OPEN", "MEAL_FINISHED"}}

Init == status = [o \in Orders |-> "none"]

Open(o) ==
    /\ status[o] = "none"
    /\ Live = {}
    /\ status' = [status EXCEPT ![o] = "OPEN"]

FinishMeal(o) ==
    /\ status[o] = "OPEN"
    /\ status' = [status EXCEPT ![o] = "MEAL_FINISHED"]

ReopenOrder(o) ==
    /\ status[o] = "MEAL_FINISHED"
    /\ status' = [status EXCEPT ![o] = "OPEN"]

Close(o) ==
    /\ o \in Live
    /\ status' = [status EXCEPT ![o] = "CLOSED"]

Next == \E o \in Orders : Open(o) \/ FinishMeal(o) \/ ReopenOrder(o) \/ Close(o)

Spec == Init /\ [][Next]_status

=============================================================================
