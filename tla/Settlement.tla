----------------------------- MODULE Settlement -----------------------------
(***************************************************************************)
(* What the billing half of the backend promises about money: an order's   *)
(* bill is settled once, for good - paid, or written off by staff - and    *)
(* nothing is credited to an order after that.  Billing implements it.     *)
(***************************************************************************)

CONSTANT Orders

VARIABLE bill           \* [Orders -> "open" | "paid" | "written_off"]

Init == bill = [o \in Orders |-> "open"]

Pay(o) ==
    /\ bill[o] = "open"
    /\ bill' = [bill EXCEPT ![o] = "paid"]

WriteOff(o) ==
    /\ bill[o] = "open"
    /\ bill' = [bill EXCEPT ![o] = "written_off"]

Next == \E o \in Orders : Pay(o) \/ WriteOff(o)

Spec == Init /\ [][Next]_bill

=============================================================================
