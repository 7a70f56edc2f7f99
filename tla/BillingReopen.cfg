\* A bill outlives the reopening of its order.
CONSTANTS
    Orders = {o1}
    Items = {i1}
    Invoices = {v1}
    Procs = {p1}
    Keys = {}
    Txns = {}
    Null = Null
SPECIFICATION Spec
\* When every order is settled there is nothing left to do.
CHECK_DEADLOCK FALSE
SYMMETRY Symmetry
INVARIANTS NoBillOnOpenOrder
