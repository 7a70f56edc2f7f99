\* A failed gateway payment is followed by a new bill.
CONSTANTS
    Orders = {o1}
    Items = {i1}
    Invoices = {v1, v2}
    Procs = {p1}
    Keys = {}
    Txns = {t1}
    Null = Null
SPECIFICATION Spec
\* When every order is settled there is nothing left to do.
CHECK_DEADLOCK FALSE
SYMMETRY Symmetry
INVARIANTS OwnInvoiceIsUnique
