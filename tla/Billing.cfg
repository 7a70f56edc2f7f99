\* Two orders that are billed, fail, reopen and are billed again, and share keys.
CONSTANTS
    Orders = {o1, o2}
    Items = {i1, i2}
    Invoices = {v1, v2}
    Procs = {p1, p2}
    Keys = {k1}
    Txns = {t1, t2}
    Null = Null
SPECIFICATION Spec
\* When every order is settled there is nothing left to do.
CHECK_DEADLOCK FALSE
SYMMETRY Symmetry
INVARIANTS OneActiveInvoice BooksMatchFloor CreditsAreReported
PROPERTIES SettledForGood SettlementSpec LifecycleSteps
