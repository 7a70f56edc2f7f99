\* Who waits for a table, an invoice, an order or a counter gets on.
CONSTANTS
    Orders = {o1}
    Items = {i1, i2}
    Sessions = {s1}
    Requests = {r1, r2}
    Invoices = {v1, v2}
    Procs = {p1, p2}
    Keys = {k1}
    Txns = {t1}
    Null = Null
    Callers = {c1, c2, c3}
    None = None
    MaxDocuments = 6
SPECIFICATION LocksSpec
\* When every order is settled there is nothing left to do.
CHECK_DEADLOCK FALSE
INVARIANTS Gapless
PROPERTIES RequestsAnswered LocksReleased EveryoneDraws
