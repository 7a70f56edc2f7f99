\* Two requests race to place rounds and ask for the bill, over two orders.
CONSTANTS
    Orders = {o1, o2}
    Items = {i1, i2}
    Sessions = {s1}
    Requests = {r1, r2}
    Null = Null
SPECIFICATION Spec
SYMMETRY Symmetry
INVARIANTS TypeOK OneLiveOrder TicketedOnce
PROPERTIES InactiveTableTakesNothing ItemsSettle LifecycleSpec
