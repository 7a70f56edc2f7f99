\* An append that read the order before staff moved it.
CONSTANTS
    Orders = {o1}
    Items = {i1, i2}
    Sessions = {s1}
    Requests = {r1}
    Null = Null
SPECIFICATION Spec
SYMMETRY Symmetry
PROPERTIES AppendsOnlyToOpenOrders
