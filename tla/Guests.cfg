\* Scans while sessions lapse, die and are created again; waiter calls; receipts; prices and offers.
CONSTANTS
    Orders = {order1}
    Items = {item1}
    Sessions = {row1, row2}
    Requests = {call1, call2}
    Null = Null
    Rows = {one, two, three}
    Taps = {call1, call2}
    Waiters = {row1, row2}
    NoCall = NoCall
    Parties = {1, 2}
    Servers = {call1, call2}
    NoGuest = 0
    MaxPrice = 3
    MaxOffers = 2
    LastHour = 1
    Weekdays = {0}
    NoOffer = NoOffer
    Goods = {row1, row2}
    Groups = {group1}
    Editors = {call1, call2}
    Copies = 4
    NoGroup = NoGroup
SPECIFICATION GuestsSpec
SYMMETRY Symmetry
INVARIANTS OneLiveSession CreditedOnce TapRingsForThisGuest RepeatsOverlap PairCompleted BestOfferWins OfferHasTarget
PROPERTIES PayerStays
CHECK_DEADLOCK FALSE
