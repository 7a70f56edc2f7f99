\* The next party's address on the last party's bill.
CONSTANTS
    Parties = {1, 2}
    Servers = {s1, s2}
    NoGuest = 0
SPECIFICATION RcSpec
INVARIANTS OwnVisitOnly
CHECK_DEADLOCK FALSE
