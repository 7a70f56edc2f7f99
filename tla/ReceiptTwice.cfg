\* Two captures, or a capture and a payment, that mail one receipt each.
CONSTANTS
    Parties = {1}
    Servers = {s1, s2}
    NoGuest = 0
SPECIFICATION RcSpec
INVARIANTS ReceiptOnce
CHECK_DEADLOCK FALSE
