\* A report that is mailed twice.  With one attempt a lost answer settles the
\* day, so it takes a restart.
CONSTANTS
    Replicas = {replica1}
    NoReplica = NoReplica
    LastDay = 1
    MaxAttempts = 1
    MaxOutages = 1
SPECIFICATION NrSpec
INVARIANTS SentOnce
CHECK_DEADLOCK FALSE
