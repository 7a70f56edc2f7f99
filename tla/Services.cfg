\* Kitchen tickets, sockets, 3D models, the nightly report.
CONSTANTS
    Pages = {page1}
    Sockets = {sock1, sock2}
    Buckets = {waiters, table}
    MaxFaults = 2
    Views = {view1}
    Tags = {tag1}
    Tasks = {task1, task2}
    MaxRuns = 2
    MaxRestarts = 1
    MaxTickets = 3
    FetchLimit = 2
    Workers = {pi1, pi2}
    MaxMishaps = 2
    Replicas = {replica1, replica2}
    NoReplica = NoReplica
    LastDay = 2
    MaxAttempts = 2
    MaxOutages = 1
SPECIFICATION ServicesSpec
INVARIANTS NoGhosts OneSocketPerPage PrintedWasTaken OneMailPerOutage GenerationAttended
PROPERTIES PagesRecover GenerationEnds TicketsReachKitchen DaySettles
CHECK_DEADLOCK FALSE
