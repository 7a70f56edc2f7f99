--------------------------- MODULE ServicesProofs ---------------------------
(***************************************************************************)
(* The services that share no row: kitchen tickets, the nightly report,    *)
(* live updates and 3D models, for any number of tickets, workers, days,   *)
(* replicas, pages, sockets, clicks and jobs, and any bound on what goes   *)
(* wrong.                                                                  *)
(***************************************************************************)
EXTENDS Realtime, ArModels, KotQueue, NightlyReport,
        FiniteSetTheorems, WellFoundedInduction, TLAPS

-----------------------------------------------------------------------------
(* Kitchen tickets *)

WorkerRow == [token : Nat, batch : SUBSET Tickets, done : SUBSET Tickets]

TicketTypes ==
    /\ ticket \in [Tickets -> {"none", "pending", "printed"}]
    /\ copies \in [Tickets -> 0 .. 2]
    /\ worker \in [Workers -> WorkerRow]
    /\ current \in Nat /\ mishaps \in Nat

\* What a worker has in hand was queued, and what it will acknowledge has
\* been taken by its printer.
InHand ==
    /\ \A n \in Tickets : /\ ticket[n] = "none" => copies[n] = 0
                          /\ ticket[n] = "printed" => copies[n] >= 1 \/ n \in swallowed
    /\ \A w \in Workers :
         /\ \A n \in worker[w].batch : ticket[n] # "none"
         /\ \A n \in worker[w].done : ticket[n] # "none" /\ (copies[n] >= 1 \/ n \in swallowed)

\* The worker that holds the token at first.
Owner == CHOOSE v \in Workers : TRUE

\* Without a mishap it stays the only one, and what is on paper and not yet
\* marked is in its hands.
Undisturbed ==
    mishaps = 0 =>
        /\ trading /\ current = 1 /\ swallowed = {}
        /\ \A w \in Workers :
             /\ worker[w].token = IF w = Owner THEN 1 ELSE 0
             /\ w # Owner => worker[w].batch = {} /\ worker[w].done = {}
             /\ \A n \in worker[w].batch : copies[n] = 0
        /\ \A n \in Tickets :
             /\ copies[n] <= 1
             /\ ticket[n] = "pending" /\ copies[n] # 0 => \E w \in Workers : n \in worker[w].done

TicketInv == TicketTypes /\ InHand /\ Undisturbed

LEMMA InitTickets == KqInit => TicketInv
  <1> SUFFICES ASSUME KqInit PROVE TicketInv
    OBVIOUS
  <1>1. TicketTypes
    BY DEF KqInit, TicketTypes, WorkerRow
  <1>2. InHand
    BY DEF KqInit, InHand
  <1>3. Undisturbed
    BY DEF KqInit, Undisturbed, Owner
  <1> QED
    BY <1>1, <1>2, <1>3 DEF TicketInv

\* A step in which worker w lays down what it had in hand.
LEMMA LaidDown ==
  ASSUME TicketInv, NEW w \in Workers,
         worker' \in [Workers -> WorkerRow], \A v \in Workers \ {w} : worker'[v] = worker[v],
         worker'[w].batch = {}, worker'[w].done = {},
         UNCHANGED <<ticket, copies, current, trading, swallowed>>,
         mishaps' \in Nat, mishaps' # 0
  PROVE  TicketInv'
  <1>1. TicketTypes'
    BY DEF TicketInv, TicketTypes
  <1>2. InHand'
    BY DEF TicketInv, InHand
  <1> QED
    BY <1>1, <1>2 DEF TicketInv, Undisturbed

LEMMA TicketSteps ==
  ASSUME TicketInv, KqNext
  PROVE  TicketInv'
  <1>1. /\ ticket \in [Tickets -> {"none", "pending", "printed"}]
        /\ copies \in [Tickets -> 0 .. 2] /\ worker \in [Workers -> WorkerRow]
        /\ current \in Nat /\ mishaps \in Nat
    BY DEF TicketInv, TicketTypes
  <1>2. ASSUME NEW n \in Tickets, EnqueueJob(n) PROVE TicketInv'
    <2>1. /\ ticket[n] = "none" /\ ticket' = [ticket EXCEPT ![n] = "pending"]
          /\ UNCHANGED <<copies, current, trading, worker, mishaps, swallowed>>
      BY <1>2 DEF EnqueueJob
    <2>2. TicketTypes'
      BY <1>1, <2>1 DEF TicketTypes
    <2>3. InHand'
      BY <1>1, <2>1 DEF TicketInv, InHand, WorkerRow
    <2>4. Undisturbed'
      BY <1>1, <2>1 DEF TicketInv, InHand, Undisturbed
    <2> QED
      BY <2>2, <2>3, <2>4 DEF TicketInv
  <1>3. ASSUME NEW w \in Workers, FetchPending(w) PROVE TicketInv'
    <2>1. /\ Authorized(w) /\ worker[w].batch = {} /\ worker[w].done = {}
          /\ worker' = [worker EXCEPT ![w].batch = Oldest]
          /\ UNCHANGED <<ticket, copies, current, trading, mishaps, swallowed>>
      BY <1>3 DEF FetchPending
    <2>2. \A n \in Oldest : n \in Tickets /\ ticket[n] = "pending"
      BY DEF Oldest, Queue
    <2>3. /\ worker' \in [Workers -> WorkerRow]
          /\ worker'[w].batch = Oldest /\ worker'[w].done = {} /\ worker'[w].token = worker[w].token
          /\ \A v \in Workers \ {w} : worker'[v] = worker[v]
      <3>1. Oldest \in SUBSET Tickets
        BY <2>2
      <3> QED
        BY <1>1, <2>1, <3>1 DEF WorkerRow
    <2>4. TicketTypes'
      BY <1>1, <2>1, <2>3 DEF TicketTypes
    <2>5. InHand'
      BY <2>1, <2>2, <2>3 DEF TicketInv, InHand
    <2>6. Undisturbed'
      <3> SUFFICES ASSUME mishaps = 0 PROVE Undisturbed'
        BY <2>1 DEF Undisturbed
      <3>1. w = Owner
        BY <2>1 DEF TicketInv, Undisturbed, Authorized
      <3>2. \A n \in Oldest : copies[n] = 0
        BY <2>1, <2>2, <3>1 DEF TicketInv, Undisturbed
      <3> QED
        BY <2>1, <2>3, <3>1, <3>2 DEF TicketInv, Undisturbed
    <2> QED
      BY <2>4, <2>5, <2>6 DEF TicketInv
  <1>4. ASSUME NEW w \in Workers, NEW n \in Tickets, PrintTicket(w, n) PROVE TicketInv'
    <2>1. /\ n \in worker[w].batch /\ UNCHANGED <<ticket, current, trading, mishaps, swallowed>>
          /\ copies' = [copies EXCEPT ![n] = IF @ < 2 THEN @ + 1 ELSE @]
          /\ worker' = [worker EXCEPT ![w].batch = @ \ {n}, ![w].done = @ \cup {n}]
      BY <1>4 DEF PrintTicket
    <2>2. /\ worker' \in [Workers -> WorkerRow]
          /\ worker'[w].batch = worker[w].batch \ {n} /\ worker'[w].done = worker[w].done \cup {n}
          /\ worker'[w].token = worker[w].token
          /\ \A v \in Workers \ {w} : worker'[v] = worker[v]
      BY <1>1, <2>1 DEF WorkerRow
    <2>3. /\ copies' \in [Tickets -> 0 .. 2]
          /\ copies'[n] >= 1 /\ (copies[n] = 0 => copies'[n] = 1)
          /\ \A m \in Tickets \ {n} : copies'[m] = copies[m]
      BY <1>1, <2>1
    <2>4. TicketTypes'
      BY <1>1, <2>1, <2>2, <2>3 DEF TicketTypes
    <2>5. \A v \in Workers : worker[v] \in WorkerRow
      BY <1>1
    <2>6. InHand'
      BY <2>1, <2>2, <2>3, <2>5 DEF TicketInv, InHand, WorkerRow
    <2>7. Undisturbed'
      BY <2>1, <2>2, <2>3, <2>5 DEF TicketInv, Undisturbed, WorkerRow
    <2> QED
      BY <2>4, <2>6, <2>7 DEF TicketInv
  <1>5. ASSUME NEW w \in Workers, NEW n \in Tickets, Jam(w, n) PROVE TicketInv'
    <2>1. /\ mishaps' = mishaps + 1 /\ UNCHANGED <<ticket, copies, current, trading, swallowed>>
          /\ worker' = [worker EXCEPT ![w].batch = @ \ {n}]
      BY <1>5 DEF Jam, Mishap
    <2>2. /\ worker' \in [Workers -> WorkerRow]
          /\ worker'[w].batch = worker[w].batch \ {n} /\ worker'[w].done = worker[w].done
          /\ \A v \in Workers \ {w} : worker'[v] = worker[v]
      BY <1>1, <2>1 DEF WorkerRow
    <2>3. TicketTypes' /\ mishaps' # 0
      BY <1>1, <2>1, <2>2 DEF TicketTypes
    <2>4. InHand'
      BY <2>1, <2>2 DEF TicketInv, InHand
    <2> QED
      BY <2>3, <2>4 DEF TicketInv, Undisturbed
  <1>6. ASSUME NEW w \in Workers, AckJobs(w) PROVE TicketInv'
    <2>1. /\ worker[w].batch = {} /\ Rest(w) /\ UNCHANGED <<copies, current, trading, mishaps, swallowed>>
          /\ ticket' = [n \in Tickets |-> IF n \in worker[w].done THEN "printed" ELSE ticket[n]]
      BY <1>6 DEF AckJobs
    <2>2. /\ worker' \in [Workers -> WorkerRow]
          /\ worker'[w].batch = {} /\ worker'[w].done = {} /\ worker'[w].token = worker[w].token
          /\ \A v \in Workers \ {w} : worker'[v] = worker[v]
      BY <1>1, <2>1 DEF Rest, WorkerRow
    <2>3. \A v \in Workers : worker[v] \in WorkerRow
      BY <1>1
    <2>4. TicketTypes'
      BY <1>1, <2>1, <2>2 DEF TicketTypes
    <2>5. InHand'
      BY <2>1, <2>2, <2>3 DEF TicketInv, InHand, WorkerRow
    <2>6. Undisturbed'
      BY <2>1, <2>2, <2>3 DEF TicketInv, Undisturbed, WorkerRow
    <2> QED
      BY <2>4, <2>5, <2>6 DEF TicketInv
  <1>7. ASSUME NEW w \in Workers, AckLost(w) \/ Crash(w) PROVE TicketInv'
    <2>1. Rest(w) /\ UNCHANGED <<ticket, copies, current, trading, swallowed>>
      BY <1>7 DEF AckLost, Crash
    <2>2. /\ worker' \in [Workers -> WorkerRow]
          /\ worker'[w].batch = {} /\ worker'[w].done = {} /\ worker'[w].token = worker[w].token
          /\ \A v \in Workers \ {w} : worker'[v] = worker[v]
      BY <1>1, <2>1 DEF Rest, WorkerRow
    <2>3. CASE Mishap
      BY <1>1, <2>1, <2>2, <2>3, LaidDown DEF Mishap
    <2>4. CASE UNCHANGED mishaps /\ ~Authorized(w) /\ worker[w].done # {}
      <3>1. mishaps # 0
        BY <2>4 DEF TicketInv, Undisturbed, Authorized
      <3> QED
        BY <1>1, <2>1, <2>2, <2>4, <3>1, LaidDown
    <2> QED
      BY <1>7, <2>3, <2>4 DEF AckLost, Crash
  <1>8. CASE RotateToken \/ SuspendRestaurant
    BY <1>1, <1>8 DEF RotateToken, SuspendRestaurant, Mishap, TicketInv, TicketTypes, InHand, Undisturbed
  <1>9. ASSUME NEW w \in Workers, Configure(w) PROVE TicketInv'
    <2>1. /\ worker[w].token # current /\ UNCHANGED <<ticket, copies, current, trading, swallowed>>
          /\ worker' = [worker EXCEPT ![w] = [token |-> current, batch |-> {}, done |-> {}]]
      BY <1>9 DEF Configure
    <2>2. /\ worker' \in [Workers -> WorkerRow]
          /\ worker'[w].batch = {} /\ worker'[w].done = {}
          /\ \A v \in Workers \ {w} : worker'[v] = worker[v]
      BY <1>1, <2>1 DEF WorkerRow
    <2>3. CASE Mishap
      <3>1. mishaps' \in Nat /\ mishaps' # 0
        BY <1>1, <2>3 DEF Mishap
      <3> QED
        BY <2>1, <2>2, <3>1, LaidDown
    <2>4. CASE UNCHANGED mishaps /\ \A v \in Workers : worker[v].token # current
      <3>1. Owner \in Workers
        BY DEF Owner
      <3>2. mishaps # 0
        BY <2>4, <3>1 DEF TicketInv, Undisturbed
      <3> QED
        BY <1>1, <2>1, <2>2, <2>4, <3>2, LaidDown
    <2> QED
      BY <1>9, <2>3, <2>4 DEF Configure
  <1>10. ASSUME NEW w \in Workers, NEW n \in Tickets, SwallowTicket(w, n) PROVE TicketInv'
    <2>1. /\ n \in worker[w].batch /\ mishaps' = mishaps + 1 /\ swallowed' = swallowed \cup {n}
          /\ UNCHANGED <<ticket, copies, current, trading>>
          /\ worker' = [worker EXCEPT ![w].batch = @ \ {n}, ![w].done = @ \cup {n}]
      BY <1>10 DEF SwallowTicket, Mishap
    <2>2. /\ worker' \in [Workers -> WorkerRow]
          /\ worker'[w].batch = worker[w].batch \ {n} /\ worker'[w].done = worker[w].done \cup {n}
          /\ \A v \in Workers \ {w} : worker'[v] = worker[v]
      BY <1>1, <2>1 DEF WorkerRow
    <2>3. TicketTypes' /\ mishaps' # 0
      BY <1>1, <2>1, <2>2 DEF TicketTypes
    <2>4. InHand'
      BY <2>1, <2>2 DEF TicketInv, InHand
    <2> QED
      BY <2>3, <2>4 DEF TicketInv, Undisturbed
  <1> QED
    BY <1>2, <1>3, <1>4, <1>5, <1>6, <1>7, <1>8, <1>9, <1>10 DEF KqNext, WorkerStep

LEMMA StepTickets == TicketInv /\ [KqNext]_kqVars => TicketInv'
  <1> SUFFICES ASSUME TicketInv, [KqNext]_kqVars PROVE TicketInv'
    OBVIOUS
  <1>1. CASE UNCHANGED kqVars
    BY <1>1 DEF kqVars, TicketInv, TicketTypes, InHand, Undisturbed
  <1> QED
    BY <1>1, TicketSteps

(***************************************************************************)
(* A ticket that is marked printed is on paper or was swallowed by the     *)
(* printer that took it, whatever crashed, jammed or was lost, and without *)
(* a mishap it is on paper once.                                           *)
(***************************************************************************)
THEOREM PrintedTicketsWereTaken == KqSpec => []PrintedWasTaken
  <1>1. TicketInv => PrintedWasTaken
    BY DEF TicketInv, InHand, Undisturbed, PrintedWasTaken
  <1> QED
    BY <1>1, InitTickets, StepTickets, PTL DEF KqSpec

-----------------------------------------------------------------------------
(* The nightly report *)

LedgerRow == [status : {"absent", "PENDING", "SENT", "SKIPPED_NO_SALES", "FAILED"}, attempts : Nat]

TickRow == [at : {"asleep", "claim", "lock", "send", "mark"}, day : Days, sales : BOOLEAN]

ReportTypes ==
    /\ today \in Days /\ outages \in Nat
    /\ ledger \in [Days -> LedgerRow]
    /\ ledgerLock \in [Days -> Replicas \cup {NoReplica}]
    /\ tick \in [Replicas -> TickRow]
    /\ mails \in [Days -> Nat]

\* Who sends a report holds the day's row, and the day is not settled.
SenderHolds ==
    \A r \in Replicas : tick[r].at \in {"send", "mark"} =>
        ledgerLock[tick[r].day] = r /\ ~Settled(tick[r].day)

\* Beyond the outages there is one message, and it is recorded or about to be.
MailsCounted ==
    \A d \in Days :
        \/ mails[d] <= outages
        \/ /\ mails[d] <= 1 + outages
           /\ \/ ledger[d].status = "SENT"
              \/ \E r \in Replicas : tick[r].at = "mark" /\ tick[r].day = d

ReportInv == ReportTypes /\ SenderHolds /\ MailsCounted

LEMMA InitReport == NrInit => ReportInv
  <1> SUFFICES ASSUME NrInit PROVE ReportInv
    OBVIOUS
  <1>1. 1 \in Days
    BY ReportAssumption DEF Days
  <1>2. ReportTypes
    BY <1>1 DEF NrInit, ReportTypes, LedgerRow, TickRow, Asleep
  <1>3. SenderHolds /\ MailsCounted
    BY DEF NrInit, SenderHolds, MailsCounted, Asleep
  <1> QED
    BY <1>2, <1>3 DEF ReportInv

LEMMA TickEnds ==
  ASSUME ReportTypes, NEW r \in Replicas, EndTick(r)
  PROVE  /\ tick' \in [Replicas -> TickRow] /\ tick'[r].at = "asleep"
         /\ \A q \in Replicas \ {r} : tick'[q] = tick[q]
         /\ ledgerLock' \in [Days -> Replicas \cup {NoReplica}]
         /\ \A q \in Replicas \ {r}, d \in Days : ledgerLock[d] = q => ledgerLock'[d] = q
  <1>1. Asleep \in TickRow
    BY ReportAssumption DEF Asleep, TickRow, Days
  <1> QED
    BY <1>1 DEF ReportTypes, EndTick, Asleep

\* Two replicas never send the same day's report.
LEMMA SenderAlone ==
  ASSUME ReportInv, NEW r \in Replicas, tick[r].at \in {"send", "mark"},
         NEW q \in Replicas \ {r}, tick[q].at \in {"send", "mark"}
  PROVE  tick[q].day # tick[r].day
  BY DEF ReportInv, SenderHolds

\* What happens in the restaurant, and a tick that has not sent, changes no mail.
LEMMA QuietSteps ==
  ASSUME ReportInv,
         \/ Midnight \/ ClosingTime \/ SwitchReport \/ SettleBill
         \/ \E r \in Replicas :
               BuildReport(r) \/ InsertLedgerRow(r) \/ LockLedgerRow(r) \/ LeaveSettled(r)
  PROVE  ReportInv'
  <1>1. /\ today \in Days /\ outages \in Nat /\ ledger \in [Days -> LedgerRow]
        /\ ledgerLock \in [Days -> Replicas \cup {NoReplica}] /\ tick \in [Replicas -> TickRow]
        /\ mails \in [Days -> Nat]
    BY DEF ReportInv, ReportTypes
  <1>2. CASE Midnight \/ ClosingTime \/ SwitchReport \/ SettleBill
    <2>1. UNCHANGED <<ledger, ledgerLock, tick, mails, outages>> /\ today' \in Days
      BY <1>1, <1>2, ReportAssumption DEF Midnight, ClosingTime, SwitchReport, SettleBill, Days
    <2> QED
      BY <2>1 DEF ReportInv, ReportTypes, SenderHolds, MailsCounted, Settled
  <1>3. ASSUME NEW r \in Replicas, BuildReport(r) PROVE ReportInv'
    <2> DEFINE b == today \in sales
    <2>1. /\ tick[r].at = "asleep" /\ UNCHANGED <<today, ledger, ledgerLock, mails, outages>>
          /\ tick' = [tick EXCEPT ![r] = [at |-> "claim", day |-> today, sales |-> b]]
      BY <1>3 DEF BuildReport
    <2>2. b \in BOOLEAN
      OBVIOUS
    <2>3. /\ tick' \in [Replicas -> TickRow] /\ tick'[r].at = "claim"
          /\ \A q \in Replicas \ {r} : tick'[q] = tick[q]
      <3> HIDE DEF b
      <3> QED
        BY <1>1, <2>1, <2>2 DEF TickRow
    <2> QED
      BY <2>1, <2>3 DEF ReportInv, ReportTypes, SenderHolds, MailsCounted, Settled
  <1>4. ASSUME NEW r \in Replicas, InsertLedgerRow(r) PROVE ReportInv'
    <2> DEFINE d == tick[r].day
    <2>1. /\ tick[r].at = "claim" /\ UNCHANGED <<today, ledgerLock, mails, outages>>
          /\ ledger' = [ledger EXCEPT ![d].status = IF @ = "absent" THEN "PENDING" ELSE @]
          /\ tick' = [tick EXCEPT ![r].at = "lock"] /\ d \in Days
      BY <1>1, <1>4 DEF InsertLedgerRow, TickRow
    <2>2. /\ tick' \in [Replicas -> TickRow] /\ tick'[r].at = "lock"
          /\ \A q \in Replicas \ {r} : tick'[q] = tick[q]
      BY <1>1, <2>1 DEF TickRow
    <2>3. /\ ledger' \in [Days -> LedgerRow]
          /\ \A e \in Days : \/ ledger'[e].status = ledger[e].status
                             \/ ledger[e].status = "absent" /\ ledger'[e].status = "PENDING"
      BY <1>1, <2>1 DEF LedgerRow
    <2>4. \A q \in Replicas : tick[q].day \in Days
      BY <1>1 DEF TickRow
    <2>5. ReportTypes'
      BY <1>1, <2>1, <2>2, <2>3 DEF ReportTypes
    <2>6. SenderHolds'
      BY <2>1, <2>2, <2>3, <2>4 DEF ReportInv, SenderHolds, Settled
    <2>7. MailsCounted'
      BY <2>1, <2>2, <2>3 DEF ReportInv, MailsCounted
    <2> QED
      BY <2>5, <2>6, <2>7 DEF ReportInv
  <1>5. ASSUME NEW r \in Replicas, LockLedgerRow(r) PROVE ReportInv'
    <2> DEFINE d == tick[r].day
    <2>1. /\ tick[r].at = "lock" /\ UNCHANGED <<today, ledger, mails, outages>>
          /\ ledgerLock[d] = NoReplica /\ ~Settled(d) /\ ledgerLock' = [ledgerLock EXCEPT ![d] = r]
          /\ tick' = [tick EXCEPT ![r].at = "send"] /\ d \in Days
      BY <1>1, <1>5 DEF LockLedgerRow, TickRow
    <2>2. /\ tick' \in [Replicas -> TickRow] /\ tick'[r].at = "send" /\ tick'[r].day = d
          /\ \A q \in Replicas \ {r} : tick'[q] = tick[q]
      BY <1>1, <2>1 DEF TickRow
    <2>3. /\ ledgerLock' \in [Days -> Replicas \cup {NoReplica}] /\ ledgerLock'[d] = r
          /\ \A e \in Days \ {d} : ledgerLock'[e] = ledgerLock[e]
      BY <1>1, <2>1
    <2>4. \A q \in Replicas : tick[q].day \in Days
      BY <1>1 DEF TickRow
    <2>5. ReportTypes'
      BY <1>1, <2>1, <2>2, <2>3 DEF ReportTypes
    <2>6. SenderHolds'
      BY <2>1, <2>2, <2>3, <2>4, ReportAssumption DEF ReportInv, SenderHolds, Settled
    <2>7. MailsCounted'
      BY <2>1, <2>2 DEF ReportInv, MailsCounted
    <2> QED
      BY <2>5, <2>6, <2>7 DEF ReportInv
  <1>6. ASSUME NEW r \in Replicas, LeaveSettled(r) PROVE ReportInv'
    <2>1. /\ tick[r].at = "lock" /\ UNCHANGED <<today, ledger, mails, outages>> /\ EndTick(r)
      BY <1>6 DEF LeaveSettled
    <2>2. \A q \in Replicas : tick[q].day \in Days
      BY <1>1 DEF TickRow
    <2> QED
      BY <2>1, <2>2, TickEnds DEF ReportInv, ReportTypes, SenderHolds, MailsCounted, Settled
  <1> QED
    BY <1>2, <1>3, <1>4, <1>5, <1>6

\* A tick that ends with the day d settled, or tried once more, and with at
\* most as many messages more as there are outages more.
LEMMA EndingKept ==
  ASSUME ReportInv, NEW r \in Replicas, EndTick(r), today' = today, outages' \in Nat,
         NEW d \in Days, d = tick[r].day, ledger' \in [Days -> LedgerRow], mails' \in [Days -> Nat],
         \A e \in Days \ {d} : ledger'[e] = ledger[e] /\ mails'[e] = mails[e],
         outages' >= outages,
         \A q \in Replicas \ {r} : tick[q].at \in {"send", "mark"} => tick[q].day # d,
         \/ mails'[d] <= outages'
         \/ mails'[d] <= 1 + outages' /\ ledger'[d].status = "SENT"
  PROVE  ReportInv'
  <1>1. ReportTypes'
    BY TickEnds DEF ReportInv, ReportTypes
  <1>2. \A q \in Replicas : tick[q].day \in Days
    BY DEF ReportInv, ReportTypes, TickRow
  <1>3. SenderHolds'
    BY <1>2, TickEnds DEF ReportInv, SenderHolds, Settled
  <1>4. MailsCounted'
    <2>1. \A e \in Days \ {d} : \A q \in Replicas :
              tick[q].at = "mark" /\ tick[q].day = e => tick'[q] = tick[q]
      BY TickEnds DEF ReportInv
    <2>2. outages \in Nat /\ mails \in [Days -> Nat]
      BY DEF ReportInv, ReportTypes
    <2>3. ASSUME NEW e \in Days \ {d}
          PROVE  \/ mails'[e] <= outages'
                 \/ /\ mails'[e] <= 1 + outages'
                    /\ \/ ledger'[e].status = "SENT"
                       \/ \E q \in Replicas : tick'[q].at = "mark" /\ tick'[q].day = e
      <3>1. mails[e] \in Nat /\ mails'[e] = mails[e]
        BY <2>2
      <3>2. CASE mails[e] <= outages
        BY <2>2, <3>1, <3>2
      <3>3. CASE mails[e] <= 1 + outages /\ ledger[e].status = "SENT"
        BY <2>2, <3>1, <3>3
      <3>4. ASSUME mails[e] <= 1 + outages, NEW q \in Replicas, tick[q].at = "mark", tick[q].day = e
            PROVE  mails'[e] <= 1 + outages' /\ tick'[q].at = "mark" /\ tick'[q].day = e
        BY <2>1, <2>2, <3>1, <3>4
      <3> QED
        BY <3>2, <3>3, <3>4 DEF ReportInv, MailsCounted
    <2> QED
      BY <2>3 DEF MailsCounted
  <1> QED
    BY <1>1, <1>3, <1>4 DEF ReportInv

LEMMA SendingSteps ==
  ASSUME ReportInv, NEW r \in Replicas,
         SkipDay(r) \/ MailReport(r) \/ MarkSent(r) \/ RecordFailure(r) \/ RestartReplica(r)
  PROVE  ReportInv'
  <1> DEFINE d == tick[r].day
  <1>1. /\ today \in Days /\ outages \in Nat /\ ledger \in [Days -> LedgerRow]
        /\ ledgerLock \in [Days -> Replicas \cup {NoReplica}] /\ tick \in [Replicas -> TickRow]
        /\ mails \in [Days -> Nat] /\ d \in Days /\ \A q \in Replicas : tick[q].day \in Days
    BY DEF ReportInv, ReportTypes, TickRow
  <1>2. \A q \in Replicas \ {r} :
            tick[q].at \in {"send", "mark"} /\ tick[r].at \in {"send", "mark"} => tick[q].day # d
    BY SenderAlone
  <1>3. tick[r].at = "send" => mails[d] <= outages
    BY <1>1, <1>2 DEF ReportInv, MailsCounted, SenderHolds, Settled
  <1>4. mails[d] <= 1 + outages /\ (tick[r].at = "mark" => ~Settled(d))
    BY <1>1 DEF ReportInv, MailsCounted, SenderHolds
  <1>5. CASE SkipDay(r)
    <2>1. /\ ledgerLock[d] = NoReplica /\ ~Settled(d) /\ EndTick(r)
          /\ UNCHANGED <<today, mails, outages>>
          /\ ledger' = [ledger EXCEPT ![d] = [status |-> "SKIPPED_NO_SALES", attempts |-> @.attempts + 1]]
      BY <1>5 DEF SkipDay
    <2>2. ledger' \in [Days -> LedgerRow] /\ \A e \in Days \ {d} : ledger'[e] = ledger[e]
      <3>1. ledger[d].attempts + 1 \in Nat
        BY <1>1 DEF LedgerRow
      <3> QED
        BY <1>1, <2>1, <3>1 DEF LedgerRow
    <2>3. \A q \in Replicas : tick[q].at \in {"send", "mark"} => tick[q].day # d
      BY <2>1, ReportAssumption DEF ReportInv, SenderHolds
    <2>4. mails[d] <= outages
      BY <1>1, <2>1, <2>3 DEF ReportInv, MailsCounted, Settled
    <2> QED
      BY <1>1, <2>1, <2>2, <2>3, <2>4, EndingKept
  <1>6. CASE MailReport(r)
    <2>1. /\ tick[r].at = "send" /\ UNCHANGED <<today, ledger, ledgerLock, outages>>
          /\ mails' = [mails EXCEPT ![d] = @ + 1] /\ tick' = [tick EXCEPT ![r].at = "mark"]
      BY <1>6 DEF MailReport
    <2>2. /\ tick' \in [Replicas -> TickRow] /\ tick'[r].at = "mark" /\ tick'[r].day = d
          /\ \A q \in Replicas \ {r} : tick'[q] = tick[q]
      BY <1>1, <2>1 DEF TickRow
    <2>3. /\ mails' \in [Days -> Nat] /\ mails'[d] = mails[d] + 1
          /\ \A e \in Days \ {d} : mails'[e] = mails[e]
      BY <1>1, <2>1
    <2>4. ReportTypes'
      BY <1>1, <2>1, <2>2, <2>3 DEF ReportTypes
    <2>5. SenderHolds'
      BY <2>1, <2>2 DEF ReportInv, SenderHolds, Settled
    <2>6. mails'[d] <= 1 + outages
      BY <1>1, <1>3, <2>1, <2>3
    <2>7. MailsCounted'
      BY <2>1, <2>2, <2>3, <2>6 DEF ReportInv, MailsCounted
    <2> QED
      BY <2>4, <2>5, <2>7 DEF ReportInv
  <1>7. CASE MarkSent(r)
    <2>1. /\ tick[r].at = "mark" /\ EndTick(r) /\ UNCHANGED <<today, mails, outages>>
          /\ ledger' = [ledger EXCEPT ![d] = [status |-> "SENT", attempts |-> @.attempts + 1]]
      BY <1>7 DEF MarkSent
    <2>2. /\ ledger' \in [Days -> LedgerRow] /\ ledger'[d].status = "SENT"
          /\ \A e \in Days \ {d} : ledger'[e] = ledger[e]
      <3>1. ledger[d].attempts + 1 \in Nat
        BY <1>1 DEF LedgerRow
      <3> QED
        BY <1>1, <2>1, <3>1 DEF LedgerRow
    <2> QED
      BY <1>1, <1>2, <1>4, <2>1, <2>2, EndingKept
  <1>8. CASE RecordFailure(r)
    <2>1. /\ tick[r].at = "send" /\ EndTick(r) /\ UNCHANGED today
          /\ \/ UNCHANGED <<mails, outages>>
             \/ outages' = outages + 1 /\ mails' = [mails EXCEPT ![d] = @ + 1]
          /\ \E s : /\ s \in {"FAILED", ledger[d].status}
                    /\ ledger' = [ledger EXCEPT ![d] = [status |-> s, attempts |-> ledger[d].attempts + 1]]
      BY <1>1, <1>8 DEF RecordFailure
    <2>2. ledger' \in [Days -> LedgerRow] /\ \A e \in Days \ {d} : ledger'[e] = ledger[e]
      <3>1. ledger[d].attempts + 1 \in Nat
        BY <1>1 DEF LedgerRow
      <3> QED
        BY <1>1, <2>1, <3>1 DEF LedgerRow
    <2>3. /\ mails' \in [Days -> Nat] /\ mails'[d] <= outages' /\ outages' \in Nat
          /\ outages' >= outages /\ \A e \in Days \ {d} : mails'[e] = mails[e]
      BY <1>1, <1>3, <2>1
    <2> QED
      BY <1>1, <1>2, <2>1, <2>2, <2>3, EndingKept
  <1>9. CASE RestartReplica(r)
    <2>1. /\ EndTick(r) /\ UNCHANGED <<today, ledger, mails>> /\ outages' = outages + 1
      BY <1>9 DEF RestartReplica
    <2>2. ReportTypes'
      BY <1>1, <2>1, TickEnds DEF ReportInv, ReportTypes
    <2>3. SenderHolds'
      BY <1>1, <2>1, TickEnds DEF ReportInv, SenderHolds, Settled
    <2>4. MailsCounted'
      BY <1>1, <2>1 DEF ReportInv, MailsCounted
    <2> QED
      BY <2>2, <2>3, <2>4 DEF ReportInv
  <1> QED
    BY <1>5, <1>6, <1>7, <1>8, <1>9

LEMMA StepReport == ReportInv /\ [NrNext]_nrVars => ReportInv'
  <1> SUFFICES ASSUME ReportInv, [NrNext]_nrVars PROVE ReportInv'
    OBVIOUS
  <1>1. CASE NrNext
    BY <1>1, QuietSteps, SendingSteps DEF NrNext, TickStep
  <1>2. CASE UNCHANGED nrVars
    BY <1>2 DEF nrVars, ReportInv, ReportTypes, SenderHolds, MailsCounted, Settled
  <1> QED
    BY <1>1, <1>2

(***************************************************************************)
(* A day's report goes out once, however many replicas tick and for        *)
(* however many days, but for one more message for every outage.           *)
(***************************************************************************)
THEOREM ReportMailsAreCounted == NrSpec => []OneMailPerOutage
  <1>1. ReportInv => OneMailPerOutage
    BY DEF ReportInv, ReportTypes, MailsCounted, OneMailPerOutage
  <1> QED
    BY <1>1, InitReport, StepReport, PTL DEF NrSpec

-----------------------------------------------------------------------------
(* Live updates *)

SocketRow == [owner : Pages, ticket : BOOLEAN, heard : BOOLEAN, up : BOOLEAN,
              handler : {"none", "coming", "running", "refused", "ended"}, bucket : Buckets]

PageStates == {"closed", "mint", "connecting", "open", "retry", "stopped"}

LiveTypes ==
    /\ page \in [Pages -> PageStates]
    /\ subject \in [Pages -> [bucket : Buckets, valid : BOOLEAN]]
    /\ sock \in [Sockets -> SocketRow]
    /\ registry \in [Buckets -> SUBSET Sockets]
    /\ sweep \in [Sweeps -> [bucket : Buckets, todo : SUBSET Sockets, dead : SUBSET Sockets]]

\* A registered socket is served, and is where its handler put it.
RegisteredRuns ==
    \A b \in Buckets : \A s \in registry[b] : sock[s].handler = "running" /\ sock[s].bucket = b

\* The page behind a socket that is listened to is connecting until the
\* upgrade is accepted and open afterwards.
HeardPage ==
    \A s \in Sockets : sock[s].heard =>
        page[sock[s].owner] = IF sock[s].handler = "coming" THEN "connecting" ELSE "open"

\* A page listens to one socket at most,
HeardAlone ==
    \A s, t \in Sockets :
        sock[s].heard /\ sock[t].heard /\ sock[s].owner = sock[t].owner => s = t

\* and does while it is connecting or open.
PageListens ==
    \A p \in Pages : page[p] \in {"connecting", "open"} =>
        \E s \in Sockets : sock[s].heard /\ sock[s].owner = p

Listening == HeardPage /\ HeardAlone /\ PageListens

LiveInv == LiveTypes /\ RegisteredRuns /\ Listening

LEMMA NoSocketRow == NoSocket \in SocketRow /\ ~NoSocket.heard /\ NoSocket.handler = "none"
  <1>1. (CHOOSE p \in Pages : TRUE) \in Pages /\ (CHOOSE b \in Buckets : TRUE) \in Buckets
    BY RealtimeAssumption
  <1> QED
    BY <1>1 DEF NoSocket, SocketRow

LEMMA NoSweepRow == NoSweep \in [bucket : Buckets, todo : SUBSET Sockets, dead : SUBSET Sockets]
  <1>1. (CHOOSE b \in Buckets : TRUE) \in Buckets
    BY RealtimeAssumption
  <1> QED
    BY <1>1 DEF NoSweep

LEMMA InitLive == RtInit => LiveInv
  <1> SUFFICES ASSUME RtInit PROVE LiveInv
    OBVIOUS
  <1>1. (CHOOSE b \in Buckets : TRUE) \in Buckets
    BY RealtimeAssumption
  <1>2. subject \in [Pages -> [bucket : Buckets, valid : BOOLEAN]]
    BY <1>1 DEF RtInit
  <1>3. LiveTypes
    BY <1>2, NoSocketRow, NoSweepRow DEF RtInit, LiveTypes, PageStates
  <1>4. RegisteredRuns /\ Listening
    BY NoSocketRow DEF RtInit, RegisteredRuns, Listening, HeardPage, HeardAlone, PageListens
  <1> QED
    BY <1>3, <1>4 DEF LiveInv

\* Forgetting leaves what is listened to or served, and makes the rest free.
LEMMA Forgotten ==
  ASSUME NEW socks \in [Sockets -> SocketRow]
  PROVE  /\ Forgetting(socks) \in [Sockets -> SocketRow]
         /\ \A s \in Sockets :
              \/ Forgetting(socks)[s] = socks[s]
              \/ /\ Forgetting(socks)[s] = NoSocket
                 /\ ~socks[s].heard /\ socks[s].handler \notin {"coming", "running"}
  BY NoSocketRow DEF Forgetting

\* The registry only loses sockets, and what it keeps is served as before.
LEMMA RegistryShrinks ==
  ASSUME LiveInv, \A b \in Buckets : registry'[b] \subseteq registry[b],
         \A b \in Buckets : \A s \in registry'[b] :
            sock'[s].handler = sock[s].handler /\ sock'[s].bucket = sock[s].bucket
  PROVE  RegisteredRuns'
  BY DEF LiveInv, RegisteredRuns

\* No page moves to or from a socket.
LEMMA NobodyMoves ==
  ASSUME LiveInv,
         \A s \in Sockets :
            /\ sock'[s].heard <=> sock[s].heard
            /\ sock[s].heard => /\ sock'[s].owner = sock[s].owner
                                /\ sock'[s].handler = "coming" <=> sock[s].handler = "coming",
         \A p \in Pages : \/ page'[p] = page[p]
                          \/ /\ page[p] \notin {"connecting", "open"}
                             /\ page'[p] \notin {"connecting", "open"}
  PROVE  Listening'
  <1>1. \A s \in Sockets : sock[s].owner \in Pages
    BY DEF LiveInv, LiveTypes, SocketRow
  <1>2. HeardPage'
    BY <1>1 DEF LiveInv, Listening, HeardPage
  <1>3. HeardAlone'
    BY DEF LiveInv, Listening, HeardAlone
  <1>4. PageListens'
    BY DEF LiveInv, Listening, PageListens
  <1> QED
    BY <1>2, <1>3, <1>4 DEF Listening

\* The client's timers and the world beside the sockets.
LEMMA PageSteps ==
  ASSUME LiveInv, NEW p \in Pages,
         \/ Mount(p) \/ MintFails(p) \/ Reconnect(p) \/ Invalidate(p)
         \/ \E b \in Buckets : ChangeBucket(p, b)
  PROVE  LiveInv'
  <1>1. /\ page \in [Pages -> PageStates] /\ subject \in [Pages -> [bucket : Buckets, valid : BOOLEAN]]
        /\ UNCHANGED <<sock, registry, sweep>>
    BY DEF LiveInv, LiveTypes, Mount, MintFails, Reconnect, Invalidate, ChangeBucket
  <1>2. /\ page' \in [Pages -> PageStates]
        /\ \A q \in Pages : \/ page'[q] = page[q]
                            \/ /\ page[q] \notin {"connecting", "open"}
                               /\ page'[q] \notin {"connecting", "open"}
    BY <1>1 DEF Mount, MintFails, Reconnect, Invalidate, ChangeBucket, PageStates
  <1>3. subject' \in [Pages -> [bucket : Buckets, valid : BOOLEAN]]
    BY <1>1 DEF Mount, MintFails, Reconnect, Invalidate, ChangeBucket
  <1>4. LiveTypes'
    BY <1>1, <1>2, <1>3 DEF LiveInv, LiveTypes
  <1>5. RegisteredRuns'
    BY <1>1 DEF LiveInv, RegisteredRuns
  <1>6. Listening'
    BY <1>1, <1>2, NobodyMoves
  <1> QED
    BY <1>4, <1>5, <1>6 DEF LiveInv

LEMMA MintKept ==
  ASSUME LiveInv, NEW p \in Pages, Mint(p)
  PROVE  LiveInv'
  <1>1. /\ page \in [Pages -> PageStates] /\ sock \in [Sockets -> SocketRow]
        /\ subject \in [Pages -> [bucket : Buckets, valid : BOOLEAN]]
        /\ registry \in [Buckets -> SUBSET Sockets]
    BY DEF LiveInv, LiveTypes
  <1>2. PICK s \in Sockets :
            /\ sock[s] = NoSocket
            /\ sock' = [sock EXCEPT ![s] = [owner |-> p, ticket |-> TRUE, heard |-> TRUE, up |-> TRUE,
                                            handler |-> "coming", bucket |-> subject[p].bucket]]
    BY DEF Mint, Unused
  <1>3. /\ sock' \in [Sockets -> SocketRow]
        /\ sock'[s].owner = p /\ sock'[s].heard /\ sock'[s].handler = "coming"
        /\ \A t \in Sockets \ {s} : sock'[t] = sock[t]
    BY <1>1, <1>2 DEF SocketRow
  <1>4. /\ page[p] = "mint" /\ page' = [page EXCEPT ![p] = "connecting"]
        /\ UNCHANGED <<subject, registry, sweep>>
    BY DEF Mint
  <1>5. LiveTypes'
    BY <1>1, <1>3, <1>4 DEF LiveInv, LiveTypes, PageStates
  <1>6. RegisteredRuns'
    <2>1. \A b \in Buckets : s \notin registry[b]
      BY <1>2, NoSocketRow DEF LiveInv, RegisteredRuns
    <2> QED
      BY <1>1, <1>3, <1>4, <2>1, RegistryShrinks
  <1>7. Listening'
    <2>1. \A t \in Sockets : sock[t].heard => sock[t].owner # p
      BY <1>4 DEF LiveInv, Listening, HeardPage
    <2>2. \A t \in Sockets : sock[t].owner \in Pages
      BY <1>1 DEF SocketRow
    <2>3. ~sock[s].heard
      BY <1>2, NoSocketRow
    <2>4. /\ page'[p] = "connecting"
          /\ \A q \in Pages \ {p} : page'[q] = page[q]
      BY <1>1, <1>4
    <2>5. HeardPage'
      BY <1>3, <2>1, <2>2, <2>4 DEF LiveInv, Listening, HeardPage
    <2>6. HeardAlone'
      BY <1>3, <2>1, <2>3 DEF LiveInv, Listening, HeardAlone
    <2>7. PageListens'
      BY <1>3, <2>1, <2>3, <2>4 DEF LiveInv, Listening, PageListens
    <2> QED
      BY <2>5, <2>6, <2>7 DEF Listening
  <1> QED
    BY <1>5, <1>6, <1>7 DEF LiveInv

\* A page stops listening to a socket, and is neither connecting nor open.
LEMMA LetGo ==
  ASSUME LiveInv, NEW p \in Pages, NEW state \in PageStates \ {"connecting", "open"},
         page' = [page EXCEPT ![p] = state], UNCHANGED <<subject, registry, sweep>>,
         NEW socks \in [Sockets -> SocketRow], sock' = Forgetting(socks),
         \A s \in Sockets :
            /\ socks[s].owner = sock[s].owner /\ socks[s].handler = sock[s].handler
            /\ socks[s].bucket = sock[s].bucket
            /\ socks[s].heard <=> sock[s].heard /\ sock[s].owner # p
  PROVE  LiveInv'
  <1>1. /\ page \in [Pages -> PageStates] /\ sock \in [Sockets -> SocketRow]
        /\ \A s \in Sockets : sock[s].owner \in Pages
    BY DEF LiveInv, LiveTypes, SocketRow
  <1>2. /\ sock' \in [Sockets -> SocketRow]
        /\ \A s \in Sockets :
             \/ sock'[s] = socks[s]
             \/ /\ sock'[s] = NoSocket
                /\ ~socks[s].heard /\ socks[s].handler \notin {"coming", "running"}
    BY Forgotten
  <1>3. LiveTypes'
    BY <1>1, <1>2 DEF LiveInv, LiveTypes
  <1>4. RegisteredRuns'
    <2>1. registry \in [Buckets -> SUBSET Sockets]
      BY DEF LiveInv, LiveTypes
    <2>2. \A b \in Buckets : \A s \in registry[b] : sock'[s] = socks[s]
      BY <1>2, <2>1 DEF LiveInv, RegisteredRuns
    <2> QED
      BY <2>1, <2>2, RegistryShrinks
  <1>5. Listening'
    <2>1. \A s \in Sockets :
            /\ sock'[s].heard => sock[s].heard /\ sock[s].owner # p /\ sock'[s] = socks[s]
            /\ sock[s].heard /\ sock[s].owner # p => sock'[s].heard /\ sock'[s] = socks[s]
      BY <1>2, NoSocketRow
    <2>2. /\ page'[p] \notin {"connecting", "open"}
          /\ \A q \in Pages \ {p} : page'[q] = page[q]
      BY <1>1
    <2>3. HeardPage'
      BY <1>1, <2>1, <2>2 DEF LiveInv, Listening, HeardPage
    <2>4. HeardAlone'
      BY <2>1 DEF LiveInv, Listening, HeardAlone
    <2>5. PageListens'
      BY <1>1, <2>1, <2>2 DEF LiveInv, Listening, PageListens
    <2> QED
      BY <2>3, <2>4, <2>5 DEF Listening
  <1> QED
    BY <1>3, <1>4, <1>5 DEF LiveInv

LEMMA OnCloseKept ==
  ASSUME LiveInv, NEW s \in Sockets, OnClose(s)
  PROVE  LiveInv'
  <1> DEFINE p == sock[s].owner
             state == IF sock[s].handler = "refused" THEN "stopped" ELSE "retry"
             socks == [sock EXCEPT ![s].heard = FALSE]
  <1>1. sock \in [Sockets -> SocketRow] /\ sock[s] \in SocketRow /\ p \in Pages
    BY DEF LiveInv, LiveTypes, SocketRow
  <1>2. /\ socks \in [Sockets -> SocketRow] /\ socks[s] = [sock[s] EXCEPT !.heard = FALSE]
        /\ \A t \in Sockets \ {s} : socks[t] = sock[t]
    BY <1>1 DEF SocketRow
  <1>3. \A t \in Sockets :
           /\ socks[t].owner = sock[t].owner /\ socks[t].handler = sock[t].handler
           /\ socks[t].bucket = sock[t].bucket
           /\ socks[t].heard <=> sock[t].heard /\ sock[t].owner # p
    BY <1>1, <1>2 DEF OnClose, LiveInv, Listening, HeardAlone, SocketRow
  <1>4. /\ page' = [page EXCEPT ![p] = state] /\ UNCHANGED <<subject, registry, sweep>>
        /\ sock' = Forgetting(socks) /\ state \in PageStates \ {"connecting", "open"}
    BY DEF OnClose, PageStates
  <1> HIDE DEF p, state, socks
  <1> QED
    BY <1>1, <1>2, <1>3, <1>4, LetGo

LEMMA ForceReconnectKept ==
  ASSUME LiveInv, NEW s \in Sockets, ForceReconnect(s)
  PROVE  LiveInv'
  <1> DEFINE p == sock[s].owner
             socks == [sock EXCEPT ![s].heard = FALSE]
  <1>1. sock \in [Sockets -> SocketRow] /\ sock[s] \in SocketRow /\ p \in Pages
    BY DEF LiveInv, LiveTypes, SocketRow
  <1>2. /\ socks \in [Sockets -> SocketRow] /\ socks[s] = [sock[s] EXCEPT !.heard = FALSE]
        /\ \A t \in Sockets \ {s} : socks[t] = sock[t]
    BY <1>1 DEF SocketRow
  <1>3. \A t \in Sockets :
           /\ socks[t].owner = sock[t].owner /\ socks[t].handler = sock[t].handler
           /\ socks[t].bucket = sock[t].bucket
           /\ socks[t].heard <=> sock[t].heard /\ sock[t].owner # p
    BY <1>1, <1>2 DEF ForceReconnect, LiveInv, Listening, HeardAlone, SocketRow
  <1>4. /\ page' = [page EXCEPT ![p] = "mint"] /\ UNCHANGED <<subject, registry, sweep>>
        /\ sock' = Forgetting(socks) /\ "mint" \in PageStates \ {"connecting", "open"}
    BY DEF ForceReconnect, PageStates
  <1> HIDE DEF p, socks
  <1> QED
    BY <1>1, <1>2, <1>3, <1>4, LetGo

LEMMA DestroyKept ==
  ASSUME LiveInv, NEW p \in Pages, Destroy(p)
  PROVE  LiveInv'
  <1> DEFINE socks == [s \in Sockets |->
                 IF sock[s].owner = p THEN [sock[s] EXCEPT !.heard = FALSE] ELSE sock[s]]
  <1>1. sock \in [Sockets -> SocketRow] /\ \A s \in Sockets : sock[s] \in SocketRow
    BY DEF LiveInv, LiveTypes
  <1>2. socks \in [Sockets -> SocketRow]
    BY <1>1 DEF SocketRow
  <1>3. \A t \in Sockets :
           /\ socks[t].owner = sock[t].owner /\ socks[t].handler = sock[t].handler
           /\ socks[t].bucket = sock[t].bucket
           /\ socks[t].heard <=> sock[t].heard /\ sock[t].owner # p
    BY <1>1 DEF SocketRow
  <1>4. /\ page' = [page EXCEPT ![p] = "closed"] /\ UNCHANGED <<subject, registry, sweep>>
        /\ sock' = Forgetting(socks) /\ "closed" \in PageStates \ {"connecting", "open"}
    BY DEF Destroy, PageStates
  <1> HIDE DEF socks
  <1> QED
    BY <1>2, <1>3, <1>4, LetGo

\* The upgrade is accepted, whatever comes of the ticket.
LEMMA Accepted ==
  ASSUME LiveInv, NEW s \in Sockets, NEW handler \in {"running", "refused"}, Accept(s, handler)
  PROVE  /\ page' \in [Pages -> PageStates] /\ sock' \in [Sockets -> SocketRow]
         /\ UNCHANGED <<subject, sweep>>
         /\ \A t \in Sockets \ {s} : sock[t].handler = "running" => sock'[t] = sock[t]
         /\ handler = "running" =>
               sock'[s].handler = "running" /\ sock'[s].bucket = subject[sock[s].owner].bucket
         /\ Listening'
  <1> DEFINE p == sock[s].owner
             b == subject[p].bucket
             socks == [sock EXCEPT ![s].handler = handler, ![s].ticket = FALSE, ![s].bucket = b]
  <1>1. /\ page \in [Pages -> PageStates] /\ sock \in [Sockets -> SocketRow]
        /\ sock[s] \in SocketRow /\ p \in Pages /\ b \in Buckets
        /\ \A t \in Sockets : sock[t].owner \in Pages
    BY DEF LiveInv, LiveTypes, SocketRow
  <1>2. /\ sock[s].handler = "coming" /\ sock' = Forgetting(socks) /\ UNCHANGED <<subject, sweep>>
        /\ page' = IF sock[s].heard THEN [page EXCEPT ![p] = "open"] ELSE page
    BY DEF Accept
  <1> HIDE DEF b
  <1>3. /\ socks \in [Sockets -> SocketRow]
        /\ socks[s] = [sock[s] EXCEPT !.handler = handler, !.ticket = FALSE, !.bucket = b]
        /\ \A t \in Sockets \ {s} : socks[t] = sock[t]
    BY <1>1 DEF SocketRow
  <1>4. /\ socks[s].handler = handler /\ socks[s].bucket = b /\ socks[s].owner = p
        /\ socks[s].heard = sock[s].heard
    BY <1>1, <1>3 DEF SocketRow
  <1> HIDE DEF p, socks
  <1>5. /\ sock' \in [Sockets -> SocketRow]
        /\ \A t \in Sockets :
             \/ sock'[t] = socks[t]
             \/ /\ sock'[t] = NoSocket
                /\ ~socks[t].heard /\ socks[t].handler \notin {"coming", "running"}
    BY <1>2, <1>3, Forgotten
  <1>6. page' \in [Pages -> PageStates] /\ \A q \in Pages \ {p} : page'[q] = page[q]
    BY <1>1, <1>2 DEF PageStates
  <1>7. \A t \in Sockets :
           /\ sock'[t].heard <=> sock[t].heard
           /\ sock[t].heard => sock'[t] = socks[t] /\ sock'[t].owner = sock[t].owner
    BY <1>3, <1>4, <1>5, NoSocketRow DEF p
  <1>8. HeardPage'
    <2> SUFFICES ASSUME NEW t \in Sockets, sock'[t].heard
                 PROVE  page'[sock'[t].owner] = IF sock'[t].handler = "coming" THEN "connecting" ELSE "open"
      BY DEF HeardPage
    <2>1. CASE t = s
      BY <1>1, <1>2, <1>4, <1>7, <2>1
    <2>2. CASE t # s
      <3>1. sock[t].heard /\ sock'[t] = sock[t]
        BY <1>3, <1>7, <2>2
      <3>2. page'[sock[t].owner] = page[sock[t].owner]
        BY <1>1, <1>2, <1>6, <2>2, <3>1 DEF LiveInv, Listening, HeardAlone, p
      <3> QED
        BY <3>1, <3>2 DEF LiveInv, Listening, HeardPage
    <2> QED
      BY <2>1, <2>2
  <1>9. HeardAlone'
    BY <1>7 DEF LiveInv, Listening, HeardAlone
  <1>10. PageListens'
    <2> SUFFICES ASSUME NEW q \in Pages, page'[q] \in {"connecting", "open"}
                 PROVE  \E t \in Sockets : sock'[t].heard /\ sock'[t].owner = q
      BY DEF PageListens
    <2>1. \E t \in Sockets : sock[t].heard /\ sock[t].owner = q
      BY <1>1, <1>2, <1>6 DEF LiveInv, Listening, PageListens, p
    <2> QED
      BY <1>7, <2>1
  <1> QED
    BY <1>2, <1>3, <1>4, <1>5, <1>6, <1>8, <1>9, <1>10 DEF Listening, p, b

LEMMA AcceptKept ==
  ASSUME LiveInv, NEW s \in Sockets, AcceptTicket(s) \/ RefuseTicket(s)
  PROVE  LiveInv'
  <1>1. registry \in [Buckets -> SUBSET Sockets] /\ subject[sock[s].owner].bucket \in Buckets
    BY DEF LiveInv, LiveTypes, SocketRow
  <1>2. \A b \in Buckets : \A t \in registry[b] : t \in Sockets /\ t # s
    BY <1>1 DEF LiveInv, RegisteredRuns, AcceptTicket, RefuseTicket, Accept
  <1>3. CASE AcceptTicket(s)
    <2>1. /\ Accept(s, "running")
          /\ registry' = [registry EXCEPT ![subject[sock[s].owner].bucket] = @ \cup {s}]
      BY <1>3 DEF AcceptTicket
    <2>2. registry' \in [Buckets -> SUBSET Sockets]
      BY <1>1, <2>1
    <2>3. LiveTypes' /\ Listening'
      BY <2>1, <2>2, Accepted DEF LiveInv, LiveTypes
    <2>4. \A b \in Buckets : \A t \in registry'[b] :
             \/ t \in registry[b]
             \/ t = s /\ b = subject[sock[s].owner].bucket
      BY <1>1, <2>1
    <2>5. RegisteredRuns'
      BY <1>2, <2>1, <2>4, Accepted DEF LiveInv, RegisteredRuns
    <2> QED
      BY <2>3, <2>5 DEF LiveInv
  <1>4. CASE RefuseTicket(s)
    <2>1. Accept(s, "refused") /\ UNCHANGED registry
      BY <1>4 DEF RefuseTicket
    <2>2. LiveTypes' /\ Listening'
      BY <2>1, Accepted DEF LiveInv, LiveTypes
    <2>3. RegisteredRuns'
      BY <1>2, <2>1, Accepted DEF LiveInv, RegisteredRuns
    <2> QED
      BY <2>2, <2>3 DEF LiveInv
  <1> QED
    BY <1>3, <1>4

\* A handler leaves, a ticket or a connection dies: no page hears of it yet.
LEMMA ServerKept ==
  ASSUME LiveInv, NEW s \in Sockets, TicketExpires(s) \/ Deregister(s) \/ Cut(s)
  PROVE  LiveInv'
  <1>1. /\ sock \in [Sockets -> SocketRow] /\ sock[s] \in SocketRow
        /\ registry \in [Buckets -> SUBSET Sockets]
    BY DEF LiveInv, LiveTypes
  <1>2. UNCHANGED <<page, subject, sweep>>
    BY DEF TicketExpires, Deregister, Cut
  <1>3. CASE TicketExpires(s) \/ Cut(s)
    <2>1. /\ sock' \in [Sockets -> SocketRow] /\ UNCHANGED registry
          /\ \A t \in Sockets : /\ sock'[t].heard = sock[t].heard /\ sock'[t].owner = sock[t].owner
                                /\ sock'[t].handler = sock[t].handler /\ sock'[t].bucket = sock[t].bucket
      <3>1. /\ UNCHANGED registry
            /\ \/ sock' = [sock EXCEPT ![s].ticket = FALSE]
               \/ sock' = [sock EXCEPT ![s].up = FALSE]
        BY <1>3 DEF TicketExpires, Cut
      <3>2. CASE sock' = [sock EXCEPT ![s].ticket = FALSE]
        BY <1>1, <3>1, <3>2 DEF SocketRow
      <3>3. CASE sock' = [sock EXCEPT ![s].up = FALSE]
        BY <1>1, <3>1, <3>3 DEF SocketRow
      <3> QED
        BY <3>1, <3>2, <3>3
    <2>2. LiveTypes' /\ RegisteredRuns'
      BY <1>1, <1>2, <2>1, RegistryShrinks DEF LiveInv, LiveTypes
    <2>3. Listening'
      BY <1>2, <2>1, NobodyMoves
    <2> QED
      BY <2>2, <2>3 DEF LiveInv
  <1>4. CASE Deregister(s)
    <2> DEFINE socks == [sock EXCEPT ![s].handler = "ended"]
    <2>1. /\ sock[s].handler = "running" /\ sock' = Forgetting(socks)
          /\ registry' = [registry EXCEPT ![sock[s].bucket] = @ \ {s}]
      BY <1>4 DEF Deregister
    <2>2. /\ socks \in [Sockets -> SocketRow] /\ socks[s] = [sock[s] EXCEPT !.handler = "ended"]
          /\ \A t \in Sockets \ {s} : socks[t] = sock[t]
      BY <1>1 DEF SocketRow
    <2>3. /\ socks[s].handler = "ended" /\ socks[s].owner = sock[s].owner
          /\ socks[s].heard = sock[s].heard
      BY <1>1, <2>2 DEF SocketRow
    <2> HIDE DEF socks
    <2>4. /\ sock' \in [Sockets -> SocketRow]
          /\ \A t \in Sockets :
               \/ sock'[t] = socks[t]
               \/ /\ sock'[t] = NoSocket
                  /\ ~socks[t].heard /\ socks[t].handler \notin {"coming", "running"}
      BY <2>1, <2>2, Forgotten
    <2>5. /\ registry' \in [Buckets -> SUBSET Sockets] /\ \A b \in Buckets : registry'[b] \subseteq registry[b]
          /\ s \notin registry'[sock[s].bucket]
      BY <1>1, <2>1 DEF SocketRow
    <2>6. \A b \in Buckets : \A t \in registry'[b] : sock'[t] = sock[t]
      <3> SUFFICES ASSUME NEW b \in Buckets, NEW t \in registry'[b] PROVE sock'[t] = sock[t]
        OBVIOUS
      <3>1. t \in registry[b] /\ t \in Sockets /\ sock[t].handler = "running" /\ sock[t].bucket = b
        BY <1>1, <2>5 DEF LiveInv, RegisteredRuns
      <3>2. t # s
        BY <2>5, <3>1
      <3> QED
        BY <2>2, <2>4, <3>1, <3>2
    <2>7. LiveTypes' /\ RegisteredRuns'
      BY <1>2, <2>4, <2>5, <2>6, RegistryShrinks DEF LiveInv, LiveTypes
    <2>8. \A t \in Sockets :
            /\ sock'[t].heard <=> sock[t].heard
            /\ sock[t].heard => /\ sock'[t].owner = sock[t].owner
                                /\ sock'[t].handler = "coming" <=> sock[t].handler = "coming"
      BY <2>1, <2>2, <2>3, <2>4, NoSocketRow
    <2>9. Listening'
      BY <1>2, <2>8, NobodyMoves
    <2> QED
      BY <2>7, <2>9 DEF LiveInv
  <1> QED
    BY <1>3, <1>4

LEMMA RestartKept ==
  ASSUME LiveInv, Restart
  PROVE  LiveInv'
  <1> DEFINE socks == [s \in Sockets |->
                 [sock[s] EXCEPT !.ticket = FALSE, !.handler = IF @ = "running" THEN "ended" ELSE @]]
  <1>1. sock \in [Sockets -> SocketRow] /\ \A s \in Sockets : sock[s] \in SocketRow
    BY DEF LiveInv, LiveTypes
  <1>2. /\ sock' = Forgetting(socks) /\ registry' = [b \in Buckets |-> {}]
        /\ sweep' = [w \in Sweeps |-> NoSweep] /\ UNCHANGED <<page, subject>>
    BY DEF Restart
  <1>3. /\ socks \in [Sockets -> SocketRow]
        /\ \A s \in Sockets : /\ socks[s].heard = sock[s].heard /\ socks[s].owner = sock[s].owner
                              /\ socks[s].handler = "coming" <=> sock[s].handler = "coming"
    BY <1>1 DEF SocketRow
  <1> HIDE DEF socks
  <1>4. /\ sock' \in [Sockets -> SocketRow]
        /\ \A t \in Sockets :
             \/ sock'[t] = socks[t]
             \/ /\ sock'[t] = NoSocket
                /\ ~socks[t].heard /\ socks[t].handler \notin {"coming", "running"}
    BY <1>2, <1>3, Forgotten
  <1>5. LiveTypes' /\ RegisteredRuns'
    BY <1>2, <1>4, NoSweepRow DEF LiveInv, LiveTypes, RegisteredRuns
  <1>6. \A t \in Sockets :
            /\ sock'[t].heard <=> sock[t].heard
            /\ sock[t].heard => /\ sock'[t].owner = sock[t].owner
                                /\ sock'[t].handler = "coming" <=> sock[t].handler = "coming"
    BY <1>3, <1>4, NoSocketRow
  <1>7. Listening'
    BY <1>2, <1>6, NobodyMoves
  <1> QED
    BY <1>5, <1>7 DEF LiveInv

\* The loops only take sockets out of the registry, at whatever moment.
LEMMA SweepKept ==
  ASSUME LiveInv, NEW w \in Sweeps,
         \/ EndSweep(w)
         \/ \E s \in Sockets : Send(w, s) \/ SendFails(w, s)
         \/ \E b \in Buckets : StartSweep(w, b)
  PROVE  LiveInv'
  <1> DEFINE Loop == [bucket : Buckets, todo : SUBSET Sockets, dead : SUBSET Sockets]
  <1>1. registry \in [Buckets -> SUBSET Sockets] /\ sweep \in [Sweeps -> Loop] /\ sweep[w] \in Loop
    BY DEF LiveInv, LiveTypes
  <1>2. UNCHANGED <<page, subject, sock>>
    BY DEF EndSweep, Send, SendFails, StartSweep
  <1>3. /\ registry' \in [Buckets -> SUBSET Sockets]
        /\ \A b \in Buckets : registry'[b] \subseteq registry[b]
    <2>1. \/ UNCHANGED registry
          \/ registry' = [registry EXCEPT ![sweep[w].bucket] = @ \ sweep[w].dead]
          \/ \E s \in Sockets : registry' = [registry EXCEPT ![sweep[w].bucket] = @ \ {s}]
      BY DEF EndSweep, Send, SendFails, StartSweep
    <2>2. \/ UNCHANGED registry
          \/ \E gone : registry' = [registry EXCEPT ![sweep[w].bucket] = @ \ gone]
      BY <2>1
    <2> QED
      BY <1>1, <2>2
  <1>4. sweep' \in [Sweeps -> Loop]
    <2>1. CASE EndSweep(w)
      BY <1>1, <2>1, NoSweepRow DEF EndSweep
    <2>2. ASSUME NEW s \in Sockets, Send(w, s) \/ SendFails(w, s) PROVE sweep' \in [Sweeps -> Loop]
      BY <1>1, <2>2 DEF Send, SendFails
    <2>3. ASSUME NEW b \in Buckets, StartSweep(w, b) PROVE sweep' \in [Sweeps -> Loop]
      BY <1>1, <2>3 DEF StartSweep
    <2> QED
      BY <2>1, <2>2, <2>3
  <1>5. LiveTypes' /\ RegisteredRuns'
    BY <1>2, <1>3, <1>4, RegistryShrinks DEF LiveInv, LiveTypes
  <1>6. Listening'
    BY <1>2, NobodyMoves
  <1> QED
    BY <1>5, <1>6 DEF LiveInv

LEMMA StepLive == LiveInv /\ [RtNext]_rtVars => LiveInv'
  <1> SUFFICES ASSUME LiveInv, [RtNext]_rtVars PROVE LiveInv'
    OBVIOUS
  <1>1. ASSUME NEW p \in Pages,
               \/ Mount(p) \/ RtPage(p) \/ MintFails(p) \/ Destroy(p) \/ Invalidate(p)
               \/ \E b \in Buckets : ChangeBucket(p, b)
        PROVE  LiveInv'
    BY <1>1, PageSteps, MintKept, DestroyKept DEF RtPage
  <1>2. ASSUME NEW s \in Sockets, RtSocket(s) \/ TicketExpires(s) \/ Cut(s) PROVE LiveInv'
    BY <1>2, OnCloseKept, ForceReconnectKept, AcceptKept, ServerKept DEF RtSocket
  <1>3. ASSUME NEW w \in Sweeps, RtLoop(w) \/ \E b \in Buckets : StartSweep(w, b) PROVE LiveInv'
    BY <1>3, SweepKept DEF RtLoop
  <1>4. CASE Restart
    BY <1>4, RestartKept
  <1>5. CASE UNCHANGED rtVars
    BY <1>5 DEF rtVars, LiveInv, LiveTypes, RegisteredRuns, Listening, HeardPage, HeardAlone, PageListens
  <1> QED
    BY <1>1, <1>2, <1>3, <1>4, <1>5 DEF RtNext

(***************************************************************************)
(* However many pages, sockets, roles and faults there are, and however    *)
(* the heartbeat, a broadcast and a leaving handler interleave, the        *)
(* registry holds sockets with a running handler only, each in one bucket. *)
(***************************************************************************)
THEOREM RegistryHasNoGhosts == RtSpec => []NoGhosts
  <1>1. LiveInv => NoGhosts
    BY DEF LiveInv, RegisteredRuns, NoGhosts
  <1> QED
    BY <1>1, InitLive, StepLive, PTL DEF RtSpec

(***************************************************************************)
(* A page listens to exactly one socket while it is connecting or open,    *)
(* and to none otherwise.                                                  *)
(***************************************************************************)
THEOREM PagesListenOnce == RtSpec => []OneSocketPerPage
  <1>1. LiveInv => OneSocketPerPage
    <2> SUFFICES ASSUME LiveInv, NEW p \in Pages
                 PROVE  Cardinality({s \in Sockets : sock[s].owner = p /\ sock[s].heard})
                            = (IF page[p] \in {"connecting", "open"} THEN 1 ELSE 0)
      BY DEF OneSocketPerPage
    <2> DEFINE mine == {s \in Sockets : sock[s].owner = p /\ sock[s].heard}
    <2>1. CASE page[p] \in {"connecting", "open"}
      <3>1. PICK s \in Sockets : sock[s].heard /\ sock[s].owner = p
        BY <2>1 DEF LiveInv, Listening, PageListens
      <3>2. mine = {s}
        BY <3>1 DEF LiveInv, Listening, HeardAlone
      <3> QED
        BY <2>1, <3>2, FS_Singleton
    <2>2. CASE page[p] \notin {"connecting", "open"}
      <3>1. mine = {}
        BY <2>2 DEF LiveInv, Listening, HeardPage
      <3> QED
        BY <2>2, <3>1, FS_EmptySet
    <2> QED
      BY <2>1, <2>2
  <1> QED
    BY <1>1, InitLive, StepLive, PTL DEF RtSpec

-----------------------------------------------------------------------------
(* 3D models *)

Below == {ss \in Nat \X Nat : ss[1] < ss[2]}

LEMMA BelowIsWellFounded == IsWellFoundedOn(Below, Nat)
  BY NatLessThanWellFounded DEF OpToRel, Below

LEMMA LeastExists ==
  ASSUME NEW T \in SUBSET Nat, T # {}
  PROVE  \E x \in T : \A y \in T : x <= y
<1>1. \E x \in T : \A y \in T : <<y, x>> \notin Below
  BY BelowIsWellFounded, WFMin
<1>2. \A x \in T, y \in T : <<y, x>> \notin Below => x <= y
  BY DEF Below
<1> QED
  BY <1>1, <1>2

JobStates == {"QUEUED", "DONE", "FAILED"}
Pair == [gen : JobStates, mark : JobStates]
Kinds == {"gen", "mark"}
AtJob == {"lock", "generating", "flush", "marking"}
Working == {"generate", "lock", "generating", "mark", "flush", "marking", "converge", "fail"}
TaskRow == [at : {"idle", "enqueue"} \cup Working, run : Nat, fresh : BOOLEAN, stale : SUBSET Tags]

\* A task that has a job in hand holds one that exists.
ModelTypes ==
    /\ model \in [status : {"NONE", "GENERATING", "READY", "FAILED"}, glb : BOOLEAN, published : BOOLEAN]
    /\ jobs \in Seq(Pair)
    /\ task \in [Tasks -> TaskRow]
    /\ \A k \in Tasks : task[k].at \in AtJob => task[k].run \in DOMAIN jobs

\* The file of a generation that is DONE is there.
DoneHasFile == Done("gen") => model.glb

\* The newest pair, the one a pipeline that gives up finds no longer QUEUED.
NewestLives == jobs # <<>> /\ \A kind \in Kinds : jobs[Len(jobs)][kind] # "FAILED"

\* While a product is GENERATING a failure is about to be written to it, or
\* its newest jobs have not failed and WillEnd holds of a pipeline.
Attended ==
    model.status = "GENERATING" /\ ~abandoned =>
        \/ \E k \in Tasks : task[k].at = "fail"
        \/ NewestLives /\ \E k \in Tasks : WillEnd(k)

ModelInv == ModelTypes /\ DoneHasFile /\ Attended

LEMMA InitModel == ArInit => ModelInv
  <1> SUFFICES ASSUME ArInit PROVE ModelInv
    OBVIOUS
  <1>1. ModelTypes
    BY DEF ArInit, ModelTypes, NoTask, TaskRow, Pair, AtJob, Working
  <1>2. DoneHasFile /\ Attended
    BY DEF ArInit, DoneHasFile, Attended, Done
  <1> QED
    BY <1>1, <1>2 DEF ModelInv

\* _active_job finds nothing only if nothing of the kind is QUEUED.
LEMMA ActiveJobFound ==
  ASSUME ModelTypes, NEW kind \in Kinds
  PROVE  /\ ActiveJob(kind) = 0 <=> Waiting(kind) = {}
         /\ Waiting(kind) # {} => ActiveJob(kind) \in DOMAIN jobs
         /\ ActiveJob(kind) \in Nat
<1>1. Waiting(kind) \in SUBSET (DOMAIN jobs) /\ DOMAIN jobs \in SUBSET (Nat \ {0})
  BY DEF Waiting, ModelTypes
<1>2. CASE Waiting(kind) = {}
  BY <1>2 DEF ActiveJob
<1>3. CASE Waiting(kind) # {}
  <2>1. \E i \in Waiting(kind) : \A j \in Waiting(kind) : i <= j
    BY <1>1, <1>3, LeastExists
  <2>2. ActiveJob(kind) \in Waiting(kind)
    BY <1>3, <2>1 DEF ActiveJob
  <2> QED
    BY <1>1, <1>3, <2>2
<1> QED
  BY <1>2, <1>3

\* A pipeline that finds nothing QUEUED while the newest pair lives: it is DONE.
LEMMA NothingWaiting ==
  ASSUME ModelTypes, NEW kind \in Kinds, ActiveJob(kind) = 0, NewestLives
  PROVE  Done(kind)
<1>1. Len(jobs) \in DOMAIN jobs /\ jobs[Len(jobs)] \in Pair
  BY DEF ModelTypes, NewestLives
<1>2. Waiting(kind) = {}
  BY ActiveJobFound
<1>3. jobs[Len(jobs)][kind] \notin {"QUEUED", "FAILED"}
  BY <1>1, <1>2 DEF Waiting, NewestLives
<1>4. jobs[Len(jobs)][kind] = "DONE"
  BY <1>1, <1>3 DEF Pair, JobStates, Kinds
<1> QED
  BY <1>1, <1>4 DEF Done

\* A step of one pipeline that leaves the jobs and the product's status alone.
LEMMA PipelineMoves ==
  ASSUME ModelInv, NEW k \in Tasks, ModelTypes',
         UNCHANGED <<jobs, abandoned>>, model'.status = model.status \/ model'.status # "GENERATING",
         DoneHasFile', \A l \in Tasks \ {k} : task'[l] = task[l],
         model'.status = "GENERATING" => task[k].at # "fail",
         model'.status = "GENERATING" /\ NewestLives /\ WillEnd(k) => WillEnd(k)'
  PROVE  ModelInv'
<1> SUFFICES ASSUME model'.status = "GENERATING", ~abandoned'
             PROVE  \/ \E l \in Tasks : task'[l].at = "fail"
                    \/ NewestLives' /\ \E l \in Tasks : WillEnd(l)'
  BY DEF ModelInv, Attended
<1>1. \/ \E l \in Tasks : task[l].at = "fail"
      \/ NewestLives /\ \E l \in Tasks : WillEnd(l)
  BY DEF ModelInv, Attended
<1>2. CASE \E l \in Tasks : task[l].at = "fail"
  BY <1>2
<1>3. CASE NewestLives /\ \E l \in Tasks : WillEnd(l)
  <2>1. PICK l \in Tasks : WillEnd(l)
    BY <1>3
  <2>2. WillEnd(l)'
    <3>1. CASE l = k
      BY <1>3, <2>1, <3>1
    <3>2. CASE l # k
      BY <2>1, <3>2 DEF WillEnd, Done
    <3> QED
      BY <3>1, <3>2
  <2> QED
    BY <1>3, <2>2 DEF NewestLives
<1> QED
  BY <1>1, <1>2, <1>3

\* What a pipeline's step leaves well typed.
LEMMA StepModelTypes ==
  ASSUME ModelTypes, NEW k \in Tasks, Click(k) \/ PipelineStep(k)
  PROVE  ModelTypes'
<1> USE DEF ModelTypes, TaskRow, AtJob, Working
<1>1. /\ task[k] \in TaskRow
      /\ task[k].at \in AtJob => task[k].run \in DOMAIN jobs /\ jobs[task[k].run] \in Pair
  OBVIOUS
<1>2. CASE Click(k)
  BY <1>2 DEF Click, NoTask
<1>3. CASE Enqueue(k)
  <2>1. jobs' \in Seq(Pair) /\ DOMAIN jobs \subseteq DOMAIN jobs'
    BY <1>3 DEF Enqueue, Pair, JobStates
  <2>2. /\ task' \in [Tasks -> TaskRow] /\ task'[k].at \notin AtJob
        /\ \A l \in Tasks \ {k} : task'[l] = task[l]
    BY <1>3 DEF Enqueue
  <2>3. model' \in [status : {"NONE", "GENERATING", "READY", "FAILED"}, glb : BOOLEAN, published : BOOLEAN]
    BY <1>3 DEF Enqueue
  <2> QED
    BY <2>1, <2>2, <2>3
<1>4. CASE PickGeneration(k)
  BY <1>4, ActiveJobFound DEF PickGeneration, Kinds
<1>5. CASE LockGeneration(k)
  BY <1>5 DEF LockGeneration
<1>6. CASE Generated(k)
  BY <1>1, <1>6 DEF Generated, Pair, JobStates
<1>7. CASE GenerationFails(k)
  BY <1>1, <1>7 DEF GenerationFails, Pair, JobStates
<1>8. CASE PickMarking(k)
  BY <1>8, ActiveJobFound DEF PickMarking, Kinds
<1>9. CASE FlushMarking(k)
  BY <1>9 DEF FlushMarking
<1>10. CASE Marked(k)
  BY <1>1, <1>10 DEF Marked, Pair, JobStates
<1>11. CASE MarkingFails(k)
  BY <1>1, <1>11 DEF MarkingFails, Pair, JobStates
<1>12. CASE Converge(k)
  BY <1>12 DEF Converge, NoTask
<1>13. CASE FailProduct(k)
  BY <1>13 DEF FailProduct, NoTask
<1> QED
  BY <1>2, <1>3, <1>4, <1>5, <1>6, <1>7, <1>8, <1>9, <1>10, <1>11, <1>12, <1>13 DEF PipelineStep

LEMMA EnqueueKept ==
  ASSUME ModelInv, NEW k \in Tasks, Enqueue(k)
  PROVE  ModelInv'
<1>1. ModelTypes'
  BY StepModelTypes DEF ModelInv, PipelineStep
<1>2. NewestLives' /\ (Done("gen")' => Done("gen"))
  <2>1. jobs' = Append(jobs, [gen |-> "QUEUED", mark |-> "QUEUED"]) /\ jobs \in Seq(Pair)
    BY DEF Enqueue, ModelInv, ModelTypes
  <2>2. Len(jobs') = Len(jobs) + 1 /\ jobs'[Len(jobs')] = [gen |-> "QUEUED", mark |-> "QUEUED"]
    BY <2>1
  <2>3. Done("gen")' => Done("gen")
    <3> SUFFICES ASSUME NEW i \in DOMAIN jobs', jobs'[i]["gen"] = "DONE"
                 PROVE  \E j \in DOMAIN jobs : jobs[j]["gen"] = "DONE"
      BY Zenon DEF Done
    <3> DEFINE queued == [gen |-> "QUEUED", mark |-> "QUEUED"]
    <3>1. queued \in Pair /\ queued["gen"] = "QUEUED" /\ jobs' = Append(jobs, queued) /\ jobs \in Seq(Pair)
      BY <2>1 DEF Pair, JobStates
    <3> HIDE DEF queued
    <3>2. Len(jobs) \in Nat /\ i \in 1 .. Len(jobs) + 1 /\ DOMAIN jobs = 1 .. Len(jobs)
      BY <3>1
    <3>3. i # Len(jobs) + 1
      BY <3>1
    <3>4. i \in 1 .. Len(jobs)
      BY <3>2, <3>3
    <3>5. jobs'[i] = jobs[i]
      BY <3>1, <3>2, <3>4
    <3> QED
      BY <3>2, <3>4, <3>5
  <2>4. NewestLives'
    <3>1. jobs' # <<>>
      BY <2>1, <2>2
    <3>2. \A kind \in Kinds : jobs'[Len(jobs')][kind] = "QUEUED"
      BY <2>2 DEF Kinds
    <3> QED
      BY <3>1, <3>2 DEF NewestLives
  <2> QED
    BY <2>3, <2>4
<1>3. model'.glb = model.glb /\ task'[k].at = "generate"
  BY DEF Enqueue, ModelInv, ModelTypes, TaskRow
<1>4. WillEnd(k)'
  BY <1>3 DEF WillEnd
<1> QED
  BY <1>1, <1>2, <1>3, <1>4 DEF ModelInv, DoneHasFile, Attended

\* Job r of this kind now has this outcome, and nothing else happened to the jobs.
Written(r, kind, outcome) ==
    /\ DOMAIN jobs' = DOMAIN jobs
    /\ \A i \in DOMAIN jobs, other \in Kinds :
         jobs'[i][other] = IF i = r /\ other = kind THEN outcome ELSE jobs[i][other]

LEMMA JobWritten ==
  ASSUME ModelTypes, NEW r \in DOMAIN jobs, NEW outcome
  PROVE  /\ jobs' = [jobs EXCEPT ![r].gen = outcome] => Written(r, "gen", outcome)
         /\ jobs' = [jobs EXCEPT ![r].mark = outcome] => Written(r, "mark", outcome)
<1>1. /\ \A i \in DOMAIN jobs : jobs[i] \in Pair
      /\ jobs = [i \in DOMAIN jobs |-> jobs[i]]
  BY DEF ModelTypes
<1>2. ASSUME jobs' = [jobs EXCEPT ![r].gen = outcome] PROVE Written(r, "gen", outcome)
  <2>1. /\ DOMAIN jobs' = DOMAIN jobs
        /\ \A i \in DOMAIN jobs : jobs'[i] = IF i = r THEN [jobs[r] EXCEPT !.gen = outcome] ELSE jobs[i]
    BY <1>1, <1>2
  <2>2. /\ [jobs[r] EXCEPT !.gen = outcome]["gen"] = outcome
        /\ [jobs[r] EXCEPT !.gen = outcome]["mark"] = jobs[r]["mark"]
    BY <1>1 DEF Pair
  <2> QED
    BY <2>1, <2>2 DEF Written, Kinds
<1>3. ASSUME jobs' = [jobs EXCEPT ![r].mark = outcome] PROVE Written(r, "mark", outcome)
  <2>1. /\ DOMAIN jobs' = DOMAIN jobs
        /\ \A i \in DOMAIN jobs : jobs'[i] = IF i = r THEN [jobs[r] EXCEPT !.mark = outcome] ELSE jobs[i]
    BY <1>1, <1>3
  <2>2. /\ [jobs[r] EXCEPT !.mark = outcome]["mark"] = outcome
        /\ [jobs[r] EXCEPT !.mark = outcome]["gen"] = jobs[r]["gen"]
    BY <1>1 DEF Pair
  <2> QED
    BY <2>1, <2>2 DEF Written, Kinds
<1> QED
  BY <1>2, <1>3

\* A job that is DONE helps every pipeline and is not a failure.
LEMMA JobDone ==
  ASSUME ModelTypes, ModelTypes', NEW r \in DOMAIN jobs, NEW kind \in Kinds, Written(r, kind, "DONE")
  PROVE  /\ Done(kind)'
         /\ \A other \in Kinds : Done(other) => Done(other)'
         /\ \A other \in Kinds : other # kind /\ Done(other)' => Done(other)
         /\ NewestLives => NewestLives'
<1>1. jobs \in Seq(Pair) /\ jobs' \in Seq(Pair) /\ DOMAIN jobs' = DOMAIN jobs
  BY DEF ModelTypes, Written
<1>2. Len(jobs') = Len(jobs)
  BY <1>1
<1>3. NewestLives => Len(jobs) \in DOMAIN jobs /\ jobs' # <<>>
  BY <1>1, <1>2 DEF NewestLives
<1>4. NewestLives => NewestLives'
  BY <1>1, <1>2, <1>3 DEF NewestLives, Written
<1> QED
  BY <1>1, <1>4 DEF Done, Written

LEMMA GeneratedKept ==
  ASSUME ModelInv, NEW k \in Tasks, Generated(k)
  PROVE  ModelInv'
<1>1. ModelTypes'
  BY StepModelTypes DEF ModelInv, PipelineStep
<1>2. task[k].run \in DOMAIN jobs
  BY DEF Generated, ModelInv, ModelTypes, AtJob
<1>3. /\ Done("gen")' /\ (NewestLives => NewestLives')
      /\ \A other \in Kinds : Done(other) => Done(other)'
  <2>1. Written(task[k].run, "gen", "DONE")
    BY <1>2, JobWritten DEF Generated, ModelInv
  <2> QED
    BY <1>1, <1>2, <2>1, JobDone DEF ModelInv, Kinds
<1>4. /\ model'.glb /\ model'.status = model.status /\ abandoned' = abandoned
      /\ task[k].at = "generating" /\ task'[k].at = "mark"
      /\ \A l \in Tasks \ {k} : task'[l] = task[l]
  BY DEF Generated, ModelInv, ModelTypes, TaskRow
<1>5. WillEnd(k)'
  BY <1>3, <1>4 DEF WillEnd
<1>6. \A l \in Tasks : task[l].at = "fail" => task'[l].at = "fail"
  BY <1>4
<1> QED
  BY <1>1, <1>3, <1>4, <1>5, <1>6 DEF ModelInv, DoneHasFile, Attended

LEMMA MarkedKept ==
  ASSUME ModelInv, NEW k \in Tasks, Marked(k)
  PROVE  ModelInv'
<1>1. ModelTypes'
  BY StepModelTypes DEF ModelInv, PipelineStep
<1>2. task[k].run \in DOMAIN jobs
  BY DEF Marked, ModelInv, ModelTypes, AtJob
<1>3. /\ Done("mark")' /\ (NewestLives => NewestLives')
      /\ \A other \in Kinds : Done(other) => Done(other)'
      /\ Done("gen")' => Done("gen")
  <2>1. Written(task[k].run, "mark", "DONE")
    BY <1>2, JobWritten DEF Marked, ModelInv
  <2> QED
    BY <1>1, <1>2, <2>1, JobDone DEF ModelInv, Kinds
<1>4. /\ UNCHANGED <<model, abandoned>>
      /\ task[k].at = "marking" /\ task'[k].at = "converge"
      /\ \A l \in Tasks \ {k} : task'[l] = task[l]
  BY DEF Marked, ModelInv, ModelTypes, TaskRow
<1>5. \A l \in Tasks : WillEnd(l) => WillEnd(l)'
  <2> SUFFICES ASSUME NEW l \in Tasks, WillEnd(l) PROVE WillEnd(l)'
    OBVIOUS
  <2>1. CASE l = k
    BY <1>3, <1>4, <2>1 DEF WillEnd, Kinds
  <2>2. CASE l # k
    BY <1>3, <1>4, <2>2 DEF WillEnd, Kinds
  <2> QED
    BY <2>1, <2>2
<1>6. \A l \in Tasks : task[l].at = "fail" => task'[l].at = "fail"
  BY <1>4
<1> QED
  BY <1>1, <1>3, <1>4, <1>5, <1>6 DEF ModelInv, DoneHasFile, Attended

LEMMA FailuresKept ==
  ASSUME ModelInv, NEW k \in Tasks, GenerationFails(k) \/ MarkingFails(k)
  PROVE  ModelInv'
<1>1. ModelTypes'
  BY StepModelTypes DEF ModelInv, PipelineStep
<1>2. model' = model /\ task'[k].at = "fail"
  BY DEF GenerationFails, MarkingFails, ModelInv, ModelTypes, TaskRow
<1>3. Done("gen")' => Done("gen")
  <2>1. ModelTypes /\ task[k].run \in DOMAIN jobs
    BY DEF GenerationFails, MarkingFails, ModelInv, ModelTypes, AtJob
  <2>2. Written(task[k].run, "gen", "FAILED") \/ Written(task[k].run, "mark", "FAILED")
    BY <2>1, JobWritten DEF GenerationFails, MarkingFails
  <2> QED
    BY <2>2 DEF Written, Done, Kinds
<1> QED
  BY <1>1, <1>2, <1>3 DEF ModelInv, DoneHasFile, Attended

LEMMA MovesKept ==
  ASSUME ModelInv, NEW k \in Tasks,
         \/ Click(k) \/ PickGeneration(k) \/ LockGeneration(k)
         \/ PickMarking(k) \/ FlushMarking(k) \/ Converge(k) \/ FailProduct(k)
  PROVE  ModelInv'
<1>1. ModelTypes'
  BY StepModelTypes DEF ModelInv, PipelineStep
<1>2. /\ ModelTypes /\ UNCHANGED <<jobs, abandoned>> /\ model'.glb = model.glb
      /\ model'.status = model.status \/ model'.status # "GENERATING"
      /\ \A l \in Tasks \ {k} : task'[l] = task[l]
  BY DEF Click, PickGeneration, LockGeneration, PickMarking, FlushMarking, Converge, FailProduct,
         ModelInv, ModelTypes
<1>3. DoneHasFile'
  BY <1>2 DEF ModelInv, DoneHasFile, Done
<1>4. model'.status = "GENERATING" => task[k].at # "fail"
  BY <1>2 DEF Click, PickGeneration, LockGeneration, PickMarking, FlushMarking, Converge, FailProduct,
         ModelTypes
<1>5. ASSUME model'.status = "GENERATING", NewestLives, WillEnd(k) PROVE WillEnd(k)'
  <2> USE <1>2, <1>5 DEF WillEnd, ModelTypes
  <2>1. \A kind \in Kinds : ActiveJob(kind) = 0 => Done(kind)
    BY NothingWaiting
  <2>2. \A kind \in Kinds : Done(kind) => Done(kind)'
    BY DEF Done
  <2>3. CASE Click(k)
    BY <2>3 DEF Click
  <2>4. CASE PickGeneration(k)
    BY <2>1, <2>2, <2>4 DEF PickGeneration, Kinds, TaskRow
  <2>5. CASE LockGeneration(k)
    BY <2>5 DEF LockGeneration, TaskRow
  <2>6. CASE PickMarking(k)
    BY <2>1, <2>2, <2>6 DEF PickMarking, Kinds, TaskRow
  <2>7. CASE FlushMarking(k)
    BY <2>2, <2>7 DEF FlushMarking, Kinds, TaskRow
  <2>8. CASE Converge(k)
    <3>1. model.glb /\ Done("gen") /\ Done("mark")
      BY <2>8 DEF Converge, ModelInv, DoneHasFile
    <3>2. model'.status = "READY"
      BY <2>8, <3>1 DEF Converge
    <3> QED
      BY <3>2
  <2>9. CASE FailProduct(k)
    BY <2>9 DEF FailProduct
  <2> QED
    BY <2>3, <2>4, <2>5, <2>6, <2>7, <2>8, <2>9
<1> QED
  BY <1>1, <1>2, <1>3, <1>4, <1>5, PipelineMoves

LEMMA StepModel == ModelInv /\ [ArNext]_arVars => ModelInv'
  <1> SUFFICES ASSUME ModelInv, [ArNext]_arVars PROVE ModelInv'
    OBVIOUS
  <1>1. ASSUME NEW k \in Tasks, Click(k) \/ PipelineStep(k) PROVE ModelInv'
    BY <1>1, EnqueueKept, GeneratedKept, MarkedKept, FailuresKept, MovesKept DEF PipelineStep
  <1>2. ASSUME UNCHANGED <<jobs, task, abandoned>>, model'.status = model.status, model'.glb = model.glb,
               model' = [model EXCEPT !.published = model'.published], model'.published \in BOOLEAN
        PROVE  ModelInv'
    BY <1>2 DEF ModelInv, ModelTypes, DoneHasFile, Attended, NewestLives, WillEnd, Done
  <1>3. CASE \/ \E v \in Views : UploadView(v)
             \/ \E t \in Tags : AddTag(t) \/ VerifyTag(t) \/ DeleteTag(t)
             \/ Publish
             \/ UNCHANGED arVars
    BY <1>2, <1>3 DEF UploadView, AddTag, VerifyTag, DeleteTag, Publish, arVars, ModelInv, ModelTypes
  <1>4. CASE RestartBackend
    <2>1. ModelTypes'
      BY <1>4 DEF RestartBackend, NoTask, ModelInv, ModelTypes, TaskRow, AtJob
    <2>2. abandoned' /\ DoneHasFile'
      BY <1>4 DEF RestartBackend, ModelInv, DoneHasFile, Done
    <2> QED
      BY <2>1, <2>2 DEF ModelInv, Attended
  <1> QED
    BY <1>1, <1>3, <1>4 DEF ArNext

(***************************************************************************)
(* However many clicks, pipelines, failures and restarts there are: while  *)
(* a product is GENERATING and its pipelines were not lost in a restart,   *)
(* one of them is on its way to say READY or FAILED.                       *)
(***************************************************************************)
THEOREM GenerationIsAttended == ArSpec => []GenerationAttended
  <1>1. ModelInv => GenerationAttended
    BY DEF ModelInv, Attended, GenerationAttended, WillEnd
  <1> QED
    BY <1>1, InitModel, StepModel, PTL DEF ArSpec

=============================================================================
