--------------------------- MODULE NightlyReport ---------------------------
(***************************************************************************)
(* The nightly report of one restaurant (jobs/nightly_report): every       *)
(* replica of the backend ticks; after closing time it builds the day's    *)
(* report, claims the day's row of the ledger, mails and marks the row.    *)
(* A replica may be restarted at any point, and the mail provider may      *)
(* refuse a message, or take it and fail to answer.                        *)
(***************************************************************************)
EXTENDS Naturals

CONSTANTS
    Replicas, NoReplica,
    LastDay,            \* bound: days 1 .. LastDay
    MaxAttempts,        \* DAILY_REPORT_MAX_ATTEMPTS
    MaxOutages          \* bound: restarts and lost answers

ASSUME ReportAssumption == LastDay \in Nat \ {0} /\ NoReplica \notin Replicas

VARIABLES
    today, closed,      \* the restaurant's local date, and whether now >= closing_time
    listed,             \* an active restaurant with daily_report_enabled
    sales,              \* days on which a bill has been settled
    ledger,             \* [Days -> [status, attempts]], "absent" before the insert
    ledgerLock,         \* [Days -> the replica that holds the row]
    tick,               \* [Replicas -> [at, day, sales]]
    mails,              \* [Days -> messages the provider has taken]
    outages

nrVars == <<today, closed, listed, sales, ledger, ledgerLock, tick, mails, outages>>

Days == 1 .. LastDay

Asleep == [at |-> "asleep", day |-> 1, sales |-> FALSE]

NrInit ==
    /\ today = 1 /\ closed = FALSE /\ listed = TRUE
    /\ sales = {}
    /\ ledger = [d \in Days |-> [status |-> "absent", attempts |-> 0]]
    /\ ledgerLock = [d \in Days |-> NoReplica]
    /\ tick = [r \in Replicas |-> Asleep]
    /\ mails = [d \in Days |-> 0]
    /\ outages = 0

Settled(d) == ledger[d].status \in {"SENT", "SKIPPED_NO_SALES", "FAILED"}

-----------------------------------------------------------------------------
(* The restaurant *)

\* Midnight, or an administrator moves the closing time.
Midnight ==
    /\ today < LastDay
    /\ today' = today + 1
    /\ closed' = FALSE
    /\ UNCHANGED <<listed, sales, ledger, ledgerLock, tick, mails, outages>>

ClosingTime ==
    /\ closed' = ~closed
    /\ UNCHANGED <<today, listed, sales, ledger, ledgerLock, tick, mails, outages>>

SwitchReport ==
    /\ listed' = ~listed
    /\ UNCHANGED <<today, closed, sales, ledger, ledgerLock, tick, mails, outages>>

SettleBill ==
    /\ sales' = sales \cup {today}
    /\ UNCHANGED <<today, closed, listed, ledger, ledgerLock, tick, mails, outages>>

-----------------------------------------------------------------------------
(* A tick *)

EndTick(r) ==
    /\ tick' = [tick EXCEPT ![r] = Asleep]
    /\ ledgerLock' = [d \in Days |-> IF ledgerLock[d] = r THEN NoReplica ELSE ledgerLock[d]]

\* run_once finds the restaurant closed and builds the report.
BuildReport(r) ==
    /\ tick[r].at = "asleep"
    /\ listed /\ closed
    /\ tick' = [tick EXCEPT ![r] = [at |-> "claim", day |-> today, sales |-> today \in sales]]
    /\ UNCHANGED <<today, closed, listed, sales, ledger, ledgerLock, mails, outages>>

\* _claim_ledger_row: INSERT ... ON CONFLICT DO NOTHING, committed.
InsertLedgerRow(r) ==
    /\ tick[r].at = "claim"
    /\ ledger' = [ledger EXCEPT ![tick[r].day].status = IF @ = "absent" THEN "PENDING" ELSE @]
    /\ tick' = [tick EXCEPT ![r].at = "lock"]
    /\ UNCHANGED <<today, closed, listed, sales, ledgerLock, mails, outages>>

\* Mutant: SELECT without FOR UPDATE.
ReadLedgerRow(r) ==
    /\ tick[r].at = "lock"
    /\ ~Settled(tick[r].day)
    /\ tick[r].sales
    /\ tick' = [tick EXCEPT ![r].at = "send"]
    /\ UNCHANGED <<today, closed, listed, sales, ledger, ledgerLock, mails, outages>>

\* The row is locked: the report is to be sent ...
LockLedgerRow(r) ==
    LET d == tick[r].day
    IN  /\ tick[r].at = "lock"
        /\ ledgerLock[d] = NoReplica
        /\ ~Settled(d)
        /\ tick[r].sales
        /\ ledgerLock' = [ledgerLock EXCEPT ![d] = r]
        /\ tick' = [tick EXCEPT ![r].at = "send"]
        /\ UNCHANGED <<today, closed, listed, sales, ledger, mails, outages>>

\* ... or there was nothing to report, which is recorded, ...
SkipDay(r) ==
    LET d == tick[r].day
    IN  /\ tick[r].at = "lock"
        /\ ledgerLock[d] = NoReplica
        /\ ~Settled(d)
        /\ ~tick[r].sales
        /\ ledger' = [ledger EXCEPT ![d] = [status |-> "SKIPPED_NO_SALES", attempts |-> @.attempts + 1]]
        /\ EndTick(r)
        /\ UNCHANGED <<today, closed, listed, sales, mails, outages>>

\* ... or the day is settled.
LeaveSettled(r) ==
    /\ tick[r].at = "lock"
    /\ ledgerLock[tick[r].day] = NoReplica
    /\ Settled(tick[r].day)
    /\ EndTick(r)
    /\ UNCHANGED <<today, closed, listed, sales, ledger, mails, outages>>

\* The provider takes the message.
MailReport(r) ==
    /\ tick[r].at = "send"
    /\ mails' = [mails EXCEPT ![tick[r].day] = @ + 1]
    /\ tick' = [tick EXCEPT ![r].at = "mark"]
    /\ UNCHANGED <<today, closed, listed, sales, ledger, ledgerLock, outages>>

MarkSent(r) ==
    /\ tick[r].at = "mark"
    /\ ledger' = [ledger EXCEPT ![tick[r].day] = [status |-> "SENT", attempts |-> @.attempts + 1]]
    /\ EndTick(r)
    /\ UNCHANGED <<today, closed, listed, sales, mails, outages>>

\* Mutant: the failed attempt is rolled back.
ForgetAttempt(r) ==
    /\ tick[r].at = "send"
    /\ EndTick(r)
    /\ UNCHANGED <<today, closed, listed, sales, ledger, mails, outages>>

\* send_report raises: the attempt is recorded, the last one for good.  When
\* only the answer was lost the message has gone out all the same.
RecordFailure(r) ==
    LET d == tick[r].day
        tries == ledger[d].attempts + 1
    IN  /\ tick[r].at = "send"
        /\ \/ UNCHANGED <<mails, outages>>
           \/ /\ outages < MaxOutages
              /\ outages' = outages + 1
              /\ mails' = [mails EXCEPT ![d] = @ + 1]
        /\ ledger' = [ledger EXCEPT ![d] =
                [status |-> IF tries >= MaxAttempts THEN "FAILED" ELSE @.status, attempts |-> tries]]
        /\ EndTick(r)
        /\ UNCHANGED <<today, closed, listed, sales>>

\* The process dies, or a statement fails: rollback, and the next tick.
RestartReplica(r) ==
    /\ tick[r].at # "asleep"
    /\ outages < MaxOutages
    /\ outages' = outages + 1
    /\ EndTick(r)
    /\ UNCHANGED <<today, closed, listed, sales, ledger, mails>>

TickStep(r) ==
    \/ BuildReport(r) \/ InsertLedgerRow(r)
    \/ LockLedgerRow(r) \/ SkipDay(r) \/ LeaveSettled(r)
    \/ MailReport(r) \/ MarkSent(r) \/ RecordFailure(r)

NrNext ==
    \/ Midnight \/ ClosingTime \/ SwitchReport \/ SettleBill
    \/ \E r \in Replicas : TickStep(r) \/ RestartReplica(r)

NrFairness == \A r \in Replicas : WF_nrVars(TickStep(r))

NrSpec == NrInit /\ [][NrNext]_nrVars /\ NrFairness

-----------------------------------------------------------------------------
(* Properties *)

(***************************************************************************)
(* "A restart can never double-send", "makes a second send impossible":    *)
(* a day's report is mailed once.  Violated: the message goes out before   *)
(* the row is marked, and a replica that is restarted in between leaves a  *)
(* PENDING row, which the next tick takes up.                              *)
(***************************************************************************)
SentOnce == \A d \in Days : mails[d] <= 1

(***************************************************************************)
(* What the ledger does achieve: "the same constraint keeps sends single   *)
(* if the backend is ever scaled past one replica".  However many replicas *)
(* tick, and however often they fail, there is one message, and one more   *)
(* for every restart between sending and committing and for every answer   *)
(* of the provider that is lost.                                           *)
(***************************************************************************)
OneMailPerOutage == \A d \in Days : mails[d] <= 1 + outages

(***************************************************************************)
(* "Never retried all night": once the restaurant has closed its day is    *)
(* sent, skipped or given up, whatever fails, unless midnight, a change of *)
(* the closing time or the switch comes first.  (After midnight nobody     *)
(* takes the day up again.)                                                *)
(***************************************************************************)
DaySettles == closed /\ listed ~> Settled(today) \/ ~closed \/ ~listed

=============================================================================
