--------------------------- MODULE ReceiptsProofs ---------------------------
(***************************************************************************)
(* A payer's address stays, a receipt that is due has a request on its way *)
(* to send it, and only requests that overlap repeat it: for any number of *)
(* parties and of requests served at once.  The first rests on the row     *)
(* lock of the invoice: what a capture found there is still so when it     *)
(* writes.  The others are about requests with stale copies.               *)
(***************************************************************************)
EXTENDS Receipts, FiniteSetTheorems, TLAPS

MealRow    == [status : {"none", "LIVE", "CLOSED"}, guest : Parties \cup {NoGuest}]
BillRow    == [status : {"none", "DUE", "PAID", "VOID"}, guest : Parties \cup {NoGuest}, stamped : BOOLEAN]
ServerRow  == [at : {"free", "bill", "lock", "order", "reload", "mail", "stamp", "dispatch"},
               party : Parties \cup {NoGuest}, ended : BOOLEAN, bill : Parties \cup {NoGuest},
               due : BOOLEAN]

ReceiptTypes ==
    /\ meal \in [Parties -> MealRow]
    /\ bill \in [Parties -> BillRow]
    /\ billLock \in [Parties -> Servers \cup {NoGuest}]
    /\ server \in [Servers -> ServerRow]
    /\ mailed \in [Parties -> Nat]

\* A bill that was not made carries nothing; one that was not claimed was not mailed.
NothingYet ==
    \A v \in Parties :
        /\ bill[v].status = "none" => bill[v].guest = NoGuest /\ ~bill[v].stamped
        /\ ~bill[v].stamped => mailed[v] = 0

\* Whoever works on a bill works on one that was made.
WorksOnABill ==
    \A s \in Servers :
        /\ server[s].at \in {"bill", "lock", "order"} => server[s].party \in Parties
        /\ server[s].at \in {"lock", "reload", "mail", "stamp", "dispatch"} => server[s].bill # NoGuest
        /\ server[s].at \in {"bill"} => server[s].bill = NoGuest
        /\ server[s].bill # NoGuest => bill[server[s].bill].status # "none"

\* The capture that is about to write to a bill.
Writes(s) == server[s].at = "order" /\ server[s].bill # NoGuest

\* It holds the row, and what it found there is still so.
WriterHolds ==
    \A s \in Servers : Writes(s) =>
        /\ billLock[server[s].bill] = s
        /\ bill[server[s].bill].guest \in {NoGuest, server[s].party}

\* Who dispatches has committed a claim.
ClaimCommitted ==
    \A s \in Servers : server[s].at = "dispatch" => bill[server[s].bill].stamped

ReceiptInv == ReceiptTypes /\ NothingYet /\ WorksOnABill /\ WriterHolds /\ ClaimCommitted

LEMMA InitReceipts == RcInit => ReceiptInv
  <1> USE NoGuestAssumption DEF RcInit, Free
  <1>1. RcInit => ReceiptTypes
    BY DEF ReceiptTypes, MealRow, BillRow, ServerRow
  <1>2. RcInit => NothingYet /\ WorksOnABill /\ WriterHolds /\ ClaimCommitted
    BY DEF NothingYet, WorksOnABill, Writes, WriterHolds, ClaimCommitted
  <1> QED
    BY <1>1, <1>2 DEF ReceiptInv

-----------------------------------------------------------------------------
(* The table *)

\* No bill loses its address or its stamp; one that is made has no stamp yet.
BillsKept ==
    \A v \in Parties :
        \/ /\ bill[v].status = "none" /\ ~bill'[v].stamped
           /\ bill'[v].status = "none" => bill'[v] = bill[v]
        \/ /\ bill'[v].status # "none"
           /\ bill'[v].guest = bill[v].guest /\ bill'[v].stamped = bill[v].stamped

LEMMA TableKept ==
  ASSUME ReceiptInv, meal' \in [Parties -> MealRow], bill' \in [Parties -> BillRow],
         UNCHANGED <<billLock, server, mailed>>, BillsKept
  PROVE  ReceiptInv'
  <1>1. ReceiptTypes'
    BY DEF ReceiptInv, ReceiptTypes
  <1>2. NothingYet'
    BY DEF ReceiptInv, NothingYet, BillsKept
  <1>3. WorksOnABill'
    BY DEF ReceiptInv, ReceiptTypes, ServerRow, WorksOnABill, BillsKept
  <1>4. WriterHolds' /\ ClaimCommitted'
    BY DEF ReceiptInv, ReceiptTypes, ServerRow, WorksOnABill, Writes, WriterHolds, ClaimCommitted,
           BillsKept
  <1> QED
    BY <1>1, <1>2, <1>3, <1>4 DEF ReceiptInv

LEMMA TableSteps ==
  ASSUME ReceiptInv, NEW v \in Parties,
         Sit(v) \/ OrderMeal(v) \/ MakeBill(v) \/ PayElsewhere(v) \/ WriteOffMeal(v) \/ GraceEnds(v)
  PROVE  ReceiptInv'
  <1>1. meal \in [Parties -> MealRow] /\ bill \in [Parties -> BillRow]
    BY DEF ReceiptInv, ReceiptTypes
  <1>2. UNCHANGED <<billLock, server, mailed>>
    BY DEF Sit, OrderMeal, MakeBill, PayElsewhere, WriteOffMeal, GraceEnds
  <1>3. meal' \in [Parties -> MealRow]
    BY <1>1 DEF Sit, OrderMeal, MakeBill, PayElsewhere, WriteOffMeal, GraceEnds, CloseTable, MealRow
  <1>4. CASE Sit(v) \/ OrderMeal(v) \/ GraceEnds(v)
    <2>1. UNCHANGED bill
      BY <1>4 DEF Sit, OrderMeal, GraceEnds
    <2> QED
      BY <1>1, <1>2, <1>3, <2>1, TableKept DEF ReceiptInv, NothingYet, BillsKept
  <1>5. CASE MakeBill(v)
    <2>1. meal[v].guest \in Parties \cup {NoGuest}
      BY <1>1 DEF MealRow
    <2>2. /\ bill[v].status = "none"
          /\ bill' = [bill EXCEPT ![v] = [status |-> "DUE", guest |-> meal[v].guest, stamped |-> FALSE]]
      BY <1>5 DEF MakeBill
    <2>3. bill' \in [Parties -> BillRow]
      BY <1>1, <2>1, <2>2 DEF BillRow
    <2> QED
      BY <1>1, <1>2, <1>3, <2>2, <2>3, TableKept DEF ReceiptInv, NothingYet, BillsKept
  <1>6. CASE PayElsewhere(v) \/ WriteOffMeal(v)
    <2>1. /\ \A w \in Parties \ {v} : bill'[w] = bill[w]
          /\ bill' \in [Parties -> BillRow]
          /\ bill'[v].guest = bill[v].guest /\ bill'[v].stamped = bill[v].stamped
          /\ bill'[v].status = "none" <=> bill[v].status = "none"
          /\ bill'[v].status = "none" => bill'[v] = bill[v]
      BY <1>1, <1>6 DEF PayElsewhere, WriteOffMeal, BillRow
    <2> QED
      BY <1>1, <1>2, <1>3, <2>1, TableKept DEF ReceiptInv, NothingYet, BillsKept
  <1> QED
    BY <1>4, <1>5, <1>6

-----------------------------------------------------------------------------
(* The servers *)

\* What a server that has just moved to a step short of mailing must find.
Sound(s) ==
    /\ server[s].at \in {"bill", "lock", "order"} => server[s].party \in Parties
    /\ server[s].at \in {"lock", "reload", "mail", "stamp"} => server[s].bill # NoGuest
    /\ server[s].at = "bill" => server[s].bill = NoGuest
    /\ server[s].bill # NoGuest => bill[server[s].bill].status # "none"
    /\ Writes(s) =>
          /\ billLock[server[s].bill] = s
          /\ bill[server[s].bill].guest \in {NoGuest, server[s].party}
    /\ server[s].at # "dispatch"

LEMMA ServerKept ==
  ASSUME ReceiptInv, NEW s \in Servers, UNCHANGED mailed,
         meal' \in [Parties -> MealRow], bill' \in [Parties -> BillRow], BillsKept,
         server' \in [Servers -> ServerRow], billLock' \in [Parties -> Servers \cup {NoGuest}],
         \A r \in Servers \ {s} : server'[r] = server[r],
         \A r \in Servers \ {s}, v \in Parties : billLock[v] = r => billLock'[v] = r,
         Sound(s)'
  PROVE  ReceiptInv'
  <1>1. ReceiptTypes'
    BY DEF ReceiptInv, ReceiptTypes
  <1>2. NothingYet'
    BY DEF ReceiptInv, NothingYet, BillsKept
  <1>3. \A r \in Servers \ {s} : server[r].bill # NoGuest => server[r].bill \in Parties
    BY DEF ReceiptInv, ReceiptTypes, ServerRow
  <1>4. WorksOnABill'
    BY <1>3 DEF ReceiptInv, WorksOnABill, BillsKept, Sound
  <1>5. WriterHolds'
    BY <1>3 DEF ReceiptInv, WorksOnABill, Writes, WriterHolds, BillsKept, Sound
  <1>6. ClaimCommitted'
    BY <1>3 DEF ReceiptInv, WorksOnABill, ClaimCommitted, BillsKept, Sound
  <1> QED
    BY <1>1, <1>2, <1>4, <1>5, <1>6 DEF ReceiptInv

LEMMA Ending ==
  ASSUME ReceiptTypes, NEW s \in Servers, EndServing(s)
  PROVE  /\ server' \in [Servers -> ServerRow] /\ billLock' \in [Parties -> Servers \cup {NoGuest}]
         /\ server'[s] = Free
         /\ \A r \in Servers \ {s} : server'[r] = server[r]
         /\ \A r \in Servers \ {s}, v \in Parties : billLock[v] = r => billLock'[v] = r
  <1>1. Free \in ServerRow
    BY DEF Free, ServerRow
  <1> QED
    BY <1>1 DEF EndServing, ReceiptTypes

LEMMA SettleSteps ==
  ASSUME ReceiptInv, NEW s \in Servers, NEW v \in Parties, PayAtCounter(s, v) \/ QuickBillAndClose(s, v)
  PROVE  ReceiptInv'
  <1>1. /\ meal \in [Parties -> MealRow] /\ bill \in [Parties -> BillRow]
        /\ server \in [Servers -> ServerRow] /\ billLock' \in [Parties -> Servers \cup {NoGuest}]
        /\ UNCHANGED <<billLock, mailed>>
    BY DEF ReceiptInv, ReceiptTypes, PayAtCounter, QuickBillAndClose
  <1>2. meal' \in [Parties -> MealRow]
    BY <1>1 DEF PayAtCounter, QuickBillAndClose, CloseTable, MealRow
  <1>3. server' = [server EXCEPT ![s] = [at |-> "reload", party |-> NoGuest, ended |-> FALSE, bill |-> v,
                                        due |-> FALSE]]
    BY DEF PayAtCounter, QuickBillAndClose, Free
  <1>4. /\ server' \in [Servers -> ServerRow]
        /\ server'[s].at = "reload" /\ server'[s].bill = v
        /\ \A r \in Servers \ {s} : server'[r] = server[r]
    BY <1>1, <1>3 DEF ServerRow
  <1>5. bill' \in [Parties -> BillRow] /\ BillsKept /\ bill'[v].status # "none"
    <2>1. CASE PayAtCounter(s, v)
      <3>1. bill' = [bill EXCEPT ![v].status = "PAID"] /\ bill[v].status = "DUE"
        BY <2>1 DEF PayAtCounter
      <3>2. bill'[v] = [bill[v] EXCEPT !.status = "PAID"] /\ bill[v] \in BillRow
        BY <1>1, <3>1
      <3>3. /\ bill'[v].status = "PAID" /\ bill'[v].guest = bill[v].guest
            /\ bill'[v].stamped = bill[v].stamped
        BY <3>2 DEF BillRow
      <3> QED
        BY <1>1, <3>1, <3>3 DEF BillsKept, BillRow, ReceiptInv, NothingYet
    <2>2. CASE QuickBillAndClose(s, v)
      <3>1. /\ bill[v].status = "none"
            /\ bill' = [bill EXCEPT ![v] = [status |-> "PAID", guest |-> meal[v].guest, stamped |-> FALSE]]
        BY <2>2 DEF QuickBillAndClose
      <3>2. meal[v].guest \in Parties \cup {NoGuest}
        BY <1>1 DEF MealRow
      <3> QED
        BY <1>1, <3>1, <3>2 DEF BillsKept, BillRow, ReceiptInv, NothingYet
    <2> QED
      BY <2>1, <2>2
  <1>6. Sound(s)'
    BY <1>4, <1>5, NoGuestAssumption DEF Sound, Writes
  <1> QED
    BY <1>1, <1>2, <1>4, <1>5, <1>6, ServerKept

\* The steps that read bills and take or release their locks.
LEMMA ReadingSteps ==
  ASSUME ReceiptInv, NEW s \in Servers,
         \/ \E v \in Parties : Submit(s, v)
         \/ FindBill(s) \/ LockBill(s) \/ BillWasVoided(s) \/ RefuseSecondPayer(s)
         \/ Reload(s) \/ LockReceipt(s) \/ ServerDies(s)
  PROVE  ReceiptInv'
  <1> USE NoGuestAssumption
  <1>1. /\ meal \in [Parties -> MealRow] /\ bill \in [Parties -> BillRow]
        /\ billLock \in [Parties -> Servers \cup {NoGuest}] /\ server \in [Servers -> ServerRow]
    BY DEF ReceiptInv, ReceiptTypes
  <1>2. UNCHANGED <<meal, bill, mailed>>
    BY DEF Submit, FindBill, LockBill, BillWasVoided, RefuseSecondPayer, Reload, LockReceipt,
           ServerDies
  <1>3. BillsKept
    BY <1>2 DEF ReceiptInv, NothingYet, BillsKept
  <1>4. /\ server[s].at \in {"bill", "lock", "order"} => server[s].party \in Parties
        /\ server[s].at \in {"lock", "reload", "mail", "stamp"} => server[s].bill # NoGuest
        /\ server[s].at = "bill" => server[s].bill = NoGuest
        /\ server[s].bill # NoGuest =>
               server[s].bill \in Parties /\ bill[server[s].bill].status # "none"
    BY <1>1 DEF ReceiptInv, WorksOnABill, ServerRow
  <1> DEFINE Moved ==
        /\ server' \in [Servers -> ServerRow] /\ billLock' \in [Parties -> Servers \cup {NoGuest}]
        /\ \A r \in Servers \ {s} : server'[r] = server[r]
        /\ \A r \in Servers \ {s}, v \in Parties : billLock[v] = r => billLock'[v] = r
        /\ Sound(s)'
  <1>5. ASSUME NEW v \in Parties, Submit(s, v) PROVE Moved
    <2>1. /\ UNCHANGED billLock
          /\ \E e \in BOOLEAN : server' = [server EXCEPT ![s] =
                [at |-> "bill", party |-> v, ended |-> e, bill |-> NoGuest, due |-> FALSE]]
      BY <1>5 DEF Submit
    <2> QED
      BY <1>1, <2>1 DEF Sound, Writes, ServerRow
  <1>6. ASSUME FindBill(s) PROVE Moved
    <2>1. server[s].at = "bill" /\ UNCHANGED billLock
      BY <1>6 DEF FindBill
    <2>2. ASSUME server' = [server EXCEPT ![s].at = "order"] PROVE Moved
      <3>1. /\ server' \in [Servers -> ServerRow]
            /\ \A r \in Servers \ {s} : server'[r] = server[r]
            /\ server'[s].at = "order" /\ server'[s].party = server[s].party
            /\ server'[s].bill = server[s].bill
        BY <1>1, <2>2 DEF ServerRow
      <3>2. Sound(s)'
        BY <1>4, <2>1, <3>1 DEF Sound, Writes
      <3> QED
        BY <1>1, <2>1, <3>1, <3>2
    <2>3. ASSUME NEW w \in Parties, bill[w].status # "none",
                 server' = [server EXCEPT ![s].at = "lock", ![s].bill = w]
          PROVE  Moved
      <3>1. /\ server' \in [Servers -> ServerRow]
            /\ \A r \in Servers \ {s} : server'[r] = server[r]
            /\ server'[s].at = "lock" /\ server'[s].party = server[s].party
            /\ server'[s].bill = w
        BY <1>1, <2>3 DEF ServerRow
      <3>2. Sound(s)'
        BY <1>2, <1>4, <2>1, <2>3, <3>1 DEF Sound, Writes
      <3> QED
        BY <1>1, <2>1, <3>1, <3>2
    <2>4. \/ server' = [server EXCEPT ![s].at = "order"]
          \/ \E w \in Parties : /\ bill[w].status # "none"
                                /\ server' = [server EXCEPT ![s].at = "lock", ![s].bill = w]
      BY <1>6 DEF FindBill, BillsFor
    <2> HIDE DEF Moved
    <2> QED
      BY <2>2, <2>3, <2>4
  <1>7. ASSUME LockBill(s) PROVE Moved
    <2> DEFINE w == server[s].bill
    <2>1. /\ server' = [server EXCEPT ![s].at = "order"] /\ server[s].at = "lock"
          /\ w \in Parties /\ billLock[w] = NoGuest /\ billLock' = [billLock EXCEPT ![w] = s]
          /\ bill[w].guest \in {NoGuest, server[s].party}
      BY <1>4, <1>7 DEF LockBill
    <2>2. /\ server' \in [Servers -> ServerRow]
          /\ \A r \in Servers \ {s} : server'[r] = server[r]
          /\ server'[s].at = "order" /\ server'[s].party = server[s].party
          /\ server'[s].bill = w
      BY <1>1, <2>1 DEF ServerRow
    <2>3. /\ billLock' \in [Parties -> Servers \cup {NoGuest}] /\ billLock'[w] = s
          /\ \A r \in Servers \ {s}, v \in Parties : billLock[v] = r => billLock'[v] = r
      BY <1>1, <2>1
    <2>4. Sound(s)'
      BY <1>2, <1>4, <2>1, <2>2, <2>3 DEF Sound, Writes
    <2> QED
      BY <2>2, <2>3, <2>4
  <1>8. ASSUME BillWasVoided(s) PROVE Moved
    <2>1. /\ server' = [server EXCEPT ![s] = [@ EXCEPT !.at = "order", !.bill = NoGuest]]
          /\ server[s].at = "lock" /\ UNCHANGED billLock
      BY <1>8 DEF BillWasVoided
    <2>2. /\ server' \in [Servers -> ServerRow]
          /\ \A r \in Servers \ {s} : server'[r] = server[r]
          /\ server'[s].at = "order" /\ server'[s].party = server[s].party
          /\ server'[s].bill = NoGuest
      BY <1>1, <2>1 DEF ServerRow
    <2>3. Sound(s)'
      BY <1>4, <2>1, <2>2 DEF Sound, Writes
    <2> QED
      BY <1>1, <2>1, <2>2, <2>3
  <1>9. ASSUME RefuseSecondPayer(s) \/ ServerDies(s) PROVE Moved
    <2>1. EndServing(s)
      BY <1>9 DEF RefuseSecondPayer, ServerDies
    <2>2. server'[s] = Free
      BY <2>1, Ending DEF ReceiptInv
    <2>3. Sound(s)'
      BY <2>2 DEF Sound, Writes, Free
    <2> QED
      BY <2>1, <2>3, Ending DEF ReceiptInv
  <1>10. ASSUME LockReceipt(s) PROVE Moved
    <2> DEFINE w == server[s].bill
    <2>1. CASE server[s].due
      <3>1. /\ server' = [server EXCEPT ![s] = [@ EXCEPT !.at = "stamp"]] /\ server[s].at = "mail"
            /\ w \in Parties /\ billLock[w] = NoGuest /\ billLock' = [billLock EXCEPT ![w] = s]
        BY <1>4, <1>10, <2>1 DEF LockReceipt
      <3>2. /\ server' \in [Servers -> ServerRow]
            /\ \A r \in Servers \ {s} : server'[r] = server[r]
            /\ server'[s].at = "stamp" /\ server'[s].bill = w
        BY <1>1, <3>1 DEF ServerRow
      <3>3. /\ billLock' \in [Parties -> Servers \cup {NoGuest}]
            /\ \A r \in Servers \ {s}, v \in Parties : billLock[v] = r => billLock'[v] = r
        BY <1>1, <3>1
      <3>4. Sound(s)'
        BY <1>2, <1>4, <3>1, <3>2 DEF Sound, Writes
      <3> QED
        BY <3>2, <3>3, <3>4
    <2>2. CASE ~server[s].due
      <3>1. server' = [server EXCEPT ![s] = Free] /\ UNCHANGED billLock
        BY <1>10, <2>2 DEF LockReceipt
      <3>2. /\ server' \in [Servers -> ServerRow] /\ server'[s] = Free
            /\ \A r \in Servers \ {s} : server'[r] = server[r]
        BY <1>1, <3>1 DEF Free, ServerRow
      <3>3. Sound(s)'
        BY <3>2 DEF Free, Sound, Writes
      <3> QED
        BY <1>1, <3>1, <3>2, <3>3
    <2> QED
      BY <2>1, <2>2
  <1>11. ASSUME Reload(s) PROVE Moved
    <2> DEFINE w == server[s].bill
    <2>1. server[s].at = "reload" /\ UNCHANGED billLock
      BY <1>11 DEF Reload
    <2>2. /\ server' \in [Servers -> ServerRow]
          /\ \A r \in Servers \ {s} : server'[r] = server[r]
          /\ server'[s] = Free \/ (server'[s].at = "mail" /\ server'[s].bill = w)
      <3>1. CASE bill[w].status = "PAID"
        <4>1. PICK d \in BOOLEAN : server' = [server EXCEPT ![s] = [@ EXCEPT !.at = "mail", !.due = d]]
          BY <1>11, <3>1 DEF Reload
        <4> QED
          BY <1>1, <4>1 DEF ServerRow
      <3>2. CASE bill[w].status # "PAID"
        <4>1. server' = [server EXCEPT ![s] = Free] /\ Free \in ServerRow
          BY <1>11, <3>2 DEF Reload, Free, ServerRow
        <4> QED
          BY <1>1, <4>1
      <3> QED
        BY <3>1, <3>2
    <2>3. Sound(s)'
      BY <1>2, <1>4, <2>1, <2>2 DEF Free, Sound, Writes
    <2> QED
      BY <1>1, <2>1, <2>2, <2>3
  <1>12. Moved
    <2> HIDE DEF Moved
    <2> QED
      BY <1>5, <1>6, <1>7, <1>8, <1>9, <1>10, <1>11
  <1> QED
    BY <1>1, <1>2, <1>3, <1>12, ServerKept

\* An address is written to a bill that has none, or this one, and is held.
LEMMA Attaching ==
  ASSUME ReceiptInv, NEW s \in Servers, Attach(s)
  PROVE  /\ ReceiptInv'
         /\ \A v \in Parties : bill[v].guest # NoGuest => bill'[v].guest = bill[v].guest
  <1> USE NoGuestAssumption
  <1> DEFINE v == server[s].party
             w == server[s].bill
  <1>1. /\ meal \in [Parties -> MealRow] /\ bill \in [Parties -> BillRow]
        /\ billLock \in [Parties -> Servers \cup {NoGuest}] /\ server \in [Servers -> ServerRow]
        /\ mailed \in [Parties -> Nat]
    BY DEF ReceiptInv, ReceiptTypes
  <1>2. /\ server[s].at = "order" /\ v \in Parties /\ UNCHANGED mailed
        /\ meal' = [u \in Parties |-> IF u \in LiveMeals THEN [meal[u] EXCEPT !.guest = v] ELSE meal[u]]
        /\ bill' = [u \in Parties |-> IF u = w THEN [bill[u] EXCEPT !.guest = v] ELSE bill[u]]
    BY DEF Attach, ReceiptInv, WorksOnABill
  <1>3. w # NoGuest => /\ w \in Parties /\ bill[w].status # "none" /\ billLock[w] = s
                       /\ bill[w].guest \in {NoGuest, v}
    BY <1>1, <1>2 DEF ReceiptInv, WorksOnABill, WriterHolds, Writes, ServerRow
  <1>4. meal' \in [Parties -> MealRow]
    BY <1>1, <1>2 DEF MealRow
  <1>5. /\ bill' \in [Parties -> BillRow]
        /\ \A u \in Parties : /\ bill'[u].status = bill[u].status
                              /\ bill'[u].stamped = bill[u].stamped
                              /\ bill'[u].guest = IF u = w THEN v ELSE bill[u].guest
    BY <1>1, <1>2 DEF BillRow
  <1>6. /\ server' \in [Servers -> ServerRow] /\ billLock' \in [Parties -> Servers \cup {NoGuest}]
        /\ \A r \in Servers \ {s} : server'[r] = server[r]
        /\ \A r \in Servers \ {s}, u \in Parties : billLock[u] = r => billLock'[u] = r
        /\ server'[s] = Free \/ (w # NoGuest /\ server'[s] = [server[s] EXCEPT !.at = "reload"])
    <2>1. CASE EndServing(s)
      BY <2>1, Ending DEF ReceiptInv
    <2>2. CASE /\ w # NoGuest /\ server' = [server EXCEPT ![s].at = "reload"]
               /\ billLock' = [u \in Parties |-> IF billLock[u] = s THEN NoGuest ELSE billLock[u]]
      BY <1>1, <2>2 DEF ServerRow
    <2> QED
      BY <2>1, <2>2 DEF Attach
  <1>7. server'[s] # Free => server'[s].at = "reload" /\ server'[s].bill = w /\ w # NoGuest
    BY <1>1, <1>6 DEF ServerRow
  <1>8. \A r \in Servers \ {s} : server[r].bill # NoGuest => server[r].bill \in Parties
    BY <1>1 DEF ServerRow
  <1> HIDE DEF v, w
  <1>9. ReceiptTypes'
    BY <1>1, <1>2, <1>4, <1>5, <1>6 DEF ReceiptTypes
  <1>10. NothingYet'
    BY <1>1, <1>2, <1>3, <1>5 DEF ReceiptInv, NothingYet
  <1>11. WorksOnABill'
    BY <1>3, <1>5, <1>6, <1>7, <1>8 DEF ReceiptInv, WorksOnABill, Free
  <1>12. WriterHolds'
    <2>1. \A r \in Servers \ {s} : Writes(r) => server[r].bill # w
      BY <1>3, <1>8 DEF ReceiptInv, WriterHolds, Writes, WorksOnABill
    <2> QED
      BY <1>5, <1>6, <1>7, <1>8, <2>1 DEF ReceiptInv, WriterHolds, Writes, WorksOnABill, Free
  <1>13. ClaimCommitted'
    BY <1>2, <1>5, <1>6, <1>7, <1>8 DEF ReceiptInv, ClaimCommitted, WorksOnABill, Free
  <1> QED
    BY <1>3, <1>5, <1>9, <1>10, <1>11, <1>12, <1>13 DEF ReceiptInv

\* A claim is committed by who found the receipt due when the bill was loaded,
LEMMA Stamping ==
  ASSUME ReceiptInv, NEW s \in Servers, StampReceipt(s)
  PROVE  ReceiptInv'
  <1> USE NoGuestAssumption
  <1> DEFINE w == server[s].bill
  <1>1. /\ bill \in [Parties -> BillRow] /\ billLock \in [Parties -> Servers \cup {NoGuest}]
        /\ server \in [Servers -> ServerRow] /\ mailed \in [Parties -> Nat]
        /\ meal \in [Parties -> MealRow]
    BY DEF ReceiptInv, ReceiptTypes
  <1>2. /\ server[s].at = "stamp" /\ UNCHANGED <<meal, mailed>>
        /\ bill' = [bill EXCEPT ![w].stamped = TRUE]
        /\ billLock' = [u \in Parties |-> IF billLock[u] = s THEN NoGuest ELSE billLock[u]]
        /\ server' = [server EXCEPT ![s].at = "dispatch"]
    BY DEF StampReceipt
  <1>3. w \in Parties /\ bill[w].status # "none"
    BY <1>1, <1>2 DEF ReceiptInv, WorksOnABill, ServerRow
  <1>4. /\ bill' \in [Parties -> BillRow] /\ bill'[w].stamped
        /\ bill'[w].status = bill[w].status /\ bill'[w].guest = bill[w].guest
        /\ \A u \in Parties \ {w} : bill'[u] = bill[u]
    <2>1. bill[w] \in BillRow /\ bill'[w] = [bill[w] EXCEPT !.stamped = TRUE]
      BY <1>1, <1>2, <1>3
    <2>2. /\ bill'[w] \in BillRow /\ bill'[w].stamped
          /\ bill'[w].status = bill[w].status /\ bill'[w].guest = bill[w].guest
      BY <2>1 DEF BillRow
    <2> QED
      BY <1>1, <1>2, <1>3, <2>2
  <1>5. /\ server' \in [Servers -> ServerRow]
        /\ server'[s].at = "dispatch" /\ server'[s].bill = w
        /\ \A r \in Servers \ {s} : server'[r] = server[r]
    BY <1>1, <1>2 DEF ServerRow
  <1>6. /\ billLock' \in [Parties -> Servers \cup {NoGuest}]
        /\ \A r \in Servers \ {s}, u \in Parties : billLock[u] = r => billLock'[u] = r
    BY <1>1, <1>2
  <1>7. \A r \in Servers \ {s} : server[r].bill # NoGuest => server[r].bill \in Parties
    BY <1>1 DEF ServerRow
  <1> HIDE DEF w
  <1>8. ReceiptTypes'
    BY <1>1, <1>2, <1>4, <1>5, <1>6 DEF ReceiptTypes
  <1>9. NothingYet'
    BY <1>2, <1>3, <1>4 DEF ReceiptInv, NothingYet
  <1>10. WorksOnABill'
    BY <1>3, <1>4, <1>5, <1>7 DEF ReceiptInv, WorksOnABill
  <1>11. WriterHolds'
    BY <1>4, <1>5, <1>6, <1>7 DEF ReceiptInv, WriterHolds, Writes, WorksOnABill
  <1>12. ClaimCommitted'
    BY <1>4, <1>5, <1>7 DEF ReceiptInv, ClaimCommitted, WorksOnABill
  <1> QED
    BY <1>8, <1>9, <1>10, <1>11, <1>12 DEF ReceiptInv

\* and what was claimed is sent.
LEMMA SendingIt ==
  ASSUME ReceiptInv, NEW s \in Servers, Dispatch(s)
  PROVE  ReceiptInv'
  <1> USE NoGuestAssumption
  <1> DEFINE w == server[s].bill
  <1>1. /\ server \in [Servers -> ServerRow] /\ mailed \in [Parties -> Nat]
    BY DEF ReceiptInv, ReceiptTypes
  <1>2. /\ server[s].at = "dispatch" /\ EndServing(s) /\ UNCHANGED <<seat, meal, bill>>
        /\ mailed' = [mailed EXCEPT ![w] = @ + 1]
    BY DEF Dispatch
  <1>3. w \in Parties /\ bill[w].stamped
    BY <1>1, <1>2 DEF ReceiptInv, WorksOnABill, ClaimCommitted, ServerRow
  <1>4. /\ mailed' \in [Parties -> Nat]
        /\ \A u \in Parties \ {w} : mailed'[u] = mailed[u]
    BY <1>1, <1>2, <1>3
  <1>5. /\ server' \in [Servers -> ServerRow] /\ billLock' \in [Parties -> Servers \cup {NoGuest}]
        /\ server'[s] = Free
        /\ \A r \in Servers \ {s} : server'[r] = server[r]
        /\ \A r \in Servers \ {s}, u \in Parties : billLock[u] = r => billLock'[u] = r
    BY <1>2, Ending DEF ReceiptInv
  <1>6. \A r \in Servers \ {s} : server[r].bill # NoGuest => server[r].bill \in Parties
    BY <1>1 DEF ServerRow
  <1> HIDE DEF w
  <1>7. ReceiptTypes'
    BY <1>2, <1>4, <1>5 DEF ReceiptInv, ReceiptTypes
  <1>8. NothingYet'
    BY <1>2, <1>3, <1>4 DEF ReceiptInv, NothingYet
  <1>9. WorksOnABill'
    BY <1>2, <1>5 DEF ReceiptInv, WorksOnABill, Free
  <1>10. WriterHolds'
    BY <1>2, <1>5, <1>6 DEF ReceiptInv, WriterHolds, Writes, WorksOnABill, Free
  <1>11. ClaimCommitted'
    BY <1>2, <1>5, <1>6 DEF ReceiptInv, ClaimCommitted, WorksOnABill, Free
  <1> QED
    BY <1>7, <1>8, <1>9, <1>10, <1>11 DEF ReceiptInv

-----------------------------------------------------------------------------

LEMMA StepReceipts == ReceiptInv /\ [RcNext]_rcVars => ReceiptInv'
  <1> SUFFICES ASSUME ReceiptInv, [RcNext]_rcVars PROVE ReceiptInv'
    OBVIOUS
  <1>1. CASE RcNext
    BY <1>1, TableSteps, SettleSteps, ReadingSteps, Attaching, Stamping, SendingIt DEF RcNext
  <1>2. CASE UNCHANGED rcVars
    BY <1>2, TableKept DEF rcVars, ReceiptInv, ReceiptTypes, NothingYet, BillsKept
  <1> QED
    BY <1>1, <1>2

LEMMA ReceiptsAlways == RcSpec => []ReceiptInv
  BY InitReceipts, StepReceipts, PTL DEF RcSpec

-----------------------------------------------------------------------------
(* What is mailed *)

\* The requests that will mail a bill's receipt once more, unless they die.
OnTheWay(s, v) ==
    /\ server[s].bill = v
    /\ server[s].at \in {"stamp", "dispatch"} \/ (server[s].at = "mail" /\ server[s].due)

Pending(v) == {s \in Servers : OnTheWay(s, v)}

\* When the claim is committed nobody joins them.
FewOnTheWay ==
    \A v \in Parties : bill[v].stamped =>
        mailed[v] + Cardinality(Pending(v)) <= Cardinality(Servers)

Dispatching(s, v) == server[s].bill = v /\ server[s].at = "dispatch"

\* A claim was kept, is about to be, or died with its request.
ClaimIsKept ==
    \A v \in Parties : bill[v].stamped /\ mailed[v] = 0 =>
        v \in forgone \/ \E s \in Servers : Dispatching(s, v)

MailInv == FewOnTheWay /\ ClaimIsKept /\ PairCompleted

LEMMA InitMail == RcInit => MailInv
  BY NoGuestAssumption DEF RcInit, MailInv, FewOnTheWay, ClaimIsKept, PairCompleted

\* A step that neither claims nor mails, and leaves nothing behind.
MailFrame ==
    /\ UNCHANGED mailed
    /\ forgone \subseteq forgone'
    /\ \A v \in Parties : bill'[v].stamped => bill[v].stamped
    /\ \A v \in Parties, s \in Servers : bill'[v].stamped /\ OnTheWay(s, v)' => OnTheWay(s, v)
    /\ \A v \in Parties, s \in Servers : Dispatching(s, v) => Dispatching(s, v)' \/ v \in forgone'
    /\ \A v \in Parties, s \in Servers :
           Sending(s, v) /\ bill'[v].status = "PAID" /\ bill'[v].guest # NoGuest =>
               Sending(s, v)' \/ v \in forgone' \/ bill[v].stamped
    /\ \A v \in Parties :
           bill'[v].status = "PAID" /\ bill'[v].guest # NoGuest =>
               \/ bill[v].status = "PAID" /\ bill[v].guest # NoGuest
               \/ v \in forgone' \/ \E s \in Servers : Sending(s, v)'

LEMMA PendingIsFinite ==
  \A v : IsFiniteSet(Pending(v)) /\ Cardinality(Pending(v)) \in Nat
  <1> TAKE v
  <1>1. Pending(v) \subseteq Servers
    BY DEF Pending
  <1>2. IsFiniteSet(Pending(v))
    BY <1>1, FS_Subset, ServersAssumption, Zenon
  <1> QED
    BY <1>2, FS_CardinalityType

LEMMA MailStays ==
  ASSUME ReceiptInv, ReceiptInv', MailInv, MailFrame
  PROVE  MailInv'
  <1>1. FewOnTheWay'
    <2> SUFFICES ASSUME NEW v \in Parties, bill'[v].stamped
                 PROVE  mailed'[v] + Cardinality(Pending(v)') <= Cardinality(Servers)
      BY DEF FewOnTheWay
    <2>1. /\ bill[v].stamped /\ mailed'[v] = mailed[v] /\ mailed[v] \in Nat
          /\ mailed[v] + Cardinality(Pending(v)) <= Cardinality(Servers)
      BY DEF MailInv, MailFrame, FewOnTheWay, ReceiptInv, ReceiptTypes
    <2>2. Pending(v)' \subseteq Pending(v)
      BY DEF MailFrame, Pending
    <2>3. /\ Cardinality(Pending(v)') <= Cardinality(Pending(v))
          /\ Cardinality(Pending(v)') \in Nat /\ Cardinality(Pending(v)) \in Nat
      BY <2>2, PendingIsFinite, FS_Subset, FS_CardinalityType
    <2>4. Cardinality(Servers) \in Nat
      BY ServersAssumption, FS_CardinalityType
    <2> QED
      BY <2>1, <2>3, <2>4
  <1>2. ClaimIsKept'
    BY DEF MailInv, MailFrame, ClaimIsKept
  <1>3. PairCompleted'
    <2> SUFFICES ASSUME NEW v \in Parties, bill'[v].status = "PAID", bill'[v].guest # NoGuest,
                        mailed'[v] = 0, v \notin forgone'
                 PROVE  \E s \in Servers : Sending(s, v)'
      BY DEF PairCompleted
    <2>1. CASE bill[v].stamped
      <3>1. PICK s \in Servers : Dispatching(s, v)
        BY <2>1 DEF MailInv, MailFrame, ClaimIsKept
      <3>2. Dispatching(s, v)'
        BY <3>1 DEF MailFrame
      <3>3. Sending(s, v)'
        BY <3>2 DEF Dispatching, Sending
      <3> QED
        BY <3>3
    <2>2. CASE ~bill[v].stamped
      <3>1. CASE bill[v].status = "PAID" /\ bill[v].guest # NoGuest
        <4>1. PICK s \in Servers : Sending(s, v)
          BY <3>1 DEF MailInv, MailFrame, PairCompleted
        <4>2. Sending(s, v)'
          BY <2>2, <4>1 DEF MailFrame
        <4> QED
          BY <4>2
      <3>2. CASE ~(bill[v].status = "PAID" /\ bill[v].guest # NoGuest)
        BY <3>2 DEF MailFrame
      <3> QED
        BY <3>1, <3>2
    <2> QED
      BY <2>1, <2>2
  <1> QED
    BY <1>1, <1>2, <1>3 DEF MailInv

\* The table's steps, and the readings and locks of a capture, send nothing.
LEMMA TableSendsNothing ==
  ASSUME ReceiptInv, NEW v \in Parties,
         Sit(v) \/ OrderMeal(v) \/ MakeBill(v) \/ PayElsewhere(v) \/ WriteOffMeal(v) \/ GraceEnds(v)
  PROVE  MailFrame
  <1>1. bill \in [Parties -> BillRow]
    BY DEF ReceiptInv, ReceiptTypes
  <1>2. UNCHANGED <<server, mailed>>
    BY DEF Sit, OrderMeal, MakeBill, PayElsewhere, WriteOffMeal, GraceEnds
  <1>3. /\ \A u \in Parties : bill'[u].stamped => bill[u].stamped
        /\ forgone \subseteq forgone'
        /\ \A u \in Parties : bill'[u].status = "PAID" /\ bill'[u].guest # NoGuest =>
               (bill[u].status = "PAID" /\ bill[u].guest # NoGuest) \/ u \in forgone'
    <2>1. CASE Sit(v) \/ OrderMeal(v) \/ GraceEnds(v)
      BY <2>1 DEF Sit, OrderMeal, GraceEnds
    <2>2. CASE MakeBill(v)
      BY <1>1, <2>2 DEF MakeBill
    <2>3. CASE PayElsewhere(v)
      <3>1. /\ \A u \in Parties \ {v} : bill'[u] = bill[u]
            /\ bill'[v].guest = bill[v].guest /\ bill'[v].stamped = bill[v].stamped
        BY <1>1, <2>3 DEF PayElsewhere, BillRow
      <3> QED
        BY <2>3, <3>1 DEF PayElsewhere
    <2>4. CASE WriteOffMeal(v)
      <3>1. /\ \A u \in Parties \ {v} : bill'[u] = bill[u]
            /\ bill'[v].guest = bill[v].guest /\ bill'[v].stamped = bill[v].stamped
            /\ bill'[v].status = "PAID" => bill[v].status = "PAID"
        BY <1>1, <2>4 DEF WriteOffMeal, BillRow
      <3> QED
        BY <2>4, <3>1 DEF WriteOffMeal
    <2> QED
      BY <2>1, <2>2, <2>3, <2>4
  <1> QED
    BY <1>2, <1>3 DEF MailFrame, OnTheWay, Dispatching, Sending

\* One request moves; the bills stay, but for an address.
LEMMA OneMoves ==
  ASSUME NEW s \in Servers, UNCHANGED mailed, forgone \subseteq forgone',
         \A r \in Servers \ {s} : server'[r] = server[r],
         \A v \in Parties : bill'[v].stamped => bill[v].stamped,
         \A v \in Parties : bill'[v].stamped /\ OnTheWay(s, v)' => OnTheWay(s, v),
         \A v \in Parties : Dispatching(s, v) => Dispatching(s, v)' \/ v \in forgone',
         \A v \in Parties :
             Sending(s, v) /\ bill'[v].status = "PAID" /\ bill'[v].guest # NoGuest =>
                 Sending(s, v)' \/ v \in forgone' \/ bill[v].stamped,
         \A v \in Parties :
             bill'[v].status = "PAID" /\ bill'[v].guest # NoGuest =>
                 \/ bill[v].status = "PAID" /\ bill[v].guest # NoGuest
                 \/ v \in forgone' \/ Sending(s, v)'
  PROVE  MailFrame
  <1>1. ASSUME NEW v \in Parties, NEW r \in Servers
        PROVE  /\ bill'[v].stamped /\ OnTheWay(r, v)' => OnTheWay(r, v)
               /\ Dispatching(r, v) => Dispatching(r, v)' \/ v \in forgone'
               /\ Sending(r, v) /\ bill'[v].status = "PAID" /\ bill'[v].guest # NoGuest =>
                      Sending(r, v)' \/ v \in forgone' \/ bill[v].stamped
    <2>1. CASE r = s
      BY <2>1
    <2>2. CASE r # s
      BY <2>2 DEF OnTheWay, Dispatching, Sending
    <2> QED
      BY <2>1, <2>2
  <1> QED
    BY <1>1 DEF MailFrame

LEMMA RequestsSendNothing ==
  ASSUME ReceiptInv, NEW s \in Servers,
         \/ \E v \in Parties : PayAtCounter(s, v) \/ QuickBillAndClose(s, v) \/ Submit(s, v)
         \/ FindBill(s) \/ LockBill(s) \/ BillWasVoided(s) \/ RefuseSecondPayer(s) \/ Attach(s)
         \/ Reload(s) \/ LockReceipt(s) \/ ServerDies(s)
  PROVE  MailFrame
  <1> USE NoGuestAssumption
  <1>1. bill \in [Parties -> BillRow] /\ server \in [Servers -> ServerRow]
    BY DEF ReceiptInv, ReceiptTypes
  <1>2. CASE \E v \in Parties : PayAtCounter(s, v) \/ QuickBillAndClose(s, v)
    <2>1. PICK v \in Parties : PayAtCounter(s, v) \/ QuickBillAndClose(s, v)
      BY <1>2
    <2>2. /\ server[s] = Free /\ UNCHANGED <<mailed, forgone>>
          /\ \A u \in Parties \ {v} : bill'[u] = bill[u]
          /\ bill'[v].stamped => bill[v].stamped
      <3>1. CASE PayAtCounter(s, v)
        BY <1>1, <3>1 DEF PayAtCounter, BillRow
      <3>2. CASE QuickBillAndClose(s, v)
        BY <1>1, <3>2 DEF QuickBillAndClose
      <3> QED
        BY <2>1, <3>1, <3>2
    <2>3. /\ server'[s].at = "reload" /\ server'[s].bill = v
          /\ \A r \in Servers \ {s} : server'[r] = server[r]
      BY <1>1, <2>1 DEF PayAtCounter, QuickBillAndClose, Free
    <2>4. Sending(s, v)'
      BY <2>3 DEF Sending
    <2>5. \A u \in Parties : ~OnTheWay(s, u)' /\ ~Dispatching(s, u) /\ ~Sending(s, u)
      BY <2>2, <2>3 DEF OnTheWay, Dispatching, Sending, Free
    <2> QED
      BY <2>2, <2>3, <2>4, <2>5, OneMoves
  <1>3. CASE \/ \E v \in Parties : Submit(s, v)
             \/ FindBill(s) \/ LockBill(s) \/ BillWasVoided(s) \/ RefuseSecondPayer(s)
    <2>1. server[s] = Free \/ server[s].at \in {"bill", "lock"}
      BY <1>3 DEF Submit, FindBill, LockBill, BillWasVoided, RefuseSecondPayer
    <2>2. /\ UNCHANGED <<bill, mailed, forgone>>
      BY <1>3 DEF Submit, FindBill, LockBill, BillWasVoided, RefuseSecondPayer
    <2>3. /\ \A r \in Servers \ {s} : server'[r] = server[r]
          /\ server'[s] = Free \/ server'[s].at \in {"bill", "lock", "order"}
      <3>1. CASE \E v \in Parties : Submit(s, v)
        BY <1>1, <3>1 DEF Submit
      <3>2. CASE FindBill(s)
        <4>1. \/ server' = [server EXCEPT ![s].at = "order"]
              \/ \E w \in Parties : server' = [server EXCEPT ![s].at = "lock", ![s].bill = w]
          BY <3>2 DEF FindBill, BillsFor
        <4> QED
          BY <1>1, <4>1 DEF ServerRow
      <3>3. CASE LockBill(s)
        BY <1>1, <3>3 DEF LockBill, ServerRow
      <3>4. CASE BillWasVoided(s)
        BY <1>1, <3>4 DEF BillWasVoided, ServerRow
      <3>5. CASE RefuseSecondPayer(s)
        BY <1>1, <3>5 DEF RefuseSecondPayer, EndServing
      <3> QED
        BY <1>3, <3>1, <3>2, <3>3, <3>4, <3>5
    <2>4. \A u \in Parties : ~OnTheWay(s, u)' /\ ~Dispatching(s, u) /\ ~Sending(s, u)
      BY <2>1, <2>3 DEF OnTheWay, Dispatching, Sending, Free
    <2> QED
      BY <2>2, <2>3, <2>4, OneMoves
  <1>4. CASE Attach(s)
    <2> DEFINE w == server[s].bill
    <2>1. /\ server[s].at = "order" /\ UNCHANGED <<mailed, forgone>>
          /\ \A u \in Parties : /\ bill'[u].status = bill[u].status
                                /\ bill'[u].stamped = bill[u].stamped
                                /\ u # w => bill'[u] = bill[u]
      BY <1>1, <1>4 DEF Attach, BillRow
    <2>2. /\ \A r \in Servers \ {s} : server'[r] = server[r]
          /\ server'[s] = Free \/ server'[s].at = "reload"
          /\ w # NoGuest => server'[s].at = "reload" /\ server'[s].bill = w
      <3>1. CASE w = NoGuest
        BY <1>1, <1>4, <3>1 DEF Attach, EndServing
      <3>2. CASE w # NoGuest
        <4>1. server' = [server EXCEPT ![s].at = "reload"]
          BY <1>4, <3>2 DEF Attach
        <4> QED
          BY <1>1, <4>1 DEF ServerRow
      <3> QED
        BY <3>1, <3>2
    <2>3. \A u \in Parties : ~OnTheWay(s, u)' /\ ~Dispatching(s, u) /\ ~Sending(s, u)
      BY <2>1, <2>2 DEF OnTheWay, Dispatching, Sending, Free
    <2>4. \A u \in Parties : bill'[u].status = "PAID" /\ bill'[u].guest # NoGuest =>
              (bill[u].status = "PAID" /\ bill[u].guest # NoGuest) \/ Sending(s, u)'
      BY <2>1, <2>2 DEF Sending
    <2> HIDE DEF w
    <2> QED
      BY <2>1, <2>2, <2>3, <2>4, OneMoves
  <1>5. CASE Reload(s)
    <2> DEFINE w == server[s].bill
    <2>1. /\ server[s].at = "reload" /\ UNCHANGED <<bill, mailed, forgone>>
          /\ \A r \in Servers \ {s} : server'[r] = server[r]
          /\ w \in Parties
      BY <1>1, <1>5 DEF Reload, ReceiptInv, WorksOnABill, ServerRow
    <2>2. \/ server'[s] = Free /\ bill[w].status # "PAID"
          \/ /\ server'[s].at = "mail" /\ server'[s].bill = w
             /\ server'[s].due <=> bill[w].guest # NoGuest /\ ~bill[w].stamped
      BY <1>1, <1>5 DEF Reload, ServerRow
    <2>3. \A u \in Parties : OnTheWay(s, u)' => ~bill[u].stamped
      BY <2>2 DEF OnTheWay, Free
    <2>4. \A u \in Parties : ~Dispatching(s, u)
      BY <2>1 DEF Dispatching
    <2>5. \A u \in Parties :
              Sending(s, u) /\ bill[u].status = "PAID" /\ bill[u].guest # NoGuest =>
                  Sending(s, u)' \/ bill[u].stamped
      BY <2>1, <2>2 DEF Sending
    <2> HIDE DEF w
    <2> QED
      BY <2>1, <2>3, <2>4, <2>5, OneMoves
  <1>6. CASE LockReceipt(s)
    <2> DEFINE w == server[s].bill
    <2>1. /\ server[s].at = "mail" /\ UNCHANGED <<bill, mailed, forgone>>
          /\ \A r \in Servers \ {s} : server'[r] = server[r]
      BY <1>6 DEF LockReceipt
    <2>2. IF server[s].due THEN server'[s].at = "stamp" /\ server'[s].bill = w ELSE server'[s] = Free
      BY <1>1, <1>6 DEF LockReceipt, ServerRow
    <2>3. \A u \in Parties : /\ OnTheWay(s, u)' => OnTheWay(s, u)
                             /\ ~Dispatching(s, u)
                             /\ Sending(s, u) => Sending(s, u)'
      BY <2>1, <2>2 DEF OnTheWay, Dispatching, Sending, Free
    <2> HIDE DEF w
    <2> QED
      BY <2>1, <2>3, OneMoves
  <1>7. CASE ServerDies(s)
    <2>1. /\ UNCHANGED <<bill, mailed>> /\ server'[s] = Free
          /\ \A r \in Servers \ {s} : server'[r] = server[r]
      BY <1>1, <1>7 DEF ServerDies, EndServing
    <2>2. /\ forgone \subseteq forgone'
          /\ \A u \in Parties : Sending(s, u) => u \in forgone'
      BY <1>7 DEF ServerDies, Sending
    <2>3. \A u \in Parties : ~OnTheWay(s, u)' /\ (Dispatching(s, u) => Sending(s, u))
      BY <2>1 DEF OnTheWay, Dispatching, Sending, Free
    <2> QED
      BY <2>1, <2>2, <2>3, OneMoves
  <1> QED
    BY <1>2, <1>3, <1>4, <1>5, <1>6, <1>7

\* These requests are as far from mailing as before.
CarryOn(those) ==
    \A v \in Parties, s \in those :
        /\ OnTheWay(s, v)' <=> OnTheWay(s, v)
        /\ Dispatching(s, v) => Dispatching(s, v)'
        /\ Sending(s, v) => Sending(s, v)'

\* The claim: nobody has mailed yet and nobody joins, or it was there before.
LEMMA ClaimingKeeps ==
  ASSUME ReceiptInv, ReceiptInv', MailInv, NEW s \in Servers, StampReceipt(s)
  PROVE  MailInv'
  <1>0. PICK w \in Parties : w = server[s].bill
    BY DEF StampReceipt, ReceiptInv, ReceiptTypes, WorksOnABill, ServerRow
  <1>1. /\ bill \in [Parties -> BillRow] /\ server \in [Servers -> ServerRow]
        /\ mailed \in [Parties -> Nat] /\ server[s].at = "stamp"
        /\ UNCHANGED <<mailed, forgone>>
    BY DEF StampReceipt, ReceiptInv, ReceiptTypes
  <1>2. /\ bill'[w].stamped /\ \A u \in Parties \ {w} : bill'[u] = bill[u]
        /\ \A u \in Parties : bill'[u].status = bill[u].status /\ bill'[u].guest = bill[u].guest
    BY <1>0, <1>1 DEF StampReceipt, BillRow
  <1>3. /\ server'[s].at = "dispatch" /\ server'[s].bill = w
        /\ \A r \in Servers \ {s} : server'[r] = server[r]
    BY <1>0, <1>1 DEF StampReceipt, ServerRow
  <1>4. CarryOn(Servers)
    BY <1>0, <1>1, <1>3 DEF CarryOn, OnTheWay, Dispatching, Sending
  <1>5. Dispatching(s, w)'
    BY <1>3 DEF Dispatching
  <1>6. FewOnTheWay'
    <2> SUFFICES ASSUME NEW u \in Parties, bill'[u].stamped
                 PROVE  mailed'[u] + Cardinality(Pending(u)') <= Cardinality(Servers)
      BY DEF FewOnTheWay
    <2>1. Pending(u)' = Pending(u)
      BY <1>4 DEF CarryOn, Pending
    <2>2. CASE bill[u].stamped
      BY <1>1, <2>1, <2>2 DEF MailInv, FewOnTheWay
    <2>3. CASE ~bill[u].stamped
      <3>1. mailed'[u] = 0
        BY <1>1, <2>3 DEF ReceiptInv, NothingYet
      <3>2. Cardinality(Pending(u)) <= Cardinality(Servers) /\ Cardinality(Pending(u)) \in Nat
        <4>1. Pending(u) \subseteq Servers
          BY DEF Pending
        <4> QED
          BY <4>1, FS_Subset, PendingIsFinite, ServersAssumption
      <3> QED
        BY <2>1, <3>1, <3>2
    <2> QED
      BY <2>2, <2>3
  <1>7. ClaimIsKept'
    <2> SUFFICES ASSUME NEW u \in Parties, bill'[u].stamped, mailed'[u] = 0, u \notin forgone'
                 PROVE  \E r \in Servers : Dispatching(r, u)'
      BY DEF ClaimIsKept
    <2>1. CASE u = w
      BY <1>5, <2>1
    <2>2. CASE u # w
      <3>1. PICK r \in Servers : Dispatching(r, u)
        BY <1>1, <1>2, <2>2 DEF MailInv, ClaimIsKept
      <3>2. Dispatching(r, u)'
        BY <1>4, <3>1 DEF CarryOn
      <3> QED
        BY <3>2
    <2> QED
      BY <2>1, <2>2
  <1>8. PairCompleted'
    <2> SUFFICES ASSUME NEW u \in Parties, bill'[u].status = "PAID", bill'[u].guest # NoGuest,
                        mailed'[u] = 0, u \notin forgone'
                 PROVE  \E r \in Servers : Sending(r, u)'
      BY DEF PairCompleted
    <2>1. PICK r \in Servers : Sending(r, u)
      BY <1>1, <1>2 DEF MailInv, PairCompleted
    <2>2. Sending(r, u)'
      BY <1>4, <2>1 DEF CarryOn
    <2> QED
      BY <2>2
  <1> QED
    BY <1>6, <1>7, <1>8 DEF MailInv

\* A message more, and one request less that will send one.
LEMMA SendingKeeps ==
  ASSUME ReceiptInv, ReceiptInv', MailInv, NEW s \in Servers, Dispatch(s)
  PROVE  MailInv'
  <1>0. PICK w \in Parties : w = server[s].bill
    BY DEF Dispatch, ReceiptInv, ReceiptTypes, WorksOnABill, ServerRow
  <1>1. /\ server \in [Servers -> ServerRow] /\ mailed \in [Parties -> Nat]
        /\ server[s].at = "dispatch" /\ UNCHANGED <<bill, forgone>>
    BY DEF Dispatch, ReceiptInv, ReceiptTypes
  <1>2. /\ mailed'[w] = mailed[w] + 1 /\ \A u \in Parties \ {w} : mailed'[u] = mailed[u]
        /\ server'[s] = Free /\ \A r \in Servers \ {s} : server'[r] = server[r]
    BY <1>0, <1>1 DEF Dispatch, EndServing
  <1>3. /\ OnTheWay(s, w) /\ \A u \in Parties : ~OnTheWay(s, u)'
        /\ \A u \in Parties : Sending(s, u) \/ Dispatching(s, u) => u = w
    BY <1>0, <1>1, <1>2, NoGuestAssumption DEF OnTheWay, Sending, Dispatching, Free
  <1>4. CarryOn(Servers \ {s})
    BY <1>2 DEF CarryOn, OnTheWay, Dispatching, Sending
  <1>5. FewOnTheWay'
    <2> SUFFICES ASSUME NEW u \in Parties, bill[u].stamped
                 PROVE  mailed'[u] + Cardinality(Pending(u)') <= Cardinality(Servers)
      BY <1>1 DEF FewOnTheWay
    <2>1. /\ mailed[u] \in Nat /\ Cardinality(Pending(u)) \in Nat /\ Cardinality(Servers) \in Nat
          /\ IsFiniteSet(Pending(u)) /\ mailed[u] + Cardinality(Pending(u)) <= Cardinality(Servers)
      BY <1>1, PendingIsFinite, ServersAssumption, FS_CardinalityType DEF MailInv, FewOnTheWay
    <2>2. Pending(u)' = Pending(u) \ {s}
      BY <1>3, <1>4 DEF CarryOn, Pending
    <2>3. CASE u = w
      <3>1. s \in Pending(u)
        BY <1>3, <2>3 DEF Pending
      <3>2. Cardinality(Pending(u)') = Cardinality(Pending(u)) - 1
        BY <2>1, <2>2, <3>1, FS_RemoveElement
      <3> QED
        BY <1>2, <2>1, <2>3, <3>2
    <2>4. CASE u # w
      <3>1. Cardinality(Pending(u)') <= Cardinality(Pending(u)) /\ Cardinality(Pending(u)') \in Nat
        BY <2>1, <2>2, FS_Subset, FS_CardinalityType
      <3> QED
        BY <1>2, <2>1, <2>4, <3>1
    <2> QED
      BY <2>3, <2>4
  <1>6. ClaimIsKept'
    <2> SUFFICES ASSUME NEW u \in Parties, bill[u].stamped, mailed'[u] = 0, u \notin forgone
                 PROVE  \E r \in Servers : Dispatching(r, u)'
      BY <1>1 DEF ClaimIsKept
    <2>1. u # w /\ mailed[u] = 0
      BY <1>1, <1>2
    <2>2. PICK r \in Servers : Dispatching(r, u)
      BY <2>1 DEF MailInv, ClaimIsKept
    <2>3. Dispatching(r, u)'
      BY <1>3, <1>4, <2>1, <2>2 DEF CarryOn
    <2> QED
      BY <2>3
  <1>7. PairCompleted'
    <2> SUFFICES ASSUME NEW u \in Parties, bill[u].status = "PAID", bill[u].guest # NoGuest,
                        mailed'[u] = 0, u \notin forgone
                 PROVE  \E r \in Servers : Sending(r, u)'
      BY <1>1 DEF PairCompleted
    <2>1. u # w /\ mailed[u] = 0
      BY <1>1, <1>2
    <2>2. PICK r \in Servers : Sending(r, u)
      BY <2>1 DEF MailInv, PairCompleted
    <2>3. Sending(r, u)'
      BY <1>3, <1>4, <2>1, <2>2 DEF CarryOn
    <2> QED
      BY <2>3
  <1> QED
    BY <1>5, <1>6, <1>7 DEF MailInv

LEMMA StepMail == ReceiptInv /\ MailInv /\ [RcNext]_rcVars => MailInv'
  <1> SUFFICES ASSUME ReceiptInv, MailInv, [RcNext]_rcVars PROVE MailInv'
    OBVIOUS
  <1>1. ReceiptInv'
    BY StepReceipts
  <1>2. CASE UNCHANGED rcVars
    BY <1>2 DEF rcVars, MailInv, FewOnTheWay, ClaimIsKept, PairCompleted, Pending, OnTheWay,
                Dispatching, Sending
  <1>3. ASSUME NEW s \in Servers, StampReceipt(s) \/ Dispatch(s) PROVE MailInv'
    BY <1>1, <1>3, ClaimingKeeps, SendingKeeps
  <1>4. CASE MailFrame
    BY <1>1, <1>4, MailStays
  <1>5. CASE RcNext
    BY <1>3, <1>4, <1>5, TableSendsNothing, RequestsSendNothing DEF RcNext
  <1> QED
    BY <1>2, <1>5

LEMMA MailAlways == RcSpec => []MailInv
  BY InitMail, ReceiptsAlways, StepMail, PTL DEF RcSpec

(***************************************************************************)
(* Only requests that overlap with the first claim mail a receipt again:   *)
(* however many captures and payments there are, a bill's receipt goes out *)
(* no more often than requests are served at once.                         *)
(***************************************************************************)
THEOREM ReceiptsRepeatOnlyInOverlap == RcSpec => []RepeatsOverlap
  <1>1. ReceiptInv /\ MailInv => RepeatsOverlap
    <2> SUFFICES ASSUME ReceiptInv, MailInv, NEW v \in Parties
                 PROVE  mailed[v] <= Cardinality(Servers)
      BY DEF RepeatsOverlap
    <2>1. mailed[v] \in Nat /\ Cardinality(Servers) \in Nat /\ Cardinality(Pending(v)) \in Nat
      BY ServersAssumption, FS_CardinalityType, PendingIsFinite DEF ReceiptInv, ReceiptTypes
    <2>2. CASE bill[v].stamped
      BY <2>1, <2>2 DEF MailInv, FewOnTheWay
    <2>3. CASE ~bill[v].stamped
      BY <2>1, <2>3 DEF ReceiptInv, NothingYet
    <2> QED
      BY <2>2, <2>3
  <1> QED
    BY <1>1, ReceiptsAlways, MailAlways, PTL

(***************************************************************************)
(* A paid bill with an address on it has its receipt mailed or a request   *)
(* on its way to mail it, whichever of payment and capture was first,      *)
(* unless a crash or a payment that mails nothing has dropped it.          *)
(***************************************************************************)
THEOREM WhoCompletesThePairMails == RcSpec => []PairCompleted
  <1>1. MailInv => PairCompleted
    BY DEF MailInv
  <1> QED
    BY <1>1, MailAlways, PTL

LEMMA PayersKept ==
  ASSUME ReceiptInv, [RcNext]_rcVars, NEW v \in Parties, bill[v].guest # NoGuest
  PROVE  bill'[v].guest = bill[v].guest
  <1>1. bill \in [Parties -> BillRow] /\ bill[v].status # "none"
    BY DEF ReceiptInv, ReceiptTypes, NothingYet
  <1>2. ASSUME NEW w \in Parties, MakeBill(w) PROVE bill'[v].guest = bill[v].guest
    BY <1>1, <1>2 DEF MakeBill
  <1>3. ASSUME NEW w \in Parties, PayElsewhere(w) \/ WriteOffMeal(w)
        PROVE  bill'[v].guest = bill[v].guest
    BY <1>1, <1>3 DEF PayElsewhere, WriteOffMeal, BillRow
  <1>4. ASSUME NEW s \in Servers, NEW w \in Parties, PayAtCounter(s, w)
        PROVE  bill'[v].guest = bill[v].guest
    BY <1>1, <1>4 DEF PayAtCounter, BillRow
  <1>5. ASSUME NEW s \in Servers, NEW w \in Parties, QuickBillAndClose(s, w)
        PROVE  bill'[v].guest = bill[v].guest
    BY <1>1, <1>5 DEF QuickBillAndClose
  <1>6. ASSUME NEW s \in Servers, StampReceipt(s) PROVE bill'[v].guest = bill[v].guest
    BY <1>1, <1>6 DEF StampReceipt, BillRow
  <1>7. ASSUME NEW s \in Servers, Attach(s) PROVE bill'[v].guest = bill[v].guest
    BY <1>7, Attaching
  <1>8. CASE UNCHANGED bill
    BY <1>8
  <1> QED
    BY <1>2, <1>3, <1>4, <1>5, <1>6, <1>7, <1>8
       DEF RcNext, rcVars, Sit, OrderMeal, GraceEnds, Submit, FindBill, LockBill, BillWasVoided,
           RefuseSecondPayer, Reload, LockReceipt, Dispatch, ServerDies

(***************************************************************************)
(* The address on an invoice is never replaced, whoever submits another    *)
(* one meanwhile.                                                          *)
(***************************************************************************)
THEOREM PayersStay == RcSpec => PayerStays
  <1>1. ReceiptInv /\ [RcNext]_rcVars =>
            [\A v \in Parties : bill[v].guest # NoGuest => bill'[v].guest = bill[v].guest]_rcVars
    BY PayersKept
  <1> QED
    BY ReceiptsAlways, <1>1, PTL DEF RcSpec, PayerStays

=============================================================================
