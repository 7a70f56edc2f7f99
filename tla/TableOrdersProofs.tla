------------------------- MODULE TableOrdersProofs --------------------------
(***************************************************************************)
(* Theorems about TableOrders for any numbers of orders, items, sessions   *)
(* and requests.                                                           *)
(*                                                                         *)
(* OneLiveOrder is not inductive: the step that opens an order relies on a *)
(* read made earlier.  IInv adds what makes the read still true when it is *)
(* used - only the holder of the table row opens an order or a session,    *)
(* there is one holder, and the others only take rows out of being live.   *)
(***************************************************************************)
EXTENDS TableOrders, TLAPS

-----------------------------------------------------------------------------
(* Types *)

\* The rows TypeOK speaks of.
OrderRow == [status : {"none", "OPEN", "MEAL_FINISHED", "CLOSED"}, bill : BOOLEAN,
             session : Sessions \cup {Null}]

ItemRow == [status : {"none", "PENDING_APPROVAL", "CANCELLED"} \cup Accepted,
            order : Orders \cup {Null}, tickets : Nat]

ReqRow == [pc : {"idle", "scanning", "creating", "expiring",
                 "place", "placing", "bill", "billing"},
           session : Sessions \cup {Null}, order : Orders \cup {Null}]

SessionStatus == {"none", "ACTIVE", "EXPIRED", "INVALIDATED"}

Typed ==
    /\ order \in [Orders -> OrderRow]
    /\ item \in [Items -> ItemRow]
    /\ session \in [Sessions -> SessionStatus]
    /\ lapsed \subseteq Sessions
    /\ gate \in BOOLEAN
    /\ tableActive \in BOOLEAN
    /\ reprinted \subseteq Items
    /\ req \in [Requests -> ReqRow]

LEMMA Rows == (TypeOK <=> Typed) /\ (TypeOK' <=> Typed')
  BY DEF TypeOK, Typed, OrderRow, ItemRow, ReqRow, SessionStatus

LEMMA InitTypes == Init => TypeOK
  BY DEF Init, TypeOK, Idle

\* A request that is answered is idle again.
LEMMA AnswerTypes ==
    ASSUME TypeOK, NEW r \in Requests, Answer(r) PROVE req' \in [Requests -> ReqRow]
  <1>1. Idle \in ReqRow
    BY DEF Idle, ReqRow
  <1> QED
    BY <1>1, Rows DEF Typed, Answer

\* One that goes on is at another step, with an order or none.
LEMMA GoOnTypes ==
    ASSUME TypeOK, NEW r \in Requests, NEW o \in Orders \cup {Null},
           NEW p \in {"scanning", "creating", "placing", "billing"}, GoOn(r, p, o)
    PROVE  req' \in [Requests -> ReqRow]
  <1>1. req[r] \in ReqRow
    BY Rows DEF Typed
  <1>2. [pc |-> p, session |-> req[r].session, order |-> o] \in ReqRow
    BY <1>1 DEF ReqRow
  <1> QED
    BY <1>2, Rows DEF Typed, GoOn

\* A change of the status of some items.
LEMMA SetStatusTypes ==
    ASSUME TypeOK, NEW set, NEW s \in {"CANCELLED"} \cup Accepted, SetStatus(set, s)
    PROVE  item' \in [Items -> ItemRow]
  <1>1. ASSUME NEW i \in Items PROVE [item[i] EXCEPT !.status = s] \in ItemRow
    <2>1. item[i] \in ItemRow
      BY Rows DEF Typed
    <2> QED
      BY <2>1 DEF ItemRow
  <1>2. \A i \in Items : item[i] \in ItemRow
    BY Rows DEF Typed
  <1> QED
    BY <1>1, <1>2 DEF SetStatus

LEMMA GuestTypes == ASSUME TypeOK, NEW r \in Requests, Guest(r) PROVE TypeOK'
  <1> USE Rows
  <1>1. CASE ScanTable(r)
    BY <1>1, GoOnTypes DEF Typed, ScanTable
  <1>2. CASE FindSession(r)
    BY <1>2, AnswerTypes, GoOnTypes DEF Typed, FindSession
  <1>3. CASE CreateSession(r)
    BY <1>3, AnswerTypes DEF Typed, SessionStatus, CreateSession
  <1>4. ASSUME NEW s \in Sessions, NEW pc \in {"place", "bill"}, Admit(r, s, pc)
        PROVE TypeOK'
    <2>1. [pc |-> pc, session |-> s, order |-> Null] \in ReqRow
      BY DEF ReqRow
    <2> QED
      BY <1>4, <2>1 DEF Typed, Admit
  <1>5. ASSUME NEW s \in Sessions, FindExpired(r, s) PROVE TypeOK'
    <2>1. [pc |-> "expiring", session |-> s, order |-> Null] \in ReqRow
      BY DEF ReqRow
    <2> QED
      BY <1>5, <2>1 DEF Typed, FindExpired
  <1>6. CASE MarkExpired(r)
    BY <1>6, AnswerTypes DEF Typed, SessionStatus, MarkExpired
  <1>7. CASE LockTable(r)
    BY <1>7, GoOnTypes DEF Typed, LockTable, LiveOrders
  <1>8. CASE RefusePlace(r)
    BY <1>8, AnswerTypes DEF Typed, RefusePlace
  <1>9. ASSUME NEW batch \in SUBSET Items, CommitPlace(r, batch) PROVE TypeOK'
    <2>1. ASSUME NEW o \in Orders, InsertItems(batch, o)
          PROVE  item' \in [Items -> ItemRow]
      <3>1. NewItem(o) \in ItemRow
        BY DEF NewItem, ItemRow, Accepted
      <3> QED
        BY <2>1, <3>1 DEF Typed, InsertItems
    <2>2. req[r] \in ReqRow
      BY DEF Typed
    <2>3. CASE req[r].order # Null /\ InsertItems(batch, req[r].order) /\ UNCHANGED order
      <3>1. req[r].order \in Orders
        BY <2>2, <2>3 DEF ReqRow
      <3> QED
        BY <1>9, <2>1, <2>3, <3>1, AnswerTypes DEF Typed, CommitPlace
    <2>4. ASSUME NEW o \in Orders, InsertItems(batch, o),
                 order' = [order EXCEPT ![o] =
                     [status |-> "OPEN", bill |-> FALSE, session |-> req[r].session]]
          PROVE  TypeOK'
      <3>1. [status |-> "OPEN", bill |-> FALSE, session |-> req[r].session] \in OrderRow
        BY <2>2 DEF ReqRow, OrderRow
      <3> QED
        BY <1>9, <2>1, <2>4, <3>1, AnswerTypes DEF Typed, CommitPlace
    <2> QED
      BY <1>9, <2>3, <2>4 DEF CommitPlace
  <1>10. CASE ReadForBill(r)
    BY <1>10, AnswerTypes, GoOnTypes DEF Typed, ReadForBill, LiveOrders
  <1>11. CASE StampBill(r)
    BY <1>11, AnswerTypes DEF Typed, OrderRow, StampBill
  <1>12. CASE Abort(r)
    BY <1>12, AnswerTypes DEF Typed, Abort
  <1> QED
    BY <1>1, <1>2, <1>3, <1>4, <1>5, <1>6, <1>7, <1>8, <1>9, <1>10, <1>11, <1>12
       DEF Guest

LEMMA StaffTypes == ASSUME TypeOK, NEW o \in Orders, Staff(o) PROVE TypeOK'
  <1> USE Rows
  <1>1. CASE StaffStartBilling(o)
    BY <1>1 DEF Typed, OrderRow, StaffStartBilling
  <1>2. CASE ApprovePendingItems(o)
    <2>1. ASSUME NEW i \in Items
          PROVE  [item[i] EXCEPT !.status = "NEW", !.tickets = item[i].tickets + 1] \in ItemRow
      <3>1. item[i] \in ItemRow
        BY DEF Typed
      <3>2. "NEW" \in Accepted /\ item[i].tickets + 1 \in Nat
        BY <3>1 DEF Accepted, ItemRow
      <3> QED
        BY <3>1, <3>2 DEF ItemRow
    <2> QED
      BY <1>2, <2>1 DEF Typed, ApprovePendingItems
  <1>3. CASE RejectPendingItems(o)
    BY <1>3, SetStatusTypes DEF Typed, RejectPendingItems
  <1>4. CASE RequestKotPrint(o)
    BY <1>4 DEF Typed, RequestKotPrint, Billable, ItemsOf
  <1>5. CASE FinishMeal(o)
    BY <1>5 DEF Typed, OrderRow, FinishMeal
  <1>6. CASE Reopen(o)
    BY <1>6 DEF Typed, OrderRow, Reopen
  <1>7. CASE CloseOrderAndResetTable(o)
    <2>1. order' \in [Orders -> OrderRow]
      BY <1>7 DEF Typed, OrderRow, CloseOrderAndResetTable
    <2>2. session' \in [Sessions -> SessionStatus]
      BY <1>7 DEF Typed, SessionStatus, CloseOrderAndResetTable
    <2> QED
      BY <1>7, <2>1, <2>2 DEF Typed, CloseOrderAndResetTable
  <1> QED
    BY <1>1, <1>2, <1>3, <1>4, <1>5, <1>6, <1>7 DEF Staff, CloseUnpaid, Settle, QuickBill

LEMMA NextTypes == TypeOK /\ [Next]_vars => TypeOK'
  <1> USE Rows
  <1> SUFFICES ASSUME TypeOK, [Next]_vars PROVE TypeOK'
    OBVIOUS
  <1>1. ASSUME NEW i \in Items, NEW s \in {"PREPARING", "READY", "SERVED", "CANCELLED"},
               TransitionItem(i, s)
        PROVE  TypeOK'
    BY <1>1, SetStatusTypes DEF Typed, TransitionItem, Accepted
  <1>2. ASSUME NEW s \in Sessions, InvalidateSession(s) \/ Lapse(s) PROVE TypeOK'
    BY <1>2 DEF Typed, SessionStatus, InvalidateSession, Lapse
  <1>3. CASE ToggleApproval \/ ToggleTable
    BY <1>3 DEF Typed, ToggleApproval, ToggleTable
  <1>4. CASE UNCHANGED vars
    BY <1>4 DEF Typed, vars
  <1> QED
    BY <1>1, <1>2, <1>3, <1>4, GuestTypes, StaffTypes DEF Next

\* Every row keeps its schema's types.
THEOREM TableTypes == Spec => []TypeOK
  BY InitTypes, NextTypes, PTL DEF Spec

-----------------------------------------------------------------------------
(* One holder of the table row, and what it has read is still so *)

Holds(r) == req[r].pc \in {"placing", "creating"}

OneHolder == \A r, q \in Requests : Holds(r) /\ Holds(q) => r = q

\* The append holds the row of an active table; if it read no live order, there
\* still is none.
PlacingReads ==
    \A r \in Requests : req[r].pc = "placing" =>
        tableActive /\ (req[r].order = Null => LiveOrders = {})

CreatingReads == \A r \in Requests : req[r].pc = "creating" => LiveSessions = {}

IInv ==
    /\ TypeOK
    /\ OneHolder /\ PlacingReads /\ CreatingReads
    /\ OneLiveOrder /\ OneLiveSession

LEMMA InitIInv == Init => IInv
  <1> SUFFICES ASSUME Init PROVE IInv
    OBVIOUS
  <1>1. LiveOrders = {} /\ LiveSessions = {}
    BY DEF Init, LiveOrders, LiveStatus, LiveSessions
  <1> QED
    BY <1>1, InitTypes DEF Init, IInv, Idle, OneHolder, Holds, PlacingReads,
       CreatingReads, OneLiveOrder, OneLiveSession

\* A step that makes nobody a holder, and no row live, keeps the invariant.
LEMMA QuietSteps ==
    ASSUME IInv, TypeOK',
           LiveOrders' \subseteq LiveOrders, LiveSessions' \subseteq LiveSessions,
           tableActive' = tableActive \/ ~TableLocked,
           \A q \in Requests : Holds(q)' => req'[q] = req[q]
    PROVE  IInv'
  <1>1. OneHolder'
    BY DEF IInv, OneHolder, Holds
  <1>2. PlacingReads'
    BY DEF IInv, PlacingReads, Holds, TableLocked
  <1>3. CreatingReads'
    BY DEF IInv, CreatingReads, Holds
  <1>4. OneLiveOrder' /\ OneLiveSession'
    BY DEF IInv, OneLiveOrder, OneLiveSession
  <1> QED
    BY <1>1, <1>2, <1>3, <1>4 DEF IInv

\* An answered request holds nothing.
LEMMA AnsweredHoldsNothing ==
    ASSUME IInv, NEW r \in Requests, Answer(r)
    PROVE  \A q \in Requests : Holds(q)' => req'[q] = req[q]
  BY DEF IInv, TypeOK, Answer, Idle, Holds

\* Every step but a scan's or an append's commit leaves no new row live.
LEMMA SessionsShrink ==
    ASSUME TypeOK,
           \/ UNCHANGED <<session, lapsed>>
           \/ \E r \in Requests : MarkExpired(r)
           \/ \E s \in Sessions : InvalidateSession(s) \/ Lapse(s)
           \/ \E o \in Orders : CloseOrderAndResetTable(o)
    PROVE  LiveSessions' \subseteq LiveSessions
  BY DEF TypeOK, LiveSessions, MarkExpired, InvalidateSession, Lapse,
     CloseOrderAndResetTable

LEMMA OrdersShrink ==
    ASSUME TypeOK,
           \/ UNCHANGED order
           \/ \E r \in Requests : StampBill(r)
           \/ \E o \in Orders : \/ StaffStartBilling(o) \/ FinishMeal(o) \/ Reopen(o)
                               \/ CloseOrderAndResetTable(o)
    PROVE  LiveOrders' \subseteq LiveOrders
  <1>1. CASE UNCHANGED order
    BY <1>1 DEF LiveOrders
  <1>2. ASSUME NEW r \in Requests, StampBill(r) PROVE LiveOrders' \subseteq LiveOrders
    BY <1>2 DEF TypeOK, LiveOrders, LiveStatus, StampBill
  <1>3. ASSUME NEW o \in Orders, StaffStartBilling(o) \/ FinishMeal(o) \/ Reopen(o)
        PROVE  LiveOrders' \subseteq LiveOrders
    BY <1>3 DEF TypeOK, LiveOrders, LiveStatus, StaffStartBilling, FinishMeal, Reopen
  <1>4. ASSUME NEW o \in Orders, CloseOrderAndResetTable(o)
        PROVE  LiveOrders' \subseteq LiveOrders
    BY <1>4 DEF TypeOK, LiveOrders, LiveStatus, CloseOrderAndResetTable
  <1> QED
    BY <1>1, <1>2, <1>3, <1>4

\* A request without the lock, or one that gives it up, only reads or stamps.
LEMMA UnlockedIInv ==
    ASSUME IInv, TypeOK', NEW r \in Requests,
           \/ ScanTable(r) \/ MarkExpired(r) \/ RefusePlace(r)
           \/ ReadForBill(r) \/ StampBill(r) \/ Abort(r)
           \/ \E s \in Sessions :
                  Admit(r, s, "place") \/ Admit(r, s, "bill") \/ FindExpired(r, s)
    PROVE  IInv'
  <1>1. TypeOK
    BY DEF IInv
  <1>2. tableActive' = tableActive
    BY DEF ScanTable, MarkExpired, RefusePlace, ReadForBill, StampBill, Abort, Admit,
       FindExpired
  <1>3. LiveOrders' \subseteq LiveOrders
    BY <1>1, OrdersShrink DEF ScanTable, MarkExpired, RefusePlace, ReadForBill, Abort,
       Admit, FindExpired
  <1>4. LiveSessions' \subseteq LiveSessions
    BY <1>1, SessionsShrink DEF ScanTable, RefusePlace, ReadForBill, StampBill, Abort,
       Admit, FindExpired
  <1>5. \A q \in Requests : Holds(q)' => req'[q] = req[q]
    BY <1>1 DEF TypeOK, Holds, Answer, Idle, GoOn, ScanTable, MarkExpired, RefusePlace,
       ReadForBill, StampBill, Abort, Admit, FindExpired
  <1> QED
    BY <1>2, <1>3, <1>4, <1>5, QuietSteps

\* Nobody held the row, so r is the only holder now.
LEMMA NewHolder ==
    ASSUME IInv, ~TableLocked, NEW r \in Requests,
           \A q \in Requests \ {r} : req'[q] = req[q]
    PROVE  \A q \in Requests : Holds(q)' => q = r
  BY DEF TableLocked, Holds

LEMMA FindSessionIInv ==
    ASSUME IInv, TypeOK', NEW r \in Requests, FindSession(r)
    PROVE  IInv'
  <1>1. UNCHANGED <<order, session, lapsed, tableActive>>
    BY DEF FindSession
  <1>2. LiveOrders' = LiveOrders /\ LiveSessions' = LiveSessions
    BY <1>1 DEF LiveOrders, LiveSessions
  <1>3. CASE Answer(r)
    <2>1. \A q \in Requests : Holds(q)' => req'[q] = req[q]
      BY <1>3, AnsweredHoldsNothing
    <2> QED
      BY <1>1, <1>2, <2>1, QuietSteps
  <1>4. CASE LiveSessions = {} /\ GoOn(r, "creating", Null)
    <2>1. req'[r].pc = "creating" /\ \A q \in Requests \ {r} : req'[q] = req[q]
      BY <1>4 DEF IInv, TypeOK, GoOn
    <2>2. \A q \in Requests : Holds(q)' => q = r
      BY <2>1, NewHolder DEF FindSession
    <2> QED
      BY <1>1, <1>2, <1>4, <2>1, <2>2
         DEF IInv, OneHolder, Holds, PlacingReads, CreatingReads, OneLiveOrder, OneLiveSession
  <1> QED
    BY <1>3, <1>4 DEF FindSession

LEMMA LockTableIInv ==
    ASSUME IInv, TypeOK', NEW r \in Requests, LockTable(r)
    PROVE  IInv'
  <1>1. UNCHANGED <<order, session, lapsed, tableActive>> /\ tableActive
    BY DEF LockTable
  <1>2. LiveOrders' = LiveOrders /\ LiveSessions' = LiveSessions
    BY <1>1 DEF LiveOrders, LiveSessions
  <1>3. /\ req'[r].pc = "placing"
        /\ req'[r].order = Null => LiveOrders = {}
        /\ \A q \in Requests \ {r} : req'[q] = req[q]
    <2>1. CASE LiveOrders = {} /\ GoOn(r, "placing", Null)
      BY <2>1 DEF IInv, TypeOK, GoOn
    <2>2. ASSUME NEW o \in LiveOrders,
                 GoOn(r, "placing", o)
          PROVE  <1>3!1 /\ <1>3!2 /\ <1>3!3
      BY <2>2, NullAssumption DEF IInv, TypeOK, LiveOrders, GoOn
    <2> QED
      BY <2>1, <2>2 DEF LockTable
  <1>4. \A q \in Requests : Holds(q)' => q = r
    BY <1>3, NewHolder DEF LockTable
  <1> QED
    BY <1>1, <1>2, <1>3, <1>4
       DEF IInv, OneHolder, Holds, PlacingReads, CreatingReads, OneLiveOrder, OneLiveSession

\* The holder commits and answers: nobody holds the row any more.
LEMMA NobodyHolds ==
    ASSUME IInv, NEW r \in Requests, Holds(r), Answer(r)
    PROVE  \A q \in Requests : ~Holds(q)'
  BY DEF IInv, TypeOK, OneHolder, Holds, Answer, Idle

LEMMA CreateSessionIInv ==
    ASSUME IInv, TypeOK', NEW r \in Requests, CreateSession(r)
    PROVE  IInv'
  <1>1. \A q \in Requests : ~Holds(q)'
    BY NobodyHolds DEF CreateSession, Holds
  <1>2. LiveSessions = {}
    BY DEF IInv, CreatingReads, CreateSession
  <1>3. PICK s \in Sessions : session' = [session EXCEPT ![s] = "ACTIVE"]
    BY DEF CreateSession
  <1>4. LiveSessions' \subseteq {s}
    BY <1>2, <1>3 DEF IInv, TypeOK, LiveSessions, CreateSession
  <1>5. LiveOrders' = LiveOrders
    BY DEF LiveOrders, CreateSession
  <1> QED
    BY <1>1, <1>4, <1>5
       DEF IInv, OneHolder, Holds, PlacingReads, CreatingReads, OneLiveOrder, OneLiveSession

LEMMA CommitPlaceIInv ==
    ASSUME IInv, TypeOK', NEW r \in Requests, NEW batch, CommitPlace(r, batch)
    PROVE  IInv'
  <1>1. \A q \in Requests : ~Holds(q)'
    BY NobodyHolds DEF CommitPlace, Holds
  <1>2. LiveSessions' = LiveSessions
    BY DEF LiveSessions, CommitPlace
  <1>3. OneLiveOrder'
    <2>1. CASE UNCHANGED order
      BY <2>1 DEF IInv, OneLiveOrder, LiveOrders
    <2>2. ASSUME req[r].order = Null, NEW o \in Orders,
                 order' = [order EXCEPT ![o] =
                     [status |-> "OPEN", bill |-> FALSE, session |-> req[r].session]]
          PROVE  OneLiveOrder'
      <3>1. LiveOrders = {}
        BY <2>2 DEF IInv, PlacingReads, CommitPlace
      <3>2. LiveOrders' \subseteq {o}
        BY <2>2, <3>1 DEF IInv, TypeOK, LiveOrders
      <3> QED
        BY <3>2 DEF OneLiveOrder
    <2> QED
      BY <2>1, <2>2 DEF CommitPlace
  <1> QED
    BY <1>1, <1>2, <1>3
       DEF IInv, OneHolder, Holds, PlacingReads, CreatingReads, OneLiveSession

\* Staff, the kitchen, the administrator and the clock leave the requests alone.
LEMMA StaffIInv ==
    ASSUME IInv, TypeOK',
           \/ \E o \in Orders : Staff(o)
           \/ \E i \in Items, s \in {"PREPARING", "READY", "SERVED", "CANCELLED"} :
                  TransitionItem(i, s)
           \/ \E s \in Sessions : InvalidateSession(s) \/ Lapse(s)
           \/ ToggleApproval \/ ToggleTable \/ UNCHANGED vars
    PROVE  IInv'
  <1>1. TypeOK
    BY DEF IInv
  <1>2. req' = req
    BY DEF Staff, StaffStartBilling, ApprovePendingItems, RejectPendingItems,
       RequestKotPrint, FinishMeal, Reopen, CloseUnpaid, Settle, QuickBill,
       CloseOrderAndResetTable, TransitionItem, InvalidateSession, Lapse,
       ToggleApproval, ToggleTable, vars
  <1>3. tableActive' = tableActive \/ ~TableLocked
    BY DEF Staff, StaffStartBilling, ApprovePendingItems, RejectPendingItems,
       RequestKotPrint, FinishMeal, Reopen, CloseUnpaid, Settle, QuickBill,
       CloseOrderAndResetTable, TransitionItem, InvalidateSession, Lapse,
       ToggleApproval, ToggleTable, vars
  <1>4. LiveOrders' \subseteq LiveOrders
    BY <1>1, OrdersShrink DEF Staff, ApprovePendingItems, RejectPendingItems,
       RequestKotPrint, CloseUnpaid, Settle, QuickBill,
       TransitionItem, InvalidateSession, Lapse, ToggleApproval, ToggleTable, vars
  <1>5. LiveSessions' \subseteq LiveSessions
    BY <1>1, SessionsShrink DEF Staff, StaffStartBilling, ApprovePendingItems,
       RejectPendingItems, RequestKotPrint, FinishMeal, Reopen, CloseUnpaid, Settle,
       QuickBill, TransitionItem, ToggleApproval, ToggleTable, vars
  <1> QED
    BY <1>2, <1>3, <1>4, <1>5, QuietSteps

LEMMA NextIInv == IInv /\ [Next]_vars => IInv'
  <1> SUFFICES ASSUME IInv, [Next]_vars PROVE IInv'
    OBVIOUS
  <1>1. TypeOK'
    BY NextTypes DEF IInv
  <1>2. ASSUME NEW r \in Requests, Guest(r) PROVE IInv'
    BY <1>1, <1>2, UnlockedIInv, FindSessionIInv, LockTableIInv, CreateSessionIInv,
       CommitPlaceIInv DEF Guest
  <1> QED
    BY <1>1, <1>2, StaffIInv DEF Next

\* The inductive invariant holds of every behaviour.
LEMMA Inductive == Spec => []IInv
  BY InitIInv, NextIInv, PTL DEF Spec

(***************************************************************************)
(* A table never has two live orders: the unique index of the schema is    *)
(* never hit, for any number of guests who place first rounds at once.     *)
(***************************************************************************)
THEOREM TableHasOneLiveOrder == Spec => []OneLiveOrder
  <1>1. IInv => OneLiveOrder
    BY DEF IInv
  <1> QED
    BY Inductive, <1>1, PTL

(***************************************************************************)
(* A table never has two usable sessions, for any number of scans at once. *)
(***************************************************************************)
THEOREM TableHasOneLiveSession == Spec => []OneLiveSession
  <1>1. IInv => OneLiveSession
    BY DEF IInv
  <1> QED
    BY Inductive, <1>1, PTL

-----------------------------------------------------------------------------
(* A table switched off *)

LEMMA NewItemsNeedTheTable ==
    ASSUME IInv, [Next]_vars,
           NEW i \in Items, item[i].status = "none", item'[i].status # "none"
    PROVE  tableActive
  <1>1. ASSUME NEW r \in Requests, NEW batch \in SUBSET Items, CommitPlace(r, batch)
        PROVE  tableActive
    BY <1>1 DEF IInv, PlacingReads, CommitPlace
  <1>2. ASSUME NEW o \in Orders,
               ApprovePendingItems(o) \/ RejectPendingItems(o)
        PROVE  FALSE
    BY <1>2 DEF ApprovePendingItems, RejectPendingItems, SetStatus, Pending
  <1>3. ASSUME NEW j \in Items, NEW s, TransitionItem(j, s) PROVE FALSE
    <2>1. j # i
      BY <1>3 DEF TransitionItem, ItemAllowed
    <2> QED
      BY <1>3, <2>1 DEF TransitionItem, SetStatus
  <1>4. CASE UNCHANGED item
    BY <1>4
  <1> QED
    BY <1>1, <1>2, <1>3, <1>4 DEF Next, Guest, Staff, ScanTable, FindSession, CreateSession,
       Admit, FindExpired, MarkExpired, LockTable, RefusePlace, ReadForBill, StampBill, Abort,
       StaffStartBilling, RequestKotPrint, FinishMeal, Reopen, CloseUnpaid, Settle, QuickBill,
       CloseOrderAndResetTable, InvalidateSession, Lapse, ToggleApproval, ToggleTable, vars

(***************************************************************************)
(* No item is inserted at a table that is switched off: the switch waits   *)
(* for the append that holds the row, for any number of appends.           *)
(***************************************************************************)
THEOREM SwitchedOffTableTakesNothing == Spec => InactiveTableTakesNothing
  <1>1. IInv /\ [Next]_vars =>
            [(\E i \in Items : item[i].status = "none" /\ item'[i].status # "none")
                => tableActive]_vars
    BY NewItemsNeedTheTable
  <1> QED
    BY Inductive, <1>1, PTL DEF Spec, InactiveTableTakesNothing

-----------------------------------------------------------------------------
(* Kitchen tickets *)

LEMMA ItemSteps ==
    ASSUME [Next]_vars
    PROVE  \/ UNCHANGED <<item, reprinted>>
           \/ \E r \in Requests, batch \in SUBSET Items : CommitPlace(r, batch)
           \/ \E o \in Orders : \/ ApprovePendingItems(o) \/ RejectPendingItems(o)
                               \/ RequestKotPrint(o)
           \/ \E i \in Items, s \in {"PREPARING", "READY", "SERVED", "CANCELLED"} :
                  TransitionItem(i, s)
  BY DEF Next, Guest, Staff, ScanTable, FindSession, CreateSession,
     Admit, FindExpired, MarkExpired, LockTable, RefusePlace, ReadForBill, StampBill, Abort,
     StaffStartBilling, FinishMeal, Reopen, CloseUnpaid, Settle, QuickBill,
     CloseOrderAndResetTable, InvalidateSession, Lapse, ToggleApproval, ToggleTable, vars

LEMMA TicketsKept == TypeOK /\ TicketedOnce /\ [Next]_vars => TicketedOnce'
  <1> SUFFICES ASSUME TypeOK, TicketedOnce, [Next]_vars PROVE TicketedOnce'
    OBVIOUS
  <1> USE DEF Accepted
  <1>1. ASSUME NEW r \in Requests, NEW batch \in SUBSET Items, CommitPlace(r, batch)
        PROVE  TicketedOnce'
    <2>1. PICK o : InsertItems(batch, o)
      BY <1>1 DEF CommitPlace
    <2>2. \A i \in batch : item[i].tickets = 0 /\ i \notin reprinted
      BY <1>1 DEF TypeOK, TicketedOnce, CommitPlace, Unborn
    <2>3. reprinted' = reprinted
      BY <1>1 DEF CommitPlace
    <2> QED
      BY <2>1, <2>2, <2>3 DEF TypeOK, TicketedOnce, InsertItems, NewItem
  <1>2. ASSUME NEW o \in Orders, ApprovePendingItems(o) PROVE TicketedOnce'
    <2>1. \A i \in Pending(o) : item[i].tickets = 0 /\ i \in Items
      BY DEF TicketedOnce, Pending, ItemsOf
    <2>2. \A i \in Items \ Pending(o) : item'[i] = item[i]
      BY <1>2 DEF ApprovePendingItems
    <2>3. ASSUME NEW i \in Pending(o) PROVE item'[i].tickets = 1 /\ item'[i].status = "NEW"
      <3>1. i \in Items /\ item[i] \in ItemRow /\ item[i].tickets = 0
        BY <2>1, Rows DEF Typed
      <3>2. item'[i] = [item[i] EXCEPT !.status = "NEW", !.tickets = item[i].tickets + 1]
        BY <1>2, <3>1 DEF ApprovePendingItems
      <3> QED
        BY <3>1, <3>2 DEF ItemRow
    <2>4. reprinted' = reprinted
      BY <1>2 DEF ApprovePendingItems
    <2> QED
      BY <2>2, <2>3, <2>4 DEF TicketedOnce
  <1>3. ASSUME NEW o \in Orders, RejectPendingItems(o) PROVE TicketedOnce'
    BY <1>3 DEF TypeOK, TicketedOnce, RejectPendingItems, SetStatus
  <1>4. ASSUME NEW o \in Orders, RequestKotPrint(o) PROVE TicketedOnce'
    BY <1>4 DEF TypeOK, TicketedOnce, RequestKotPrint, Billable, ItemsOf
  <1>5. ASSUME NEW j \in Items, NEW s \in {"PREPARING", "READY", "SERVED", "CANCELLED"},
               TransitionItem(j, s)
        PROVE  TicketedOnce'
    <2>1. item'[j].tickets = item[j].tickets /\ item'[j].status = s
      <3>1. item[j] \in ItemRow
        BY Rows DEF Typed
      <3>2. item'[j] = [item[j] EXCEPT !.status = s]
        BY <1>5 DEF TransitionItem, SetStatus
      <3> QED
        BY <3>1, <3>2 DEF ItemRow
    <2>2. \A i \in Items \ {j} : item'[i] = item[i]
      BY <1>5 DEF TransitionItem, SetStatus
    <2>3. item[j].status \in Accepted \/ (item[j].status = "PENDING_APPROVAL" /\ s = "CANCELLED")
      BY <1>5 DEF TransitionItem, ItemAllowed
    <2>4. reprinted' = reprinted
      BY <1>5 DEF TransitionItem
    <2> QED
      BY <2>1, <2>2, <2>3, <2>4 DEF TicketedOnce
  <1>6. CASE UNCHANGED <<item, reprinted>>
    BY <1>6 DEF TicketedOnce
  <1> QED
    BY <1>1, <1>2, <1>3, <1>4, <1>5, <1>6, ItemSteps

(***************************************************************************)
(* The kitchen gets exactly one first ticket of every item it is to cook,  *)
(* and none of an item nobody accepted, for any number of rounds.          *)
(***************************************************************************)
THEOREM KitchenIsToldOnce == Spec => []TicketedOnce
  <1>1. Init => TypeOK /\ TicketedOnce
    BY InitTypes DEF Init, TicketedOnce, Accepted
  <1>2. (TypeOK /\ TicketedOnce) /\ [Next]_vars => (TypeOK /\ TicketedOnce)'
    BY TicketsKept, NextTypes
  <1> QED
    BY <1>1, <1>2, PTL DEF Spec

-----------------------------------------------------------------------------
(* Finished items *)

\* Setting the status of a set of items keeps their order, and the other items.
LEMMA SetStatusKeeps ==
    ASSUME TypeOK, NEW set, NEW s, SetStatus(set, s), NEW i \in Items
    PROVE  /\ item'[i].order = item[i].order
           /\ i \notin set => item'[i].status = item[i].status
  <1>1. item[i] \in ItemRow
    BY Rows DEF Typed
  <1>2. item'[i] = IF i \in set THEN [item[i] EXCEPT !.status = s] ELSE item[i]
    BY DEF SetStatus
  <1> QED
    BY <1>1, <1>2 DEF ItemRow

LEMMA ItemsKept ==
    ASSUME TypeOK, [Next]_vars, NEW i \in Items
    PROVE  /\ item[i].status # "none" => item'[i].order = item[i].order
           /\ item[i].status \in {"SERVED", "CANCELLED"} => item'[i].status = item[i].status
  <1> DEFINE Kept ==
          /\ item[i].status # "none" => item'[i].order = item[i].order
          /\ item[i].status \in {"SERVED", "CANCELLED"} => item'[i].status = item[i].status
  <1>1. ASSUME NEW r \in Requests, NEW batch \in SUBSET Items, CommitPlace(r, batch)
        PROVE  Kept
    BY <1>1 DEF CommitPlace, InsertItems, Unborn
  <1>2. ASSUME NEW o \in Orders, ApprovePendingItems(o) PROVE Kept
    <2>1. item[i] \in ItemRow
      BY Rows DEF Typed
    <2>2. CASE i \in Pending(o)
      <3>1. item[i].status = "PENDING_APPROVAL"
        BY <2>2 DEF Pending
      <3>2. item'[i] = [item[i] EXCEPT !.status = "NEW", !.tickets = item[i].tickets + 1]
        BY <1>2, <2>2 DEF ApprovePendingItems
      <3> QED
        BY <2>1, <3>1, <3>2 DEF ItemRow
    <2>3. CASE i \notin Pending(o)
      BY <1>2, <2>3 DEF ApprovePendingItems
    <2> QED
      BY <2>2, <2>3
  <1>3. ASSUME NEW o \in Orders, RejectPendingItems(o) PROVE Kept
    BY <1>3, SetStatusKeeps DEF RejectPendingItems, Pending
  <1>4. ASSUME NEW o \in Orders, RequestKotPrint(o) PROVE Kept
    BY <1>4 DEF RequestKotPrint
  <1>5. ASSUME NEW j \in Items, NEW s \in {"PREPARING", "READY", "SERVED", "CANCELLED"},
               TransitionItem(j, s)
        PROVE  Kept
    <2>1. item[j].status \notin {"SERVED", "CANCELLED"}
      BY <1>5 DEF TransitionItem, ItemAllowed
    <2> QED
      BY <1>5, <2>1, SetStatusKeeps DEF TransitionItem
  <1>6. CASE UNCHANGED <<item, reprinted>>
    BY <1>6
  <1> QED
    BY <1>1, <1>2, <1>3, <1>4, <1>5, <1>6, ItemSteps

(***************************************************************************)
(* What was served or cancelled stays so and no item changes its order,    *)
(* whatever batches are approved and rejected beside it.                   *)
(***************************************************************************)
THEOREM FinishedItemsStay == Spec => ItemsSettle
  <1>1. TypeOK /\ [Next]_vars =>
            [\A i \in Items :
                /\ item[i].status # "none" => item'[i].order = item[i].order
                /\ item[i].status \in {"SERVED", "CANCELLED"} =>
                       item'[i].status = item[i].status]_vars
    BY ItemsKept
  <1> QED
    BY TableTypes, <1>1, PTL DEF Spec, ItemsSettle

-----------------------------------------------------------------------------
(* The refinement of OrderLifecycle *)

\* The abstract status of the orders.
Status == [o \in Orders |-> order[o].status]

LEMMA OrderSteps ==
    ASSUME [Next]_vars
    PROVE  \/ UNCHANGED order
           \/ \E r \in Requests : StampBill(r) \/ \E batch \in SUBSET Items : CommitPlace(r, batch)
           \/ \E o \in Orders : \/ StaffStartBilling(o) \/ FinishMeal(o) \/ Reopen(o)
                               \/ CloseUnpaid(o) \/ Settle(o) \/ QuickBill(o)
  BY DEF Next, Guest, Staff, ScanTable, FindSession, CreateSession,
     Admit, FindExpired, MarkExpired, LockTable, RefusePlace, ReadForBill, Abort,
     ApprovePendingItems, RejectPendingItems, RequestKotPrint,
     TransitionItem, InvalidateSession, Lapse, ToggleApproval, ToggleTable, vars

\* Giving one order a status gives it that abstract status, and leaves the rest.
LEMMA StatusChange ==
    ASSUME TypeOK, NEW o \in Orders, NEW s,
           \/ order' = [order EXCEPT ![o].status = s]
           \/ \E b, t : order' = [order EXCEPT ![o] = [status |-> s, bill |-> b, session |-> t]]
    PROVE  Status' = [Status EXCEPT ![o] = s]
  <1>1. order \in [Orders -> OrderRow]
    BY Rows DEF Typed
  <1>2. \A p \in Orders \ {o} : order'[p] = order[p]
    BY <1>1
  <1>3. order'[o].status = s
    <2>1. CASE order' = [order EXCEPT ![o].status = s]
      <3>1. order[o] \in OrderRow /\ order'[o] = [order[o] EXCEPT !.status = s]
        BY <1>1, <2>1
      <3> QED
        BY <3>1 DEF OrderRow
    <2>2. ASSUME NEW b, NEW t,
                 order' = [order EXCEPT ![o] = [status |-> s, bill |-> b, session |-> t]]
          PROVE  order'[o].status = s
      BY <1>1, <2>2
    <2> QED
      BY <2>1, <2>2
  <1> QED
    BY <1>2, <1>3 DEF Status

LEMMA LiveIsLive == Lifecycle!Live = LiveOrders
  BY DEF Lifecycle!Live, LiveOrders, LiveStatus

LEMMA LifecycleStep ==
    ASSUME IInv, [Next]_vars PROVE [Lifecycle!Next]_Status
  <1> USE DEF Lifecycle!Next
  <1>1. ASSUME NEW r \in Requests, NEW batch \in SUBSET Items, CommitPlace(r, batch)
        PROVE  [Lifecycle!Next]_Status
    <2>1. CASE UNCHANGED order
      BY <2>1 DEF Status
    <2>2. ASSUME req[r].order = Null, NEW o \in Orders, order[o].status = "none",
                 order' = [order EXCEPT ![o] =
                     [status |-> "OPEN", bill |-> FALSE, session |-> req[r].session]]
          PROVE  Lifecycle!Open(o)
      <3>1. LiveOrders = {}
        BY <1>1, <2>2 DEF IInv, PlacingReads, CommitPlace
      <3>2. Status' = [Status EXCEPT ![o] = "OPEN"]
        BY <2>2, StatusChange DEF IInv
      <3> QED
        BY <2>2, <3>1, <3>2, LiveIsLive DEF Lifecycle!Open, Status
    <2> QED
      BY <1>1, <2>1, <2>2 DEF CommitPlace
  <1>2. ASSUME NEW o \in Orders, FinishMeal(o) PROVE Lifecycle!FinishMeal(o)
    <2>1. Status' = [Status EXCEPT ![o] = "MEAL_FINISHED"]
      BY <1>2, StatusChange DEF IInv, FinishMeal
    <2> QED
      BY <1>2, <2>1 DEF Lifecycle!FinishMeal, FinishMeal, Status
  <1>3. ASSUME NEW o \in Orders, Reopen(o) PROVE Lifecycle!ReopenOrder(o)
    <2>1. Status' = [Status EXCEPT ![o] = "OPEN"]
      BY <1>3, StatusChange DEF IInv, Reopen
    <2> QED
      BY <1>3, <2>1 DEF Lifecycle!ReopenOrder, Reopen, Status
  <1>4. ASSUME NEW o \in Orders, CloseUnpaid(o) \/ Settle(o) \/ QuickBill(o)
        PROVE  Lifecycle!Close(o)
    <2>1. Status' = [Status EXCEPT ![o] = "CLOSED"]
      BY <1>4, StatusChange
         DEF IInv, CloseUnpaid, Settle, QuickBill, CloseOrderAndResetTable
    <2>2. o \in LiveOrders
      BY <1>4 DEF CloseUnpaid, Settle, QuickBill, LiveOrders, LiveStatus
    <2> QED
      BY <2>1, <2>2, LiveIsLive DEF Lifecycle!Close, Status
  <1>5. ASSUME NEW o \in Orders, StaffStartBilling(o) PROVE UNCHANGED Status
    BY <1>5 DEF IInv, TypeOK, StaffStartBilling, Status
  <1>6. ASSUME NEW r \in Requests, StampBill(r) PROVE UNCHANGED Status
    BY <1>6 DEF IInv, TypeOK, StampBill, Status
  <1>7. CASE UNCHANGED order
    BY <1>7 DEF Status
  <1> QED
    BY <1>1, <1>2, <1>3, <1>4, <1>5, <1>6, <1>7, OrderSteps

(***************************************************************************)
(* TableOrders implements OrderLifecycle: for any number of orders, guests *)
(* and items, every order of the table is opened when no other is live, is *)
(* closed once, and stays closed.                                          *)
(***************************************************************************)
THEOREM TableImplementsLifecycle == Spec => LifecycleSpec
  <1>1. Init => Lifecycle!Init
    BY DEF Init, Lifecycle!Init
  <1>2. IInv /\ [Next]_vars => [Lifecycle!Next]_Status
    BY LifecycleStep
  <1> QED
    BY Inductive, <1>1, <1>2, PTL DEF Spec, LifecycleSpec, Lifecycle!Spec, Status

=============================================================================
