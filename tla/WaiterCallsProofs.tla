------------------------- MODULE WaiterCallsProofs --------------------------
(***************************************************************************)
(* A call is credited once and a tap is given a call that is open after    *)
(* it, for any number of calls, taps and members of staff.  The first      *)
(* rests on the row lock, which whoever is about to attend holds; the      *)
(* second on an attended call never being open again.                      *)
(***************************************************************************)
EXTENDS WaiterCalls, FiniteSetTheorems, TLAPS

CallTypes ==
    /\ calls \in [Rows -> {"none", "PENDING", "ATTENDED"}]
    /\ rowLock \in [Rows -> Waiters \cup {NoCall}]
    /\ tap \in [Taps -> [at: {"idle", "insert", "reread", "told", "failed"},
                         call: Rows \cup {NoCall}, over: SUBSET Rows]]
    /\ waiter \in [Waiters -> Rows \cup {NoCall}]
    /\ attended \in [Rows -> SUBSET Waiters]

\* Who is about to attend a call holds it, and it is open.
AttendingHolds ==
    \A w \in Waiters : waiter[w] # NoCall =>
        rowLock[waiter[w]] = w /\ calls[waiter[w]] = "PENDING"

\* Nobody is credited with a call that is open, and one at most with another.
OpenIsUncredited ==
    \A r \in Rows :
        /\ calls[r] # "ATTENDED" => attended[r] = {}
        /\ \A v, w \in attended[r] : v = w

\* What had been dealt with when a tap began still is.
OverIsOver == \A t \in Taps : \A r \in tap[t].over : calls[r] = "ATTENDED"

CallsInv ==
    CallTypes /\ AttendingHolds /\ OpenIsUncredited /\ OverIsOver /\ TapRingsForThisGuest

LEMMA InitCalls == WcInit => CallsInv
  BY NoCallAssumption
  DEF WcInit, CallsInv, CallTypes, AttendingHolds, OpenIsUncredited, OverIsOver,
      TapRingsForThisGuest, NoTap

\* Guests' steps change calls only from none to open.
LEMMA TapSteps ==
  ASSUME CallsInv, NEW t \in Taps,
         FindCall(t) \/ InsertCall(t) \/ RereadCall(t) \/ AnswerTap(t)
  PROVE  CallsInv'
  <1> USE DEF CallsInv, CallTypes, With
  <1>1. CASE FindCall(t)
    <2>1. CallTypes' BY <1>1 DEF FindCall
    <2>2. AttendingHolds' /\ OpenIsUncredited'
      BY <1>1 DEF FindCall, AttendingHolds, OpenIsUncredited
    <2>3. OverIsOver' BY <1>1 DEF FindCall, OverIsOver
    <2>4. TapRingsForThisGuest' BY <1>1 DEF FindCall, TapRingsForThisGuest
    <2> QED BY <2>1, <2>2, <2>3, <2>4
  <1>2. CASE InsertCall(t)
    <2>1. tap[t].over \subseteq With("ATTENDED") BY DEF OverIsOver
    <2>2. ASSUME NEW r \in With("none"), calls' = [calls EXCEPT ![r] = "PENDING"],
                 tap' = [tap EXCEPT ![t] = [@ EXCEPT !.at = "told", !.call = r]]
          PROVE  CallsInv'
      <3>1. UNCHANGED <<rowLock, waiter, attended>> BY <1>2 DEF InsertCall
      <3>2. /\ r \in Rows /\ calls[r] = "none" /\ r \notin tap[t].over
            /\ calls' \in [Rows -> {"none", "PENDING", "ATTENDED"}]
        BY <2>1, <2>2
      <3>3. tap'[t].call = r /\ tap'[t].over = tap[t].over BY <2>2
      <3>4. \A s \in Taps \ {t} : tap'[s] = tap[s] BY <2>2
      <3>5. CallTypes'
        <4>1. tap' \in [Taps -> [at: {"idle", "insert", "reread", "told", "failed"},
                                 call: Rows \cup {NoCall}, over: SUBSET Rows]]
          <5> HIDE DEF With
          <5>1. r \in Rows BY <3>2
          <5>2. tap' = [tap EXCEPT ![t] = [@ EXCEPT !.at = "told", !.call = r]] BY <2>2
          <5> QED BY <5>1, <5>2
        <4> QED BY <3>1, <3>2, <4>1
      <3>6. AttendingHolds' /\ OpenIsUncredited'
        BY <2>2, <3>1, <3>2 DEF AttendingHolds, OpenIsUncredited
      <3>7. OverIsOver' BY <2>2, <3>2, <3>3, <3>4 DEF OverIsOver
      <3>8. TapRingsForThisGuest' BY <3>2, <3>3, <3>4 DEF TapRingsForThisGuest
      <3> QED BY <3>5, <3>6, <3>7, <3>8
    <2>3. CASE tap' = [tap EXCEPT ![t].at = "reread"] /\ UNCHANGED calls
      <3>1. UNCHANGED <<rowLock, waiter, attended>> BY <1>2 DEF InsertCall
      <3>2. CallTypes' BY <2>3, <3>1
      <3>3. AttendingHolds' /\ OpenIsUncredited' /\ OverIsOver' /\ TapRingsForThisGuest'
        BY <2>3, <3>1 DEF AttendingHolds, OpenIsUncredited, OverIsOver, TapRingsForThisGuest
      <3> QED BY <3>2, <3>3
    <2> QED BY <1>2, <2>2, <2>3 DEF InsertCall
  <1>3. CASE RereadCall(t)
    <2>1. CallTypes' BY <1>3 DEF RereadCall
    <2>2. AttendingHolds' /\ OpenIsUncredited'
      BY <1>3 DEF RereadCall, AttendingHolds, OpenIsUncredited
    <2>3. OverIsOver' BY <1>3 DEF RereadCall, OverIsOver
    <2>4. TapRingsForThisGuest'
      BY <1>3 DEF RereadCall, TapRingsForThisGuest, OverIsOver
    <2> QED BY <2>1, <2>2, <2>3, <2>4
  <1>4. CASE AnswerTap(t)
    BY <1>4 DEF AnswerTap, NoTap, AttendingHolds, OpenIsUncredited, OverIsOver, TapRingsForThisGuest
  <1> QED BY <1>1, <1>2, <1>3, <1>4

\* Staff's steps leave the taps alone and close only what was open.
LEMMA WaiterSteps ==
  ASSUME CallsInv, NEW w \in Waiters,
         (\E r \in Rows : OpenCall(w, r)) \/ AttendCall(w) \/ AttendAborts(w)
  PROVE  CallsInv'
  <1> USE NoCallAssumption DEF CallsInv, CallTypes
  <1>1. ASSUME NEW r \in Rows, OpenCall(w, r) PROVE CallsInv'
    <2>1. CallTypes' BY <1>1 DEF OpenCall
    <2>2. AttendingHolds' BY <1>1 DEF OpenCall, AttendingHolds
    <2>3. OpenIsUncredited' /\ OverIsOver' /\ TapRingsForThisGuest'
      BY <1>1 DEF OpenCall, OpenIsUncredited, OverIsOver, TapRingsForThisGuest
    <2> QED BY <2>1, <2>2, <2>3
  <1>2. CASE AttendCall(w)
    <2>1. CallTypes' BY <1>2 DEF AttendCall
    <2>2. AttendingHolds' BY <1>2 DEF AttendCall, AttendingHolds
    <2>3. OpenIsUncredited' BY <1>2 DEF AttendCall, AttendingHolds, OpenIsUncredited
    <2>4. OverIsOver' /\ TapRingsForThisGuest'
      BY <1>2 DEF AttendCall, OverIsOver, TapRingsForThisGuest
    <2> QED BY <2>1, <2>2, <2>3, <2>4
  <1>3. CASE AttendAborts(w)
    <2>1. CallTypes' BY <1>3 DEF AttendAborts
    <2>2. AttendingHolds' BY <1>3 DEF AttendAborts, AttendingHolds
    <2>3. OpenIsUncredited' /\ OverIsOver' /\ TapRingsForThisGuest'
      BY <1>3 DEF AttendAborts, OpenIsUncredited, OverIsOver, TapRingsForThisGuest
    <2> QED BY <2>1, <2>2, <2>3
  <1> QED BY <1>1, <1>2, <1>3

LEMMA StepCalls == CallsInv /\ [WcNext]_wcVars => CallsInv'
  <1> SUFFICES ASSUME CallsInv, [WcNext]_wcVars PROVE CallsInv'
    OBVIOUS
  <1>1. CASE WcNext BY <1>1, TapSteps, WaiterSteps DEF WcNext
  <1>2. CASE UNCHANGED wcVars
    BY <1>2 DEF wcVars, CallsInv, CallTypes, AttendingHolds, OpenIsUncredited, OverIsOver,
                TapRingsForThisGuest, With
  <1> QED BY <1>1, <1>2

LEMMA CallsAlways == WcSpec => []CallsInv
  BY InitCalls, StepCalls, PTL DEF WcSpec

\* A set whose members are equal has one at most.
LEMMA OneOrNone ==
  ASSUME NEW S, \A v, w \in S : v = w
  PROVE  Cardinality(S) <= 1
  <1>1. CASE S = {} BY <1>1, FS_EmptySet
  <1>2. CASE S # {}
    <2>1. PICK v \in S : S = {v} BY <1>2
    <2> QED BY <2>1, FS_Singleton
  <1> QED BY <1>1, <1>2

(***************************************************************************)
(* However many members of staff confirm a call at once, one is credited   *)
(* with it.                                                                *)
(***************************************************************************)
THEOREM CallIsCreditedOnce == WcSpec => []CreditedOnce
  <1>1. CallsInv => CreditedOnce
    BY OneOrNone DEF CallsInv, OpenIsUncredited, CreditedOnce
  <1> QED BY <1>1, CallsAlways, PTL

(***************************************************************************)
(* A guest is never told of a call that had been dealt with before the     *)
(* tap.                                                                    *)
(***************************************************************************)
THEOREM TapGetsAnOpenCall == WcSpec => []TapRingsForThisGuest
  <1>1. CallsInv => TapRingsForThisGuest
    BY DEF CallsInv
  <1> QED BY <1>1, CallsAlways, PTL

=============================================================================
