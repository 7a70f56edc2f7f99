---------------------------- MODULE WaiterCalls ----------------------------
(***************************************************************************)
(* A table's "Call Waiter" taps and the staff who attend to them           *)
(* (waiter_call_service).  A tap reuses the open call it finds, or inserts *)
(* one; a partial unique index keeps a second open call out, and the loser *)
(* of that race looks the winner's call up.  Attending locks the call.     *)
(***************************************************************************)
EXTENDS Naturals, FiniteSets

CONSTANTS
    Rows,           \* waiter_calls rows of one table
    Taps,           \* requests of its guests served at the same time
    Waiters,        \* requests of staff
    NoCall

ASSUME NoCallAssumption == NoCall \notin Rows \cup Waiters

VARIABLES
    calls,           \* [Rows -> {"none", "PENDING", "ATTENDED"}]
    rowLock,        \* [Rows -> the waiter's request that holds the row, or NoCall]
    tap,            \* [Taps -> [at, call, over]]: over, the calls attended before it
    waiter,         \* [Waiters -> the call the request is about, or NoCall]
    attended        \* [Rows -> the waiters who were told they attended it]

wcVars == <<calls, rowLock, tap, waiter, attended>>

NoTap == [at |-> "idle", call |-> NoCall, over |-> {}]

WcInit ==
    /\ calls = [r \in Rows |-> "none"]
    /\ rowLock = [r \in Rows |-> NoCall]
    /\ tap = [t \in Taps |-> NoTap]
    /\ waiter = [w \in Waiters |-> NoCall]
    /\ attended = [r \in Rows |-> {}]

With(status) == {r \in Rows : calls[r] = status}

-----------------------------------------------------------------------------
(* Guests *)

\* Mutant: the table's call is found in whatever state it is.
FindAnyCall(t) ==
    /\ tap[t].at = "idle"
    /\ LET found == With("PENDING") \cup With("ATTENDED")
       IN  \/ \E r \in found :
                tap' = [tap EXCEPT ![t] = [at |-> "told", call |-> r, over |-> With("ATTENDED")]]
           \/ /\ found = {}
              /\ tap' = [tap EXCEPT ![t] = [at |-> "insert", call |-> NoCall, over |-> {}]]
    /\ UNCHANGED <<calls, rowLock, waiter, attended>>

\* create_call looks for an open call.
FindCall(t) ==
    /\ tap[t].at = "idle"
    /\ LET found == With("PENDING")
       IN  \/ \E r \in found :
                tap' = [tap EXCEPT ![t] = [at |-> "told", call |-> r, over |-> With("ATTENDED")]]
           \/ /\ found = {}
              /\ tap' = [tap EXCEPT ![t] = [at |-> "insert", call |-> NoCall, over |-> With("ATTENDED")]]
    /\ UNCHANGED <<calls, rowLock, waiter, attended>>

\* There was none: a call is inserted, unless the index holds an open one.
InsertCall(t) ==
    /\ tap[t].at = "insert"
    /\ \/ /\ With("PENDING") = {}
          /\ \E r \in With("none") :
               /\ calls' = [calls EXCEPT ![r] = "PENDING"]
               /\ tap' = [tap EXCEPT ![t] = [@ EXCEPT !.at = "told", !.call = r]]
       \/ /\ With("PENDING") # {}
          /\ tap' = [tap EXCEPT ![t].at = "reread"]
          /\ UNCHANGED calls
    /\ UNCHANGED <<rowLock, waiter, attended>>

\* The winner's call; scalar_one() raises when it has been attended meanwhile.
RereadCall(t) ==
    /\ tap[t].at = "reread"
    /\ LET found == With("PENDING")
       IN  \/ \E r \in found : tap' = [tap EXCEPT ![t] = [@ EXCEPT !.at = "told", !.call = r]]
           \/ /\ found = {}
              /\ tap' = [tap EXCEPT ![t].at = "failed"]
    /\ UNCHANGED <<calls, rowLock, waiter, attended>>

\* The guest has the answer, and may tap again.
AnswerTap(t) ==
    /\ tap[t].at \in {"told", "failed"}
    /\ tap' = [tap EXCEPT ![t] = NoTap]
    /\ UNCHANGED <<calls, rowLock, waiter, attended>>

-----------------------------------------------------------------------------
(* Staff *)

\* Mutant: the call is read without FOR UPDATE.
OpenCallUnlocked(w, r) ==
    /\ waiter[w] = NoCall
    /\ calls[r] = "PENDING"
    /\ waiter' = [waiter EXCEPT ![w] = r]
    /\ UNCHANGED <<calls, rowLock, tap, attended>>

\* attend_call locks the call; one attended already is refused with 409.
OpenCall(w, r) ==
    /\ waiter[w] = NoCall
    /\ rowLock[r] = NoCall
    /\ calls[r] = "PENDING"
    /\ rowLock' = [rowLock EXCEPT ![r] = w]
    /\ waiter' = [waiter EXCEPT ![w] = r]
    /\ UNCHANGED <<calls, tap, attended>>

AttendCall(w) ==
    /\ waiter[w] # NoCall
    /\ calls' = [calls EXCEPT ![waiter[w]] = "ATTENDED"]
    /\ attended' = [attended EXCEPT ![waiter[w]] = @ \cup {w}]
    /\ rowLock' = [rowLock EXCEPT ![waiter[w]] = NoCall]
    /\ waiter' = [waiter EXCEPT ![w] = NoCall]
    /\ UNCHANGED tap

\* The request dies: rollback.
AttendAborts(w) ==
    /\ waiter[w] # NoCall
    /\ rowLock' = [r \in Rows |-> IF rowLock[r] = w THEN NoCall ELSE rowLock[r]]
    /\ waiter' = [waiter EXCEPT ![w] = NoCall]
    /\ UNCHANGED <<calls, tap, attended>>

WcNext ==
    \/ \E t \in Taps : FindCall(t) \/ InsertCall(t) \/ RereadCall(t) \/ AnswerTap(t)
    \/ \E w \in Waiters :
         \/ \E r \in Rows : OpenCall(w, r)
         \/ AttendCall(w) \/ AttendAborts(w)

WcSpec == WcInit /\ [][WcNext]_wcVars

-----------------------------------------------------------------------------
(* Properties *)

(***************************************************************************)
(* "A waiter confirms they attended": a call is credited to one member of  *)
(* staff, however many confirm at once.                                    *)
(***************************************************************************)
CreditedOnce == \A r \in Rows : Cardinality(attended[r]) <= 1

(***************************************************************************)
(* A guest told that the waiter is called was given a call that was open   *)
(* after the tap: found, inserted or won by another tap, never one that    *)
(* had been dealt with before.                                             *)
(***************************************************************************)
TapRingsForThisGuest == \A t \in Taps : tap[t].at = "told" => tap[t].call \notin tap[t].over

=============================================================================
