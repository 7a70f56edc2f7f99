-------------------------- MODULE NumberingProofs ---------------------------
(***************************************************************************)
(* Numbers are gapless for any number of callers and documents.            *)
(***************************************************************************)
EXTENDS Numbering, TLAPS

\* Who has drawn a number holds the row, and its number is the next one.
DrawnHolds ==
    \A c \in Callers : pc[c] = "drawn" => holder = c /\ number[c] = value + 1

\* The committed row counts the committed documents.
IInv == TypeOK /\ DrawnHolds /\ value = documents /\ Gapless

LEMMA InitIInv == Init => IInv
  BY DEF Init, IInv, TypeOK, DrawnHolds, Gapless

\* A caller that finds the row free takes the next number.
LEMMA DrawIInv ==
    ASSUME IInv, NEW c \in Callers, NEW n, n = value + 1, holder = None,
           Draw(c, n), UNCHANGED <<value, documents, numbers>>
    PROVE  IInv'
  <1>1. n \in Nat
    BY DEF IInv, TypeOK
  <1>2. TypeOK'
    BY <1>1 DEF IInv, TypeOK, Draw
  <1>3. DrawnHolds'
    BY NoneAssumption DEF IInv, TypeOK, DrawnHolds, Draw
  <1> QED
    BY <1>2, <1>3 DEF IInv, Gapless

\* A caller that only changes its place, and has drawn nothing, disturbs nothing.
LEMMA MoveIInv ==
    ASSUME IInv, NEW c \in Callers, NEW p \in {"missing", "conflict"},
           pc' = [pc EXCEPT ![c] = p],
           UNCHANGED <<value, holder, number, documents, numbers>>
    PROVE  IInv'
  BY DEF IInv, TypeOK, DrawnHolds, Gapless

LEMMA CommitIInv == ASSUME IInv, NEW c \in Callers, Commit(c) PROVE IInv'
  <1>1. number[c] = documents + 1 /\ holder = c /\ documents \in Nat
    BY DEF IInv, TypeOK, DrawnHolds, Commit
  <1>2. value' = documents' /\ documents' = documents + 1
    BY <1>1 DEF Commit
  <1>3. TypeOK'
    BY <1>1 DEF IInv, TypeOK, Commit, Release
  <1>4. DrawnHolds'
    \* whoever else had drawn a number would hold the row as well
    BY <1>1 DEF IInv, TypeOK, DrawnHolds, Commit, Release
  <1>5. Gapless'
    <2>1. numbers' = (1 .. documents) \cup {documents + 1}
      BY <1>1 DEF IInv, Gapless, Commit
    <2> QED
      BY <2>1, <1>1, <1>2 DEF Gapless
  <1> QED
    BY <1>2, <1>3, <1>4, <1>5 DEF IInv

LEMMA RollbackIInv == ASSUME IInv, NEW c \in Callers, Rollback(c) PROVE IInv'
  <1>1. TypeOK'
    BY DEF IInv, TypeOK, Rollback, Release
  <1>2. DrawnHolds'
    BY DEF IInv, TypeOK, DrawnHolds, Rollback, Release
  <1> QED
    BY <1>1, <1>2 DEF IInv, Gapless, Rollback

LEMMA NextIInv == IInv /\ [Next]_vars => IInv'
  <1> SUFFICES ASSUME IInv, [Next]_vars PROVE IInv'
    OBVIOUS
  <1>1. ASSUME NEW c \in Callers, SelectAndIncrement(c) PROVE IInv'
    BY <1>1, DrawIInv DEF SelectAndIncrement
  <1>2. ASSUME NEW c \in Callers, SelectNothing(c) PROVE IInv'
    BY <1>2, MoveIInv DEF SelectNothing
  <1>3. ASSUME NEW c \in Callers, InsertFirst(c) PROVE IInv'
    BY <1>3, DrawIInv DEF InsertFirst
  <1>4. ASSUME NEW c \in Callers, InsertConflict(c) PROVE IInv'
    BY <1>4, MoveIInv DEF InsertConflict
  <1>5. ASSUME NEW c \in Callers, RelockAndIncrement(c) PROVE IInv'
    BY <1>5, DrawIInv DEF RelockAndIncrement
  <1>6. CASE UNCHANGED vars
    BY <1>6 DEF vars, IInv, TypeOK, DrawnHolds, Gapless
  <1> QED
    BY <1>1, <1>2, <1>3, <1>4, <1>5, <1>6, CommitIInv, RollbackIInv DEF Next

\* The inductive invariant holds of every behaviour.
LEMMA Inductive == Spec => []IInv
  BY InitIInv, NextIInv, PTL DEF Spec

(***************************************************************************)
(* The counter, the lock and the callers keep their types.                 *)
(***************************************************************************)
THEOREM NumberingTypes == Spec => []TypeOK
  <1>1. IInv => TypeOK
    BY DEF IInv
  <1> QED
    BY Inductive, <1>1, PTL

(***************************************************************************)
(* next_number's promise: "distinct, gapless values", however many callers *)
(* race for the row, its first insertion included, and roll back.          *)
(***************************************************************************)
THEOREM NumbersAreGapless == Spec => []Gapless
  <1>1. IInv => Gapless
    BY DEF IInv
  <1> QED
    BY Inductive, <1>1, PTL

=============================================================================
