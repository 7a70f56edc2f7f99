----------------------------- MODULE Numbering ------------------------------
(***************************************************************************)
(* numbering_service.next_number: the gapless order and invoice numbers of *)
(* a restaurant, for one (restaurant, counter_type) row.  The caller's     *)
(* transaction inserts the document that carries the number and commits    *)
(* both, or rolls both back.  The row is missing until the first number is *)
(* drawn, and then two callers may insert it at the same time; the unique  *)
(* constraint makes the second wait for the first one's commit.            *)
(***************************************************************************)
EXTENDS Integers

CONSTANTS
    Callers,        \* transactions that need a number
    None,           \* no caller
    MaxDocuments    \* bound of a run: callers only roll back after so many

ASSUME NoneAssumption == None \notin Callers

VARIABLES
    value,          \* current_value of the committed row; 0 while there is none
    holder,         \* the caller that holds the row lock, or inserted the row
    pc,             \* where each caller is
    number,         \* the number it has drawn; 0 while it has none
    documents,      \* how many documents have been committed
    numbers         \* the numbers they carry

vars == <<value, holder, pc, number, documents, numbers>>

Init ==
    /\ value = 0
    /\ holder = None
    /\ pc = [c \in Callers |-> "start"]
    /\ number = [c \in Callers |-> 0]
    /\ documents = 0
    /\ numbers = {}

Draw(c, n) ==
    /\ holder' = c
    /\ number' = [number EXCEPT ![c] = n]
    /\ pc' = [pc EXCEPT ![c] = "drawn"]

\* Mutant: the row is read without FOR UPDATE.
SelectUnlocked(c) ==
    /\ pc[c] = "start"
    /\ value > 0
    /\ Draw(c, value + 1)
    /\ UNCHANGED <<value, documents, numbers>>

\* SELECT ... FOR UPDATE finds the row, waits for its lock and increments it.
SelectAndIncrement(c) ==
    /\ pc[c] = "start"
    /\ value > 0
    /\ holder = None
    /\ Draw(c, value + 1)
    /\ UNCHANGED <<value, documents, numbers>>

\* It finds no row: one not committed yet is neither seen nor waited for.
SelectNothing(c) ==
    /\ pc[c] = "start"
    /\ value = 0
    /\ pc' = [pc EXCEPT ![c] = "missing"]
    /\ UNCHANGED <<value, holder, number, documents, numbers>>

\* The INSERT waits for another caller's uncommitted row, and succeeds if
\* that caller rolled back.
InsertFirst(c) ==
    /\ pc[c] = "missing"
    /\ holder = None
    /\ value = 0
    /\ Draw(c, 1)
    /\ UNCHANGED <<value, documents, numbers>>

\* Mutant: the INSERT is tried again, without a look at the winner's row.
RetryInsert(c) ==
    /\ pc[c] = "missing"
    /\ value > 0
    /\ UNCHANGED vars

\* It hits the unique constraint: back to the savepoint.
InsertConflict(c) ==
    /\ pc[c] = "missing"
    /\ value > 0
    /\ pc' = [pc EXCEPT ![c] = "conflict"]
    /\ UNCHANGED <<value, holder, number, documents, numbers>>

RelockAndIncrement(c) ==
    /\ pc[c] = "conflict"
    /\ holder = None
    /\ Draw(c, value + 1)
    /\ UNCHANGED <<value, documents, numbers>>

\* The caller's transaction ends: with its document, and then starts another
\* one, or without.
Release(c) ==
    /\ holder' = IF holder = c THEN None ELSE holder
    /\ number' = [number EXCEPT ![c] = 0]
    /\ pc' = [pc EXCEPT ![c] = "start"]

Commit(c) ==
    /\ pc[c] = "drawn"
    /\ documents < MaxDocuments
    /\ value' = number[c]
    /\ documents' = documents + 1
    /\ numbers' = numbers \cup {number[c]}
    /\ Release(c)

Rollback(c) ==
    /\ pc[c] # "start"
    /\ Release(c)
    /\ UNCHANGED <<value, documents, numbers>>

Next ==
    \E c \in Callers :
        \/ SelectAndIncrement(c) \/ SelectNothing(c)
        \/ InsertFirst(c) \/ InsertConflict(c) \/ RelockAndIncrement(c)
        \/ Commit(c) \/ Rollback(c)

Spec == Init /\ [][Next]_vars

\* A caller runs on while it is not waiting (weak); the row queues its waiters
\* (strong); who has drawn a number commits or rolls back.
Draws(c) ==
    \/ SelectAndIncrement(c)
    \/ InsertFirst(c) \/ InsertConflict(c) \/ RelockAndIncrement(c)

Ends(c) == pc[c] = "drawn" /\ (Commit(c) \/ Rollback(c))

Fairness == \A c \in Callers : SF_vars(Draws(c)) /\ WF_vars(Ends(c))

FairSpec == Spec /\ Fairness

-----------------------------------------------------------------------------
(* Properties *)

\* The counter and the callers' places are what the code stores.
TypeOK ==
    /\ value \in Nat
    /\ holder \in Callers \cup {None}
    /\ pc \in [Callers -> {"start", "missing", "conflict", "drawn"}]
    /\ number \in [Callers -> Nat]
    /\ documents \in Nat
    /\ numbers \subseteq Nat

(***************************************************************************)
(* The committed documents carry exactly the numbers 1 .. n, n being how   *)
(* many there are: none repeats and none is missing, over any interleaving *)
(* of first numbers, conflicts, commits and rollbacks.                     *)
(***************************************************************************)
Gapless == numbers = 1 .. documents

(***************************************************************************)
(* A caller that needs a number draws one, however many others want the    *)
(* row, or gives up: the race for the first row wedges nobody.             *)
(***************************************************************************)
EveryoneDraws ==
    \A c \in Callers : pc[c] \in {"missing", "conflict"} ~> pc[c] \in {"drawn", "start"}

=============================================================================
