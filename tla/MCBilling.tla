----------------------------- MODULE MCBilling ------------------------------
(* TLC instances of Billing. *)
EXTENDS Billing, TLC

\* Rows, threads, keys and transactions may be permuted.
Symmetry == Permutations(Orders) \cup Permutations(Items) \cup Permutations(Invoices)
                \cup Permutations(Procs) \cup Permutations(Keys) \cup Permutations(Txns)

=============================================================================
