--------------------------- MODULE MCTableOrders ----------------------------
(* TLC instances of TableOrders. *)
EXTENDS TableOrders, TLC

\* Rows and requests have no order the properties see, so they may be permuted.
Symmetry == Permutations(Orders) \cup Permutations(Items)
                \cup Permutations(Sessions) \cup Permutations(Requests)

=============================================================================
