----------------------------- MODULE MCStockLedger -----------------------------
(* Warehouses, documents and requests are interchangeable: no property and no *)
(* action tells two of them apart.                                            *)
EXTENDS StockLedger, TLC

Symmetric == Permutations(Warehouses) \cup Permutations(Documents) \cup Permutations(Requests)

\* Less than nothing, nothing, and something.
Counted == {-1, 0, 1}
=============================================================================
