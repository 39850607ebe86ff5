----------------------------- MODULE MCSalesInvoice -----------------------------
(***************************************************************************)
(* SalesInvoice for TLC: requests are interchangeable, and so are the      *)
(* documents, which carry their names.                                     *)
(***************************************************************************)
EXTENDS SalesInvoice, TLC

RequestSymmetry == Permutations(Requests)
=============================================================================
