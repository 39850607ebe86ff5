---------------------------- MODULE CompanySettings ----------------------------
(***************************************************************************)
(* The company_settings row as the document-number code sees it: the       *)
(* column next_invoice_number and, inside the JSON column "settings", the  *)
(* bag docSequences with one counter per SequenceKey.                      *)
(*                                                                         *)
(* A counter the bag does not hold counts as 1 (`current.next ?? 1`), so a *)
(* bag without docSequences is the bag whose counters are all 1.  The row  *)
(* exists from the company's creation on (companies.service.ts creates it  *)
(* in the transaction that creates the company).                           *)
(***************************************************************************)
EXTENDS Naturals

CONSTANTS SequenceKeys,  \* the keys of docSequences in use ("receipt", ...)
          Invoice        \* names the column next_invoice_number

ASSUME InvoiceAssumption == Invoice \notin SequenceKeys

Kinds == SequenceKeys \cup {Invoice}

\* The numbers the row hands out next.
Rows == [Kinds -> Nat \ {0}]

NewRow == [k \in Kinds |-> 1]

\* Mutant: the counter moves back.
BumpInvoiceDown(row, read) == [row EXCEPT ![Invoice] = read[Invoice] - 1]

(***************************************************************************)
(* nextInvoiceNumber: the UPDATE names one column, so what it writes is    *)
(* the counter read plus one and nothing else.                             *)
(***************************************************************************)
BumpInvoice(row, read) == [row EXCEPT ![Invoice] = read[Invoice] + 1]

\* Mutant: the counter moves on by two.
BumpSequenceTwice(row, read, key) ==
  [k \in Kinds |-> IF k = Invoice THEN row[k]
                   ELSE IF k = key THEN read[k] + 2 ELSE read[k]]

(***************************************************************************)
(* nextSequence: the UPDATE writes the whole JSON column, every counter in *)
(* it as the caller read it, and key's plus one.  The invoice column stays.*)
(***************************************************************************)
BumpSequence(row, read, key) ==
  [k \in Kinds |-> IF k = Invoice THEN row[k]
                   ELSE IF k = key THEN read[k] + 1 ELSE read[k]]

\* The row after an allocation of kind k by a caller that read `read`.
AfterAllocation(row, read, k) ==
  IF k = Invoice THEN BumpInvoice(row, read) ELSE BumpSequence(row, read, k)

\* Mutant: a writer of the settings puts the whole row back, columns included.
PutRowBack(row, read) == [k \in Kinds |-> read[k]]

\* A writer that puts the JSON column back as it read it (its own keys aside).
PutBagBack(row, read) == [k \in Kinds |-> IF k = Invoice THEN row[k] ELSE read[k]]

\* A writer that replaces the JSON column by a bag without docSequences.
DropSequences(row) == [k \in Kinds |-> IF k = Invoice THEN row[k] ELSE 1]

-----------------------------------------------------------------------------
(* What the modules that use the row say about numbers. *)

\* S is 1, 2, ..., n for some n, or empty.
Segment(S) == \A n \in S : \A m \in 1 .. n : m \in S

\* The number n follows an issued one, or is the first.
Follows(n, S) == n - 1 \in S \cup {0}
=============================================================================
