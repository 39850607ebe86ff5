\* Payments overlapping payments, on invoices settled in every way.
SPECIFICATION Spec
CONSTANTS
  SequenceKeys = {receipt, creditNote}
  Invoice = invoice
  Receipt = receipt
  CreditNote = creditNote
  Requests = {r1, r2, r3, r4}
  Ops = {"create", "pay", "gateway"}
  Tenders = {"CASH", "MIXED", "CREDIT"}
  Amounts = {1, 2}
  CreditLimit = 4
  SplitSlack = 1
  MaxActive = 3
  MaxInvoices = 2
SYMMETRY RequestSymmetry
CHECK_DEADLOCK FALSE
INVARIANTS
  LedgerBalanced
  StatusAgrees
PROPERTY
  PaidIsFinal
