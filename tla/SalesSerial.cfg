\* One request after the other; credit notes are issued but not edited or cancelled.
SPECIFICATION Spec
CONSTANTS
  SequenceKeys = {receipt, creditNote}
  Invoice = invoice
  Receipt = receipt
  CreditNote = creditNote
  Requests = {r1, r2, r3, r4, r5}
  Ops = {"create", "storeCredit", "issue", "pay", "gateway", "note", "update", "cancel", "overdue"}
  Tenders = {"CASH", "MIXED", "CREDIT", "BNPL"}
  Amounts = {1, 2, 3}
  CreditLimit = 4
  SplitSlack = 1
  MaxActive = 1
  MaxInvoices = 1
SYMMETRY RequestSymmetry
CHECK_DEADLOCK FALSE
INVARIANTS
  NeverOverpaid
  BalanceInRange
PROPERTY
  CancelledIsFinal
