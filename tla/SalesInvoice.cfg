\* Every request on one invoice, three at a time.
SPECIFICATION Spec
CONSTANTS
  SequenceKeys = {receipt, creditNote}
  Invoice = invoice
  Receipt = receipt
  CreditNote = creditNote
  Requests = {r1, r2, r3, r4}
  Ops = {"create", "storeCredit", "issue", "pay", "gateway", "note", "editNote", "cancelNote", "update", "cancel", "overdue"}
  Tenders = {"CASH", "MIXED", "CREDIT", "BNPL"}
  Amounts = {1, 2}
  CreditLimit = 4
  SplitSlack = 1
  MaxActive = 3
  MaxInvoices = 1
SYMMETRY RequestSymmetry
CHECK_DEADLOCK FALSE
INVARIANTS
  TypeOK
  ReceiptsGapless
PROPERTY
  PaymentsAreSerial
