\* Every writer of the settings row at once; requests are one-shot.
SPECIFICATION Spec
CONSTANTS
  SequenceKeys = {receipt, transfer}
  AutoKeys = {transfer}
  Invoice = invoice
  Requests = {r1, r2, r3}
  Writers = {w1}
  CrmSaves = TRUE
CHECK_DEADLOCK FALSE
INVARIANTS
  TypeOK
  Gapless
  InvoiceNumberFree
PROPERTIES
  NumbersFormSeries
