SPECIFICATION Spec
CONSTANTS
  Users = {u1}
  Terminals = {t1}
  Shifts = {s1, s2}
  Sales = {x1, x2}
  Quotes = {k1}
  Requests = {q1, q2}
  MaxOwed = 1
  Nothing = Nothing
SYMMETRY Symmetric
CHECK_DEADLOCK FALSE
INVARIANTS
  TypeOK
  SuccessiveShiftsShareNoSale
  InvoicedAsAccepted
