\* One request at a time: a count of less than nothing is opened, written, approved.
SPECIFICATION Spec
SYMMETRY Symmetric
CONSTANTS
  Warehouses = {w1}
  Documents = {d1}
  Requests = {q1}
  Quantities = {1}
  Counts <- Counted
  Opening = 1
  MaxStock = 1
  Nothing = Nothing
INVARIANT
  NeverNegative
