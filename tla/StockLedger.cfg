\* Two requests at a time over two documents of any kind and two warehouses.
SPECIFICATION Spec
SYMMETRY Symmetric
CONSTANTS
  Warehouses = {w1, w2}
  Documents = {d1, d2}
  Requests = {q1, q2}
  Quantities = {1}
  Counts <- Counted
  Opening = 1
  MaxStock = 1
  Nothing = Nothing
INVARIANTS
  OverdrawnByCount
  OneOpenCount
  DocumentsMoved
  BooksAgree
