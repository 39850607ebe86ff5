\* A contract and its renewal (or two drafts) with two requests at a time, and two
\* vouchers of any kind with two calls at a time.
SPECIFICATION EitherSpec
SYMMETRY Symmetric
CONSTANTS
  Rows = {r1, r2}
  Requests = {q1, q2}
  Papers = {p1, p2}
  Nothing = Nothing
  Vouchers = {v1, v2}
  Calls = {c1, c2}
  Amounts = {1}
  Allowance = 2
  MaxBalance = 2
  MaxEntries = 2
  Null = Null
INVARIANTS
  TypeOK
  ApprovalBacked
  WalletTypeOK
  DebitedOnce
  WalletAgrees
PROPERTY
  FollowsWorkflow
