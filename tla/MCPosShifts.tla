------------------------------ MODULE MCPosShifts -------------------------------
\* Symmetry for model checking PosShifts.
EXTENDS PosShifts, TLC

Symmetric ==
  Permutations(Users) \cup Permutations(Shifts) \cup Permutations(Sales) \cup Permutations(Requests)
=============================================================================
