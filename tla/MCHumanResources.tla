---------------------------- MODULE MCHumanResources ----------------------------
(***************************************************************************)
(* An employee's contracts and wallet share no state and no property       *)
(* speaks of both, so a behaviour moves one of them and the other stays as *)
(* it was at first.  Vouchers and calls are interchangeable.               *)
(***************************************************************************)
EXTENDS QiwaContract, EmployeeWallet, TLC

Start == Init /\ WalletInit

ContractStep == WalletInit /\ UNCHANGED walletVars /\ Next

WalletStep == Init /\ UNCHANGED vars /\ WalletNext

EitherSpec == Start /\ [][ContractStep \/ WalletStep]_<<vars, walletVars>>

Symmetric == Permutations(Vouchers) \cup Permutations(Calls)
=============================================================================
