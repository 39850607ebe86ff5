----------------------------- MODULE EmployeeWallet -----------------------------
(***************************************************************************)
(* The e-wallet of one employee (hr.service.ts) and the vouchers that move *)
(* it: salary advances, withdrawals and payroll runs.                      *)
(*                                                                         *)
(* A decision writes the status of its voucher first and moves the wallet  *)
(* afterwards.  The wallet moves in a transaction that writes the balance  *)
(* and an entry, but that balance was computed from an earlier read.       *)
(* Every statement is a step, the calls of the service overlap, and one    *)
(* may fail before any of its steps.                                       *)
(***************************************************************************)
EXTENDS Integers, FiniteSets, FiniteSetsExt

CONSTANTS
  Vouchers,    \* advances, withdrawals and payroll runs that may be created
  Calls,       \* calls being served at the same time
  Amounts,     \* what may be asked for or deducted
  Allowance,   \* what open advances may add up to: the salary, or a share of it
  MaxBalance,  \* bound: no wallet is credited above it
  MaxEntries,  \* bound: entries of one kind for one voucher
  Null

ASSUME WalletAssumption ==
  /\ IsFiniteSet(Vouchers)
  /\ Amounts \subseteq Nat \ {0}
  /\ {Allowance, MaxBalance, MaxEntries} \subseteq Nat
  /\ Null \notin Int \cup Vouchers

VARIABLES
  balance,  \* the balance, or Null while there is no wallet
  voucher,  \* voucher[p]: a row; its kind is "none" before it is created
  entries,  \* entries[p]: how many credits and debits have p as their reference
  call,     \* call[q]: what it does, where it is, what it has read
  total,    \* ghost: what all entries add up to, while serial
  serial    \* ghost: no calls overlapped and none failed half way

walletVars == <<balance, voucher, entries, call, total, serial>>

\* REJECTED stands for CANCELLED too, and DRAFT for every payroll status but PAID.
StatusesOf ==
  [none |-> {"none"},
   advance |-> {"PENDING", "APPROVED", "REJECTED", "PAID"},
   withdrawal |-> {"PENDING", "APPROVED", "REJECTED", "PAID"},
   payroll |-> {"DRAFT", "PAID"}]

VoucherStatuses == UNION {StatusesOf[k] : k \in DOMAIN StatusesOf}

VoucherRows == [kind : DOMAIN StatusesOf, status : VoucherStatuses, amount : Nat]

\* kind: what is asked for; seen: the status that was read; status: the decision;
\* amount: what is applied to the balance; next: what is written.
CallStates ==
  [pc : {"idle", "asking", "opening", "deciding", "debiting", "applying", "writing"},
   p : Vouchers \cup {Null}, kind : DOMAIN StatusesOf, seen : VoucherStatuses,
   status : VoucherStatuses, amount : Int, next : Nat]

NoVoucher == [kind |-> "none", status |-> "none", amount |-> 0]

NoCall == [pc |-> "idle", p |-> Null, kind |-> "none", seen |-> "none", status |-> "none",
           amount |-> 0, next |-> 0]

WalletInit ==
  /\ balance = Null
  /\ voucher = [p \in Vouchers |-> NoVoucher]
  /\ entries = [p \in Vouchers |-> [credits |-> 0, debits |-> 0]]
  /\ call = [q \in Calls |-> NoCall]
  /\ total = 0
  /\ serial = TRUE

-----------------------------------------------------------------------------
CallAt(q, pc) == call[q].pc = pc

Quiescent == \A q \in Calls : CallAt(q, "idle")

Begin(q, r) ==
  /\ CallAt(q, "idle")
  /\ call' = [call EXCEPT ![q] = r]
  /\ serial' = (serial /\ Quiescent)

Goes(q, pc) == call' = [call EXCEPT ![q].pc = pc]

EndCall(q) == call' = [call EXCEPT ![q] = NoCall]

Enter(n) == total' = IF serial THEN total + n ELSE 0

(* requestAdvance, requestWalletWithdrawal: a check, then the row. *)

\* What the vouchers of a kind that count against its limit add up to.
Open(kind) ==
  MapThenSumSet(LAMBDA p : voucher[p].amount,
                {p \in Vouchers : voucher[p].kind = kind
                                  /\ voucher[p].status \in {"PENDING", "APPROVED"}})

Ask(q, kind, n) ==
  /\ \/ kind = "advance" /\ Open(kind) + n <= Allowance
     \/ kind = "withdrawal" /\ balance # Null /\ Open(kind) + n <= balance
  /\ Begin(q, [NoCall EXCEPT !.pc = "asking", !.kind = kind, !.amount = n])
  /\ UNCHANGED <<balance, voucher, entries, total>>

CreateVoucher(q, p) ==
  /\ CallAt(q, "asking")
  /\ voucher[p].kind = "none"
  /\ voucher' = [voucher EXCEPT ![p] = [kind |-> call[q].kind, status |-> "PENDING",
                                        amount |-> call[q].amount]]
  /\ EndCall(q)
  /\ UNCHANGED <<balance, entries, total, serial>>

\* A payroll run; its amount is what it deducts from this employee.
CreatePayroll(p, n) ==
  /\ voucher[p].kind = "none"
  /\ voucher' = [voucher EXCEPT ![p] = [kind |-> "payroll", status |-> "DRAFT", amount |-> n]]
  /\ UNCHANGED <<balance, entries, call, total, serial>>

(* decideAdvance, decideWalletWithdrawal, updatePayrollStatus. *)

\* Any decision may be taken from any status.
Decide(q, p, status) ==
  /\ status \in StatusesOf[voucher[p].kind] \ {"none", "PENDING"}
  /\ Begin(q, [NoCall EXCEPT !.pc = "deciding", !.p = p, !.seen = voucher[p].status,
                             !.status = status])
  /\ UNCHANGED <<balance, voucher, entries, total>>

\* An advance is credited once on its way to APPROVED or PAID.
Credits(kind, seen, status) ==
  kind = "advance" /\ status \in {"APPROVED", "PAID"} /\ seen \notin {"APPROVED", "PAID"}

\* An approved advance is settled, a withdrawal paid out, a payroll deducted.
Debits(kind, seen, status) ==
  status = "PAID" /\ IF kind = "advance" THEN seen = "APPROVED" ELSE seen # "PAID"

\* Mutant: an advance that goes straight to PAID is not credited.
WriteStatusOnly(q) ==
  /\ CallAt(q, "deciding")
  /\ LET s == call[q]
         kind == voucher[s.p].kind
     IN  /\ voucher' = [voucher EXCEPT ![s.p].status = s.status]
         /\ IF Credits(kind, s.seen, s.status) /\ s.status = "APPROVED"
            THEN call' = [call EXCEPT ![q].pc = "applying", ![q].amount = voucher[s.p].amount]
            ELSE IF Debits(kind, s.seen, s.status) THEN Goes(q, "debiting") ELSE EndCall(q)
  /\ UNCHANGED <<balance, entries, total, serial>>

\* The status is written; what it moves was decided on the status that was read.
WriteStatus(q) ==
  /\ CallAt(q, "deciding")
  /\ LET s == call[q]
         kind == voucher[s.p].kind
     IN  /\ voucher' = [voucher EXCEPT ![s.p].status = s.status]
         /\ IF Credits(kind, s.seen, s.status)
            THEN call' = [call EXCEPT ![q].pc = "applying", ![q].amount = voucher[s.p].amount]
            ELSE IF Debits(kind, s.seen, s.status) THEN Goes(q, "debiting") ELSE EndCall(q)
  /\ UNCHANGED <<balance, entries, total, serial>>

\* Mutant: debitEmployeeWallet does not look for an earlier entry.
DebitAgain(q) ==
  /\ CallAt(q, "debiting")
  /\ call' = [call EXCEPT ![q].pc = "applying", ![q].amount = -voucher[call[q].p].amount]
  /\ UNCHANGED <<balance, voucher, entries, total, serial>>

\* debitEmployeeWallet: an earlier entry with this reference ends it.
DebitEmployeeWallet(q) ==
  /\ CallAt(q, "debiting")
  /\ LET p == call[q].p
     IN  IF entries[p].debits > 0
         THEN EndCall(q)
         ELSE call' = [call EXCEPT ![q].pc = "applying", ![q].amount = -voucher[p].amount]
  /\ UNCHANGED <<balance, voucher, entries, total, serial>>

(* applyEwalletDelta, and upsertEwallet, which sets a balance by hand. *)

InWallet == IF balance = Null THEN 0 ELSE balance

\* Mutant: nothing refuses a debit of more than there is.
ApplyAnyDelta(q) ==
  /\ CallAt(q, "applying")
  /\ InWallet + call[q].amount <= MaxBalance
  /\ balance' = InWallet
  /\ call' = [call EXCEPT ![q].pc = "writing", ![q].next = InWallet + call[q].amount]
  /\ UNCHANGED <<voucher, entries, total, serial>>

\* The wallet is read, or created empty; 'Insufficient wallet balance' otherwise.
ApplyEwalletDelta(q) ==
  /\ CallAt(q, "applying")
  /\ LET next == InWallet + call[q].amount
     IN  /\ next <= MaxBalance
         /\ IF next < 0
            THEN EndCall(q) /\ UNCHANGED balance
            ELSE /\ balance' = InWallet
                 /\ call' = [call EXCEPT ![q].pc = "writing", ![q].next = next]
  /\ UNCHANGED <<voucher, entries, total, serial>>

\* The reference of a payroll deduction, two identifiers and a colon, is longer
\* than its column.
ReferenceFits(p) == p \in Vouchers => voucher[p].kind # "payroll"

\* Balance and entry are written together, whatever the balance is by now.
WriteWallet(q) ==
  /\ CallAt(q, "writing")
  /\ LET s == call[q]
     IN  /\ ReferenceFits(s.p)
         /\ balance' = s.next
         /\ Enter(s.amount)
         /\ IF s.p = Null
            THEN UNCHANGED entries
            ELSE LET e == IF s.amount > 0 THEN [entries[s.p] EXCEPT !.credits = @ + 1]
                          ELSE [entries[s.p] EXCEPT !.debits = @ + 1]
                 IN  /\ e.credits <= MaxEntries /\ e.debits <= MaxEntries
                     /\ entries' = [entries EXCEPT ![s.p] = e]
  /\ EndCall(q)
  /\ UNCHANGED <<voucher, serial>>

\* The entry is refused, and the transaction with it.
ReferenceTooLong(q) ==
  /\ CallAt(q, "writing")
  /\ ~ReferenceFits(call[q].p)
  /\ EndCall(q)
  /\ UNCHANGED <<balance, voucher, entries, total, serial>>

\* upsertEwallet computes the difference that applyEwalletDelta applies, or
\* creates the wallet and then, if there is something in it, its first entry.
UpsertEwallet(q, target) ==
  /\ IF balance = Null
     THEN /\ balance' = target
          /\ IF target > 0
             THEN Begin(q, [NoCall EXCEPT !.pc = "opening", !.amount = target])
             ELSE CallAt(q, "idle") /\ UNCHANGED <<call, serial>>
     ELSE /\ target # balance
          /\ Begin(q, [NoCall EXCEPT !.pc = "applying", !.amount = target - balance])
          /\ UNCHANGED balance
  /\ UNCHANGED <<voucher, entries, total>>

WriteOpening(q) ==
  /\ CallAt(q, "opening")
  /\ Enter(call[q].amount)
  /\ EndCall(q)
  /\ UNCHANGED <<balance, voucher, entries, serial>>

\* A statement throws, or the process dies: what was written remains.
CallFails(q) ==
  /\ ~CallAt(q, "idle")
  /\ serial' = (serial /\ call[q].pc \in {"asking", "deciding"})
  /\ EndCall(q)
  /\ UNCHANGED <<balance, voucher, entries, total>>

WalletNext ==
  \/ \E p \in Vouchers, n \in Amounts : CreatePayroll(p, n)
  \/ \E q \in Calls :
       \/ \E kind \in {"advance", "withdrawal"}, n \in Amounts : Ask(q, kind, n)
       \/ \E p \in Vouchers : \/ CreateVoucher(q, p)
                             \/ \E status \in VoucherStatuses : Decide(q, p, status)
       \/ WriteStatus(q) \/ DebitEmployeeWallet(q)
       \/ ApplyEwalletDelta(q) \/ WriteWallet(q) \/ ReferenceTooLong(q)
       \/ \E target \in 0 .. MaxBalance : UpsertEwallet(q, target)
       \/ WriteOpening(q)
       \/ CallFails(q)

WalletSpec == WalletInit /\ [][WalletNext]_walletVars
-----------------------------------------------------------------------------
(* Correctness. *)

(***************************************************************************)
(* The type of the state.  Whatever decisions overlap, each writing a      *)
(* balance it computed from an earlier read, the balance is not negative.  *)
(***************************************************************************)
WalletTypeOK ==
  /\ balance \in Nat \cup {Null}
  /\ voucher \in [Vouchers -> VoucherRows]
  /\ \A p \in Vouchers : voucher[p].status \in StatusesOf[voucher[p].kind]
  /\ entries \in [Vouchers -> [credits : Nat, debits : Nat]]
  /\ call \in [Calls -> CallStates]
  /\ total \in Int
  /\ serial \in BOOLEAN

(***************************************************************************)
(* "Idempotent when referenceId is set.": one decision after the other,    *)
(* taken back and taken again as often as anyone likes, a voucher is       *)
(* debited at most once.                                                   *)
(***************************************************************************)
DebitedOnce == serial => \A p \in Vouchers : entries[p].debits <= 1

(***************************************************************************)
(* One call after the other, the balance is what the entries add up to,    *)
(* and an advance that stands approved or paid has been credited: when it  *)
(* was approved, or when it went to PAID without that.                     *)
(***************************************************************************)
WalletAgrees ==
  serial /\ Quiescent =>
    /\ total = InWallet
    /\ \A p \in Vouchers :
         voucher[p].kind = "advance" /\ voucher[p].status \in {"APPROVED", "PAID"}
           => entries[p].credits > 0
=============================================================================
