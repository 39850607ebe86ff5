------------------------- MODULE HumanResourcesProofs -------------------------
(***************************************************************************)
(* Theorems about the two flows of human resources that overlap with       *)
(* themselves, for any number of rows and of calls.  They share no state.  *)
(*                                                                         *)
(* QiwaContract: types, ApprovalBacked and FollowsWorkflow.  What makes    *)
(* them inductive is what a request knows of its row although the row may  *)
(* have moved: that its write leads along ALLOWED from the status it       *)
(* names, and that a contract it has documented stays so.                  *)
(*                                                                         *)
(* EmployeeWallet: types, DebitedOnce and WalletAgrees.  WalletInv says    *)
(* what a call holds, however calls overlap; WalletKept what the only call *)
(* being served has read and still owes to the books, while none overlap.  *)
(***************************************************************************)
EXTENDS QiwaContract, EmployeeWallet, TLAPS

-----------------------------------------------------------------------------
(* QiwaContract. *)

Exists(r) == contract[r].status # "none"

RequestOK(s) ==
  /\ s.pc \in {"idle", "creating", "renewing"} => s.op = "start" /\ s.paper = Nothing
  /\ s.pc = "loaded" => /\ Exists(s.row)
                        /\ Expected(s.op, s.seen) \in Statuses
                        /\ Target(s.op) \in ALLOWED[Expected(s.op, s.seen)]
  /\ s.pc = "updating" => s.op \in {"confirm", "approve"} /\ Exists(s.row)
  /\ s.pc = "updating" /\ s.op = "approve" => contract[s.row].status = "DOCUMENTED"

IInv ==
  /\ TypeOK
  /\ ApprovalBacked
  /\ current # Nothing => Exists(current)
  /\ \A q \in Requests : RequestOK(request[q])

\* The shape of requests and rows, once for all.
LEMMA IdleType == Idle \in RequestStates /\ NoContract \in Contracts
BY DEF Idle, RequestStates, NoContract, Contracts, Ops

LEMMA Initially == Init => IInv
<1> SUFFICES ASSUME Init PROVE IInv
  OBVIOUS
<1> USE DEF Init
<1>1. TypeOK
  BY IdleType, NothingAssumption DEF TypeOK, Idle
<1>2. ApprovalBacked
  BY DEF ApprovalBacked, HasPapers, NoContract
<1>3. QED
  BY <1>1, <1>2 DEF IInv, RequestOK, Idle

\* A row is written along ALLOWED, to one of the statuses.
LEMMA Moves ==
  ASSUME NEW op \in Ops, NEW c \in Contracts, Target(op) \in ALLOWED[Expected(op, c)],
         Expected(op, c) \in Statuses
  PROVE  /\ Target(op) \in Statuses
         /\ Expected(op, c) # "DOCUMENTED"
         /\ Target(op) \in {"PENDING_APPROVAL", "DOCUMENTED"} => op \in {"confirm", "approve"}
         /\ op = "approve" => Expected(op, c) = "PENDING_APPROVAL" /\ Target(op) = "DOCUMENTED"
BY DEF Ops, Target, Expected, ALLOWED, Statuses

\* Requests other than q are as they were, and no documented row has moved.
LEMMA Others ==
  ASSUME IInv, NEW q \in Requests, NEW s, request' = [request EXCEPT ![q] = s],
         RequestOK(s)',
         \A r \in Rows : /\ Exists(r) => Exists(r)'
                         /\ contract[r].status = "DOCUMENTED" => contract'[r].status = "DOCUMENTED"
  PROVE  \A p \in Requests : RequestOK(request[p])'
<1> SUFFICES ASSUME NEW p \in Requests, p # q PROVE RequestOK(request[p])'
  BY DEF IInv, TypeOK
<1>1. request'[p] = request[p] /\ RequestOK(request[p])
  BY DEF IInv, TypeOK
<1>2. request[p].pc \in {"loaded", "updating"} => request[p].row \in Rows
  BY DEF IInv, TypeOK
<1> QED BY <1>1, <1>2 DEF RequestOK, Exists

\* A step of request q that leaves the contracts alone.
LEMMA MoveStep ==
  ASSUME IInv, NEW q \in Requests, NEW s \in RequestStates, UNCHANGED <<contract, current, employee>>,
         request' = [request EXCEPT ![q] = s], RequestOK(s),
         s.pc \in {"loaded", "updating"} => s.row \in Rows, s.op = "confirm" => s.paper \in Papers
  PROVE  IInv'
<1>1. TypeOK'
  BY DEF IInv, TypeOK
<1>2. RequestOK(s)'
  BY DEF RequestOK, Exists
<1>3. \A p \in Requests : RequestOK(request[p])'
  BY <1>2, Others DEF Exists
<1> QED BY <1>1, <1>3 DEF IInv, ApprovalBacked, HasPapers, Exists

LEMMA LoadStep ==
  ASSUME IInv, NEW q \in Requests, NEW op \in Ops, NEW paper \in Papers \cup {Nothing},
         Load(q, op, paper)
  PROVE  IInv'
<1> DEFINE c == contract[current]
           s == [pc |-> "loaded", op |-> op, row |-> current, seen |-> c, paper |-> paper]
<1>1. current \in Rows /\ c \in Contracts /\ Exists(current)
  BY DEF Load, IInv, TypeOK
<1>2. c.status \in Statuses
  BY <1>1 DEF Contracts, Exists
<1>3. s \in RequestStates /\ (s.op = "confirm" => s.paper \in Papers)
  BY <1>1, NothingAssumption DEF RequestStates, Load
<1>4. Expected(op, c) \in Statuses /\ Target(op) \in ALLOWED[Expected(op, c)]
  BY <1>2 DEF Load, Guard, Expected, Target, ALLOWED, Statuses, Ops
<1>5. RequestOK(s)
  BY <1>1, <1>4 DEF RequestOK
<1> HIDE DEF s, c
<1>6. request' = [request EXCEPT ![q] = s]
  BY DEF Load, s, c
<1>7. s.pc = "loaded" /\ s.row \in Rows
  BY <1>1 DEF s
<1> QED BY <1>3, <1>5, <1>6, <1>7, MoveStep DEF Load

LEMMA StartLoadStep ==
  ASSUME IInv, NEW q \in Requests, StartLoad(q)
  PROVE  IInv'
<1>1. PICK pc \in {"creating", "renewing"} : request' = [request EXCEPT ![q].pc = pc]
  BY DEF StartLoad
<1> DEFINE s == [request[q] EXCEPT !.pc = pc]
<1>2. request' = [request EXCEPT ![q] = s] /\ s \in RequestStates
  BY <1>1 DEF IInv, TypeOK, RequestStates
<1>3. RequestOK(request[q]) /\ request[q].pc = "idle" /\ request[q] \in RequestStates
  BY DEF StartLoad, At, IInv, TypeOK
<1>4. RequestOK(s) /\ s.op = "start" /\ s.pc \in {"creating", "renewing"}
  BY <1>3 DEF RequestOK, RequestStates
<1> HIDE DEF s
<1> QED BY <1>2, <1>4, MoveStep DEF StartLoad

LEMMA ReturnStep ==
  ASSUME IInv, NEW q \in Requests, Return(q), UNCHANGED <<contract, current, employee>>
  PROVE  IInv'
<1>1. RequestOK(Idle) /\ Idle.pc = "idle" /\ Idle.op = "start"
  BY DEF RequestOK, Idle
<1> QED BY <1>1, IdleType, MoveStep DEF Return

\* What is known of a row after any step that creates it or writes it.
LEMMA RowStep ==
  ASSUME IInv, NEW r \in Rows, NEW c \in Contracts, NEW q \in Requests, NEW s \in RequestStates,
         contract' = [contract EXCEPT ![r] = c], current' = r, UNCHANGED employee,
         request' = [request EXCEPT ![q] = s], RequestOK(s)',
         s.pc \in {"loaded", "updating"} => s.row \in Rows, s.op = "confirm" => s.paper \in Papers,
         c.status # "none", contract[r].status # "DOCUMENTED", HasPapers(c)
  PROVE  IInv'
<1>1. TypeOK'
  BY DEF IInv, TypeOK
<1>2. \A x \in Rows : /\ Exists(x) => Exists(x)'
                      /\ contract[x].status = "DOCUMENTED" => contract'[x].status = "DOCUMENTED"
                      /\ HasPapers(contract[x])'
  BY DEF Exists, IInv, TypeOK, ApprovalBacked, HasPapers
<1>3. \A p \in Requests : RequestOK(request[p])'
  BY <1>2, Others
<1>4. ApprovalBacked'
  BY <1>2 DEF IInv, ApprovalBacked
<1> QED BY <1>1, <1>3, <1>4 DEF IInv, Exists, TypeOK

LEMMA CreateDraftStep ==
  ASSUME IInv, NEW q \in Requests, NEW r \in Rows, CreateDraft(q, r)
  PROVE  IInv'
<1>1. PICK draft \in Contracts : draft = [NoContract EXCEPT !.status = "NOT_STARTED"]
  BY DEF NoContract, Contracts, Statuses
<1>2. draft.status = "NOT_STARTED" /\ HasPapers(draft)
  BY <1>1 DEF NoContract, HasPapers
<1>3. RequestOK(request[q]) /\ request[q].pc = "creating" /\ request[q] \in RequestStates
  BY DEF CreateDraft, At, IInv, TypeOK
<1>4. PICK s \in RequestStates :
        s = [request[q] EXCEPT !.pc = "loaded", !.row = r, !.seen = draft]
  BY <1>3 DEF RequestStates
<1>5. s.pc = "loaded" /\ s.op = "start" /\ s.row = r /\ s.seen = draft
  BY <1>3, <1>4 DEF RequestOK, RequestStates
<1>6. contract' = [contract EXCEPT ![r] = draft]
  BY <1>1 DEF CreateDraft
<1>7. request' = [request EXCEPT ![q] = s]
  BY <1>1, <1>4 DEF CreateDraft, IInv, TypeOK
<1>8. RequestOK(s)'
  <2>1. Exists(r)'
    BY <1>2, <1>6 DEF Exists, IInv, TypeOK
  <2>2. Expected(s.op, s.seen) = "NOT_STARTED" /\ Target(s.op) = "IN_PROGRESS"
    BY <1>2, <1>5 DEF Expected, Target
  <2>3. RequestOK(s)' <=> Exists(s.row)' /\ Expected(s.op, s.seen) \in Statuses
                          /\ Target(s.op) \in ALLOWED[Expected(s.op, s.seen)]
    BY <1>5 DEF RequestOK
  <2> QED BY <1>5, <2>1, <2>2, <2>3 DEF ALLOWED, Statuses
<1>9. contract[r].status # "DOCUMENTED" /\ current' = r /\ UNCHANGED employee
  BY DEF CreateDraft
<1> QED BY <1>2, <1>5, <1>6, <1>7, <1>8, <1>9, RowStep

LEMMA RenewStep ==
  ASSUME IInv, NEW q \in Requests, NEW r \in Rows, Renew(q, r)
  PROVE  IInv'
<1> DEFINE c == [contract[r] EXCEPT !.status = "IN_PROGRESS"]
<1>1. c \in Contracts /\ c.status = "IN_PROGRESS" /\ HasPapers(c)
  BY DEF IInv, TypeOK, Contracts, Statuses, HasPapers
<1>2. contract' = [contract EXCEPT ![r] = c]
  BY DEF Renew
<1>3. RequestOK(Idle)' /\ Idle.pc = "idle" /\ Idle.op = "start"
  BY DEF RequestOK, Idle
<1> HIDE DEF c
<1> QED BY <1>1, <1>2, <1>3, IdleType, RowStep DEF Renew, Return

LEMMA WriteStep ==
  ASSUME IInv, NEW q \in Requests, Write(q)
  PROVE  IInv'
<1>1. PICK old : old = request[q]
  OBVIOUS
<1>2. PICK r : r = old.row
  OBVIOUS
<1>3. PICK c : c = Written(q, contract[r])
  OBVIOUS
<1>4. PICK s : s = IF old.op \in {"confirm", "approve"} THEN [old EXCEPT !.pc = "updating"] ELSE Idle
  OBVIOUS
<1>5. old \in RequestStates /\ r \in Rows /\ contract[r] \in Contracts /\ old.seen \in Contracts
      /\ old.op \in Ops /\ RequestOK(old) /\ old.pc = "loaded" /\ HasPapers(contract[r])
      /\ (old.op = "confirm" => old.paper \in Papers)
  BY <1>1, <1>2 DEF Write, At, IInv, TypeOK, ApprovalBacked, RequestStates
<1>6. /\ contract[r].status = Expected(old.op, old.seen)
      /\ Target(old.op) \in ALLOWED[contract[r].status]
      /\ contract[r].status \in Statuses
  BY <1>5, <1>1, <1>2 DEF Write, RequestOK
<1>7. /\ Target(old.op) \in Statuses
      /\ contract[r].status # "DOCUMENTED"
      /\ Target(old.op) \in {"PENDING_APPROVAL", "DOCUMENTED"} => old.op \in {"confirm", "approve"}
      /\ old.op = "approve" => contract[r].status = "PENDING_APPROVAL" /\ Target(old.op) = "DOCUMENTED"
  BY <1>5, <1>6, Moves
<1>8. c \in Contracts /\ c.status = Target(old.op)
  BY <1>5, <1>7, <1>1, <1>3 DEF Written, Contracts
<1>9. HasPapers(c)
  <2>1. CASE old.op = "confirm"
    BY <1>5, <2>1, <1>1, <1>3, NothingAssumption DEF Written, HasPapers
  <2>2. CASE old.op = "approve"
    BY <1>5, <1>7, <2>2, <1>1, <1>3 DEF Written, HasPapers, Contracts
  <2>3. CASE old.op \notin {"confirm", "approve"}
    BY <1>7, <1>8, <2>3 DEF HasPapers
  <2> QED BY <2>1, <2>2, <2>3
<1>10. s \in RequestStates
  BY <1>5, <1>4, IdleType DEF RequestStates
<1>11. contract' = [contract EXCEPT ![r] = c] /\ current' = r
  BY <1>1, <1>2, <1>3 DEF Write
<1>12. request' = [request EXCEPT ![q] = s]
  BY <1>1, <1>4 DEF Write, Return, IInv, TypeOK
<1>13. /\ s.op = "confirm" => s.paper \in Papers
       /\ s.pc \in {"loaded", "updating"} => s.pc = "updating" /\ s.row = r
                                             /\ s.op = old.op /\ s.op \in {"confirm", "approve"}
       /\ s.pc \in {"idle", "creating", "renewing"} => s = Idle
  BY <1>5, <1>2, <1>4 DEF Idle, RequestStates
<1>14. RequestOK(s)'
  <2>1. contract'[r] = c /\ c.status # "none"
    BY <1>5, <1>7, <1>8, <1>11 DEF IInv, TypeOK, Statuses
  <2>2. CASE s = Idle
    BY <2>2 DEF RequestOK, Idle
  <2>3. CASE s.pc = "updating"
    BY <1>7, <1>8, <1>13, <2>1, <2>3 DEF RequestOK, Exists, Idle
  <2>4. s.pc \in {"idle", "creating", "renewing", "loaded", "updating"}
    BY <1>10 DEF RequestStates
  <2> QED BY <1>13, <2>2, <2>3, <2>4
<1>15. c.status # "none" /\ (s.pc \in {"loaded", "updating"} => s.row \in Rows)
  BY <1>5, <1>7, <1>8, <1>13 DEF Statuses
<1>16. UNCHANGED employee /\ contract[r].status # "DOCUMENTED"
  BY <1>7 DEF Write
<1> QED BY <1>5, <1>8, <1>9, <1>10, <1>11, <1>12, <1>13, <1>14, <1>15, <1>16, RowStep

LEMMA UpdateStep ==
  ASSUME IInv, NEW q \in Requests, UpdateEmployee(q)
  PROVE  IInv'
<1> DEFINE s == request[q]
<1>1. s \in RequestStates /\ RequestOK(s) /\ s.pc = "updating" /\ s.row \in Rows
      /\ (s.op = "confirm" => s.paper \in Papers) /\ s.op \in {"confirm", "approve"}
  BY DEF UpdateEmployee, At, IInv, TypeOK, RequestOK
<1>2. TypeOK'
  <2>1. s.seen.reference \in Papers \cup {Nothing} /\ s.paper \in Papers \cup {Nothing}
    BY <1>1 DEF RequestStates, Contracts
  <2>2. employee' \in [reference : Papers \cup {Nothing}, approved : BOOLEAN]
    BY <1>1, <2>1 DEF UpdateEmployee, IInv, TypeOK
  <2>3. request' \in [Requests -> RequestStates]
    BY IdleType DEF UpdateEmployee, Return, IInv, TypeOK
  <2> QED BY <2>2, <2>3 DEF UpdateEmployee, Return, IInv, TypeOK, Idle
<1>3. ApprovalBacked'
  <2>1. employee'.approved => employee.approved \/ contract[s.row].status = "DOCUMENTED"
    BY <1>1 DEF UpdateEmployee, RequestOK, IInv, TypeOK
  <2> QED BY <1>1, <2>1 DEF UpdateEmployee, IInv, ApprovalBacked, HasPapers
<1>4. RequestOK(Idle)'
  BY DEF RequestOK, Idle
<1>5. \A p \in Requests : RequestOK(request[p])'
  BY <1>4, Others DEF UpdateEmployee, Return, Exists
<1> QED BY <1>2, <1>3, <1>5 DEF UpdateEmployee, IInv, Exists

LEMMA Inductive == IInv /\ [Next]_vars => IInv'
<1> SUFFICES ASSUME IInv, [Next]_vars PROVE IInv'
  OBVIOUS
<1>1. ASSUME NEW q \in Requests, NEW op \in Ops, NEW p \in Papers \cup {Nothing}, Load(q, op, p)
      PROVE  IInv'
  BY <1>1, LoadStep
<1>2. ASSUME NEW q \in Requests, StartLoad(q) PROVE IInv'
  BY <1>2, StartLoadStep
<1>3. ASSUME NEW q \in Requests, NEW r \in Rows, CreateDraft(q, r) PROVE IInv'
  BY <1>3, CreateDraftStep
<1>4. ASSUME NEW q \in Requests, NEW r \in Rows, Renew(q, r) PROVE IInv'
  BY <1>4, RenewStep
<1>5. ASSUME NEW q \in Requests, Write(q) PROVE IInv'
  BY <1>5, WriteStep
<1>6. ASSUME NEW q \in Requests, WriteRefused(q) \/ Fail(q) PROVE IInv'
  BY <1>6, ReturnStep DEF WriteRefused, Fail
<1>7. ASSUME NEW q \in Requests, UpdateEmployee(q) PROVE IInv'
  BY <1>7, UpdateStep
<1>8. CASE UNCHANGED vars
  BY <1>8 DEF vars, IInv, TypeOK, ApprovalBacked, HasPapers, RequestOK, Exists
<1> QED BY <1>1, <1>2, <1>3, <1>4, <1>5, <1>6, <1>7, <1>8 DEF Next

\* The inductive invariant holds throughout.
THEOREM Invariance == Spec => []IInv
BY Initially, Inductive, PTL DEF Spec

\* The variables of QiwaContract keep their types.
THEOREM TypeInvariant == Spec => []TypeOK
<1>1. IInv => TypeOK
  BY DEF IInv
<1> QED BY <1>1, Invariance, PTL

(***************************************************************************)
(* An employee is approved only with a documented contract, and a contract *)
(* is under review or documented only with its papers, however many        *)
(* requests overlap and fail.                                              *)
(***************************************************************************)
THEOREM Approval == Spec => []ApprovalBacked
<1>1. IInv => ApprovalBacked
  BY DEF IInv
<1> QED BY <1>1, Invariance, PTL

(***************************************************************************)
(* Contracts move only along ALLOWED, and a documented one never changes:  *)
(* the where clauses of the writes are enough, without a transaction.      *)
(***************************************************************************)
THEOREM Workflow == Spec => FollowsWorkflow
<1>1. ASSUME IInv, [Next]_vars, NEW r \in Rows
      PROVE  Follows(contract[r], contract'[r])
  <2> USE DEF Follows
  <2>1. ASSUME NEW q \in Requests, Write(q) PROVE Follows(contract[r], contract'[r])
    <3> DEFINE s == request[q]
    <3>1. s \in RequestStates /\ s.row \in Rows /\ contract \in [Rows -> Contracts] /\ RequestOK(s)
          /\ s.pc = "loaded"
      BY <1>1, <2>1 DEF Write, At, IInv, TypeOK
    <3>2. contract[s.row].status = Expected(s.op, s.seen) /\ Exists(s.row)
      BY <2>1, <3>1 DEF Write, RequestOK
    <3>3. Target(s.op) \in ALLOWED[contract[s.row].status]
      BY <3>1, <3>2 DEF RequestOK
    <3>4. Written(q, contract[s.row]).status = Target(s.op)
      BY <3>1 DEF Written, Contracts, RequestStates
    <3>5. CASE r = s.row
      BY <2>1, <3>1, <3>2, <3>3, <3>4, <3>5 DEF Write, Exists
    <3>6. CASE r # s.row
      BY <2>1, <3>1, <3>6 DEF Write
    <3> QED BY <3>5, <3>6
  <2>2. ASSUME NEW q \in Requests, NEW x \in Rows, CreateDraft(q, x) \/ Renew(q, x)
        PROVE  Follows(contract[r], contract'[r])
    BY <1>1, <2>2 DEF CreateDraft, Renew, NoContract, IInv, TypeOK, Contracts
  <2>3. ASSUME UNCHANGED contract PROVE Follows(contract[r], contract'[r])
    BY <2>3
  <2> QED BY <1>1, <2>1, <2>2, <2>3
          DEF Next, Load, StartLoad, WriteRefused, UpdateEmployee, Fail, vars
<1>2. IInv /\ [Next]_vars => [\A r \in Rows : Follows(contract[r], contract'[r])]_vars
  BY <1>1
<1> QED BY <1>2, Invariance, PTL DEF Spec, FollowsWorkflow

-----------------------------------------------------------------------------
(* EmployeeWallet. *)

\* What a call holds fits what it does; a voucher's kind never changes once it has one.
CallOK(s) ==
  /\ s.pc = "asking" => s.kind \in {"advance", "withdrawal"} /\ s.amount \in Amounts
  /\ s.pc = "deciding" => /\ s.p \in Vouchers
                          /\ s.status \in StatusesOf[voucher[s.p].kind] \ {"none", "PENDING"}
  /\ s.pc = "debiting" => s.p \in Vouchers

WalletInv ==
  /\ WalletTypeOK
  /\ \A p \in Vouchers : voucher[p].kind # "none" => voucher[p].amount > 0
  /\ \A q \in Calls : CallOK(call[q])

\* The entry that s is about to write credits p.
Pays(s, p) == s.pc \in {"applying", "writing"} /\ s.p = p /\ s.amount > 0

\* The books of the wallet, when s is the only call that is being served.
Settled(s) ==
  /\ total = IF s.pc = "opening" THEN InWallet - s.amount ELSE InWallet
  /\ s.pc \in {"opening", "writing"} => balance # Null
  /\ s.pc = "writing" => s.next = balance + s.amount
  /\ s.pc = "deciding" => s.seen = voucher[s.p].status
  /\ s.pc \in {"applying", "writing"} /\ s.p \in Vouchers /\ s.amount <= 0 => entries[s.p].debits = 0
  /\ \A p \in Vouchers :
       voucher[p].kind = "advance" /\ voucher[p].status \in {"APPROVED", "PAID"}
         => entries[p].credits > 0 \/ Pays(s, p)

\* As long as calls are served one after the other, no voucher has been debited
\* twice, and the books of the call that is being served are settled.
WalletKept ==
  serial =>
    /\ \A p, q \in Calls : ~CallAt(p, "idle") /\ ~CallAt(q, "idle") => p = q
    /\ \A p \in Vouchers : entries[p].debits <= 1
    /\ Quiescent => Settled(NoCall)
    /\ \A q \in Calls : ~CallAt(q, "idle") => Settled(call[q])

LEMMA NoCallType == NoCall \in CallStates /\ NoCall.pc = "idle" /\ CallOK(NoCall)
BY DEF NoCall, CallStates, VoucherStatuses, StatusesOf, CallOK

\* The kinds and their statuses, once for all.
LEMMA VoucherKinds ==
  /\ \A k \in DOMAIN StatusesOf : StatusesOf[k] \subseteq VoucherStatuses
  /\ DOMAIN StatusesOf = {"none", "advance", "withdrawal", "payroll"}
  /\ \A k \in {"advance", "withdrawal"} :
       StatusesOf[k] = {"PENDING", "APPROVED", "REJECTED", "PAID"}
  /\ StatusesOf["none"] = {"none"} /\ StatusesOf["payroll"] = {"DRAFT", "PAID"}
<1>1. DOMAIN StatusesOf = {"none", "advance", "withdrawal", "payroll"}
      /\ StatusesOf["none"] = {"none"} /\ StatusesOf["payroll"] = {"DRAFT", "PAID"}
      /\ StatusesOf["advance"] = {"PENDING", "APPROVED", "REJECTED", "PAID"}
      /\ StatusesOf["withdrawal"] = {"PENDING", "APPROVED", "REJECTED", "PAID"}
  BY DEF StatusesOf
<1>2. \A k \in DOMAIN StatusesOf : StatusesOf[k] \subseteq VoucherStatuses
  BY Zenon DEF VoucherStatuses
<1> QED BY <1>1, <1>2

\* A step that puts one call into state s, or ends it, and changes no kind of a voucher.
LEMMA CallStep ==
  ASSUME WalletInv, NEW q \in Calls, NEW s \in CallStates, call' = [call EXCEPT ![q] = s],
         CallOK(s)', balance' \in Nat \cup {Null},
         voucher' \in [Vouchers -> VoucherRows],
         \A p \in Vouchers : /\ voucher'[p].status \in StatusesOf[voucher'[p].kind]
                             /\ voucher'[p].kind # "none" => voucher'[p].amount > 0
                             /\ voucher[p].kind # "none" => voucher'[p].kind = voucher[p].kind,
         entries' \in [Vouchers -> [credits : Nat, debits : Nat]],
         total' \in Int, serial' \in BOOLEAN
  PROVE  WalletInv'
<1>1. WalletTypeOK'
  BY DEF WalletInv, WalletTypeOK
<1>2. ASSUME NEW p \in Calls PROVE CallOK(call[p])'
  <2>1. CASE p = q
    <3>1. call'[p] = s
      BY <2>1 DEF WalletInv, WalletTypeOK
    <3> QED BY <3>1 DEF CallOK
  <2>2. CASE p # q
    <3>1. PICK t : t = call[p]
      OBVIOUS
    <3>2. call'[p] = t /\ CallOK(t)
      BY <2>2, <3>1 DEF WalletInv, WalletTypeOK
    <3>3. t.pc = "deciding" => voucher[t.p].kind # "none"
      BY <3>2, VoucherKinds DEF CallOK
    <3> QED BY <3>2, <3>3 DEF CallOK
  <2> QED BY <2>1, <2>2
<1> QED BY <1>1, <1>2 DEF WalletInv

\* A step of a call that leaves the vouchers alone.
LEMMA VouchersAlone ==
  ASSUME WalletInv, NEW q \in Calls, NEW s \in CallStates, call' = [call EXCEPT ![q] = s],
         CallOK(s), UNCHANGED voucher, balance' \in Nat \cup {Null},
         entries' \in [Vouchers -> [credits : Nat, debits : Nat]],
         total' \in Int, serial' \in BOOLEAN
  PROVE  WalletInv'
<1>1. CallOK(s)'
  BY DEF CallOK
<1>2. \A p \in Vouchers : /\ voucher'[p].status \in StatusesOf[voucher'[p].kind]
                          /\ voucher'[p].kind # "none" => voucher'[p].amount > 0
                          /\ voucher[p].kind # "none" => voucher'[p].kind = voucher[p].kind
  BY DEF WalletInv, WalletTypeOK
<1> QED BY <1>1, <1>2, CallStep DEF WalletInv, WalletTypeOK

LEMMA WalletBeginStep ==
  ASSUME WalletInv, NEW q \in Calls, NEW s \in CallStates, Begin(q, s), CallOK(s),
         UNCHANGED <<voucher, entries, total>>, balance' \in Nat \cup {Null}
  PROVE  WalletInv'
<1>1. serial' \in BOOLEAN
  BY DEF Begin, WalletInv, WalletTypeOK, Quiescent, CallAt
<1> QED BY <1>1, VouchersAlone DEF Begin, WalletInv, WalletTypeOK

LEMMA AskStep ==
  ASSUME WalletInv, NEW q \in Calls, NEW kind \in {"advance", "withdrawal"}, NEW n \in Amounts,
         Ask(q, kind, n)
  PROVE  WalletInv'
<1>1. PICK s : s = [NoCall EXCEPT !.pc = "asking", !.kind = kind, !.amount = n]
  OBVIOUS
<1>2. n \in Int
  BY WalletAssumption
<1>3. s \in CallStates /\ s.pc = "asking" /\ s.kind = kind /\ s.amount = n
  BY <1>1, <1>2, NoCallType, VoucherKinds DEF CallStates
<1>4. CallOK(s)
  BY <1>3 DEF CallOK
<1>5. Begin(q, s)
  BY <1>1, Zenon DEF Ask
<1> QED BY <1>3, <1>4, <1>5, WalletBeginStep DEF Ask, WalletInv, WalletTypeOK

LEMMA DecideStep ==
  ASSUME WalletInv, NEW q \in Calls, NEW p \in Vouchers, NEW status \in VoucherStatuses,
         Decide(q, p, status)
  PROVE  WalletInv'
<1>1. PICK seen : seen = voucher[p].status
  OBVIOUS
<1>2. PICK s : s = [NoCall EXCEPT !.pc = "deciding", !.p = p, !.seen = seen, !.status = status]
  OBVIOUS
<1>3. seen \in VoucherStatuses
  BY <1>1 DEF WalletInv, WalletTypeOK, VoucherRows
<1>4. s \in CallStates /\ s.pc = "deciding" /\ s.p = p /\ s.seen = seen /\ s.status = status
  BY <1>2, <1>3, NoCallType DEF CallStates
<1>5. CallOK(s)
  BY <1>4 DEF CallOK, Decide
<1>6. Begin(q, s)
  BY <1>1, <1>2, Zenon DEF Decide
<1> QED BY <1>4, <1>5, <1>6, WalletBeginStep DEF Decide, WalletInv, WalletTypeOK

LEMMA UpsertStep ==
  ASSUME WalletInv, NEW q \in Calls, NEW target \in 0 .. MaxBalance, UpsertEwallet(q, target)
  PROVE  WalletInv'
<1>1. target \in Nat /\ target \in Int
  BY WalletAssumption
<1>2. ASSUME balance = Null, target > 0 PROVE WalletInv'
  <2>1. PICK s : s = [NoCall EXCEPT !.pc = "opening", !.amount = target]
    OBVIOUS
  <2>2. s \in CallStates /\ s.pc = "opening"
    <3>1. target \in Int
      BY <1>1
    <3> QED BY <2>1, <3>1, NoCallType DEF CallStates
  <2>3. CallOK(s)
    BY <2>2 DEF CallOK
  <2>4. Begin(q, s) /\ balance' = target /\ UNCHANGED <<voucher, entries, total>>
    BY <1>2, <2>1, Zenon DEF UpsertEwallet
  <2> QED BY <1>1, <2>2, <2>3, <2>4, WalletBeginStep
<1>3. ASSUME balance = Null, ~(target > 0) PROVE WalletInv'
  <2>1. balance' \in Nat /\ UNCHANGED <<voucher, entries, call, total, serial>>
    BY <1>1, <1>3 DEF UpsertEwallet
  <2>2. WalletTypeOK'
    BY <2>1 DEF WalletInv, WalletTypeOK
  <2>3. \A r \in Calls : CallOK(call[r])'
    BY <2>1, Zenon DEF CallOK, WalletInv
  <2> QED BY <2>1, <2>2, <2>3 DEF WalletInv
<1>4. ASSUME balance # Null PROVE WalletInv'
  <2>1. PICK n : n = target - balance
    OBVIOUS
  <2>2. PICK s : s = [NoCall EXCEPT !.pc = "applying", !.amount = n]
    OBVIOUS
  <2>3. n \in Int
    BY <1>1, <1>4, <2>1 DEF WalletInv, WalletTypeOK
  <2>4. s \in CallStates /\ s.pc = "applying"
    BY <2>2, <2>3, NoCallType DEF CallStates
  <2>5. CallOK(s)
    BY <2>4 DEF CallOK
  <2>6. Begin(q, s) /\ UNCHANGED <<balance, voucher, entries, total>>
    BY <1>4, <2>1, <2>2, Zenon DEF UpsertEwallet
  <2> QED BY <2>4, <2>5, <2>6, WalletBeginStep DEF WalletInv, WalletTypeOK
<1> QED BY <1>2, <1>3, <1>4

\* A call that ends.
LEMMA EndStep ==
  ASSUME WalletInv, NEW q \in Calls, EndCall(q), UNCHANGED voucher, balance' \in Nat \cup {Null},
         entries' \in [Vouchers -> [credits : Nat, debits : Nat]],
         total' \in Int, serial' \in BOOLEAN
  PROVE  WalletInv'
BY NoCallType, VouchersAlone DEF EndCall

LEMMA CreateVoucherStep ==
  ASSUME WalletInv, NEW q \in Calls, NEW p \in Vouchers, CreateVoucher(q, p)
  PROVE  WalletInv'
<1>1. PICK x : x = [kind |-> call[q].kind, status |-> "PENDING", amount |-> call[q].amount]
  OBVIOUS
<1>2. call[q].kind \in {"advance", "withdrawal"} /\ call[q].amount \in Amounts
  BY DEF CreateVoucher, CallAt, WalletInv, CallOK
<1>3. \A n \in Amounts : n \in Nat /\ n > 0
  <2> SUFFICES ASSUME NEW n \in Amounts PROVE n \in Nat /\ n > 0
    OBVIOUS
  <2>1. Amounts \subseteq Nat \ {0}
    BY WalletAssumption
  <2> QED BY <2>1
<1>4. x \in VoucherRows /\ x.status \in StatusesOf[x.kind] /\ x.amount > 0
  <2>1. call[q].amount \in Nat /\ call[q].amount > 0
    BY <1>2, <1>3
  <2>2. x.status = "PENDING" /\ x.kind \in {"advance", "withdrawal"} /\ x.amount = call[q].amount
    BY <1>1, <1>2
  <2>3. x.status \in StatusesOf[x.kind] /\ x.kind \in DOMAIN StatusesOf
    BY <2>2, VoucherKinds
  <2>4. "PENDING" \in VoucherStatuses
    <3>1. "PENDING" \in StatusesOf["advance"] /\ "advance" \in DOMAIN StatusesOf
      BY VoucherKinds
    <3> QED BY <3>1 DEF VoucherStatuses
  <2> QED BY <1>1, <2>1, <2>2, <2>3, <2>4 DEF VoucherRows
<1>5. voucher' = [voucher EXCEPT ![p] = x] /\ voucher[p].kind = "none"
  BY <1>1 DEF CreateVoucher
<1>6. voucher' \in [Vouchers -> VoucherRows]
  BY <1>4, <1>5 DEF WalletInv, WalletTypeOK
<1>7. \A v \in Vouchers : /\ voucher'[v].status \in StatusesOf[voucher'[v].kind]
                          /\ voucher'[v].kind # "none" => voucher'[v].amount > 0
                          /\ voucher[v].kind # "none" => voucher'[v].kind = voucher[v].kind
  BY <1>4, <1>5 DEF WalletInv, WalletTypeOK
<1>8. CallOK(NoCall)'
  BY NoCallType DEF CallOK
<1> QED BY <1>6, <1>7, <1>8, NoCallType, CallStep DEF CreateVoucher, EndCall, WalletInv, WalletTypeOK

LEMMA CreatePayrollStep ==
  ASSUME WalletInv, NEW p \in Vouchers, NEW n \in Amounts, CreatePayroll(p, n)
  PROVE  WalletInv'
<1>1. PICK x : x = [kind |-> "payroll", status |-> "DRAFT", amount |-> n]
  OBVIOUS
<1>2. n \in Nat /\ n > 0
  <2>1. Amounts \subseteq Nat \ {0}
    BY WalletAssumption
  <2> QED BY <2>1
<1>3. x \in VoucherRows /\ x.status \in StatusesOf[x.kind] /\ x.amount > 0
  BY <1>1, <1>2, VoucherKinds DEF VoucherRows
<1>4. voucher' = [voucher EXCEPT ![p] = x] /\ voucher[p].kind = "none"
      /\ UNCHANGED <<balance, entries, call, total, serial>>
  BY <1>1 DEF CreatePayroll
<1>5. WalletTypeOK'
  BY <1>3, <1>4 DEF WalletInv, WalletTypeOK
<1>6. \A v \in Vouchers : /\ voucher'[v].kind # "none" => voucher'[v].amount > 0
                          /\ voucher[v].kind # "none" => voucher'[v] = voucher[v]
  BY <1>3, <1>4 DEF WalletInv, WalletTypeOK
<1>7. ASSUME NEW q \in Calls PROVE CallOK(call[q])'
  <2>1. PICK t : t = call[q]
    OBVIOUS
  <2>2. CallOK(t) /\ call'[q] = t
    BY <1>4, <2>1 DEF WalletInv
  <2>3. t.pc = "deciding" => voucher[t.p].kind # "none"
    BY <2>2, VoucherKinds DEF CallOK
  <2> QED BY <1>6, <2>2, <2>3 DEF CallOK
<1> QED BY <1>5, <1>6, <1>7 DEF WalletInv

LEMMA WriteStatusStep ==
  ASSUME WalletInv, NEW q \in Calls, WriteStatus(q)
  PROVE  WalletInv'
<1>1. PICK old : old = call[q]
  OBVIOUS
<1>2. old \in CallStates /\ CallOK(old) /\ old.pc = "deciding"
  BY <1>1 DEF WriteStatus, CallAt, WalletInv, WalletTypeOK
<1>3. PICK p, status : p = old.p /\ status = old.status
  OBVIOUS
<1>4. PICK y : y = voucher[p]
  OBVIOUS
<1>5. PICK x : x = [y EXCEPT !.status = status]
  OBVIOUS
<1>6. p \in Vouchers /\ y \in VoucherRows /\ status \in StatusesOf[y.kind]
      /\ (y.kind # "none" => y.amount > 0) /\ y.amount \in Int
  BY <1>2, <1>3, <1>4 DEF CallOK, WalletInv, WalletTypeOK, VoucherRows
<1>7. x \in VoucherRows /\ x.kind = y.kind /\ x.status = status /\ x.amount = y.amount
  BY <1>5, <1>6, VoucherKinds DEF VoucherRows
<1>8. voucher' = [voucher EXCEPT ![p] = x]
  BY <1>1, <1>3, <1>4, <1>5 DEF WriteStatus, WalletInv, WalletTypeOK
<1>9. voucher' \in [Vouchers -> VoucherRows]
  BY <1>6, <1>7, <1>8 DEF WalletInv, WalletTypeOK
<1>10. \A v \in Vouchers : /\ voucher'[v].status \in StatusesOf[voucher'[v].kind]
                           /\ voucher'[v].kind # "none" => voucher'[v].amount > 0
                           /\ voucher[v].kind # "none" => voucher'[v].kind = voucher[v].kind
  BY <1>4, <1>6, <1>7, <1>8 DEF WalletInv, WalletTypeOK
<1>11. PICK s \in CallStates : call' = [call EXCEPT ![q] = s] /\ CallOK(s)'
  <2>1. CASE call' = [call EXCEPT ![q].pc = "applying", ![q].amount = voucher[old.p].amount]
    <3>1. PICK s : s = [old EXCEPT !.pc = "applying", !.amount = y.amount]
      OBVIOUS
    <3>2. s \in CallStates /\ s.pc = "applying"
      BY <1>2, <1>6, <3>1 DEF CallStates
    <3>3. call' = [call EXCEPT ![q] = s]
      BY <1>1, <1>3, <1>4, <2>1, <3>1 DEF WalletInv, WalletTypeOK
    <3>4. CallOK(s)'
      BY <3>2 DEF CallOK
    <3> QED BY <3>2, <3>3, <3>4
  <2>2. CASE Goes(q, "debiting")
    <3>1. PICK s : s = [old EXCEPT !.pc = "debiting"]
      OBVIOUS
    <3>2. s \in CallStates /\ s.pc = "debiting" /\ s.p = p
      BY <1>2, <1>3, <3>1 DEF CallStates
    <3>3. call' = [call EXCEPT ![q] = s]
      BY <1>1, <2>2, <3>1 DEF Goes, WalletInv, WalletTypeOK
    <3>4. CallOK(s)'
      BY <1>6, <3>2 DEF CallOK
    <3> QED BY <3>2, <3>3, <3>4
  <2>3. CASE EndCall(q)
    <3>1. CallOK(NoCall)'
      BY NoCallType DEF CallOK
    <3> QED BY <2>3, <3>1, NoCallType DEF EndCall
  <2> QED BY <1>1, <2>1, <2>2, <2>3, Zenon DEF WriteStatus
<1> QED BY <1>9, <1>10, <1>11, CallStep DEF WriteStatus, WalletInv, WalletTypeOK

LEMMA DebitStep ==
  ASSUME WalletInv, NEW q \in Calls, DebitEmployeeWallet(q)
  PROVE  WalletInv'
<1>1. CASE EndCall(q)
  BY <1>1, EndStep DEF DebitEmployeeWallet, WalletInv, WalletTypeOK
<1>2. CASE ~EndCall(q)
  <2>1. PICK old : old = call[q]
    OBVIOUS
  <2>2. old \in CallStates /\ old.p \in Vouchers
    BY <2>1 DEF DebitEmployeeWallet, CallAt, WalletInv, WalletTypeOK, CallOK
  <2>3. PICK n : n = -voucher[old.p].amount
    OBVIOUS
  <2>4. n \in Int
    BY <2>2, <2>3 DEF WalletInv, WalletTypeOK, VoucherRows
  <2>5. PICK s : s = [old EXCEPT !.pc = "applying", !.amount = n]
    OBVIOUS
  <2>6. s \in CallStates /\ s.pc = "applying"
    BY <2>2, <2>4, <2>5 DEF CallStates
  <2>7. call' = [call EXCEPT ![q] = s]
    BY <1>2, <2>1, <2>3, <2>5 DEF DebitEmployeeWallet, WalletInv, WalletTypeOK
  <2>8. CallOK(s)
    BY <2>6 DEF CallOK
  <2> QED BY <2>6, <2>7, <2>8, VouchersAlone DEF DebitEmployeeWallet, WalletInv, WalletTypeOK
<1> QED BY <1>1, <1>2

LEMMA ApplyStep ==
  ASSUME WalletInv, NEW q \in Calls, ApplyEwalletDelta(q)
  PROVE  WalletInv'
<1>1. PICK next : next = InWallet + call[q].amount
  OBVIOUS
<1>2. InWallet \in Nat /\ call[q].amount \in Int
  BY DEF InWallet, WalletInv, WalletTypeOK, CallStates
<1>3. CASE next < 0
  BY <1>1, <1>3, EndStep DEF ApplyEwalletDelta, WalletInv, WalletTypeOK
<1>4. CASE ~(next < 0)
  <2>1. next \in Nat
    BY <1>1, <1>2, <1>4
  <2>2. PICK old : old = call[q]
    OBVIOUS
  <2>3. PICK s : s = [old EXCEPT !.pc = "writing", !.next = next]
    OBVIOUS
  <2>4. old \in CallStates
    BY <2>2 DEF WalletInv, WalletTypeOK
  <2>5. s \in CallStates /\ s.pc = "writing"
    BY <2>1, <2>3, <2>4 DEF CallStates
  <2>6. call' = [call EXCEPT ![q] = s] /\ balance' = InWallet
    BY <1>1, <1>4, <2>2, <2>3 DEF ApplyEwalletDelta, WalletInv, WalletTypeOK
  <2>7. CallOK(s)
    BY <2>5 DEF CallOK
  <2> QED BY <1>2, <2>5, <2>6, <2>7, VouchersAlone DEF ApplyEwalletDelta, WalletInv, WalletTypeOK
<1> QED BY <1>3, <1>4

\* What is entered keeps the total an integer.
LEMMA EnterType == ASSUME WalletTypeOK, NEW n \in Int, Enter(n)  PROVE total' \in Int
BY DEF Enter, WalletTypeOK

\* The entry that a write adds, and the balance it writes.
LEMMA EntryWritten ==
  ASSUME WalletInv, NEW q \in Calls, WriteWallet(q)
  PROVE  /\ balance' = call[q].next /\ balance' \in Nat /\ call[q].amount \in Int
         /\ \/ call[q].p = Null /\ entries' = entries
            \/ /\ call[q].p \in Vouchers
               /\ \E e \in [credits : Nat, debits : Nat] :
                    /\ entries' = [entries EXCEPT ![call[q].p] = e]
                    /\ IF call[q].amount > 0
                       THEN /\ e.credits = entries[call[q].p].credits + 1
                            /\ e.debits = entries[call[q].p].debits
                       ELSE /\ e.credits = entries[call[q].p].credits
                            /\ e.debits = entries[call[q].p].debits + 1
<1>1. PICK s : s = call[q]
  OBVIOUS
<1>2. s \in CallStates
  BY <1>1 DEF WalletInv, WalletTypeOK
<1>3. s.next \in Nat /\ s.amount \in Int /\ s.p \in Vouchers \cup {Null} /\ balance' = s.next
  BY <1>1, <1>2 DEF CallStates, WriteWallet
<1>4. CASE s.p = Null
  BY <1>1, <1>3, <1>4 DEF WriteWallet
<1>5. CASE s.p # Null
  <2>1. PICK old : old = entries[s.p]
    OBVIOUS
  <2>2. old \in [credits : Nat, debits : Nat]
    BY <1>3, <1>5, <2>1 DEF WalletInv, WalletTypeOK
  <2>3. PICK e : e = IF s.amount > 0 THEN [old EXCEPT !.credits = @ + 1]
                     ELSE [old EXCEPT !.debits = @ + 1]
    OBVIOUS
  <2>4. entries' = [entries EXCEPT ![s.p] = e]
    BY <1>1, <1>5, <2>1, <2>3, Zenon DEF WriteWallet
  <2>5. /\ e \in [credits : Nat, debits : Nat]
        /\ IF s.amount > 0 THEN e.credits = old.credits + 1 /\ e.debits = old.debits
           ELSE e.credits = old.credits /\ e.debits = old.debits + 1
    BY <2>2, <2>3
  <2> QED BY <1>1, <1>3, <1>5, <2>1, <2>4, <2>5
<1> QED BY <1>4, <1>5

LEMMA WriteWalletStep ==
  ASSUME WalletInv, NEW q \in Calls, WriteWallet(q)
  PROVE  WalletInv'
<1>1. balance' \in Nat /\ call[q].amount \in Int
  BY EntryWritten
<1>2. entries' \in [Vouchers -> [credits : Nat, debits : Nat]]
  BY EntryWritten DEF WalletInv, WalletTypeOK
<1>3. total' \in Int
  BY <1>1, EnterType DEF WriteWallet, WalletInv
<1> QED BY <1>1, <1>2, <1>3, EndStep DEF WriteWallet, WalletInv, WalletTypeOK

LEMMA EndingStep ==
  ASSUME WalletInv, NEW q \in Calls,
         ReferenceTooLong(q) \/ WriteOpening(q) \/ CallFails(q)
  PROVE  WalletInv'
<1>1. CASE ReferenceTooLong(q)
  BY <1>1, EndStep DEF ReferenceTooLong, WalletInv, WalletTypeOK
<1>2. CASE WriteOpening(q)
  <2>1. call[q].amount \in Int
    BY DEF WalletInv, WalletTypeOK, CallStates
  <2>2. total' \in Int
    BY <1>2, <2>1, EnterType DEF WriteOpening, WalletInv
  <2> QED BY <1>2, <2>2, EndStep DEF WriteOpening, WalletInv, WalletTypeOK
<1>3. CASE CallFails(q)
  <2>1. serial' \in BOOLEAN
    BY <1>3 DEF CallFails, WalletInv, WalletTypeOK
  <2> QED BY <1>3, <2>1, EndStep DEF CallFails, WalletInv, WalletTypeOK
<1> QED BY <1>1, <1>2, <1>3

LEMMA WalletInitially == WalletInit => WalletInv
<1> SUFFICES ASSUME WalletInit PROVE WalletInv
  OBVIOUS
<1>1. NoVoucher \in VoucherRows /\ NoVoucher.kind = "none" /\ NoVoucher.status \in StatusesOf[NoVoucher.kind]
  BY VoucherKinds DEF NoVoucher, VoucherRows
<1>2. \A p \in Vouchers : voucher[p] = NoVoucher
  BY DEF WalletInit
<1>3. \A q \in Calls : call[q] = NoCall
  BY DEF WalletInit
<1>4. WalletTypeOK
  BY <1>1, NoCallType DEF WalletInit, WalletTypeOK
<1> QED BY <1>1, <1>2, <1>3, <1>4, NoCallType DEF WalletInv

LEMMA WalletInductive == WalletInv /\ [WalletNext]_walletVars => WalletInv'
<1> SUFFICES ASSUME WalletInv, [WalletNext]_walletVars PROVE WalletInv'
  OBVIOUS
<1>1. ASSUME NEW p \in Vouchers, NEW n \in Amounts, CreatePayroll(p, n) PROVE WalletInv'
  BY <1>1, CreatePayrollStep
<1>2. ASSUME NEW q \in Calls, NEW kind \in {"advance", "withdrawal"}, NEW n \in Amounts, Ask(q, kind, n)
      PROVE  WalletInv'
  BY <1>2, AskStep
<1>3. ASSUME NEW q \in Calls, NEW p \in Vouchers,
             CreateVoucher(q, p) \/ \E status \in VoucherStatuses : Decide(q, p, status)
      PROVE  WalletInv'
  BY <1>3, CreateVoucherStep, DecideStep
<1>4. ASSUME NEW q \in Calls, \E target \in 0 .. MaxBalance : UpsertEwallet(q, target) PROVE WalletInv'
  BY <1>4, UpsertStep
<1>5. ASSUME NEW q \in Calls, \/ WriteStatus(q) \/ DebitEmployeeWallet(q) \/ ApplyEwalletDelta(q)
                              \/ WriteWallet(q) \/ ReferenceTooLong(q) \/ WriteOpening(q) \/ CallFails(q)
      PROVE  WalletInv'
  BY <1>5, WriteStatusStep, DebitStep, ApplyStep, WriteWalletStep, EndingStep
<1>6. CASE UNCHANGED walletVars
  BY <1>6 DEF walletVars, WalletInv, WalletTypeOK, CallOK
<1> QED BY <1>1, <1>2, <1>3, <1>4, <1>5, <1>6 DEF WalletNext

\* The inductive invariant holds throughout.
THEOREM WalletInvariance == WalletSpec => []WalletInv
BY WalletInitially, WalletInductive, PTL DEF WalletSpec

(***************************************************************************)
(* The balance is never negative, whatever decisions overlap.              *)
(***************************************************************************)
THEOREM WalletTypeInvariant == WalletSpec => []WalletTypeOK
<1>1. WalletInv => WalletTypeOK
  BY DEF WalletInv
<1> QED BY <1>1, WalletInvariance, PTL

\* While calls are served one after the other, a busy one is alone.
LEMMA CallAlone ==
  ASSUME WalletKept, serial, NEW q \in Calls, ~CallAt(q, "idle")
  PROVE  /\ \A p \in Calls : p # q => CallAt(p, "idle")
         /\ \A p \in Vouchers : entries[p].debits <= 1
         /\ Settled(call[q])
BY DEF WalletKept

\* A step that leaves one call, in state s, being served: or none.
LEMMA KeptStep ==
  ASSUME WalletInv, NEW q \in Calls, NEW s, call' = [call EXCEPT ![q] = s],
         s.pc = "idle" => s = NoCall,
         serial' => /\ \A p \in Calls : p # q => CallAt(p, "idle")
                    /\ \A p \in Vouchers : entries'[p].debits <= 1
                    /\ Settled(s)'
  PROVE  WalletKept'
<1>1. \A p \in Calls : call'[p] = IF p = q THEN s ELSE call[p]
  BY DEF WalletInv, WalletTypeOK
<1> SUFFICES ASSUME serial'
             PROVE  /\ \A p, r \in Calls : ~CallAt(p, "idle")' /\ ~CallAt(r, "idle")' => p = r
                    /\ Quiescent' => Settled(NoCall)'
                    /\ \A p \in Calls : ~CallAt(p, "idle")' => Settled(call[p])'
  BY DEF WalletKept
<1>2. \A p \in Calls : ~CallAt(p, "idle")' => p = q /\ s.pc # "idle"
  BY <1>1 DEF CallAt
<1>3. ASSUME Quiescent' PROVE Settled(NoCall)'
  <2>1. s.pc = "idle"
    BY <1>1, <1>3 DEF Quiescent, CallAt
  <2> QED BY <2>1
<1>4. ASSUME NEW p \in Calls, ~CallAt(p, "idle")' PROVE Settled(call[p])'
  <2>1. call'[p] = s
    BY <1>1, <1>2, <1>4
  <2> QED BY <2>1, Zenon DEF Settled, Pays
<1> QED BY <1>2, <1>3, <1>4

\* What a call has settled survives a step that changes none of it.
LEMMA SettledKept ==
  ASSUME NEW s, Settled(s), UNCHANGED <<balance, voucher, entries, total>>
  PROVE  Settled(s)'
BY DEF Settled, InWallet

LEMMA WalletBeginKept ==
  ASSUME WalletInv, WalletKept, NEW q \in Calls, NEW s, Begin(q, s),
         s.pc \in {"asking", "deciding", "applying"}, s.pc = "deciding" => s.seen = voucher[s.p].status,
         s.pc = "applying" => s.p = Null, UNCHANGED <<balance, voucher, entries, total>>
  PROVE  WalletKept'
<1>1. call' = [call EXCEPT ![q] = s] /\ (serial' => serial /\ Quiescent)
  BY DEF Begin
<1>2. ASSUME serial' PROVE Settled(s)'
  <2>1. Settled(NoCall)
    BY <1>1, <1>2 DEF WalletKept
  <2>2. Null \notin Vouchers
    BY WalletAssumption
  <2>3. Settled(s)
    BY <2>1, <2>2 DEF Settled, Pays, NoCall
  <2> QED BY <2>3, SettledKept
<1>3. ASSUME serial', NEW p \in Calls PROVE CallAt(p, "idle")
  BY <1>1, <1>3 DEF Quiescent
<1>4. ASSUME serial', NEW p \in Vouchers PROVE entries'[p].debits <= 1
  BY <1>1, <1>4 DEF WalletKept
<1> QED BY <1>1, <1>2, <1>3, <1>4, KeptStep

LEMMA AskKept ==
  ASSUME WalletInv, WalletKept, NEW q \in Calls, NEW kind, NEW n, Ask(q, kind, n)
  PROVE  WalletKept'
<1>1. PICK s : s = [NoCall EXCEPT !.pc = "asking", !.kind = kind, !.amount = n]
  OBVIOUS
<1>2. s.pc = "asking"
  BY <1>1 DEF NoCall
<1>3. Begin(q, s) /\ UNCHANGED <<balance, voucher, entries, total>>
  BY <1>1, Zenon DEF Ask
<1> QED BY <1>2, <1>3, WalletBeginKept

LEMMA DecideKept ==
  ASSUME WalletInv, WalletKept, NEW q \in Calls, NEW p \in Vouchers, NEW status, Decide(q, p, status)
  PROVE  WalletKept'
<1>1. PICK seen : seen = voucher[p].status
  OBVIOUS
<1>2. PICK s : s = [NoCall EXCEPT !.pc = "deciding", !.p = p, !.seen = seen, !.status = status]
  OBVIOUS
<1>3. s.pc = "deciding" /\ s.p = p /\ s.seen = seen
  BY <1>2 DEF NoCall
<1>4. Begin(q, s) /\ UNCHANGED <<balance, voucher, entries, total>>
  BY <1>1, <1>2, Zenon DEF Decide
<1> QED BY <1>1, <1>3, <1>4, WalletBeginKept

LEMMA UpsertKept ==
  ASSUME WalletInv, WalletKept, NEW q \in Calls, NEW target \in 0 .. MaxBalance, UpsertEwallet(q, target)
  PROVE  WalletKept'
<1>1. target \in Nat
  BY WalletAssumption
<1>2. target # Null
  <2>1. Null \notin Int
    BY WalletAssumption
  <2> QED BY <1>1, <2>1
<1>3. ASSUME balance = Null, target > 0 PROVE WalletKept'
  <2>1. PICK s : s = [NoCall EXCEPT !.pc = "opening", !.amount = target]
    OBVIOUS
  <2>2. s.pc = "opening" /\ s.amount = target
    BY <2>1 DEF NoCall
  <2>3. Begin(q, s) /\ balance' = target /\ UNCHANGED <<voucher, entries, total>>
    BY <1>3, <2>1, Zenon DEF UpsertEwallet
  <2>4. call' = [call EXCEPT ![q] = s] /\ (serial' => serial /\ Quiescent)
    BY <2>3 DEF Begin
  <2>5. ASSUME serial' PROVE Settled(s)'
    <3>1. Settled(NoCall)
      BY <2>4, <2>5 DEF WalletKept
    <3>2. total = 0
      BY <1>3, <3>1 DEF Settled, NoCall, InWallet
    <3>3. total' = InWallet' - s.amount
      BY <1>1, <1>2, <2>2, <2>3, <3>2 DEF InWallet
    <3> QED BY <1>2, <2>2, <2>3, <3>1, <3>3 DEF Settled, Pays, NoCall
  <2>6. ASSUME serial', NEW p \in Calls PROVE CallAt(p, "idle")
    BY <2>4, <2>6 DEF Quiescent
  <2>7. ASSUME serial', NEW p \in Vouchers PROVE entries'[p].debits <= 1
    BY <2>3, <2>4, <2>7 DEF WalletKept
  <2> QED BY <2>2, <2>4, <2>5, <2>6, <2>7, KeptStep
<1>4. ASSUME balance = Null, ~(target > 0) PROVE WalletKept'
  <2>1. target = 0
    BY <1>1, <1>4
  <2>2. balance' = 0 /\ UNCHANGED <<voucher, entries, call, total, serial>>
    BY <1>4, <2>1 DEF UpsertEwallet
  <2>3. InWallet = 0 /\ InWallet' = 0
    BY <1>4, <2>2 DEF InWallet
  <2>4. ASSUME NEW s, Settled(s) PROVE Settled(s)'
    <3>1. s.pc \notin {"opening", "writing"} /\ total = InWallet
      BY <1>4, <2>4 DEF Settled
    <3> QED BY <2>2, <2>3, <2>4, <3>1 DEF Settled
  <2>5. ASSUME NEW p \in Calls, Settled(call[p]) PROVE Settled(call[p])'
    <3>1. PICK s : s = call[p]
      OBVIOUS
    <3>2. Settled(s)' /\ call'[p] = s
      BY <2>2, <2>4, <2>5, <3>1
    <3> QED BY <3>2, Zenon DEF Settled, Pays
  <2>6. \A p \in Calls : CallAt(p, "idle")' <=> CallAt(p, "idle")
    BY <2>2 DEF CallAt
  <2>7. Quiescent' => Quiescent
    BY <2>6 DEF Quiescent
  <2> QED BY <2>2, <2>4, <2>5, <2>6, <2>7 DEF WalletKept
<1>5. ASSUME balance # Null PROVE WalletKept'
  <2>1. PICK n : n = target - balance
    OBVIOUS
  <2>2. PICK s : s = [NoCall EXCEPT !.pc = "applying", !.amount = n]
    OBVIOUS
  <2>3. s.pc = "applying" /\ s.p = Null
    BY <2>2 DEF NoCall
  <2>4. Begin(q, s) /\ UNCHANGED <<balance, voucher, entries, total>>
    BY <1>5, <2>1, <2>2, Zenon DEF UpsertEwallet
  <2> QED BY <2>3, <2>4, WalletBeginKept
<1> QED BY <1>3, <1>4, <1>5

\* A call that ends, with its books settled.
LEMMA EndKept ==
  ASSUME WalletInv, WalletKept, NEW q \in Calls, ~CallAt(q, "idle"), EndCall(q), serial' => serial,
         serial' => \A p \in Vouchers : entries'[p].debits <= 1,
         serial' => Settled(NoCall)'
  PROVE  WalletKept'
<1>1. call' = [call EXCEPT ![q] = NoCall]
  BY DEF EndCall
<1>2. ASSUME serial', NEW p \in Calls, p # q PROVE CallAt(p, "idle")
  BY <1>2, CallAlone
<1> QED BY <1>1, <1>2, KeptStep

LEMMA CreateVoucherKept ==
  ASSUME WalletInv, WalletKept, NEW q \in Calls, NEW p \in Vouchers, CreateVoucher(q, p)
  PROVE  WalletKept'
<1>1. PICK x : x = [kind |-> call[q].kind, status |-> "PENDING", amount |-> call[q].amount]
  OBVIOUS
<1>2. /\ voucher' = [voucher EXCEPT ![p] = x] /\ EndCall(q) /\ call[q].pc = "asking"
      /\ UNCHANGED <<balance, entries, total, serial>>
  BY <1>1 DEF CreateVoucher, CallAt
<1>3. ~CallAt(q, "idle")
  BY <1>2 DEF CallAt
<1>4. ASSUME serial' PROVE Settled(NoCall)'
  <2>1. Settled(call[q])
    BY <1>2, <1>3, <1>4, CallAlone
  <2>2. \A v \in Vouchers : voucher'[v] = voucher[v] \/ voucher'[v].status = "PENDING"
    BY <1>1, <1>2 DEF WalletInv, WalletTypeOK
  <2>3. total' = InWallet'
    BY <1>2, <2>1 DEF Settled, InWallet
  <2>4. \A v \in Vouchers :
          voucher'[v].kind = "advance" /\ voucher'[v].status \in {"APPROVED", "PAID"}
            => entries'[v].credits > 0
    BY <1>2, <2>1, <2>2 DEF Settled, Pays
  <2> QED BY <2>3, <2>4 DEF Settled, NoCall
<1>5. ASSUME serial', NEW v \in Vouchers PROVE entries'[v].debits <= 1
  BY <1>2, <1>3, <1>5, CallAlone
<1> QED BY <1>2, <1>3, <1>4, <1>5, EndKept

LEMMA CreatePayrollKept ==
  ASSUME WalletInv, WalletKept, NEW p \in Vouchers, NEW n, CreatePayroll(p, n)
  PROVE  WalletKept'
<1>1. PICK x : x = [kind |-> "payroll", status |-> "DRAFT", amount |-> n]
  OBVIOUS
<1>2. /\ voucher[p].kind = "none" /\ voucher' = [voucher EXCEPT ![p] = x]
      /\ UNCHANGED <<balance, entries, call, total, serial>>
  BY <1>1 DEF CreatePayroll
<1>3. \A v \in Vouchers : voucher'[v] = voucher[v] \/ (v = p /\ voucher'[v].kind = "payroll")
  BY <1>1, <1>2 DEF WalletInv, WalletTypeOK
<1>4. InWallet' = InWallet
  BY <1>2 DEF InWallet
<1>5. ASSUME NEW s, Settled(s), CallOK(s) PROVE Settled(s)'
  <2>1. s.pc = "deciding" => s.p \in Vouchers /\ s.p # p
    BY <1>2, <1>5, VoucherKinds DEF CallOK
  <2>2. s.pc = "deciding" => s.seen = voucher'[s.p].status
    BY <1>2, <1>5, <2>1 DEF Settled, WalletInv, WalletTypeOK
  <2>3. \A v \in Vouchers :
          voucher'[v].kind = "advance" /\ voucher'[v].status \in {"APPROVED", "PAID"}
            => entries[v].credits > 0 \/ Pays(s, v)
    BY <1>3, <1>5 DEF Settled
  <2> QED BY <1>2, <1>4, <1>5, <2>2, <2>3 DEF Settled, Pays
<1>6. ASSUME NEW q \in Calls, Settled(call[q]) PROVE Settled(call[q])'
  <2>1. PICK s : s = call[q]
    OBVIOUS
  <2>2. Settled(s)' /\ call'[q] = s
    BY <1>2, <1>5, <1>6, <2>1 DEF WalletInv
  <2> QED BY <2>2, Zenon DEF Settled, Pays
<1>7. Settled(NoCall) => Settled(NoCall)'
  BY <1>5, NoCallType
<1>8. \A q \in Calls : CallAt(q, "idle")' <=> CallAt(q, "idle")
  BY <1>2 DEF CallAt
<1>9. Quiescent' => Quiescent
  BY <1>8 DEF Quiescent
<1> QED BY <1>2, <1>6, <1>7, <1>8, <1>9 DEF WalletKept

LEMMA WriteStatusKept ==
  ASSUME WalletInv, WalletKept, NEW q \in Calls, WriteStatus(q)
  PROVE  WalletKept'
<1>1. PICK old : old = call[q]
  OBVIOUS
<1>2. old \in CallStates /\ CallOK(old) /\ old.pc = "deciding" /\ ~CallAt(q, "idle")
  BY <1>1 DEF WriteStatus, CallAt, WalletInv, WalletTypeOK
<1>3. PICK p, status : p = old.p /\ status = old.status
  OBVIOUS
<1>4. PICK y : y = voucher[p]
  OBVIOUS
<1>5. PICK x : x = [y EXCEPT !.status = status]
  OBVIOUS
<1>6. p \in Vouchers /\ y \in VoucherRows /\ y.amount \in Int /\ status \notin {"none", "PENDING"}
      /\ status \in StatusesOf[y.kind] /\ (y.kind # "none" => y.amount > 0)
  BY <1>2, <1>3, <1>4 DEF CallOK, WalletInv, WalletTypeOK, VoucherRows
<1>7. x.kind = y.kind /\ x.status = status
  BY <1>5, <1>6 DEF VoucherRows
<1>8. voucher' = [voucher EXCEPT ![p] = x] /\ UNCHANGED <<balance, entries, total, serial>>
  BY <1>1, <1>3, <1>4, <1>5 DEF WriteStatus, WalletInv, WalletTypeOK
<1>9. ASSUME serial PROVE Settled(old) /\ old.seen = y.status /\ total = InWallet
  <2>1. Settled(old)
    BY <1>1, <1>2, <1>9, CallAlone
  <2> QED BY <1>2, <1>3, <1>4, <2>1 DEF Settled
<1>10. ASSUME serial, NEW v \in Vouchers, voucher'[v].kind = "advance",
              voucher'[v].status \in {"APPROVED", "PAID"}
       PROVE  entries[v].credits > 0 \/ (v = p /\ Credits(y.kind, old.seen, status))
  <2>1. CASE v # p
    <3>1. voucher'[v] = voucher[v]
      BY <1>8, <2>1 DEF WalletInv, WalletTypeOK
    <3> QED BY <1>2, <1>9, <1>10, <3>1 DEF Settled, Pays
  <2>2. CASE v = p
    <3>1. voucher'[v] = x
      BY <1>6, <1>8, <2>2 DEF WalletInv, WalletTypeOK
    <3>2. y.kind = "advance" /\ status \in {"APPROVED", "PAID"}
      BY <1>7, <1>10, <3>1
    <3>3. CASE y.status \in {"APPROVED", "PAID"}
      BY <1>2, <1>4, <1>6, <1>9, <1>10, <2>2, <3>2, <3>3 DEF Settled, Pays
    <3>4. CASE y.status \notin {"APPROVED", "PAID"}
      BY <1>9, <1>10, <2>2, <3>2, <3>4 DEF Credits
    <3> QED BY <3>3, <3>4
  <2> QED BY <2>1, <2>2
<1>11. ASSUME serial', NEW r \in Calls, r # q PROVE CallAt(r, "idle")
  BY <1>2, <1>8, <1>11, CallAlone
<1>12. ASSUME serial', NEW v \in Vouchers PROVE entries'[v].debits <= 1
  BY <1>2, <1>8, <1>12, CallAlone
<1>13. ASSUME serial' PROVE total' = InWallet'
  BY <1>8, <1>9, <1>13 DEF InWallet
<1>14. CASE Credits(y.kind, old.seen, status)
  <2>1. PICK s : s = [old EXCEPT !.pc = "applying", !.amount = y.amount]
    OBVIOUS
  <2>2. s.pc = "applying" /\ s.p = p /\ s.amount = y.amount
    BY <1>2, <1>3, <2>1 DEF CallStates
  <2>3. call' = [call EXCEPT ![q] = s]
    BY <1>1, <1>3, <1>4, <1>14, <2>1 DEF WriteStatus, WalletInv, WalletTypeOK
  <2>4. y.amount > 0
    BY <1>6, <1>14 DEF Credits
  <2>5. Pays(s, p) /\ ~(s.amount <= 0)
    BY <1>6, <2>2, <2>4 DEF Pays
  <2>6. ASSUME serial' PROVE Settled(s)'
    <3>1. \A v \in Vouchers :
            voucher'[v].kind = "advance" /\ voucher'[v].status \in {"APPROVED", "PAID"}
              => entries'[v].credits > 0 \/ Pays(s, v)
      BY <1>8, <1>10, <2>5, <2>6
    <3> QED BY <1>13, <2>2, <2>5, <2>6, <3>1 DEF Settled, Pays
  <2> QED BY <1>11, <1>12, <2>2, <2>3, <2>6, KeptStep
<1>15. CASE ~Credits(y.kind, old.seen, status)
  <2>1. ASSUME NEW s, s.pc \in {"idle", "debiting"}, serial' PROVE Settled(s)'
    <3>1. \A v \in Vouchers :
            voucher'[v].kind = "advance" /\ voucher'[v].status \in {"APPROVED", "PAID"}
              => entries'[v].credits > 0
      BY <1>8, <1>10, <1>15, <2>1
    <3> QED BY <1>13, <2>1, <3>1 DEF Settled
  <2>2. CASE Goes(q, "debiting")
    <3>1. PICK s : s = [old EXCEPT !.pc = "debiting"]
      OBVIOUS
    <3>2. s.pc = "debiting"
      BY <1>2, <3>1 DEF CallStates
    <3>3. call' = [call EXCEPT ![q] = s]
      BY <1>1, <2>2, <3>1 DEF Goes, WalletInv, WalletTypeOK
    <3>4. ASSUME serial' PROVE Settled(s)'
      BY <2>1, <3>2, <3>4
    <3> QED BY <1>11, <1>12, <3>2, <3>3, <3>4, KeptStep
  <2>3. CASE EndCall(q)
    BY <1>2, <1>8, <1>12, <2>1, <2>3, NoCallType, EndKept
  <2>4. Goes(q, "debiting") \/ EndCall(q)
    BY <1>1, <1>3, <1>4, <1>15 DEF WriteStatus
  <2> QED BY <2>2, <2>3, <2>4
<1> QED BY <1>14, <1>15

LEMMA DebitKept ==
  ASSUME WalletInv, WalletKept, NEW q \in Calls, DebitEmployeeWallet(q)
  PROVE  WalletKept'
<1>1. PICK old : old = call[q]
  OBVIOUS
<1>2. old \in CallStates /\ old.p \in Vouchers /\ old.pc = "debiting" /\ ~CallAt(q, "idle")
  BY <1>1 DEF DebitEmployeeWallet, CallAt, WalletInv, WalletTypeOK, CallOK
<1>3. UNCHANGED <<balance, voucher, entries, total, serial>>
  BY DEF DebitEmployeeWallet
<1>4. ASSUME serial' PROVE Settled(old)
  BY <1>1, <1>2, <1>3, <1>4, CallAlone
<1>5. ASSUME serial', NEW v \in Vouchers PROVE entries'[v].debits <= 1
  BY <1>2, <1>3, <1>5, CallAlone
<1>6. ASSUME serial', NEW r \in Calls, r # q PROVE CallAt(r, "idle")
  BY <1>2, <1>3, <1>6, CallAlone
<1>7. CASE EndCall(q)
  <2>1. ASSUME serial' PROVE Settled(NoCall)'
    <3>1. Settled(NoCall)
      BY <1>2, <1>4, <2>1 DEF Settled, Pays, NoCall
    <3> QED BY <1>3, <3>1, SettledKept
  <2> QED BY <1>2, <1>3, <1>5, <1>7, <2>1, EndKept
<1>8. CASE ~EndCall(q)
  <2>1. PICK n : n = -voucher[old.p].amount
    OBVIOUS
  <2>2. PICK s : s = [old EXCEPT !.pc = "applying", !.amount = n]
    OBVIOUS
  <2>3. s.pc = "applying" /\ s.p = old.p
    BY <1>2, <2>2 DEF CallStates
  <2>4. call' = [call EXCEPT ![q] = s] /\ ~(entries[old.p].debits > 0)
    BY <1>1, <1>8, <2>1, <2>2 DEF DebitEmployeeWallet, WalletInv, WalletTypeOK
  <2>5. entries[old.p].debits = 0
    <3>1. entries[old.p].debits \in Nat
      BY <1>2 DEF WalletInv, WalletTypeOK
    <3> QED BY <2>4, <3>1
  <2>6. ASSUME serial' PROVE Settled(s)'
    <3>1. Settled(s)
      BY <1>2, <1>4, <2>3, <2>5, <2>6 DEF Settled, Pays
    <3> QED BY <1>3, <3>1, SettledKept
  <2> QED BY <1>5, <1>6, <2>3, <2>4, <2>6, KeptStep
<1> QED BY <1>7, <1>8

LEMMA ApplyKept ==
  ASSUME WalletInv, WalletKept, NEW q \in Calls, ApplyEwalletDelta(q)
  PROVE  WalletKept'
<1>1. PICK old : old = call[q]
  OBVIOUS
<1>2. old \in CallStates /\ old.pc = "applying" /\ old.amount \in Int /\ ~CallAt(q, "idle")
  BY <1>1 DEF ApplyEwalletDelta, CallAt, WalletInv, WalletTypeOK, CallStates
<1>3. PICK next : next = InWallet + old.amount
  OBVIOUS
<1>4. InWallet \in Nat /\ InWallet # Null
  <2>1. Null \notin Nat
    BY WalletAssumption
  <2> QED BY <2>1 DEF InWallet, WalletInv, WalletTypeOK
<1>5. UNCHANGED <<voucher, entries, total, serial>>
  BY DEF ApplyEwalletDelta
<1>6. ASSUME serial' PROVE Settled(old) /\ total = InWallet
  <2>1. Settled(old)
    BY <1>1, <1>2, <1>5, <1>6, CallAlone
  <2> QED BY <1>2, <2>1 DEF Settled
<1>7. ASSUME serial', NEW v \in Vouchers PROVE entries'[v].debits <= 1
  BY <1>2, <1>5, <1>7, CallAlone
<1>8. ASSUME serial', NEW r \in Calls, r # q PROVE CallAt(r, "idle")
  BY <1>2, <1>5, <1>8, CallAlone
<1>9. CASE next < 0
  <2>1. EndCall(q) /\ UNCHANGED balance
    BY <1>1, <1>3, <1>9 DEF ApplyEwalletDelta
  <2>2. ~(old.amount > 0)
    BY <1>2, <1>3, <1>4, <1>9
  <2>3. ASSUME serial' PROVE Settled(NoCall)'
    <3>1. Settled(NoCall)
      BY <1>6, <2>2, <2>3 DEF Settled, Pays, NoCall
    <3> QED BY <1>5, <2>1, <3>1, SettledKept
  <2> QED BY <1>2, <1>5, <1>7, <2>1, <2>3, EndKept
<1>10. CASE ~(next < 0)
  <2>1. PICK s : s = [old EXCEPT !.pc = "writing", !.next = next]
    OBVIOUS
  <2>2. s.pc = "writing" /\ s.p = old.p /\ s.amount = old.amount /\ s.next = next
    BY <1>2, <2>1 DEF CallStates
  <2>3. call' = [call EXCEPT ![q] = s] /\ balance' = InWallet
    BY <1>1, <1>3, <1>10, <2>1 DEF ApplyEwalletDelta, WalletInv, WalletTypeOK
  <2>4. balance' # Null /\ InWallet' = InWallet /\ s.next = balance' + s.amount
    BY <1>3, <1>4, <2>2, <2>3 DEF InWallet
  <2>5. ASSUME serial' PROVE Settled(s)'
    <3>1. \A v : Pays(s, v) <=> Pays(old, v)
      BY <1>2, <2>2 DEF Pays
    <3>2. s.p \in Vouchers /\ s.amount <= 0 => entries'[s.p].debits = 0
      BY <1>2, <1>5, <1>6, <2>2, <2>5 DEF Settled
    <3>3. \A v \in Vouchers :
            voucher'[v].kind = "advance" /\ voucher'[v].status \in {"APPROVED", "PAID"}
              => entries'[v].credits > 0 \/ Pays(s, v)
      BY <1>5, <1>6, <2>5, <3>1 DEF Settled
    <3>4. total' = InWallet'
      BY <1>5, <1>6, <2>4, <2>5
    <3> QED BY <2>2, <2>4, <3>2, <3>3, <3>4 DEF Settled, Pays
  <2> QED BY <1>7, <1>8, <2>2, <2>3, <2>5, KeptStep
<1> QED BY <1>9, <1>10

LEMMA WriteWalletKept ==
  ASSUME WalletInv, WalletKept, NEW q \in Calls, WriteWallet(q)
  PROVE  WalletKept'
<1>1. PICK old : old = call[q]
  OBVIOUS
<1>2. old.pc = "writing" /\ ~CallAt(q, "idle")
  BY <1>1 DEF WriteWallet, CallAt
<1>3. /\ balance' = old.next /\ balance' \in Nat /\ old.amount \in Int
      /\ \/ old.p = Null /\ entries' = entries
         \/ /\ old.p \in Vouchers
            /\ \E e \in [credits : Nat, debits : Nat] :
                 /\ entries' = [entries EXCEPT ![old.p] = e]
                 /\ IF old.amount > 0
                    THEN e.credits = entries[old.p].credits + 1 /\ e.debits = entries[old.p].debits
                    ELSE e.credits = entries[old.p].credits /\ e.debits = entries[old.p].debits + 1
  BY <1>1, EntryWritten
<1>4. EndCall(q) /\ Enter(old.amount) /\ UNCHANGED <<voucher, serial>>
  BY <1>1 DEF WriteWallet
<1>5. Null \notin Vouchers /\ Null \notin Nat
  BY WalletAssumption
<1>6. \A v \in Vouchers : entries[v].credits \in Nat /\ entries[v].debits \in Nat
  BY DEF WalletInv, WalletTypeOK
<1>7. ASSUME serial' PROVE Settled(old) /\ \A v \in Vouchers : entries[v].debits <= 1
  BY <1>1, <1>2, <1>4, <1>7, CallAlone
<1>8. ASSUME serial' PROVE total' = InWallet'
  <2>1. total = InWallet /\ balance # Null /\ old.next = balance + old.amount
    BY <1>2, <1>7, <1>8 DEF Settled
  <2>2. total' = total + old.amount
    BY <1>4, <1>8 DEF Enter, WalletInv, WalletTypeOK
  <2> QED BY <1>3, <1>5, <2>1, <2>2 DEF InWallet
<1>9. ASSUME serial', NEW v \in Vouchers
      PROVE  /\ entries'[v].debits <= 1
             /\ entries[v].credits > 0 \/ Pays(old, v) => entries'[v].credits > 0
  <2>1. CASE entries' = entries /\ old.p \notin Vouchers
    BY <1>7, <1>9, <2>1 DEF Pays
  <2>2. ASSUME old.p \in Vouchers, NEW e \in [credits : Nat, debits : Nat],
               entries' = [entries EXCEPT ![old.p] = e],
               IF old.amount > 0
               THEN e.credits = entries[old.p].credits + 1 /\ e.debits = entries[old.p].debits
               ELSE e.credits = entries[old.p].credits /\ e.debits = entries[old.p].debits + 1
        PROVE  /\ entries'[v].debits <= 1
               /\ entries[v].credits > 0 \/ Pays(old, v) => entries'[v].credits > 0
    <3>1. CASE v # old.p
      BY <1>7, <1>9, <2>2, <3>1 DEF WalletInv, WalletTypeOK, Pays
    <3>2. CASE v = old.p
      <4>1. entries'[v] = e
        BY <2>2, <3>2 DEF WalletInv, WalletTypeOK
      <4>2. CASE old.amount > 0
        BY <1>6, <1>7, <1>9, <2>2, <3>2, <4>1, <4>2
      <4>3. CASE ~(old.amount > 0)
        <5>1. old.amount <= 0
          BY <1>3, <4>3
        <5>2. entries[v].debits = 0
          BY <1>2, <1>7, <1>9, <3>2, <5>1 DEF Settled
        <5>3. e.debits = 1 /\ e.credits = entries[v].credits
          BY <2>2, <3>2, <4>3, <5>2
        <5> QED BY <4>1, <4>3, <5>3 DEF Pays
      <4> QED BY <4>2, <4>3
    <3> QED BY <3>1, <3>2
  <2> QED BY <1>3, <1>5, <2>1, <2>2
<1>10. ASSUME serial' PROVE Settled(NoCall)'
  <2>1. \A v \in Vouchers :
          voucher'[v].kind = "advance" /\ voucher'[v].status \in {"APPROVED", "PAID"}
            => entries'[v].credits > 0
    BY <1>4, <1>7, <1>9, <1>10 DEF Settled
  <2> QED BY <1>8, <1>10, <2>1, NoCallType DEF Settled
<1> QED BY <1>2, <1>4, <1>9, <1>10, EndKept

LEMMA EndingKept ==
  ASSUME WalletInv, WalletKept, NEW q \in Calls,
         ReferenceTooLong(q) \/ WriteOpening(q) \/ CallFails(q)
  PROVE  WalletKept'
<1>1. PICK old : old = call[q]
  OBVIOUS
<1>2. ~CallAt(q, "idle") /\ EndCall(q) /\ (serial' => serial) /\ UNCHANGED <<balance, voucher, entries>>
  <2>1. ASSUME ReferenceTooLong(q)
        PROVE  CallAt(q, "writing") /\ EndCall(q) /\ UNCHANGED <<balance, voucher, entries, serial>>
    BY <2>1, Zenon DEF ReferenceTooLong
  <2>2. ASSUME WriteOpening(q)
        PROVE  CallAt(q, "opening") /\ EndCall(q) /\ UNCHANGED <<balance, voucher, entries, serial>>
    BY <2>2, Zenon DEF WriteOpening
  <2>3. ASSUME CallFails(q)
        PROVE  /\ ~CallAt(q, "idle") /\ EndCall(q) /\ (serial' => serial)
               /\ UNCHANGED <<balance, voucher, entries>>
    BY <2>3, Zenon DEF CallFails
  <2>4. CallAt(q, "writing") \/ CallAt(q, "opening") => ~CallAt(q, "idle")
    BY DEF CallAt
  <2> QED BY <2>1, <2>2, <2>3, <2>4
<1>3. ASSUME serial' PROVE Settled(old) /\ \A v \in Vouchers : entries[v].debits <= 1
  BY <1>1, <1>2, <1>3, CallAlone
<1>4. ASSUME serial' PROVE Settled(NoCall)'
  <2>1. CASE ReferenceTooLong(q)
    <3>1. old.pc = "writing" /\ old.p \in Vouchers /\ voucher[old.p].kind = "payroll" /\ UNCHANGED total
      BY <1>1, <2>1 DEF ReferenceTooLong, ReferenceFits, CallAt
    <3>2. Settled(NoCall)
      BY <1>3, <1>4, <3>1 DEF Settled, Pays, NoCall
    <3> QED BY <1>2, <3>1, <3>2, SettledKept
  <2>2. CASE WriteOpening(q)
    <3>1. old.pc = "opening" /\ Enter(old.amount)
      BY <1>1, <2>2 DEF WriteOpening, CallAt
    <3>2. old.amount \in Int /\ InWallet \in Int
      BY <1>1 DEF WalletInv, WalletTypeOK, CallStates, InWallet
    <3>3. total' = total + old.amount /\ total = InWallet - old.amount
      BY <1>2, <1>3, <1>4, <3>1 DEF Enter, Settled
    <3>4. total' = InWallet'
      BY <1>2, <3>2, <3>3 DEF InWallet
    <3>5. \A v \in Vouchers :
            voucher'[v].kind = "advance" /\ voucher'[v].status \in {"APPROVED", "PAID"}
              => entries'[v].credits > 0
      BY <1>2, <1>3, <1>4, <3>1 DEF Settled, Pays
    <3> QED BY <3>4, <3>5, NoCallType DEF Settled
  <2>3. CASE CallFails(q)
    <3>1. old.pc \in {"asking", "deciding"} /\ UNCHANGED total
      BY <1>1, <1>4, <2>3 DEF CallFails
    <3>2. Settled(NoCall)
      BY <1>3, <1>4, <3>1 DEF Settled, Pays, NoCall
    <3> QED BY <1>2, <3>1, <3>2, SettledKept
  <2> QED BY <2>1, <2>2, <2>3
<1> QED BY <1>2, <1>3, <1>4, EndKept

LEMMA WalletKeptInitially == WalletInit => WalletKept
<1> SUFFICES ASSUME WalletInit PROVE WalletKept
  OBVIOUS
<1>1. \A q \in Calls : CallAt(q, "idle")
  BY DEF WalletInit, CallAt, NoCall
<1>2. \A p \in Vouchers : entries[p].debits = 0 /\ voucher[p].kind = "none"
  BY DEF WalletInit, NoVoucher
<1>3. Settled(NoCall)
  BY <1>2 DEF WalletInit, Settled, InWallet, NoCall
<1> QED BY <1>1, <1>2, <1>3 DEF WalletKept

LEMMA WalletKeptInductive == WalletInv /\ WalletKept /\ [WalletNext]_walletVars => WalletKept'
<1> SUFFICES ASSUME WalletInv, WalletKept, [WalletNext]_walletVars PROVE WalletKept'
  OBVIOUS
<1>1. ASSUME NEW p \in Vouchers, NEW n \in Amounts, CreatePayroll(p, n) PROVE WalletKept'
  BY <1>1, CreatePayrollKept
<1>2. ASSUME NEW q \in Calls, NEW kind \in {"advance", "withdrawal"}, NEW n \in Amounts, Ask(q, kind, n)
      PROVE  WalletKept'
  BY <1>2, AskKept
<1>3. ASSUME NEW q \in Calls, NEW p \in Vouchers,
             CreateVoucher(q, p) \/ \E status \in VoucherStatuses : Decide(q, p, status)
      PROVE  WalletKept'
  BY <1>3, CreateVoucherKept, DecideKept
<1>4. ASSUME NEW q \in Calls, \E target \in 0 .. MaxBalance : UpsertEwallet(q, target) PROVE WalletKept'
  BY <1>4, UpsertKept
<1>5. ASSUME NEW q \in Calls, \/ WriteStatus(q) \/ DebitEmployeeWallet(q) \/ ApplyEwalletDelta(q)
                              \/ WriteWallet(q) \/ ReferenceTooLong(q) \/ WriteOpening(q) \/ CallFails(q)
      PROVE  WalletKept'
  BY <1>5, WriteStatusKept, DebitKept, ApplyKept, WriteWalletKept, EndingKept
<1>6. CASE UNCHANGED walletVars
  <2>1. UNCHANGED <<balance, voucher, entries, total>> /\ call' = call /\ serial' = serial
    BY <1>6 DEF walletVars
  <2>2. ASSUME NEW s, Settled(s) PROVE Settled(s)'
    BY <2>1, <2>2, SettledKept
  <2>3. ASSUME NEW q \in Calls, Settled(call[q]) PROVE Settled(call[q])'
    <3>1. PICK s : s = call[q]
      OBVIOUS
    <3>2. Settled(s)' /\ call'[q] = s
      BY <2>1, <2>2, <2>3, <3>1
    <3> QED BY <3>2, Zenon DEF Settled, Pays
  <2>4. \A q \in Calls : CallAt(q, "idle")' <=> CallAt(q, "idle")
    BY <2>1 DEF CallAt
  <2>5. Quiescent' => Quiescent
    BY <2>4 DEF Quiescent
  <2> QED BY <2>1, <2>2, <2>3, <2>4, <2>5 DEF WalletKept
<1> QED BY <1>1, <1>2, <1>3, <1>4, <1>5, <1>6 DEF WalletNext

\* What the calls that are served one after the other keep of the books.
THEOREM WalletBooks == WalletSpec => []WalletKept
<1>1. WalletInv /\ WalletKept /\ [WalletNext]_walletVars => WalletKept'
  BY WalletKeptInductive
<1> QED BY <1>1, WalletKeptInitially, WalletInvariance, PTL DEF WalletSpec

(***************************************************************************)
(* One decision after the other, a voucher is debited at most once: the    *)
(* entry that debitEmployeeWallet looks for is still missing when the      *)
(* wallet is written.                                                      *)
(***************************************************************************)
THEOREM SingleDebit == WalletSpec => []DebitedOnce
<1>1. WalletKept => DebitedOnce
  BY DEF WalletKept, DebitedOnce
<1> QED BY <1>1, WalletBooks, PTL

(***************************************************************************)
(* One call after the other, the balance is what the entries add up to,    *)
(* and no advance stands approved or paid without its credit.              *)
(***************************************************************************)
THEOREM WalletAgreement == WalletSpec => []WalletAgrees
<1>1. WalletKept => WalletAgrees
  BY DEF WalletKept, WalletAgrees, Settled, Pays, NoCall
<1> QED BY <1>1, WalletBooks, PTL
=============================================================================
