------------------------------ MODULE SalesInvoice ------------------------------
(***************************************************************************)
(* The money side of a sales invoice: its status, its balance, the         *)
(* payments received and the credit notes issued, under every request      *)
(* that writes them (sales.service.ts, the gateway charges of              *)
(* finance.service.ts and the overdue scan of automation.scheduler.ts).    *)
(*                                                                         *)
(* Almost every handler reads the invoice, decides, and writes absolute    *)
(* values computed from what it read.  Where the read and the write are    *)
(* separate steps here they are separate statements there, with nothing    *)
(* holding the row in between: the transactions run at REPEATABLE READ     *)
(* (see DocumentNumbers) and no UPDATE tests what it overwrites.           *)
(*                                                                         *)
(* Amounts are whole cents, so the code's tolerances of 0.001 and 0.01     *)
(* vanish except where SplitSlack names one.  Documents are named by the   *)
(* request that creates them.  All invoices are one customer's.            *)
(***************************************************************************)
EXTENDS CompanySettings, Integers, FiniteSets, FiniteSetsExt

CONSTANTS
  Requests,            \* each handles one request
  Receipt, CreditNote, \* their keys in docSequences
  Ops,                 \* the requests made
  Tenders,             \* how invoices are settled at issue
  Amounts,             \* totals, payments, note totals, in cents
  CreditLimit,         \* the customer's
  SplitSlack,          \* by how much the splits of a MIXED sale may miss its total
  MaxActive,           \* bound: requests in flight at once
  MaxInvoices          \* bound: requests that create an invoice

ASSUME KeysAssumption ==
  Receipt \in SequenceKeys /\ CreditNote \in SequenceKeys /\ Receipt # CreditNote
ASSUME AmountsAssumption ==
  Amounts \subseteq Nat \ {0} /\ CreditLimit \in Nat /\ SplitSlack \in Nat

\* CASH stands for every single tender that is settled at once (CARD, ...).
AllTenders == {"CASH", "MIXED", "CREDIT", "BNPL"}
PaidAtIssue(t) == t \in {"CASH", "MIXED"}

\* DRAFT stands for ON_HOLD as well: no handler tells them apart.
Statuses == {"none", "DRAFT", "ISSUED", "PARTIALLY_PAID", "PAID", "OVERDUE", "CANCELLED"}

Invoices == [status : Statuses, total : Nat, balance : Nat,
             received : Nat,          \* the sum of its SalesPayment rows
             tender : AllTenders]

Notes == [status : {"none", "APPROVED", "CANCELLED"}, invoice : Requests, total : Nat]

\* A request in flight, with what it has read.
Flights == [pc : {"idle", "loaded", "open", "issued", "applying", "done"},
            op : {"none", "create", "issue", "pay", "gateway", "note", "editNote",
                  "cancelNote", "update", "cancel", "overdue"},
            doc : Requests,           \* the invoice or note it is about
            tender : AllTenders,
            amount : Nat,
            saw : Invoices,           \* the invoice as it read it
            was : Nat,                \* the note's total as it read it
            row : Rows]               \* the settings row as its transaction reads it

ASSUME TendersAssumption == Tenders \subseteq AllTenders

VARIABLES
  inv,      \* inv[i]: the invoice request i created
  note,     \* note[n]: the credit note request n created
  row,      \* the company_settings row
  issued,   \* issued[k]: the numbers of the committed documents of kind k
  req       \* req[r]: request r

vars == <<inv, note, row, issued, req>>

TypeOK ==
  /\ inv \in [Requests -> Invoices]
  /\ note \in [Requests -> Notes]
  /\ row \in Rows
  /\ issued \in [Kinds -> SUBSET (Nat \ {0})]
  /\ req \in [Requests -> Flights]

NoInvoice == [status |-> "none", total |-> 0, balance |-> 0, received |-> 0, tender |-> "CASH"]

Idle(r) == [pc |-> "idle", op |-> "none", doc |-> r, tender |-> "CASH", amount |-> 0,
            saw |-> NoInvoice, was |-> 0, row |-> NewRow]

Init ==
  /\ inv = [i \in Requests |-> NoInvoice]
  /\ note = [n \in Requests |-> [status |-> "none", invoice |-> n, total |-> 0]]
  /\ row = NewRow
  /\ issued = [k \in Kinds |-> {}]
  /\ req = [r \in Requests |-> Idle(r)]

-----------------------------------------------------------------------------
(* Helpers *)

\* Mutant: a balance of zero is not yet paid.
StatusForNegative(seen, balance) ==
  IF balance < 0 THEN "PAID"
  ELSE IF balance < seen.total THEN "PARTIALLY_PAID" ELSE seen.status

\* Payments and credit notes compute the new status this way.
StatusFor(seen, balance) ==
  IF balance <= 0 THEN "PAID"
  ELSE IF balance < seen.total THEN "PARTIALLY_PAID" ELSE seen.status

\* Mutant: the Math.max(0, ...) around a new balance is missing.
Unbounded(n) == n

NotBelowZero(n) == IF n < 0 THEN 0 ELSE n

Exists(i) == inv[i].status # "none"

\* What the customer owes, as the credit check adds it up.
Outstanding ==
  MapThenSumSet(LAMBDA i : inv[i].balance,
                {i \in Requests : inv[i].status \in {"ISSUED", "PARTIALLY_PAID", "OVERDUE"}})

WithinCredit(total) == CreditLimit > 0 /\ Outstanding + total <= CreditLimit

Active(r) == req[r].pc \notin {"idle", "done"}

\* r takes up a request.
Take(r, op) ==
  /\ op \in Ops
  /\ req[r].pc = "idle"
  /\ Cardinality({s \in Requests : Active(s)}) < MaxActive

\* r goes on to pc with invoice record `seen` in hand.
Go(r, pc, op, doc, amount, seen) ==
  [req EXCEPT ![r].pc = pc, ![r].op = op, ![r].doc = doc, ![r].amount = amount, ![r].saw = seen]

Done(r) == [req EXCEPT ![r] = [Idle(r) EXCEPT !.pc = "done"]]

\* r has read what it needs and now writes for operation op.
Writing(r, pc, op) == req[r].pc = pc /\ req[r].op = op

\* Invoice i with a new status and balance, and `sum` more received.
Write(i, status, balance, sum) ==
  [inv EXCEPT ![i] = [inv[i] EXCEPT !.status = status, !.balance = balance, !.received = @ + sum]]

\* The unique index on (company, number) lets a document of kind k have n.
Free(k, n) == n \notin issued[k]

-----------------------------------------------------------------------------
(* createInvoice, and quote conversion, which is a CREDIT issue *)

\* The row to insert.
NewInvoice(status, tender, total) ==
  LET paid == status = "ISSUED" /\ PaidAtIssue(tender)
  IN  [status |-> IF paid THEN "PAID" ELSE status, total |-> total,
       balance |-> IF paid THEN 0 ELSE total, received |-> 0, tender |-> tender]

\* The checks before the transaction, the credit limit among them.  amount
\* is the store credit the customer wants applied.
CreateLoad(r) ==
  /\ Take(r, "create")
  /\ Cardinality({i \in Requests : Exists(i) \/ req[i].op = "create"}) < MaxInvoices
  /\ \E status \in {"DRAFT", "ISSUED"}, t \in Tenders, total \in Amounts, a \in Amounts \cup {0} :
       /\ status = "ISSUED" /\ t = "CREDIT" => WithinCredit(total)
       /\ a > 0 => "storeCredit" \in Ops /\ status = "ISSUED"
       /\ req' = Go(r, "loaded", "create", r, a, NewInvoice(status, t, total))
  /\ UNCHANGED <<inv, note, row, issued>>

\* A MIXED sale issued at once records two receipts, which together are the
\* total give or take the tolerance.
SplitSums(total) == {s \in (total - SplitSlack) .. (total + SplitSlack) : s >= 2}

IssuedMixed(r) == req[r].saw.tender = "MIXED" /\ req[r].saw.status = "PAID"

(***************************************************************************)
(* The invoice's number comes from the transaction's snapshot.  The        *)
(* receipts' numbers do not: by then the transaction has updated the       *)
(* settings row, and reads its own version of it, made from the last       *)
(* committed one.                                                          *)
(***************************************************************************)
CreateCommit(r) ==
  /\ Writing(r, "open", "create")
  /\ Free(Invoice, req[r].row[Invoice])
  /\ LET numbered == BumpInvoice(row, req[r].row)
         n == numbered[Receipt]
     IN  IF IssuedMixed(r)
         THEN /\ Free(Receipt, n) /\ Free(Receipt, n + 1)
              /\ \E sum \in SplitSums(req[r].saw.total) :
                   inv' = [inv EXCEPT ![r] = [req[r].saw EXCEPT !.received = sum]]
              /\ row' = [numbered EXCEPT ![Receipt] = n + 2]
              /\ issued' = [issued EXCEPT ![Invoice] = @ \cup {req[r].row[Invoice]},
                                          ![Receipt] = @ \cup {n, n + 1}]
         ELSE /\ inv' = [inv EXCEPT ![r] = req[r].saw]
              /\ row' = numbered
              /\ issued' = [issued EXCEPT ![Invoice] = @ \cup {req[r].row[Invoice]}]
  /\ req' = IF req[r].amount > 0
            THEN [req EXCEPT ![r].pc = "issued"] ELSE Done(r)
  /\ UNCHANGED note

\* After the commit fulfillIssuedInvoice debits the wallet, reads the invoice ...
StoreCreditLoad(r) ==
  /\ req[r].pc = "issued"
  /\ req' = Go(r, "applying", "create", r, req[r].amount, inv[r])
  /\ UNCHANGED <<inv, note, row, issued>>

\* ... and takes what the store credit covers off the balance.
StoreCreditApply(r) ==
  /\ req[r].pc = "applying"
  /\ LET balance == NotBelowZero(req[r].saw.balance - req[r].amount)
     IN  inv' = Write(r, IF balance = 0 THEN "PAID" ELSE "PARTIALLY_PAID", balance, 0)
  /\ req' = Done(r)
  /\ UNCHANGED <<note, row, issued>>

-----------------------------------------------------------------------------
(* issueHeldInvoice *)

IssueLoad(r) ==
  /\ Take(r, "issue")
  /\ \E i \in Requests, t \in Tenders :
       /\ inv[i].status = "DRAFT" /\ inv[i].received = 0
       /\ t = "CREDIT" => WithinCredit(inv[i].total)
       /\ req' = [Go(r, "loaded", "issue", i, 0, inv[i]) EXCEPT ![r].tender = t]
  /\ UNCHANGED <<inv, note, row, issued>>

\* What the handler writes into the row; a MIXED sale is paid by its receipts.
IssuedInvoice(r, sum) ==
  LET paid == PaidAtIssue(req[r].tender)
  IN  [Write(req[r].doc, IF paid THEN "PAID" ELSE "ISSUED",
             IF paid THEN 0 ELSE req[r].saw.total, sum)
         EXCEPT ![req[r].doc] = [@ EXCEPT !.tender = req[r].tender]]

IssueCommit(r) ==
  /\ Writing(r, "loaded", "issue") /\ req[r].tender # "MIXED"
  /\ inv' = IssuedInvoice(r, 0)
  /\ req' = Done(r)
  /\ UNCHANGED <<note, row, issued>>

\* The second receipt's number is read from the row the first one wrote.
IssueMixedCommit(r) ==
  /\ Writing(r, "open", "issue")
  /\ LET n == req[r].row[Receipt]
         first == BumpSequence(row, req[r].row, Receipt)
     IN  /\ Free(Receipt, n) /\ Free(Receipt, n + 1)
         /\ \E sum \in SplitSums(req[r].saw.total) : inv' = IssuedInvoice(r, sum)
         /\ row' = BumpSequence(first, first, Receipt)
         /\ issued' = [issued EXCEPT ![Receipt] = @ \cup {n, n + 1}]
  /\ req' = Done(r)
  /\ UNCHANGED note

\* A transaction that numbers a document takes its snapshot.
Open(r) ==
  /\ req[r].pc = "loaded"
  /\ \/ req[r].op \in {"create", "note"}
     \/ req[r].op = "issue" /\ req[r].tender = "MIXED"
  /\ req' = [req EXCEPT ![r].pc = "open", ![r].row = row]
  /\ UNCHANGED <<inv, note, row, issued>>

-----------------------------------------------------------------------------
(* recordPayment and the gateway's recordGatewaySalesPayment *)

\* The transaction's snapshot holds the invoice and the settings row.
Snapshot(r, op, i, amount) == [Go(r, "open", op, i, amount, inv[i]) EXCEPT ![r].row = row]

PayOpen(r) ==
  /\ Take(r, "pay")
  /\ \E i \in Requests, a \in Amounts :
       /\ inv[i].status \notin {"none", "CANCELLED", "DRAFT", "PAID"}
       /\ inv[i].balance > 0
       /\ a <= inv[i].balance
       /\ req' = Snapshot(r, "pay", i, a)
  /\ UNCHANGED <<inv, note, row, issued>>

\* The provider charges the customer before anyone looks at the invoice.
GatewayCharge(r) ==
  /\ Take(r, "gateway")
  /\ \E i \in Requests, a \in Amounts : req' = Go(r, "loaded", "gateway", i, a, NoInvoice)
  /\ UNCHANGED <<inv, note, row, issued>>

\* The status is not looked at.
GatewayOpen(r) ==
  /\ Writing(r, "loaded", "gateway")
  /\ LET i == req[r].doc
     IN  /\ inv[i].status # "none"
         /\ req[r].amount <= inv[i].balance
         /\ req' = Snapshot(r, "gateway", i, req[r].amount)
  /\ UNCHANGED <<inv, note, row, issued>>

\* The invoice with r's payment taken off the balance r saw.
PaidInvoice(r) ==
  LET balance == req[r].saw.balance - req[r].amount
  IN  Write(req[r].doc, StatusFor(req[r].saw, balance), balance, req[r].amount)

\* Mutant: receipt numbers are not unique.
PayCommitNoIndex(r) ==
  /\ req[r].pc = "open" /\ req[r].op \in {"pay", "gateway"}
  /\ inv' = PaidInvoice(r)
  /\ row' = BumpSequence(row, req[r].row, Receipt)
  /\ issued' = [issued EXCEPT ![Receipt] = @ \cup {req[r].row[Receipt]}]
  /\ req' = Done(r)
  /\ UNCHANGED note

PayCommit(r) ==
  /\ req[r].pc = "open" /\ req[r].op \in {"pay", "gateway"}
  /\ Free(Receipt, req[r].row[Receipt])
  /\ inv' = PaidInvoice(r)
  /\ row' = BumpSequence(row, req[r].row, Receipt)
  /\ issued' = [issued EXCEPT ![Receipt] = @ \cup {req[r].row[Receipt]}]
  /\ req' = Done(r)
  /\ UNCHANGED note

-----------------------------------------------------------------------------
(* Credit notes: the invoice, and the note, are read before the transaction *)

\* Mutant: a cancelled invoice may be credited.
NoteLoadCancelled(r) ==
  /\ Take(r, "note")
  /\ \E i \in Requests, a \in Amounts :
       /\ inv[i].status \notin {"none", "DRAFT"}
       /\ req' = Go(r, "loaded", "note", i, a, inv[i])
  /\ UNCHANGED <<inv, note, row, issued>>

\* The note's total is the caller's; nothing caps it.
NoteLoad(r) ==
  /\ Take(r, "note")
  /\ \E i \in Requests, a \in Amounts :
       /\ inv[i].status \notin {"none", "DRAFT", "CANCELLED"}
       /\ req' = Go(r, "loaded", "note", i, a, inv[i])
  /\ UNCHANGED <<inv, note, row, issued>>

NoteCommit(r) ==
  /\ Writing(r, "open", "note")
  /\ Free(CreditNote, req[r].row[CreditNote])
  /\ LET balance == req[r].saw.balance - req[r].amount
     IN  inv' = Write(req[r].doc, StatusFor(req[r].saw, balance), NotBelowZero(balance), 0)
  /\ note' = [note EXCEPT ![r] = [status |-> "APPROVED", invoice |-> req[r].doc,
                                  total |-> req[r].amount]]
  /\ row' = BumpSequence(row, req[r].row, CreditNote)
  /\ issued' = [issued EXCEPT ![CreditNote] = @ \cup {req[r].row[CreditNote]}]
  /\ req' = Done(r)

\* r reads note n and its invoice.
TakeNote(r, op, n, amount) ==
  /\ note[n].status = "APPROVED"
  /\ req' = [Go(r, "loaded", op, n, amount, inv[note[n].invoice])
              EXCEPT ![r].was = note[n].total]

EditNoteLoad(r) ==
  /\ Take(r, "editNote")
  /\ \E n \in Requests, a \in Amounts : TakeNote(r, "editNote", n, a)
  /\ UNCHANGED <<inv, note, row, issued>>

EditNoteCommit(r) ==
  /\ Writing(r, "loaded", "editNote")
  /\ LET seen == req[r].saw
         balance == seen.balance - (req[r].amount - req[r].was)
         i == note[req[r].doc].invoice
         status == IF balance >= seen.total /\ seen.status = "PAID"
                   THEN "PARTIALLY_PAID" ELSE StatusFor(seen, balance)
     IN  inv' = IF req[r].amount = req[r].was THEN inv
                ELSE Write(i, status, NotBelowZero(balance), 0)
  /\ note' = [note EXCEPT ![req[r].doc].total = req[r].amount]
  /\ req' = Done(r)
  /\ UNCHANGED <<row, issued>>

CancelNoteLoad(r) ==
  /\ Take(r, "cancelNote")
  /\ \E n \in Requests : TakeNote(r, "cancelNote", n, 0)
  /\ UNCHANGED <<inv, note, row, issued>>

CancelNoteCommit(r) ==
  /\ Writing(r, "loaded", "cancelNote")
  /\ LET balance == req[r].saw.balance + req[r].was
         i == note[req[r].doc].invoice
         status == IF balance >= req[r].saw.total THEN "ISSUED" ELSE "PARTIALLY_PAID"
     IN  inv' = Write(i, status, balance, 0)
  /\ note' = [note EXCEPT ![req[r].doc].status = "CANCELLED"]
  /\ req' = Done(r)
  /\ UNCHANGED <<row, issued>>

-----------------------------------------------------------------------------
(* updateInvoice, cancelInvoice and the overdue scan *)

\* Mutant: an invoice with payments may be edited and cancelled.
TakeAny(r, op, amount) ==
  /\ Take(r, op)
  /\ \E i \in Requests :
       /\ inv[i].status \notin {"none", "CANCELLED"}
       /\ req' = Go(r, "loaded", op, i, amount, inv[i])
  /\ UNCHANGED <<inv, note, row, issued>>

\* r reads an invoice that has no payments and is not cancelled.
TakeUnpaid(r, op, amount) ==
  /\ Take(r, op)
  /\ \E i \in Requests :
       /\ inv[i].status \notin {"none", "CANCELLED"}
       /\ inv[i].received = 0
       /\ req' = Go(r, "loaded", op, i, amount, inv[i])
  /\ UNCHANGED <<inv, note, row, issued>>

\* New lines: the balance becomes the new total, whatever it was.
UpdateLoad(r) == \E a \in Amounts : TakeUnpaid(r, "update", a)

UpdateCommit(r) ==
  /\ Writing(r, "loaded", "update")
  /\ inv' = [inv EXCEPT ![req[r].doc] = [@ EXCEPT !.total = req[r].amount,
                                                  !.balance = req[r].amount]]
  /\ req' = Done(r)
  /\ UNCHANGED <<note, row, issued>>

CancelLoad(r) == TakeUnpaid(r, "cancel", 0)

CancelCommit(r) ==
  /\ Writing(r, "loaded", "cancel")
  /\ inv' = Write(req[r].doc, "CANCELLED", 0, 0)
  /\ req' = Done(r)
  /\ UNCHANGED <<note, row, issued>>

\* The scan lists the invoices past their due date, then marks them by id.
OverdueList(r) ==
  /\ Take(r, "overdue")
  /\ \E i \in Requests :
       /\ inv[i].status \in {"ISSUED", "PARTIALLY_PAID"}
       /\ req' = Go(r, "loaded", "overdue", i, 0, inv[i])
  /\ UNCHANGED <<inv, note, row, issued>>

OverdueMark(r) ==
  /\ Writing(r, "loaded", "overdue")
  /\ inv' = Write(req[r].doc, "OVERDUE", inv[req[r].doc].balance, 0)
  /\ req' = Done(r)
  /\ UNCHANGED <<note, row, issued>>

-----------------------------------------------------------------------------
\* The request ends with what it has written so far: a check of its
\* transaction throws, the unique index refuses its number, the process dies.
Fail(r) ==
  /\ Active(r)
  /\ req' = Done(r)
  /\ UNCHANGED <<inv, note, row, issued>>

\* What request r may do.
Step(r) ==
  \/ CreateLoad(r) \/ Open(r) \/ CreateCommit(r) \/ StoreCreditLoad(r) \/ StoreCreditApply(r)
  \/ IssueLoad(r) \/ IssueCommit(r) \/ IssueMixedCommit(r)
  \/ PayOpen(r) \/ GatewayCharge(r) \/ GatewayOpen(r) \/ PayCommit(r)
  \/ NoteLoad(r) \/ NoteCommit(r)
  \/ EditNoteLoad(r) \/ EditNoteCommit(r) \/ CancelNoteLoad(r) \/ CancelNoteCommit(r)
  \/ UpdateLoad(r) \/ UpdateCommit(r) \/ CancelLoad(r) \/ CancelCommit(r)
  \/ OverdueList(r) \/ OverdueMark(r)
  \/ Fail(r)

Next == \E r \in Requests : Step(r)

Spec == Init /\ [][Next]_vars
-----------------------------------------------------------------------------
(* Correctness. *)

(***************************************************************************)
(* Two payments never settle the same balance: a payment that commits was  *)
(* computed from what the invoice has received at that moment, whatever    *)
(* requests overlap.  recordPayment tests the balance in a snapshot and    *)
(* then writes an absolute value; only the receipt's number makes it lose  *)
(* to a payment committed in between.                                      *)
(***************************************************************************)
PaymentsAreSerial ==
  [][\A r \in Requests :
       req[r].pc = "open" /\ req[r].op \in {"pay", "gateway"}
         /\ inv'[req[r].doc].received # inv[req[r].doc].received /\ req'[r].pc = "done"
       => inv[req[r].doc].received = req[r].saw.received]_vars

(***************************************************************************)
(* The receipts, numbered by payments and by mixed sales alike, are 1, 2,  *)
(* 3, ... without a gap, and the counter is never ahead of them.           *)
(***************************************************************************)
ReceiptsGapless ==
  /\ Segment(issued[Receipt])
  /\ Follows(row[Receipt], issued[Receipt])

(***************************************************************************)
(* An invoice's balance is its total less the payments received, unless it *)
(* was settled at the till (a single tender leaves no SalesPayment row).   *)
(***************************************************************************)
LedgerBalanced ==
  \A i \in Requests :
    Exists(i) => \/ inv[i].received + inv[i].balance = inv[i].total
                 \/ /\ PaidAtIssue(inv[i].tender)
                    /\ inv[i].status = "PAID" /\ inv[i].balance = 0

(***************************************************************************)
(* The status says what the balance says.                                  *)
(***************************************************************************)
StatusAgrees ==
  \A i \in Requests :
    /\ inv[i].status = "PAID" => inv[i].balance = 0
    /\ inv[i].status = "ISSUED" => inv[i].balance = inv[i].total
    /\ inv[i].status = "PARTIALLY_PAID" => inv[i].balance \in 1 .. (inv[i].total - 1)

\* A paid invoice stays paid, though payments against it may be in flight.
PaidIsFinal ==
  [][\A i \in Requests : inv[i].status = "PAID" => inv'[i].status = "PAID"]_vars

(***************************************************************************)
(* What was received and what can still be received never exceed the total *)
(* (by more than the tolerance the splits of a mixed sale have).           *)
(***************************************************************************)
NeverOverpaid ==
  \A i \in Requests : inv[i].received + inv[i].balance <= inv[i].total + SplitSlack

\* "balance 0..total"
BalanceInRange == \A i \in Requests : inv[i].balance \in 0 .. inv[i].total

\* A cancelled invoice stays cancelled, and nothing is ever due on it again.
CancelledIsFinal ==
  [][\A i \in Requests : inv[i].status = "CANCELLED" =>
       inv'[i].status = "CANCELLED" /\ inv'[i].balance = 0]_vars
=============================================================================
