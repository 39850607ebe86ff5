--------------------------- MODULE SalesInvoiceProofs ---------------------------
(***************************************************************************)
(* Proofs about SalesInvoice, for any set of requests, amounts and kinds   *)
(* of request.                                                             *)
(*                                                                         *)
(* The argument for the payments: the receipt's number a payment was       *)
(* handed is the next one when it is free, and whoever else takes a        *)
(* receipt in the meantime takes that very number.  So as long as the      *)
(* number is free the invoice has received nothing since the payment's     *)
(* snapshot (Fresh), and the unique index refuses the payment otherwise.   *)
(* The second part carries this over to the whole invoice, where invoices  *)
(* are only created and paid.  The last part is about requests served one  *)
(* after the other.                                                        *)
(***************************************************************************)
EXTENDS SalesInvoice, FiniteSetTheorems, TLAPS

(***************************************************************************)
(* A free number that follows a member of an initial segment is the number *)
(* right after the whole segment.                                          *)
(***************************************************************************)
LEMMA NextOfSegment ==
  ASSUME NEW S \in SUBSET (Nat \ {0}), Segment(S),
         NEW n \in Nat \ {0}, Follows(n, S), n \notin S
  PROVE  S = 1 .. (n - 1)
<1>1. ASSUME NEW m \in S  PROVE m \in 1 .. (n - 1)
  BY <1>1 DEF Segment
<1>2. ASSUME NEW m \in 1 .. (n - 1)  PROVE m \in S
  BY <1>2 DEF Segment, Follows
<1>3. QED
  BY <1>1, <1>2

\* The first number follows nothing, so it is always a possible next one.
LEMMA OneFollows == ASSUME NEW S  PROVE Follows(1, S)
BY DEF Follows

Paying(r) == req[r].pc = "open" /\ req[r].op \in {"pay", "gateway"}

\* A request that has not committed its invoice yet has no invoice.
NotYetAt(r) ==
  req[r].pc = "idle" \/ (req[r].pc \in {"loaded", "open"} /\ req[r].op = "create") => ~Exists(r)

\* What a request is about to write exists.
TargetAt(r) ==
  /\ req[r].pc \in {"issued", "applying"} => Exists(r)
  /\ req[r].pc \in {"loaded", "open"} =>
       /\ req[r].op \in {"issue", "note", "update", "cancel", "overdue"} => Exists(req[r].doc)
       /\ req[r].op \in {"editNote", "cancelNote"} => note[req[r].doc].status # "none"
       /\ req[r].op \in {"create", "note", "editNote"} => req[r].saw.status # "none"

\* A payment in flight is for an invoice that exists, and covered by the
\* balance it saw.
CoveredAt(r) ==
  Paying(r) => /\ Exists(req[r].doc) /\ req[r].saw.status # "none"
               /\ req[r].amount <= req[r].saw.balance

\* Every receipt number a request was handed follows an issued one.
FollowsAt(r) == Follows(req[r].row[Receipt], issued[Receipt])

\* While a payment's number is free, nothing was received since its snapshot.
FreshAt(r) ==
  Paying(r) /\ Free(Receipt, req[r].row[Receipt])
    => inv[req[r].doc].received = req[r].saw.received

At(r) == NotYetAt(r) /\ TargetAt(r) /\ CoveredAt(r) /\ FollowsAt(r) /\ FreshAt(r)

\* The invoice of a credit note exists.
NotesHaveInvoices == \A n \in Requests : note[n].status # "none" => Exists(note[n].invoice)

IInv ==
  /\ TypeOK
  /\ ReceiptsGapless
  /\ NotesHaveInvoices
  /\ \A r \in Requests : At(r)

\* The three kinds of number the module uses are different.
LEMMA KindsDiffer ==
  /\ Receipt \in Kinds /\ CreditNote \in Kinds /\ Invoice \in Kinds
  /\ Receipt # CreditNote /\ Receipt # Invoice /\ CreditNote # Invoice
BY KeysAssumption, InvoiceAssumption DEF Kinds

\* What an idle or finished request carries is well typed.
LEMMA IdleType ==
  ASSUME NEW r \in Requests  PROVE Idle(r) \in Flights /\ [Idle(r) EXCEPT !.pc = "done"] \in Flights
BY DEF Idle, Flights, NoInvoice, Invoices, Statuses, AllTenders, Rows, NewRow

\* Allocations and their reads keep the row's type.
LEMMA BumpType ==
  ASSUME NEW old \in Rows, NEW seen \in Rows, NEW k \in Kinds
  PROVE  BumpInvoice(old, seen) \in Rows /\ BumpSequence(old, seen, k) \in Rows
BY InvoiceAssumption DEF BumpInvoice, BumpSequence, Rows, Kinds

\* Where a request is and what it is for.
Places == {"idle", "loaded", "open", "issued", "applying", "done"}
Kind == {"none", "create", "issue", "pay", "gateway", "note", "editNote",
         "cancelNote", "update", "cancel", "overdue"}

\* What Go yields: r goes on as told ...
LEMMA GoSelf ==
  ASSUME req \in [Requests -> Flights], NEW r \in Requests,
         NEW pc, NEW op, NEW doc, NEW amount, NEW seen
  PROVE  Go(r, pc, op, doc, amount, seen)[r] =
           [pc |-> pc, op |-> op, doc |-> doc, tender |-> req[r].tender, amount |-> amount,
            saw |-> seen, was |-> req[r].was, row |-> req[r].row]
<1>1. req[r] \in Flights
  OBVIOUS
<1>2. Go(r, pc, op, doc, amount, seen)[r]
        = [req[r] EXCEPT !.pc = pc, !.op = op, !.doc = doc, !.amount = amount, !.saw = seen]
  BY DEF Go
<1>3. QED
  BY <1>1, <1>2 DEF Flights

\* ... the others stay where they are ...
LEMMA GoOthers ==
  ASSUME req \in [Requests -> Flights], NEW r \in Requests,
         NEW pc, NEW op, NEW doc, NEW amount, NEW seen,
         NEW s \in Requests, s # r
  PROVE  Go(r, pc, op, doc, amount, seen)[s] = req[s]
BY DEF Go

\* ... and the types are kept.
LEMMA GoType ==
  ASSUME req \in [Requests -> Flights], NEW r \in Requests,
         NEW pc \in Places, NEW op \in Kind,
         NEW doc \in Requests, NEW amount \in Nat, NEW seen \in Invoices
  PROVE  Go(r, pc, op, doc, amount, seen) \in [Requests -> Flights]
<1> DEFINE next == Go(r, pc, op, doc, amount, seen)
<1>1. req[r] \in Flights
  OBVIOUS
<1>2. next[r] \in Flights
  <2>1. next[r] = [pc |-> pc, op |-> op, doc |-> doc, tender |-> req[r].tender, amount |-> amount,
                   saw |-> seen, was |-> req[r].was, row |-> req[r].row]
    BY GoSelf
  <2>2. QED
    BY <1>1, <2>1 DEF Flights, Places, Kind
<1>3. \A s \in Requests : s # r => next[s] = req[s]
  BY GoOthers
<1>4. next = [s \in Requests |-> next[s]]
  BY DEF Go
<1>5. QED
  BY <1>2, <1>3, <1>4

\* A finished request keeps nothing.
LEMMA DoneOn ==
  ASSUME req \in [Requests -> Flights], NEW r \in Requests
  PROVE  /\ Done(r) \in [Requests -> Flights]
         /\ \A s \in Requests : s # r => Done(r)[s] = req[s]
         /\ Done(r)[r].pc = "done" /\ Done(r)[r].row = NewRow
BY IdleType DEF Done, Idle

\* A payment's or a credit note's status is one.
LEMMA StatusType ==
  ASSUME NEW seen \in Invoices, NEW n \in Int  PROVE StatusFor(seen, n) \in Statuses
BY DEF StatusFor, Invoices, Statuses

\* The types of what the requests pick are those of the fields they go to.
LEMMA PickTypes ==
  /\ Amounts \subseteq Nat /\ 0 \in Nat
  /\ NoInvoice \in Invoices
  /\ \A total \in Amounts, t \in AllTenders, st \in {"DRAFT", "ISSUED"} :
       NewInvoice(st, t, total) \in Invoices
BY AmountsAssumption DEF NoInvoice, NewInvoice, Invoices, Statuses, AllTenders, PaidAtIssue

\* A request that starts keeps the types, whatever it has read.
LEMMA LoadType ==
  ASSUME TypeOK, NEW r \in Requests,
         \/ CreateLoad(r) \/ StoreCreditLoad(r) \/ IssueLoad(r) \/ Open(r) \/ PayOpen(r)
         \/ GatewayCharge(r) \/ GatewayOpen(r) \/ NoteLoad(r) \/ EditNoteLoad(r)
         \/ CancelNoteLoad(r) \/ UpdateLoad(r) \/ CancelLoad(r) \/ OverdueList(r) \/ Fail(r)
  PROVE  TypeOK'
<1>0. /\ req \in [Requests -> Flights] /\ req[r] \in Flights
      /\ \A i \in Requests : inv[i] \in Invoices
      /\ \A n \in Requests : note[n] \in Notes
      /\ row \in Rows
      /\ {"loaded", "open", "applying"} \subseteq Places
      /\ {"create", "issue", "pay", "gateway", "note", "editNote", "cancelNote",
          "update", "cancel", "overdue"} \subseteq Kind
  BY DEF TypeOK, Places, Kind
<1> SUFFICES req' \in [Requests -> Flights]
  BY DEF TypeOK, CreateLoad, StoreCreditLoad, IssueLoad, Open, PayOpen, GatewayCharge,
         GatewayOpen, NoteLoad, EditNoteLoad, CancelNoteLoad, UpdateLoad, CancelLoad,
         OverdueList, Fail, TakeUnpaid
<1>1. CASE CreateLoad(r)
  <2>1. PICK status \in {"DRAFT", "ISSUED"}, t \in Tenders, total \in Amounts, a \in Amounts \cup {0} :
          req' = Go(r, "loaded", "create", r, a, NewInvoice(status, t, total))
    BY <1>1 DEF CreateLoad
  <2>2. NewInvoice(status, t, total) \in Invoices /\ a \in Nat
    BY PickTypes, TendersAssumption
  <2>3. QED
    BY <1>0, <2>1, <2>2, GoType
<1>2. CASE StoreCreditLoad(r)
  <2>1. req[r].amount \in Nat
    BY <1>0 DEF Flights
  <2>2. QED
    BY <1>0, <1>2, <2>1, GoType DEF StoreCreditLoad
<1>3. CASE IssueLoad(r)
  <2>1. PICK i \in Requests, t \in Tenders :
          req' = [Go(r, "loaded", "issue", i, 0, inv[i]) EXCEPT ![r].tender = t]
    BY <1>3 DEF IssueLoad
  <2>2. Go(r, "loaded", "issue", i, 0, inv[i]) \in [Requests -> Flights]
    BY <1>0, GoType
  <2>3. QED
    BY <2>1, <2>2, TendersAssumption DEF Flights
<1>4. CASE Open(r)
  BY <1>0, <1>4 DEF Open, Flights
<1>5. ASSUME NEW op \in {"pay", "gateway"}, NEW i \in Requests, NEW a \in Nat,
             req' = Snapshot(r, op, i, a)
      PROVE  req' \in [Requests -> Flights]
  <2>1. Go(r, "open", op, i, a, inv[i]) \in [Requests -> Flights]
    BY <1>0, GoType
  <2>2. QED
    BY <1>0, <1>5, <2>1 DEF Snapshot, Flights
<1>6. CASE PayOpen(r)
  BY <1>5, <1>6, PickTypes DEF PayOpen
<1>7. CASE GatewayOpen(r)
  <2>1. req[r].doc \in Requests /\ req[r].amount \in Nat
    BY <1>0 DEF Flights
  <2>2. QED
    BY <1>5, <1>7, <2>1 DEF GatewayOpen
<1>8. CASE GatewayCharge(r)
  BY <1>0, <1>8, GoType, PickTypes DEF GatewayCharge
<1>9. CASE NoteLoad(r)
  BY <1>0, <1>9, GoType, PickTypes DEF NoteLoad
<1>10. ASSUME NEW op \in {"editNote", "cancelNote"}, NEW n \in Requests, NEW a \in Nat,
              TakeNote(r, op, n, a)
       PROVE  req' \in [Requests -> Flights]
  <2>1. note[n].invoice \in Requests /\ note[n].total \in Nat
    BY <1>0 DEF Notes
  <2>2. Go(r, "loaded", op, n, a, inv[note[n].invoice]) \in [Requests -> Flights]
    BY <1>0, <2>1, GoType
  <2>3. QED
    BY <1>10, <2>1, <2>2 DEF TakeNote, Flights
<1>11. CASE EditNoteLoad(r)
  BY <1>10, <1>11, PickTypes DEF EditNoteLoad
<1>12. CASE CancelNoteLoad(r)
  BY <1>10, <1>12 DEF CancelNoteLoad
<1>13. CASE UpdateLoad(r)
  <2>1. PICK a \in Amounts, i \in Requests : req' = Go(r, "loaded", "update", i, a, inv[i])
    BY <1>13 DEF UpdateLoad, TakeUnpaid
  <2>2. QED
    BY <1>0, <2>1, GoType, PickTypes
<1>14. CASE CancelLoad(r)
  BY <1>0, <1>14, GoType DEF CancelLoad, TakeUnpaid
<1>15. CASE OverdueList(r)
  BY <1>0, <1>15, GoType DEF OverdueList
<1>16. CASE Fail(r)
  BY <1>0, <1>16, DoneOn DEF Fail
<1>17. QED
  BY <1>1, <1>2, <1>3, <1>4, <1>6, <1>7, <1>8, <1>9, <1>11, <1>12, <1>13, <1>14, <1>15, <1>16

\* What Write yields: invoice i as told, with its total and tender kept ...
LEMMA WriteSelf ==
  ASSUME inv \in [Requests -> Invoices], NEW i \in Requests,
         NEW status, NEW balance, NEW sum
  PROVE  Write(i, status, balance, sum)[i] =
           [status |-> status, total |-> inv[i].total, balance |-> balance,
            received |-> inv[i].received + sum, tender |-> inv[i].tender]
<1>1. inv[i] \in Invoices
  OBVIOUS
<1>2. Write(i, status, balance, sum)[i]
        = [inv[i] EXCEPT !.status = status, !.balance = balance, !.received = @ + sum]
  BY DEF Write
<1>3. QED
  BY <1>1, <1>2 DEF Invoices

\* ... the others as they were ...
LEMMA WriteOthers ==
  ASSUME inv \in [Requests -> Invoices], NEW i \in Requests,
         NEW status, NEW balance, NEW sum, NEW j \in Requests, j # i
  PROVE  Write(i, status, balance, sum)[j] = inv[j]
BY DEF Write

\* ... and the types kept.
LEMMA WriteType ==
  ASSUME inv \in [Requests -> Invoices], NEW i \in Requests,
         NEW status \in Statuses, NEW balance \in Nat, NEW sum \in Nat
  PROVE  Write(i, status, balance, sum) \in [Requests -> Invoices]
<1> DEFINE next == Write(i, status, balance, sum)
<1>1. next[i] \in Invoices
  <2>1. next[i] = [status |-> status, total |-> inv[i].total, balance |-> balance,
                   received |-> inv[i].received + sum, tender |-> inv[i].tender]
    BY WriteSelf
  <2>2. QED
    BY <2>1 DEF Invoices
<1>2. \A j \in Requests : j # i => next[j] = inv[j]
  BY WriteOthers
<1>3. next = [j \in Requests |-> next[j]]
  BY DEF Write
<1>4. QED
  BY <1>1, <1>2, <1>3

\* Issuing a held invoice keeps the types and adds `sum` to its receipts.
LEMMA IssuedType ==
  ASSUME inv \in [Requests -> Invoices], NEW r \in Requests, req[r] \in Flights, NEW sum \in Nat
  PROVE  IssuedInvoice(r, sum) \in [Requests -> Invoices]
<1>1. req[r].doc \in Requests /\ req[r].saw.total \in Nat /\ req[r].tender \in AllTenders
  BY DEF Flights, Invoices
<1>2. (IF PaidAtIssue(req[r].tender) THEN "PAID" ELSE "ISSUED") \in Statuses
  BY DEF Statuses
<1>3. (IF PaidAtIssue(req[r].tender) THEN 0 ELSE req[r].saw.total) \in Nat
  BY <1>1
<1> DEFINE written == Write(req[r].doc, IF PaidAtIssue(req[r].tender) THEN "PAID" ELSE "ISSUED",
                            IF PaidAtIssue(req[r].tender) THEN 0 ELSE req[r].saw.total, sum)
<1>4. written \in [Requests -> Invoices]
  BY <1>1, <1>2, <1>3, WriteType
<1>5. IssuedInvoice(r, sum) = [written EXCEPT ![req[r].doc] = [@ EXCEPT !.tender = req[r].tender]]
  BY DEF IssuedInvoice
<1>6. [written[req[r].doc] EXCEPT !.tender = req[r].tender] \in Invoices
  BY <1>1, <1>4 DEF Invoices
<1> HIDE DEF written
<1>7. QED
  BY <1>1, <1>4, <1>5, <1>6

\* What the two receipts of a mixed sale add up to is an amount.
LEMMA SplitType == ASSUME NEW total \in Nat  PROVE SplitSums(total) \subseteq Nat
BY AmountsAssumption DEF SplitSums

\* A request that writes keeps the types too; a payment's amount is covered
\* by the balance it saw.
LEMMA CommitType ==
  ASSUME TypeOK, NEW r \in Requests, CoveredAt(r),
         \/ CreateCommit(r) \/ StoreCreditApply(r) \/ IssueCommit(r) \/ IssueMixedCommit(r)
         \/ PayCommit(r) \/ NoteCommit(r) \/ EditNoteCommit(r) \/ CancelNoteCommit(r)
         \/ UpdateCommit(r) \/ CancelCommit(r) \/ OverdueMark(r)
  PROVE  TypeOK'
<1>0. /\ inv \in [Requests -> Invoices] /\ note \in [Requests -> Notes] /\ row \in Rows
      /\ issued \in [Kinds -> SUBSET (Nat \ {0})] /\ req \in [Requests -> Flights]
      /\ req[r] \in Flights /\ req[r].doc \in Requests /\ req[r].row \in Rows
      /\ req[r].saw \in Invoices /\ req[r].saw.balance \in Nat /\ req[r].saw.total \in Nat
      /\ req[r].amount \in Nat /\ req[r].was \in Nat /\ req[r].saw.status \in Statuses
      /\ \A k \in Kinds : row[k] \in Nat \ {0} /\ req[r].row[k] \in Nat \ {0}
  BY DEF TypeOK, Flights, Invoices, Rows
<1>1. Done(r) \in [Requests -> Flights]
  BY <1>0, DoneOn
<1>2. {"PAID", "PARTIALLY_PAID", "ISSUED", "CANCELLED", "OVERDUE"} \subseteq Statuses
  BY DEF Statuses
<1>3. \A n \in Int : NotBelowZero(n) \in Nat /\ StatusFor(req[r].saw, n) \in Statuses
  BY <1>0, StatusType DEF NotBelowZero
<1>4. CASE CreateCommit(r)
  <2>1. req' \in [Requests -> Flights]
    BY <1>0, <1>1, <1>4 DEF CreateCommit, Flights
  <2> DEFINE numbered == BumpInvoice(row, req[r].row)
             n == numbered[Receipt]
  <2>2. numbered \in Rows /\ n \in Nat \ {0}
    BY <1>0, BumpType, KindsDiffer DEF Rows
  <2>3. [numbered EXCEPT ![Receipt] = n + 2] \in Rows
    BY <2>2, KindsDiffer DEF Rows
  <2>4. \A sum \in Nat : [inv EXCEPT ![r] = [req[r].saw EXCEPT !.received = sum]] \in [Requests -> Invoices]
    BY <1>0 DEF Invoices
  <2>5. CASE IssuedMixed(r)
    <3>1. inv' \in [Requests -> Invoices]
      <4>1. PICK sum \in SplitSums(req[r].saw.total) :
              inv' = [inv EXCEPT ![r] = [req[r].saw EXCEPT !.received = sum]]
        BY <1>4, <2>5 DEF CreateCommit
      <4>2. sum \in Nat
        BY <1>0, SplitType
      <4>3. QED
        BY <2>4, <4>1, <4>2
    <3>2. row' \in Rows
      BY <1>4, <2>3, <2>5 DEF CreateCommit
    <3>3. issued' \in [Kinds -> SUBSET (Nat \ {0})]
      <4>1. issued' = [issued EXCEPT ![Invoice] = @ \cup {req[r].row[Invoice]},
                                     ![Receipt] = @ \cup {n, n + 1}]
        BY <1>4, <2>5 DEF CreateCommit
      <4>2. req[r].row[Invoice] \in Nat \ {0} /\ n \in Nat \ {0} /\ n + 1 \in Nat \ {0}
        BY <1>0, <2>2, KindsDiffer
      <4>3. QED
        BY <1>0, <4>1, <4>2
    <3>4. QED
      BY <1>0, <1>4, <2>1, <3>1, <3>2, <3>3 DEF CreateCommit, TypeOK
  <2>6. CASE ~IssuedMixed(r)
    <3>1. /\ inv' = [inv EXCEPT ![r] = req[r].saw]
          /\ row' = numbered
          /\ issued' = [issued EXCEPT ![Invoice] = @ \cup {req[r].row[Invoice]}]
          /\ note' = note
      BY <1>4, <2>6 DEF CreateCommit
    <3>2. req[r].row[Invoice] \in Nat \ {0}
      BY <1>0, KindsDiffer
    <3>3. issued' \in [Kinds -> SUBSET (Nat \ {0})]
      BY <1>0, <3>1, <3>2
    <3>4. QED
      BY <1>0, <2>1, <2>2, <3>1, <3>3 DEF TypeOK
  <2>7. QED
    BY <2>5, <2>6
<1>5. CASE StoreCreditApply(r)
  <2> DEFINE balance == NotBelowZero(req[r].saw.balance - req[r].amount)
  <2>1. balance \in Nat
    BY <1>0, <1>3
  <2>2. (IF balance = 0 THEN "PAID" ELSE "PARTIALLY_PAID") \in Statuses
    BY <1>2
  <2>3. inv' = Write(r, IF balance = 0 THEN "PAID" ELSE "PARTIALLY_PAID", balance, 0)
    BY <1>5 DEF StoreCreditApply
  <2>4. inv' \in [Requests -> Invoices]
    BY <1>0, <2>1, <2>2, <2>3, WriteType
  <2>5. QED
    BY <1>0, <1>1, <1>5, <2>4 DEF StoreCreditApply, TypeOK
<1>6. CASE IssueCommit(r)
  BY <1>0, <1>1, <1>6, IssuedType DEF IssueCommit, TypeOK
<1>7. CASE IssueMixedCommit(r)
  <2> DEFINE n == req[r].row[Receipt]
             first == BumpSequence(row, req[r].row, Receipt)
  <2>1. n \in Nat \ {0} /\ n + 1 \in Nat \ {0}
    BY <1>0, KindsDiffer
  <2>2. first \in Rows
    BY <1>0, BumpType, KindsDiffer
  <2>3. BumpSequence(first, first, Receipt) \in Rows
    BY <2>2, BumpType, KindsDiffer
  <2>4. PICK sum \in SplitSums(req[r].saw.total) : inv' = IssuedInvoice(r, sum)
    BY <1>7 DEF IssueMixedCommit
  <2>5. inv' \in [Requests -> Invoices]
    BY <1>0, <2>4, SplitType, IssuedType
  <2>6. issued' = [issued EXCEPT ![Receipt] = @ \cup {n, n + 1}] /\ row' = BumpSequence(first, first, Receipt)
        /\ req' = Done(r) /\ note' = note
    BY <1>7 DEF IssueMixedCommit
  <2>7. issued' \in [Kinds -> SUBSET (Nat \ {0})]
    BY <1>0, <2>1, <2>6
  <2>8. QED
    BY <1>0, <1>1, <2>3, <2>5, <2>6, <2>7 DEF TypeOK
<1>8. CASE PayCommit(r)
  <2>1. req[r].amount <= req[r].saw.balance
    BY <1>8 DEF PayCommit, CoveredAt, Paying
  <2>2. req[r].saw.balance - req[r].amount \in Nat
    BY <1>0, <2>1
  <2>3. inv' \in [Requests -> Invoices]
    <3>1. inv' = Write(req[r].doc, StatusFor(req[r].saw, req[r].saw.balance - req[r].amount),
                       req[r].saw.balance - req[r].amount, req[r].amount)
      BY <1>8 DEF PayCommit, PaidInvoice
    <3>2. StatusFor(req[r].saw, req[r].saw.balance - req[r].amount) \in Statuses
      BY <1>3, <2>2
    <3>3. QED
      BY <1>0, <2>2, <3>1, <3>2, WriteType
  <2>4. row' \in Rows
    BY <1>0, <1>8, BumpType, KindsDiffer DEF PayCommit
  <2>5. issued' \in [Kinds -> SUBSET (Nat \ {0})]
    BY <1>0, <1>8, KindsDiffer DEF PayCommit
  <2>6. QED
    BY <1>0, <1>1, <1>8, <2>3, <2>4, <2>5 DEF PayCommit, TypeOK
<1>9. CASE NoteCommit(r)
  <2>1. req[r].saw.balance - req[r].amount \in Int
    BY <1>0
  <2>2. inv' \in [Requests -> Invoices]
    <3>1. inv' = Write(req[r].doc, StatusFor(req[r].saw, req[r].saw.balance - req[r].amount),
                       NotBelowZero(req[r].saw.balance - req[r].amount), 0)
      BY <1>9 DEF NoteCommit
    <3>2. QED
      BY <1>0, <1>3, <2>1, <3>1, WriteType
  <2>3. note' \in [Requests -> Notes]
    BY <1>0, <1>9 DEF NoteCommit, Notes
  <2>4. row' \in Rows
    BY <1>0, <1>9, BumpType, KindsDiffer DEF NoteCommit
  <2>5. issued' \in [Kinds -> SUBSET (Nat \ {0})]
    BY <1>0, <1>9, KindsDiffer DEF NoteCommit
  <2>6. QED
    BY <1>1, <1>9, <2>2, <2>3, <2>4, <2>5 DEF NoteCommit, TypeOK
<1>10. CASE EditNoteCommit(r)
  <2> DEFINE seen == req[r].saw
             balance == seen.balance - (req[r].amount - req[r].was)
             i == note[req[r].doc].invoice
             status == IF balance >= seen.total /\ seen.status = "PAID"
                       THEN "PARTIALLY_PAID" ELSE StatusFor(seen, balance)
  <2>1. balance \in Int /\ i \in Requests
    BY <1>0 DEF Notes
  <2>2. status \in Statuses /\ NotBelowZero(balance) \in Nat
    BY <1>2, <1>3, <2>1
  <2>3. Write(i, status, NotBelowZero(balance), 0) \in [Requests -> Invoices]
    BY <1>0, <2>1, <2>2, WriteType
  <2>4. inv' \in [Requests -> Invoices]
    BY <1>0, <1>10, <2>3 DEF EditNoteCommit
  <2>5. note' \in [Requests -> Notes]
    BY <1>0, <1>10 DEF EditNoteCommit, Notes
  <2>6. QED
    BY <1>0, <1>1, <1>10, <2>4, <2>5 DEF EditNoteCommit, TypeOK
<1>11. CASE CancelNoteCommit(r)
  <2> DEFINE balance == req[r].saw.balance + req[r].was
             i == note[req[r].doc].invoice
             status == IF balance >= req[r].saw.total THEN "ISSUED" ELSE "PARTIALLY_PAID"
  <2>1. balance \in Nat /\ i \in Requests /\ status \in Statuses
    BY <1>0, <1>2 DEF Notes
  <2>2. Write(i, status, balance, 0) \in [Requests -> Invoices]
    BY <1>0, <2>1, WriteType
  <2>3. inv' \in [Requests -> Invoices]
    BY <1>11, <2>2 DEF CancelNoteCommit
  <2>4. note' \in [Requests -> Notes]
    BY <1>0, <1>11 DEF CancelNoteCommit, Notes
  <2>5. QED
    BY <1>0, <1>1, <1>11, <2>3, <2>4 DEF CancelNoteCommit, TypeOK
<1>12. CASE UpdateCommit(r)
  <2>1. [inv[req[r].doc] EXCEPT !.total = req[r].amount, !.balance = req[r].amount] \in Invoices
    BY <1>0 DEF Invoices
  <2>2. inv' \in [Requests -> Invoices]
    BY <1>0, <1>12, <2>1 DEF UpdateCommit
  <2>3. QED
    BY <1>0, <1>1, <1>12, <2>2 DEF UpdateCommit, TypeOK
<1>13. CASE CancelCommit(r)
  <2>1. inv' \in [Requests -> Invoices]
    BY <1>0, <1>2, <1>13, WriteType DEF CancelCommit
  <2>2. QED
    BY <1>0, <1>1, <1>13, <2>1 DEF CancelCommit, TypeOK
<1>14. CASE OverdueMark(r)
  <2>1. inv[req[r].doc].balance \in Nat
    BY <1>0 DEF Invoices
  <2>2. inv' \in [Requests -> Invoices]
    BY <1>0, <1>2, <1>14, <2>1, WriteType DEF OverdueMark
  <2>3. QED
    BY <1>0, <1>1, <1>14, <2>2 DEF OverdueMark, TypeOK
<1>15. QED
  BY <1>4, <1>5, <1>6, <1>7, <1>8, <1>9, <1>10, <1>11, <1>12, <1>13, <1>14

\* Whoever takes the next receipt takes every number that was the next one.
TakesNext ==
  \A n \in Nat \ {0} :
    Follows(n, issued[Receipt]) /\ n \notin issued[Receipt] => n \in issued'[Receipt]

(***************************************************************************)
(* What r's step leaves alone: the other requests keep what they know,     *)
(* because invoices and notes do not vanish, and a step that changes what  *)
(* an invoice has received takes the number any other payment would take.  *)
(***************************************************************************)
LEMMA OthersKeep ==
  ASSUME IInv, NEW r \in Requests, NEW s \in Requests, s # r,
         req'[s] = req[s],
         \A i \in Requests : Exists(i) => inv'[i].status # "none",
         ~Exists(s) => inv'[s].status = "none",
         \A n \in Requests : note[n].status # "none" => note'[n].status # "none",
         issued[Receipt] \subseteq issued'[Receipt],
         TakesNext \/ \A i \in Requests : Exists(i) => inv'[i].received = inv[i].received
  PROVE  At(s)'
<1>1. At(s) /\ req[s] \in Flights /\ req[s].doc \in Requests /\ req[s].row[Receipt] \in Nat \ {0}
  BY KindsDiffer DEF IInv, TypeOK, Flights, Rows
<1>2. NotYetAt(s)' /\ TargetAt(s)' /\ CoveredAt(s)'
  BY <1>1 DEF At, NotYetAt, TargetAt, CoveredAt, Paying, Exists
<1>3. FollowsAt(s)'
  BY <1>1 DEF At, FollowsAt, Follows
<1>4. FreshAt(s)'
  <2> SUFFICES ASSUME Paying(s), req[s].row[Receipt] \notin issued'[Receipt]
               PROVE  inv'[req[s].doc].received = req[s].saw.received
    BY DEF FreshAt, Paying, Free
  <2>1. req[s].row[Receipt] \notin issued[Receipt] /\ Exists(req[s].doc)
        /\ inv[req[s].doc].received = req[s].saw.received
    BY <1>1 DEF At, FreshAt, CoveredAt, Free
  <2>2. ~TakesNext
    BY <1>1, <2>1 DEF TakesNext, At, FollowsAt
  <2>3. QED
    BY <1>1, <2>1, <2>2
<1>5. QED
  BY <1>2, <1>3, <1>4 DEF At

\* A request that starts or ends without a write keeps the invariant.
LEMMA LoadKeeps ==
  ASSUME IInv, TypeOK', NEW r \in Requests,
         UNCHANGED <<inv, note, row, issued>>,
         \A s \in Requests : s # r => req'[s] = req[s],
         At(r)'
  PROVE  IInv'
<1>1. \A s \in Requests : s # r => At(s)'
  BY OthersKeep DEF Exists
<1>2. ReceiptsGapless' /\ NotesHaveInvoices'
  BY DEF IInv, ReceiptsGapless, NotesHaveInvoices, Exists
<1>3. QED
  BY <1>1, <1>2 DEF IInv

\* Starting, reading and failing keep the invariant.
LEMMA LoadStep ==
  ASSUME IInv, NEW r \in Requests,
         \/ CreateLoad(r) \/ StoreCreditLoad(r) \/ IssueLoad(r) \/ Open(r) \/ PayOpen(r)
         \/ GatewayCharge(r) \/ GatewayOpen(r) \/ NoteLoad(r) \/ EditNoteLoad(r)
         \/ CancelNoteLoad(r) \/ UpdateLoad(r) \/ CancelLoad(r) \/ OverdueList(r) \/ Fail(r)
  PROVE  IInv'
<1>0. /\ TypeOK /\ At(r) /\ req \in [Requests -> Flights] /\ req[r] \in Flights
      /\ Follows(row[Receipt], issued[Receipt])
  BY DEF IInv, TypeOK, ReceiptsGapless
<1>1. TypeOK'
  BY <1>0, LoadType
<1>2. UNCHANGED <<inv, note, row, issued>>
  BY DEF CreateLoad, StoreCreditLoad, IssueLoad, Open, PayOpen, GatewayCharge, GatewayOpen,
         NoteLoad, EditNoteLoad, CancelNoteLoad, UpdateLoad, CancelLoad, OverdueList, Fail,
         TakeUnpaid
<1> SUFFICES At(r)' /\ \A s \in Requests : s # r => req'[s] = req[s]
  BY <1>1, <1>2, LoadKeeps
\* A request that goes on to be loaded has its target, and its number follows.
<1>3. ASSUME NEW op \in Kind, NEW doc, NEW amount, NEW seen, NEW pc \in {"loaded", "applying"},
             req' = Go(r, pc, op, doc, amount, seen),
             pc = "applying" => req[r].pc = "issued" /\ op = "create",
             pc = "loaded" =>
               /\ op = "create" => ~Exists(r)
               /\ op \in {"issue", "note", "update", "cancel", "overdue"} => Exists(doc)
               /\ op \in {"editNote", "cancelNote"} => note[doc].status # "none"
               /\ op \in {"create", "note", "editNote"} => seen.status # "none"
      PROVE  At(r)' /\ \A s \in Requests : s # r => req'[s] = req[s]
  <2>1. req'[r] = [pc |-> pc, op |-> op, doc |-> doc, tender |-> req[r].tender, amount |-> amount,
                   saw |-> seen, was |-> req[r].was, row |-> req[r].row]
    BY <1>0, <1>3, GoSelf
  <2>2. \A s \in Requests : s # r => req'[s] = req[s]
    BY <1>0, <1>3, GoOthers
  <2>3. At(r)'
    BY <1>0, <1>2, <1>3, <2>1
       DEF At, NotYetAt, TargetAt, CoveredAt, FollowsAt, FreshAt, Paying, Exists
  <2>4. QED
    BY <2>2, <2>3
\* A payment's snapshot is fresh.
<1>4. ASSUME NEW op \in {"pay", "gateway"}, NEW i \in Requests, NEW a \in Nat,
             req' = Snapshot(r, op, i, a), Exists(i), a <= inv[i].balance
      PROVE  At(r)' /\ \A s \in Requests : s # r => req'[s] = req[s]
  <2> DEFINE go == Go(r, "open", op, i, a, inv[i])
  <2>1. go[r] = [pc |-> "open", op |-> op, doc |-> i, tender |-> req[r].tender, amount |-> a,
                 saw |-> inv[i], was |-> req[r].was, row |-> req[r].row]
    BY <1>0, GoSelf
  <2>2. \A s \in Requests : s # r => go[s] = req[s]
    BY <1>0, GoOthers
  <2>3. req' = [go EXCEPT ![r].row = row] /\ DOMAIN go = Requests
    BY <1>0, <1>4 DEF Snapshot, Go
  <2> HIDE DEF go
  <2>4. /\ req'[r].pc = "open" /\ req'[r].op = op /\ req'[r].doc = i /\ req'[r].amount = a
        /\ req'[r].saw = inv[i] /\ req'[r].row = row
        /\ \A s \in Requests : s # r => req'[s] = req[s]
    BY <2>1, <2>2, <2>3
  <2>5. At(r)'
    BY <1>0, <1>2, <1>4, <2>4
       DEF At, NotYetAt, TargetAt, CoveredAt, FollowsAt, FreshAt, Paying, Exists, Free
  <2>6. QED
    BY <2>4, <2>5
<1>5. CASE CreateLoad(r)
  <2>1. req[r].pc = "idle" /\ ~Exists(r)
    BY <1>0, <1>5 DEF CreateLoad, Take, At, NotYetAt
  <2>2. PICK a, new : new.status # "none" /\ req' = Go(r, "loaded", "create", r, a, new)
    <3>1. PICK status \in {"DRAFT", "ISSUED"}, t \in Tenders, total \in Amounts, a \in Amounts \cup {0} :
            req' = Go(r, "loaded", "create", r, a, NewInvoice(status, t, total))
      BY <1>5 DEF CreateLoad
    <3>2. NewInvoice(status, t, total).status # "none"
      BY DEF NewInvoice
    <3>3. QED
      BY <3>1, <3>2
  <2>3. QED
    BY <1>3, <2>1, <2>2 DEF Kind
<1>6. CASE StoreCreditLoad(r)
  BY <1>3, <1>6 DEF StoreCreditLoad, Kind
<1>7. CASE IssueLoad(r)
  <2>1. PICK i \in Requests, t \in Tenders :
          Exists(i) /\ req' = [Go(r, "loaded", "issue", i, 0, inv[i]) EXCEPT ![r].tender = t]
    BY <1>7 DEF IssueLoad, Exists
  <2> DEFINE go == Go(r, "loaded", "issue", i, 0, inv[i])
  <2>2. go[r] = [pc |-> "loaded", op |-> "issue", doc |-> i, tender |-> req[r].tender, amount |-> 0,
                 saw |-> inv[i], was |-> req[r].was, row |-> req[r].row]
    BY <1>0, GoSelf
  <2>3. DOMAIN go = Requests /\ \A s \in Requests : s # r => go[s] = req[s]
    BY <1>0, GoOthers DEF Go
  <2>4. req' = [go EXCEPT ![r].tender = t]
    BY <2>1
  <2> HIDE DEF go
  <2>5. /\ req'[r].pc = "loaded" /\ req'[r].op = "issue" /\ req'[r].doc = i /\ req'[r].row = req[r].row
        /\ \A s \in Requests : s # r => req'[s] = req[s]
    BY <2>2, <2>3, <2>4
  <2>6. At(r)'
    BY <1>0, <1>2, <2>1, <2>5
       DEF At, NotYetAt, TargetAt, CoveredAt, FollowsAt, FreshAt, Paying, Exists
  <2>7. QED
    BY <2>5, <2>6
<1>8. CASE Open(r)
  <2>1. /\ req[r].pc = "loaded" /\ req[r].op \in {"create", "note", "issue"}
        /\ req'[r].pc = "open" /\ req'[r].op = req[r].op /\ req'[r].doc = req[r].doc
        /\ req'[r].row = row /\ req'[r].saw = req[r].saw
        /\ \A s \in Requests : s # r => req'[s] = req[s]
    BY <1>0, <1>8 DEF Open, Flights
  <2>2. QED
    BY <1>0, <1>2, <2>1
       DEF At, NotYetAt, TargetAt, CoveredAt, FollowsAt, FreshAt, Paying, Exists
<1>9. CASE PayOpen(r)
  BY <1>4, <1>9, PickTypes DEF PayOpen, Exists
<1>10. CASE GatewayOpen(r)
  <2>1. req[r].doc \in Requests /\ req[r].amount \in Nat
    BY <1>0 DEF Flights
  <2>2. QED
    BY <1>4, <1>10, <2>1 DEF GatewayOpen, Exists
<1>11. CASE GatewayCharge(r)
  BY <1>3, <1>11 DEF GatewayCharge, Kind
<1>12. CASE NoteLoad(r)
  BY <1>3, <1>12 DEF NoteLoad, Kind, Exists
<1>13. ASSUME NEW op \in {"editNote", "cancelNote"}, NEW n \in Requests, NEW a \in Nat,
              TakeNote(r, op, n, a)
       PROVE  At(r)' /\ \A s \in Requests : s # r => req'[s] = req[s]
  <2> DEFINE go == Go(r, "loaded", op, n, a, inv[note[n].invoice])
  <2>1. go[r] = [pc |-> "loaded", op |-> op, doc |-> n, tender |-> req[r].tender, amount |-> a,
                 saw |-> inv[note[n].invoice], was |-> req[r].was, row |-> req[r].row]
    BY <1>0, GoSelf
  <2>2. DOMAIN go = Requests /\ \A s \in Requests : s # r => go[s] = req[s]
    BY <1>0, GoOthers DEF Go
  <2>3. /\ req' = [go EXCEPT ![r].was = note[n].total] /\ note[n].status = "APPROVED"
        /\ Exists(note[n].invoice)
    BY <1>13 DEF TakeNote, IInv, NotesHaveInvoices
  <2> HIDE DEF go
  <2>4. /\ req'[r].pc = "loaded" /\ req'[r].op = op /\ req'[r].doc = n /\ req'[r].row = req[r].row
        /\ req'[r].saw = inv[note[n].invoice]
        /\ \A s \in Requests : s # r => req'[s] = req[s]
    BY <2>1, <2>2, <2>3
  <2>5. At(r)'
    BY <1>0, <1>2, <2>3, <2>4
       DEF At, NotYetAt, TargetAt, CoveredAt, FollowsAt, FreshAt, Paying, Exists
  <2>6. QED
    BY <2>4, <2>5
<1>14. CASE EditNoteLoad(r)
  BY <1>13, <1>14, PickTypes DEF EditNoteLoad
<1>15. CASE CancelNoteLoad(r)
  BY <1>13, <1>15 DEF CancelNoteLoad
<1>16. ASSUME NEW op \in {"update", "cancel"}, NEW a, TakeUnpaid(r, op, a)
       PROVE  At(r)' /\ \A s \in Requests : s # r => req'[s] = req[s]
  BY <1>3, <1>16 DEF TakeUnpaid, Kind, Exists
<1>17. CASE UpdateLoad(r) \/ CancelLoad(r)
  BY <1>16, <1>17 DEF UpdateLoad, CancelLoad
<1>18. CASE OverdueList(r)
  BY <1>3, <1>18 DEF OverdueList, Kind, Exists
<1>19. CASE Fail(r)
  <2>1. /\ req'[r].pc = "done" /\ req'[r].row = NewRow
        /\ \A s \in Requests : s # r => req'[s] = req[s]
    BY <1>0, <1>19, DoneOn DEF Fail
  <2>2. Follows(NewRow[Receipt], issued[Receipt])
    BY KindsDiffer, OneFollows DEF NewRow
  <2>3. QED
    BY <1>2, <2>1, <2>2 DEF At, NotYetAt, TargetAt, CoveredAt, FollowsAt, FreshAt, Paying
<1>20. QED
  BY <1>5, <1>6, <1>7, <1>8, <1>9, <1>10, <1>11, <1>12, <1>14, <1>15, <1>17, <1>18, <1>19

(***************************************************************************)
(* A receipt number that follows and is free is the next one; taking it,   *)
(* alone or with the one after it, keeps the receipts gapless.             *)
(***************************************************************************)
LEMMA NextReceipt ==
  ASSUME IInv, NEW n \in Nat \ {0}, Follows(n, issued[Receipt]), Free(Receipt, n)
  PROVE  LET one == issued[Receipt] \cup {n}
             two == issued[Receipt] \cup {n, n + 1}
         IN  /\ Segment(one) /\ Follows(n + 1, one)
             /\ Segment(two) /\ Follows(n + 2, two)
             /\ issued'[Receipt] \in {one, two} => TakesNext
<1> DEFINE S == issued[Receipt]
<1>1. S \in SUBSET (Nat \ {0}) /\ Segment(S) /\ n \notin S
  BY KindsDiffer DEF IInv, TypeOK, ReceiptsGapless, Free
<1>2. S = 1 .. (n - 1)
  BY <1>1, NextOfSegment
<1>3. S \cup {n} = 1 .. n /\ S \cup {n, n + 1} = 1 .. (n + 1)
  BY <1>2
<1>4. \A m \in Nat \ {0} : Follows(m, S) /\ m \notin S => m = n
  <2> SUFFICES ASSUME NEW m \in Nat \ {0}, Follows(m, S), m \notin S  PROVE m = n
    OBVIOUS
  <2>1. S = 1 .. (m - 1)
    BY <1>1, NextOfSegment
  <2>2. QED
    BY <1>2, <2>1
<1>5. Segment(S \cup {n}) /\ Follows(n + 1, S \cup {n})
  BY <1>3 DEF Segment, Follows
<1>6. Segment(S \cup {n, n + 1}) /\ Follows(n + 2, S \cup {n, n + 1})
  BY <1>3 DEF Segment, Follows
<1>7. QED
  BY <1>4, <1>5, <1>6 DEF TakesNext

\* A request that writes and is done with keeps the invariant, if its writes do.
LEMMA DoneKeeps ==
  ASSUME IInv, TypeOK', NEW r \in Requests, req' = Done(r),
         ReceiptsGapless', NotesHaveInvoices',
         \A i \in Requests : Exists(i) => inv'[i].status # "none",
         \A i \in Requests : i # r /\ ~Exists(i) => inv'[i].status = "none",
         \A n \in Requests : note[n].status # "none" => note'[n].status # "none",
         issued[Receipt] \subseteq issued'[Receipt],
         TakesNext \/ \A i \in Requests : Exists(i) => inv'[i].received = inv[i].received
  PROVE  IInv'
<1>1. /\ \A s \in Requests : s # r => req'[s] = req[s]
      /\ req'[r].pc = "done" /\ req'[r].row = NewRow
  BY DoneOn DEF IInv, TypeOK
<1>2. \A s \in Requests : s # r => At(s)'
  BY <1>1, OthersKeep
<1>3. At(r)'
  <2>1. Follows(NewRow[Receipt], issued'[Receipt])
    BY KindsDiffer, OneFollows DEF NewRow
  <2>2. QED
    BY <1>1, <2>1 DEF At, NotYetAt, TargetAt, CoveredAt, FollowsAt, FreshAt, Paying
<1>4. QED
  BY <1>2, <1>3 DEF IInv

\* What a Write to an existing invoice means for the rest.
LEMMA WriteFrame ==
  ASSUME IInv, NEW d \in Requests, Exists(d),
         NEW status \in Statuses \ {"none"}, NEW balance \in Nat, NEW sum \in Nat,
         inv' = Write(d, status, balance, sum)
  PROVE  /\ \A i \in Requests : Exists(i) => inv'[i].status # "none"
         /\ \A i \in Requests : ~Exists(i) => inv'[i].status = "none"
         /\ sum = 0 => \A i \in Requests : inv'[i].received = inv[i].received
<1>1. inv \in [Requests -> Invoices] /\ \A i \in Requests : inv[i].received \in Nat
  BY DEF IInv, TypeOK, Invoices
<1>2. inv'[d] = [status |-> status, total |-> inv[d].total, balance |-> balance,
                 received |-> inv[d].received + sum, tender |-> inv[d].tender]
  BY <1>1, WriteSelf
<1>3. \A i \in Requests : i # d => inv'[i] = inv[i]
  BY <1>1, WriteOthers
<1>4. QED
  BY <1>1, <1>2, <1>3 DEF Exists

\* Issuing a held invoice means as little for the rest.
LEMMA IssuedFrame ==
  ASSUME IInv, NEW r \in Requests, Exists(req[r].doc), NEW sum \in Nat,
         inv' = IssuedInvoice(r, sum)
  PROVE  /\ \A i \in Requests : Exists(i) => inv'[i].status # "none"
         /\ \A i \in Requests : ~Exists(i) => inv'[i].status = "none"
         /\ sum = 0 => \A i \in Requests : inv'[i].received = inv[i].received
<1> DEFINE d == req[r].doc
           status == IF PaidAtIssue(req[r].tender) THEN "PAID" ELSE "ISSUED"
           balance == IF PaidAtIssue(req[r].tender) THEN 0 ELSE req[r].saw.total
           written == Write(d, status, balance, sum)
<1>1. /\ inv \in [Requests -> Invoices] /\ d \in Requests
      /\ \A i \in Requests : inv[i].received \in Nat
  BY DEF IInv, TypeOK, Invoices, Flights
<1>2. written[d] = [status |-> status, total |-> inv[d].total, balance |-> balance,
                    received |-> inv[d].received + sum, tender |-> inv[d].tender]
  BY <1>1, WriteSelf
<1>3. DOMAIN written = Requests /\ \A i \in Requests : i # d => written[i] = inv[i]
  BY <1>1, WriteOthers DEF Write
<1>4. inv' = [written EXCEPT ![d] = [@ EXCEPT !.tender = req[r].tender]]
  BY DEF IssuedInvoice
<1>5. status # "none"
  OBVIOUS
<1> HIDE DEF written, status
<1>6. inv'[d].status = status /\ inv'[d].received = inv[d].received + sum
  BY <1>1, <1>2, <1>3, <1>4
<1>7. \A i \in Requests : i # d => inv'[i] = inv[i]
  BY <1>3, <1>4
<1>8. QED
  BY <1>1, <1>5, <1>6, <1>7 DEF Exists

\* What a commit of the rest of the kinds means for the receipts: nothing.
LEMMA ReceiptsStay ==
  ASSUME IInv, row' = row, issued' = issued  PROVE ReceiptsGapless'
BY DEF IInv, ReceiptsGapless

\* The notes' invoices are still there when no note changes its invoice.
LEMMA NotesStay ==
  ASSUME IInv, \A i \in Requests : Exists(i) => inv'[i].status # "none",
         \A n \in Requests :
           note'[n].status # "none" => note[n].status # "none" /\ note'[n].invoice = note[n].invoice
  PROVE  NotesHaveInvoices'
<1>1. \A n \in Requests : note[n].invoice \in Requests
  BY DEF IInv, TypeOK, Notes
<1>2. QED
  BY <1>1 DEF IInv, NotesHaveInvoices, Exists

\* A status computed from one that exists exists.
LEMMA StatusExists ==
  ASSUME NEW seen \in Invoices, NEW n \in Int, seen.status # "none"
  PROVE  StatusFor(seen, n) \in Statuses \ {"none"}
BY StatusType DEF StatusFor

\* A payment that commits keeps the invariant: it takes the next receipt.
LEMMA PayStep ==
  ASSUME IInv, TypeOK', NEW r \in Requests, PayCommit(r)  PROVE IInv'
<1> DEFINE d == req[r].doc
           n == req[r].row[Receipt]
           balance == req[r].saw.balance - req[r].amount
<1>1. /\ Paying(r) /\ At(r) /\ d \in Requests /\ Exists(d)
      /\ n \in Nat \ {0} /\ Follows(n, issued[Receipt]) /\ Free(Receipt, n)
      /\ req[r].saw \in Invoices /\ req[r].saw.status # "none"
      /\ req[r].amount \in Nat /\ balance \in Nat
  BY KindsDiffer DEF IInv, TypeOK, PayCommit, Paying, At, CoveredAt, FollowsAt, Flights, Rows, Invoices
<1>2. StatusFor(req[r].saw, balance) \in Statuses \ {"none"}
  BY <1>1, StatusExists
<1>3. inv' = Write(d, StatusFor(req[r].saw, balance), balance, req[r].amount)
  BY DEF PayCommit, PaidInvoice
<1>4. /\ \A i \in Requests : Exists(i) => inv'[i].status # "none"
      /\ \A i \in Requests : ~Exists(i) => inv'[i].status = "none"
  BY <1>1, <1>2, <1>3, WriteFrame
<1>5. issued'[Receipt] = issued[Receipt] \cup {n} /\ row'[Receipt] = n + 1
  BY KindsDiffer DEF PayCommit, BumpSequence, IInv, TypeOK
<1>6. ReceiptsGapless' /\ TakesNext
  BY <1>1, <1>5, NextReceipt DEF ReceiptsGapless
<1>7. req' = Done(r) /\ note' = note
  BY DEF PayCommit
<1>8. NotesHaveInvoices'
  BY <1>4, <1>7, NotesStay
<1>9. QED
  BY <1>4, <1>5, <1>6, <1>7, <1>8, DoneKeeps

\* So does a mixed sale that is issued: it takes the next two.
LEMMA IssueMixedStep ==
  ASSUME IInv, TypeOK', NEW r \in Requests, IssueMixedCommit(r)  PROVE IInv'
<1> DEFINE n == req[r].row[Receipt]
           first == BumpSequence(row, req[r].row, Receipt)
<1>1. /\ At(r) /\ Exists(req[r].doc) /\ req[r].saw.total \in Nat
      /\ n \in Nat \ {0} /\ Follows(n, issued[Receipt]) /\ Free(Receipt, n)
  BY KindsDiffer
     DEF IInv, TypeOK, IssueMixedCommit, Writing, At, TargetAt, FollowsAt, Flights, Rows, Invoices
<1>2. PICK sum \in SplitSums(req[r].saw.total) : inv' = IssuedInvoice(r, sum)
  BY DEF IssueMixedCommit
<1>3. /\ \A i \in Requests : Exists(i) => inv'[i].status # "none"
      /\ \A i \in Requests : ~Exists(i) => inv'[i].status = "none"
  BY <1>1, <1>2, SplitType, IssuedFrame
<1>4. issued'[Receipt] = issued[Receipt] \cup {n, n + 1}
  BY KindsDiffer DEF IssueMixedCommit, IInv, TypeOK
<1>5. row'[Receipt] = n + 2
  <2>1. first[Receipt] = n + 1
    BY KindsDiffer DEF BumpSequence
  <2>2. row' = BumpSequence(first, first, Receipt)
    BY DEF IssueMixedCommit
  <2> HIDE DEF first
  <2>3. row'[Receipt] = first[Receipt] + 1
    BY <2>2, KindsDiffer DEF BumpSequence
  <2>4. QED
    BY <1>1, <2>1, <2>3
<1>6. ReceiptsGapless' /\ TakesNext
  BY <1>1, <1>4, <1>5, NextReceipt DEF ReceiptsGapless
<1>7. req' = Done(r) /\ note' = note
  BY DEF IssueMixedCommit
<1>8. NotesHaveInvoices'
  BY <1>3, <1>7, NotesStay
<1>9. QED
  BY <1>3, <1>4, <1>6, <1>7, <1>8, DoneKeeps

\* A credit note rewrites the receipts' counter as it read it: no harm done.
LEMMA NoteStep ==
  ASSUME IInv, TypeOK', NEW r \in Requests, NoteCommit(r)  PROVE IInv'
<1> DEFINE d == req[r].doc
           balance == req[r].saw.balance - req[r].amount
<1>1. /\ At(r) /\ d \in Requests /\ Exists(d) /\ FollowsAt(r)
      /\ req[r].saw \in Invoices /\ req[r].saw.status # "none" /\ balance \in Int
      /\ note \in [Requests -> Notes]
  BY DEF IInv, TypeOK, NoteCommit, Writing, At, TargetAt, Flights, Invoices
<1>2. StatusFor(req[r].saw, balance) \in Statuses \ {"none"} /\ NotBelowZero(balance) \in Nat
  BY <1>1, StatusExists DEF NotBelowZero
<1>3. inv' = Write(d, StatusFor(req[r].saw, balance), NotBelowZero(balance), 0)
  BY DEF NoteCommit
<1>4. /\ \A i \in Requests : Exists(i) => inv'[i].status # "none"
      /\ \A i \in Requests : ~Exists(i) => inv'[i].status = "none"
      /\ \A i \in Requests : inv'[i].received = inv[i].received
  BY <1>1, <1>2, <1>3, WriteFrame
<1>5. issued'[Receipt] = issued[Receipt] /\ row'[Receipt] = req[r].row[Receipt]
  BY KindsDiffer DEF NoteCommit, BumpSequence, IInv, TypeOK
<1>6. ReceiptsGapless'
  BY <1>1, <1>5 DEF IInv, ReceiptsGapless, FollowsAt
<1>7. /\ req' = Done(r)
      /\ note' = [note EXCEPT ![r] = [status |-> "APPROVED", invoice |-> d, total |-> req[r].amount]]
  BY DEF NoteCommit
<1>8. NotesHaveInvoices'
  <2> SUFFICES ASSUME NEW n \in Requests, note'[n].status # "none"
               PROVE  inv'[note'[n].invoice].status # "none"
    BY DEF NotesHaveInvoices, Exists
  <2>1. CASE n = r
    BY <1>1, <1>4, <1>7, <2>1
  <2>2. CASE n # r
    <3>1. note'[n] = note[n] /\ note[n].invoice \in Requests
      BY <1>1, <1>7, <2>2 DEF Notes
    <3>2. Exists(note[n].invoice)
      BY <3>1 DEF IInv, NotesHaveInvoices
    <3>3. QED
      BY <1>4, <3>1, <3>2
  <2>3. QED
    BY <2>1, <2>2
<1>9. \A n \in Requests : note[n].status # "none" => note'[n].status # "none"
  BY <1>1, <1>7
<1>10. QED
  BY <1>4, <1>5, <1>6, <1>7, <1>8, <1>9, DoneKeeps

\* The writes that number nothing keep the invariant.
LEMMA PlainStep ==
  ASSUME IInv, TypeOK', NEW r \in Requests,
         \/ StoreCreditApply(r) \/ IssueCommit(r) \/ EditNoteCommit(r) \/ CancelNoteCommit(r)
         \/ UpdateCommit(r) \/ CancelCommit(r) \/ OverdueMark(r)
  PROVE  IInv'
<1>0. /\ At(r) /\ req[r] \in Flights /\ req[r].doc \in Requests /\ req[r].saw \in Invoices
      /\ req[r].saw.balance \in Nat /\ req[r].saw.total \in Nat
      /\ req[r].amount \in Nat /\ req[r].was \in Nat
      /\ inv \in [Requests -> Invoices] /\ note \in [Requests -> Notes]
      /\ \A n \in Requests : note[n].invoice \in Requests
      /\ \A i \in Requests : inv[i].balance \in Nat
  BY DEF IInv, TypeOK, Flights, Invoices, Notes
<1>1. row' = row /\ issued' = issued /\ req' = Done(r)
  BY DEF StoreCreditApply, IssueCommit, EditNoteCommit, CancelNoteCommit, UpdateCommit,
         CancelCommit, OverdueMark
<1>2. /\ {"PAID", "PARTIALLY_PAID", "ISSUED", "CANCELLED", "OVERDUE"} \subseteq Statuses \ {"none"}
      /\ \A n \in Int : NotBelowZero(n) \in Nat
  BY DEF Statuses, NotBelowZero
<1> DEFINE Frame ==
      /\ \A i \in Requests : Exists(i) => inv'[i].status # "none"
      /\ \A i \in Requests : ~Exists(i) => inv'[i].status = "none"
      /\ \A i \in Requests : inv'[i].received = inv[i].received
\* It is enough that the invoices' frame is kept and the notes stay where they are.
<1>3. ASSUME Frame,
             \A n \in Requests : /\ note'[n].status = "none" <=> note[n].status = "none"
                                 /\ note'[n].invoice = note[n].invoice
      PROVE  IInv'
  <2>1. ReceiptsGapless' /\ NotesHaveInvoices'
    BY <1>1, <1>3, ReceiptsStay, NotesStay
  <2>2. QED
    BY <1>1, <1>3, <2>1, DoneKeeps
<1>4. CASE StoreCreditApply(r)
  <2> DEFINE balance == NotBelowZero(req[r].saw.balance - req[r].amount)
             status == IF balance = 0 THEN "PAID" ELSE "PARTIALLY_PAID"
  <2>1. inv' = Write(r, status, balance, 0) /\ note' = note /\ Exists(r)
    BY <1>0, <1>4 DEF StoreCreditApply, At, TargetAt
  <2>2. balance \in Nat /\ status \in Statuses \ {"none"}
    BY <1>0, <1>2
  <2>3. Frame
    BY <2>1, <2>2, WriteFrame
  <2>4. QED
    BY <1>3, <2>1, <2>3
<1>5. CASE IssueCommit(r)
  <2>1. inv' = IssuedInvoice(r, 0) /\ note' = note /\ Exists(req[r].doc)
    BY <1>0, <1>5 DEF IssueCommit, Writing, At, TargetAt
  <2>2. Frame
    BY <2>1, IssuedFrame
  <2>3. QED
    BY <1>3, <2>1, <2>2
\* A credit note's invoice, for the next two.
<1>6. ASSUME Writing(r, "loaded", "editNote") \/ Writing(r, "loaded", "cancelNote")
      PROVE  note[req[r].doc].status # "none" /\ Exists(note[req[r].doc].invoice)
  BY <1>0, <1>6 DEF IInv, NotesHaveInvoices, Writing, At, TargetAt
<1>7. CASE EditNoteCommit(r)
  <2> DEFINE seen == req[r].saw
             balance == seen.balance - (req[r].amount - req[r].was)
             i == note[req[r].doc].invoice
             status == IF balance >= seen.total /\ seen.status = "PAID"
                       THEN "PARTIALLY_PAID" ELSE StatusFor(seen, balance)
  <2>1. /\ inv' = IF req[r].amount = req[r].was THEN inv
                  ELSE Write(i, status, NotBelowZero(balance), 0)
        /\ note' = [note EXCEPT ![req[r].doc].total = req[r].amount]
        /\ Exists(i) /\ i \in Requests /\ seen.status # "none"
    BY <1>0, <1>6, <1>7 DEF EditNoteCommit, Writing, At, TargetAt
  <2>2. balance \in Int
    BY <1>0
  <2>3. status \in Statuses \ {"none"} /\ NotBelowZero(balance) \in Nat
    BY <1>0, <1>2, <2>1, <2>2, StatusExists
  <2>4. \A n \in Requests : /\ note'[n].status = "none" <=> note[n].status = "none"
                            /\ note'[n].invoice = note[n].invoice
    BY <1>0, <2>1 DEF Notes
  <2>5. CASE req[r].amount = req[r].was
    <3>1. Frame
      BY <2>1, <2>5 DEF Exists
    <3>2. QED
      BY <1>3, <2>4, <3>1
  <2>6. CASE req[r].amount # req[r].was
    <3>1. inv' = Write(i, status, NotBelowZero(balance), 0)
      BY <2>1, <2>6
    <3> HIDE DEF status, balance
    <3>2. Frame
      BY <2>1, <2>3, <3>1, WriteFrame
    <3>3. QED
      BY <1>3, <2>4, <3>2
  <2>7. QED
    BY <2>5, <2>6
<1>8. CASE CancelNoteCommit(r)
  <2> DEFINE balance == req[r].saw.balance + req[r].was
             i == note[req[r].doc].invoice
             status == IF balance >= req[r].saw.total THEN "ISSUED" ELSE "PARTIALLY_PAID"
  <2>1. /\ inv' = Write(i, status, balance, 0)
        /\ note' = [note EXCEPT ![req[r].doc].status = "CANCELLED"]
        /\ Exists(i) /\ i \in Requests /\ note[req[r].doc].status # "none"
    BY <1>0, <1>6, <1>8 DEF CancelNoteCommit
  <2>2. balance \in Nat /\ status \in Statuses \ {"none"}
    BY <1>0, <1>2
  <2>3. Frame
    BY <2>1, <2>2, WriteFrame
  <2>4. \A n \in Requests : /\ note'[n].status = "none" <=> note[n].status = "none"
                            /\ note'[n].invoice = note[n].invoice
    BY <1>0, <2>1 DEF Notes
  <2>5. QED
    BY <1>3, <2>3, <2>4
<1>9. CASE UpdateCommit(r)
  <2>1. inv' = [inv EXCEPT ![req[r].doc] = [@ EXCEPT !.total = req[r].amount, !.balance = req[r].amount]]
        /\ note' = note
    BY <1>9 DEF UpdateCommit
  <2>2. \A i \in Requests : inv'[i].status = inv[i].status /\ inv'[i].received = inv[i].received
    BY <1>0, <2>1 DEF Invoices
  <2>3. Frame
    BY <2>2 DEF Exists
  <2>4. QED
    BY <1>3, <2>1, <2>3
<1>10. CASE CancelCommit(r)
  <2>1. inv' = Write(req[r].doc, "CANCELLED", 0, 0) /\ note' = note /\ Exists(req[r].doc)
    BY <1>0, <1>10 DEF CancelCommit, Writing, At, TargetAt
  <2>2. Frame
    BY <1>0, <1>2, <2>1, WriteFrame
  <2>3. QED
    BY <1>3, <2>1, <2>2
<1>11. CASE OverdueMark(r)
  <2>1. inv' = Write(req[r].doc, "OVERDUE", inv[req[r].doc].balance, 0) /\ note' = note
        /\ Exists(req[r].doc)
    BY <1>0, <1>11 DEF OverdueMark, Writing, At, TargetAt
  <2>2. Frame
    BY <1>0, <1>2, <2>1, WriteFrame
  <2>3. QED
    BY <1>3, <2>1, <2>2
<1>12. QED
  BY <1>4, <1>5, <1>7, <1>8, <1>9, <1>10, <1>11

(***************************************************************************)
(* A new invoice keeps the invariant: it disturbs no invoice that exists,  *)
(* and a mixed sale takes the next two receipts of the committed counter.  *)
(***************************************************************************)
LEMMA CreateStep ==
  ASSUME IInv, TypeOK', NEW r \in Requests, CreateCommit(r)  PROVE IInv'
<1> DEFINE numbered == BumpInvoice(row, req[r].row)
           n == numbered[Receipt]
<1>1. /\ At(r) /\ req[r].pc = "open" /\ req[r].op = "create" /\ ~Exists(r)
      /\ req[r].saw \in Invoices /\ req[r].saw.status # "none"
      /\ inv \in [Requests -> Invoices] /\ req \in [Requests -> Flights]
      /\ req[r].row[Receipt] \in Nat \ {0} /\ row[Receipt] \in Nat \ {0}
      /\ Follows(row[Receipt], issued[Receipt])
      /\ note' = note /\ issued \in [Kinds -> SUBSET (Nat \ {0})]
  BY KindsDiffer DEF IInv, TypeOK, CreateCommit, Writing, At, NotYetAt, TargetAt, Flights, Rows,
     ReceiptsGapless
<1>2. n = row[Receipt] /\ numbered \in [Kinds -> Nat \ {0}]
  <2>1. row \in Rows /\ req[r].row \in Rows
    BY DEF IInv, TypeOK, Flights
  <2>2. QED
    BY <2>1, KindsDiffer DEF BumpInvoice, Rows
<1>3. PICK new : new.status # "none" /\ inv' = [inv EXCEPT ![r] = new]
  <2>1. CASE IssuedMixed(r)
    <3>1. PICK sum \in SplitSums(req[r].saw.total) :
            inv' = [inv EXCEPT ![r] = [req[r].saw EXCEPT !.received = sum]]
      BY <2>1 DEF CreateCommit
    <3>2. [req[r].saw EXCEPT !.received = sum].status # "none"
      BY <1>1 DEF Invoices
    <3>3. QED
      BY <3>1, <3>2
  <2>2. CASE ~IssuedMixed(r)
    BY <1>1, <2>2 DEF CreateCommit
  <2>3. QED
    BY <2>1, <2>2
<1>4. /\ \A i \in Requests : Exists(i) => i # r /\ inv'[i] = inv[i] /\ inv'[i].status # "none"
      /\ \A i \in Requests : i # r /\ ~Exists(i) => inv'[i].status = "none"
      /\ inv'[r].status # "none"
  BY <1>1, <1>3 DEF Exists
<1>5. /\ ReceiptsGapless'
      /\ issued[Receipt] \subseteq issued'[Receipt]
      /\ TakesNext \/ \A i \in Requests : Exists(i) => inv'[i].received = inv[i].received
  <2>1. CASE IssuedMixed(r)
    <3>1. /\ Free(Receipt, n)
          /\ issued' = [issued EXCEPT ![Invoice] = @ \cup {req[r].row[Invoice]},
                                      ![Receipt] = @ \cup {n, n + 1}]
          /\ row' = [numbered EXCEPT ![Receipt] = n + 2]
      BY <2>1 DEF CreateCommit
    <3>2. issued'[Receipt] = issued[Receipt] \cup {n, n + 1} /\ row'[Receipt] = n + 2
      BY <1>1, <1>2, <3>1, KindsDiffer
    <3>3. n \in Nat \ {0} /\ Follows(n, issued[Receipt])
      BY <1>1, <1>2
    <3> HIDE DEF n
    <3>4. QED
      BY <3>1, <3>2, <3>3, NextReceipt DEF ReceiptsGapless
  <2>2. CASE ~IssuedMixed(r)
    <3>1. /\ issued' = [issued EXCEPT ![Invoice] = @ \cup {req[r].row[Invoice]}]
          /\ row' = numbered
      BY <2>2 DEF CreateCommit
    <3>2. issued'[Receipt] = issued[Receipt] /\ row'[Receipt] = row[Receipt]
      BY <1>1, <1>2, <3>1, KindsDiffer
    <3>3. QED
      BY <1>4, <3>2 DEF IInv, ReceiptsGapless
  <2>3. QED
    BY <2>1, <2>2
<1>6. NotesHaveInvoices'
  BY <1>1, <1>4, NotesStay
<1>7. CASE req' = Done(r)
  BY <1>1, <1>4, <1>5, <1>6, <1>7, DoneKeeps
<1>8. CASE req' = [req EXCEPT ![r].pc = "issued"]
  <2>1. /\ \A s \in Requests : s # r => req'[s] = req[s]
        /\ req'[r].pc = "issued" /\ req'[r].row = req[r].row
    BY <1>1, <1>8 DEF Flights
  <2>2. \A s \in Requests : s # r => At(s)'
    BY <1>1, <1>4, <1>5, <2>1, OthersKeep
  <2>3. FollowsAt(r)'
    BY <1>1, <1>5, <2>1 DEF At, FollowsAt, Follows
  <2>4. At(r)'
    BY <1>4, <2>1, <2>3 DEF At, NotYetAt, TargetAt, CoveredAt, FreshAt, Paying, Exists
  <2>5. QED
    BY <1>5, <1>6, <2>2, <2>4 DEF IInv
<1>9. QED
  BY <1>7, <1>8 DEF CreateCommit

\* The invariant holds before the first request.
LEMMA Initially == Init => IInv
<1> SUFFICES ASSUME Init  PROVE IInv
  OBVIOUS
<1>1. TypeOK
  <2>1. inv \in [Requests -> Invoices]
    BY PickTypes DEF Init
  <2>2. note \in [Requests -> Notes]
    BY DEF Init, Notes
  <2>3. row \in Rows /\ issued \in [Kinds -> SUBSET (Nat \ {0})]
    BY DEF Init, Rows, NewRow
  <2>4. req \in [Requests -> Flights]
    BY IdleType DEF Init
  <2>5. QED
    BY <2>1, <2>2, <2>3, <2>4 DEF TypeOK
<1>2. ReceiptsGapless
  <2>1. issued[Receipt] = {} /\ row[Receipt] = 1
    BY KindsDiffer DEF Init, NewRow
  <2>2. Segment({})
    BY DEF Segment
  <2>3. QED
    BY <2>1, <2>2, OneFollows DEF ReceiptsGapless
<1>3. NotesHaveInvoices
  BY DEF Init, NotesHaveInvoices
<1>4. ASSUME NEW r \in Requests  PROVE At(r)
  <2>1. /\ req[r].pc = "idle" /\ req[r].op = "none" /\ req[r].row = NewRow
        /\ inv[r].status = "none" /\ issued[Receipt] = {}
    BY KindsDiffer DEF Init, Idle, NoInvoice
  <2>2. Follows(NewRow[Receipt], issued[Receipt])
    BY KindsDiffer, OneFollows DEF NewRow
  <2>3. QED
    BY <2>1, <2>2 DEF At, NotYetAt, TargetAt, CoveredAt, FollowsAt, FreshAt, Paying, Exists
<1>5. QED
  BY <1>1, <1>2, <1>3, <1>4 DEF IInv

\* Every step keeps the invariant.
LEMMA Inductive == IInv /\ [Next]_vars => IInv'
<1> SUFFICES ASSUME IInv, [Next]_vars  PROVE IInv'
  OBVIOUS
<1>1. CASE UNCHANGED vars
  BY <1>1
     DEF vars, IInv, TypeOK, ReceiptsGapless, NotesHaveInvoices, At, NotYetAt, TargetAt, CoveredAt,
         FollowsAt, FreshAt, Paying, Exists, Free
<1>2. CASE Next
  <2>1. PICK r \in Requests : Step(r)
    BY <1>2 DEF Next, Step
  <2>2. CASE \/ CreateLoad(r) \/ StoreCreditLoad(r) \/ IssueLoad(r) \/ Open(r) \/ PayOpen(r)
             \/ GatewayCharge(r) \/ GatewayOpen(r) \/ NoteLoad(r) \/ EditNoteLoad(r)
             \/ CancelNoteLoad(r) \/ UpdateLoad(r) \/ CancelLoad(r) \/ OverdueList(r) \/ Fail(r)
    BY <2>2, LoadStep
  <2>3. CASE \/ CreateCommit(r) \/ StoreCreditApply(r) \/ IssueCommit(r) \/ IssueMixedCommit(r)
             \/ PayCommit(r) \/ NoteCommit(r) \/ EditNoteCommit(r) \/ CancelNoteCommit(r)
             \/ UpdateCommit(r) \/ CancelCommit(r) \/ OverdueMark(r)
    <3>1. TypeOK'
      <4>1. TypeOK /\ CoveredAt(r)
        BY DEF IInv, At
      <4>2. QED
        BY <2>3, <4>1, CommitType
    <3>2. QED
      BY <2>3, <3>1, CreateStep, IssueMixedStep, PayStep, NoteStep, PlainStep
  <2>4. QED
    BY <2>1, <2>2, <2>3 DEF Step
<1>3. QED
  BY <1>1, <1>2

\* The inductive invariant is an invariant.
THEOREM Invariance == Spec => []IInv
BY Initially, Inductive, PTL DEF Spec

\* Invoices, notes, counters and requests have their types throughout.
THEOREM TypeInvariant == Spec => []TypeOK
<1>1. IInv => TypeOK
  BY DEF IInv
<1>2. QED
  BY <1>1, Invariance, PTL

(***************************************************************************)
(* The receipts of payments and mixed sales are numbered 1, 2, 3, ...,     *)
(* whatever requests overlap or fail, and though credit notes write the    *)
(* receipts' counter back as they read it.                                 *)
(***************************************************************************)
THEOREM ReceiptsNumbered == Spec => []ReceiptsGapless
<1>1. IInv => ReceiptsGapless
  BY DEF IInv
<1>2. QED
  BY <1>1, Invariance, PTL

\* A step moves no request but its own.
LEMMA StepMoves ==
  ASSUME TypeOK, NEW r \in Requests, Step(r), NEW s \in Requests, s # r  PROVE req'[s] = req[s]
<1>1. req \in [Requests -> Flights]
  BY DEF TypeOK
<1>3. CASE \/ CreateLoad(r) \/ StoreCreditLoad(r) \/ GatewayCharge(r) \/ NoteLoad(r)
           \/ UpdateLoad(r) \/ CancelLoad(r) \/ OverdueList(r)
  BY <1>1, <1>3 DEF CreateLoad, StoreCreditLoad, GatewayCharge, NoteLoad, UpdateLoad, CancelLoad,
     OverdueList, TakeUnpaid, Go
<1>4. CASE Open(r) \/ IssueLoad(r) \/ PayOpen(r) \/ GatewayOpen(r) \/ EditNoteLoad(r) \/ CancelNoteLoad(r)
  BY <1>1, <1>4 DEF Open, IssueLoad, PayOpen, GatewayOpen, EditNoteLoad, CancelNoteLoad, TakeNote,
     Snapshot, Go
<1>5. CASE \/ CreateCommit(r) \/ StoreCreditApply(r) \/ IssueCommit(r) \/ IssueMixedCommit(r)
           \/ PayCommit(r) \/ NoteCommit(r) \/ EditNoteCommit(r) \/ CancelNoteCommit(r)
           \/ UpdateCommit(r) \/ CancelCommit(r) \/ OverdueMark(r) \/ Fail(r)
  <2>1. req' = Done(r) \/ req' = [req EXCEPT ![r].pc = "issued"]
    BY <1>5 DEF CreateCommit, StoreCreditApply, IssueCommit, IssueMixedCommit, PayCommit, NoteCommit,
       EditNoteCommit, CancelNoteCommit, UpdateCommit, CancelCommit, OverdueMark, Fail
  <2>2. QED
    BY <1>1, <2>1, DoneOn
<1>6. QED
  BY <1>3, <1>4, <1>5 DEF Step

\* Only PayCommit ends a payment with its money received.
LEMMA PayerCommits ==
  ASSUME TypeOK, Next, NEW r \in Requests, Paying(r),
         inv'[req[r].doc].received # inv[req[r].doc].received, req'[r].pc = "done"
  PROVE  Free(Receipt, req[r].row[Receipt])
<1>1. PICK s \in Requests : Step(s)
  BY DEF Next, Step
<1>2. s = r
  BY <1>1, StepMoves DEF Paying
<1>3. PayCommit(r) \/ Fail(r)
  BY <1>1, <1>2 DEF Step, Paying, CreateLoad, Open, CreateCommit, StoreCreditLoad, StoreCreditApply,
     IssueLoad, IssueCommit, IssueMixedCommit, PayOpen, GatewayCharge, GatewayOpen, NoteLoad,
     NoteCommit, EditNoteLoad, EditNoteCommit, CancelNoteLoad, CancelNoteCommit, UpdateLoad,
     UpdateCommit, CancelLoad, CancelCommit, OverdueList, OverdueMark, TakeUnpaid, Take, Writing
<1>4. QED
  BY <1>3 DEF PayCommit, Fail

(***************************************************************************)
(* Whatever overlaps a payment, it commits only if nothing was received on *)
(* its invoice since its snapshot.                                         *)
(***************************************************************************)
THEOREM PaymentsSerial == Spec => PaymentsAreSerial
<1> DEFINE Serial ==
      \A r \in Requests :
        req[r].pc = "open" /\ req[r].op \in {"pay", "gateway"}
          /\ inv'[req[r].doc].received # inv[req[r].doc].received /\ req'[r].pc = "done"
        => inv[req[r].doc].received = req[r].saw.received
<1>1. IInv /\ [Next]_vars => [Serial]_vars
  <2> SUFFICES ASSUME IInv, Next, NEW r \in Requests, Paying(r),
                      inv'[req[r].doc].received # inv[req[r].doc].received, req'[r].pc = "done"
               PROVE  inv[req[r].doc].received = req[r].saw.received
    BY DEF vars, Paying
  <2>1. At(r) /\ TypeOK
    BY DEF IInv
  <2>2. Free(Receipt, req[r].row[Receipt])
    BY <2>1, PayerCommits
  <2>3. QED
    BY <2>1, <2>2 DEF At, FreshAt
<1>2. QED
  BY <1>1, Invariance, PTL DEF Spec, PaymentsAreSerial

-----------------------------------------------------------------------------
(***************************************************************************)
(* The money itself, where invoices are only created and paid, as in the   *)
(* run sales_payments: what the receipt's number says of the payments      *)
(* received (Fresh), it then says of the whole invoice.                    *)
(***************************************************************************)

OnlyPayments == Ops \subseteq {"create", "pay", "gateway"}

\* What the fields of an invoice say of one another.
Sound(x) ==
  /\ x.status \in {"none", "DRAFT", "ISSUED", "PARTIALLY_PAID", "PAID"}
  /\ x.received + x.balance <= x.total + SplitSlack
  /\ x.status \in {"none", "DRAFT", "ISSUED"} => x.received = 0 /\ x.balance = x.total
  /\ x.status = "PARTIALLY_PAID" =>
       x.received + x.balance = x.total /\ x.balance \in 1 .. (x.total - 1)
  /\ x.status = "PAID" => x.balance = 0 /\ (PaidAtIssue(x.tender) \/ x.received = x.total)

\* A payment whose number is free still sees the invoice as it is.
SeenAt(r) ==
  /\ req[r].op \in {"none", "create", "pay", "gateway"}
  /\ req[r].pc \notin {"issued", "applying"}
  /\ req[r].op = "create" => /\ req[r].amount = 0 /\ Sound(req[r].saw)
                             /\ req[r].saw.received = 0 /\ req[r].saw.balance <= req[r].saw.total
  /\ req[r].op \in {"pay", "gateway"} => req[r].amount > 0
  /\ Paying(r) => Sound(req[r].saw)
  /\ Paying(r) /\ Free(Receipt, req[r].row[Receipt]) => inv[req[r].doc] = req[r].saw

Money == (\A i \in Requests : Sound(inv[i])) /\ (\A r \in Requests : SeenAt(r))

\* A new invoice is sound.
LEMMA NewSound ==
  ASSUME NEW status \in {"DRAFT", "ISSUED"}, NEW t \in AllTenders, NEW total \in Nat \ {0}
  PROVE  LET x == NewInvoice(status, t, total)
         IN  Sound(x) /\ x.received = 0 /\ x.balance <= x.total
BY AmountsAssumption DEF NewInvoice, Sound, PaidAtIssue

\* The requests that such a system serves.
LEMMA OnlySteps ==
  ASSUME OnlyPayments, NEW r \in Requests, SeenAt(r), Step(r)
  PROVE  \/ CreateLoad(r) \/ Open(r) \/ CreateCommit(r) \/ PayOpen(r) \/ GatewayCharge(r)
         \/ GatewayOpen(r) \/ PayCommit(r) \/ Fail(r)
<1>1. ~StoreCreditLoad(r) /\ ~StoreCreditApply(r)
  BY DEF SeenAt, StoreCreditLoad, StoreCreditApply
<1>2. ~IssueLoad(r) /\ ~NoteLoad(r) /\ ~EditNoteLoad(r) /\ ~CancelNoteLoad(r) /\ ~OverdueList(r)
  BY DEF OnlyPayments, Take, IssueLoad, NoteLoad, EditNoteLoad, CancelNoteLoad, OverdueList
<1>3. ~UpdateLoad(r) /\ ~CancelLoad(r)
  BY DEF OnlyPayments, Take, TakeUnpaid, UpdateLoad, CancelLoad
<1>4. /\ ~IssueCommit(r) /\ ~IssueMixedCommit(r) /\ ~NoteCommit(r) /\ ~EditNoteCommit(r)
      /\ ~CancelNoteCommit(r) /\ ~UpdateCommit(r) /\ ~CancelCommit(r) /\ ~OverdueMark(r)
  BY DEF SeenAt, Writing, IssueCommit, IssueMixedCommit, NoteCommit, EditNoteCommit,
         CancelNoteCommit, UpdateCommit, CancelCommit, OverdueMark
<1>5. QED
  BY <1>1, <1>2, <1>3, <1>4 DEF Step

(***************************************************************************)
(* The other requests keep what they know when a step changes no invoice   *)
(* that exists, or takes the number that any of them would take.           *)
(***************************************************************************)
LEMMA OthersSee ==
  ASSUME IInv, NEW s \in Requests, SeenAt(s), req'[s] = req[s],
         issued[Receipt] \subseteq issued'[Receipt],
         TakesNext \/ \A i \in Requests : Exists(i) => inv'[i] = inv[i]
  PROVE  SeenAt(s)'
<1>1. /\ req[s].row[Receipt] \in Nat \ {0} /\ Follows(req[s].row[Receipt], issued[Receipt])
      /\ req[s].doc \in Requests /\ (Paying(s) => Exists(req[s].doc))
  BY KindsDiffer DEF IInv, TypeOK, At, FollowsAt, CoveredAt, Flights, Rows
<1>2. Paying(s)' /\ Free(Receipt, req[s].row[Receipt])' => inv'[req[s].doc] = req[s].saw
  <2> SUFFICES ASSUME Paying(s)', Free(Receipt, req[s].row[Receipt])'
               PROVE  inv'[req[s].doc] = req[s].saw
    OBVIOUS
  <2>1. Paying(s) /\ Free(Receipt, req[s].row[Receipt]) /\ ~TakesNext
    BY <1>1 DEF Paying, Free, TakesNext
  <2>2. QED
    BY <1>1, <2>1 DEF SeenAt
<1>3. QED
  BY <1>2 DEF SeenAt, Paying

\* A finished request knows nothing.
LEMMA DoneSeen ==
  ASSUME req \in [Requests -> Flights], NEW r \in Requests, req' = Done(r)  PROVE SeenAt(r)'
<1>1. req'[r].pc = "done" /\ req'[r].op = "none"
  BY DEF Done, Idle
<1>2. QED
  BY <1>1 DEF SeenAt, Paying

\* What a request that goes on has in hand.
LEMMA GoFields ==
  ASSUME req \in [Requests -> Flights], NEW r \in Requests,
         NEW pc, NEW op, NEW doc, NEW amount, NEW seen, NEW next,
         next = Go(r, pc, op, doc, amount, seen)
  PROVE  /\ next[r].pc = pc /\ next[r].op = op /\ next[r].doc = doc
         /\ next[r].amount = amount /\ next[r].saw = seen
<1>1. next[r] = [pc |-> pc, op |-> op, doc |-> doc, tender |-> req[r].tender, amount |-> amount,
                 saw |-> seen, was |-> req[r].was, row |-> req[r].row]
  BY GoSelf
<1>2. QED
  BY <1>1

\* A request that begins, or goes on to its transaction.
LEMMA BeginsSound ==
  ASSUME IInv, Money, NEW r \in Requests,
         \/ CreateLoad(r) \/ Open(r) \/ PayOpen(r) \/ GatewayCharge(r) \/ GatewayOpen(r) \/ Fail(r),
         OnlyPayments
  PROVE  Money'
<1>1. /\ inv' = inv /\ issued' = issued
      /\ req \in [Requests -> Flights] /\ req[r] \in Flights /\ req[r].amount \in Nat
  BY DEF CreateLoad, Open, PayOpen, GatewayCharge, GatewayOpen, Fail, IInv, TypeOK, Flights
<1>2. \A s \in Requests : s # r => req'[s] = req[s]
  BY StepMoves DEF Step, IInv
<1>3. \A s \in Requests : s # r => SeenAt(s)'
  BY <1>1, <1>2, OthersSee DEF Money
<1>4. \A i \in Requests : Sound(inv[i])'
  BY <1>1 DEF Money, Sound
<1>5. ASSUME NEW op \in {"pay", "gateway"}, NEW i \in Requests, NEW a \in Nat \ {0},
             req' = Snapshot(r, op, i, a)
      PROVE  SeenAt(r)'
  <2> DEFINE go == Go(r, "open", op, i, a, inv[i])
  <2>0. /\ go[r].pc = "open" /\ go[r].op = op /\ go[r].doc = i /\ go[r].amount = a
        /\ go[r].saw = inv[i]
    BY <1>1, GoFields
  <2>1. req' = [go EXCEPT ![r].row = row] /\ DOMAIN go = Requests
    BY <1>1, <1>5 DEF Snapshot, Go
  <2> HIDE DEF go
  <2>2. /\ req'[r].pc = "open" /\ req'[r].op = op /\ req'[r].amount = a /\ req'[r].doc = i
        /\ req'[r].saw = inv[i]
    BY <2>0, <2>1
  <2>3. QED
    BY <1>1, <1>4, <2>2 DEF SeenAt, Paying, Sound
<1>6. SeenAt(r)'
  <2>1. CASE CreateLoad(r)
    <3>1. PICK status \in {"DRAFT", "ISSUED"}, t \in Tenders, total \in Amounts, a \in Amounts \cup {0} :
            /\ a > 0 => "storeCredit" \in Ops
            /\ req' = Go(r, "loaded", "create", r, a, NewInvoice(status, t, total))
      BY <2>1 DEF CreateLoad
    <3>2. a = 0
      BY <3>1, AmountsAssumption DEF OnlyPayments
    <3>3. /\ req'[r].pc = "loaded" /\ req'[r].op = "create" /\ req'[r].amount = 0
          /\ req'[r].saw = NewInvoice(status, t, total)
      BY <1>1, <3>1, <3>2, GoFields
    <3>4. t \in AllTenders /\ total \in Nat \ {0}
      BY TendersAssumption, AmountsAssumption
    <3>5. QED
      BY <3>3, <3>4, NewSound DEF SeenAt, Paying, Sound
  <2>2. CASE Open(r)
    <3>1. req[r].op = "create" /\ req[r].pc = "loaded" /\ SeenAt(r)
      BY <2>2 DEF Open, Money, SeenAt
    <3>2. /\ req'[r].pc = "open" /\ req'[r].op = "create" /\ req'[r].amount = req[r].amount
          /\ req'[r].saw = req[r].saw
      BY <1>1, <2>2, <3>1 DEF Open, Flights
    <3>3. QED
      BY <3>1, <3>2 DEF SeenAt, Paying, Sound
  <2>3. CASE PayOpen(r)
    BY <1>5, <2>3, AmountsAssumption DEF PayOpen
  <2>4. CASE GatewayCharge(r)
    <3>1. PICK i \in Requests, a \in Amounts : req' = Go(r, "loaded", "gateway", i, a, NoInvoice)
      BY <2>4 DEF GatewayCharge
    <3>2. req'[r].pc = "loaded" /\ req'[r].op = "gateway" /\ req'[r].amount = a
      BY <1>1, <3>1, GoFields
    <3>3. a > 0
      BY AmountsAssumption
    <3>4. QED
      BY <3>2, <3>3 DEF SeenAt, Paying
  <2>5. CASE GatewayOpen(r)
    <3>1. req[r].op = "gateway" /\ req[r].amount \in Nat \ {0} /\ req[r].doc \in Requests
      BY <1>1, <2>5 DEF GatewayOpen, Writing, Money, SeenAt, Flights
    <3>2. QED
      BY <1>5, <2>5, <3>1 DEF GatewayOpen
  <2>6. CASE Fail(r)
    BY <1>1, <2>6, DoneSeen DEF Fail
  <2>7. QED
    BY <2>1, <2>2, <2>3, <2>4, <2>5, <2>6
<1>7. QED
  BY <1>3, <1>4, <1>6 DEF Money

(***************************************************************************)
(* A creation disturbs no invoice that exists.                             *)
(***************************************************************************)
LEMMA CreateSound ==
  ASSUME IInv, Money, NEW r \in Requests, CreateCommit(r)  PROVE Money'
<1>1. /\ At(r) /\ SeenAt(r) /\ req[r].pc = "open" /\ req[r].op = "create" /\ ~Exists(r)
      /\ req[r].saw \in Invoices /\ inv \in [Requests -> Invoices] /\ req \in [Requests -> Flights]
      /\ issued \in [Kinds -> SUBSET (Nat \ {0})]
  BY DEF IInv, TypeOK, Money, CreateCommit, Writing, At, NotYetAt, Flights
<1>2. req' = Done(r)
  BY <1>1 DEF CreateCommit, SeenAt
<1>3. /\ \A i \in Requests : Exists(i) => inv'[i] = inv[i]
      /\ \A i \in Requests : Sound(inv'[i])
  <2>1. PICK new : inv' = [inv EXCEPT ![r] = new] /\ Sound(new)
    <3>1. CASE IssuedMixed(r)
      <4>1. PICK sum \in SplitSums(req[r].saw.total) :
              inv' = [inv EXCEPT ![r] = [req[r].saw EXCEPT !.received = sum]]
        BY <3>1 DEF CreateCommit
      <4>2. sum \in Nat /\ sum <= req[r].saw.total + SplitSlack
        BY <1>1, SplitType, AmountsAssumption DEF SplitSums, Invoices
      <4>3. Sound([req[r].saw EXCEPT !.received = sum])
        BY <1>1, <3>1, <4>2, AmountsAssumption DEF SeenAt, Sound, IssuedMixed, PaidAtIssue, Invoices
      <4>4. QED
        BY <4>1, <4>3
    <3>2. CASE ~IssuedMixed(r)
      BY <1>1, <3>2 DEF CreateCommit, SeenAt
    <3>3. QED
      BY <3>1, <3>2
  <2>2. QED
    BY <1>1, <2>1 DEF Exists, Money
<1>4. issued[Receipt] \subseteq issued'[Receipt]
  BY <1>1, KindsDiffer DEF CreateCommit
<1>5. \A s \in Requests : s # r => SeenAt(s)'
  BY <1>1, <1>2, <1>3, <1>4, DoneOn, OthersSee DEF Money
<1>6. SeenAt(r)'
  BY <1>1, <1>2, DoneSeen
<1>7. QED
  BY <1>3, <1>5, <1>6 DEF Money, Sound

\* What a payment of a makes of invoice x, if x is as the payment saw it.
Settled(x, a) ==
  [x EXCEPT !.status = StatusFor(x, x.balance - a), !.balance = x.balance - a, !.received = @ + a]

LEMMA PaidSound ==
  ASSUME NEW x \in Invoices, Sound(x), x.status # "none",
         NEW a \in Nat \ {0}, a <= x.balance
  PROVE  /\ x.status # "PAID"
         /\ Sound(Settled(x, a))
<1>1. /\ x.balance \in Nat /\ x.total \in Nat /\ x.received \in Nat
      /\ x.status # "PAID" /\ x.received + x.balance = x.total
  BY DEF Sound, Invoices
<1>2. x.balance - a \in Nat /\ x.balance - a < x.total /\ x.received + a + (x.balance - a) = x.total
  BY <1>1
<1>3. x.balance - a = 0 => StatusFor(x, x.balance - a) = "PAID"
  BY DEF StatusFor
<1>4. x.balance - a # 0 => StatusFor(x, x.balance - a) = "PARTIALLY_PAID"
  BY <1>2 DEF StatusFor
<1> DEFINE y == Settled(x, a)
<1>5. /\ y.status = StatusFor(x, x.balance - a) /\ y.balance = x.balance - a
      /\ y.received = x.received + a /\ y.total = x.total
  BY DEF Invoices, Settled
<1>6. Sound(y)
  <2> HIDE DEF y
  <2>1. CASE x.balance - a = 0
    <3>1. y.status = "PAID" /\ y.balance = 0 /\ y.received = y.total /\ y.total \in Nat
      BY <1>1, <1>2, <1>3, <1>5, <2>1
    <3>2. QED
      BY <3>1, AmountsAssumption DEF Sound
  <2>2. CASE x.balance - a # 0
    BY <1>1, <1>2, <1>4, <1>5, <2>2, AmountsAssumption DEF Sound
  <2>3. QED
    BY <2>1, <2>2
<1>7. QED
  BY <1>1, <1>6

\* What a payment that commits knows.
LEMMA PayerKnows ==
  ASSUME IInv, Money, NEW r \in Requests, PayCommit(r)
  PROVE  LET i == req[r].doc
         IN  /\ Paying(r) /\ i \in Requests /\ inv[i] = req[r].saw /\ inv[i] \in Invoices /\ Sound(inv[i])
             /\ inv[i].status # "none" /\ req[r].amount \in Nat \ {0}
             /\ req[r].amount <= inv[i].balance
<1>1. /\ At(r) /\ SeenAt(r) /\ Paying(r) /\ Free(Receipt, req[r].row[Receipt])
      /\ req[r].doc \in Requests /\ req[r].amount \in Nat
  BY DEF IInv, TypeOK, Money, PayCommit, Paying, Flights
<1>2. inv[req[r].doc] = req[r].saw /\ req[r].amount > 0
  BY <1>1 DEF SeenAt, Paying
<1>3. QED
  BY <1>1, <1>2 DEF At, CoveredAt, Money, IInv, TypeOK

\* A payment that commits settles what there is.
LEMMA PaySound ==
  ASSUME IInv, Money, NEW r \in Requests, PayCommit(r)  PROVE Money'
<1> DEFINE i == req[r].doc
           n == req[r].row[Receipt]
<1>1. /\ Paying(r) /\ i \in Requests /\ inv[i] = req[r].saw /\ inv[i] \in Invoices /\ Sound(inv[i])
      /\ inv[i].status # "none" /\ req[r].amount \in Nat \ {0} /\ req[r].amount <= inv[i].balance
  BY PayerKnows
<1>2. inv' = [inv EXCEPT ![i] = Settled(inv[i], req[r].amount)]
  BY <1>1 DEF PayCommit, PaidInvoice, Write, Settled
<1>3. \A j \in Requests : Sound(inv'[j])
  <2>1. inv \in [Requests -> Invoices]
    BY DEF IInv, TypeOK
  <2>2. Sound(inv'[i])
    <3>1. inv'[i] = Settled(inv[i], req[r].amount)
      BY <1>1, <1>2, <2>1
    <3>2. Sound(Settled(inv[i], req[r].amount))
      BY <1>1, PaidSound
    <3>3. QED
      BY <3>1, <3>2
  <2>3. \A j \in Requests : j # i => inv'[j] = inv[j]
    BY <1>2, <2>1
  <2>4. QED
    BY <2>2, <2>3 DEF Money
<1>4. /\ n \in Nat \ {0} /\ Follows(n, issued[Receipt]) /\ Free(Receipt, n)
      /\ issued'[Receipt] = issued[Receipt] \cup {n} /\ req \in [Requests -> Flights]
  BY KindsDiffer DEF IInv, TypeOK, PayCommit, At, FollowsAt, Flights, Rows
<1>5. TakesNext
  BY <1>4, NextReceipt
<1>6. req' = Done(r)
  BY DEF PayCommit
<1>7. \A s \in Requests : s # r => SeenAt(s)'
  BY <1>4, <1>5, <1>6, DoneOn, OthersSee DEF Money
<1>8. SeenAt(r)'
  BY <1>4, <1>6, DoneSeen
<1>9. QED
  BY <1>3, <1>7, <1>8 DEF Money, Sound

LEMMA MoneyInductive ==
  ASSUME OnlyPayments, IInv, Money, [Next]_vars  PROVE Money'
<1>1. CASE UNCHANGED vars
  BY <1>1 DEF vars, Money, SeenAt, Sound, Paying, Free
<1>2. CASE Next
  <2>1. PICK r \in Requests : Step(r)
    BY <1>2 DEF Next
  <2>2. SeenAt(r)
    BY DEF Money
  <2>3. QED
    BY <2>1, <2>2, OnlySteps, BeginsSound, CreateSound, PaySound
<1>3. QED
  BY <1>1, <1>2

LEMMA MoneyInitially == Init => Money
<1> SUFFICES ASSUME Init  PROVE Money
  OBVIOUS
<1>1. \A i \in Requests : Sound(inv[i])
  BY AmountsAssumption DEF Init, NoInvoice, Sound
<1>2. \A r \in Requests : SeenAt(r)
  BY DEF Init, Idle, SeenAt, Paying
<1>3. QED
  BY <1>1, <1>2 DEF Money

(***************************************************************************)
(* Whatever payments overlap, every invoice stays sound, and a payment     *)
(* that will commit holds the invoice as it is.                            *)
(***************************************************************************)
THEOREM MoneyInvariance == ASSUME OnlyPayments PROVE Spec => [](IInv /\ Money)
<1>1. IInv /\ Money /\ [Next]_vars => (IInv /\ Money)'
  BY Inductive, MoneyInductive
<1>2. QED
  BY <1>1, Initially, MoneyInitially, PTL DEF Spec

(***************************************************************************)
(* Payments that overlap keep the ledger: an invoice's balance is its      *)
(* total less the payments received (recordPayment, createInvoice).        *)
(***************************************************************************)
THEOREM Ledger == ASSUME OnlyPayments PROVE Spec => []LedgerBalanced
<1>1. IInv /\ Money => LedgerBalanced
  BY DEF IInv, TypeOK, Money, Sound, LedgerBalanced, Exists, Invoices
<1>2. QED
  BY <1>1, MoneyInvariance, PTL

\* Payments that overlap never make the status say other than the balance.
THEOREM StatusFollows == ASSUME OnlyPayments PROVE Spec => []StatusAgrees
<1>1. IInv /\ Money => StatusAgrees
  BY DEF Money, Sound, StatusAgrees
<1>2. QED
  BY <1>1, MoneyInvariance, PTL

(***************************************************************************)
(* What overlapping payments and the splits of mixed sales brought in and  *)
(* what can still be paid never exceed the total by more than a tolerance. *)
(***************************************************************************)
THEOREM Overpaid == ASSUME OnlyPayments PROVE Spec => []NeverOverpaid
<1>1. IInv /\ Money => NeverOverpaid
  BY DEF Money, Sound, NeverOverpaid
<1>2. QED
  BY <1>1, MoneyInvariance, PTL

\* Overlapping payments leave a balance between zero and the total.
THEOREM Balances == ASSUME OnlyPayments PROVE Spec => []BalanceInRange
<1>1. IInv /\ Money => BalanceInRange
  <2> SUFFICES ASSUME IInv, Money, NEW i \in Requests  PROVE inv[i].balance \in 0 .. inv[i].total
    BY DEF BalanceInRange
  <2>1. inv[i].balance \in Nat /\ inv[i].total \in Nat /\ Sound(inv[i])
    BY DEF IInv, TypeOK, Invoices, Money
  <2>2. QED
    BY <2>1 DEF Sound
<1>2. QED
  BY <1>1, MoneyInvariance, PTL

\* A payment in flight never takes an invoice back from PAID.
LEMMA PaidStays ==
  ASSUME OnlyPayments, IInv, Money, [Next]_vars, NEW i \in Requests, inv[i].status = "PAID"
  PROVE  inv'[i].status = "PAID"
<1>1. inv \in [Requests -> Invoices]
  BY DEF IInv, TypeOK
<1>2. CASE UNCHANGED vars
  BY <1>2 DEF vars
<1>3. CASE Next
  <2>1. PICK r \in Requests : Step(r)
    BY <1>3 DEF Next
  <2>2. SeenAt(r) /\ At(r)
    BY DEF Money, IInv
  <2>3. CASE CreateCommit(r)
    <3>1. ~Exists(r) /\ i # r
      BY <2>2, <2>3 DEF CreateCommit, Writing, At, NotYetAt, Exists
    <3>2. QED
      BY <1>1, <2>3, <3>1 DEF CreateCommit
  <2>4. CASE PayCommit(r)
    <3>1. i # req[r].doc
      BY <2>4, PayerKnows, PaidSound
    <3>2. QED
      BY <1>1, <2>4, <3>1 DEF PayCommit, PaidInvoice, Write
  <2>5. CASE CreateLoad(r) \/ Open(r) \/ PayOpen(r) \/ GatewayCharge(r) \/ GatewayOpen(r) \/ Fail(r)
    BY <2>5 DEF CreateLoad, Open, PayOpen, GatewayCharge, GatewayOpen, Fail
  <2>6. QED
    BY <2>1, <2>2, <2>3, <2>4, <2>5, OnlySteps
<1>4. QED
  BY <1>2, <1>3

\* A paid invoice stays paid, though payments against it may be in flight.
THEOREM PaidForGood == ASSUME OnlyPayments PROVE Spec => PaidIsFinal
<1>1. IInv /\ Money /\ [Next]_vars =>
        [\A i \in Requests : inv[i].status = "PAID" => inv'[i].status = "PAID"]_vars
  BY PaidStays
<1>2. QED
  BY <1>1, MoneyInvariance, PTL DEF PaidIsFinal, Spec

-----------------------------------------------------------------------------
(***************************************************************************)
(* Requests served one after the other, as in the run sales_serial: what a *)
(* request has read is how the invoice still is when it writes.  Then      *)
(* every operation but the two that edit and cancel notes keeps an invoice *)
(* in order.                                                               *)
(***************************************************************************)

OneByOne == MaxActive = 1 /\ Ops \cap {"editNote", "cancelNote"} = {}

\* An invoice in order: not overpaid, its balance within its total, nothing
\* due when it is cancelled.
Tidy(x) ==
  /\ x.received + x.balance <= x.total + SplitSlack
  /\ x.balance <= x.total
  /\ x.status = "CANCELLED" => x.balance = 0

\* r has read the invoice that it is going to write.
Informed(r) ==
  \/ req[r].pc = "applying"
  \/ /\ req[r].pc \in {"loaded", "open"}
     /\ req[r].op \in {"issue", "pay", "note", "update", "cancel", "overdue"}
  \/ req[r].pc = "open" /\ req[r].op = "gateway"

\* What a request that is being served knows.
Knows(r) ==
  /\ req[r].op \notin {"editNote", "cancelNote"}
  /\ req[r].op = "gateway" => req[r].amount > 0
  /\ req[r].op = "create" /\ req[r].pc \in {"loaded", "open"} =>
       /\ Tidy(req[r].saw) /\ req[r].saw.status # "CANCELLED"
       /\ req[r].saw.status = "PAID" => req[r].saw.balance = 0
  /\ req[r].pc = "issued" => inv[r].status # "CANCELLED"
  /\ req[r].pc = "applying" => req[r].doc = r
  /\ Informed(r) => inv[req[r].doc] = req[r].saw /\ req[r].saw.status # "CANCELLED"
  /\ req[r].op \in {"issue", "update", "cancel"} => req[r].saw.received = 0
  /\ req[r].pc = "open" /\ req[r].op = "issue" => req[r].tender = "MIXED"

Orderly ==
  /\ \A r, s \in Requests : Active(r) /\ Active(s) => r = s
  /\ \A i \in Requests : Tidy(inv[i])
  /\ \A r \in Requests : Active(r) => Knows(r)

\* A request is taken up when no other is being served.
LEMMA TakenAlone ==
  ASSUME Orderly, OneByOne, NEW r \in Requests, NEW op, Take(r, op)
  PROVE  op \notin {"editNote", "cancelNote"} /\ \A s \in Requests : ~Active(s)
<1>1. op \in Ops /\ Cardinality({s \in Requests : Active(s)}) < 1
  BY DEF Take, OneByOne
<1>2. ASSUME NEW s \in Requests, Active(s) PROVE FALSE
  <2>1. {t \in Requests : Active(t)} = {s}
    BY <1>2 DEF Orderly
  <2>2. Cardinality({s}) = 1
    BY FS_Singleton
  <2> QED BY <1>1, <2>1, <2>2
<1> QED BY <1>1, <1>2 DEF OneByOne

\* So every request is served alone, and none of them edits or cancels a note.
LEMMA ServedAlone ==
  ASSUME TypeOK, Orderly, OneByOne, NEW r \in Requests, Step(r)
  PROVE  /\ \A s \in Requests : s # r => ~Active(s)'
         /\ ~EditNoteLoad(r) /\ ~EditNoteCommit(r) /\ ~CancelNoteLoad(r) /\ ~CancelNoteCommit(r)
<1>1. Active(r) \/ \E op : Take(r, op)
  <2>1. CASE \/ CreateLoad(r) \/ IssueLoad(r) \/ PayOpen(r) \/ GatewayCharge(r) \/ NoteLoad(r)
             \/ EditNoteLoad(r) \/ CancelNoteLoad(r) \/ OverdueList(r)
    BY <2>1, Zenon DEF CreateLoad, IssueLoad, PayOpen, GatewayCharge, NoteLoad, EditNoteLoad,
       CancelNoteLoad, OverdueList
  <2>2. CASE UpdateLoad(r) \/ CancelLoad(r)
    BY <2>2, Zenon DEF UpdateLoad, CancelLoad, TakeUnpaid
  <2>3. CASE \/ CreateCommit(r) \/ StoreCreditLoad(r) \/ StoreCreditApply(r) \/ IssueCommit(r)
             \/ IssueMixedCommit(r) \/ Open(r) \/ GatewayOpen(r) \/ PayCommit(r) \/ NoteCommit(r)
             \/ EditNoteCommit(r) \/ CancelNoteCommit(r) \/ UpdateCommit(r) \/ CancelCommit(r)
             \/ OverdueMark(r) \/ Fail(r)
    BY <2>3 DEF CreateCommit, StoreCreditLoad, StoreCreditApply, IssueCommit, IssueMixedCommit, Open,
       GatewayOpen, PayCommit, NoteCommit, EditNoteCommit, CancelNoteCommit, UpdateCommit,
       CancelCommit, OverdueMark, Fail, Writing, Active
  <2> QED BY <2>1, <2>2, <2>3, Zenon DEF Step
<1>2. \A s \in Requests : s # r => ~Active(s)
  BY <1>1, TakenAlone DEF Orderly
<1>3. \A s \in Requests : s # r => req'[s] = req[s]
  BY StepMoves
<1>4. \A s \in Requests : s # r => ~Active(s)'
  BY <1>2, <1>3 DEF Active
<1>5. ~EditNoteLoad(r) /\ ~CancelNoteLoad(r)
  BY TakenAlone, Zenon DEF EditNoteLoad, CancelNoteLoad
<1>6. ~EditNoteCommit(r) /\ ~CancelNoteCommit(r)
  BY DEF EditNoteCommit, CancelNoteCommit, Writing, Orderly, Knows, Active
<1> QED BY <1>4, <1>5, <1>6

\* It is enough to look at the request that moves and at the invoices.
LEMMA OrderlyStep ==
  ASSUME TypeOK, Orderly, OneByOne, NEW r \in Requests, Step(r),
         Active(r)' => Knows(r)', \A i \in Requests : Tidy(inv'[i])
  PROVE  Orderly'
<1>1. \A s \in Requests : s # r => ~Active(s)'
  BY ServedAlone
<1>2. \A i \in Requests : Tidy(inv[i])'
  BY DEF Tidy
<1> QED BY <1>1, <1>2 DEF Orderly

LEMMA NewTidy ==
  ASSUME NEW status \in {"DRAFT", "ISSUED"}, NEW t, NEW total \in Nat,
         NEW x, x = NewInvoice(status, t, total)
  PROVE  Tidy(x) /\ x.status # "CANCELLED" /\ (x.status = "PAID" => x.balance = 0)
<1>1. /\ x.total = total /\ x.received = 0 /\ x.balance \in {0, total}
      /\ x.status \in {"DRAFT", "ISSUED", "PAID"} /\ (x.status = "PAID" => x.balance = 0)
  BY DEF NewInvoice
<1>2. SplitSlack \in Nat
  BY AmountsAssumption
<1> QED BY <1>1, <1>2 DEF Tidy

\* A request that only reads.
LEMMA ReadsOrderly ==
  ASSUME TypeOK, Orderly, OneByOne, NEW r \in Requests,
         \/ CreateLoad(r) \/ Open(r) \/ StoreCreditLoad(r) \/ IssueLoad(r) \/ PayOpen(r)
         \/ GatewayCharge(r) \/ GatewayOpen(r) \/ NoteLoad(r) \/ UpdateLoad(r) \/ CancelLoad(r)
         \/ OverdueList(r) \/ Fail(r)
  PROVE  Orderly' /\ UNCHANGED inv
<1>1. UNCHANGED inv /\ Step(r)
  BY DEF CreateLoad, Open, StoreCreditLoad, IssueLoad, PayOpen, GatewayCharge, GatewayOpen,
     NoteLoad, UpdateLoad, CancelLoad, TakeUnpaid, OverdueList, Fail, Step
<1>2. req \in [Requests -> Flights] /\ req[r] \in Flights /\ \A i \in Requests : Tidy(inv[i])
  BY DEF TypeOK, Orderly
\* The request has read invoice i and goes on to pc.
<1>3. ASSUME NEW i \in Requests, inv[i].status # "CANCELLED",
             NEW f, f.doc = i, f.saw = inv[i],
             \/ f.pc = "applying" /\ f.op = "create" /\ i = r
             \/ f.pc = "loaded" /\ f.op \in {"issue", "note", "update", "cancel", "overdue"}
             \/ f.pc = "open" /\ f.op \in {"pay", "gateway"},
             f.op = "gateway" => f.amount > 0,
             f.op \in {"issue", "update", "cancel"} => inv[i].received = 0,
             req'[r] = f
      PROVE  Knows(r)'
  BY <1>1, <1>3 DEF Knows, Informed
<1>4. ASSUME NEW pc, NEW op, NEW i \in Requests, NEW a, req' = Go(r, pc, op, i, a, inv[i]),
             inv[i].status # "CANCELLED",
             \/ pc = "applying" /\ op = "create" /\ i = r
             \/ pc = "loaded" /\ op \in {"issue", "note", "update", "cancel", "overdue"},
             op \in {"issue", "update", "cancel"} => inv[i].received = 0
      PROVE  Knows(r)'
  <2>1. PICK f : f = req'[r]
    OBVIOUS
  <2>2. f.pc = pc /\ f.op = op /\ f.doc = i /\ f.saw = inv[i]
    BY <1>2, <1>4, <2>1, GoFields
  <2> QED BY <1>3, <1>4, <2>1, <2>2
<1>5. ASSUME NEW op \in {"pay", "gateway"}, NEW i \in Requests, NEW a \in Nat \ {0},
             req' = Snapshot(r, op, i, a), inv[i].status # "CANCELLED"
      PROVE  Knows(r)'
  <2> DEFINE go == Go(r, "open", op, i, a, inv[i])
  <2>1. /\ go[r].pc = "open" /\ go[r].op = op /\ go[r].doc = i /\ go[r].amount = a
        /\ go[r].saw = inv[i]
    BY <1>2, GoFields
  <2>2. req' = [go EXCEPT ![r].row = row] /\ DOMAIN go = Requests
    BY <1>2, <1>5 DEF Snapshot, Go
  <2> HIDE DEF go
  <2>3. PICK f : f = req'[r]
    OBVIOUS
  <2>4. f.pc = "open" /\ f.op = op /\ f.amount = a /\ f.doc = i /\ f.saw = inv[i]
    BY <2>1, <2>2, <2>3
  <2> QED BY <1>3, <1>5, <2>3, <2>4
<1>6. Active(r)' => Knows(r)'
  <2>1. CASE CreateLoad(r)
    <3>1. PICK status \in {"DRAFT", "ISSUED"}, t \in Tenders, total \in Amounts, a \in Amounts \cup {0} :
            req' = Go(r, "loaded", "create", r, a, NewInvoice(status, t, total))
      BY <2>1 DEF CreateLoad
    <3>2. total \in Nat
      BY AmountsAssumption
    <3>3. req'[r].pc = "loaded" /\ req'[r].op = "create" /\ req'[r].saw = NewInvoice(status, t, total)
      BY <1>2, <3>1, GoFields
    <3>4. PICK x : x = NewInvoice(status, t, total)
      OBVIOUS
    <3>5. Tidy(x) /\ x.status # "CANCELLED" /\ (x.status = "PAID" => x.balance = 0)
      BY <3>2, <3>4, NewTidy
    <3> QED BY <3>3, <3>4, <3>5 DEF Knows, Informed, Tidy
  <2>2. CASE Open(r)
    <3>1. req[r].op \in {"create", "note", "issue"} /\ req[r].pc = "loaded" /\ Knows(r)
      BY <2>2 DEF Open, Active, Orderly
    <3>2. /\ req'[r].pc = "open" /\ req'[r].op = req[r].op /\ req'[r].doc = req[r].doc
          /\ req'[r].saw = req[r].saw
          /\ req[r].op = "issue" => req'[r].tender = "MIXED"
      BY <1>2, <2>2 DEF Open, Flights
    <3> QED BY <1>1, <3>1, <3>2 DEF Knows, Informed, Tidy
  <2>3. CASE StoreCreditLoad(r)
    <3>1. inv[r].status # "CANCELLED"
      BY <2>3 DEF StoreCreditLoad, Orderly, Knows, Active
    <3> QED BY <1>4, <2>3, <3>1 DEF StoreCreditLoad
  <2>4. CASE IssueLoad(r)
    <3>1. PICK i \in Requests, t \in Tenders :
            /\ inv[i].status = "DRAFT" /\ inv[i].received = 0
            /\ req' = [Go(r, "loaded", "issue", i, 0, inv[i]) EXCEPT ![r].tender = t]
      BY <2>4 DEF IssueLoad
    <3> DEFINE go == Go(r, "loaded", "issue", i, 0, inv[i])
    <3>2. go[r].pc = "loaded" /\ go[r].op = "issue" /\ go[r].doc = i /\ go[r].saw = inv[i]
      BY <1>2, GoFields
    <3>3. req' = [go EXCEPT ![r].tender = t] /\ DOMAIN go = Requests
      BY <1>2, <3>1 DEF Go
    <3> HIDE DEF go
    <3>4. PICK f : f = req'[r]
      OBVIOUS
    <3>5. f.pc = "loaded" /\ f.op = "issue" /\ f.doc = i /\ f.saw = inv[i]
      BY <3>2, <3>3, <3>4
    <3> QED BY <1>3, <3>1, <3>4, <3>5
  <2>5. CASE PayOpen(r)
    BY <1>5, <2>5, AmountsAssumption DEF PayOpen
  <2>6. CASE GatewayCharge(r)
    <3>1. PICK i \in Requests, a \in Amounts : req' = Go(r, "loaded", "gateway", i, a, NoInvoice)
      BY <2>6 DEF GatewayCharge
    <3>2. req'[r].pc = "loaded" /\ req'[r].op = "gateway" /\ req'[r].amount = a
      BY <1>2, <3>1, GoFields
    <3>3. a > 0
      BY AmountsAssumption
    <3> QED BY <3>2, <3>3 DEF Knows, Informed
  <2>7. CASE GatewayOpen(r)
    <3>1. PICK i, a : i = req[r].doc /\ a = req[r].amount
      OBVIOUS
    <3>2. i \in Requests /\ a \in Nat \ {0} /\ a <= inv[i].balance /\ req' = Snapshot(r, "gateway", i, a)
      BY <1>2, <2>7, <3>1 DEF GatewayOpen, Writing, Flights, Orderly, Knows, Active
    <3>3. inv[i].status # "CANCELLED"
      BY <1>2, <3>2 DEF Tidy
    <3> QED BY <1>5, <3>2, <3>3
  <2>8. CASE NoteLoad(r)
    BY <1>4, <2>8 DEF NoteLoad
  <2>9. CASE UpdateLoad(r)
    <3>1. PICK i \in Requests, a \in Amounts :
            /\ inv[i].status # "CANCELLED" /\ inv[i].received = 0
            /\ req' = Go(r, "loaded", "update", i, a, inv[i])
      BY <2>9 DEF UpdateLoad, TakeUnpaid
    <3> QED BY <1>4, <3>1
  <2>10. CASE CancelLoad(r)
    <3>1. PICK i \in Requests :
            /\ inv[i].status # "CANCELLED" /\ inv[i].received = 0
            /\ req' = Go(r, "loaded", "cancel", i, 0, inv[i])
      BY <2>10 DEF CancelLoad, TakeUnpaid
    <3> QED BY <1>4, <3>1
  <2>11. CASE OverdueList(r)
    BY <1>4, <2>11 DEF OverdueList
  <2>12. CASE Fail(r)
    <3>1. req'[r].pc = "done"
      BY <1>2, <2>12, DoneOn DEF Fail
    <3> QED BY <3>1 DEF Active
  <2> QED BY <2>1, <2>2, <2>3, <2>4, <2>5, <2>6, <2>7, <2>8, <2>9, <2>10, <2>11, <2>12
<1>7. \A i \in Requests : Tidy(inv'[i])
  BY <1>1, <1>2
<1> QED BY <1>1, <1>6, <1>7, OrderlyStep

\* A step writes one invoice, which is not a cancelled one, and leaves it in order.
TidyWrite ==
  \E j \in Requests : \E y : /\ inv' = [inv EXCEPT ![j] = y] /\ Tidy(y)
                            /\ inv[j].status # "CANCELLED"

\* A commit that writes an invoice as the request has read it.
LEMMA WrittenTidy ==
  ASSUME TypeOK, NEW i \in Requests, NEW x, inv[i] = x, x.status # "CANCELLED",
         NEW status, NEW balance \in Nat, NEW sum \in Nat, inv' = Write(i, status, balance, sum),
         balance <= x.total, x.received + sum + balance <= x.total + SplitSlack,
         status = "CANCELLED" => balance = 0
  PROVE  TidyWrite
<1>1. x \in Invoices
  BY DEF TypeOK
<1>2. PICK y : y = [x EXCEPT !.status = status, !.balance = balance, !.received = @ + sum]
  OBVIOUS
<1>3. inv' = [inv EXCEPT ![i] = y]
  BY <1>2 DEF Write
<1>4. y.status = status /\ y.balance = balance /\ y.received = x.received + sum /\ y.total = x.total
  BY <1>1, <1>2 DEF Invoices
<1>5. Tidy(y)
  BY <1>4 DEF Tidy
<1> QED BY <1>3, <1>5 DEF TidyWrite

\* What a request that commits knows of its invoice.
LEMMA Committing ==
  ASSUME TypeOK, Orderly, NEW r \in Requests, Informed(r), Active(r), NEW x, x = inv[req[r].doc]
  PROVE  /\ x \in Invoices /\ x = req[r].saw /\ req[r].doc \in Requests /\ Tidy(x)
         /\ x.status # "CANCELLED" /\ req[r].amount \in Nat
         /\ req[r].op \in {"issue", "update", "cancel"} => x.received = 0
<1>1. req[r].doc \in Requests /\ req[r].amount \in Nat
  BY DEF TypeOK, Flights
<1> QED BY <1>1 DEF TypeOK, Orderly, Knows

\* Issuing a held invoice.
LEMMA IssuedTidy ==
  ASSUME TypeOK, NEW r \in Requests, NEW i, i = req[r].doc, NEW x, x = inv[i], x \in Invoices,
         x = req[r].saw, i \in Requests, x.status # "CANCELLED", x.received = 0, NEW sum \in Nat,
         IF PaidAtIssue(req[r].tender) THEN sum <= x.total + SplitSlack ELSE sum = 0,
         inv' = IssuedInvoice(r, sum)
  PROVE  TidyWrite
<1>1. PICK status, balance :
        /\ status = IF PaidAtIssue(req[r].tender) THEN "PAID" ELSE "ISSUED"
        /\ balance = IF PaidAtIssue(req[r].tender) THEN 0 ELSE x.total
  OBVIOUS
<1>2. PICK w : w = [x EXCEPT !.status = status, !.balance = balance, !.received = @ + sum]
  OBVIOUS
<1>3. PICK y : y = [w EXCEPT !.tender = req[r].tender]
  OBVIOUS
<1>4. x.total \in Nat /\ SplitSlack \in Nat
  BY AmountsAssumption DEF Invoices
<1>5. y.status = status /\ y.balance = balance /\ y.received = sum /\ y.total = x.total
  BY <1>2, <1>3 DEF Invoices
<1>6. Tidy(y)
  BY <1>1, <1>4, <1>5 DEF Tidy
<1>7. PICK written : written = [inv EXCEPT ![i] = w]
  OBVIOUS
<1>8. inv' = [written EXCEPT ![i] = [@ EXCEPT !.tender = req[r].tender]]
  BY <1>1, <1>2, <1>7 DEF IssuedInvoice, Write
<1>9. written[i] = w /\ inv \in [Requests -> Invoices]
  BY <1>7 DEF TypeOK
<1>10. inv' = [inv EXCEPT ![i] = y]
  BY <1>3, <1>7, <1>8, <1>9
<1> QED BY <1>6, <1>10 DEF TidyWrite

\* Every commit writes one invoice, which is not a cancelled one, and leaves it in order.
LEMMA CommitTidy ==
  ASSUME IInv, Orderly, NEW r \in Requests,
         \/ CreateCommit(r) \/ StoreCreditApply(r) \/ IssueCommit(r) \/ IssueMixedCommit(r)
         \/ PayCommit(r) \/ NoteCommit(r) \/ UpdateCommit(r) \/ CancelCommit(r) \/ OverdueMark(r)
  PROVE  TidyWrite
<1>1. TypeOK /\ At(r) /\ inv \in [Requests -> Invoices] /\ SplitSlack \in Nat
  BY AmountsAssumption DEF IInv, TypeOK
<1>2. PICK i, x, a : i = req[r].doc /\ x = inv[i] /\ a = req[r].amount
  OBVIOUS
<1>3. ASSUME Informed(r), Active(r)
      PROVE  /\ x \in Invoices /\ x = req[r].saw /\ i \in Requests /\ Tidy(x)
             /\ x.status # "CANCELLED" /\ a \in Nat
             /\ x.balance \in Nat /\ x.total \in Nat /\ x.received \in Nat
             /\ req[r].op \in {"issue", "update", "cancel"} => x.received = 0
  <2>1. /\ x \in Invoices /\ x = req[r].saw /\ i \in Requests /\ Tidy(x)
        /\ x.status # "CANCELLED" /\ a \in Nat
        /\ req[r].op \in {"issue", "update", "cancel"} => x.received = 0
    BY <1>1, <1>2, <1>3, Committing
  <2> QED BY <2>1 DEF Invoices
<1>4. ASSUME Informed(r), Active(r), NEW status, NEW balance \in Nat, NEW sum \in Nat,
             inv' = Write(i, status, balance, sum), status = "CANCELLED" => balance = 0,
             balance + sum <= x.balance
      PROVE  TidyWrite
  <2>1. balance <= x.total /\ x.received + sum + balance <= x.total + SplitSlack
    BY <1>1, <1>3, <1>4 DEF Tidy
  <2> QED BY <1>1, <1>2, <1>3, <1>4, <2>1, WrittenTidy
<1>5. CASE CreateCommit(r)
  <2>1. Knows(r) /\ req[r].op = "create" /\ req[r].pc = "open" /\ ~Exists(r)
    BY <1>1, <1>5 DEF CreateCommit, Writing, Orderly, Active, At, NotYetAt
  <2>2. PICK s : s = req[r].saw
    OBVIOUS
  <2>3. s \in Invoices /\ Tidy(s) /\ (s.status = "PAID" => s.balance = 0) /\ s.status # "CANCELLED"
    BY <1>1, <2>1, <2>2 DEF Knows, TypeOK, Flights
  <2>4. CASE IssuedMixed(r)
    <3>1. PICK sum \in SplitSums(s.total) : inv' = [inv EXCEPT ![r] = [s EXCEPT !.received = sum]]
      BY <1>5, <2>2, <2>4 DEF CreateCommit
    <3>2. PICK y : y = [s EXCEPT !.received = sum]
      OBVIOUS
    <3>3. s.total \in Nat /\ sum \in Nat /\ sum <= s.total + SplitSlack /\ s.balance = 0
      BY <1>1, <2>2, <2>3, <2>4, <3>1, SplitType DEF SplitSums, Invoices, IssuedMixed
    <3>4. y.status = s.status /\ y.balance = 0 /\ y.received = sum /\ y.total = s.total
      BY <2>3, <3>2, <3>3 DEF Invoices
    <3>5. Tidy(y)
      BY <3>3, <3>4 DEF Tidy
    <3> QED BY <2>1, <3>1, <3>2, <3>5 DEF Exists, TidyWrite
  <2>5. CASE ~IssuedMixed(r)
    <3>1. inv' = [inv EXCEPT ![r] = s]
      BY <1>5, <2>2, <2>5 DEF CreateCommit
    <3> QED BY <2>1, <2>3, <3>1 DEF Exists, TidyWrite
  <2> QED BY <2>4, <2>5
<1>6. CASE StoreCreditApply(r)
  <2>1. req[r].pc = "applying" /\ Informed(r) /\ Active(r) /\ i = r
    BY <1>2, <1>6 DEF StoreCreditApply, Informed, Active, Orderly, Knows
  <2>2. PICK balance : balance = NotBelowZero(x.balance - a)
    OBVIOUS
  <2>3. balance \in Nat /\ balance + 0 <= x.balance
    BY <1>3, <2>1, <2>2 DEF NotBelowZero
  <2>4. inv' = Write(i, IF balance = 0 THEN "PAID" ELSE "PARTIALLY_PAID", balance, 0)
    BY <1>2, <1>3, <1>6, <2>1, <2>2 DEF StoreCreditApply
  <2> QED BY <1>4, <2>1, <2>3, <2>4
<1>7. CASE IssueCommit(r)
  <2>1. Informed(r) /\ Active(r) /\ req[r].op = "issue" /\ inv' = IssuedInvoice(r, 0)
    BY <1>7 DEF IssueCommit, Writing, Informed, Active
  <2> QED BY <1>1, <1>2, <1>3, <2>1, IssuedTidy
<1>8. CASE IssueMixedCommit(r)
  <2>1. Informed(r) /\ Active(r) /\ req[r].op = "issue"
    BY <1>8 DEF IssueMixedCommit, Writing, Informed, Active
  <2>2. PICK sum \in SplitSums(x.total) : inv' = IssuedInvoice(r, sum)
    BY <1>3, <1>8, <2>1 DEF IssueMixedCommit
  <2>3. sum \in Nat /\ sum <= x.total + SplitSlack
    BY <1>1, <1>3, <2>1, <2>2, SplitType DEF SplitSums
  <2>4. PaidAtIssue(req[r].tender)
    <3>1. req[r].tender = "MIXED"
      BY <1>8 DEF IssueMixedCommit, Writing, Orderly, Active, Knows
    <3> QED BY <3>1 DEF PaidAtIssue
  <2>5. x \in Invoices /\ x = req[r].saw /\ i \in Requests /\ x.status # "CANCELLED" /\ x.received = 0
    BY <1>3, <2>1
  <2> QED BY <1>1, <1>2, <2>2, <2>3, <2>4, <2>5, IssuedTidy
<1>9. CASE PayCommit(r)
  <2>1. Informed(r) /\ Active(r) /\ Paying(r)
    BY <1>9 DEF PayCommit, Informed, Active, Paying
  <2>2. a <= x.balance
    BY <1>1, <1>2, <1>3, <2>1 DEF At, CoveredAt
  <2>3. PICK balance : balance = x.balance - a
    OBVIOUS
  <2>4. balance \in Nat /\ balance + a <= x.balance
    BY <1>3, <2>1, <2>2, <2>3
  <2>5. inv' = Write(i, StatusFor(x, balance), balance, a)
    BY <1>2, <1>3, <1>9, <2>1, <2>3 DEF PayCommit, PaidInvoice
  <2>6. StatusFor(x, balance) # "CANCELLED"
    BY <1>3, <2>1 DEF StatusFor
  <2> QED BY <1>3, <1>4, <2>1, <2>4, <2>5, <2>6
<1>10. CASE NoteCommit(r)
  <2>1. Informed(r) /\ Active(r)
    BY <1>10 DEF NoteCommit, Writing, Informed, Active
  <2>2. PICK balance : balance = x.balance - a
    OBVIOUS
  <2>3. NotBelowZero(balance) \in Nat /\ NotBelowZero(balance) + 0 <= x.balance
    BY <1>3, <2>1, <2>2 DEF NotBelowZero
  <2>4. inv' = Write(i, StatusFor(x, balance), NotBelowZero(balance), 0)
    BY <1>2, <1>3, <1>10, <2>1, <2>2 DEF NoteCommit
  <2>5. StatusFor(x, balance) # "CANCELLED"
    BY <1>3, <2>1 DEF StatusFor
  <2> QED BY <1>4, <2>1, <2>3, <2>4, <2>5
<1>11. CASE UpdateCommit(r)
  <2>1. Informed(r) /\ Active(r) /\ req[r].op = "update"
    BY <1>11 DEF UpdateCommit, Writing, Informed, Active
  <2>2. PICK y : y = [x EXCEPT !.total = a, !.balance = a]
    OBVIOUS
  <2>3. inv' = [inv EXCEPT ![i] = y]
    BY <1>1, <1>2, <1>3, <1>11, <2>1, <2>2 DEF UpdateCommit
  <2>4. y.status = x.status /\ y.balance = a /\ y.total = a /\ y.received = 0
    BY <1>3, <2>1, <2>2 DEF Invoices
  <2>5. Tidy(y)
    BY <1>1, <1>3, <2>1, <2>4 DEF Tidy
  <2> QED BY <1>2, <1>3, <2>1, <2>3, <2>5 DEF TidyWrite
<1>12. CASE CancelCommit(r)
  <2>1. Informed(r) /\ Active(r) /\ inv' = Write(i, "CANCELLED", 0, 0)
    BY <1>2, <1>12 DEF CancelCommit, Writing, Informed, Active
  <2>2. 0 \in Nat /\ 0 + 0 <= x.balance
    BY <1>3, <2>1
  <2> QED BY <1>4, <2>1, <2>2
<1>13. CASE OverdueMark(r)
  <2>1. Informed(r) /\ Active(r) /\ inv' = Write(i, "OVERDUE", x.balance, 0)
    BY <1>2, <1>13 DEF OverdueMark, Writing, Informed, Active
  <2>2. 0 \in Nat /\ x.balance \in Nat /\ x.balance + 0 <= x.balance
    BY <1>3, <2>1
  <2> QED BY <1>4, <2>1, <2>2
<1> QED BY <1>5, <1>6, <1>7, <1>8, <1>9, <1>10, <1>11, <1>12, <1>13

LEMMA CommitsOrderly ==
  ASSUME IInv, Orderly, OneByOne, NEW r \in Requests,
         \/ CreateCommit(r) \/ StoreCreditApply(r) \/ IssueCommit(r) \/ IssueMixedCommit(r)
         \/ PayCommit(r) \/ NoteCommit(r) \/ UpdateCommit(r) \/ CancelCommit(r) \/ OverdueMark(r)
  PROVE  /\ Orderly'
         /\ \A i \in Requests : inv[i].status = "CANCELLED" => inv'[i] = inv[i]
<1>1. /\ TypeOK /\ inv \in [Requests -> Invoices] /\ req \in [Requests -> Flights] /\ Step(r)
      /\ req[r] \in Flights
  BY DEF IInv, TypeOK, Step
<1>2. PICK j \in Requests : \E y : /\ inv' = [inv EXCEPT ![j] = y] /\ Tidy(y)
                                   /\ inv[j].status # "CANCELLED"
  BY CommitTidy, Zenon DEF TidyWrite
<1>3. \A i \in Requests : Tidy(inv'[i])
  BY <1>1, <1>2 DEF Orderly
<1>4. Active(r)' => Knows(r)'
  <2>1. CASE req' = Done(r)
    BY <1>1, <2>1, DoneOn DEF Active
  <2>2. CASE CreateCommit(r) /\ req' = [req EXCEPT ![r].pc = "issued"]
    <3>1. Knows(r) /\ req[r].op = "create" /\ req[r].pc = "open"
      BY <2>2 DEF CreateCommit, Writing, Orderly, Active
    <3>2. PICK s : s = req[r].saw
      OBVIOUS
    <3>3. s \in Invoices /\ s.status # "CANCELLED"
      BY <1>1, <3>1, <3>2 DEF Knows, Flights
    <3>4. PICK x : inv' = [inv EXCEPT ![r] = x] /\ x.status = s.status
      <4>1. CASE IssuedMixed(r)
        <5>1. PICK sum : inv' = [inv EXCEPT ![r] = [s EXCEPT !.received = sum]]
          BY <2>2, <3>2, <4>1 DEF CreateCommit
        <5>2. [s EXCEPT !.received = sum].status = s.status
          BY <3>3 DEF Invoices
        <5> QED BY <5>1, <5>2
      <4>2. CASE ~IssuedMixed(r)
        BY <2>2, <3>2, <4>2 DEF CreateCommit
      <4> QED BY <4>1, <4>2
    <3>5. inv'[r].status # "CANCELLED"
      BY <1>1, <3>3, <3>4
    <3>6. req'[r].pc = "issued" /\ req'[r].op = "create"
      BY <1>1, <2>2, <3>1 DEF Flights
    <3> QED BY <3>5, <3>6 DEF Knows, Informed
  <2> QED BY <2>1, <2>2 DEF CreateCommit, StoreCreditApply, IssueCommit, IssueMixedCommit, PayCommit,
             NoteCommit, UpdateCommit, CancelCommit, OverdueMark
<1>5. \A i \in Requests : inv[i].status = "CANCELLED" => inv'[i] = inv[i]
  BY <1>1, <1>2
<1> QED BY <1>1, <1>3, <1>4, <1>5, OrderlyStep

LEMMA OrderlyInductive ==
  ASSUME OneByOne, IInv, Orderly, [Next]_vars
  PROVE  /\ Orderly'
         /\ \A i \in Requests : inv[i].status = "CANCELLED" => inv'[i] = inv[i]
<1>1. CASE UNCHANGED vars
  BY <1>1 DEF vars, Orderly, Tidy, Active, Knows, Informed
<1>2. CASE Next
  <2>1. PICK r \in Requests : Step(r)
    BY <1>2 DEF Next
  <2>2. ~EditNoteLoad(r) /\ ~EditNoteCommit(r) /\ ~CancelNoteLoad(r) /\ ~CancelNoteCommit(r) /\ TypeOK
    BY <2>1, ServedAlone DEF IInv
  <2> QED BY <2>1, <2>2, ReadsOrderly, CommitsOrderly, Zenon DEF Step
<1> QED BY <1>1, <1>2

LEMMA OrderlyInitially == Init => Orderly
<1> SUFFICES ASSUME Init PROVE Orderly
  OBVIOUS
<1>1. \A r \in Requests : ~Active(r)
  BY DEF Init, Idle, Active
<1>2. \A i \in Requests : Tidy(inv[i])
  BY AmountsAssumption DEF Init, NoInvoice, Tidy
<1> QED BY <1>1, <1>2 DEF Orderly

(***************************************************************************)
(* One request after the other, what a request has read is what it will    *)
(* overwrite, and every invoice is in order.                               *)
(***************************************************************************)
THEOREM OrderlyInvariance == ASSUME OneByOne PROVE Spec => [](IInv /\ Orderly)
<1>1. IInv /\ Orderly /\ [Next]_vars => (IInv /\ Orderly)'
  BY Inductive, OrderlyInductive
<1> QED BY <1>1, Initially, OrderlyInitially, PTL DEF Spec

(***************************************************************************)
(* One request after the other - payments, charges, store credit, credit   *)
(* notes, edits, cancellations and the overdue scan - what came in and     *)
(* what is due never exceed the total by more than a tolerance.            *)
(***************************************************************************)
THEOREM OverpaidSerially == ASSUME OneByOne PROVE Spec => []NeverOverpaid
<1>1. IInv /\ Orderly => NeverOverpaid
  BY DEF Orderly, Tidy, NeverOverpaid
<1> QED BY <1>1, OrderlyInvariance, PTL

\* One request after the other, a balance is between zero and the total.
THEOREM BalancesSerially == ASSUME OneByOne PROVE Spec => []BalanceInRange
<1>1. IInv /\ Orderly => BalanceInRange
  <2> SUFFICES ASSUME IInv, Orderly, NEW i \in Requests  PROVE inv[i].balance \in 0 .. inv[i].total
    BY DEF BalanceInRange
  <2>1. inv[i].balance \in Nat /\ inv[i].total \in Nat /\ Tidy(inv[i])
    BY DEF IInv, TypeOK, Invoices, Orderly
  <2> QED BY <2>1 DEF Tidy
<1> QED BY <1>1, OrderlyInvariance, PTL

(***************************************************************************)
(* One request after the other, a cancelled invoice stays cancelled and    *)
(* nothing is ever due on it: a gateway charge, which does not look at the *)
(* status, finds no balance to charge.                                     *)
(***************************************************************************)
THEOREM CancelledForGood == ASSUME OneByOne PROVE Spec => CancelledIsFinal
<1>1. IInv /\ Orderly /\ [Next]_vars =>
        [\A i \in Requests : inv[i].status = "CANCELLED" =>
           inv'[i].status = "CANCELLED" /\ inv'[i].balance = 0]_vars
  <2> SUFFICES ASSUME IInv, Orderly, [Next]_vars, NEW i \in Requests, inv[i].status = "CANCELLED"
               PROVE  inv'[i].status = "CANCELLED" /\ inv'[i].balance = 0
    OBVIOUS
  <2>1. inv'[i] = inv[i]
    BY OrderlyInductive
  <2>2. inv[i].balance = 0
    BY DEF Orderly, Tidy
  <2> QED BY <2>1, <2>2
<1> QED BY <1>1, OrderlyInvariance, PTL DEF CancelledIsFinal, Spec
=============================================================================
