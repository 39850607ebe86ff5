------------------------------ MODULE StockLedger ------------------------------
(***************************************************************************)
(* The stock of one item and the documents that move it: direct movements, *)
(* counts (inventory.service.ts), transfers, adjustments, reservations     *)
(* (inventory-ops.service.ts) and goods receipts (purchasing.service.ts).  *)
(*                                                                         *)
(* createMovement is one transaction that reads the balance and writes the *)
(* sum; the documents call it and set their status afterwards, outside of  *)
(* it.  Every statement that reads or writes is a step, requests overlap,  *)
(* and one may fail before any of its steps.                               *)
(***************************************************************************)
EXTENDS Integers, FiniteSets, FiniteSetsExt

CONSTANTS
  Warehouses,
  Documents,   \* rows that may be created, of any kind
  Requests,    \* requests being served at the same time
  Quantities,  \* what may be moved, ordered or reserved
  Counts,      \* what may be counted: any number
  Opening,     \* on hand in every warehouse at first
  MaxStock,    \* bound: no movement raises a balance above it
  Nothing      \* null

ASSUME StockAssumption ==
  /\ IsFiniteSet(Documents)
  /\ Quantities \subseteq Nat \ {0}
  /\ Counts \subseteq Int
  /\ Opening \in Nat
  /\ MaxStock \in Nat
  /\ Nothing \notin Int \cup Warehouses \cup Documents

VARIABLES
  onHand,    \* onHand[w]: stock_balances.quantityOnHand
  reserved,  \* reserved[w]: stock_balances.quantityReserved
  doc,       \* doc[d]: a document; its kind is "none" before it is created
  request,   \* request[q]: what it does, where it is, what it has read
  other,     \* ghost: other[w], moved there by what is not in Accounted
  serial     \* ghost: no requests overlapped, none failed half way, and no
             \* count was approved after a movement it does not know of

vars == <<onHand, reserved, doc, request, other, serial>>

Signed == Quantities \cup {-n : n \in Quantities}

\* Of an order it matters whether it may be received: APPROVED stands for ORDERED
\* and PARTIALLY_RECEIVED too, RECEIVED for DRAFT and CANCELLED.
StatusesOf ==
  [none |-> {"none"},
   transfer |-> {"DRAFT", "IN_TRANSIT", "RECEIVED"},
   adjustment |-> {"PENDING", "APPROVED"},
   order |-> {"APPROVED", "RECEIVED"},
   count |-> {"IN_PROGRESS", "APPROVED"},
   reservation |-> {"ACTIVE", "RELEASED"}]

\* amount is what a count found in the system.  moved holds the movements made
\* for the document: "out" of its warehouse, "in" to where it goes.
DocumentRows ==
  [kind : DOMAIN StatusesOf, status : UNION {StatusesOf[k] : k \in DOMAIN StatusesOf},
   place : Warehouses \cup {Nothing}, to : Warehouses \cup {Nothing},
   amount : Int, counted : Counts \cup {Nothing}, moved : SUBSET {"out", "in"}]

NoDocument == [kind |-> "none", status |-> "none", place |-> Nothing, to |-> Nothing,
               amount |-> 0, counted |-> Nothing, moved |-> {}]

\* read is what the request has read, or what it is about to write from that.
RequestStates ==
  [pc : {"idle", "moving", "open", "moved", "reserving", "reserved", "counting",
         "submitting", "approving", "posting"},
   op : {"none", "move", "ship", "receive", "adjust", "release", "reserve", "count",
         "submit", "approve", "post"},
   d : Documents \cup {Nothing}, w : Warehouses \cup {Nothing},
   amount : Int, read : Int \cup {Nothing}]

Idle == [pc |-> "idle", op |-> "none", d |-> Nothing, w |-> Nothing, amount |-> 0, read |-> 0]

Init ==
  /\ onHand = [w \in Warehouses |-> Opening]
  /\ reserved = [w \in Warehouses |-> 0]
  /\ doc = [d \in Documents |-> NoDocument]
  /\ request = [q \in Requests |-> Idle]
  /\ other = [w \in Warehouses |-> 0]
  /\ serial = TRUE

-----------------------------------------------------------------------------
At(q, pc) == request[q].pc = pc

Quiescent == \A q \in Requests : At(q, "idle")

Is(d, kind, status) == doc[d].kind = kind /\ doc[d].status = status

\* A request starts at pc, having read what its handler reads first.
Begin(q, pc, op, d, w, amount, read) ==
  /\ At(q, "idle")
  /\ request' = [request EXCEPT ![q] =
       [pc |-> pc, op |-> op, d |-> d, w |-> w, amount |-> amount, read |-> read]]
  /\ serial' = (serial /\ Quiescent)
  /\ UNCHANGED <<onHand, reserved, doc, other>>

Return(q) == request' = [request EXCEPT ![q] = Idle]

\* What a request moved without a document that Accounted knows; forgotten once
\* nothing is claimed of it any more.
Account(w, n, stillSerial) ==
  other' = IF stillSerial THEN [other EXCEPT ![w] = @ + n] ELSE [v \in Warehouses |-> 0]

(* Documents that one statement creates or changes. *)

CreateDocument(d, row) ==
  /\ doc[d].kind = "none"
  /\ doc' = [doc EXCEPT ![d] = row]
  /\ UNCHANGED <<onHand, reserved, request, other, serial>>

CreateTransfer(d, from, to, n) ==
  /\ from # to
  /\ CreateDocument(d, [NoDocument EXCEPT !.kind = "transfer", !.status = "DRAFT",
                                          !.place = from, !.to = to, !.amount = n])

CreateAdjustment(d, w, n) ==
  CreateDocument(d, [NoDocument EXCEPT !.kind = "adjustment", !.status = "PENDING",
                                       !.place = w, !.amount = n])

\* The caller of createPurchaseOrder names the status.
CreateOrder(d, n, status) ==
  CreateDocument(d, [NoDocument EXCEPT !.kind = "order", !.status = status, !.amount = n])

\* updatePurchaseOrderStatus sets any status, whatever the order's is.
SetOrderStatus(d, status) ==
  /\ doc[d].kind = "order"
  /\ doc' = [doc EXCEPT ![d].status = status]
  /\ UNCHANGED <<onHand, reserved, request, other, serial>>

(* createMovement, and the documents that call it. *)

\* A movement of its own: the controller's, or the automation's.
Move(q, w, n) == Begin(q, "moving", "move", Nothing, w, n, 0)

ShipTransfer(q, d) ==
  /\ Is(d, "transfer", "DRAFT")
  /\ Begin(q, "moving", "ship", d, doc[d].place, -doc[d].amount, 0)

\* Mutant: receiveTransfer does not look at the status.
ReceiveUnshipped(q, d) ==
  /\ doc[d].kind = "transfer"
  /\ Begin(q, "moving", "receive", d, doc[d].to, doc[d].amount, 0)

ReceiveTransfer(q, d) ==
  /\ Is(d, "transfer", "IN_TRANSIT")
  /\ Begin(q, "moving", "receive", d, doc[d].to, doc[d].amount, 0)

ApproveAdjustment(q, d) ==
  /\ Is(d, "adjustment", "PENDING")
  /\ Begin(q, "moving", "adjust", d, doc[d].place, doc[d].amount, 0)

\* Mutant: releaseReservation forgets to return a released one.
ReleaseAgain(q, d) ==
  /\ doc[d].kind = "reservation"
  /\ Begin(q, "moving", "release", d, doc[d].place, doc[d].amount, 0)

\* A released reservation is returned as it is.
ReleaseReservation(q, d) ==
  /\ Is(d, "reservation", "ACTIVE")
  /\ Begin(q, "moving", "release", d, doc[d].place, doc[d].amount, 0)

\* Mutant: nothing refuses a movement of more than there is.
ReadAnyBalance(q) ==
  /\ At(q, "moving")
  /\ LET s == request[q]
         next == IF s.op = "release" THEN Max({0, reserved[s.w] - s.amount})
                 ELSE onHand[s.w] + s.amount
     IN  /\ next <= MaxStock \/ s.op = "release"
         /\ request' = [request EXCEPT ![q].pc = "open", ![q].read = next]
  /\ UNCHANGED <<onHand, reserved, doc, other, serial>>

\* The transaction opens and reads the balance; releasing reads it without one.
ReadBalance(q) ==
  /\ At(q, "moving")
  /\ LET s == request[q]
         next == IF s.op = "release" THEN Max({0, reserved[s.w] - s.amount})
                 ELSE onHand[s.w] + s.amount
     IN  /\ next >= 0
         /\ next <= MaxStock \/ s.op = "release"
         /\ request' = [request EXCEPT ![q].pc = "open", ![q].read = next]
  /\ UNCHANGED <<onHand, reserved, doc, other, serial>>

\* 'Insufficient stock for this movement': the transaction is rolled back.
InsufficientStock(q) ==
  /\ At(q, "moving")
  /\ request[q].op # "release"
  /\ onHand[request[q].w] + request[q].amount < 0
  /\ Return(q)
  /\ UNCHANGED <<onHand, reserved, doc, other, serial>>

\* It writes the sum of what it read, whatever the balance is by now.
WriteBalance(q) ==
  /\ At(q, "open")
  /\ LET s == request[q]
     IN  /\ IF s.op = "release"
            THEN reserved' = [reserved EXCEPT ![s.w] = s.read] /\ UNCHANGED onHand
            ELSE onHand' = [onHand EXCEPT ![s.w] = s.read] /\ UNCHANGED reserved
         /\ IF s.op = "move"
            THEN Return(q) /\ Account(s.w, s.amount, serial) /\ UNCHANGED doc
            ELSE /\ request' = [request EXCEPT ![q].pc = "moved", ![q].read = 0]
                 /\ doc' = [doc EXCEPT ![s.d].moved =
                      CASE s.op = "ship" -> @ \cup {"out"}
                        [] s.op \in {"receive", "adjust"} -> @ \cup {"in"}
                        [] s.op = "release" -> @]
                 /\ UNCHANGED other
  /\ UNCHANGED serial

\* The statement after the movement.
SetStatus(q) ==
  /\ At(q, "moved")
  /\ LET s == request[q]
     IN  doc' = [doc EXCEPT ![s.d].status =
           CASE s.op = "ship" -> "IN_TRANSIT" [] s.op = "receive" -> "RECEIVED"
             [] s.op = "adjust" -> "APPROVED" [] s.op = "release" -> "RELEASED"]
  /\ Return(q)
  /\ UNCHANGED <<onHand, reserved, other, serial>>

(* reserveStock: a check, the row, the balance. *)

ReserveStock(q, w, n) ==
  /\ onHand[w] - reserved[w] >= n
  /\ Begin(q, "reserving", "reserve", Nothing, w, n, 0)

CreateReservation(q, d) ==
  /\ At(q, "reserving")
  /\ doc[d].kind = "none"
  /\ doc' = [doc EXCEPT ![d] =
       [NoDocument EXCEPT !.kind = "reservation", !.status = "ACTIVE",
                          !.place = request[q].w, !.amount = request[q].amount]]
  /\ request' = [request EXCEPT ![q].pc = "reserved"]
  /\ UNCHANGED <<onHand, reserved, other, serial>>

IncrementReserved(q) ==
  /\ At(q, "reserved")
  /\ reserved' = [reserved EXCEPT ![request[q].w] = @ + request[q].amount]
  /\ Return(q)
  /\ UNCHANGED <<onHand, doc, other, serial>>

(* Stock counts. *)

OpenCount(d, w) == Is(d, "count", "IN_PROGRESS") /\ doc[d].place = w

\* createStockCount finds no open count of the warehouse and reads the balance.
CreateStockCount(q, w) ==
  /\ ~\E d \in Documents : OpenCount(d, w)
  /\ Begin(q, "counting", "count", Nothing, w, 0, onHand[w])

\* Mutant: openWarehouseId is not unique.
InsertAnyCount(q, d) ==
  /\ At(q, "counting")
  /\ doc[d].kind = "none"
  /\ doc' = [doc EXCEPT ![d] =
       [NoDocument EXCEPT !.kind = "count", !.status = "IN_PROGRESS",
                          !.place = request[q].w, !.amount = request[q].read]]
  /\ Return(q)
  /\ UNCHANGED <<onHand, reserved, other, serial>>

\* openWarehouseId is unique: a second open count cannot be inserted.
InsertCount(q, d) ==
  /\ At(q, "counting")
  /\ doc[d].kind = "none"
  /\ ~\E e \in Documents : OpenCount(e, request[q].w)
  /\ doc' = [doc EXCEPT ![d] =
       [NoDocument EXCEPT !.kind = "count", !.status = "IN_PROGRESS",
                          !.place = request[q].w, !.amount = request[q].read]]
  /\ Return(q)
  /\ UNCHANGED <<onHand, reserved, other, serial>>

\* Any numeric string is accepted, one with a minus sign too.
SubmitCountLine(q, d, n) ==
  /\ Is(d, "count", "IN_PROGRESS")
  /\ Begin(q, "submitting", "submit", d, doc[d].place, n, 0)

WriteCountLine(q) ==
  /\ At(q, "submitting")
  /\ doc' = [doc EXCEPT ![request[q].d].counted = request[q].amount]
  /\ Return(q)
  /\ UNCHANGED <<onHand, reserved, other, serial>>

\* approveStockCount reads the count and its line before its transaction.
ApproveStockCount(q, d) ==
  /\ Is(d, "count", "IN_PROGRESS")
  /\ Begin(q, "approving", "approve", d, doc[d].place, doc[d].amount, doc[d].counted)

\* The balance becomes what was counted, the movement is the variance.
PostCount(q) ==
  /\ At(q, "approving")
  /\ LET s == request[q]
         variance == s.read # Nothing /\ s.read # s.amount
     IN  /\ doc' = [doc EXCEPT ![s.d].status = "APPROVED"]
         /\ IF variance
            THEN /\ onHand' = [onHand EXCEPT ![s.w] = s.read]
                 /\ serial' = (serial /\ onHand[s.w] = s.amount)
                 /\ Account(s.w, s.read - s.amount, serial')
            ELSE UNCHANGED <<onHand, other, serial>>
  /\ Return(q)
  /\ UNCHANGED reserved

(* receivePurchaseOrder: the status is read before the transaction. *)

ReceivePurchaseOrder(q, d, w) ==
  /\ Is(d, "order", "APPROVED")
  /\ Begin(q, "posting", "post", d, w, doc[d].amount, 0)

PostReceipt(q) ==
  /\ At(q, "posting")
  /\ LET s == request[q]
     IN  /\ onHand[s.w] + s.amount <= MaxStock
         /\ onHand' = [onHand EXCEPT ![s.w] = @ + s.amount]
         /\ doc' = [doc EXCEPT ![s.d].status = "RECEIVED"]
         /\ Account(s.w, s.amount, serial)
  /\ Return(q)
  /\ UNCHANGED <<reserved, serial>>

\* A statement throws, or the process dies: what was committed remains.
Fail(q) ==
  /\ ~At(q, "idle")
  /\ serial' = (serial /\ ~At(q, "moved") /\ ~At(q, "reserved"))
  /\ Return(q)
  /\ UNCHANGED <<onHand, reserved, doc, other>>

Create ==
  \E d \in Documents, w \in Warehouses, n \in Quantities :
    \/ \E v \in Warehouses : CreateTransfer(d, w, v, n)
    \/ CreateAdjustment(d, w, n) \/ CreateAdjustment(d, w, -n)
    \/ \E status \in StatusesOf.order : CreateOrder(d, n, status)

Handle(q) ==
  \/ \E w \in Warehouses :
       \/ \E n \in Signed : Move(q, w, n)
       \/ \E n \in Quantities : ReserveStock(q, w, n)
       \/ CreateStockCount(q, w)
  \/ \E d \in Documents :
       \/ ShipTransfer(q, d) \/ ReceiveTransfer(q, d) \/ ApproveAdjustment(q, d)
       \/ ReleaseReservation(q, d) \/ CreateReservation(q, d)
       \/ InsertCount(q, d) \/ ApproveStockCount(q, d)
       \/ \E n \in Counts : SubmitCountLine(q, d, n)
       \/ \E w \in Warehouses : ReceivePurchaseOrder(q, d, w)
  \/ ReadBalance(q) \/ InsufficientStock(q) \/ WriteBalance(q) \/ SetStatus(q)
  \/ IncrementReserved(q) \/ WriteCountLine(q) \/ PostCount(q) \/ PostReceipt(q)
  \/ Fail(q)

Next ==
  \/ Create
  \/ \E d \in Documents, status \in StatusesOf.order : SetOrderStatus(d, status)
  \/ \E q \in Requests : Handle(q)

Spec == Init /\ [][Next]_vars
-----------------------------------------------------------------------------
(* Correctness. *)

\* A row fits its kind.
DocumentOK(x) ==
  /\ x.status \in StatusesOf[x.kind]
  /\ x.kind = "none" => x.moved = {}
  /\ x.kind \notin {"none", "order"} => x.place \in Warehouses
  /\ x.kind = "transfer" => x.to \in Warehouses
  /\ x.kind = "order" => x.amount \in Quantities

\* What a request holds fits what it does.
RequestOK(s) ==
  /\ s.pc # "idle" => s.w \in Warehouses
  /\ s.pc \in {"moving", "open", "moved"} =>
       s.op \in {"move", "ship", "receive", "adjust", "release"}
  /\ s.pc = "moved" => s.op # "move"
  /\ s.op \notin {"none", "move", "reserve", "count"} => s.d \in Documents
  /\ s.pc = "open" => s.read \in Nat
  /\ s.pc = "counting" => s.read \in Int
  /\ s.pc \in {"reserving", "reserved", "posting"} => s.amount \in Quantities
  /\ s.pc = "submitting" => s.op = "submit" /\ s.amount \in Counts
  /\ s.pc = "approving" => s.op = "approve" /\ s.read \in Counts \cup {Nothing}
  /\ s.pc = "posting" => s.op = "post"

(***************************************************************************)
(* The type of the state.  What a movement is about to write is not        *)
(* negative, nor is a reserved quantity, which releases clamp at zero; a   *)
(* balance is an integer, since a count may be negative.                   *)
(***************************************************************************)
TypeOK ==
  /\ onHand \in [Warehouses -> Int]
  /\ reserved \in [Warehouses -> Nat]
  /\ doc \in [Documents -> DocumentRows]
  /\ request \in [Requests -> RequestStates]
  /\ other \in [Warehouses -> Int]
  /\ serial \in BOOLEAN
  /\ \A d \in Documents : DocumentOK(doc[d])
  /\ \A q \in Requests : RequestOK(request[q])

(***************************************************************************)
(* "on_hand may be negative only if company setting allows": there is no   *)
(* such setting.                                                           *)
(***************************************************************************)
NeverNegative == \A w \in Warehouses : onHand[w] >= 0

(***************************************************************************)
(* Movements, receipts and releases never overdraw a balance, though each  *)
(* writes a sum it computed from an earlier read, others write in between, *)
(* and they fail anywhere: a warehouse with less than nothing has a count  *)
(* that somebody approved, and one of less than nothing unless requests    *)
(* overlapped - a line may be written again after its count is approved.   *)
(***************************************************************************)
OverdrawnByCount ==
  \A w \in Warehouses :
    onHand[w] < 0 =>
      \E d \in Documents : /\ Is(d, "count", "APPROVED") /\ doc[d].place = w
                           /\ serial => doc[d].counted # Nothing /\ doc[d].counted < 0

(***************************************************************************)
(* Though the check and the insertion are separate, a warehouse never has  *)
(* two counts in progress.                                                 *)
(***************************************************************************)
OneOpenCount ==
  \A c, d \in Documents, w \in Warehouses : OpenCount(c, w) /\ OpenCount(d, w) => c = d

\* The status claims no movement that was not made.
Moved(x) ==
  /\ x.kind = "transfer" =>
       /\ x.status # "DRAFT" => "out" \in x.moved
       /\ x.status = "RECEIVED" => "in" \in x.moved
       /\ "in" \in x.moved => "out" \in x.moved
  /\ x.kind = "adjustment" /\ x.status = "APPROVED" => "in" \in x.moved

(***************************************************************************)
(* The status of a transfer or an adjustment never claims a movement that  *)
(* was not made, and nothing comes in that has not gone out: also when     *)
(* requests overlap or fail between the movement and the status.           *)
(***************************************************************************)
DocumentsMoved == \A d \in Documents : Moved(doc[d])

\* What the status of a transfer or an adjustment says of a warehouse's stock.
Effect(x, w) ==
  LET If(claim) == IF claim THEN x.amount ELSE 0
  IN  If(x.kind = "transfer" /\ x.status = "RECEIVED" /\ x.to = w)
      - If(x.kind = "transfer" /\ x.status \in {"IN_TRANSIT", "RECEIVED"} /\ x.place = w)
      + If(x.kind = "adjustment" /\ x.status = "APPROVED" /\ x.place = w)

\* What an active reservation holds back there.
Held(x, w) ==
  IF x.kind = "reservation" /\ x.status = "ACTIVE" /\ x.place = w THEN x.amount ELSE 0

SumOver(f, S) == MapThenSumSet(LAMBDA d : f[d], S)

Accounted(w) == SumOver([d \in Documents |-> Effect(doc[d], w)], Documents)

Active(w) == SumOver([d \in Documents |-> Held(doc[d], w)], Documents)

(***************************************************************************)
(* Requests served one after the other keep the books: the balance is what *)
(* the documents and the other movements add up to, and the reserved       *)
(* quantity is what the active reservations add up to.  Overlapping        *)
(* requests, one that fails between a movement and its status, and a count *)
(* approved after a movement do not.                                       *)
(***************************************************************************)
BooksAgree ==
  serial /\ Quiescent =>
    \A w \in Warehouses :
      /\ onHand[w] = Opening + Accounted(w) + other[w]
      /\ reserved[w] = Active(w)
=============================================================================
