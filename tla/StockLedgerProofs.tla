--------------------------- MODULE StockLedgerProofs ---------------------------
(***************************************************************************)
(* Theorems about StockLedger, for any number of warehouses, documents and *)
(* requests and any quantities: TypeOK, OneOpenCount, DocumentsMoved,      *)
(* BooksAgree and OverdrawnByCount.                                        *)
(*                                                                         *)
(* What makes the first three inductive (IInv) is what a request knows of  *)
(* its document although others work on it: its kind never changes, and a  *)
(* movement that was made stays made.  What makes the books inductive      *)
(* (Kept) is that the only request being served finds what it has read as  *)
(* it was, and what it has written and its document does not say yet.      *)
(* What shows who overdraws a balance (CountInv) is that a count stays     *)
(* where it is, and that alone its line is what its approval has read.     *)
(***************************************************************************)
EXTENDS StockLedger, FiniteSetTheorems, TLAPS

KindOf ==
  [ship |-> "transfer", receive |-> "transfer", adjust |-> "adjustment",
   release |-> "reservation", submit |-> "count", approve |-> "count", post |-> "order"]

\* What a request knows of its document.
Knows(s) ==
  /\ s.op \in DOMAIN KindOf => doc[s.d].kind = KindOf[s.op]
  /\ s.op = "receive" => "out" \in doc[s.d].moved
  /\ s.pc = "moved" => /\ s.op = "ship" => "out" \in doc[s.d].moved
                       /\ s.op \in {"receive", "adjust"} => "in" \in doc[s.d].moved

IInv ==
  /\ TypeOK
  /\ OneOpenCount
  /\ DocumentsMoved
  /\ \A q \in Requests : Knows(request[q])

LEMMA IdleType == Idle \in RequestStates /\ RequestOK(Idle)
BY StockAssumption DEF Idle, RequestStates, RequestOK

\* A row whose status is one of its kind.
LEMMA RowType ==
  ASSUME NEW k \in DOMAIN StatusesOf, NEW status \in StatusesOf[k],
         NEW place \in Warehouses \cup {Nothing}, NEW to \in Warehouses \cup {Nothing},
         NEW amount \in Int, NEW counted \in Counts \cup {Nothing}, NEW moved \in SUBSET {"out", "in"}
  PROVE  [kind |-> k, status |-> status, place |-> place, to |-> to, amount |-> amount,
          counted |-> counted, moved |-> moved] \in DocumentRows
<1>1. status \in UNION {StatusesOf[j] : j \in DOMAIN StatusesOf}
  OBVIOUS
<1> QED BY <1>1 DEF DocumentRows

LEMMA NoDocumentType == NoDocument \in DocumentRows /\ DocumentOK(NoDocument) /\ Moved(NoDocument)
BY DEF NoDocument, DocumentRows, DocumentOK, StatusesOf, Moved

LEMMA Initially == Init => IInv
<1> SUFFICES ASSUME Init PROVE IInv
  OBVIOUS
<1>1. TypeOK
  BY IdleType, NoDocumentType, StockAssumption DEF Init, TypeOK
<1>2. OneOpenCount
  BY DEF Init, OneOpenCount, OpenCount, Is, NoDocument
<1>3. DocumentsMoved
  BY NoDocumentType DEF Init, DocumentsMoved
<1>4. \A q \in Requests : Knows(request[q])
  BY DEF Init, Knows, Idle, KindOf
<1> QED BY <1>1, <1>2, <1>3, <1>4 DEF IInv

\* A step in which documents keep their kinds and their movements.
LEMMA Others ==
  ASSUME IInv, NEW q \in Requests, NEW s, request' = [request EXCEPT ![q] = s], Knows(s)',
         \A d \in Documents : /\ doc[d].kind # "none" => doc'[d].kind = doc[d].kind
                              /\ doc[d].moved \subseteq doc'[d].moved
  PROVE  \A p \in Requests : Knows(request[p])'
<1> SUFFICES ASSUME NEW p \in Requests, p # q PROVE Knows(request[p])'
  BY DEF IInv, TypeOK
<1>1. request'[p] = request[p] /\ Knows(request[p]) /\ RequestOK(request[p])
      /\ request[p] \in RequestStates
  BY DEF IInv, TypeOK
<1>2. PICK t : t = request[p]
  OBVIOUS
<1>3. t.op \in DOMAIN KindOf \/ t.op \in {"receive", "ship", "adjust"} => t.d \in Documents
  BY <1>1, <1>2 DEF RequestOK, KindOf
<1>4. t.op \in DOMAIN KindOf => KindOf[t.op] # "none"
  BY DEF KindOf
<1> QED BY <1>1, <1>2, <1>3, <1>4 DEF Knows

\* A step of a request that leaves the documents alone.
LEMMA RequestStep ==
  ASSUME IInv, NEW q \in Requests, NEW s \in RequestStates, request' = [request EXCEPT ![q] = s],
         RequestOK(s), Knows(s), doc' = doc,
         onHand' \in [Warehouses -> Int], reserved' \in [Warehouses -> Nat],
         other' \in [Warehouses -> Int], serial' \in BOOLEAN
  PROVE  IInv'
<1>1. TypeOK'
  BY DEF IInv, TypeOK
<1>2. \A p \in Requests : Knows(request[p])'
  <2>1. Knows(s)'
    BY DEF Knows
  <2> QED BY <2>1, Others
<1> QED BY <1>1, <1>2 DEF IInv, OneOpenCount, OpenCount, Is, DocumentsMoved

\* A step that writes the row d.
LEMMA RowStep ==
  ASSUME IInv, NEW q \in Requests, NEW s \in RequestStates, request' = [request EXCEPT ![q] = s],
         RequestOK(s), Knows(s)',
         NEW d \in Documents, NEW x \in DocumentRows, doc' = [doc EXCEPT ![d] = x],
         DocumentOK(x), Moved(x), doc[d].kind \in {"none", x.kind}, doc[d].moved \subseteq x.moved,
         x.kind = "count" /\ x.status = "IN_PROGRESS" =>
           OpenCount(d, x.place) \/ ~\E e \in Documents : OpenCount(e, x.place),
         onHand' \in [Warehouses -> Int], reserved' \in [Warehouses -> Nat],
         other' \in [Warehouses -> Int], serial' \in BOOLEAN
  PROVE  IInv'
<1>1. TypeOK'
  BY DEF IInv, TypeOK
<1>2. \A p \in Requests : Knows(request[p])'
  <2>1. \A e \in Documents : /\ doc[e].kind # "none" => doc'[e].kind = doc[e].kind
                             /\ doc[e].moved \subseteq doc'[e].moved
    BY DEF IInv, TypeOK
  <2> QED BY <2>1, Others
<1>3. DocumentsMoved'
  BY DEF IInv, TypeOK, DocumentsMoved
<1>4. OneOpenCount'
  <2> SUFFICES ASSUME NEW c \in Documents, NEW e \in Documents, NEW w \in Warehouses,
                      OpenCount(c, w)', OpenCount(e, w)'
               PROVE  c = e
    BY DEF OneOpenCount
  <2>1. \A f \in Documents : f # d /\ OpenCount(f, w)' => OpenCount(f, w)
    BY DEF OpenCount, Is, IInv, TypeOK
  <2>2. OpenCount(d, w)' => OpenCount(d, w) \/ ~\E f \in Documents : OpenCount(f, w)
    BY DEF OpenCount, Is, IInv, TypeOK
  <2> QED BY <2>1, <2>2 DEF IInv, OneOpenCount
<1> QED BY <1>1, <1>2, <1>3, <1>4 DEF IInv

\* A step of the documents only.
LEMMA DocumentStep ==
  ASSUME IInv, NEW d \in Documents, NEW x \in DocumentRows, doc' = [doc EXCEPT ![d] = x],
         DocumentOK(x), Moved(x), doc[d].kind \in {"none", x.kind}, doc[d].moved \subseteq x.moved,
         x.kind # "count", UNCHANGED <<onHand, reserved, request, other, serial>>
  PROVE  IInv'
<1>1. TypeOK'
  BY DEF IInv, TypeOK
<1>2. DocumentsMoved'
  BY DEF IInv, TypeOK, DocumentsMoved
<1>3. OneOpenCount'
  BY DEF IInv, TypeOK, OneOpenCount, OpenCount, Is
<1>4. ASSUME NEW p \in Requests PROVE Knows(request[p])'
  <2>1. \A e \in Documents : /\ doc[e].kind # "none" => doc'[e].kind = doc[e].kind
                             /\ doc[e].moved \subseteq doc'[e].moved
    BY DEF IInv, TypeOK
  <2>2. request' = [request EXCEPT ![p] = request[p]]
    BY DEF IInv, TypeOK
  <2>3. PICK t : t = request[p]
    OBVIOUS
  <2>4. Knows(t) /\ RequestOK(t)
    BY <2>3 DEF IInv, TypeOK
  <2>5. t.op \in DOMAIN KindOf \/ t.op \in {"receive", "ship", "adjust"} => t.d \in Documents
    BY <2>4 DEF RequestOK, KindOf
  <2>6. t.op \in DOMAIN KindOf => KindOf[t.op] # "none"
    BY DEF KindOf
  <2>7. Knows(t)'
    BY <2>1, <2>4, <2>5, <2>6 DEF Knows
  <2> QED BY <2>3, <2>7
<1> QED BY <1>1, <1>2, <1>3, <1>4 DEF IInv

LEMMA CreateStep == ASSUME IInv, Create PROVE IInv'
<1>1. PICK d \in Documents, w \in Warehouses, n \in Quantities :
        \/ \E v \in Warehouses : CreateTransfer(d, w, v, n)
        \/ CreateAdjustment(d, w, n) \/ CreateAdjustment(d, w, -n)
        \/ \E status \in StatusesOf.order : CreateOrder(d, n, status)
  BY DEF Create
<1>2. PICK x : CreateDocument(d, x)
               /\ \/ \E v \in Warehouses :
                       x = [NoDocument EXCEPT !.kind = "transfer", !.status = "DRAFT",
                                              !.place = w, !.to = v, !.amount = n]
                  \/ \E m \in {n, -n} :
                       x = [NoDocument EXCEPT !.kind = "adjustment", !.status = "PENDING",
                                              !.place = w, !.amount = m]
                  \/ \E status \in StatusesOf.order :
                       x = [NoDocument EXCEPT !.kind = "order", !.status = status, !.amount = n]
  BY <1>1, Zenon DEF CreateTransfer, CreateAdjustment, CreateOrder
<1>3. n \in Int /\ -n \in Int
  BY StockAssumption
<1> DEFINE Good == x \in DocumentRows /\ DocumentOK(x) /\ Moved(x) /\ x.kind # "count"
                   /\ x.moved = {}
<1>4. Good
  <2> USE <1>3 DEF DocumentOK, Moved, StatusesOf
  <2>1. ASSUME NEW v \in Warehouses,
               x = [NoDocument EXCEPT !.kind = "transfer", !.status = "DRAFT",
                                      !.place = w, !.to = v, !.amount = n]
        PROVE  Good
    <3>1. x = [kind |-> "transfer", status |-> "DRAFT", place |-> w, to |-> v, amount |-> n,
               counted |-> Nothing, moved |-> {}]
      BY <2>1 DEF NoDocument
    <3> QED BY <3>1, RowType
  <2>2. ASSUME NEW m \in {n, -n},
               x = [NoDocument EXCEPT !.kind = "adjustment", !.status = "PENDING",
                                      !.place = w, !.amount = m]
        PROVE  Good
    <3>1. x = [kind |-> "adjustment", status |-> "PENDING", place |-> w, to |-> Nothing,
               amount |-> m, counted |-> Nothing, moved |-> {}]
      BY <2>2 DEF NoDocument
    <3> QED BY <3>1, RowType
  <2>3. ASSUME NEW status \in StatusesOf.order,
               x = [NoDocument EXCEPT !.kind = "order", !.status = status, !.amount = n]
        PROVE  Good
    <3>1. status \in {"APPROVED", "RECEIVED"}
      OBVIOUS
    <3>2. x = [kind |-> "order", status |-> status, place |-> Nothing, to |-> Nothing,
               amount |-> n, counted |-> Nothing, moved |-> {}]
      BY <2>3 DEF NoDocument
    <3> QED BY <3>1, <3>2, RowType
  <2> HIDE DEF Good
  <2> QED BY <1>2, <2>1, <2>2, <2>3
<1>5. doc[d].kind = "none" /\ doc[d].moved = {}
  BY <1>2 DEF CreateDocument, IInv, TypeOK, DocumentOK
<1> QED BY <1>2, <1>4, <1>5, DocumentStep DEF CreateDocument

LEMMA OrderStatusStep ==
  ASSUME IInv, NEW d \in Documents, NEW status \in StatusesOf.order, SetOrderStatus(d, status)
  PROVE  IInv'
<1> DEFINE x == [doc[d] EXCEPT !.status = status]
<1>1. doc[d] \in DocumentRows /\ doc[d].kind = "order" /\ DocumentOK(doc[d])
  BY DEF SetOrderStatus, IInv, TypeOK
<1>2. status \in StatusesOf["order"] /\ "order" \in DOMAIN StatusesOf
  BY DEF StatusesOf
<1>3. x \in DocumentRows
  BY <1>1, <1>2 DEF DocumentRows
<1>4. x.kind = "order" /\ x.moved = doc[d].moved /\ x.amount = doc[d].amount /\ x.status = status
  BY <1>1 DEF DocumentRows
<1>5. DocumentOK(x) /\ Moved(x)
  BY <1>1, <1>2, <1>4 DEF DocumentOK, Moved
<1>6. doc' = [doc EXCEPT ![d] = x]
  BY DEF SetOrderStatus
<1> HIDE DEF x
<1> QED BY <1>1, <1>3, <1>4, <1>5, <1>6, DocumentStep DEF SetOrderStatus

\* A request that starts, having read what the guards of its handler say.
LEMMA BeginStep ==
  ASSUME IInv, NEW q \in Requests, NEW pc, NEW op, NEW d, NEW w \in Warehouses, NEW amount \in Int,
         NEW read, Begin(q, pc, op, d, w, amount, read),
         LET s == [pc |-> pc, op |-> op, d |-> d, w |-> w, amount |-> amount, read |-> read]
         IN  s \in RequestStates /\ RequestOK(s) /\ Knows(s)
  PROVE  IInv'
<1> DEFINE s == [pc |-> pc, op |-> op, d |-> d, w |-> w, amount |-> amount, read |-> read]
<1>1. s \in RequestStates /\ RequestOK(s) /\ Knows(s) /\ request' = [request EXCEPT ![q] = s]
  BY DEF Begin
<1>2. UNCHANGED <<onHand, reserved, doc, other>> /\ serial' \in BOOLEAN
  BY DEF Begin, IInv, TypeOK, Quiescent, At
<1> HIDE DEF s
<1> QED BY <1>1, <1>2, RequestStep DEF IInv, TypeOK

LEMMA StartStep ==
  ASSUME IInv, NEW q \in Requests, NEW w \in Warehouses
  PROVE  /\ \A n \in Signed : Move(q, w, n) => IInv'
         /\ \A n \in Quantities : ReserveStock(q, w, n) => IInv'
         /\ CreateStockCount(q, w) => IInv'
<1> USE DEF RequestStates, RequestOK, Knows, KindOf
<1>1. ASSUME NEW n \in Signed, Move(q, w, n) PROVE IInv'
  <2>1. n \in Int
    BY StockAssumption DEF Signed
  <2> QED BY <1>1, <2>1, BeginStep DEF Move
<1>2. ASSUME NEW n \in Quantities, ReserveStock(q, w, n) PROVE IInv'
  <2>1. n \in Int
    BY StockAssumption
  <2> QED BY <1>2, <2>1, BeginStep DEF ReserveStock
<1>3. ASSUME CreateStockCount(q, w) PROVE IInv'
  <2>1. PICK n : n = onHand[w]
    OBVIOUS
  <2>2. n \in Int
    BY <2>1 DEF IInv, TypeOK
  <2> QED BY <1>3, <2>1, <2>2, BeginStep DEF CreateStockCount
<1> QED BY <1>1, <1>2, <1>3

LEMMA StartDocumentStep ==
  ASSUME IInv, NEW q \in Requests, NEW d \in Documents
  PROVE  /\ ShipTransfer(q, d) \/ ReceiveTransfer(q, d) \/ ApproveAdjustment(q, d) => IInv'
         /\ ReleaseReservation(q, d) => IInv'
         /\ \A n \in Counts : SubmitCountLine(q, d, n) => IInv'
         /\ ApproveStockCount(q, d) => IInv'
         /\ \A w \in Warehouses : ReceivePurchaseOrder(q, d, w) => IInv'
<1>1. PICK x : x = doc[d]
  OBVIOUS
<1>2. /\ x \in DocumentRows /\ DocumentOK(x) /\ Moved(x)
      /\ x.amount \in Int /\ -x.amount \in Int
      /\ x.counted \in Counts \cup {Nothing}
  BY <1>1 DEF IInv, TypeOK, DocumentsMoved, DocumentRows
<1> USE DEF RequestStates, RequestOK, Knows, KindOf, Is
<1>3. ASSUME ShipTransfer(q, d) PROVE IInv'
  BY <1>1, <1>2, <1>3, BeginStep DEF ShipTransfer, DocumentOK
<1>4. ASSUME ReceiveTransfer(q, d) PROVE IInv'
  BY <1>1, <1>2, <1>4, BeginStep DEF ReceiveTransfer, DocumentOK, Moved
<1>5. ASSUME ApproveAdjustment(q, d) PROVE IInv'
  BY <1>1, <1>2, <1>5, BeginStep DEF ApproveAdjustment, DocumentOK
<1>6. ASSUME ReleaseReservation(q, d) PROVE IInv'
  BY <1>1, <1>2, <1>6, BeginStep DEF ReleaseReservation, DocumentOK
<1>7. ASSUME NEW n \in Counts, SubmitCountLine(q, d, n) PROVE IInv'
  BY <1>1, <1>2, <1>7, BeginStep, StockAssumption DEF SubmitCountLine, DocumentOK
<1>8. ASSUME ApproveStockCount(q, d) PROVE IInv'
  <2>1. Begin(q, "approving", "approve", d, x.place, x.amount, x.counted) /\ x.kind = "count"
    BY <1>1, <1>8 DEF ApproveStockCount
  <2>2. x.place \in Warehouses /\ x.counted \in Int \cup {Nothing}
    <3>1. x.place \in Warehouses
      BY <1>2, <2>1 DEF DocumentOK
    <3>2. Counts \subseteq Int
      BY StockAssumption
    <3> QED BY <1>2, <3>1, <3>2
  <2>3. LET t == [pc |-> "approving", op |-> "approve", d |-> d, w |-> x.place,
                  amount |-> x.amount, read |-> x.counted]
        IN  t \in RequestStates /\ RequestOK(t) /\ Knows(t)
    BY <1>1, <1>2, <2>1, <2>2
  <2> QED BY <1>2, <2>1, <2>2, <2>3, BeginStep
<1>9. ASSUME NEW w \in Warehouses, ReceivePurchaseOrder(q, d, w) PROVE IInv'
  BY <1>1, <1>2, <1>9, BeginStep DEF ReceivePurchaseOrder, DocumentOK
<1> QED BY <1>3, <1>4, <1>5, <1>6, <1>7, <1>8, <1>9

LEMMA ReturnStep ==
  ASSUME IInv, NEW q \in Requests, Return(q), UNCHANGED <<onHand, reserved, doc, other>>,
         serial' \in BOOLEAN
  PROVE  IInv'
<1>1. Knows(Idle)
  BY DEF Knows, Idle, KindOf
<1> QED BY <1>1, IdleType, RequestStep DEF Return, IInv, TypeOK

LEMMA ReadBalanceStep ==
  ASSUME IInv, NEW q \in Requests, ReadBalance(q)
  PROVE  IInv'
<1>1. PICK old : old = request[q]
  OBVIOUS
<1>2. old \in RequestStates /\ RequestOK(old) /\ Knows(old) /\ old.pc = "moving"
  BY <1>1 DEF ReadBalance, At, IInv, TypeOK
<1>3. PICK next : next = IF old.op = "release" THEN Max({0, reserved[old.w] - old.amount})
                         ELSE onHand[old.w] + old.amount
  OBVIOUS
<1>4. next \in Nat
  <2>1. old.w \in Warehouses /\ old.amount \in Int
    BY <1>2 DEF RequestOK, RequestStates
  <2>2. onHand[old.w] \in Int /\ reserved[old.w] \in Nat
    BY <2>1 DEF IInv, TypeOK
  <2>3. ASSUME NEW n \in Int PROVE Max({0, n}) \in Nat
    <3>1. \E x \in {0, n} : \A y \in {0, n} : x >= y
      <4>1. CASE n >= 0
        BY <4>1
      <4>2. CASE ~(n >= 0)
        BY <4>2
      <4> QED BY <4>1, <4>2
    <3>2. Max({0, n}) \in {0, n} /\ \A y \in {0, n} : Max({0, n}) >= y
      BY <3>1, Zenon DEF Max
    <3> QED BY <3>2
  <2>4. next >= 0
    <3>1. ReadBalance(q) => LET t == request[q]
                                m == IF t.op = "release" THEN Max({0, reserved[t.w] - t.amount})
                                     ELSE onHand[t.w] + t.amount
                            IN  m >= 0
      BY Zenon DEF ReadBalance
    <3> QED BY <1>1, <1>3, <3>1
  <2>5. CASE old.op = "release"
    <3>1. reserved[old.w] - old.amount \in Int
      BY <2>1, <2>2
    <3> QED BY <1>3, <2>3, <2>5, <3>1
  <2>6. CASE old.op # "release"
    BY <1>3, <2>1, <2>2, <2>4, <2>6
  <2> QED BY <2>5, <2>6
<1>5. PICK s : s = [old EXCEPT !.pc = "open", !.read = next]
  OBVIOUS
<1>6. s \in RequestStates /\ RequestOK(s)
  <2>1. s \in RequestStates
    <3>1. next \in Int \cup {Nothing}
      BY <1>4
    <3> QED BY <1>2, <1>5, <3>1 DEF RequestStates
  <2>2. s.pc = "open" /\ s.read \in Nat /\ s.op = old.op /\ s.d = old.d /\ s.w = old.w
    BY <1>2, <1>4, <1>5 DEF RequestStates
  <2>3. s.op \in {"move", "ship", "receive", "adjust", "release"} /\ s.w \in Warehouses
        /\ (s.op \notin {"none", "move", "reserve", "count"} => s.d \in Documents)
    BY <1>2, <2>2 DEF RequestOK
  <2> QED BY <2>1, <2>2, <2>3 DEF RequestOK
<1>7. Knows(s)
  BY <1>2, <1>5 DEF RequestStates, Knows
<1>8. request' = [request EXCEPT ![q] = s]
  <2>1. request' = [request EXCEPT ![q].pc = "open", ![q].read = next]
    BY <1>1, <1>3 DEF ReadBalance
  <2> QED BY <1>1, <1>5, <2>1 DEF IInv, TypeOK
<1> QED BY <1>6, <1>7, <1>8, RequestStep DEF ReadBalance, IInv, TypeOK

\* other keeps its type, whatever is accounted.
LEMMA AccountType ==
  ASSUME TypeOK, NEW w \in Warehouses, NEW n \in Int, NEW b, Account(w, n, b)
  PROVE  other' \in [Warehouses -> Int]
<1>1. other[w] + n \in Int
  BY DEF TypeOK
<1> QED BY <1>1 DEF Account, TypeOK

LEMMA WriteBalanceStep ==
  ASSUME IInv, NEW q \in Requests, WriteBalance(q)
  PROVE  IInv'
<1>1. PICK old : old = request[q]
  OBVIOUS
<1>2. old \in RequestStates /\ RequestOK(old) /\ Knows(old) /\ old.pc = "open"
  BY <1>1 DEF WriteBalance, At, IInv, TypeOK
<1>3. old.w \in Warehouses /\ old.read \in Nat /\ old.amount \in Int
      /\ old.op \in {"move", "ship", "receive", "adjust", "release"}
      /\ (old.op # "move" => old.d \in Documents)
  BY <1>2 DEF RequestOK, RequestStates
<1>4. onHand' \in [Warehouses -> Int] /\ reserved' \in [Warehouses -> Nat]
  BY <1>1, <1>3 DEF WriteBalance, IInv, TypeOK
<1>5. serial' \in BOOLEAN
  BY DEF WriteBalance, IInv, TypeOK
<1>6. CASE old.op = "move"
  <2>1. Return(q) /\ Account(old.w, old.amount, serial) /\ UNCHANGED doc
    BY <1>1, <1>6 DEF WriteBalance
  <2>2. other' \in [Warehouses -> Int]
    BY <1>3, <2>1, AccountType DEF IInv
  <2>3. Knows(Idle)
    BY DEF Knows, Idle, KindOf
  <2> QED BY <1>4, <1>5, <2>1, <2>2, <2>3, IdleType, RequestStep DEF Return
<1>7. CASE old.op # "move"
  <2>1. PICK d : d = old.d
    OBVIOUS
  <2>2. PICK y : y = doc[d]
    OBVIOUS
  <2>3. d \in Documents /\ y \in DocumentRows /\ DocumentOK(y) /\ Moved(y)
        /\ y.kind = KindOf[old.op] /\ (old.op = "receive" => "out" \in y.moved)
    <3>1. old.op \in DOMAIN KindOf
      BY <1>3, <1>7 DEF KindOf
    <3> QED BY <1>2, <1>3, <1>7, <2>1, <2>2, <3>1 DEF IInv, TypeOK, DocumentsMoved, Knows
  <2>4. PICK m : m = CASE old.op = "ship" -> y.moved \cup {"out"}
                       [] old.op \in {"receive", "adjust"} -> y.moved \cup {"in"}
                       [] old.op = "release" -> y.moved
    OBVIOUS
  <2>5. m \in SUBSET {"out", "in"} /\ y.moved \subseteq m
        /\ (old.op = "ship" => "out" \in m) /\ (old.op \in {"receive", "adjust"} => "in" \in m)
    <3>1. y.moved \in SUBSET {"out", "in"}
      BY <2>3 DEF DocumentRows
    <3> QED BY <1>3, <1>7, <2>4, <3>1
  <2>6. PICK x : x = [y EXCEPT !.moved = m]
    OBVIOUS
  <2>7. x \in DocumentRows /\ x.kind = y.kind /\ x.status = y.status /\ x.place = y.place
        /\ x.to = y.to /\ x.amount = y.amount /\ x.moved = m
    BY <2>3, <2>5, <2>6 DEF DocumentRows
  <2>8. DocumentOK(x)
    BY <1>3, <1>7, <2>3, <2>7 DEF DocumentOK, KindOf
  <2>9. Moved(x)
    <3>1. "in" \in m => "in" \in y.moved \/ old.op \in {"receive", "adjust"}
      BY <1>3, <1>7, <2>4
    <3>2. CASE old.op = "adjust"
      BY <2>3, <2>5, <2>7, <3>2 DEF Moved, KindOf
    <3>3. CASE old.op # "adjust"
      BY <1>3, <2>3, <2>5, <2>7, <3>1, <3>3 DEF Moved
    <3> QED BY <3>2, <3>3
  <2>10. PICK s : s = [old EXCEPT !.pc = "moved", !.read = 0]
    OBVIOUS
  <2>11. s \in RequestStates /\ s.pc = "moved" /\ s.op = old.op /\ s.d = d /\ s.w = old.w
    <3>1. 0 \in Int \cup {Nothing}
      OBVIOUS
    <3> QED BY <1>2, <2>1, <2>10, <3>1 DEF RequestStates
  <2>12. RequestOK(s)
    BY <1>3, <1>7, <2>1, <2>11 DEF RequestOK
  <2>13. doc' = [doc EXCEPT ![d] = x] /\ UNCHANGED other
    <3>1. doc' = [doc EXCEPT ![d].moved = m] /\ UNCHANGED other
      BY <1>1, <1>7, <2>1, <2>2, <2>4 DEF WriteBalance
    <3> QED BY <2>2, <2>6, <3>1 DEF IInv, TypeOK
  <2>14. request' = [request EXCEPT ![q] = s]
    <3>1. request' = [request EXCEPT ![q].pc = "moved", ![q].read = 0]
      BY <1>1, <1>7 DEF WriteBalance
    <3> QED BY <1>1, <2>10, <3>1 DEF IInv, TypeOK
  <2>15. doc'[d] = x
    BY <2>3, <2>13 DEF IInv, TypeOK
  <2>16. Knows(s)'
    BY <2>3, <2>5, <2>7, <2>11, <2>15 DEF Knows
  <2>17. x.kind # "count"
    BY <1>3, <1>7, <2>3, <2>7 DEF KindOf
  <2> QED BY <1>4, <1>5, <2>2, <2>3, <2>5, <2>7, <2>8, <2>9, <2>11, <2>12, <2>13, <2>14, <2>16, <2>17,
             RowStep DEF IInv, TypeOK
<1> QED BY <1>6, <1>7

LEMMA SetStatusStep ==
  ASSUME IInv, NEW q \in Requests, SetStatus(q)
  PROVE  IInv'
<1>1. PICK old : old = request[q]
  OBVIOUS
<1>2. old \in RequestStates /\ RequestOK(old) /\ Knows(old) /\ old.pc = "moved"
  BY <1>1 DEF SetStatus, At, IInv, TypeOK
<1>3. old.op \in {"ship", "receive", "adjust", "release"} /\ old.d \in Documents
  BY <1>2 DEF RequestOK
<1>4. PICK d : d = old.d
  OBVIOUS
<1>5. PICK y : y = doc[d]
  OBVIOUS
<1>6. d \in Documents /\ y \in DocumentRows /\ DocumentOK(y) /\ Moved(y) /\ y.kind = KindOf[old.op]
      /\ (old.op \in {"ship", "receive"} => "out" \in y.moved)
      /\ (old.op \in {"receive", "adjust"} => "in" \in y.moved)
  <2>1. old.op \in DOMAIN KindOf
    BY <1>3 DEF KindOf
  <2> QED BY <1>2, <1>3, <1>4, <1>5, <2>1 DEF IInv, TypeOK, DocumentsMoved, Knows
<1>7. PICK status : status = CASE old.op = "ship" -> "IN_TRANSIT" [] old.op = "receive" -> "RECEIVED"
                               [] old.op = "adjust" -> "APPROVED" [] old.op = "release" -> "RELEASED"
  OBVIOUS
<1>8. PICK x : x = [y EXCEPT !.status = status]
  OBVIOUS
<1>9. x \in DocumentRows /\ x.kind = y.kind /\ x.status = status /\ x.place = y.place /\ x.to = y.to
      /\ x.amount = y.amount /\ x.moved = y.moved
  <2>1. status \in UNION {StatusesOf[k] : k \in DOMAIN StatusesOf}
    <3>1. status \in StatusesOf[KindOf[old.op]] /\ KindOf[old.op] \in DOMAIN StatusesOf
      BY <1>3, <1>7 DEF StatusesOf, KindOf
    <3> QED BY <3>1
  <2> QED BY <1>6, <1>8, <2>1 DEF DocumentRows
<1>10. DocumentOK(x) /\ Moved(x) /\ x.kind # "count"
  BY <1>3, <1>6, <1>7, <1>9 DEF DocumentOK, Moved, StatusesOf, KindOf
<1>11. doc' = [doc EXCEPT ![d] = x]
  <2>1. doc' = [doc EXCEPT ![d].status = status]
    BY <1>1, <1>4, <1>7 DEF SetStatus
  <2> QED BY <1>5, <1>8, <2>1 DEF IInv, TypeOK
<1>12. Knows(Idle)'
  BY DEF Knows, Idle, KindOf
<1> QED BY <1>5, <1>6, <1>9, <1>10, <1>11, <1>12, IdleType, RowStep DEF SetStatus, Return, IInv, TypeOK

LEMMA CreateReservationStep ==
  ASSUME IInv, NEW q \in Requests, NEW d \in Documents, CreateReservation(q, d)
  PROVE  IInv'
<1>1. PICK old : old = request[q]
  OBVIOUS
<1>2. old \in RequestStates /\ RequestOK(old) /\ Knows(old) /\ old.pc = "reserving"
  BY <1>1 DEF CreateReservation, At, IInv, TypeOK
<1>3. old.w \in Warehouses /\ old.amount \in Quantities /\ old.amount \in Int
  <2>1. Quantities \subseteq Int
    BY StockAssumption
  <2> QED BY <1>2, <2>1 DEF RequestOK
<1>4. PICK x : /\ x = [kind |-> "reservation", status |-> "ACTIVE", place |-> old.w, to |-> Nothing,
                       amount |-> old.amount, counted |-> Nothing, moved |-> {}]
               /\ doc' = [doc EXCEPT ![d] = x]
  <2>1. PICK w, n : w = old.w /\ n = old.amount
    OBVIOUS
  <2>2. PICK x : x = [NoDocument EXCEPT !.kind = "reservation", !.status = "ACTIVE",
                                        !.place = w, !.amount = n]
    OBVIOUS
  <2>3. x = [kind |-> "reservation", status |-> "ACTIVE", place |-> w, to |-> Nothing,
             amount |-> n, counted |-> Nothing, moved |-> {}]
    BY <2>2 DEF NoDocument
  <2>4. doc' = [doc EXCEPT ![d] = x]
    BY <1>1, <2>1, <2>2, Zenon DEF CreateReservation
  <2> QED BY <2>1, <2>3, <2>4
<1>5. x \in DocumentRows /\ x.kind = "reservation"
  BY <1>3, <1>4, RowType DEF StatusesOf
<1>6. DocumentOK(x) /\ Moved(x)
  BY <1>3, <1>4 DEF DocumentOK, Moved, StatusesOf
<1>7. doc' = [doc EXCEPT ![d] = x]
  BY <1>4
<1>8. doc[d].kind = "none" /\ doc[d].moved = {}
  BY DEF CreateReservation, IInv, TypeOK, DocumentOK
<1>9. PICK s : s = [old EXCEPT !.pc = "reserved"]
  OBVIOUS
<1>10. s \in RequestStates /\ s.pc = "reserved" /\ s.op = old.op /\ s.d = old.d /\ s.w = old.w
       /\ s.amount = old.amount
  BY <1>2, <1>9 DEF RequestStates
<1>11. RequestOK(s)
  BY <1>2, <1>10 DEF RequestOK
<1>12. request' = [request EXCEPT ![q] = s]
  BY <1>1, <1>9 DEF CreateReservation, IInv, TypeOK
<1>13. Knows(s)'
  <2>1. \A e \in Documents : /\ doc[e].kind # "none" => doc'[e].kind = doc[e].kind
                             /\ doc[e].moved \subseteq doc'[e].moved
    BY <1>4, <1>7, <1>8 DEF IInv, TypeOK
  <2>2. old.op \in DOMAIN KindOf => old.d \in Documents /\ KindOf[old.op] # "none"
    BY <1>2 DEF RequestOK, KindOf
  <2>3. old.op = "receive" => old.op \in DOMAIN KindOf
    BY DEF KindOf
  <2> QED BY <1>2, <1>10, <2>1, <2>2, <2>3 DEF Knows
<1> QED BY <1>4, <1>5, <1>6, <1>7, <1>8, <1>10, <1>11, <1>12, <1>13, RowStep
        DEF CreateReservation, IInv, TypeOK

LEMMA IncrementReservedStep ==
  ASSUME IInv, NEW q \in Requests, IncrementReserved(q)
  PROVE  IInv'
<1>1. request[q].w \in Warehouses /\ request[q].amount \in Nat
  BY StockAssumption DEF IncrementReserved, At, IInv, TypeOK, RequestOK
<1>2. reserved' \in [Warehouses -> Nat]
  BY <1>1 DEF IncrementReserved, IInv, TypeOK
<1>3. Knows(Idle)
  BY DEF Knows, Idle, KindOf
<1> QED BY <1>2, <1>3, IdleType, RequestStep DEF IncrementReserved, Return, IInv, TypeOK

LEMMA InsertCountStep ==
  ASSUME IInv, NEW q \in Requests, NEW d \in Documents, InsertCount(q, d)
  PROVE  IInv'
<1>1. PICK old : old = request[q]
  OBVIOUS
<1>2. old.w \in Warehouses /\ old.read \in Int
  BY <1>1 DEF InsertCount, At, IInv, TypeOK, RequestOK
<1>3. PICK x : /\ x = [kind |-> "count", status |-> "IN_PROGRESS", place |-> old.w, to |-> Nothing,
                       amount |-> old.read, counted |-> Nothing, moved |-> {}]
               /\ doc' = [doc EXCEPT ![d] = x]
  <2>1. PICK w, n : w = old.w /\ n = old.read
    OBVIOUS
  <2>2. PICK x : x = [NoDocument EXCEPT !.kind = "count", !.status = "IN_PROGRESS",
                                        !.place = w, !.amount = n]
    OBVIOUS
  <2>3. x = [kind |-> "count", status |-> "IN_PROGRESS", place |-> w, to |-> Nothing,
             amount |-> n, counted |-> Nothing, moved |-> {}]
    BY <2>2 DEF NoDocument
  <2>4. doc' = [doc EXCEPT ![d] = x]
    BY <1>1, <2>1, <2>2, Zenon DEF InsertCount
  <2> QED BY <2>1, <2>3, <2>4
<1>4. x \in DocumentRows
  BY <1>2, <1>3, RowType DEF StatusesOf
<1>5. DocumentOK(x) /\ Moved(x)
  BY <1>2, <1>3 DEF DocumentOK, Moved, StatusesOf
<1>6. doc' = [doc EXCEPT ![d] = x]
  BY <1>3
<1>7. doc[d].kind = "none" /\ doc[d].moved = {} /\ ~\E e \in Documents : OpenCount(e, x.place)
  BY <1>1, <1>3 DEF InsertCount, IInv, TypeOK, DocumentOK
<1>8. Knows(Idle)'
  BY DEF Knows, Idle, KindOf
<1> QED BY <1>3, <1>4, <1>5, <1>6, <1>7, <1>8, IdleType, RowStep
        DEF InsertCount, Return, IInv, TypeOK

\* What a request knows of the document it works on, when that is a count or an order.
LEMMA KnownKind ==
  ASSUME IInv, NEW q \in Requests, request[q].pc \in {"submitting", "approving", "posting"}
  PROVE  /\ request[q].d \in Documents /\ request[q].w \in Warehouses
         /\ doc[request[q].d].kind = IF request[q].pc = "posting" THEN "order" ELSE "count"
<1>1. PICK old : old = request[q]
  OBVIOUS
<1>2. RequestOK(old) /\ Knows(old) /\ old.pc \in {"submitting", "approving", "posting"}
  BY <1>1 DEF IInv, TypeOK
<1>3. old.op = CASE old.pc = "submitting" -> "submit" [] old.pc = "approving" -> "approve"
                 [] old.pc = "posting" -> "post"
  BY <1>2 DEF RequestOK
<1>4. old.op \in DOMAIN KindOf /\ KindOf[old.op] = IF old.pc = "posting" THEN "order" ELSE "count"
  BY <1>2, <1>3 DEF KindOf
<1> QED BY <1>1, <1>2, <1>3, <1>4 DEF RequestOK, Knows

LEMMA WriteCountLineStep ==
  ASSUME IInv, NEW q \in Requests, WriteCountLine(q)
  PROVE  IInv'
<1>1. PICK d : d = request[q].d
  OBVIOUS
<1>2. d \in Documents /\ doc[d].kind = "count" /\ request[q].amount \in Counts
  BY <1>1, KnownKind DEF WriteCountLine, At, IInv, TypeOK, RequestOK
<1>3. PICK y : y = doc[d]
  OBVIOUS
<1>4. PICK x : x = [y EXCEPT !.counted = request[q].amount]
  OBVIOUS
<1>5. y \in DocumentRows /\ DocumentOK(y) /\ Moved(y) /\ y.kind = "count"
  BY <1>2, <1>3 DEF IInv, TypeOK, DocumentsMoved
<1>6. x \in DocumentRows /\ x.kind = y.kind /\ x.status = y.status /\ x.place = y.place /\ x.to = y.to
      /\ x.amount = y.amount /\ x.moved = y.moved
  BY <1>2, <1>4, <1>5 DEF DocumentRows
<1>7. DocumentOK(x) /\ Moved(x)
  BY <1>5, <1>6 DEF DocumentOK, Moved
<1>8. doc' = [doc EXCEPT ![d] = x]
  BY <1>1, <1>3, <1>4 DEF WriteCountLine, IInv, TypeOK
<1>9. Knows(Idle)'
  BY DEF Knows, Idle, KindOf
<1>10. x.status = "IN_PROGRESS" => OpenCount(d, x.place)
  BY <1>3, <1>5, <1>6 DEF OpenCount, Is
<1> QED BY <1>2, <1>3, <1>6, <1>7, <1>8, <1>9, <1>10, IdleType, RowStep
        DEF WriteCountLine, Return, IInv, TypeOK

\* A count or an order reaches a status of its kind that no longer counts as open.
LEMMA CloseStep ==
  ASSUME IInv, NEW q \in Requests, NEW d \in Documents, NEW status \in StatusesOf[doc[d].kind],
         doc[d].kind \in {"count", "order"}, status # "IN_PROGRESS",
         doc' = [doc EXCEPT ![d].status = status], Return(q),
         onHand' \in [Warehouses -> Int], other' \in [Warehouses -> Int], serial' \in BOOLEAN,
         UNCHANGED reserved
  PROVE  IInv'
<1>1. PICK y : y = doc[d]
  OBVIOUS
<1>2. PICK t : t = status
  OBVIOUS
<1>3. PICK x : x = [y EXCEPT !.status = t]
  OBVIOUS
<1>4. y \in DocumentRows /\ DocumentOK(y) /\ Moved(y) /\ y.kind \in {"count", "order"}
      /\ t \in StatusesOf[y.kind] /\ t # "IN_PROGRESS"
  BY <1>1, <1>2 DEF IInv, TypeOK, DocumentsMoved
<1>5. x \in DocumentRows /\ x.kind = y.kind /\ x.status = t /\ x.place = y.place /\ x.to = y.to
      /\ x.amount = y.amount /\ x.moved = y.moved
  <2>1. t \in UNION {StatusesOf[k] : k \in DOMAIN StatusesOf}
    <3>1. y.kind \in DOMAIN StatusesOf
      BY <1>4 DEF StatusesOf
    <3> QED BY <1>4, <3>1
  <2> QED BY <1>3, <1>4, <2>1 DEF DocumentRows
<1>6. DocumentOK(x) /\ Moved(x)
  BY <1>4, <1>5 DEF DocumentOK, Moved
<1>7. doc' = [doc EXCEPT ![d] = x]
  BY <1>1, <1>2, <1>3 DEF IInv, TypeOK
<1>8. Knows(Idle)'
  BY DEF Knows, Idle, KindOf
<1> QED BY <1>1, <1>4, <1>5, <1>6, <1>7, <1>8, IdleType, RowStep DEF Return, IInv, TypeOK

LEMMA PostCountStep ==
  ASSUME IInv, NEW q \in Requests, PostCount(q)
  PROVE  IInv'
<1>1. PICK s : s = request[q]
  OBVIOUS
<1>2. s.d \in Documents /\ s.w \in Warehouses /\ doc[s.d].kind = "count"
      /\ s.read \in Counts \cup {Nothing} /\ s.amount \in Int
  BY <1>1, KnownKind DEF PostCount, At, IInv, TypeOK, RequestOK, RequestStates
<1>3. onHand' \in [Warehouses -> Int] /\ other' \in [Warehouses -> Int] /\ serial' \in BOOLEAN
  <2>1. CASE s.read # Nothing /\ s.read # s.amount
    <3>1. s.read \in Int /\ s.read - s.amount \in Int
      <4>1. Counts \subseteq Int
        BY StockAssumption
      <4>2. s.read \in Int
        BY <1>2, <2>1, <4>1
      <4> QED BY <1>2, <4>2
    <3>2. onHand' = [onHand EXCEPT ![s.w] = s.read]
          /\ serial' = (serial /\ onHand[s.w] = s.amount)
          /\ Account(s.w, s.read - s.amount, serial')
      BY <1>1, <2>1 DEF PostCount
    <3>3. other' \in [Warehouses -> Int]
      BY <1>2, <3>1, <3>2, AccountType DEF IInv
    <3> QED BY <1>2, <3>1, <3>2, <3>3 DEF IInv, TypeOK
  <2>2. CASE ~(s.read # Nothing /\ s.read # s.amount)
    BY <1>1, <2>2 DEF PostCount, IInv, TypeOK
  <2> QED BY <2>1, <2>2
<1>4. doc' = [doc EXCEPT ![s.d].status = "APPROVED"] /\ Return(q) /\ UNCHANGED reserved
  BY <1>1 DEF PostCount
<1>5. "APPROVED" \in StatusesOf[doc[s.d].kind]
  BY <1>2 DEF StatusesOf
<1>6. PICK d : d = s.d
  OBVIOUS
<1> QED BY <1>2, <1>3, <1>4, <1>5, <1>6, CloseStep

LEMMA PostReceiptStep ==
  ASSUME IInv, NEW q \in Requests, PostReceipt(q)
  PROVE  IInv'
<1>1. PICK s : s = request[q]
  OBVIOUS
<1>2. s.d \in Documents /\ s.w \in Warehouses /\ doc[s.d].kind = "order"
      /\ s.amount \in Nat /\ s.amount \in Int
  BY <1>1, KnownKind, StockAssumption DEF PostReceipt, At, IInv, TypeOK, RequestOK
<1>3. onHand' \in [Warehouses -> Int] /\ serial' \in BOOLEAN
  BY <1>1, <1>2 DEF PostReceipt, IInv, TypeOK
<1>4. other' \in [Warehouses -> Int]
  BY <1>1, <1>2, AccountType DEF PostReceipt, IInv
<1>5. doc' = [doc EXCEPT ![s.d].status = "RECEIVED"] /\ Return(q) /\ UNCHANGED reserved
  BY <1>1 DEF PostReceipt
<1>6. "RECEIVED" \in StatusesOf[doc[s.d].kind]
  BY <1>2 DEF StatusesOf
<1>7. PICK d : d = s.d
  OBVIOUS
<1> QED BY <1>2, <1>3, <1>4, <1>5, <1>6, <1>7, CloseStep

LEMMA HandleStep ==
  ASSUME IInv, NEW q \in Requests, Handle(q)
  PROVE  IInv'
<1>1. ASSUME NEW w \in Warehouses,
             \/ \E n \in Signed : Move(q, w, n)
             \/ \E n \in Quantities : ReserveStock(q, w, n)
             \/ CreateStockCount(q, w)
      PROVE  IInv'
  BY <1>1, StartStep
<1>2. ASSUME NEW d \in Documents,
             \/ ShipTransfer(q, d) \/ ReceiveTransfer(q, d) \/ ApproveAdjustment(q, d)
             \/ ReleaseReservation(q, d) \/ ApproveStockCount(q, d)
             \/ \E n \in Counts : SubmitCountLine(q, d, n)
             \/ \E w \in Warehouses : ReceivePurchaseOrder(q, d, w)
      PROVE  IInv'
  BY <1>2, StartDocumentStep
<1>3. ASSUME NEW d \in Documents, CreateReservation(q, d) \/ InsertCount(q, d)
      PROVE  IInv'
  BY <1>3, CreateReservationStep, InsertCountStep
<1>4. ASSUME InsufficientStock(q) \/ Fail(q) PROVE IInv'
  <2>1. serial' \in BOOLEAN
    BY <1>4 DEF InsufficientStock, Fail, IInv, TypeOK, At
  <2> QED BY <1>4, <2>1, ReturnStep DEF InsufficientStock, Fail
<1> QED BY <1>1, <1>2, <1>3, <1>4, ReadBalanceStep, WriteBalanceStep, SetStatusStep,
           IncrementReservedStep, WriteCountLineStep, PostCountStep, PostReceiptStep DEF Handle

LEMMA Inductive == IInv /\ [Next]_vars => IInv'
<1> SUFFICES ASSUME IInv, [Next]_vars PROVE IInv'
  OBVIOUS
<1>1. CASE \E d \in Documents, status \in StatusesOf.order : SetOrderStatus(d, status)
  BY <1>1, OrderStatusStep
<1>2. CASE \E q \in Requests : Handle(q)
  BY <1>2, HandleStep
<1>3. CASE UNCHANGED vars
  BY <1>3 DEF vars, IInv, TypeOK, OneOpenCount, OpenCount, Is, DocumentsMoved, Knows
<1> QED BY <1>1, <1>2, <1>3, CreateStep DEF Next

\* The inductive invariant holds throughout.
THEOREM Invariance == Spec => []IInv
BY Initially, Inductive, PTL DEF Spec

(***************************************************************************)
(* No reserved quantity is ever negative, nor what a movement is about to  *)
(* write: createMovement writes the sum it has checked, releasing stops at *)
(* zero.  A balance is an integer: Overdrawn says what takes it below.     *)
(***************************************************************************)
THEOREM TypeInvariant == Spec => []TypeOK
<1>1. IInv => TypeOK
  BY DEF IInv
<1> QED BY <1>1, Invariance, PTL

\* A warehouse has at most one count in progress, however many are requested.
THEOREM SingleCount == Spec => []OneOpenCount
<1>1. IInv => OneOpenCount
  BY DEF IInv
<1> QED BY <1>1, Invariance, PTL

\* A transfer or an adjustment never claims a movement that was not made.
THEOREM Movements == Spec => []DocumentsMoved
<1>1. IInv => DocumentsMoved
  BY DEF IInv
<1> QED BY <1>1, Invariance, PTL
-----------------------------------------------------------------------------
(* Sums over a finite set, by induction over its subsets. *)

Pick(s) == CHOOSE x \in s : TRUE

\* g sums f over the subsets of S, the way MapThenSumSet does.
Sums(g, f, S) ==
  g = [s \in SUBSET S |-> IF s = {} THEN 0 ELSE f[Pick(s)] + g[s \ {Pick(s)}]]

\* MapThenSumSet chooses such a g.
LEMMA SumIs == ASSUME NEW f, NEW S  PROVE SumOver(f, S) = (CHOOSE g : Sums(g, f, S))[S]
BY DEF SumOver, MapThenSumSet, MapThenFoldSet, Sums, Pick

\* Induction over the subsets of a finite set: a set of them has a minimal member.
LEMMA SmallestSubset ==
  ASSUME NEW S, IsFiniteSet(S), NEW T \in SUBSET SUBSET S, T # {}
  PROVE  \E m \in T : \A s \in T : s \subseteq m => s = m
<1>1. FiniteSubsetsOf(S) = SUBSET S
  BY FS_FiniteSubsetsOfFinite
<1>2. IsWellFoundedOn(StrictSubsetOrdering(S), SUBSET S)
  BY <1>1, FS_StrictSubsetOrderingWellFounded
<1>3. \E m \in T : \A s \in T : ~(<<s, m>> \in StrictSubsetOrdering(S))
  BY <1>2, WFMin
<1>4. PICK m \in T : \A s \in T : ~(<<s, m>> \in StrictSubsetOrdering(S))
  BY <1>3
<1>5. \A s \in T : s \subseteq m => s = m
  <2> SUFFICES ASSUME NEW s \in T, s \subseteq m, s # m PROVE FALSE
    OBVIOUS
  <2>1. <<s, m>> \in (SUBSET S) \X (SUBSET S)
    OBVIOUS
  <2>2. <<s, m>> \in StrictSubsetOrdering(S)
    BY <2>1 DEF StrictSubsetOrdering
  <2> QED BY <1>4, <2>2
<1> QED BY <1>5

LEMMA PickIn == ASSUME NEW s, s # {}  PROVE Pick(s) \in s
BY DEF Pick

\* Two of them agree on the subsets on which the functions do.
LEMMA SumsAgree ==
  ASSUME NEW S, IsFiniteSet(S), NEW T \in SUBSET S, NEW U \in SUBSET S,
         NEW f, NEW h, NEW a, NEW b, Sums(a, f, T), Sums(b, h, U)
  PROVE  \A s \in SUBSET T : s \in SUBSET U /\ (\A x \in s : f[x] = h[x]) => a[s] = b[s]
<1> SUFFICES ASSUME NEW s \in SUBSET T, s \in SUBSET U, \A x \in s : f[x] = h[x]
             PROVE  a[s] = b[s]
  OBVIOUS
<1> DEFINE Bad == {t \in SUBSET s : a[t] # b[t]}
<1> SUFFICES ASSUME Bad # {} PROVE FALSE
  OBVIOUS
<1>1. PICK m \in Bad : \A t \in Bad : t \subseteq m => t = m
  <2>1. Bad \in SUBSET SUBSET S
    OBVIOUS
  <2> HIDE DEF Bad
  <2> QED BY <2>1, SmallestSubset
<1>2. m \in SUBSET s /\ m \in SUBSET T /\ m \in SUBSET U /\ a[m] # b[m]
  OBVIOUS
<1>3. /\ a[m] = IF m = {} THEN 0 ELSE f[Pick(m)] + a[m \ {Pick(m)}]
      /\ b[m] = IF m = {} THEN 0 ELSE h[Pick(m)] + b[m \ {Pick(m)}]
  BY <1>2 DEF Sums
<1>4. m # {} /\ Pick(m) \in m
  BY <1>2, <1>3, PickIn
<1>5. a[m \ {Pick(m)}] = b[m \ {Pick(m)}]
  BY <1>1, <1>2, <1>4
<1> QED BY <1>2, <1>3, <1>4, <1>5

\* The sums over the subsets of T contain the sums over those of U.
LEMMA SumsSame ==
  ASSUME NEW S, IsFiniteSet(S), NEW T \in SUBSET S, NEW U \in SUBSET T,
         NEW f, NEW a, NEW b, Sums(a, f, T), Sums(b, f, U)
  PROVE  a[U] = b[U]
<1>1. U \in SUBSET S /\ U \in SUBSET U
  OBVIOUS
<1>2. PICK h : h = f
  OBVIOUS
<1>3. Sums(b, h, U) /\ \A x \in U : f[x] = h[x]
  BY <1>2
<1>4. \A s \in SUBSET T : s \in SUBSET U /\ (\A x \in s : f[x] = h[x]) => a[s] = b[s]
  BY <1>1, <1>3, SumsAgree
<1> QED BY <1>1, <1>3, <1>4

\* The sums over the subsets of a finite set exist.
LEMMA SumsExist ==
  ASSUME NEW S, IsFiniteSet(S), NEW f  PROVE \A T \in SUBSET S : \E g : Sums(g, f, T)
<1> DEFINE Bad == {T \in SUBSET S : ~\E g : Sums(g, f, T)}
<1> SUFFICES ASSUME Bad # {} PROVE FALSE
  OBVIOUS
<1>1. PICK m \in Bad : \A t \in Bad : t \subseteq m => t = m
  <2>1. Bad \in SUBSET SUBSET S
    OBVIOUS
  <2> HIDE DEF Bad
  <2> QED BY <2>1, SmallestSubset
<1>2. m \in SUBSET S /\ ~\E g : Sums(g, f, m)
  OBVIOUS
<1> DEFINE G(t) == CHOOSE g : Sums(g, f, t)
<1>3. \A t \in SUBSET m : t # m => Sums(G(t), f, t)
  <2> SUFFICES ASSUME NEW t \in SUBSET m, t # m PROVE Sums(G(t), f, t)
    OBVIOUS
  <2>1. t \notin Bad /\ t \in SUBSET S
    BY <1>1, <1>2
  <2>2. \E g : Sums(g, f, t)
    BY <2>1
  <2> QED BY <2>2
<1> HIDE DEF G, Bad
<1> DEFINE below(t) == IF t = {} THEN 0 ELSE f[Pick(t)] + G(t \ {Pick(t)})[t \ {Pick(t)}]
           g == [t \in SUBSET m |-> below(t)]
<1>4. ASSUME NEW t \in SUBSET m, t # {}  PROVE g[t \ {Pick(t)}] = G(t \ {Pick(t)})[t \ {Pick(t)}]
  <2> DEFINE u == t \ {Pick(t)}
  <2>1. Pick(t) \in t /\ u \in SUBSET m /\ u # m
    BY <1>4, PickIn
  <2>2. Sums(G(u), f, u)
    BY <1>3, <2>1
  <2>3. G(u)[u] = IF u = {} THEN 0 ELSE f[Pick(u)] + G(u)[u \ {Pick(u)}]
    BY <2>2 DEF Sums
  <2>4. u # {} => G(u)[u \ {Pick(u)}] = G(u \ {Pick(u)})[u \ {Pick(u)}]
    <3> SUFFICES ASSUME u # {} PROVE G(u)[u \ {Pick(u)}] = G(u \ {Pick(u)})[u \ {Pick(u)}]
      OBVIOUS
    <3> DEFINE w == u \ {Pick(u)}
    <3>1. Pick(u) \in u /\ w \in SUBSET u /\ w \in SUBSET m /\ w # m
      BY <2>1, PickIn
    <3>2. Sums(G(w), f, w)
      BY <1>3, <3>1
    <3>3. u \in SUBSET S /\ w \in SUBSET S /\ w \in SUBSET u
      BY <1>2, <2>1, <3>1
    <3> HIDE DEF u, w
    <3>4. G(u)[w] = G(w)[w]
      BY <2>2, <3>2, <3>3, SumsSame
    <3> QED BY <3>4 DEF w
  <2> QED BY <2>1, <2>3, <2>4
<1>5. g = [t \in SUBSET m |-> IF t = {} THEN 0 ELSE f[Pick(t)] + g[t \ {Pick(t)}]]
  <2> SUFFICES ASSUME NEW t \in SUBSET m
               PROVE  below(t) = IF t = {} THEN 0 ELSE f[Pick(t)] + g[t \ {Pick(t)}]
    OBVIOUS
  <2>1. t # {} => g[t \ {Pick(t)}] = G(t \ {Pick(t)})[t \ {Pick(t)}]
    BY <1>4
  <2> HIDE DEF g
  <2> QED BY <2>1
<1> HIDE DEF g
<1>6. Sums(g, f, m)
  BY <1>5 DEF Sums
<1> QED BY <1>2, <1>6

\* The sum over a set takes what it adds first off the sum over the rest.
LEMMA SumPick ==
  ASSUME NEW S, IsFiniteSet(S), NEW f, NEW T \in SUBSET S
  PROVE  SumOver(f, T) = IF T = {} THEN 0 ELSE f[Pick(T)] + SumOver(f, T \ {Pick(T)})
<1> DEFINE a == CHOOSE g : Sums(g, f, T)
           U == T \ {Pick(T)}
           b == CHOOSE g : Sums(g, f, U)
<1>1. Sums(a, f, T)
  BY SumsExist
<1>2. U \in SUBSET S /\ U \in SUBSET T
  OBVIOUS
<1>3. Sums(b, f, U)
  BY <1>2, SumsExist
<1>4. SumOver(f, T) = a[T] /\ SumOver(f, U) = b[U]
  BY SumIs
<1>5. a[T] = IF T = {} THEN 0 ELSE f[Pick(T)] + a[U]
  BY <1>1 DEF Sums
<1> HIDE DEF a, b, U
<1>6. a[U] = b[U]
  BY <1>1, <1>2, <1>3, SumsSame
<1> QED BY <1>4, <1>5, <1>6 DEF U

\* What integers, or naturals, add up to.
LEMMA SumType ==
  ASSUME NEW S, IsFiniteSet(S), NEW R \in {Int, Nat}, NEW f \in [S -> R]
  PROVE  \A T \in SUBSET S : SumOver(f, T) \in R
<1> DEFINE Bad == {T \in SUBSET S : SumOver(f, T) \notin R}
<1> SUFFICES ASSUME Bad # {} PROVE FALSE
  OBVIOUS
<1>1. PICK m \in Bad : \A t \in Bad : t \subseteq m => t = m
  <2>1. Bad \in SUBSET SUBSET S
    OBVIOUS
  <2> HIDE DEF Bad
  <2> QED BY <2>1, SmallestSubset
<1>2. m \in SUBSET S /\ SumOver(f, m) \notin R
  OBVIOUS
<1>3. \A T \in SUBSET S :
        SumOver(f, T) = IF T = {} THEN 0 ELSE f[Pick(T)] + SumOver(f, T \ {Pick(T)})
  BY SumPick
<1>4. SumOver(f, m) = IF m = {} THEN 0 ELSE f[Pick(m)] + SumOver(f, m \ {Pick(m)})
  BY <1>2, <1>3
<1>5. m # {} /\ Pick(m) \in m
  BY <1>2, <1>4, PickIn
<1>6. SumOver(f, m \ {Pick(m)}) \in R
  BY <1>1, <1>2, <1>5
<1>7. f[Pick(m)] \in R
  BY <1>2, <1>5
<1> HIDE DEF Bad
<1>8. f[Pick(m)] + SumOver(f, m \ {Pick(m)}) \in R
  <2>1. CASE R = Int
    BY <1>6, <1>7, <2>1
  <2>2. CASE R = Nat
    BY <1>6, <1>7, <2>2
  <2> QED BY <2>1, <2>2
<1> QED BY <1>2, <1>4, <1>5, <1>8

\* Any element may be the one that is added last.
LEMMA SumSplit ==
  ASSUME NEW S, IsFiniteSet(S), NEW f \in [S -> Int]
  PROVE  \A T \in SUBSET S : \A x \in T : SumOver(f, T) = f[x] + SumOver(f, T \ {x})
<1> DEFINE Splits(T) == \A x \in T : SumOver(f, T) = f[x] + SumOver(f, T \ {x})
           Bad == {T \in SUBSET S : ~Splits(T)}
<1> SUFFICES ASSUME Bad # {} PROVE FALSE
  OBVIOUS
<1>1. PICK m \in Bad : \A t \in Bad : t \subseteq m => t = m
  <2>1. Bad \in SUBSET SUBSET S
    OBVIOUS
  <2> HIDE DEF Bad
  <2> QED BY <2>1, SmallestSubset
<1>2. m \in SUBSET S /\ ~Splits(m)
  OBVIOUS
<1>3. PICK x \in m : SumOver(f, m) # f[x] + SumOver(f, m \ {x})
  BY <1>2
<1> DEFINE y == Pick(m)
<1>4. y \in m /\ SumOver(f, m) = f[y] + SumOver(f, m \ {y})
  BY <1>2, <1>3, PickIn, SumPick
<1>5. x # y
  BY <1>3, <1>4
<1>6. Splits(m \ {x}) /\ Splits(m \ {y})
  BY <1>1, <1>2, <1>3, <1>4
<1> HIDE DEF Bad, y
<1>7. SumOver(f, m \ {x}) = f[y] + SumOver(f, (m \ {x}) \ {y})
  BY <1>4, <1>5, <1>6
<1>8. SumOver(f, m \ {y}) = f[x] + SumOver(f, (m \ {y}) \ {x})
  BY <1>3, <1>5, <1>6
<1>9. (m \ {x}) \ {y} = (m \ {y}) \ {x} /\ (m \ {x}) \ {y} \in SUBSET S
  BY <1>2
<1>10. SumOver(f, (m \ {x}) \ {y}) \in Int /\ f[x] \in Int /\ f[y] \in Int
  BY <1>2, <1>3, <1>4, <1>9, SumType
<1> HIDE DEF Splits
<1>11. SumOver(f, m \ {y}) = f[x] + SumOver(f, (m \ {x}) \ {y})
  BY <1>8, <1>9
<1>12. SumOver(f, m) = f[x] + SumOver(f, m \ {x})
  BY <1>4, <1>7, <1>10, <1>11
<1> QED BY <1>3, <1>12

\* Functions that agree on a set have one sum over it.
LEMMA SumCongruent ==
  ASSUME NEW S, IsFiniteSet(S), NEW f, NEW h, \A x \in S : f[x] = h[x]
  PROVE  SumOver(f, S) = SumOver(h, S)
<1> DEFINE a == CHOOSE g : Sums(g, f, S)
           b == CHOOSE g : Sums(g, h, S)
<1>1. Sums(a, f, S) /\ Sums(b, h, S)
  BY SumsExist
<1>2. SumOver(f, S) = a[S] /\ SumOver(h, S) = b[S]
  BY SumIs
<1>3. S \in SUBSET S
  OBVIOUS
<1> HIDE DEF a, b
<1>4. \A s \in SUBSET S : s \in SUBSET S /\ (\A x \in s : f[x] = h[x]) => a[s] = b[s]
  BY <1>1, <1>3, SumsAgree
<1> QED BY <1>2, <1>3, <1>4

\* One summand changes.
LEMMA SumUpdate ==
  ASSUME NEW S, IsFiniteSet(S), NEW f \in [S -> Int], NEW h \in [S -> Int], NEW d \in S,
         \A x \in S : x # d => h[x] = f[x]
  PROVE  SumOver(h, S) = SumOver(f, S) - f[d] + h[d]
<1> DEFINE R == S \ {d}
<1>1. R \in SUBSET S /\ S \in SUBSET S /\ IsFiniteSet(R)
  BY FS_Subset
<1>2. SumOver(f, S) = f[d] + SumOver(f, R) /\ SumOver(h, S) = h[d] + SumOver(h, R)
  BY <1>1, SumSplit
<1>3. SumOver(f, R) = SumOver(h, R)
  BY <1>1, SumCongruent
<1>4. SumOver(f, R) \in Int /\ f[d] \in Int /\ h[d] \in Int
  BY <1>1, SumType
<1> HIDE DEF R
<1> QED BY <1>2, <1>3, <1>4

\* No summand exceeds a sum of naturals.
LEMMA SumAtLeast ==
  ASSUME NEW S, IsFiniteSet(S), NEW f \in [S -> Nat], NEW d \in S
  PROVE  SumOver(f, S) \in Nat /\ SumOver(f, S) >= f[d]
<1> DEFINE R == S \ {d}
<1>1. R \in SUBSET S /\ S \in SUBSET S /\ f \in [S -> Int]
  OBVIOUS
<1>2. SumOver(f, S) = f[d] + SumOver(f, R)
  BY <1>1, SumSplit
<1>3. SumOver(f, R) \in Nat /\ SumOver(f, S) \in Nat /\ f[d] \in Nat
  BY <1>1, SumType
<1> HIDE DEF R
<1> QED BY <1>2, <1>3

\* Nothing adds up to nothing.
LEMMA SumZero ==
  ASSUME NEW S, IsFiniteSet(S), NEW f \in [S -> Int], \A x \in S : f[x] = 0
  PROVE  SumOver(f, S) = 0
<1> DEFINE Bad == {T \in SUBSET S : SumOver(f, T) # 0}
<1> SUFFICES ASSUME Bad # {} PROVE FALSE
  OBVIOUS
<1>1. PICK m \in Bad : \A t \in Bad : t \subseteq m => t = m
  <2>1. Bad \in SUBSET SUBSET S
    OBVIOUS
  <2> HIDE DEF Bad
  <2> QED BY <2>1, SmallestSubset
<1>2. m \in SUBSET S /\ SumOver(f, m) # 0
  OBVIOUS
<1>3. \A T \in SUBSET S :
        SumOver(f, T) = IF T = {} THEN 0 ELSE f[Pick(T)] + SumOver(f, T \ {Pick(T)})
  BY SumPick
<1>4. SumOver(f, m) = IF m = {} THEN 0 ELSE f[Pick(m)] + SumOver(f, m \ {Pick(m)})
  BY <1>2, <1>3
<1>5. m # {} /\ Pick(m) \in m
  BY <1>2, <1>4, PickIn
<1>6. SumOver(f, m \ {Pick(m)}) = 0
  BY <1>1, <1>2, <1>5
<1>7. f[Pick(m)] = 0
  BY <1>2, <1>5
<1> HIDE DEF Bad
<1> QED BY <1>2, <1>4, <1>5, <1>6, <1>7

-----------------------------------------------------------------------------
(* The books of requests that are served one after the other. *)

\* What its document does not say yet of what a request has written, in w.
Pending(s, w) == IF s.pc = "moved" /\ s.op # "release" /\ s.w = w THEN s.amount ELSE 0

\* What the reserved quantity of w does not hold back yet, or no longer holds back.
Withheld(s, w) ==
  IF (s.pc = "reserved" \/ (s.pc = "moved" /\ s.op = "release")) /\ s.w = w THEN s.amount ELSE 0

\* The books of w, when s is the only request that is being served.
Balanced(s, w) ==
  /\ onHand[w] = Opening + Accounted(w) + other[w] + Pending(s, w)
  /\ reserved[w] = Active(w) - Withheld(s, w)

\* What s has read of its document and of the balance is still so.
Holds(s) ==
  /\ s.op = "ship" => /\ Is(s.d, "transfer", "DRAFT") /\ s.w = doc[s.d].place
                      /\ s.amount = -doc[s.d].amount
  /\ s.op = "receive" => /\ Is(s.d, "transfer", "IN_TRANSIT") /\ s.w = doc[s.d].to
                         /\ s.amount = doc[s.d].amount
  /\ s.op = "adjust" => /\ Is(s.d, "adjustment", "PENDING") /\ s.w = doc[s.d].place
                        /\ s.amount = doc[s.d].amount
  /\ s.op = "release" => /\ Is(s.d, "reservation", "ACTIVE") /\ s.w = doc[s.d].place
                         /\ s.amount = doc[s.d].amount
  /\ s.pc = "open" =>
       s.read = IF s.op = "release" THEN reserved[s.w] - s.amount ELSE onHand[s.w] + s.amount

\* As long as requests are served one after the other, the books of the one that
\* is being served are balanced, and what it has read is still so.
Served ==
  serial =>
    /\ \A p, q \in Requests : ~At(p, "idle") /\ ~At(q, "idle") => p = q
    /\ Quiescent => \A w \in Warehouses : Balanced(Idle, w)
    /\ \A q \in Requests : ~At(q, "idle") =>
         Holds(request[q]) /\ \A w \in Warehouses : Balanced(request[q], w)

Kept ==
  /\ \A d \in Documents : doc[d].kind = "reservation" => doc[d].amount \in Nat
  /\ Served

\* A step that leaves one request, in state s, being served: or none.
LEMMA ServedStep ==
  ASSUME IInv, NEW q \in Requests, NEW s, request' = [request EXCEPT ![q] = s],
         s.pc = "idle" => s = Idle,
         \A d \in Documents : doc'[d].kind = "reservation" => doc'[d].amount \in Nat,
         serial' => /\ \A p \in Requests : p # q => At(p, "idle")
                    /\ \A w \in Warehouses : Balanced(s, w)'
                    /\ s.pc # "idle" => Holds(s)'
  PROVE  Kept'
<1>1. \A p \in Requests : request'[p] = IF p = q THEN s ELSE request[p]
  BY DEF IInv, TypeOK
<1> SUFFICES ASSUME serial'
             PROVE  /\ \A p, r \in Requests : ~At(p, "idle")' /\ ~At(r, "idle")' => p = r
                    /\ Quiescent' => \A w \in Warehouses : Balanced(Idle, w)'
                    /\ \A p \in Requests : ~At(p, "idle")' =>
                         Holds(request[p])' /\ \A w \in Warehouses : Balanced(request[p], w)'
  BY DEF Kept, Served
<1>2. \A p \in Requests : ~At(p, "idle")' => p = q /\ s.pc # "idle"
  BY <1>1 DEF At
<1>3. \A p, r \in Requests : ~At(p, "idle")' /\ ~At(r, "idle")' => p = r
  BY <1>2
<1>4. ASSUME Quiescent', NEW w \in Warehouses PROVE Balanced(Idle, w)'
  BY <1>1, <1>4, Zenon DEF Quiescent, At
<1>5. ASSUME NEW p \in Requests, ~At(p, "idle")'
      PROVE  Holds(request[p])' /\ \A w \in Warehouses : Balanced(request[p], w)'
  <2>1. p = q /\ s.pc # "idle" /\ request'[p] = s
    BY <1>1, <1>2, <1>5
  <2> QED BY <2>1, Zenon DEF Holds, Balanced
<1> QED BY <1>3, <1>4, <1>5

\* While requests are served one after the other, a busy one is alone.
LEMMA Alone ==
  ASSUME Kept, serial, NEW q \in Requests, ~At(q, "idle")
  PROVE  /\ \A p \in Requests : p # q => At(p, "idle")
         /\ Holds(request[q])
         /\ \A w \in Warehouses : Balanced(request[q], w)
BY DEF Kept, Served

\* The sums change by what the row says.
LEMMA DocumentSums ==
  ASSUME IInv, NEW d \in Documents, NEW x, x.amount \in Int, doc' = [doc EXCEPT ![d] = x]
  PROVE  \A w \in Warehouses :
           /\ Accounted(w) \in Int /\ Effect(doc[d], w) \in Int /\ Effect(x, w) \in Int
           /\ Active(w) \in Int /\ Held(doc[d], w) \in Int /\ Held(x, w) \in Int
           /\ Accounted(w)' = Accounted(w) - Effect(doc[d], w) + Effect(x, w)
           /\ Active(w)' = Active(w) - Held(doc[d], w) + Held(x, w)
<1> SUFFICES ASSUME NEW w \in Warehouses
             PROVE  /\ Accounted(w) \in Int /\ Effect(doc[d], w) \in Int /\ Effect(x, w) \in Int
                    /\ Active(w) \in Int /\ Held(doc[d], w) \in Int /\ Held(x, w) \in Int
                    /\ Accounted(w)' = Accounted(w) - Effect(doc[d], w) + Effect(x, w)
                    /\ Active(w)' = Active(w) - Held(doc[d], w) + Held(x, w)
  OBVIOUS
<1>1. ASSUME NEW y, y.amount \in Int PROVE Effect(y, w) \in Int /\ Held(y, w) \in Int
  BY <1>1 DEF Effect, Held
<1>2. \A e \in Documents : doc[e].amount \in Int /\ doc'[e] = IF e = d THEN x ELSE doc[e]
  BY DEF IInv, TypeOK, DocumentRows
<1> DEFINE f == [e \in Documents |-> Effect(doc[e], w)]
           h == [e \in Documents |-> Effect(doc'[e], w)]
           a == [e \in Documents |-> Held(doc[e], w)]
           b == [e \in Documents |-> Held(doc'[e], w)]
<1>3. /\ f \in [Documents -> Int] /\ h \in [Documents -> Int]
      /\ a \in [Documents -> Int] /\ b \in [Documents -> Int]
  <2>1. \A e \in Documents : doc[e].amount \in Int /\ doc'[e].amount \in Int
    BY <1>2
  <2> QED BY <1>1, <2>1
<1>4. (\A e \in Documents : e # d => h[e] = f[e] /\ b[e] = a[e])
      /\ f[d] = Effect(doc[d], w) /\ h[d] = Effect(x, w) /\ a[d] = Held(doc[d], w) /\ b[d] = Held(x, w)
  <2>1. doc'[d] = x /\ \A e \in Documents : e # d => doc'[e] = doc[e]
    BY <1>2
  <2> QED BY <2>1
<1>5. Accounted(w) = SumOver(f, Documents) /\ Accounted(w)' = SumOver(h, Documents)
      /\ Active(w) = SumOver(a, Documents) /\ Active(w)' = SumOver(b, Documents)
  BY Zenon DEF Accounted, Active
<1> HIDE DEF f, h, a, b
<1>6. SumOver(h, Documents) = SumOver(f, Documents) - f[d] + h[d]
      /\ SumOver(b, Documents) = SumOver(a, Documents) - a[d] + b[d]
  BY <1>3, <1>4, SumUpdate, StockAssumption
<1>7. SumOver(f, Documents) \in Int /\ SumOver(a, Documents) \in Int
  BY <1>3, SumType, StockAssumption
<1> QED BY <1>1, <1>2, <1>4, <1>5, <1>6, <1>7

\* They do not change with documents that are as they were.
LEMMA SameSums ==
  ASSUME UNCHANGED doc
  PROVE  \A w \in Warehouses : Accounted(w)' = Accounted(w) /\ Active(w)' = Active(w)
BY Zenon DEF Accounted, Active

\* A row that says nothing of any warehouse.
Silent(x) ==
  \/ x.kind \in {"none", "order", "count"}
  \/ x.kind = "transfer" /\ x.status = "DRAFT"
  \/ x.kind = "adjustment" /\ x.status = "PENDING"

LEMMA SilentSums == ASSUME NEW x, Silent(x)  PROVE \A w : Effect(x, w) = 0 /\ Held(x, w) = 0
BY DEF Silent, Effect, Held

\* Neither what a row says nor the books depend on its other fields.
LEMMA SameRow ==
  ASSUME NEW x, NEW y, x.kind = y.kind, x.status = y.status, x.place = y.place, x.to = y.to,
         x.amount = y.amount
  PROVE  \A w : Effect(x, w) = Effect(y, w) /\ Held(x, w) = Held(y, w)
BY DEF Effect, Held

\* A row whose successor says the same leaves the sums alone.
LEMMA SumsKept ==
  ASSUME IInv, NEW d \in Documents, NEW x, x.amount \in Int, doc' = [doc EXCEPT ![d] = x],
         \A w : Effect(x, w) = Effect(doc[d], w) /\ Held(x, w) = Held(doc[d], w)
  PROVE  \A w \in Warehouses : Accounted(w)' = Accounted(w) /\ Active(w)' = Active(w)
<1> SUFFICES ASSUME NEW w \in Warehouses
             PROVE  Accounted(w)' = Accounted(w) /\ Active(w)' = Active(w)
  OBVIOUS
<1>1. /\ Accounted(w) \in Int /\ Effect(x, w) \in Int /\ Active(w) \in Int /\ Held(x, w) \in Int
      /\ Accounted(w)' = Accounted(w) - Effect(x, w) + Effect(x, w)
      /\ Active(w)' = Active(w) - Held(x, w) + Held(x, w)
  BY DocumentSums
<1> QED BY <1>1

\* The balance that is not attributed to a document any more.
LEMMA BalancedIdle ==
  ASSUME TypeOK, NEW w \in Warehouses, Accounted(w) \in Int
  PROVE  Balanced(Idle, w) <=> /\ onHand[w] = Opening + Accounted(w) + other[w]
                               /\ reserved[w] = Active(w) - 0
BY StockAssumption DEF Balanced, Pending, Withheld, Idle, TypeOK

\* What the sums are of.
LEMMA SumsType == ASSUME IInv PROVE \A w \in Warehouses : Accounted(w) \in Int /\ Active(w) \in Int
<1> SUFFICES ASSUME NEW w \in Warehouses PROVE Accounted(w) \in Int /\ Active(w) \in Int
  OBVIOUS
<1>1. ASSUME NEW y, y.amount \in Int PROVE Effect(y, w) \in Int /\ Held(y, w) \in Int
  BY <1>1 DEF Effect, Held
<1>2. \A e \in Documents : doc[e].amount \in Int
  BY DEF IInv, TypeOK, DocumentRows
<1> DEFINE f == [e \in Documents |-> Effect(doc[e], w)]
           a == [e \in Documents |-> Held(doc[e], w)]
<1>3. f \in [Documents -> Int] /\ a \in [Documents -> Int]
  BY <1>1, <1>2
<1>4. Accounted(w) = SumOver(f, Documents) /\ Active(w) = SumOver(a, Documents)
  BY Zenon DEF Accounted, Active
<1> HIDE DEF f, a
<1> QED BY <1>3, <1>4, SumType, StockAssumption

\* An active reservation is part of what is held back.
LEMMA ActiveAtLeast ==
  ASSUME IInv, Kept, NEW d \in Documents, Is(d, "reservation", "ACTIVE"), doc[d].place \in Warehouses
  PROVE  Active(doc[d].place) >= doc[d].amount
<1> DEFINE w == doc[d].place
           a == [e \in Documents |-> Held(doc[e], w)]
<1>1. a \in [Documents -> Nat] /\ a[d] = doc[d].amount
  BY DEF Kept, Held, Is
<1>2. Active(w) = SumOver(a, Documents)
  BY Zenon DEF Active
<1> HIDE DEF a, w
<1>3. Active(w) >= a[d]
  BY <1>1, <1>2, SumAtLeast, StockAssumption
<1> QED BY <1>1, <1>3 DEF w

\* What a request has read survives a step that leaves the balances and its document alone.
LEMMA HoldsKept ==
  ASSUME NEW s, Holds(s), UNCHANGED <<onHand, reserved>>,
         s.op \in {"ship", "receive", "adjust", "release"} =>
           /\ doc'[s.d].kind = doc[s.d].kind /\ doc'[s.d].status = doc[s.d].status
           /\ doc'[s.d].place = doc[s.d].place /\ doc'[s.d].to = doc[s.d].to
           /\ doc'[s.d].amount = doc[s.d].amount
  PROVE  Holds(s)'
BY DEF Holds, Is

\* A step that changes no balance and no sum.
LEMMA BalancedKept ==
  ASSUME NEW s, NEW w, Balanced(s, w), UNCHANGED <<onHand, reserved, other>>,
         Accounted(w)' = Accounted(w), Active(w)' = Active(w)
  PROVE  Balanced(s, w)'
BY DEF Balanced

LEMMA KeptInitially == ASSUME Init, IInv PROVE Kept
<1>1. \A w \in Warehouses : Accounted(w) = 0 /\ Active(w) = 0
  <2> SUFFICES ASSUME NEW w \in Warehouses PROVE Accounted(w) = 0 /\ Active(w) = 0
    OBVIOUS
  <2> DEFINE z == [d \in Documents |-> 0]
  <2>1. [d \in Documents |-> Effect(doc[d], w)] = z /\ [d \in Documents |-> Held(doc[d], w)] = z
    BY DEF Init, NoDocument, Effect, Held
  <2>2. Accounted(w) = SumOver(z, Documents) /\ Active(w) = SumOver(z, Documents)
    BY <2>1, Zenon DEF Accounted, Active
  <2>3. \A d \in Documents : z[d] = 0
    OBVIOUS
  <2>4. z \in [Documents -> Int]
    OBVIOUS
  <2> HIDE DEF z
  <2>5. SumOver(z, Documents) = 0
    BY <2>3, <2>4, SumZero, StockAssumption
  <2> QED BY <2>2, <2>5
<1>2. \A q \in Requests : At(q, "idle")
  BY DEF Init, At, Idle
<1>3. \A w \in Warehouses : Balanced(Idle, w)
  BY <1>1, BalancedIdle, StockAssumption DEF Init, IInv
<1>4. \A d \in Documents : doc[d].kind # "reservation"
  BY DEF Init, NoDocument
<1> QED BY <1>2, <1>3, <1>4 DEF Kept, Served

LEMMA BeginKept ==
  ASSUME IInv, Kept, NEW q \in Requests, NEW pc, NEW op, NEW d, NEW w, NEW amount, NEW read,
         Begin(q, pc, op, d, w, amount, read), pc \notin {"idle", "moved", "reserved"},
         Holds([pc |-> pc, op |-> op, d |-> d, w |-> w, amount |-> amount, read |-> read])
  PROVE  Kept'
<1>1. PICK s : s = [pc |-> pc, op |-> op, d |-> d, w |-> w, amount |-> amount, read |-> read]
  OBVIOUS
<1>2. request' = [request EXCEPT ![q] = s] /\ (serial' => serial /\ Quiescent)
      /\ UNCHANGED <<onHand, reserved, doc, other>>
  BY <1>1, Zenon DEF Begin
<1>3. s.pc \notin {"idle", "moved", "reserved"} /\ Holds(s)
  BY <1>1
<1>4. Holds(s)'
  BY <1>2, <1>3, HoldsKept
<1>5. ASSUME serial', NEW v \in Warehouses PROVE Balanced(s, v)'
  <2>1. Balanced(Idle, v)
    BY <1>2, <1>5 DEF Kept, Served
  <2>2. Balanced(s, v)
    BY <1>3, <2>1 DEF Balanced, Pending, Withheld, Idle
  <2> QED BY <1>2, <2>2, BalancedKept, SameSums
<1>6. ASSUME serial', NEW p \in Requests PROVE At(p, "idle")
  BY <1>2, <1>6 DEF Quiescent
<1>7. \A e \in Documents : doc'[e].kind = "reservation" => doc'[e].amount \in Nat
  BY <1>2 DEF Kept
<1> QED BY <1>2, <1>3, <1>4, <1>5, <1>6, <1>7, ServedStep

LEMMA StartKept ==
  ASSUME IInv, Kept, NEW q \in Requests, NEW w \in Warehouses
  PROVE  /\ \A n \in Signed : Move(q, w, n) => Kept'
         /\ \A n \in Quantities : ReserveStock(q, w, n) => Kept'
         /\ CreateStockCount(q, w) => Kept'
<1> USE DEF Holds
<1>1. ASSUME NEW n \in Signed, Move(q, w, n) PROVE Kept'
  BY <1>1, BeginKept DEF Move
<1>2. ASSUME NEW n \in Quantities, ReserveStock(q, w, n) PROVE Kept'
  BY <1>2, BeginKept DEF ReserveStock
<1>3. ASSUME CreateStockCount(q, w) PROVE Kept'
  BY <1>3, BeginKept DEF CreateStockCount
<1> QED BY <1>1, <1>2, <1>3

LEMMA StartDocumentKept ==
  ASSUME IInv, Kept, NEW q \in Requests, NEW d \in Documents
  PROVE  /\ ShipTransfer(q, d) \/ ReceiveTransfer(q, d) \/ ApproveAdjustment(q, d) => Kept'
         /\ ReleaseReservation(q, d) => Kept'
         /\ \A n \in Counts : SubmitCountLine(q, d, n) => Kept'
         /\ ApproveStockCount(q, d) => Kept'
         /\ \A w \in Warehouses : ReceivePurchaseOrder(q, d, w) => Kept'
<1> USE DEF Holds
<1>1. ASSUME ShipTransfer(q, d) PROVE Kept'
  BY <1>1, BeginKept DEF ShipTransfer
<1>2. ASSUME ReceiveTransfer(q, d) PROVE Kept'
  BY <1>2, BeginKept DEF ReceiveTransfer
<1>3. ASSUME ApproveAdjustment(q, d) PROVE Kept'
  BY <1>3, BeginKept DEF ApproveAdjustment
<1>4. ASSUME ReleaseReservation(q, d) PROVE Kept'
  BY <1>4, BeginKept DEF ReleaseReservation
<1>5. ASSUME NEW n \in Counts, SubmitCountLine(q, d, n) PROVE Kept'
  BY <1>5, BeginKept DEF SubmitCountLine
<1>6. ASSUME ApproveStockCount(q, d) PROVE Kept'
  BY <1>6, BeginKept DEF ApproveStockCount
<1>7. ASSUME NEW w \in Warehouses, ReceivePurchaseOrder(q, d, w) PROVE Kept'
  BY <1>7, BeginKept DEF ReceivePurchaseOrder
<1> QED BY <1>1, <1>2, <1>3, <1>4, <1>5, <1>6, <1>7

\* A request that ends without having changed anything since its books were balanced.
LEMMA ReturnKept ==
  ASSUME IInv, Kept, NEW q \in Requests, ~At(q, "idle"), Return(q),
         UNCHANGED <<onHand, reserved, doc, other>>,
         serial' => serial /\ ~At(q, "moved") /\ ~At(q, "reserved")
  PROVE  Kept'
<1>1. request' = [request EXCEPT ![q] = Idle]
  BY DEF Return
<1>2. ASSUME serial', NEW w \in Warehouses PROVE Balanced(Idle, w)'
  <2>1. Balanced(request[q], w)
    BY <1>2, Alone
  <2>2. Balanced(Idle, w)
    BY <1>2, <2>1 DEF Balanced, Pending, Withheld, Idle, At
  <2> QED BY <2>2, BalancedKept, SameSums
<1>3. ASSUME serial', NEW p \in Requests, p # q PROVE At(p, "idle")
  BY <1>3, Alone
<1>4. \A e \in Documents : doc'[e].kind = "reservation" => doc'[e].amount \in Nat
  BY DEF Kept
<1>5. Idle.pc = "idle"
  BY DEF Idle
<1> QED BY <1>1, <1>2, <1>3, <1>4, <1>5, ServedStep

LEMMA EndKept ==
  ASSUME IInv, Kept, NEW q \in Requests
  PROVE  InsufficientStock(q) \/ Fail(q) => Kept'
<1>1. ASSUME InsufficientStock(q) PROVE Kept'
  BY <1>1, ReturnKept DEF InsufficientStock, At
<1>2. ASSUME Fail(q) PROVE Kept'
  BY <1>2, ReturnKept DEF Fail
<1> QED BY <1>1, <1>2

\* Alone, it reads a balance that releasing does not take below zero.
LEMMA ReadBalanceKept ==
  ASSUME IInv, Kept, NEW q \in Requests, ReadBalance(q)
  PROVE  Kept'
<1>1. PICK old : old = request[q]
  OBVIOUS
<1>2. old \in RequestStates /\ RequestOK(old) /\ old.pc = "moving" /\ ~At(q, "idle") /\ Knows(old)
  BY <1>1 DEF ReadBalance, At, IInv, TypeOK
<1>3. PICK next : next = IF old.op = "release" THEN Max({0, reserved[old.w] - old.amount})
                         ELSE onHand[old.w] + old.amount
  OBVIOUS
<1>4. PICK s : s = [old EXCEPT !.pc = "open", !.read = next]
  OBVIOUS
<1>5. s.pc = "open" /\ s.op = old.op /\ s.d = old.d /\ s.w = old.w /\ s.amount = old.amount
      /\ s.read = next
  BY <1>2, <1>4 DEF RequestStates
<1>6. request' = [request EXCEPT ![q] = s] /\ UNCHANGED <<onHand, reserved, doc, other, serial>>
  <2>1. request' = [request EXCEPT ![q].pc = "open", ![q].read = next]
        /\ UNCHANGED <<onHand, reserved, doc, other, serial>>
    BY <1>1, <1>3 DEF ReadBalance
  <2> QED BY <1>1, <1>4, <2>1 DEF IInv, TypeOK
<1>7. ASSUME serial
      PROVE  Holds(old) /\ \A w \in Warehouses : Balanced(old, w)
  BY <1>1, <1>2, <1>7, Alone
<1>8. ASSUME serial, old.op = "release" PROVE next = reserved[old.w] - old.amount
  <2>1. old.d \in Documents /\ old.w \in Warehouses /\ old.amount \in Int
    BY <1>2, <1>8 DEF RequestOK, RequestStates
  <2>2. PICK d : d = old.d
    OBVIOUS
  <2>3. Is(d, "reservation", "ACTIVE") /\ old.w = doc[d].place /\ old.amount = doc[d].amount
    BY <1>7, <1>8, <2>2 DEF Holds
  <2>4. Active(old.w) >= old.amount
    BY <2>1, <2>2, <2>3, ActiveAtLeast
  <2>5. reserved[old.w] = Active(old.w) - 0
    BY <1>2, <1>7, <1>8, <2>1 DEF Balanced, Withheld
  <2>6. reserved[old.w] \in Nat /\ Active(old.w) \in Int
    BY <2>1, SumsType DEF IInv, TypeOK
  <2>7. PICK n : n = reserved[old.w] - old.amount
    OBVIOUS
  <2>8. n \in Int /\ n >= 0
    BY <2>1, <2>4, <2>5, <2>6, <2>7
  <2>9. Max({0, n}) = n
    <3>1. \E x \in {0, n} : \A y \in {0, n} : x >= y
      BY <2>8
    <3>2. Max({0, n}) \in {0, n} /\ \A y \in {0, n} : Max({0, n}) >= y
      BY <3>1, Zenon DEF Max
    <3> QED BY <2>8, <3>2
  <2> QED BY <1>3, <1>8, <2>7, <2>9
<1>9. ASSUME serial PROVE Holds(s)
  BY <1>2, <1>3, <1>5, <1>7, <1>8, <1>9 DEF Holds
<1>10. ASSUME serial, NEW w \in Warehouses PROVE Balanced(s, w)
  BY <1>2, <1>5, <1>7, <1>10 DEF Balanced, Pending, Withheld
<1>11. ASSUME serial' PROVE Holds(s)' /\ \A w \in Warehouses : Balanced(s, w)'
  BY <1>6, <1>9, <1>10, <1>11, HoldsKept, BalancedKept, SameSums
<1>12. ASSUME serial', NEW p \in Requests, p # q PROVE At(p, "idle")
  BY <1>2, <1>6, <1>12, Alone
<1>13. \A e \in Documents : doc'[e].kind = "reservation" => doc'[e].amount \in Nat
  BY <1>6 DEF Kept
<1> QED BY <1>5, <1>6, <1>11, <1>12, <1>13, ServedStep

\* Of its own, onto the balance: what is written and what other records of it.
LEMMA AccountedFor ==
  ASSUME TypeOK, NEW w \in Warehouses, NEW n \in Int, onHand' = [onHand EXCEPT ![w] = onHand[w] + n],
         Account(w, n, TRUE)
  PROVE  \A v \in Warehouses : /\ onHand[v] \in Int /\ other[v] \in Int
                               /\ \E k \in Int : /\ onHand'[v] = onHand[v] + k
                                                 /\ other'[v] = other[v] + k
<1> SUFFICES ASSUME NEW v \in Warehouses
             PROVE  /\ onHand[v] \in Int /\ other[v] \in Int
                    /\ \E k \in Int : onHand'[v] = onHand[v] + k /\ other'[v] = other[v] + k
  OBVIOUS
<1>1. onHand[v] \in Int /\ other[v] \in Int
  BY DEF TypeOK
<1>2. other' = [other EXCEPT ![w] = @ + n]
  BY DEF Account
<1>3. CASE v = w
  BY <1>1, <1>2, <1>3 DEF TypeOK
<1>4. CASE v # w
  <2>1. onHand'[v] = onHand[v] + 0 /\ other'[v] = other[v] + 0
    BY <1>1, <1>2, <1>4 DEF TypeOK
  <2> QED BY <1>1, <2>1
<1> QED BY <1>3, <1>4

\* What is moved without a document, and is accounted for, leaves the books balanced.
LEMMA AccountedKept ==
  ASSUME IInv, Kept, NEW q \in Requests, ~At(q, "idle"), ~At(q, "moved"), ~At(q, "reserved"),
         Return(q), UNCHANGED reserved,
         \A e \in Documents : doc'[e].kind = "reservation" => doc'[e].amount \in Nat,
         \A v \in Warehouses : Accounted(v)' = Accounted(v) /\ Active(v)' = Active(v),
         serial' => /\ serial
                    /\ \A v \in Warehouses :
                         \E k \in Int : /\ onHand'[v] = onHand[v] + k
                                        /\ other'[v] = other[v] + k
  PROVE  Kept'
<1>1. request' = [request EXCEPT ![q] = Idle] /\ Idle.pc = "idle"
  BY DEF Return, Idle
<1>2. ASSUME serial', NEW v \in Warehouses PROVE Balanced(Idle, v)'
  <2>1. Balanced(request[q], v)
    BY <1>2, Alone
  <2>2. Accounted(v) \in Int /\ onHand[v] \in Int /\ other[v] \in Int /\ Opening \in Int
    BY SumsType, StockAssumption DEF IInv, TypeOK
  <2>3. onHand[v] = Opening + Accounted(v) + other[v] /\ reserved[v] = Active(v) - 0
    BY <2>1, <2>2 DEF Balanced, Pending, Withheld, At
  <2>4. PICK k \in Int : onHand'[v] = onHand[v] + k /\ other'[v] = other[v] + k
    BY <1>2
  <2>5. onHand'[v] = Opening + Accounted(v)' + other'[v] + 0 /\ reserved'[v] = Active(v)' - 0
    BY <2>2, <2>3, <2>4
  <2> QED BY <2>5 DEF Balanced, Pending, Withheld, Idle
<1>3. ASSUME serial', NEW p \in Requests, p # q PROVE At(p, "idle")
  BY <1>3, Alone
<1> QED BY <1>1, <1>2, <1>3, ServedStep

\* The movement is written: its document, if it has one, does not say so yet.
LEMMA WriteMove ==
  ASSUME IInv, Kept, NEW q \in Requests, WriteBalance(q), request[q].op = "move"
  PROVE  Kept'
<1>1. PICK old : old = request[q]
  OBVIOUS
<1>2. old \in RequestStates /\ RequestOK(old) /\ old.pc = "open" /\ ~At(q, "idle")
      /\ ~At(q, "moved") /\ ~At(q, "reserved")
  BY <1>1 DEF WriteBalance, At, IInv, TypeOK
<1>3. PICK w, n : w = old.w /\ n = old.amount
  OBVIOUS
<1>4. w \in Warehouses /\ n \in Int
  BY <1>2, <1>3 DEF RequestOK, RequestStates
<1>5. /\ onHand' = [onHand EXCEPT ![w] = old.read] /\ Return(q) /\ Account(w, n, serial)
      /\ UNCHANGED <<reserved, doc, serial>>
  BY <1>1, <1>3 DEF WriteBalance
<1>6. ASSUME serial'
      PROVE  \A v \in Warehouses : \E k \in Int : onHand'[v] = onHand[v] + k /\ other'[v] = other[v] + k
  <2>1. serial /\ serial = TRUE
    BY <1>5, <1>6 DEF IInv, TypeOK
  <2>2. Holds(old)
    BY <1>1, <1>2, <2>1, Alone
  <2>3. onHand' = [onHand EXCEPT ![w] = onHand[w] + n]
    BY <1>1, <1>2, <1>3, <1>5, <2>2 DEF Holds
  <2>4. Account(w, n, TRUE)
    BY <1>5, <2>1
  <2> QED BY <1>4, <2>3, <2>4, AccountedFor DEF IInv
<1>7. \A e \in Documents : doc'[e].kind = "reservation" => doc'[e].amount \in Nat
  BY <1>5 DEF Kept
<1> QED BY <1>2, <1>5, <1>6, <1>7, AccountedKept, SameSums

LEMMA WriteForDocument ==
  ASSUME IInv, Kept, NEW q \in Requests, WriteBalance(q), request[q].op # "move"
  PROVE  Kept'
<1>1. PICK old : old = request[q]
  OBVIOUS
<1>2. old \in RequestStates /\ RequestOK(old) /\ old.pc = "open" /\ ~At(q, "idle") /\ Knows(old)
  BY <1>1 DEF WriteBalance, At, IInv, TypeOK
<1>3. PICK d, w, n : d = old.d /\ w = old.w /\ n = old.amount
  OBVIOUS
<1>4. d \in Documents /\ w \in Warehouses /\ n \in Int
      /\ old.op \in {"ship", "receive", "adjust", "release"}
  BY <1>1, <1>2, <1>3 DEF RequestOK, RequestStates
<1>5. PICK y : y = doc[d]
  OBVIOUS
<1>6. PICK m : m = CASE old.op = "ship" -> y.moved \cup {"out"}
                     [] old.op \in {"receive", "adjust"} -> y.moved \cup {"in"}
                     [] old.op = "release" -> y.moved
  OBVIOUS
<1>7. PICK x : x = [y EXCEPT !.moved = m]
  OBVIOUS
<1>8. /\ y.amount \in Int /\ x.kind = y.kind /\ x.status = y.status /\ x.place = y.place
      /\ x.to = y.to /\ x.amount = y.amount
  <2>1. y \in DocumentRows
    BY <1>4, <1>5 DEF IInv, TypeOK
  <2> QED BY <1>7, <2>1 DEF DocumentRows
<1>9. doc' = [doc EXCEPT ![d] = x] /\ UNCHANGED other
  <2>1. doc' = [doc EXCEPT ![d].moved = m] /\ UNCHANGED other
    BY <1>1, <1>3, <1>4, <1>5, <1>6 DEF WriteBalance
  <2> QED BY <1>5, <1>7, <2>1 DEF IInv, TypeOK
<1>10. PICK s : s = [old EXCEPT !.pc = "moved", !.read = 0]
  OBVIOUS
<1>11. s.pc = "moved" /\ s.op = old.op /\ s.d = d /\ s.w = w /\ s.amount = n
  BY <1>2, <1>3, <1>10 DEF RequestStates
<1>12. request' = [request EXCEPT ![q] = s]
  <2>1. request' = [request EXCEPT ![q].pc = "moved", ![q].read = 0]
    BY <1>1, <1>4 DEF WriteBalance
  <2> QED BY <1>1, <1>10, <2>1 DEF IInv, TypeOK
<1>13. UNCHANGED serial
  BY DEF WriteBalance
<1>14. doc'[d] = x /\ \A e \in Documents : e # d => doc'[e] = doc[e]
  BY <1>4, <1>9 DEF IInv, TypeOK
<1>15. \A e \in Documents : doc'[e].kind = "reservation" => doc'[e].amount \in Nat
  BY <1>4, <1>5, <1>8, <1>14 DEF Kept
<1>16. \A v \in Warehouses : Accounted(v)' = Accounted(v) /\ Active(v)' = Active(v)
  <2>1. \A v : Effect(x, v) = Effect(doc[d], v) /\ Held(x, v) = Held(doc[d], v)
    BY <1>5, <1>8, SameRow
  <2> QED BY <1>4, <1>8, <1>9, <2>1, SumsKept
<1>17. ASSUME serial PROVE Holds(old) /\ \A v \in Warehouses : Balanced(old, v)
  BY <1>1, <1>2, <1>17, Alone
<1>18. ASSUME serial PROVE Holds(s)'
  BY <1>3, <1>4, <1>5, <1>8, <1>11, <1>14, <1>17, <1>18 DEF Holds, Is
<1>19. ASSUME serial, NEW v \in Warehouses PROVE Balanced(s, v)'
  <2>1. /\ Accounted(v) \in Int /\ Active(v) \in Int /\ onHand[v] \in Int /\ reserved[v] \in Int
        /\ other[v] \in Int /\ Opening \in Int
    BY SumsType, StockAssumption DEF IInv, TypeOK
  <2>2. onHand[v] = Opening + Accounted(v) + other[v] /\ reserved[v] = Active(v)
    BY <1>2, <1>17, <1>19, <2>1 DEF Balanced, Pending, Withheld
  <2>3. old.read = IF old.op = "release" THEN reserved[w] - n ELSE onHand[w] + n
    BY <1>2, <1>3, <1>17, <1>19 DEF Holds
  <2>4. IF old.op = "release"
        THEN reserved' = [reserved EXCEPT ![w] = old.read] /\ onHand' = onHand
        ELSE onHand' = [onHand EXCEPT ![w] = old.read] /\ reserved' = reserved
    BY <1>1, <1>3 DEF WriteBalance
  <2>5. Pending(s, v) = (IF old.op # "release" /\ w = v THEN n ELSE 0)
        /\ Withheld(s, v) = IF old.op = "release" /\ w = v THEN n ELSE 0
    BY <1>11 DEF Pending, Withheld
  <2>6. /\ onHand'[v] = onHand[v] + (IF old.op # "release" /\ w = v THEN n ELSE 0)
        /\ reserved'[v] = reserved[v] - IF old.op = "release" /\ w = v THEN n ELSE 0
    BY <1>4, <2>1, <2>3, <2>4 DEF IInv, TypeOK
  <2>7. PICK i, j : i = Pending(s, v) /\ j = Withheld(s, v)
    OBVIOUS
  <2>8. i \in Int /\ j \in Int
    BY <1>4, <2>5, <2>7
  <2>9. onHand'[v] = onHand[v] + i /\ reserved'[v] = reserved[v] - j
    BY <2>5, <2>6, <2>7
  <2>10. /\ onHand'[v] = Opening + Accounted(v)' + other'[v] + i
         /\ reserved'[v] = Active(v)' - j
    BY <1>9, <1>16, <2>1, <2>2, <2>8, <2>9
  <2> QED BY <2>7, <2>10 DEF Balanced, Pending, Withheld
<1>20. ASSUME serial, NEW p \in Requests, p # q PROVE At(p, "idle")
  BY <1>2, <1>20, Alone
<1> QED BY <1>11, <1>12, <1>13, <1>15, <1>18, <1>19, <1>20, ServedStep

\* The sole request ends with a statement on a document that says what is pending.
LEMMA SetStatusKept ==
  ASSUME IInv, Kept, NEW q \in Requests, SetStatus(q)
  PROVE  Kept'
<1>1. PICK old : old = request[q]
  OBVIOUS
<1>2. old \in RequestStates /\ RequestOK(old) /\ old.pc = "moved" /\ ~At(q, "idle") /\ Knows(old)
  BY <1>1 DEF SetStatus, At, IInv, TypeOK
<1>3. PICK d, w, n : d = old.d /\ w = old.w /\ n = old.amount
  OBVIOUS
<1>4. d \in Documents /\ w \in Warehouses /\ n \in Int
      /\ old.op \in {"ship", "receive", "adjust", "release"}
  BY <1>2, <1>3 DEF RequestOK, RequestStates
<1>5. PICK y : y = doc[d]
  OBVIOUS
<1>6. PICK status : status = CASE old.op = "ship" -> "IN_TRANSIT" [] old.op = "receive" -> "RECEIVED"
                               [] old.op = "adjust" -> "APPROVED" [] old.op = "release" -> "RELEASED"
  OBVIOUS
<1>7. PICK x : x = [y EXCEPT !.status = status]
  OBVIOUS
<1>8. /\ y.amount \in Int /\ x.kind = y.kind /\ x.status = status /\ x.place = y.place
      /\ x.to = y.to /\ x.amount = y.amount
  <2>1. y \in DocumentRows
    BY <1>4, <1>5 DEF IInv, TypeOK
  <2> QED BY <1>7, <2>1 DEF DocumentRows
<1>9. doc' = [doc EXCEPT ![d] = x] /\ UNCHANGED <<onHand, reserved, other, serial>>
  <2>1. doc' = [doc EXCEPT ![d].status = status] /\ UNCHANGED <<onHand, reserved, other, serial>>
    BY <1>1, <1>3, <1>6 DEF SetStatus
  <2> QED BY <1>5, <1>7, <2>1 DEF IInv, TypeOK
<1>10. request' = [request EXCEPT ![q] = Idle] /\ Idle.pc = "idle"
  BY DEF SetStatus, Return, Idle
<1>11. \A e \in Documents : doc'[e] = IF e = d THEN x ELSE doc[e]
  BY <1>4, <1>9 DEF IInv, TypeOK
<1>12. \A e \in Documents : doc'[e].kind = "reservation" => doc'[e].amount \in Nat
  BY <1>4, <1>5, <1>8, <1>11 DEF Kept
<1>13. ASSUME serial', NEW v \in Warehouses PROVE Balanced(Idle, v)'
  <2>1. Holds(old) /\ Balanced(old, v)
    BY <1>1, <1>2, <1>9, <1>13, Alone
  <2>2. /\ Accounted(v) \in Int /\ Active(v) \in Int /\ Effect(y, v) \in Int /\ Effect(x, v) \in Int
        /\ Held(y, v) \in Int /\ Held(x, v) \in Int
        /\ Accounted(v)' = Accounted(v) - Effect(y, v) + Effect(x, v)
        /\ Active(v)' = Active(v) - Held(y, v) + Held(x, v)
    BY <1>4, <1>5, <1>8, <1>9, DocumentSums
  <2>3. Effect(x, v) = Effect(y, v) + Pending(old, v) /\ Held(x, v) = Held(y, v) - Withheld(old, v)
    <3>1. CASE old.op = "ship"
      BY <1>2, <1>3, <1>5, <1>6, <1>8, <2>1, <3>1 DEF Holds, Is, Effect, Held, Pending, Withheld
    <3>2. CASE old.op = "receive"
      BY <1>2, <1>3, <1>5, <1>6, <1>8, <2>1, <3>2 DEF Holds, Is, Effect, Held, Pending, Withheld
    <3>3. CASE old.op = "adjust"
      BY <1>2, <1>3, <1>5, <1>6, <1>8, <2>1, <3>3 DEF Holds, Is, Effect, Held, Pending, Withheld
    <3>4. CASE old.op = "release"
      BY <1>2, <1>3, <1>5, <1>6, <1>8, <2>1, <3>4 DEF Holds, Is, Effect, Held, Pending, Withheld
    <3> QED BY <1>4, <3>1, <3>2, <3>3, <3>4
  <2>4. /\ onHand[v] \in Int /\ reserved[v] \in Int /\ other[v] \in Int /\ Opening \in Int
        /\ Pending(old, v) \in Int /\ Withheld(old, v) \in Int
    BY <1>3, <1>4, StockAssumption DEF IInv, TypeOK, Pending, Withheld
  <2>5. onHand[v] = Opening + Accounted(v) + other[v] + Pending(old, v)
        /\ reserved[v] = Active(v) - Withheld(old, v)
    BY <2>1 DEF Balanced
  <2>6. onHand[v] = Opening + Accounted(v)' + other[v] + 0 /\ reserved[v] = Active(v)' - 0
    BY <2>2, <2>3, <2>4, <2>5
  <2>7. onHand'[v] = onHand[v] /\ reserved'[v] = reserved[v] /\ other'[v] = other[v]
    BY <1>9
  <2> QED BY <2>6, <2>7 DEF Balanced, Pending, Withheld, Idle
<1>14. ASSUME serial', NEW p \in Requests, p # q PROVE At(p, "idle")
  BY <1>2, <1>9, <1>14, Alone
<1> QED BY <1>10, <1>12, <1>13, <1>14, ServedStep

LEMMA CreateReservationKept ==
  ASSUME IInv, Kept, NEW q \in Requests, NEW d \in Documents, CreateReservation(q, d)
  PROVE  Kept'
<1>1. PICK old : old = request[q]
  OBVIOUS
<1>2. old \in RequestStates /\ RequestOK(old) /\ old.pc = "reserving" /\ ~At(q, "idle")
  BY <1>1 DEF CreateReservation, At, IInv, TypeOK
<1>3. PICK w, n : w = old.w /\ n = old.amount
  OBVIOUS
<1>4. w \in Warehouses /\ n \in Nat
  BY <1>2, <1>3, StockAssumption DEF RequestOK
<1>5. PICK x : /\ x = [kind |-> "reservation", status |-> "ACTIVE", place |-> w, to |-> Nothing,
                       amount |-> n, counted |-> Nothing, moved |-> {}]
               /\ doc' = [doc EXCEPT ![d] = x]
  <2>1. PICK x : x = [NoDocument EXCEPT !.kind = "reservation", !.status = "ACTIVE",
                                        !.place = w, !.amount = n]
    OBVIOUS
  <2>2. x = [kind |-> "reservation", status |-> "ACTIVE", place |-> w, to |-> Nothing,
             amount |-> n, counted |-> Nothing, moved |-> {}]
    BY <2>1 DEF NoDocument
  <2>3. doc' = [doc EXCEPT ![d] = x]
    BY <1>1, <1>3, <2>1, Zenon DEF CreateReservation
  <2> QED BY <2>2, <2>3
<1>6. PICK s : s = [old EXCEPT !.pc = "reserved"]
  OBVIOUS
<1>7. s.pc = "reserved" /\ s.op = old.op /\ s.w = w /\ s.amount = n /\ s.d = old.d
  BY <1>2, <1>3, <1>6 DEF RequestStates
<1>8. request' = [request EXCEPT ![q] = s] /\ UNCHANGED <<onHand, reserved, other, serial>>
      /\ doc[d].kind = "none"
  BY <1>1, <1>6 DEF CreateReservation, IInv, TypeOK
<1>9. doc' = [doc EXCEPT ![d] = x] /\ x.amount \in Int
  BY <1>4, <1>5
<1>10. \A e \in Documents : doc'[e] = IF e = d THEN x ELSE doc[e]
  BY <1>9 DEF IInv, TypeOK
<1>11. \A e \in Documents : doc'[e].kind = "reservation" => doc'[e].amount \in Nat
  BY <1>4, <1>5, <1>10 DEF Kept
<1>12. ASSUME serial PROVE Holds(old) /\ \A v \in Warehouses : Balanced(old, v)
  BY <1>1, <1>2, <1>12, Alone
<1>13. ASSUME serial PROVE Holds(s)'
  <2>1. s.op \in {"ship", "receive", "adjust", "release"} => s.d # d
    BY <1>7, <1>8, <1>12, <1>13 DEF Holds, Is
  <2>2. s.op \in {"ship", "receive", "adjust", "release"} => s.d \in Documents
    BY <1>2, <1>7 DEF RequestOK
  <2>3. Holds(s)
    BY <1>2, <1>3, <1>7, <1>12, <1>13 DEF Holds
  <2> QED BY <1>8, <1>10, <2>1, <2>2, <2>3, HoldsKept
<1>14. ASSUME serial, NEW v \in Warehouses PROVE Balanced(s, v)'
  <2>1. /\ Accounted(v) \in Int /\ Active(v) \in Int /\ Effect(doc[d], v) \in Int
        /\ Held(doc[d], v) \in Int /\ Effect(x, v) \in Int /\ Held(x, v) \in Int
        /\ Accounted(v)' = Accounted(v) - Effect(doc[d], v) + Effect(x, v)
        /\ Active(v)' = Active(v) - Held(doc[d], v) + Held(x, v)
    BY <1>9, DocumentSums
  <2>2. Effect(doc[d], v) = 0 /\ Held(doc[d], v) = 0
    BY <1>8, SilentSums DEF Silent
  <2>3. Effect(x, v) = 0 /\ Held(x, v) = Withheld(s, v) /\ Pending(s, v) = 0
    BY <1>5, <1>7 DEF Effect, Held, Pending, Withheld
  <2>4. onHand[v] = Opening + Accounted(v) + other[v] + 0 /\ reserved[v] = Active(v) - 0
    BY <1>2, <1>12, <1>14 DEF Balanced, Pending, Withheld
  <2>5. onHand[v] \in Int /\ reserved[v] \in Int /\ other[v] \in Int /\ Opening \in Int
    BY StockAssumption DEF IInv, TypeOK
  <2>6. Accounted(v)' = Accounted(v) /\ Active(v)' = Active(v) + Withheld(s, v)
        /\ Withheld(s, v) \in Int
    BY <2>1, <2>2, <2>3
  <2>7. onHand'[v] = onHand[v] /\ reserved'[v] = reserved[v] /\ other'[v] = other[v]
    BY <1>8
  <2>8. onHand'[v] = Opening + Accounted(v)' + other'[v] + 0
        /\ reserved'[v] = Active(v)' - Withheld(s, v)
    BY <2>1, <2>4, <2>5, <2>6, <2>7
  <2> QED BY <1>7, <2>8 DEF Balanced, Pending, Withheld
<1>15. ASSUME serial, NEW p \in Requests, p # q PROVE At(p, "idle")
  BY <1>2, <1>15, Alone
<1> QED BY <1>7, <1>8, <1>11, <1>13, <1>14, <1>15, ServedStep

LEMMA IncrementReservedKept ==
  ASSUME IInv, Kept, NEW q \in Requests, IncrementReserved(q)
  PROVE  Kept'
<1>1. PICK old : old = request[q]
  OBVIOUS
<1>2. PICK w, n : w = old.w /\ n = old.amount
  OBVIOUS
<1>3. old.pc = "reserved" /\ w \in Warehouses /\ n \in Int /\ ~At(q, "idle")
  <2>1. old.pc = "reserved" /\ RequestOK(old) /\ ~At(q, "idle")
    BY <1>1 DEF IncrementReserved, At, IInv, TypeOK
  <2>2. Quantities \subseteq Int
    BY StockAssumption
  <2>3. old.w \in Warehouses /\ old.amount \in Quantities
    BY <2>1 DEF RequestOK
  <2> QED BY <1>2, <2>1, <2>2, <2>3
<1>4. /\ reserved' = [reserved EXCEPT ![w] = @ + n] /\ UNCHANGED <<onHand, doc, other, serial>>
      /\ request' = [request EXCEPT ![q] = Idle] /\ Idle.pc = "idle"
  BY <1>1, <1>2 DEF IncrementReserved, Return, Idle
<1>5. ASSUME serial', NEW v \in Warehouses PROVE Balanced(Idle, v)'
  <2>1. Balanced(old, v)
    BY <1>1, <1>3, <1>4, <1>5, Alone
  <2>2. reserved'[v] = IF v = w THEN reserved[v] + n ELSE reserved[v]
    BY <1>3, <1>4 DEF IInv, TypeOK
  <2>3. onHand[v] = Opening + Accounted(v) + other[v] + 0
        /\ reserved[v] = Active(v) - IF v = w THEN n ELSE 0
    BY <1>2, <1>3, <2>1 DEF Balanced, Pending, Withheld
  <2>4. Active(v) \in Int /\ reserved[v] \in Int
    BY SumsType DEF IInv, TypeOK
  <2>5. onHand'[v] = onHand[v] /\ other'[v] = other[v] /\ Accounted(v)' = Accounted(v)
        /\ Active(v)' = Active(v)
    BY <1>4, SameSums
  <2>6. reserved'[v] = Active(v)' - 0
    BY <1>3, <2>2, <2>3, <2>4, <2>5
  <2> QED BY <2>3, <2>5, <2>6 DEF Balanced, Pending, Withheld, Idle
<1>6. ASSUME serial', NEW p \in Requests, p # q PROVE At(p, "idle")
  BY <1>3, <1>4, <1>6, Alone
<1>7. \A e \in Documents : doc'[e].kind = "reservation" => doc'[e].amount \in Nat
  BY <1>4 DEF Kept
<1> QED BY <1>4, <1>5, <1>6, <1>7, ServedStep

\* A count or an order is written by a request that ends with it; what else it moves is accounted for.
LEMMA SilentKept ==
  ASSUME IInv, Kept, NEW q \in Requests, request[q].pc \in {"counting", "submitting", "approving", "posting"},
         Return(q), UNCHANGED reserved,
         NEW d \in Documents, NEW x, x.amount \in Int, x.kind # "reservation",
         doc' = [doc EXCEPT ![d] = x], Silent(doc[d]), Silent(x),
         serial' => /\ serial
                    /\ \A v \in Warehouses :
                         \E k \in Int : /\ onHand'[v] = onHand[v] + k
                                        /\ other'[v] = other[v] + k
  PROVE  Kept'
<1>1. \A v : Effect(x, v) = Effect(doc[d], v) /\ Held(x, v) = Held(doc[d], v)
  BY SilentSums
<1>2. \A v \in Warehouses : Accounted(v)' = Accounted(v) /\ Active(v)' = Active(v)
  BY <1>1, SumsKept
<1>3. \A e \in Documents : doc'[e].kind = "reservation" => doc'[e].amount \in Nat
  BY DEF Kept, IInv, TypeOK
<1>4. ~At(q, "idle") /\ ~At(q, "moved") /\ ~At(q, "reserved")
  BY DEF At
<1> QED BY <1>2, <1>3, <1>4, AccountedKept

\* Nothing moves.
LEMMA NothingMoves ==
  ASSUME TypeOK, UNCHANGED <<onHand, other>>
  PROVE  \A v \in Warehouses : \E k \in Int : onHand'[v] = onHand[v] + k /\ other'[v] = other[v] + k
<1> SUFFICES ASSUME NEW v \in Warehouses
             PROVE  onHand'[v] = onHand[v] + 0 /\ other'[v] = other[v] + 0
  OBVIOUS
<1> QED BY DEF TypeOK

LEMMA InsertCountKept ==
  ASSUME IInv, Kept, NEW q \in Requests, NEW d \in Documents, InsertCount(q, d)
  PROVE  Kept'
<1>1. request[q].pc = "counting" /\ request[q].read \in Int
  BY DEF InsertCount, At, IInv, TypeOK, RequestOK
<1>2. PICK w, n : w = request[q].w /\ n = request[q].read
  OBVIOUS
<1>3. PICK x : x = [NoDocument EXCEPT !.kind = "count", !.status = "IN_PROGRESS",
                                      !.place = w, !.amount = n]
  OBVIOUS
<1>4. x.kind = "count" /\ x.amount \in Int
  BY <1>1, <1>2, <1>3 DEF NoDocument
<1>5. doc' = [doc EXCEPT ![d] = x]
  BY <1>2, <1>3, Zenon DEF InsertCount
<1>6. doc[d].kind = "none" /\ Return(q) /\ UNCHANGED <<onHand, reserved, other, serial>>
  BY DEF InsertCount
<1>7. Silent(doc[d]) /\ Silent(x)
  BY <1>4, <1>6 DEF Silent
<1>8. \A v \in Warehouses : \E k \in Int : onHand'[v] = onHand[v] + k /\ other'[v] = other[v] + k
  BY <1>6, NothingMoves DEF IInv
<1> QED BY <1>1, <1>4, <1>5, <1>6, <1>7, <1>8, SilentKept

LEMMA WriteCountLineKept ==
  ASSUME IInv, Kept, NEW q \in Requests, WriteCountLine(q)
  PROVE  Kept'
<1>1. PICK d : d = request[q].d
  OBVIOUS
<1>2. d \in Documents /\ doc[d].kind = "count" /\ request[q].pc = "submitting"
  BY <1>1, KnownKind DEF WriteCountLine, At
<1>3. PICK y : y = doc[d]
  OBVIOUS
<1>4. PICK x : x = [y EXCEPT !.counted = request[q].amount]
  OBVIOUS
<1>5. y.amount \in Int /\ x.kind = "count" /\ x.amount = y.amount
  <2>1. y \in DocumentRows
    BY <1>2, <1>3 DEF IInv, TypeOK
  <2> QED BY <1>2, <1>3, <1>4, <2>1 DEF DocumentRows
<1>6. doc' = [doc EXCEPT ![d] = x] /\ Return(q) /\ UNCHANGED <<onHand, reserved, other, serial>>
  BY <1>1, <1>3, <1>4 DEF WriteCountLine, IInv, TypeOK
<1>7. Silent(doc[d]) /\ Silent(x)
  BY <1>2, <1>5 DEF Silent
<1>8. \A v \in Warehouses : \E k \in Int : onHand'[v] = onHand[v] + k /\ other'[v] = other[v] + k
  BY <1>6, NothingMoves DEF IInv
<1> QED BY <1>2, <1>5, <1>6, <1>7, <1>8, SilentKept

\* The status of a count or an order says nothing of the stock.
LEMMA CloseKept ==
  ASSUME IInv, Kept, NEW q \in Requests, request[q].pc \in {"approving", "posting"},
         NEW status, Return(q), UNCHANGED reserved,
         doc' = [doc EXCEPT ![request[q].d].status = status],
         serial' => /\ serial
                    /\ \A v \in Warehouses :
                         \E k \in Int : /\ onHand'[v] = onHand[v] + k
                                        /\ other'[v] = other[v] + k
  PROVE  Kept'
<1>1. PICK d : d = request[q].d
  OBVIOUS
<1>2. d \in Documents /\ doc[d].kind \in {"count", "order"}
  BY <1>1, KnownKind
<1>3. PICK y : y = doc[d]
  OBVIOUS
<1>4. PICK x : x = [y EXCEPT !.status = status]
  OBVIOUS
<1>5. y.amount \in Int /\ x.kind = y.kind /\ x.amount = y.amount
  <2>1. y \in DocumentRows
    BY <1>2, <1>3 DEF IInv, TypeOK
  <2> QED BY <1>4, <2>1 DEF DocumentRows
<1>6. doc' = [doc EXCEPT ![d] = x]
  BY <1>1, <1>3, <1>4 DEF IInv, TypeOK
<1>7. Silent(doc[d]) /\ Silent(x) /\ x.kind # "reservation"
  BY <1>2, <1>3, <1>5 DEF Silent
<1> QED BY <1>2, <1>5, <1>6, <1>7, SilentKept

LEMMA PostCountKept ==
  ASSUME IInv, Kept, NEW q \in Requests, PostCount(q)
  PROVE  Kept'
<1>1. PICK s : s = request[q]
  OBVIOUS
<1>2. s.w \in Warehouses /\ s.pc = "approving" /\ s.amount \in Int /\ s.read \in Counts \cup {Nothing}
  BY <1>1, KnownKind DEF PostCount, At, IInv, TypeOK, RequestOK, RequestStates
<1>3. doc' = [doc EXCEPT ![s.d].status = "APPROVED"] /\ Return(q) /\ UNCHANGED reserved
  BY <1>1 DEF PostCount
<1>4. ASSUME serial'
      PROVE  /\ serial
             /\ \A v \in Warehouses : \E k \in Int : onHand'[v] = onHand[v] + k /\ other'[v] = other[v] + k
  <2>1. CASE s.read # Nothing /\ s.read # s.amount
    <3>1. s.read \in Int
      <4>1. Counts \subseteq Int
        BY StockAssumption
      <4> QED BY <1>2, <2>1, <4>1
    <3>2. /\ onHand' = [onHand EXCEPT ![s.w] = s.read] /\ serial /\ onHand[s.w] = s.amount
          /\ Account(s.w, s.read - s.amount, serial')
      BY <1>1, <1>4, <2>1 DEF PostCount
    <3>3. PICK n : n = s.read - s.amount
      OBVIOUS
    <3>4. n \in Int /\ s.read = onHand[s.w] + n
      BY <1>2, <3>1, <3>2, <3>3
    <3>5. Account(s.w, n, TRUE) /\ onHand' = [onHand EXCEPT ![s.w] = onHand[s.w] + n]
      BY <1>4, <3>2, <3>3, <3>4 DEF Account
    <3> QED BY <1>2, <3>2, <3>4, <3>5, AccountedFor DEF IInv
  <2>2. CASE ~(s.read # Nothing /\ s.read # s.amount)
    <3>1. UNCHANGED <<onHand, other, serial>>
      BY <1>1, <2>2 DEF PostCount
    <3> QED BY <1>4, <3>1, NothingMoves DEF IInv
  <2> QED BY <2>1, <2>2
<1> QED BY <1>1, <1>2, <1>3, <1>4, CloseKept

LEMMA PostReceiptKept ==
  ASSUME IInv, Kept, NEW q \in Requests, PostReceipt(q)
  PROVE  Kept'
<1>1. PICK s : s = request[q]
  OBVIOUS
<1>2. s.w \in Warehouses /\ s.pc = "posting" /\ s.amount \in Int
  BY <1>1, KnownKind DEF PostReceipt, At, IInv, TypeOK, RequestStates
<1>3. /\ doc' = [doc EXCEPT ![s.d].status = "RECEIVED"] /\ Return(q) /\ UNCHANGED <<reserved, serial>>
      /\ onHand' = [onHand EXCEPT ![s.w] = @ + s.amount] /\ Account(s.w, s.amount, serial)
  BY <1>1 DEF PostReceipt
<1>4. ASSUME serial'
      PROVE  /\ serial
             /\ \A v \in Warehouses : \E k \in Int : onHand'[v] = onHand[v] + k /\ other'[v] = other[v] + k
  <2>1. serial /\ Account(s.w, s.amount, TRUE)
    BY <1>3, <1>4 DEF Account
  <2> QED BY <1>2, <1>3, <2>1, AccountedFor DEF IInv
<1> QED BY <1>1, <1>2, <1>3, <1>4, CloseKept

\* A statement on a document that says nothing of the stock, and that no request works on.
LEMMA DocumentKept ==
  ASSUME IInv, Kept, NEW d \in Documents, NEW x, x.amount \in Int, x.kind # "reservation",
         doc' = [doc EXCEPT ![d] = x], Silent(doc[d]), Silent(x), doc[d].kind \in {"none", "order"},
         UNCHANGED <<onHand, reserved, request, other, serial>>
  PROVE  Kept'
<1>1. \A e \in Documents : doc'[e] = IF e = d THEN x ELSE doc[e]
  BY DEF IInv, TypeOK
<1>2. \A e \in Documents : doc'[e].kind = "reservation" => doc'[e].amount \in Nat
  BY <1>1 DEF Kept
<1>3. \A v \in Warehouses : Accounted(v)' = Accounted(v) /\ Active(v)' = Active(v)
  <2>1. \A v : Effect(x, v) = Effect(doc[d], v) /\ Held(x, v) = Held(doc[d], v)
    BY SilentSums
  <2> QED BY <2>1, SumsKept
<1> SUFFICES ASSUME serial'
             PROVE  /\ \A p, r \in Requests : ~At(p, "idle")' /\ ~At(r, "idle")' => p = r
                    /\ Quiescent' => \A w \in Warehouses : Balanced(Idle, w)'
                    /\ \A p \in Requests : ~At(p, "idle")' =>
                         Holds(request[p])' /\ \A w \in Warehouses : Balanced(request[p], w)'
  BY <1>2 DEF Kept, Served
<1>4. \A p \in Requests : At(p, "idle")' <=> At(p, "idle")
  BY DEF At
<1>5. ASSUME NEW s, NEW w \in Warehouses, Balanced(s, w) PROVE Balanced(s, w)'
  BY <1>3, <1>5, BalancedKept
<1>6. Quiescent' => \A w \in Warehouses : Balanced(Idle, w)'
  BY <1>4, <1>5 DEF Quiescent, Kept, Served
<1>7. ASSUME NEW p \in Requests, ~At(p, "idle")
      PROVE  Holds(request[p])' /\ \A w \in Warehouses : Balanced(request[p], w)'
  <2>1. PICK s : s = request[p]
    OBVIOUS
  <2>2. Holds(s) /\ (\A w \in Warehouses : Balanced(s, w)) /\ RequestOK(s)
    BY <1>7, <2>1, Alone DEF IInv, TypeOK
  <2>3. s.op \in {"ship", "receive", "adjust", "release"} => s.d # d /\ s.d \in Documents
    BY <2>2 DEF Holds, Is, RequestOK
  <2>4. Holds(s)'
    BY <1>1, <2>2, <2>3, HoldsKept
  <2>5. \A w \in Warehouses : Balanced(s, w)'
    BY <1>5, <2>2
  <2>6. request'[p] = s
    BY <2>1
  <2> QED BY <2>4, <2>5, <2>6, Zenon DEF Holds, Balanced
<1> QED BY <1>4, <1>6, <1>7 DEF Kept, Served

LEMMA CreateKept == ASSUME IInv, Kept, Create PROVE Kept'
<1>1. PICK d \in Documents, w \in Warehouses, n \in Quantities :
        \/ \E v \in Warehouses : CreateTransfer(d, w, v, n)
        \/ CreateAdjustment(d, w, n) \/ CreateAdjustment(d, w, -n)
        \/ \E status \in StatusesOf.order : CreateOrder(d, n, status)
  BY DEF Create
<1>2. PICK x : CreateDocument(d, x)
               /\ \/ \E v \in Warehouses :
                       x = [NoDocument EXCEPT !.kind = "transfer", !.status = "DRAFT",
                                              !.place = w, !.to = v, !.amount = n]
                  \/ \E m \in {n, -n} :
                       x = [NoDocument EXCEPT !.kind = "adjustment", !.status = "PENDING",
                                              !.place = w, !.amount = m]
                  \/ \E status \in StatusesOf.order :
                       x = [NoDocument EXCEPT !.kind = "order", !.status = status, !.amount = n]
  BY <1>1, Zenon DEF CreateTransfer, CreateAdjustment, CreateOrder
<1>3. n \in Int /\ -n \in Int
  BY StockAssumption
<1>4. x.amount \in Int /\ x.kind # "reservation" /\ Silent(x)
  BY <1>2, <1>3 DEF NoDocument, Silent
<1>5. doc[d].kind = "none" /\ doc' = [doc EXCEPT ![d] = x]
      /\ UNCHANGED <<onHand, reserved, request, other, serial>>
  BY <1>2 DEF CreateDocument
<1>6. Silent(doc[d])
  BY <1>5 DEF Silent
<1> QED BY <1>4, <1>5, <1>6, DocumentKept

LEMMA OrderStatusKept ==
  ASSUME IInv, Kept, NEW d \in Documents, NEW status \in StatusesOf.order, SetOrderStatus(d, status)
  PROVE  Kept'
<1>1. PICK y : y = doc[d]
  OBVIOUS
<1>2. PICK x : x = [y EXCEPT !.status = status]
  OBVIOUS
<1>3. y.kind = "order" /\ y.amount \in Int /\ x.kind = "order" /\ x.amount = y.amount
  <2>1. y \in DocumentRows /\ y.kind = "order"
    BY <1>1 DEF SetOrderStatus, IInv, TypeOK
  <2> QED BY <1>2, <2>1 DEF DocumentRows
<1>4. doc' = [doc EXCEPT ![d] = x] /\ UNCHANGED <<onHand, reserved, request, other, serial>>
  BY <1>1, <1>2 DEF SetOrderStatus
<1> QED BY <1>1, <1>3, <1>4, DocumentKept DEF Silent

LEMMA HandleKept ==
  ASSUME IInv, Kept, NEW q \in Requests, Handle(q)
  PROVE  Kept'
<1>1. ASSUME NEW w \in Warehouses,
             \/ \E n \in Signed : Move(q, w, n)
             \/ \E n \in Quantities : ReserveStock(q, w, n)
             \/ CreateStockCount(q, w)
      PROVE  Kept'
  BY <1>1, StartKept
<1>2. ASSUME NEW d \in Documents,
             \/ ShipTransfer(q, d) \/ ReceiveTransfer(q, d) \/ ApproveAdjustment(q, d)
             \/ ReleaseReservation(q, d) \/ ApproveStockCount(q, d)
             \/ \E n \in Counts : SubmitCountLine(q, d, n)
             \/ \E w \in Warehouses : ReceivePurchaseOrder(q, d, w)
      PROVE  Kept'
  BY <1>2, StartDocumentKept
<1>3. ASSUME NEW d \in Documents, CreateReservation(q, d) \/ InsertCount(q, d)
      PROVE  Kept'
  BY <1>3, CreateReservationKept, InsertCountKept
<1>4. InsufficientStock(q) \/ Fail(q) => Kept'
  BY EndKept
<1>5. WriteBalance(q) => Kept'
  BY WriteMove, WriteForDocument
<1> QED BY <1>1, <1>2, <1>3, <1>4, <1>5, ReadBalanceKept, SetStatusKept,
           IncrementReservedKept, WriteCountLineKept, PostCountKept, PostReceiptKept DEF Handle

LEMMA KeptInductive == IInv /\ Kept /\ [Next]_vars => Kept'
<1> SUFFICES ASSUME IInv, Kept, [Next]_vars PROVE Kept'
  OBVIOUS
<1>1. CASE \E d \in Documents, status \in StatusesOf.order : SetOrderStatus(d, status)
  BY <1>1, OrderStatusKept
<1>2. CASE \E q \in Requests : Handle(q)
  BY <1>2, HandleKept
<1>3. CASE UNCHANGED vars
  <2>1. /\ doc' = doc /\ request' = request /\ serial' = serial
        /\ UNCHANGED <<onHand, reserved, other>>
    BY <1>3 DEF vars
  <2>2. ASSUME NEW s
        PROVE  (Holds(s)' <=> Holds(s)) /\ \A w \in Warehouses : Balanced(s, w)' <=> Balanced(s, w)
    <3>1. Holds(s)' <=> Holds(s)
      BY <2>1, Zenon DEF Holds, Is
    <3>2. \A w \in Warehouses : Accounted(w)' = Accounted(w) /\ Active(w)' = Active(w)
      BY <2>1, SameSums
    <3>3. \A w \in Warehouses : Balanced(s, w)' <=> Balanced(s, w)
      BY <2>1, <3>2 DEF Balanced
    <3> QED BY <3>1, <3>3
  <2>3. \A p \in Requests : At(p, "idle")' <=> At(p, "idle")
    BY <2>1 DEF At
  <2>4. ASSUME NEW p \in Requests, Holds(request[p]), \A w \in Warehouses : Balanced(request[p], w)
        PROVE  Holds(request[p])' /\ \A w \in Warehouses : Balanced(request[p], w)'
    <3>1. PICK s : s = request[p]
      OBVIOUS
    <3>2. Holds(s)' /\ \A w \in Warehouses : Balanced(s, w)'
      BY <2>2, <2>4, <3>1
    <3>3. request'[p] = s
      BY <2>1, <3>1
    <3> QED BY <3>2, <3>3, Zenon DEF Holds, Balanced
  <2>5. Quiescent' => Quiescent
    BY <2>3 DEF Quiescent
  <2> QED BY <2>1, <2>2, <2>3, <2>4, <2>5 DEF Kept, Served
<1> QED BY <1>1, <1>2, <1>3, CreateKept DEF Next

LEMMA Serving == Spec => []Kept
<1>1. Init => Kept
  BY Initially, KeptInitially
<1>2. IInv /\ IInv' /\ Kept /\ [Next]_vars => Kept'
  BY KeptInductive
<1> QED BY <1>1, <1>2, Invariance, PTL DEF Spec

(***************************************************************************)
(* Requests served one after the other keep the books, however many        *)
(* documents, warehouses and movements there are: each leaves pending just *)
(* what the statement after its movement adds to what the documents say.   *)
(***************************************************************************)
THEOREM Books == Spec => []BooksAgree
<1>1. IInv /\ Kept => BooksAgree
  <2> SUFFICES ASSUME IInv, Kept, serial, Quiescent, NEW w \in Warehouses
               PROVE  onHand[w] = Opening + Accounted(w) + other[w] /\ reserved[w] = Active(w)
    BY DEF BooksAgree
  <2>1. Balanced(Idle, w)
    BY DEF Kept, Served
  <2>2. Accounted(w) \in Int /\ Active(w) \in Int
    BY SumsType
  <2> QED BY <2>1, <2>2, StockAssumption DEF Balanced, Pending, Withheld, Idle, IInv, TypeOK
<1> QED BY <1>1, Serving, Invariance, PTL
-----------------------------------------------------------------------------
(* Who overdraws a balance. *)

\* What a request that works on a count knows of it.
Counting(s) ==
  /\ s.pc = "approving" => doc[s.d].place = s.w /\ (serial => s.read = doc[s.d].counted)
  /\ s.pc = "submitting" /\ serial => doc[s.d].status = "IN_PROGRESS"

CountInv == OverdrawnByCount /\ \A q \in Requests : Counting(request[q])

\* A step that writes the row of no count.
CountsKept == \A d \in Documents : doc[d].kind = "count" => doc'[d] = doc[d]

\* It writes one row, which is not a count's.
LEMMA OtherRow ==
  ASSUME IInv, NEW e \in Documents, NEW x, doc' = [doc EXCEPT ![e] = x], doc[e].kind # "count"
  PROVE  CountsKept
BY DEF IInv, TypeOK, CountsKept

LEMMA DocumentsKeepCounts ==
  ASSUME IInv,
         Create \/ \E d \in Documents, status \in StatusesOf.order : SetOrderStatus(d, status)
  PROVE  CountsKept /\ UNCHANGED <<onHand, request, serial>>
<1>1. CASE Create
  <2>1. PICK d \in Documents : \E row : CreateDocument(d, row)
    BY <1>1 DEF Create, CreateTransfer, CreateAdjustment, CreateOrder
  <2> QED BY <2>1, OtherRow DEF CreateDocument
<1>2. CASE \E d \in Documents, status \in StatusesOf.order : SetOrderStatus(d, status)
  <2>1. PICK d \in Documents, status \in StatusesOf.order : SetOrderStatus(d, status)
    BY <1>2
  <2>2. doc' = [doc EXCEPT ![d] = [doc[d] EXCEPT !.status = status]] /\ doc[d].kind = "order"
        /\ UNCHANGED <<onHand, request, serial>>
    BY <2>1 DEF SetOrderStatus
  <2> QED BY <2>2, OtherRow
<1> QED BY <1>1, <1>2

\* What a step of a request does to its own state.
Starts(q) ==
  \/ \E d \in Documents : ApproveStockCount(q, d) \/ \E n \in Counts : SubmitCountLine(q, d, n)
  \/ request'[q].pc \notin {"approving", "submitting"}

LEMMA BeginStarts ==
  ASSUME IInv, NEW q \in Requests, NEW pc, NEW op, NEW d, NEW w, NEW amount, NEW read,
         Begin(q, pc, op, d, w, amount, read)
  PROVE  /\ CountsKept /\ UNCHANGED onHand
         /\ request' = [request EXCEPT ![q] = [pc |-> pc, op |-> op, d |-> d, w |-> w,
                                               amount |-> amount, read |-> read]]
         /\ request'[q].pc = pc
         /\ serial' = (serial /\ Quiescent)
BY DEF Begin, IInv, TypeOK, CountsKept

\* A request that starts: it is the first there is, or requests overlap.
LEMMA StartsAlone ==
  ASSUME IInv, NEW q \in Requests,
         \/ \E w \in Warehouses : \/ \E n \in Signed : Move(q, w, n)
                                  \/ \E n \in Quantities : ReserveStock(q, w, n)
                                  \/ CreateStockCount(q, w)
         \/ \E d \in Documents :
              \/ ShipTransfer(q, d) \/ ReceiveTransfer(q, d) \/ ApproveAdjustment(q, d)
              \/ ReleaseReservation(q, d) \/ ApproveStockCount(q, d)
              \/ \E n \in Counts : SubmitCountLine(q, d, n)
              \/ \E w \in Warehouses : ReceivePurchaseOrder(q, d, w)
  PROVE  /\ CountsKept /\ UNCHANGED onHand /\ Starts(q)
         /\ \E s : request' = [request EXCEPT ![q] = s]
         /\ serial' = (serial /\ Quiescent)
<1>1. CASE \E w \in Warehouses : \/ \E n \in Signed : Move(q, w, n)
                                 \/ \E n \in Quantities : ReserveStock(q, w, n)
                                 \/ CreateStockCount(q, w)
  <2>1. PICK pc \in {"moving", "reserving", "counting"} :
          \E op, d, w, amount, read : Begin(q, pc, op, d, w, amount, read)
    BY <1>1 DEF Move, ReserveStock, CreateStockCount
  <2> QED BY <2>1, BeginStarts DEF Starts
<1>2. CASE \E d \in Documents :
             \/ ShipTransfer(q, d) \/ ReceiveTransfer(q, d) \/ ApproveAdjustment(q, d)
             \/ ReleaseReservation(q, d)
             \/ \E w \in Warehouses : ReceivePurchaseOrder(q, d, w)
  <2>1. PICK pc \in {"moving", "posting"} :
          \E op, d, w, amount, read : Begin(q, pc, op, d, w, amount, read)
    BY <1>2 DEF ShipTransfer, ReceiveTransfer, ApproveAdjustment, ReleaseReservation,
                ReceivePurchaseOrder
  <2> QED BY <2>1, BeginStarts DEF Starts
<1>3. CASE \E d \in Documents : ApproveStockCount(q, d) \/ \E n \in Counts : SubmitCountLine(q, d, n)
  <2>1. \E pc, op, d, w, amount, read : Begin(q, pc, op, d, w, amount, read)
    BY <1>3 DEF ApproveStockCount, SubmitCountLine
  <2> QED BY <1>3, <2>1, BeginStarts DEF Starts
<1> QED BY <1>1, <1>2, <1>3

\* A step of a request on its way that writes no count's row.  It does not
\* leave less than nothing where there was not.
LEMMA OnItsWay ==
  ASSUME IInv, NEW q \in Requests,
         \/ ReadBalance(q) \/ InsufficientStock(q) \/ WriteBalance(q) \/ SetStatus(q)
         \/ IncrementReserved(q) \/ PostReceipt(q) \/ Fail(q)
         \/ \E d \in Documents : CreateReservation(q, d) \/ InsertCount(q, d)
  PROVE  /\ CountsKept
         /\ \A w \in Warehouses : onHand'[w] < 0 => onHand[w] < 0
         /\ request'[q].pc \notin {"approving", "submitting"}
         /\ \E s : request' = [request EXCEPT ![q] = s]
         /\ serial' => serial
<1>1. request \in [Requests -> RequestStates] /\ onHand \in [Warehouses -> Int]
      /\ RequestOK(request[q]) /\ Knows(request[q])
  BY DEF IInv, TypeOK
<1>2. CASE ReadBalance(q)
  BY <1>1, <1>2 DEF ReadBalance, At, CountsKept, RequestStates
<1>3. CASE InsufficientStock(q) \/ Fail(q)
  <2>1. doc' = doc /\ onHand' = onHand /\ request' = [request EXCEPT ![q] = Idle]
    BY <1>3 DEF InsufficientStock, Fail, Return
  <2>2. serial' => serial
    BY <1>3, Zenon DEF InsufficientStock, Fail
  <2> QED BY <1>1, <2>1, <2>2 DEF Idle, CountsKept
<1>4. CASE IncrementReserved(q)
  BY <1>1, <1>4 DEF IncrementReserved, Return, Idle, At, CountsKept
<1>5. CASE \E d \in Documents : CreateReservation(q, d) \/ InsertCount(q, d)
  <2>1. PICK d \in Documents : CreateReservation(q, d) \/ InsertCount(q, d)
    BY <1>5
  <2>2. doc[d].kind = "none" /\ \E x : doc' = [doc EXCEPT ![d] = x]
    BY <2>1 DEF CreateReservation, InsertCount
  <2>3. CountsKept
    BY <2>2, OtherRow
  <2> QED BY <1>1, <2>1, <2>3 DEF CreateReservation, InsertCount, Return, Idle, At, RequestStates
<1>6. CASE WriteBalance(q)
  <2>1. PICK s : s = request[q]
    OBVIOUS
  <2>2. s.pc = "open" /\ s.read \in Nat /\ s.w \in Warehouses
        /\ s.op \in {"move", "ship", "receive", "adjust", "release"}
        /\ (s.op # "move" => s.d \in Documents /\ doc[s.d].kind # "count")
    BY <1>1, <1>6, <2>1 DEF WriteBalance, At, RequestOK, Knows, KindOf
  <2>3. CountsKept
    <3>1. doc' = doc \/ (s.op # "move" /\ \E x : doc' = [doc EXCEPT ![s.d] = x])
      BY <1>6, <2>1 DEF WriteBalance
    <3> QED BY <2>2, <3>1, OtherRow DEF CountsKept
  <2>4. onHand' = onHand \/ onHand' = [onHand EXCEPT ![s.w] = s.read]
    BY <1>6, <2>1 DEF WriteBalance
  <2>5. \A w \in Warehouses : onHand'[w] < 0 => onHand[w] < 0
    BY <1>1, <2>2, <2>4
  <2>6. \/ request' = [request EXCEPT ![q] = Idle]
        \/ request' = [request EXCEPT ![q] = [s EXCEPT !.pc = "moved", !.read = 0]]
    BY <1>6, <2>1 DEF WriteBalance, Return
  <2>7. request'[q].pc \notin {"approving", "submitting"}
    <3>1. /\ s \in RequestStates
          /\ \/ request'[q] = Idle
             \/ request'[q] = [s EXCEPT !.pc = "moved", !.read = 0]
      BY <1>1, <2>1, <2>6
    <3>2. PICK x : x = [s EXCEPT !.pc = "moved", !.read = 0]
      OBVIOUS
    <3>3. x.pc = "moved" /\ Idle.pc = "idle"
      BY <3>1, <3>2 DEF Idle, RequestStates
    <3> QED BY <3>1, <3>2, <3>3
  <2>8. serial' = serial
    BY <1>6 DEF WriteBalance
  <2> QED BY <2>3, <2>5, <2>6, <2>7, <2>8
<1>7. CASE SetStatus(q)
  <2>1. PICK s : s = request[q]
    OBVIOUS
  <2>2. s.pc = "moved" /\ s.d \in Documents /\ doc[s.d].kind # "count"
    BY <1>1, <1>7, <2>1 DEF SetStatus, At, RequestOK, Knows, KindOf
  <2>3. \E x : doc' = [doc EXCEPT ![s.d] = x]
    BY <1>7, <2>1 DEF SetStatus
  <2>4. CountsKept
    BY <2>2, <2>3, OtherRow
  <2> QED BY <1>1, <1>7, <2>1, <2>2, <2>4 DEF SetStatus, Return, Idle, At
<1>8. CASE PostReceipt(q)
  <2>1. PICK s : s = request[q]
    OBVIOUS
  <2>2. s.pc = "posting" /\ s.d \in Documents /\ doc[s.d].kind # "count"
        /\ s.w \in Warehouses /\ s.amount \in Nat
    BY <1>1, <1>8, <2>1, StockAssumption DEF PostReceipt, At, RequestOK, Knows, KindOf
  <2>3. \E x : doc' = [doc EXCEPT ![s.d] = x]
    BY <1>8, <2>1 DEF PostReceipt
  <2>4. CountsKept
    BY <2>2, <2>3, OtherRow
  <2>5. onHand' = [onHand EXCEPT ![s.w] = onHand[s.w] + s.amount]
    BY <1>8, <2>1 DEF PostReceipt
  <2>6. \A w \in Warehouses : onHand'[w] < 0 => onHand[w] < 0
    BY <1>1, <2>2, <2>5
  <2> QED BY <1>1, <1>8, <2>1, <2>2, <2>4, <2>6 DEF PostReceipt, Return, Idle, At
<1> QED BY <1>2, <1>3, <1>4, <1>5, <1>6, <1>7, <1>8

\* What a request knows of a count stays so as long as no count's row is written.
LEMMA CountingKept ==
  ASSUME CountsKept, serial' => serial, NEW s, Counting(s),
         s.pc \in {"approving", "submitting"} => s.d \in Documents /\ doc[s.d].kind = "count"
  PROVE  Counting(s)'
<1>1. s.pc \in {"approving", "submitting"} => doc'[s.d] = doc[s.d]
  BY DEF CountsKept
<1> QED BY <1>1 DEF Counting

LEMMA OthersCounting ==
  ASSUME IInv, CountInv, CountsKept, serial' => serial,
         NEW p \in Requests, request'[p] = request[p]
  PROVE  Counting(request[p])'
<1>1. PICK s : s = request[p]
  OBVIOUS
<1>2. s.pc \in {"approving", "submitting"} => s.d \in Documents /\ doc[s.d].kind = "count"
  BY <1>1, KnownKind
<1>3. Counting(s)
  BY <1>1 DEF CountInv
<1>4. Counting(s)'
  BY <1>2, <1>3, CountingKept
<1>5. request'[p] = s
  BY <1>1
<1> QED BY <1>4, <1>5, Zenon DEF Counting

\* A balance that is overdrawn was so before: the count that did it is still there.
LEMMA OverdrawnKept ==
  ASSUME CountsKept, OverdrawnByCount, serial' => serial,
         \A w \in Warehouses : onHand'[w] < 0 => onHand[w] < 0
  PROVE  OverdrawnByCount'
<1> SUFFICES ASSUME NEW w \in Warehouses, onHand'[w] < 0
             PROVE  \E d \in Documents :
                      /\ Is(d, "count", "APPROVED")' /\ doc'[d].place = w
                      /\ serial' => doc'[d].counted # Nothing /\ doc'[d].counted < 0
  BY DEF OverdrawnByCount
<1>1. PICK d \in Documents : /\ Is(d, "count", "APPROVED") /\ doc[d].place = w
                             /\ serial => doc[d].counted # Nothing /\ doc[d].counted < 0
  BY DEF OverdrawnByCount
<1>2. doc'[d] = doc[d]
  BY <1>1 DEF CountsKept, Is
<1> QED BY <1>1, <1>2 DEF Is

LEMMA KeptCountsStep ==
  ASSUME IInv, CountInv, CountsKept, serial' => serial,
         \A w \in Warehouses : onHand'[w] < 0 => onHand[w] < 0,
         NEW q \in Requests, NEW s, request' = [request EXCEPT ![q] = s], Counting(s)'
  PROVE  CountInv'
<1>1. OverdrawnByCount'
  BY OverdrawnKept DEF CountInv
<1>2. ASSUME NEW p \in Requests PROVE Counting(request[p])'
  <2>1. request'[p] = IF p = q THEN s ELSE request[p]
    BY DEF IInv, TypeOK
  <2>2. CASE p = q
    BY <2>1, <2>2, Zenon DEF Counting
  <2>3. CASE p # q
    BY <2>1, <2>3, OthersCounting
  <2> QED BY <2>2, <2>3
<1> QED BY <1>1, <1>2 DEF CountInv

\* A request that starts working on a count has just read it.
LEMMA StartCountInv ==
  ASSUME IInv, CountInv, NEW q \in Requests, NEW d \in Documents,
         ApproveStockCount(q, d) \/ \E n \in Counts : SubmitCountLine(q, d, n)
  PROVE  CountInv'
<1>1. PICK pc, op, w, amount, read :
        /\ Begin(q, pc, op, d, w, amount, read)
        /\ Is(d, "count", "IN_PROGRESS")
        /\ w = doc[d].place
        /\ pc = "approving" => read = doc[d].counted
  BY DEF ApproveStockCount, SubmitCountLine
<1>2. PICK s : s = [pc |-> pc, op |-> op, d |-> d, w |-> w, amount |-> amount, read |-> read]
  OBVIOUS
<1>3. /\ CountsKept /\ UNCHANGED onHand /\ request' = [request EXCEPT ![q] = s]
      /\ serial' = (serial /\ Quiescent)
  BY <1>1, <1>2, BeginStarts
<1>4. doc' = doc
  BY <1>1 DEF Begin
<1>5. Counting(s)'
  BY <1>1, <1>2, <1>4 DEF Counting, Is
<1> QED BY <1>3, <1>5, KeptCountsStep

\* A step that writes the row of a count.  Requests that are served one after the
\* other leave nobody else who knows it.
LEMMA CountRowStep ==
  ASSUME IInv, Kept, CountInv, NEW q \in Requests, ~At(q, "idle"),
         NEW d \in Documents, NEW x, doc[d].kind = "count", doc' = [doc EXCEPT ![d] = x],
         x.place = doc[d].place, Return(q), serial' => serial
  PROVE  \A p \in Requests : Counting(request[p])'
<1> SUFFICES ASSUME NEW p \in Requests PROVE Counting(request[p])'
  OBVIOUS
<1>1. request'[p] = (IF p = q THEN Idle ELSE request[p])
      /\ \A e \in Documents : doc'[e].place = doc[e].place
  BY DEF IInv, TypeOK, Return
<1>2. CASE request'[p].pc \notin {"approving", "submitting"}
  BY <1>2 DEF Counting
<1>3. CASE request'[p].pc \in {"approving", "submitting"}
  <2>1. p # q /\ request'[p] = request[p]
    BY <1>1, <1>3 DEF Idle
  <2>2. ~serial'
    BY <1>3, <2>1, Alone DEF At
  <2>3. request[p].d \in Documents
    BY <1>3, <2>1, KnownKind
  <2>4. request[p].pc = "approving" => doc[request[p].d].place = request[p].w
    BY DEF CountInv, Counting
  <2> QED BY <1>1, <2>1, <2>2, <2>3, <2>4 DEF Counting
<1> QED BY <1>2, <1>3

\* A line is written again after the approval only if requests overlap.
LEMMA WriteCountLineOverdrawn ==
  ASSUME IInv, Kept, CountInv, NEW q \in Requests, WriteCountLine(q)
  PROVE  CountInv'
<1>1. PICK s : s = request[q]
  OBVIOUS
<1>2. s.pc = "submitting" /\ s.d \in Documents /\ doc[s.d].kind = "count"
      /\ (serial => doc[s.d].status = "IN_PROGRESS")
  BY <1>1, KnownKind DEF WriteCountLine, At, CountInv, Counting
<1>3. PICK d \in Documents : d = s.d
  BY <1>2
<1>4. PICK x : x = [doc[d] EXCEPT !.counted = s.amount]
  OBVIOUS
<1>5. doc' = [doc EXCEPT ![d] = x] /\ Return(q) /\ onHand' = onHand /\ serial' = serial
  BY <1>1, <1>3, <1>4 DEF WriteCountLine
<1>6. x.kind = doc[d].kind /\ x.place = doc[d].place /\ x.status = doc[d].status
  BY <1>4
<1>7. \A p \in Requests : Counting(request[p])'
  BY <1>1, <1>2, <1>3, <1>5, <1>6, CountRowStep DEF At
<1>8. OverdrawnByCount'
  <2> SUFFICES ASSUME NEW w \in Warehouses, onHand[w] < 0
               PROVE  \E e \in Documents :
                        /\ Is(e, "count", "APPROVED")' /\ doc'[e].place = w
                        /\ serial => doc'[e].counted # Nothing /\ doc'[e].counted < 0
    BY <1>5 DEF OverdrawnByCount
  <2>1. PICK e \in Documents : /\ Is(e, "count", "APPROVED") /\ doc[e].place = w
                               /\ serial => doc[e].counted # Nothing /\ doc[e].counted < 0
    BY DEF CountInv, OverdrawnByCount
  <2>2. doc'[e] = IF e = d THEN x ELSE doc[e]
    BY <1>5 DEF IInv, TypeOK
  <2>3. serial => e # d
    BY <1>2, <1>3, <2>1 DEF Is
  <2> QED BY <1>6, <2>1, <2>2, <2>3 DEF Is
<1> QED BY <1>7, <1>8 DEF CountInv

\* The balance becomes what the count's line says, and the count is approved.
LEMMA PostCountOverdrawn ==
  ASSUME IInv, Kept, CountInv, NEW q \in Requests, PostCount(q)
  PROVE  CountInv'
<1>1. PICK s : s = request[q]
  OBVIOUS
<1>2. s.pc = "approving" /\ s.d \in Documents /\ s.w \in Warehouses
      /\ doc[s.d].kind = "count" /\ doc[s.d].place = s.w
      /\ (serial => s.read = doc[s.d].counted)
  BY <1>1, KnownKind DEF PostCount, At, CountInv, Counting
<1>3. PICK d \in Documents : d = s.d
  BY <1>2
<1>4. PICK x : x = [doc[d] EXCEPT !.status = "APPROVED"]
  OBVIOUS
<1>5. doc' = [doc EXCEPT ![d] = x] /\ Return(q)
  BY <1>1, <1>3, <1>4 DEF PostCount
<1>6. /\ x.kind = "count" /\ x.place = doc[d].place /\ x.status = "APPROVED"
      /\ x.counted = doc[d].counted
  <2>1. doc[d] \in DocumentRows
    BY DEF IInv, TypeOK
  <2> QED BY <1>2, <1>3, <1>4, <2>1 DEF DocumentRows
<1>7. serial' => serial
  <2>1. serial' = (serial /\ onHand[s.w] = s.amount) \/ serial' = serial
    BY <1>1 DEF PostCount
  <2> QED BY <2>1, Zenon
<1>8. \A p \in Requests : Counting(request[p])'
  BY <1>1, <1>2, <1>3, <1>5, <1>6, <1>7, CountRowStep DEF At
<1>9. onHand' = onHand \/ (s.read # Nothing /\ onHand' = [onHand EXCEPT ![s.w] = s.read])
  BY <1>1 DEF PostCount
<1>10. OverdrawnByCount'
  <2> SUFFICES ASSUME NEW w \in Warehouses, onHand'[w] < 0
               PROVE  \E e \in Documents :
                        /\ Is(e, "count", "APPROVED")' /\ doc'[e].place = w
                        /\ serial' => doc'[e].counted # Nothing /\ doc'[e].counted < 0
    BY DEF OverdrawnByCount
  <2>1. \A e \in Documents : doc'[e] = IF e = d THEN x ELSE doc[e]
    BY <1>5 DEF IInv, TypeOK
  <2>2. CASE onHand'[w] = onHand[w]
    <3>1. PICK e \in Documents : /\ Is(e, "count", "APPROVED") /\ doc[e].place = w
                                 /\ serial => doc[e].counted # Nothing /\ doc[e].counted < 0
      BY <2>2 DEF CountInv, OverdrawnByCount
    <3> QED BY <1>6, <1>7, <2>1, <3>1 DEF Is
  <2>3. CASE onHand'[w] # onHand[w]
    <3>1. w = s.w /\ s.read # Nothing /\ onHand'[w] = s.read
      BY <1>9, <2>3 DEF IInv, TypeOK
    <3>2. doc'[d] = x
      BY <2>1
    <3> QED BY <1>2, <1>3, <1>6, <1>7, <3>1, <3>2 DEF Is
  <2> QED BY <2>2, <2>3
<1> QED BY <1>8, <1>10 DEF CountInv

LEMMA HandleOverdrawn ==
  ASSUME IInv, Kept, CountInv, NEW q \in Requests, Handle(q)
  PROVE  CountInv'
<1>1. CASE \E d \in Documents :
             ApproveStockCount(q, d) \/ \E n \in Counts : SubmitCountLine(q, d, n)
  BY <1>1, StartCountInv
<1>2. CASE \/ \E w \in Warehouses : \/ \E n \in Signed : Move(q, w, n)
                                    \/ \E n \in Quantities : ReserveStock(q, w, n)
                                    \/ CreateStockCount(q, w)
           \/ \E d \in Documents :
                \/ ShipTransfer(q, d) \/ ReceiveTransfer(q, d) \/ ApproveAdjustment(q, d)
                \/ ReleaseReservation(q, d)
                \/ \E w \in Warehouses : ReceivePurchaseOrder(q, d, w)
  <2>1. /\ CountsKept /\ onHand' = onHand /\ Starts(q)
        /\ \E s : request' = [request EXCEPT ![q] = s]
        /\ serial' = (serial /\ Quiescent)
    BY <1>2, StartsAlone
  <2>2. CASE \E d \in Documents :
               ApproveStockCount(q, d) \/ \E n \in Counts : SubmitCountLine(q, d, n)
    BY <2>2, StartCountInv
  <2>3. CASE request'[q].pc \notin {"approving", "submitting"}
    <3>1. PICK s : request' = [request EXCEPT ![q] = s]
      BY <2>1
    <3>2. request'[q] = s
      BY <3>1 DEF IInv, TypeOK
    <3>3. Counting(s)'
      BY <2>3, <3>2 DEF Counting
    <3> QED BY <2>1, <3>1, <3>3, KeptCountsStep
  <2> QED BY <2>1, <2>2, <2>3 DEF Starts
<1>3. CASE \/ ReadBalance(q) \/ InsufficientStock(q) \/ WriteBalance(q) \/ SetStatus(q)
           \/ IncrementReserved(q) \/ PostReceipt(q) \/ Fail(q)
           \/ \E d \in Documents : CreateReservation(q, d) \/ InsertCount(q, d)
  <2>1. /\ CountsKept
        /\ \A w \in Warehouses : onHand'[w] < 0 => onHand[w] < 0
        /\ request'[q].pc \notin {"approving", "submitting"}
        /\ \E s : request' = [request EXCEPT ![q] = s]
        /\ serial' => serial
    BY <1>3, OnItsWay
  <2>2. PICK s : request' = [request EXCEPT ![q] = s]
    BY <2>1
  <2>3. request'[q] = s
    BY <2>2 DEF IInv, TypeOK
  <2>4. Counting(s)'
    BY <2>1, <2>3 DEF Counting
  <2> QED BY <2>1, <2>2, <2>4, KeptCountsStep
<1>4. CASE WriteCountLine(q) \/ PostCount(q)
  BY <1>4, WriteCountLineOverdrawn, PostCountOverdrawn
<1>5. ASSUME NEW d \in Documents,
             \/ ShipTransfer(q, d) \/ ReceiveTransfer(q, d) \/ ApproveAdjustment(q, d)
             \/ ReleaseReservation(q, d) \/ CreateReservation(q, d)
             \/ InsertCount(q, d) \/ ApproveStockCount(q, d)
             \/ \E n \in Counts : SubmitCountLine(q, d, n)
             \/ \E w \in Warehouses : ReceivePurchaseOrder(q, d, w)
      PROVE  CountInv'
  BY <1>1, <1>2, <1>3, <1>5, Zenon
<1>6. CASE \E w \in Warehouses : \/ \E n \in Signed : Move(q, w, n)
                                 \/ \E n \in Quantities : ReserveStock(q, w, n)
                                 \/ CreateStockCount(q, w)
  BY <1>2, <1>6
<1>7. CASE \/ ReadBalance(q) \/ InsufficientStock(q) \/ WriteBalance(q) \/ SetStatus(q)
           \/ IncrementReserved(q) \/ PostReceipt(q) \/ Fail(q)
  BY <1>3, <1>7, Zenon
<1> QED BY <1>4, <1>5, <1>6, <1>7 DEF Handle

LEMMA CountInductive == IInv /\ Kept /\ CountInv /\ [Next]_vars => CountInv'
<1> SUFFICES ASSUME IInv, Kept, CountInv, [Next]_vars PROVE CountInv'
  OBVIOUS
<1>1. CASE \E q \in Requests : Handle(q)
  BY <1>1, HandleOverdrawn
<1>2. CASE \/ Create \/ UNCHANGED vars
           \/ \E d \in Documents, status \in StatusesOf.order : SetOrderStatus(d, status)
  <2>1. CountsKept /\ UNCHANGED <<onHand, request, serial>>
    BY <1>2, DocumentsKeepCounts DEF vars, CountsKept
  <2>2. OverdrawnByCount'
    BY <2>1, OverdrawnKept DEF CountInv
  <2>3. ASSUME NEW p \in Requests PROVE Counting(request[p])'
    BY <2>1, OthersCounting
  <2> QED BY <2>2, <2>3 DEF CountInv
<1> QED BY <1>1, <1>2 DEF Next

(***************************************************************************)
(* However requests overlap and wherever they fail, the only thing that    *)
(* takes a balance below zero is the approval of a count, and while        *)
(* requests are served one after the other, of one of less than nothing.   *)
(***************************************************************************)
THEOREM Overdrawn == Spec => []OverdrawnByCount
<1>1. Init => CountInv
  BY StockAssumption DEF Init, CountInv, OverdrawnByCount, Counting, Idle
<1>2. CountInv => OverdrawnByCount
  BY DEF CountInv
<1> QED BY <1>1, <1>2, CountInductive, Serving, Invariance, PTL DEF Spec
=============================================================================
