---------------------------- MODULE PosShiftsProofs -----------------------------
(***************************************************************************)
(* Theorems about PosShifts, for any number of users, terminals, shifts,   *)
(* sales, quotes and requests: types, SuccessiveShiftsShareNoSale and      *)
(* InvoicedAsAccepted.                                                     *)
(*                                                                         *)
(* The first rests on the order of what closing a shift does: its sales    *)
(* are counted before it is seen to be open, so they are older than every  *)
(* shift that is opened after it has ended.  The second rests on the quote *)
(* a lone conversion has read: only that conversion can use it up.         *)
(***************************************************************************)
EXTENDS PosShifts, TLAPS

Begun(s) == shift[s].status # "none"

Over(s) == shift[s].status \notin {"none", "OPEN"}

\* A request that works on a shift works on one that has been created.
Known == \A q \in Requests :
           request[q].pc \in {"counting", "checking", "closing", "approving"} => Begun(request[q].row)

Types == TypeOK /\ Known

\* What the rows and journals of shift t say of each other.
ShiftOK(t) ==
  /\ ~Begun(t) => journal[t] = {} /\ ended[t] = {}
  /\ journal[t] \cap shift[t].older = {}
  /\ \A x \in journal[t] : sale[x].status # "none"
  /\ \A s \in ended[t] : Over(s) /\ journal[s] \subseteq shift[t].older

\* What is known of the sales that a request has counted.
CountOK(r) ==
  /\ r.pc \in {"checking", "closing"} => /\ r.sales \cap shift[r.row].older = {}
                                         /\ \A x \in r.sales : sale[x].status # "none"
  /\ r.pc = "closing" => \A t \in Shifts : r.row \in ended[t] => r.sales \subseteq shift[t].older

Counted ==
  /\ \A t \in Shifts : ShiftOK(t)
  /\ \A q \in Requests : CountOK(request[q])

Alone == serial => \A p, q \in Requests : p = q \/ At(p, "idle") \/ At(q, "idle")

\* A quote that is approved, or has been read as approved, is owed an invoice.
QuotesOK ==
  serial => /\ \A k \in Quotes : owed[k] >= 0 /\ (quote[k] = "APPROVED" => owed[k] >= 1)
            /\ \A q \in Requests : At(q, "invoicing") => owed[request[q].row] >= 1

LEMMA IdleType == Idle \in RequestStates
BY DEF Idle, RequestStates

LEMMA Initially == Init => Types /\ Counted /\ Alone /\ QuotesOK
<1> SUFFICES ASSUME Init PROVE Types /\ Counted /\ Alone /\ QuotesOK
  OBVIOUS
<1> USE DEF Init
<1>1. Types
  BY IdleType DEF Types, TypeOK, Known, Idle, ShiftRows, SaleRows
<1>2. Counted
  BY DEF Counted, ShiftOK, CountOK, Begun, Over, Idle
<1>3. Alone /\ QuotesOK
  BY DEF Alone, QuotesOK, At, Idle
<1> QED BY <1>1, <1>2, <1>3

-----------------------------------------------------------------------------
(* Types. *)

\* The kind of row that a request record works on.
Kind(r) ==
  /\ r.pc = "opening" => r.user \in Users /\ r.terminal \in Terminals
  /\ r.pc \in {"counting", "checking", "closing", "approving"} => r.row \in Shifts /\ Begun(r.row)
  /\ r.pc \in {"issuing", "voiding", "attributing"} => r.row \in Sales
  /\ r.pc \in {"accepting", "converting", "invoicing"} => r.row \in Quotes

LEMMA KindOf == ASSUME Types, NEW q \in Requests PROVE request[q] \in RequestStates /\ Kind(request[q])
BY DEF Types, TypeOK, Known, Kind

\* The requests after one of them has moved, and no shift has vanished.
LEMMA RequestsTyped ==
  ASSUME Types, NEW q \in Requests, NEW r \in RequestStates, request' = [request EXCEPT ![q] = r],
         Kind(r)', \A s \in Shifts : Begun(s) => Begun(s)'
  PROVE  request' \in [Requests -> RequestStates] /\ \A p \in Requests : Kind(request[p])'
<1>1. request' \in [Requests -> RequestStates]
  BY DEF Types, TypeOK
<1>2. ASSUME NEW p \in Requests PROVE Kind(request[p])'
  <2>1. CASE p = q
    BY <2>1 DEF Types, TypeOK
  <2>2. CASE p # q
    <3>1. request'[p] = request[p] /\ Kind(request[p])
      BY <2>2, KindOf DEF Types, TypeOK
    <3> QED BY <3>1 DEF Kind
  <2> QED BY <2>1, <2>2
<1> QED BY <1>1, <1>2

\* Types after a step that moves a request and leaves the shifts alone.
LEMMA MoveTyped ==
  ASSUME Types, NEW q \in Requests, NEW r \in RequestStates, request' = [request EXCEPT ![q] = r],
         Kind(r), UNCHANGED <<shift, journal, ended>>,
         sale' \in [Sales -> SaleRows], quote' \in [Quotes -> QuoteStatuses \cup {"none"}],
         owed' \in [Quotes -> Int], serial' \in BOOLEAN
  PROVE  Types'
<1>1. Kind(r)' /\ \A s \in Shifts : Begun(s) => Begun(s)'
  BY DEF Kind, Begun
<1>2. request' \in [Requests -> RequestStates] /\ \A p \in Requests : Kind(request[p])'
  BY <1>1, RequestsTyped
<1> QED BY <1>2 DEF Types, TypeOK, Known, Kind

\* Whatever row a request begins to work on.
LEMMA BeginTyped ==
  ASSUME Types, NEW q \in Requests, NEW r \in RequestStates, Begin(q, r), Kind(r),
         UNCHANGED <<shift, sale, quote, owed, journal, ended>>
  PROVE  Types'
BY MoveTyped DEF Begin, Types, TypeOK

LEMMA GoesTyped ==
  ASSUME Types, NEW q \in Requests, NEW pc, Goes(q, pc), Kind([request[q] EXCEPT !.pc = pc]),
         [request[q] EXCEPT !.pc = pc] \in RequestStates,
         UNCHANGED <<shift, sale, journal, ended, serial>>,
         quote' \in [Quotes -> QuoteStatuses \cup {"none"}], owed' \in [Quotes -> Int]
  PROVE  Types'
<1>1. request' = [request EXCEPT ![q] = [request[q] EXCEPT !.pc = pc]]
  BY DEF Goes
<1> QED BY <1>1, MoveTyped DEF Types, TypeOK

LEMMA ReturnTyped ==
  ASSUME Types, NEW q \in Requests, Return(q), UNCHANGED <<shift, journal, ended, serial>>,
         sale' \in [Sales -> SaleRows], quote' \in [Quotes -> QuoteStatuses \cup {"none"}],
         owed' \in [Quotes -> Int]
  PROVE  Types'
<1>1. Kind(Idle)
  BY DEF Kind, Idle
<1> QED BY <1>1, IdleType, MoveTyped DEF Return, Types, TypeOK

LEMMA RefusedTyped == ASSUME Types, NEW q \in Requests, Refused(q) PROVE Types'
BY ReturnTyped DEF Refused, Types, TypeOK

LEMMA BecomesTyped ==
  ASSUME Types, NEW k \in Quotes, NEW status \in QuoteStatuses \cup {"none"}, NEW n \in Int,
         Becomes(k, status, n)
  PROVE  quote' \in [Quotes -> QuoteStatuses \cup {"none"}] /\ owed' \in [Quotes -> Int]
BY DEF Becomes, Types, TypeOK

\* Types after the shift of a request, which returns, has been written.
LEMMA ShiftTyped ==
  ASSUME Types, NEW q \in Requests, NEW s \in Shifts, NEW row \in ShiftRows, Return(q),
         shift' = [shift EXCEPT ![s] = row],
         row.status # "none", row.user \in Users, row.terminal \in Terminals,
         journal' \in [Shifts -> SUBSET Sales], ended' \in [Shifts -> SUBSET Shifts],
         UNCHANGED <<sale, quote, owed, serial>>
  PROVE  Types'
<1>1. Kind(Idle)'
  BY DEF Kind, Idle
<1>2. \A t \in Shifts : Begun(t) => Begun(t)'
  BY DEF Begun, Types, TypeOK
<1>3. request' \in [Requests -> RequestStates] /\ \A p \in Requests : Kind(request[p])'
  BY <1>1, <1>2, IdleType, RequestsTyped DEF Return
<1> QED BY <1>3 DEF Types, TypeOK, Known, Kind

LEMMA TypeStep == ASSUME Types, [Next]_vars PROVE Types'
<1>1. ASSUME NEW x \in Sales, NEW t \in Terminals, NEW status \in {"ISSUED", "ON_HOLD"},
             Checkout(x, t, status)
      PROVE  Types'
  BY <1>1 DEF Checkout, Types, TypeOK, Known, Begun, SaleRows
<1>2. ASSUME NEW k \in Quotes, CheckoutQuote(k) PROVE Types'
  BY <1>2 DEF CheckoutQuote, QuoteStatuses, Types, TypeOK, Known, Begun
<1>3. ASSUME NEW k \in Quotes, NEW status \in QuoteStatuses, UpdateQuoteStatus(k, status) PROVE Types'
  <2>1. quote' \in [Quotes -> QuoteStatuses \cup {"none"}] /\ owed' \in [Quotes -> Int]
    BY <1>3, BecomesTyped DEF UpdateQuoteStatus
  <2> QED BY <1>3, <2>1 DEF UpdateQuoteStatus, Types, TypeOK, Known, Begun
<1>4. ASSUME NEW q \in Requests, NEW u \in Users, NEW t \in Terminals, OpenShift(q, u, t) PROVE Types'
  <2> DEFINE r == [Idle EXCEPT !.pc = "opening", !.user = u, !.terminal = t]
  <2>1. r \in RequestStates /\ Kind(r)
    BY IdleType DEF RequestStates, Idle, Kind
  <2> QED BY <1>4, <2>1, BeginTyped DEF OpenShift
<1>5. ASSUME NEW q \in Requests, NEW s \in Shifts, CreateShift(q, s) PROVE Types'
  <2> DEFINE row == [user |-> request[q].user, terminal |-> request[q].terminal, status |-> "OPEN",
                     older |-> Existing]
  <2>1. request[q].user \in Users /\ request[q].terminal \in Terminals
    BY <1>5, KindOf DEF CreateShift, At, Kind
  <2>2. row \in ShiftRows
    BY <2>1 DEF ShiftRows, Existing
  <2>3. row.status # "none" /\ row.user \in Users /\ row.terminal \in Terminals
    BY <2>1
  <2>4. journal' \in [Shifts -> SUBSET Sales] /\ ended' \in [Shifts -> SUBSET Shifts]
    BY <1>5 DEF CreateShift, Types, TypeOK
  <2> QED BY <1>5, <2>2, <2>3, <2>4, ShiftTyped DEF CreateShift
<1>6. ASSUME NEW q \in Requests, NEW s \in Shifts, CloseByHand(q, s) \/ Approve(q, s) PROVE Types'
  <2>1. ASSUME NEW pc \in {"checking", "approving"}, Begun(s)
        PROVE  [Idle EXCEPT !.pc = pc, !.row = s] \in RequestStates
               /\ Kind([Idle EXCEPT !.pc = pc, !.row = s])
    BY <2>1, IdleType DEF RequestStates, Idle, Kind
  <2> QED BY <1>6, <2>1, BeginTyped DEF CloseByHand, Approve, Begun
<1>7. ASSUME NEW q \in Requests, NEW u \in Users, CloseShift(q, u) PROVE Types'
  <2>1. PICK s \in OpenShifts(u) : Begin(q, [Idle EXCEPT !.pc = "counting", !.row = s])
    BY <1>7 DEF CloseShift
  <2> DEFINE r == [Idle EXCEPT !.pc = "counting", !.row = s]
  <2>2. r \in RequestStates /\ Kind(r)
    BY <2>1, IdleType DEF RequestStates, Idle, Kind, OpenShifts, Begun
  <2> QED BY <1>7, <2>1, <2>2, BeginTyped DEF CloseShift
<1>8. ASSUME NEW q \in Requests, ComputeShiftSales(q) PROVE Types'
  <2> DEFINE S == LET s == shift[request[q].row]
                  IN  {x \in Sales \ s.older : sale[x] = [status |-> "ISSUED", terminal |-> s.terminal]}
             r == [request[q] EXCEPT !.pc = "checking", !.sales = S]
  <2>1. request' = [request EXCEPT ![q] = r]
    BY <1>8 DEF ComputeShiftSales
  <2>2. r \in RequestStates /\ Kind(r)
    <3>1. S \in SUBSET Sales
      OBVIOUS
    <3> HIDE DEF S
    <3>2. request[q] \in RequestStates /\ Kind(request[q]) /\ request[q].pc = "counting"
      BY <1>8, KindOf DEF ComputeShiftSales, At
    <3>3. r.pc = "checking" /\ r.row = request[q].row
      BY <3>2 DEF RequestStates
    <3> QED BY <3>1, <3>2, <3>3 DEF RequestStates, Kind
  <2> HIDE DEF r
  <2> QED BY <1>8, <2>1, <2>2, MoveTyped DEF ComputeShiftSales, Types, TypeOK
<1>9. ASSUME NEW q \in Requests, CheckOpen(q) PROVE Types'
  <2>1. CASE Refused(q)
    BY <2>1, RefusedTyped
  <2>2. CASE ~Refused(q)
    <3>1. At(q, "checking") /\ Goes(q, "closing")
          /\ UNCHANGED <<shift, sale, quote, owed, journal, ended, serial>>
      BY <1>9, <2>2 DEF CheckOpen
    <3>2. [request[q] EXCEPT !.pc = "closing"] \in RequestStates /\ Kind([request[q] EXCEPT !.pc = "closing"])
      BY <3>1, KindOf DEF At, Kind, RequestStates
    <3> QED BY <3>1, <3>2, GoesTyped DEF Types, TypeOK
  <2> QED BY <2>1, <2>2
<1>10. ASSUME NEW q \in Requests, NEW status \in {"CLOSED", "PENDING_APPROVAL"}, PostZReport(q, status)
       PROVE  Types'
  <2> DEFINE s == request[q].row
             row == [shift[s] EXCEPT !.status = status]
  <2>1. s \in Shifts /\ Begun(s)
    BY <1>10, KindOf DEF PostZReport, At, Kind
  <2>2. row \in ShiftRows /\ row.status # "none" /\ row.user \in Users /\ row.terminal \in Terminals
    BY <2>1 DEF Types, TypeOK, ShiftRows, Begun
  <2>3. journal' \in [Shifts -> SUBSET Sales] /\ ended' \in [Shifts -> SUBSET Shifts]
    <3>1. request[q].sales \in SUBSET Sales
      BY KindOf DEF RequestStates
    <3> QED BY <1>10, <3>1, <2>1 DEF PostZReport, Types, TypeOK
  <2>4. shift' = [shift EXCEPT ![s] = row]
    BY <1>10 DEF PostZReport
  <2> HIDE DEF row
  <2> QED BY <1>10, <2>1, <2>2, <2>3, <2>4, ShiftTyped DEF PostZReport
<1>11. ASSUME NEW q \in Requests, WriteApproval(q) PROVE Types'
  <2> DEFINE s == request[q].row
             row == [shift[s] EXCEPT !.status = "CLOSED"]
  <2>1. s \in Shifts /\ Begun(s)
    BY <1>11, KindOf DEF WriteApproval, At, Kind
  <2>2. row \in ShiftRows /\ row.status # "none" /\ row.user \in Users /\ row.terminal \in Terminals
    <3>1. shift[s] \in ShiftRows /\ shift[s].user \in Users /\ shift[s].terminal \in Terminals
      BY <2>1 DEF Types, TypeOK, Begun
    <3> QED BY <3>1 DEF ShiftRows
  <2>3. shift' = [shift EXCEPT ![s] = row]
    BY <1>11 DEF WriteApproval
  <2> HIDE DEF row
  <2> QED BY <1>11, <2>1, <2>2, <2>3, ShiftTyped DEF WriteApproval, Types, TypeOK
<1>12. ASSUME NEW q \in Requests, NEW x \in Sales, NEW pc \in {"issuing", "voiding"}, HeldSale(q, x, pc)
       PROVE  Types'
  <2> DEFINE r == [Idle EXCEPT !.pc = pc, !.row = x]
  <2>1. r \in RequestStates /\ Kind(r)
    BY IdleType DEF RequestStates, Idle, Kind
  <2> QED BY <1>12, <2>1, BeginTyped DEF HeldSale
<1>13. ASSUME NEW q \in Requests, IssueHeld(q) \/ VoidHeld(q) \/ AttributeSale(q) PROVE Types'
  <2>1. request[q].row \in Sales /\ request[q].terminal \in Terminals \cup {Nothing}
    BY <1>13, KindOf DEF IssueHeld, VoidHeld, AttributeSale, At, Kind, RequestStates, Types, TypeOK
  <2>2. sale' \in [Sales -> SaleRows]
    BY <1>13, <2>1 DEF IssueHeld, VoidHeld, AttributeSale, Types, TypeOK, SaleRows
  <2> QED BY <1>13, <2>2, ReturnTyped DEF IssueHeld, VoidHeld, AttributeSale, Types, TypeOK
<1>14. ASSUME NEW q \in Requests, NEW k \in Quotes, NEW t \in Terminals \cup {Nothing},
              ConvertPosQuote(q, k, t)
       PROVE  Types'
  <2>1. ASSUME NEW pc \in {"accepting", "converting"}
        PROVE  /\ [Idle EXCEPT !.pc = pc, !.row = k, !.terminal = t] \in RequestStates
               /\ Kind([Idle EXCEPT !.pc = pc, !.row = k, !.terminal = t])
    BY IdleType DEF RequestStates, Idle, Kind
  <2> QED BY <1>14, <2>1, BeginTyped DEF ConvertPosQuote
<1>15. ASSUME NEW q \in Requests, AcceptQuote(q) PROVE Types'
  <2>1. request[q].row \in Quotes
    BY <1>15, KindOf DEF AcceptQuote, At, Kind
  <2>2. quote' \in [Quotes -> QuoteStatuses \cup {"none"}] /\ owed' \in [Quotes -> Int]
    BY <1>15, <2>1, BecomesTyped DEF AcceptQuote, QuoteStatuses
  <2>3. [request[q] EXCEPT !.pc = "converting"] \in RequestStates
        /\ Kind([request[q] EXCEPT !.pc = "converting"])
    BY <2>1, KindOf DEF Kind, RequestStates
  <2> QED BY <1>15, <2>2, <2>3, GoesTyped DEF AcceptQuote
<1>16. ASSUME NEW q \in Requests, ConvertQuoteToInvoice(q) PROVE Types'
  <2>1. CASE Refused(q)
    BY <2>1, RefusedTyped
  <2>2. CASE ~Refused(q)
    <3>1. At(q, "converting") /\ Goes(q, "invoicing")
          /\ UNCHANGED <<shift, sale, quote, owed, journal, ended, serial>>
      BY <1>16, <2>2 DEF ConvertQuoteToInvoice
    <3>2. [request[q] EXCEPT !.pc = "invoicing"] \in RequestStates
          /\ Kind([request[q] EXCEPT !.pc = "invoicing"])
      BY <3>1, KindOf DEF At, Kind, RequestStates
    <3> QED BY <3>1, <3>2, GoesTyped DEF Types, TypeOK
  <2> QED BY <2>1, <2>2
<1>17. ASSUME NEW q \in Requests, NEW x \in Sales, InvoiceQuote(q, x) PROVE Types'
  <2>1. request[q].row \in Quotes
    BY <1>17, KindOf DEF InvoiceQuote, At, Kind
  <2>2. quote' \in [Quotes -> QuoteStatuses \cup {"none"}] /\ owed' \in [Quotes -> Int]
    BY <1>17, <2>1, BecomesTyped DEF InvoiceQuote, QuoteStatuses
  <2>3. sale' \in [Sales -> SaleRows]
    BY <1>17 DEF InvoiceQuote, Types, TypeOK, SaleRows
  <2>4. CASE Return(q)
    BY <1>17, <2>2, <2>3, <2>4, ReturnTyped DEF InvoiceQuote
  <2>5. CASE ~Return(q)
    <3> DEFINE r == [request[q] EXCEPT !.pc = "attributing", !.row = x]
    <3>1. request' = [request EXCEPT ![q] = r]
      BY <1>17, <2>5 DEF InvoiceQuote
    <3>2. r \in RequestStates /\ Kind(r)
      BY KindOf DEF RequestStates, Kind
    <3> HIDE DEF r
    <3> QED BY <1>17, <2>2, <2>3, <3>1, <3>2, MoveTyped DEF InvoiceQuote, Types, TypeOK
  <2> QED BY <2>4, <2>5
<1>18. ASSUME NEW q \in Requests, Fail(q) PROVE Types'
  BY <1>18, RefusedTyped DEF Fail
<1>19. CASE UNCHANGED vars
  BY <1>19 DEF vars, Types, TypeOK, Known, Begun
<1> QED BY <1>1, <1>2, <1>3, <1>4, <1>5, <1>6, <1>7, <1>8, <1>9, <1>10, <1>11, <1>12, <1>13, <1>14,
           <1>15, <1>16, <1>17, <1>18, <1>19 DEF Next

-----------------------------------------------------------------------------
(* Shifts. *)

\* No sale is ever unmade.
Remain == \A x \in Sales : sale[x].status # "none" => sale'[x].status # "none"

LEMMA CountKept ==
  ASSUME NEW r, CountOK(r), Remain, UNCHANGED <<shift, ended>>, r.sales \in SUBSET Sales PROVE CountOK(r)'
BY DEF CountOK, Remain

\* Counted after a step that leaves the shifts alone.
LEMMA CountedKept ==
  ASSUME Types, Types', Counted, Remain, UNCHANGED <<shift, journal, ended>>,
         \A p \in Requests : request'[p] = request[p] \/ CountOK(request'[p])
  PROVE  Counted'
<1>1. ASSUME NEW t \in Shifts PROVE ShiftOK(t)'
  <2>1. ShiftOK(t) /\ journal[t] \in SUBSET Sales
    BY DEF Counted, Types, TypeOK
  <2> QED BY <2>1 DEF ShiftOK, Remain, Begun, Over
<1>2. ASSUME NEW p \in Requests PROVE CountOK(request[p])'
  <2>1. CountOK(request'[p])
    BY DEF Counted
  <2>2. request'[p].sales \in SUBSET Sales
    BY DEF Types, TypeOK, RequestStates
  <2> QED BY <2>1, <2>2 DEF CountOK, Remain
<1> QED BY <1>1, <1>2 DEF Counted

\* The same, when a request moves to r.
LEMMA CountedMove ==
  ASSUME Types, Types', Counted, Remain, UNCHANGED <<shift, journal, ended>>,
         NEW q \in Requests, NEW r, request' = [request EXCEPT ![q] = r], CountOK(r)
  PROVE  Counted'
<1>1. \A p \in Requests : request'[p] = request[p] \/ CountOK(request'[p])
  BY DEF Types, TypeOK
<1> QED BY <1>1, CountedKept

LEMMA CountedIdle ==
  ASSUME Types, Types', Counted, Remain, UNCHANGED <<shift, journal, ended>>,
         NEW q \in Requests, Return(q)
  PROVE  Counted'
<1>1. CountOK(Idle)
  BY DEF CountOK, Idle
<1> QED BY <1>1, CountedMove DEF Return

LEMMA CountedRefused == ASSUME Types, Types', Counted, NEW q \in Requests, Refused(q) PROVE Counted'
BY CountedIdle DEF Refused, Remain

\* A request that goes to a statement where it has counted nothing.
LEMMA CountedGoes ==
  ASSUME Types, Types', Counted, Remain, UNCHANGED <<shift, journal, ended>>,
         NEW q \in Requests, NEW pc, pc \notin {"checking", "closing"}, Goes(q, pc)
  PROVE  Counted'
<1> DEFINE r == [request[q] EXCEPT !.pc = pc]
<1>1. request' = [request EXCEPT ![q] = r]
  BY DEF Goes
<1>2. r.pc = pc
  BY KindOf DEF RequestStates
<1>3. CountOK(r)
  BY <1>2 DEF CountOK
<1> HIDE DEF r
<1> QED BY <1>1, <1>3, CountedMove

\* A shift that is open has ended before no other.
LEMMA OpenNotEnded ==
  ASSUME Counted, NEW s \in Shifts, shift[s].status = "OPEN", NEW t \in Shifts PROVE s \notin ended[t]
BY DEF Counted, ShiftOK, Over

\* Counted after a shift of which nothing is counted yet is opened.
LEMMA CreateCounted == ASSUME Types, Types', Counted, NEW q \in Requests, NEW s \in Shifts, CreateShift(q, s)
                       PROVE  Counted'
<1>1. /\ shift[s].status = "none" /\ ended[s] = {} /\ journal[s] = {}
      /\ shift'[s].status = "OPEN" /\ shift'[s].older = Existing
      /\ ended'[s] = {o \in Shifts : Over(o)}
      /\ UNCHANGED <<sale, journal>>
  BY DEF CreateShift, Counted, ShiftOK, Begun, Types, TypeOK, Over
<1>2. ASSUME NEW t \in Shifts, t # s PROVE shift'[t] = shift[t] /\ ended'[t] = ended[t]
  BY <1>2 DEF CreateShift, Types, TypeOK
<1>3. ASSUME NEW o \in Shifts, Over(o) PROVE o # s /\ Over(o)'
  BY <1>1, <1>2, <1>3 DEF Over
<1>4. ASSUME NEW t \in Shifts PROVE ShiftOK(t)'
  <2>1. ShiftOK(t) /\ journal[t] \in SUBSET Sales /\ ended[t] \in SUBSET Shifts
    BY DEF Counted, Types, TypeOK
  <2>2. CASE t = s
    <3>1. ASSUME NEW o \in Shifts, Over(o) PROVE journal[o] \subseteq Existing
      BY <3>1 DEF Counted, ShiftOK, Existing, Types, TypeOK
    <3> QED BY <1>1, <1>3, <2>2, <3>1 DEF ShiftOK, Begun
  <2>3. CASE t # s
    BY <1>1, <1>2, <1>3, <2>1, <2>3 DEF ShiftOK, Begun
  <2> QED BY <2>2, <2>3
<1>5. ASSUME NEW p \in Requests PROVE CountOK(request[p])'
  <2>1. CASE p = q
    BY <2>1 DEF CreateShift, Return, Types, TypeOK, CountOK, Idle
  <2>2. CASE p # q
    <3>1. request'[p] = request[p] /\ CountOK(request[p]) /\ request[p].sales \in SUBSET Sales
      BY <2>2, KindOf DEF CreateShift, Return, Counted, Types, TypeOK, RequestStates
    <3>2. CASE request[p].pc \in {"checking", "closing"}
      <4>1. request[p].row \in Shifts /\ request[p].row # s
        BY <1>1, <3>2, KindOf DEF Kind, Begun
      <4>2. request[p].sales \subseteq Existing
        BY <3>1, <3>2 DEF CountOK, Existing
      <4> QED BY <1>1, <1>2, <3>1, <4>1, <4>2 DEF CountOK
    <3>3. CASE request[p].pc \notin {"checking", "closing"}
      BY <3>1, <3>3 DEF CountOK
    <3> QED BY <3>2, <3>3
  <2> QED BY <2>1, <2>2
<1> QED BY <1>4, <1>5 DEF Counted

\* Counted after a shift that has begun ends, with what its request has counted or nothing.
LEMMA EndCounted ==
  ASSUME Types, Types', Counted, NEW q \in Requests, Return(q), NEW S \in SUBSET Sales,
         NEW s \in Shifts, Begun(s), NEW status \in {"CLOSED", "PENDING_APPROVAL"},
         shift' = [shift EXCEPT ![s].status = status], journal' = [journal EXCEPT ![s] = @ \cup S],
         UNCHANGED <<sale, ended>>,
         S \cap shift[s].older = {}, \A x \in S : sale[x].status # "none",
         \A t \in Shifts : s \in ended[t] => S \subseteq shift[t].older
  PROVE  Counted'
<1>1. ASSUME NEW t \in Shifts
      PROVE  /\ shift'[t].older = shift[t].older /\ (Begun(t)' <=> Begun(t))
             /\ Over(t) => Over(t)'
             /\ t # s => journal'[t] = journal[t]
             /\ journal'[s] = journal[s] \cup S
  BY DEF Types, TypeOK, ShiftRows, Begun, Over
<1>2. ASSUME NEW t \in Shifts PROVE ShiftOK(t)'
  <2>1. ShiftOK(t) /\ journal[t] \in SUBSET Sales /\ ended[t] \in SUBSET Shifts
    BY DEF Counted, Types, TypeOK
  <2>2. /\ journal'[t] \cap shift[t].older = {}
        /\ \A x \in journal'[t] : sale[x].status # "none"
        /\ ~Begun(t) => journal'[t] = {} /\ ended[t] = {}
    BY <1>1, <2>1 DEF ShiftOK
  <2>3. ASSUME NEW o \in ended[t] PROVE Over(o)' /\ journal'[o] \subseteq shift[t].older
    BY <1>1, <2>1 DEF ShiftOK
  <2> QED BY <1>1, <2>2, <2>3 DEF ShiftOK
<1>3. ASSUME NEW p \in Requests PROVE CountOK(request[p])'
  <2>1. CASE p = q
    BY <2>1 DEF Return, Types, TypeOK, CountOK, Idle
  <2>2. CASE p # q
    <3>1. request'[p] = request[p] /\ CountOK(request[p])
      BY <2>2 DEF Return, Counted, Types, TypeOK
    <3>2. CASE request[p].pc \in {"checking", "closing"}
      <4>1. request[p].row \in Shifts
        BY <3>2, KindOf DEF Kind
      <4> QED BY <1>1, <3>1, <4>1 DEF CountOK
    <3>3. CASE request[p].pc \notin {"checking", "closing"}
      BY <3>1, <3>3 DEF CountOK
    <3> QED BY <3>2, <3>3
  <2> QED BY <2>1, <2>2
<1> QED BY <1>2, <1>3 DEF Counted

LEMMA CountedStep == ASSUME Types, Types', Counted, [Next]_vars PROVE Counted'
<1>1. ASSUME NEW x \in Sales, NEW t \in Terminals, NEW status \in {"ISSUED", "ON_HOLD"},
             Checkout(x, t, status)
      PROVE  Counted'
  <2>1. Remain
    BY <1>1 DEF Checkout, Remain, Types, TypeOK
  <2> QED BY <1>1, <2>1, CountedKept DEF Checkout
<1>2. ASSUME NEW k \in Quotes,
             CheckoutQuote(k) \/ \E status \in QuoteStatuses : UpdateQuoteStatus(k, status)
      PROVE  Counted'
  BY <1>2, CountedKept DEF CheckoutQuote, UpdateQuoteStatus, Remain
<1>3. ASSUME NEW q \in Requests, NEW r, CountOK(r), Begin(q, r),
             UNCHANGED <<shift, sale, quote, owed, journal, ended>>
      PROVE  Counted'
  BY <1>3, CountedMove DEF Begin, Remain
<1>4. ASSUME NEW q \in Requests, NEW u \in Users, NEW t \in Terminals, OpenShift(q, u, t) PROVE Counted'
  BY <1>3, <1>4 DEF OpenShift, Idle, CountOK
<1>5. ASSUME NEW q \in Requests, NEW s \in Shifts, CreateShift(q, s) PROVE Counted'
  BY <1>5, CreateCounted
<1>6. ASSUME NEW q \in Requests, NEW s \in Shifts, CloseByHand(q, s) \/ Approve(q, s) PROVE Counted'
  BY <1>3, <1>6 DEF CloseByHand, Approve, Idle, CountOK
<1>7. ASSUME NEW q \in Requests, NEW u \in Users, CloseShift(q, u) PROVE Counted'
  BY <1>3, <1>7 DEF CloseShift, Idle, CountOK
<1>8. ASSUME NEW q \in Requests, ComputeShiftSales(q) PROVE Counted'
  <2> DEFINE S == LET s == shift[request[q].row]
                  IN  {x \in Sales \ s.older : sale[x] = [status |-> "ISSUED", terminal |-> s.terminal]}
             r == [request[q] EXCEPT !.pc = "checking", !.sales = S]
  <2>1. request' = [request EXCEPT ![q] = r]
    BY <1>8 DEF ComputeShiftSales
  <2>2. r.pc = "checking" /\ r.row = request[q].row /\ r.sales = S
    BY KindOf DEF RequestStates
  <2>3. CountOK(r)
    BY <2>2 DEF CountOK
  <2> HIDE DEF r
  <2> QED BY <1>8, <2>1, <2>3, CountedMove DEF ComputeShiftSales, Remain
<1>9. ASSUME NEW q \in Requests, CheckOpen(q) PROVE Counted'
  <2>1. CASE Refused(q)
    BY <2>1, CountedRefused
  <2>2. CASE ~Refused(q)
    <3> DEFINE r == [request[q] EXCEPT !.pc = "closing"]
    <3>1. /\ At(q, "checking") /\ request' = [request EXCEPT ![q] = r]
          /\ shift[request[q].row].status = "OPEN"
          /\ UNCHANGED <<shift, sale, quote, owed, journal, ended, serial>>
      BY <1>9, <2>2 DEF CheckOpen, Goes
    <3>2. r.pc = "closing" /\ r.row = request[q].row /\ r.sales = request[q].sales
      BY KindOf DEF RequestStates
    <3>3. request[q].row \in Shifts /\ CountOK(request[q])
      BY <3>1, KindOf DEF At, Kind, Counted
    <3>4. CountOK(r)
      BY <3>1, <3>2, <3>3, OpenNotEnded DEF At, CountOK
    <3> HIDE DEF r
    <3> QED BY <3>1, <3>4, CountedMove DEF Remain
  <2> QED BY <2>1, <2>2
<1>10. ASSUME NEW q \in Requests, NEW status \in {"CLOSED", "PENDING_APPROVAL"}, PostZReport(q, status)
       PROVE  Counted'
  <2> DEFINE s == request[q].row
             S == request[q].sales
  <2>1. request[q].pc = "closing" /\ s \in Shifts /\ Begun(s) /\ S \in SUBSET Sales
    BY <1>10, KindOf DEF PostZReport, At, Kind, RequestStates
  <2>2. CountOK(request[q])
    BY DEF Counted
  <2>3. /\ S \cap shift[s].older = {} /\ \A x \in S : sale[x].status # "none"
        /\ \A t \in Shifts : s \in ended[t] => S \subseteq shift[t].older
    BY <2>1, <2>2 DEF CountOK
  <2> QED BY <1>10, <2>1, <2>3, EndCounted DEF PostZReport
<1>11. ASSUME NEW q \in Requests, WriteApproval(q) PROVE Counted'
  <2> DEFINE s == request[q].row
  <2>1. s \in Shifts /\ Begun(s)
    BY <1>11, KindOf DEF WriteApproval, At, Kind
  <2>2. journal' = [journal EXCEPT ![s] = @ \cup {}]
    BY <1>11 DEF WriteApproval, Types, TypeOK
  <2>3. /\ {} \in SUBSET Sales /\ {} \cap shift[s].older = {} /\ \A x \in {} : sale[x].status # "none"
        /\ \A t \in Shifts : s \in ended[t] => {} \subseteq shift[t].older
    OBVIOUS
  <2>4. /\ Return(q) /\ shift' = [shift EXCEPT ![s].status = "CLOSED"] /\ UNCHANGED <<sale, ended>>
        /\ "CLOSED" \in {"CLOSED", "PENDING_APPROVAL"}
    BY <1>11 DEF WriteApproval
  <2> HIDE DEF s
  <2> QED BY <2>1, <2>2, <2>3, <2>4, EndCounted
<1>12. ASSUME NEW q \in Requests, NEW x \in Sales, NEW pc \in {"issuing", "voiding"}, HeldSale(q, x, pc)
       PROVE  Counted'
  BY <1>3, <1>12 DEF HeldSale, Idle, CountOK
<1>13. ASSUME NEW q \in Requests, IssueHeld(q) \/ VoidHeld(q) \/ AttributeSale(q) PROVE Counted'
  <2>1. Remain
    BY <1>13, KindOf DEF IssueHeld, VoidHeld, AttributeSale, Remain, Types, TypeOK, SaleRows
  <2> QED BY <1>13, <2>1, CountedIdle DEF IssueHeld, VoidHeld, AttributeSale
<1>14. ASSUME NEW q \in Requests, NEW k \in Quotes, NEW t \in Terminals \cup {Nothing},
              ConvertPosQuote(q, k, t)
       PROVE  Counted'
  <2>1. ASSUME NEW pc \in {"accepting", "converting"}
        PROVE  CountOK([Idle EXCEPT !.pc = pc, !.row = k, !.terminal = t])
    BY DEF Idle, CountOK
  <2> QED BY <1>3, <1>14, <2>1 DEF ConvertPosQuote
<1>15. ASSUME NEW q \in Requests, AcceptQuote(q) PROVE Counted'
  BY <1>15, CountedGoes DEF AcceptQuote, Remain
<1>16. ASSUME NEW q \in Requests, ConvertQuoteToInvoice(q) PROVE Counted'
  BY <1>16, CountedRefused, CountedGoes DEF ConvertQuoteToInvoice, Remain
<1>17. ASSUME NEW q \in Requests, NEW x \in Sales, InvoiceQuote(q, x) PROVE Counted'
  <2>1. Remain
    BY <1>17 DEF InvoiceQuote, Remain, Types, TypeOK, SaleRows
  <2>2. CASE Return(q)
    BY <1>17, <2>1, <2>2, CountedIdle DEF InvoiceQuote
  <2>3. CASE ~Return(q)
    <3> DEFINE r == [request[q] EXCEPT !.pc = "attributing", !.row = x]
    <3>1. request' = [request EXCEPT ![q] = r]
      BY <1>17, <2>3 DEF InvoiceQuote
    <3>2. r.pc = "attributing"
      BY KindOf DEF RequestStates
    <3>3. CountOK(r)
      BY <3>2 DEF CountOK
    <3> HIDE DEF r
    <3> QED BY <1>17, <2>1, <3>1, <3>3, CountedMove DEF InvoiceQuote
  <2> QED BY <2>2, <2>3
<1>18. ASSUME NEW q \in Requests, Fail(q) PROVE Counted'
  BY <1>18, CountedRefused DEF Fail
<1>19. CASE UNCHANGED vars
  BY <1>19, CountedKept DEF vars, Remain
<1> QED BY <1>1, <1>2, <1>4, <1>5, <1>6, <1>7, <1>8, <1>9, <1>10, <1>11, <1>12, <1>13, <1>14,
           <1>15, <1>16, <1>17, <1>18, <1>19 DEF Next

-----------------------------------------------------------------------------
(* Quotes. *)

\* A request that begins is alone, or the requests are serial no more.
LEMMA AloneBegins == ASSUME Types, Alone, NEW q \in Requests, NEW r, Begin(q, r) PROVE Alone'
BY DEF Begin, Alone, At, Types, TypeOK

\* A request that moves on, or ends, is alone if it was.
LEMMA AloneMoves ==
  ASSUME Types, Alone, NEW q \in Requests, ~At(q, "idle"), NEW r, request' = [request EXCEPT ![q] = r],
         UNCHANGED serial
  PROVE  Alone'
BY DEF Alone, At, Types, TypeOK

LEMMA AloneStep == ASSUME Types, Alone, [Next]_vars PROVE Alone'
<1>1. ASSUME UNCHANGED <<request, serial>> PROVE Alone'
  BY <1>1 DEF Alone, At
<1>2. ASSUME NEW q \in Requests, NEW r, Begin(q, r) PROVE Alone'
  BY <1>2, AloneBegins
<1>3. ASSUME NEW q \in Requests, ~At(q, "idle"), NEW r, request' = [request EXCEPT ![q] = r],
             UNCHANGED serial
      PROVE  Alone'
  BY <1>3, AloneMoves
<1>4. ASSUME NEW q \in Requests, ~At(q, "idle"), Return(q), UNCHANGED serial PROVE Alone'
  BY <1>3, <1>4 DEF Return
<1>5. ASSUME NEW q \in Requests, ~At(q, "idle"), NEW pc, Goes(q, pc), UNCHANGED serial PROVE Alone'
  <2>1. request' = [request EXCEPT ![q] = [request[q] EXCEPT !.pc = pc]]
    BY <1>5 DEF Goes
  <2> QED BY <1>3, <1>5, <2>1
<1>6. ASSUME NEW q \in Requests, ComputeShiftSales(q) PROVE Alone'
  <2>1. PICK r : request' = [request EXCEPT ![q] = r]
    BY <1>6 DEF ComputeShiftSales
  <2> QED BY <1>3, <1>6, <2>1 DEF ComputeShiftSales, At
<1>7. ASSUME NEW q \in Requests, NEW x \in Sales, InvoiceQuote(q, x) PROVE Alone'
  <2>1. PICK r : request' = [request EXCEPT ![q] = r]
    BY <1>7 DEF InvoiceQuote, Return
  <2> QED BY <1>3, <1>7, <2>1 DEF InvoiceQuote, At
<1>8. ASSUME NEW q \in Requests,
             \/ \E s \in Shifts : CreateShift(q, s)
             \/ \E status \in {"CLOSED", "PENDING_APPROVAL"} : PostZReport(q, status)
             \/ WriteApproval(q) \/ IssueHeld(q) \/ VoidHeld(q) \/ AttributeSale(q) \/ Fail(q)
      PROVE  Alone'
  BY <1>4, <1>8 DEF CreateShift, PostZReport, WriteApproval, IssueHeld, VoidHeld, AttributeSale, Fail,
                    Refused, At
<1>9. ASSUME NEW q \in Requests, CheckOpen(q) \/ ConvertQuoteToInvoice(q) \/ AcceptQuote(q)
      PROVE  Alone'
  BY <1>4, <1>5, <1>9 DEF CheckOpen, ConvertQuoteToInvoice, AcceptQuote, Refused, At
<1>10. ASSUME NEW q \in Requests,
              \/ \E u \in Users, t \in Terminals : OpenShift(q, u, t)
              \/ \E s \in Shifts : CloseByHand(q, s) \/ Approve(q, s)
              \/ \E u \in Users : CloseShift(q, u)
              \/ \E x \in Sales, pc \in {"issuing", "voiding"} : HeldSale(q, x, pc)
              \/ \E k \in Quotes, t \in Terminals \cup {Nothing} : ConvertPosQuote(q, k, t)
       PROVE  Alone'
  BY <1>2, <1>10 DEF OpenShift, CloseByHand, Approve, CloseShift, HeldSale, ConvertPosQuote
<1>11. CASE \/ \E x \in Sales, t \in Terminals, status \in {"ISSUED", "ON_HOLD"} : Checkout(x, t, status)
            \/ \E k \in Quotes : \/ CheckoutQuote(k)
                                  \/ \E status \in QuoteStatuses : UpdateQuoteStatus(k, status)
            \/ UNCHANGED vars
  BY <1>1, <1>11 DEF Checkout, CheckoutQuote, UpdateQuoteStatus, vars
<1> QED BY <1>6, <1>7, <1>8, <1>9, <1>10, <1>11 DEF Next

LEMMA QuotesKept ==
  ASSUME Types, QuotesOK, UNCHANGED <<quote, owed>>, serial' => serial,
         \A p \in Requests : request'[p] = request[p] \/ request'[p].pc # "invoicing"
  PROVE  QuotesOK'
BY DEF QuotesOK, At

\* The same, when a request moves to r.
LEMMA QuotesMove ==
  ASSUME Types, QuotesOK, UNCHANGED <<quote, owed>>, serial' => serial,
         NEW q \in Requests, NEW r, request' = [request EXCEPT ![q] = r], r.pc # "invoicing"
  PROVE  QuotesOK'
<1>1. \A p \in Requests : request'[p] = request[p] \/ request'[p].pc # "invoicing"
  BY DEF Types, TypeOK
<1> QED BY <1>1, QuotesKept

LEMMA QuotesIdle ==
  ASSUME Types, QuotesOK, UNCHANGED <<quote, owed, serial>>, NEW q \in Requests, Return(q)
  PROVE  QuotesOK'
<1>1. Idle.pc # "invoicing"
  BY DEF Idle
<1> QED BY <1>1, QuotesMove DEF Return

LEMMA QuotesGoes ==
  ASSUME Types, QuotesOK, UNCHANGED <<quote, owed, serial>>, NEW q \in Requests, NEW pc, Goes(q, pc),
         pc # "invoicing"
  PROVE  QuotesOK'
<1> DEFINE r == [request[q] EXCEPT !.pc = pc]
<1>1. request' = [request EXCEPT ![q] = r]
  BY DEF Goes
<1>2. r.pc # "invoicing"
  BY KindOf DEF RequestStates
<1> HIDE DEF r
<1> QED BY <1>1, <1>2, QuotesMove

\* A quote gets a status, and its acceptance is counted.
LEMMA QuotesBecome ==
  ASSUME Types, QuotesOK, NEW k \in Quotes, NEW status,
         Becomes(k, status, IF status = "APPROVED" THEN 1 ELSE 0), UNCHANGED serial,
         \A p \in Requests : request'[p] = request[p] \/ request'[p].pc # "invoicing"
  PROVE  QuotesOK'
<1> SUFFICES ASSUME serial PROVE QuotesOK'
  BY DEF QuotesOK
<1> DEFINE n == IF status = "APPROVED" THEN 1 ELSE 0
<1>1. /\ n \in {0, 1} /\ (status = "APPROVED" => n = 1)
      /\ quote' = [quote EXCEPT ![k] = status] /\ owed' = [owed EXCEPT ![k] = @ + n]
  BY DEF Becomes
<1> HIDE DEF n
<1>2. ASSUME NEW j \in Quotes PROVE owed'[j] >= owed[j] /\ owed[j] \in Int /\ owed'[j] \in Int
  BY <1>1 DEF Types, TypeOK
<1>3. ASSUME NEW j \in Quotes PROVE owed'[j] >= 0 /\ (quote'[j] = "APPROVED" => owed'[j] >= 1)
  <2>1. owed[j] >= 0 /\ (quote[j] = "APPROVED" => owed[j] >= 1)
    BY DEF QuotesOK
  <2> QED BY <1>1, <1>2, <2>1 DEF Types, TypeOK
<1>4. ASSUME NEW p \in Requests, At(p, "invoicing")' PROVE owed'[request'[p].row] >= 1
  <2>1. request'[p] = request[p] /\ owed[request[p].row] >= 1 /\ request[p].row \in Quotes
    BY <1>4, KindOf DEF At, QuotesOK, Kind
  <2> QED BY <1>2, <2>1
<1> QED BY <1>3, <1>4 DEF QuotesOK

LEMMA InvoiceCounted ==
  ASSUME Types, Types', Alone, QuotesOK, NEW q \in Requests, NEW x \in Sales, InvoiceQuote(q, x)
  PROVE  QuotesOK'
<1> SUFFICES ASSUME serial PROVE QuotesOK'
  BY DEF InvoiceQuote, QuotesOK
<1> DEFINE k == request[q].row
<1>1. k \in Quotes /\ owed[k] >= 1 /\ At(q, "invoicing")
  BY KindOf DEF InvoiceQuote, At, Kind, QuotesOK
<1>2. quote' = [quote EXCEPT ![k] = "CLOSED"] /\ owed' = [owed EXCEPT ![k] = @ + (-1)]
  BY DEF InvoiceQuote, Becomes
<1>3. ASSUME NEW j \in Quotes PROVE owed'[j] >= 0 /\ (quote'[j] = "APPROVED" => owed'[j] >= 1)
  <2>1. owed[j] >= 0 /\ (quote[j] = "APPROVED" => owed[j] >= 1) /\ owed[j] \in Int
    BY DEF QuotesOK, Types, TypeOK
  <2> QED BY <1>1, <1>2, <2>1 DEF Types, TypeOK
<1>4. ASSUME NEW p \in Requests PROVE request'[p].pc # "invoicing"
  <2>1. CASE p = q
    BY <2>1, KindOf DEF InvoiceQuote, Return, Idle, Types, TypeOK, RequestStates
  <2>2. CASE p # q
    <3>1. request'[p] = request[p]
      BY <2>2 DEF InvoiceQuote, Return, Types, TypeOK
    <3>2. request[p].pc = "idle"
      BY <1>1, <2>2 DEF Alone, At
    <3> QED BY <3>1, <3>2
  <2> QED BY <2>1, <2>2
<1> QED BY <1>3, <1>4 DEF QuotesOK, At

LEMMA QuoteStep == ASSUME Types, Types', Alone, QuotesOK, [Next]_vars PROVE QuotesOK'
<1>1. ASSUME UNCHANGED <<quote, owed, request, serial>> PROVE QuotesOK'
  BY <1>1, QuotesKept
<1>2. ASSUME NEW q \in Requests, NEW r, Begin(q, r), UNCHANGED <<quote, owed>>, r.pc # "invoicing"
      PROVE  QuotesOK'
  BY <1>2, QuotesMove DEF Begin
<1>3. ASSUME NEW q \in Requests,
             \/ \E s \in Shifts : CreateShift(q, s)
             \/ \E status \in {"CLOSED", "PENDING_APPROVAL"} : PostZReport(q, status)
             \/ WriteApproval(q) \/ IssueHeld(q) \/ VoidHeld(q) \/ AttributeSale(q) \/ Fail(q)
      PROVE  QuotesOK'
  BY <1>3, QuotesIdle DEF CreateShift, PostZReport, WriteApproval, IssueHeld, VoidHeld, AttributeSale,
                          Fail, Refused
<1>4. ASSUME NEW q \in Requests,
             \/ \E u \in Users, t \in Terminals : OpenShift(q, u, t)
             \/ \E s \in Shifts : CloseByHand(q, s) \/ Approve(q, s)
             \/ \E u \in Users : CloseShift(q, u)
      PROVE  QuotesOK'
  BY <1>2, <1>4 DEF OpenShift, CloseByHand, Approve, CloseShift, Idle
<1>5. ASSUME NEW q \in Requests, NEW x \in Sales, NEW pc \in {"issuing", "voiding"}, HeldSale(q, x, pc)
      PROVE  QuotesOK'
  <2>1. [Idle EXCEPT !.pc = pc, !.row = x].pc # "invoicing"
    BY DEF Idle
  <2> QED BY <1>2, <1>5, <2>1 DEF HeldSale
<1>6. ASSUME NEW q \in Requests, NEW k \in Quotes, NEW t \in Terminals \cup {Nothing},
             ConvertPosQuote(q, k, t)
      PROVE  QuotesOK'
  <2>1. ASSUME NEW pc \in {"accepting", "converting"}
        PROVE  [Idle EXCEPT !.pc = pc, !.row = k, !.terminal = t].pc # "invoicing"
    BY DEF Idle
  <2> QED BY <1>2, <1>6, <2>1 DEF ConvertPosQuote
<1>7. ASSUME NEW q \in Requests, ComputeShiftSales(q) PROVE QuotesOK'
  <2>1. PICK S : request' = [request EXCEPT ![q].pc = "checking", ![q].sales = S]
    BY <1>7 DEF ComputeShiftSales
  <2> DEFINE r == [request[q] EXCEPT !.pc = "checking", !.sales = S]
  <2>2. request' = [request EXCEPT ![q] = r]
    BY <2>1
  <2>3. r.pc # "invoicing"
    BY KindOf DEF RequestStates
  <2> HIDE DEF r
  <2> QED BY <1>7, <2>2, <2>3, QuotesMove DEF ComputeShiftSales
<1>8. ASSUME NEW q \in Requests, CheckOpen(q) PROVE QuotesOK'
  BY <1>8, QuotesIdle, QuotesGoes DEF CheckOpen, Refused
<1>9. ASSUME NEW k \in Quotes, CheckoutQuote(k) PROVE QuotesOK'
  BY <1>9 DEF CheckoutQuote, QuotesOK, At, Types, TypeOK
<1>10. ASSUME NEW k \in Quotes, NEW status \in QuoteStatuses, UpdateQuoteStatus(k, status) PROVE QuotesOK'
  BY <1>10, QuotesBecome DEF UpdateQuoteStatus
<1>11. ASSUME NEW q \in Requests, AcceptQuote(q) PROVE QuotesOK'
  <2>1. request[q].row \in Quotes
    BY <1>11, KindOf DEF AcceptQuote, At, Kind
  <2>2. \A p \in Requests : request'[p] = request[p] \/ request'[p].pc # "invoicing"
    BY <1>11 DEF AcceptQuote, Goes, Types, TypeOK, RequestStates
  <2> QED BY <1>11, <2>1, <2>2, QuotesBecome DEF AcceptQuote
<1>12. ASSUME NEW q \in Requests, ConvertQuoteToInvoice(q) PROVE QuotesOK'
  <2>1. CASE Refused(q)
    BY <2>1, QuotesIdle DEF Refused
  <2>2. CASE ~Refused(q)
    <3>1. /\ At(q, "converting") /\ quote[request[q].row] = "APPROVED"
          /\ request' = [request EXCEPT ![q].pc = "invoicing"]
          /\ UNCHANGED <<quote, owed, serial>>
      BY <1>12, <2>2 DEF ConvertQuoteToInvoice, Goes
    <3>2. request[q].row \in Quotes /\ request'[q].row = request[q].row
      BY <3>1, KindOf DEF At, Kind, RequestStates, Types, TypeOK
    <3>3. \A p \in Requests : p # q => request'[p] = request[p]
      BY <3>1 DEF Types, TypeOK
    <3> QED BY <3>1, <3>2, <3>3 DEF QuotesOK, At
  <2> QED BY <2>1, <2>2
<1>13. ASSUME NEW q \in Requests, NEW x \in Sales, InvoiceQuote(q, x) PROVE QuotesOK'
  BY <1>13, InvoiceCounted
<1>14. CASE \/ \E x \in Sales, t \in Terminals, status \in {"ISSUED", "ON_HOLD"} : Checkout(x, t, status)
            \/ UNCHANGED vars
  BY <1>1, <1>14 DEF Checkout, vars
<1> QED BY <1>3, <1>4, <1>5, <1>6, <1>7, <1>8, <1>9, <1>10, <1>11, <1>12, <1>13, <1>14 DEF Next

-----------------------------------------------------------------------------
(* The theorems. *)

Inv == Types /\ Counted /\ Alone /\ QuotesOK

THEOREM Invariance == Spec => []Inv
<1>1. Inv /\ [Next]_vars => Inv'
  BY TypeStep, CountedStep, AloneStep, QuoteStep DEF Inv
<1>2. Init => Inv
  BY Initially DEF Inv
<1> QED BY <1>1, <1>2, PTL DEF Spec

(***************************************************************************)
(* Every state has the declared types: the till's handlers work on rows    *)
(* of the kind they are about, and a shift has a user and a terminal.      *)
(***************************************************************************)
THEOREM TypeInvariant == Spec => []TypeOK
<1>1. Inv => TypeOK
  BY DEF Inv, Types
<1> QED BY <1>1, Invariance, PTL

(***************************************************************************)
(* closeShift counts before close tests the status, and yet no two shifts  *)
(* that follow each other post the same sale, whatever overlaps.           *)
(***************************************************************************)
THEOREM ShiftsDisjoint == Spec => []SuccessiveShiftsShareNoSale
<1>1. Inv => SuccessiveShiftsShareNoSale
  <2> SUFFICES ASSUME Inv, NEW s \in Shifts, NEW t \in Shifts, s \in ended[t]
               PROVE  journal[s] \cap journal[t] = {}
    BY DEF SuccessiveShiftsShareNoSale
  <2> QED BY DEF Inv, Counted, ShiftOK
<1> QED BY <1>1, Invariance, PTL

(***************************************************************************)
(* One request after the other, convertQuoteToInvoice makes no invoice     *)
(* that no acceptance of the quote stands for.                             *)
(***************************************************************************)
THEOREM Invoices == Spec => []InvoicedAsAccepted
<1>1. Inv => InvoicedAsAccepted
  BY DEF Inv, QuotesOK, InvoicedAsAccepted
<1> QED BY <1>1, Invariance, PTL
=============================================================================
