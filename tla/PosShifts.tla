------------------------------- MODULE PosShifts --------------------------------
(***************************************************************************)
(* The till (pos-terminal.service.ts, cashier-shifts.service.ts): shifts,  *)
(* the sales made meanwhile, and quotes that become sales.                 *)
(*                                                                         *)
(* No sale names the shift it was made in.  A shift that is closed counts  *)
(* the sales of its terminal that were created since it was opened, and    *)
(* posts them as its Z-report.  Times of creation are compared and nothing *)
(* else, so a shift keeps the set of rows that are older.  A handler is    *)
(* one step per statement that others can come between; the amounts of     *)
(* money, the counted cash among them, are left out.                       *)
(***************************************************************************)
EXTENDS Integers

CONSTANTS
  Users, Terminals,
  Shifts, Sales, Quotes,  \* rows that may be created
  Requests,               \* requests being served at the same time
  MaxOwed,                \* bound: acceptances of one quote beyond its invoices
  Nothing                 \* null

ASSUME NothingAssumption == Nothing \notin Terminals \cup Shifts \cup Sales \cup Quotes

VARIABLES
  shift,    \* shift[s]: whose it is, where, its status, and the rows older than it
  sale,     \* sale[x]: its status and its terminal
  quote,    \* quote[k]: its status
  owed,     \* ghost, owed[k]: acceptances of k less invoices made of it, while serial
  journal,  \* journal[s]: the sales that the Z-reports posted for s have counted
  request,  \* request[q]: where it is and what it has read
  ended,    \* ghost, ended[s]: the shifts that were no longer open when s was opened
  serial    \* ghost: no two requests have overlapped

vars == <<shift, sale, quote, owed, journal, request, ended, serial>>

\* DRAFT stands for PENDING_APPROVAL too, APPROVED for ACCEPTED and SENT, CLOSED for
\* CANCELLED and REJECTED: no handler here tells them apart.
QuoteStatuses == {"DRAFT", "APPROVED", "CLOSED"}

\* ISSUED stands for every status of an issued invoice, ON_HOLD for DRAFT.
SaleRows == [status : {"none", "ON_HOLD", "ISSUED", "CANCELLED"}, terminal : Terminals \cup {Nothing}]

\* CLOSED stands for APPROVED too: nothing leads out of either.
ShiftRows ==
  [user : Users \cup {Nothing}, terminal : Terminals \cup {Nothing},
   status : {"none", "OPEN", "PENDING_APPROVAL", "CLOSED"},
   older : SUBSET (Shifts \cup Sales)]

RequestStates ==
  [pc : {"idle", "opening", "counting", "checking", "closing", "approving", "issuing", "voiding",
         "accepting", "converting", "invoicing", "attributing"},
   user : Users \cup {Nothing}, terminal : Terminals \cup {Nothing},
   row : Shifts \cup Sales \cup Quotes \cup {Nothing}, sales : SUBSET Sales]

Idle == [pc |-> "idle", user |-> Nothing, terminal |-> Nothing, row |-> Nothing, sales |-> {}]

Init ==
  /\ shift = [s \in Shifts |->
       [user |-> Nothing, terminal |-> Nothing, status |-> "none", older |-> {}]]
  /\ sale = [x \in Sales |-> [status |-> "none", terminal |-> Nothing]]
  /\ quote = [k \in Quotes |-> "none"]
  /\ owed = [k \in Quotes |-> 0]
  /\ journal = [s \in Shifts |-> {}]
  /\ request = [q \in Requests |-> Idle]
  /\ ended = [s \in Shifts |-> {}]
  /\ serial = TRUE

-----------------------------------------------------------------------------
At(q, pc) == request[q].pc = pc

Begin(q, r) ==
  /\ At(q, "idle")
  /\ request' = [request EXCEPT ![q] = r]
  /\ serial' = (serial /\ \A p \in Requests : At(p, "idle"))

Goes(q, pc) == request' = [request EXCEPT ![q].pc = pc]

Return(q) == request' = [request EXCEPT ![q] = Idle]

Existing == {s \in Shifts : shift[s].status # "none"} \cup {x \in Sales : sale[x].status # "none"}

OpenShifts(u) == {s \in Shifts : shift[s].status = "OPEN" /\ shift[s].user = u}

\* A request ends because something it has read, or reads now, refuses it.
Refused(q) ==
  /\ Return(q)
  /\ UNCHANGED <<shift, sale, quote, owed, journal, ended, serial>>

(* openShift and CashierShiftsService.open. *)

\* Mutant: openShift does not hand its terminal on.
OpenNowhere(q, u, t) ==
  /\ OpenShifts(u) = {}
  /\ Begin(q, [Idle EXCEPT !.pc = "opening", !.user = u])
  /\ UNCHANGED <<shift, sale, quote, owed, journal, ended>>

\* A shift opened without a terminal gets its user's when it is closed: it has it here.
OpenShift(q, u, t) ==
  /\ OpenShifts(u) = {}
  /\ Begin(q, [Idle EXCEPT !.pc = "opening", !.user = u, !.terminal = t])
  /\ UNCHANGED <<shift, sale, quote, owed, journal, ended>>

CreateShift(q, s) ==
  /\ At(q, "opening")
  /\ shift[s].status = "none"
  /\ shift' = [shift EXCEPT ![s] =
       [user |-> request[q].user, terminal |-> request[q].terminal, status |-> "OPEN",
        older |-> Existing]]
  /\ ended' = [ended EXCEPT ![s] = {o \in Shifts : shift[o].status \notin {"none", "OPEN"}}]
  /\ Return(q)
  /\ UNCHANGED <<sale, quote, owed, journal, serial>>

(* closeShift: the user's latest open shift, its sales, and then close. *)

CloseShift(q, u) ==
  /\ \E s \in OpenShifts(u) :
       /\ OpenShifts(u) \ {s} \subseteq shift[s].older
       /\ Begin(q, [Idle EXCEPT !.pc = "counting", !.row = s])
  /\ UNCHANGED <<shift, sale, quote, owed, journal, ended>>

ComputeShiftSales(q) ==
  /\ At(q, "counting")
  /\ request' = [request EXCEPT ![q].pc = "checking",
       ![q].sales = LET s == shift[request[q].row]
                    IN  {x \in Sales \ s.older : sale[x] = [status |-> "ISSUED", terminal |-> s.terminal]}]
  /\ UNCHANGED <<shift, sale, quote, owed, journal, ended, serial>>

\* The finance endpoint begins here, with any shift, and counts no sales.
CloseByHand(q, s) ==
  /\ shift[s].status # "none"
  /\ Begin(q, [Idle EXCEPT !.pc = "checking", !.row = s])
  /\ UNCHANGED <<shift, sale, quote, owed, journal, ended>>

\* Mutant: what closeShift has read is not read again.
CheckNothing(q) ==
  /\ At(q, "checking")
  /\ Goes(q, "closing")
  /\ UNCHANGED <<shift, sale, quote, owed, journal, ended, serial>>

\* 'Shift is not open'
CheckOpen(q) ==
  /\ At(q, "checking")
  /\ IF shift[request[q].row].status = "OPEN"
     THEN Goes(q, "closing") /\ UNCHANGED <<shift, sale, quote, owed, journal, ended, serial>>
     ELSE Refused(q)

\* A large variance of the counted cash wants approval.
PostZReport(q, status) ==
  /\ At(q, "closing")
  /\ LET s == request[q].row
     IN  /\ shift' = [shift EXCEPT ![s].status = status]
         /\ journal' = [journal EXCEPT ![s] = @ \cup request[q].sales]
  /\ Return(q)
  /\ UNCHANGED <<sale, quote, owed, ended, serial>>

Approve(q, s) ==
  /\ shift[s].status = "PENDING_APPROVAL"
  /\ Begin(q, [Idle EXCEPT !.pc = "approving", !.row = s])
  /\ UNCHANGED <<shift, sale, quote, owed, journal, ended>>

WriteApproval(q) ==
  /\ At(q, "approving")
  /\ shift' = [shift EXCEPT ![request[q].row].status = "CLOSED"]
  /\ Return(q)
  /\ UNCHANGED <<sale, quote, owed, journal, ended, serial>>

(* Sales: made at once, or held and issued or voided later. *)

\* Nobody needs an open shift to sell.
Checkout(x, t, status) ==
  /\ sale[x].status = "none"
  /\ sale' = [sale EXCEPT ![x] = [status |-> status, terminal |-> t]]
  /\ UNCHANGED <<shift, quote, owed, journal, request, ended, serial>>

HeldSale(q, x, pc) ==
  /\ sale[x].status = "ON_HOLD"
  /\ Begin(q, [Idle EXCEPT !.pc = pc, !.row = x])
  /\ UNCHANGED <<shift, sale, quote, owed, journal, ended>>

IssueHeld(q) ==
  /\ At(q, "issuing")
  /\ sale' = [sale EXCEPT ![request[q].row].status = "ISSUED"]
  /\ Return(q)
  /\ UNCHANGED <<shift, quote, owed, journal, ended, serial>>

\* cancelInvoice reads the sale again, to leave a cancelled one as it is.
VoidHeld(q) ==
  /\ At(q, "voiding")
  /\ sale' = [sale EXCEPT ![request[q].row].status = "CANCELLED"]
  /\ Return(q)
  /\ UNCHANGED <<shift, quote, owed, journal, ended, serial>>

(* Quotes. *)

CheckoutQuote(k) ==
  /\ quote[k] = "none"
  /\ quote' = [quote EXCEPT ![k] = "DRAFT"]
  /\ UNCHANGED <<shift, sale, owed, journal, request, ended, serial>>

\* A quote gets a status; while serial, owed follows acceptances and invoices.
Becomes(k, status, n) ==
  /\ quote' = [quote EXCEPT ![k] = status]
  /\ owed[k] + n <= MaxOwed
  /\ owed' = IF serial THEN [owed EXCEPT ![k] = @ + n] ELSE [j \in Quotes |-> 0]

\* updateQuoteStatus, also for cancelPosQuote: any status after any other.
UpdateQuoteStatus(k, status) ==
  /\ quote[k] # "none"
  /\ Becomes(k, status, IF status = "APPROVED" THEN 1 ELSE 0)
  /\ UNCHANGED <<shift, sale, journal, request, ended, serial>>

\* convertPosQuote accepts a quote that nobody has approved; the sales endpoint,
\* which gives no terminal, does not.
ConvertPosQuote(q, k, t) ==
  /\ quote[k] \in IF t = Nothing THEN {"APPROVED"} ELSE {"DRAFT", "APPROVED"}
  /\ Begin(q, [Idle EXCEPT !.pc = IF quote[k] = "DRAFT" THEN "accepting" ELSE "converting",
                           !.row = k, !.terminal = t])
  /\ UNCHANGED <<shift, sale, quote, owed, journal, ended>>

AcceptQuote(q) ==
  /\ At(q, "accepting")
  /\ Becomes(request[q].row, "APPROVED", 1)
  /\ Goes(q, "converting")
  /\ UNCHANGED <<shift, sale, journal, ended, serial>>

\* convertQuoteToInvoice reads the quote.
ConvertQuoteToInvoice(q) ==
  /\ At(q, "converting")
  /\ IF quote[request[q].row] = "APPROVED"
     THEN Goes(q, "invoicing") /\ UNCHANGED <<shift, sale, quote, owed, journal, ended, serial>>
     ELSE Refused(q)

\* Mutant: the quote is not closed.
InvoiceOnly(q, x) ==
  /\ At(q, "invoicing")
  /\ sale[x].status = "none"
  /\ sale' = [sale EXCEPT ![x].status = "ISSUED"]
  /\ Becomes(request[q].row, quote[request[q].row], -1)
  /\ IF request[q].terminal = Nothing
     THEN Return(q)
     ELSE request' = [request EXCEPT ![q].pc = "attributing", ![q].row = x]
  /\ UNCHANGED <<shift, journal, ended, serial>>

\* Its transaction.  The invoice has no terminal yet.
InvoiceQuote(q, x) ==
  /\ At(q, "invoicing")
  /\ sale[x].status = "none"
  /\ sale' = [sale EXCEPT ![x].status = "ISSUED"]
  /\ Becomes(request[q].row, "CLOSED", -1)
  /\ IF request[q].terminal = Nothing
     THEN Return(q)
     ELSE request' = [request EXCEPT ![q].pc = "attributing", ![q].row = x]
  /\ UNCHANGED <<shift, journal, ended, serial>>

AttributeSale(q) ==
  /\ At(q, "attributing")
  /\ sale' = [sale EXCEPT ![request[q].row].terminal = request[q].terminal]
  /\ Return(q)
  /\ UNCHANGED <<shift, quote, owed, journal, ended, serial>>

\* A statement throws, or the process dies.
Fail(q) ==
  /\ ~At(q, "idle")
  /\ Refused(q)

Next ==
  \/ \E x \in Sales, t \in Terminals, status \in {"ISSUED", "ON_HOLD"} : Checkout(x, t, status)
  \/ \E k \in Quotes : \/ CheckoutQuote(k)
                       \/ \E status \in QuoteStatuses : UpdateQuoteStatus(k, status)
  \/ \E q \in Requests :
       \/ \E u \in Users, t \in Terminals : OpenShift(q, u, t)
       \/ \E s \in Shifts : CreateShift(q, s) \/ CloseByHand(q, s) \/ Approve(q, s)
       \/ \E u \in Users : CloseShift(q, u)
       \/ ComputeShiftSales(q) \/ CheckOpen(q)
       \/ \E status \in {"CLOSED", "PENDING_APPROVAL"} : PostZReport(q, status)
       \/ WriteApproval(q)
       \/ \E x \in Sales, pc \in {"issuing", "voiding"} : HeldSale(q, x, pc)
       \/ IssueHeld(q) \/ VoidHeld(q)
       \/ \E k \in Quotes, t \in Terminals \cup {Nothing} : ConvertPosQuote(q, k, t)
       \/ AcceptQuote(q) \/ ConvertQuoteToInvoice(q)
       \/ \E x \in Sales : InvoiceQuote(q, x)
       \/ AttributeSale(q)
       \/ Fail(q)

Spec == Init /\ [][Next]_vars
-----------------------------------------------------------------------------
(* Correctness. *)

(***************************************************************************)
(* The type of the state.  A shift has its user and its terminal, and a    *)
(* request works on a row of the kind it is about.                         *)
(***************************************************************************)
TypeOK ==
  /\ shift \in [Shifts -> ShiftRows]
  /\ sale \in [Sales -> SaleRows]
  /\ quote \in [Quotes -> QuoteStatuses \cup {"none"}]
  /\ owed \in [Quotes -> Int]
  /\ journal \in [Shifts -> SUBSET Sales]
  /\ request \in [Requests -> RequestStates]
  /\ ended \in [Shifts -> SUBSET Shifts]
  /\ serial \in BOOLEAN
  /\ \A s \in Shifts :
       shift[s].status # "none" => shift[s].user \in Users /\ shift[s].terminal \in Terminals
  /\ \A q \in Requests :
       /\ request[q].pc = "opening" => request[q].user \in Users /\ request[q].terminal \in Terminals
       /\ request[q].pc \in {"counting", "checking", "closing", "approving"} => request[q].row \in Shifts
       /\ request[q].pc \in {"issuing", "voiding", "attributing"} => request[q].row \in Sales
       /\ request[q].pc \in {"accepting", "converting", "invoicing"} => request[q].row \in Quotes

(***************************************************************************)
(* However openings, closings and sales overlap, and though a shift counts *)
(* its sales before it is closed: two shifts of which the one had ended    *)
(* when the other was opened never post the same sale.  (Two shifts that   *)
(* are open on one terminal at a time do post the same sales.)             *)
(***************************************************************************)
SuccessiveShiftsShareNoSale ==
  \A s, t \in Shifts : s \in ended[t] => journal[s] \cap journal[t] = {}

(***************************************************************************)
(* One request after the other, a quote makes no more invoices than there  *)
(* were acceptances of it: also when a conversion fails between its        *)
(* statements and is tried again, or the quote is cancelled and reopened.  *)
(***************************************************************************)
InvoicedAsAccepted == serial => \A k \in Quotes : owed[k] >= 0
=============================================================================
