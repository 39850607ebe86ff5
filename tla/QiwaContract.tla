------------------------------ MODULE QiwaContract ------------------------------
(***************************************************************************)
(* The Qiwa contracts of one employee (hr-qiwa.service.ts): HR documents a *)
(* contract, the employee answers, a reviewer approves.                    *)
(*                                                                         *)
(* No handler uses a transaction.  Each one reads the current row, decides *)
(* on what it read, and writes with an updateMany that names the status it *)
(* expects; confirming and approving then update the employee.  Every one  *)
(* of these statements is a step, and a request may fail before any.       *)
(***************************************************************************)
EXTENDS FiniteSets

CONSTANTS
  Rows,      \* rows of employee_qiwa_contracts that may be created
  Requests,  \* requests being served at the same time
  Papers,    \* what confirmDocumentation may be given: reference, PDF and date
  Nothing    \* null

ASSUME NothingAssumption == Nothing \notin Rows \cup Papers

VARIABLES
  contract,  \* contract[r]: row r; its status is "none" before it is created
  current,   \* the row written last, which every handler reads
  employee,  \* the employee's reference, and whether this service approved it
  request    \* request[q]: what it does, where it is, what it has read

vars == <<contract, current, employee, request>>

Statuses == {"NOT_STARTED", "IN_PROGRESS", "AWAITING_EMPLOYEE", "PENDING_APPROVAL",
             "REJECTED_OR_MODIFICATION", "DOCUMENTED"}

ALLOWED ==
  [NOT_STARTED |-> {"IN_PROGRESS"},
   IN_PROGRESS |-> {"AWAITING_EMPLOYEE"},
   AWAITING_EMPLOYEE |-> {"PENDING_APPROVAL", "REJECTED_OR_MODIFICATION"},
   PENDING_APPROVAL |-> {"DOCUMENTED", "AWAITING_EMPLOYEE"},
   REJECTED_OR_MODIFICATION |-> {"IN_PROGRESS"},
   DOCUMENTED |-> {}]

Ops == {"start", "markSent", "markRejected", "retry", "confirm", "approve", "rejectApproval"}

\* reference stands for the reference and the PDF, which change together.
Contracts == [status : Statuses \cup {"none"},
              reference : Papers \cup {Nothing}, date : Papers \cup {Nothing}]

RequestStates ==
  [pc : {"idle", "creating", "renewing", "loaded", "updating"}, op : Ops,
   row : Rows \cup {Nothing}, seen : Contracts, paper : Papers \cup {Nothing}]

TypeOK ==
  /\ contract \in [Rows -> Contracts]
  /\ current \in Rows \cup {Nothing}
  /\ employee \in [reference : Papers \cup {Nothing}, approved : BOOLEAN]
  /\ request \in [Requests -> RequestStates]
  /\ \A q \in Requests : /\ request[q].pc \in {"loaded", "updating"} => request[q].row \in Rows
                         /\ request[q].op = "confirm" => request[q].paper \in Papers

NoContract == [status |-> "none", reference |-> Nothing, date |-> Nothing]

Idle == [pc |-> "idle", op |-> "start", row |-> Nothing, seen |-> NoContract, paper |-> Nothing]

Init ==
  /\ contract = [r \in Rows |-> NoContract]
  /\ current = Nothing
  /\ employee = [reference |-> Nothing, approved |-> FALSE]
  /\ request = [q \in Requests |-> Idle]

-----------------------------------------------------------------------------
At(q, pc) == request[q].pc = pc

Return(q) == request' = [request EXCEPT ![q] = Idle]

\* The status an operation leads to.
Target(op) ==
  CASE op \in {"start", "retry"} -> "IN_PROGRESS"
    [] op \in {"markSent", "rejectApproval"} -> "AWAITING_EMPLOYEE"
    [] op = "markRejected" -> "REJECTED_OR_MODIFICATION"
    [] op = "confirm" -> "PENDING_APPROVAL"
    [] op = "approve" -> "DOCUMENTED"

\* What an operation asks of the row it reads, besides assertTransition.
Guard(op, c) ==
  CASE op = "confirm" -> c.status = "AWAITING_EMPLOYEE"
    [] op = "approve" -> c.status = "PENDING_APPROVAL" /\ c.reference # Nothing
    [] op = "rejectApproval" -> c.status = "PENDING_APPROVAL"
    [] OTHER -> TRUE

\* The status that the where clause of its write names.
Expected(op, c) ==
  CASE op = "start" -> c.status
    [] op = "markSent" -> "IN_PROGRESS"
    [] op \in {"markRejected", "confirm"} -> "AWAITING_EMPLOYEE"
    [] op = "retry" -> "REJECTED_OR_MODIFICATION"
    [] op \in {"approve", "rejectApproval"} -> "PENDING_APPROVAL"

\* A handler reads the current row and goes on if its guards hold.
Load(q, op, paper) ==
  /\ At(q, "idle")
  /\ op = "confirm" <=> paper # Nothing
  /\ current # Nothing
  /\ LET c == contract[current]
     IN  /\ Target(op) \in ALLOWED[c.status]
         /\ Guard(op, c)
         /\ request' = [request EXCEPT ![q] =
              [pc |-> "loaded", op |-> op, row |-> current, seen |-> c, paper |-> paper]]
  /\ UNCHANGED <<contract, current, employee>>

\* getOrCreateDraft finds no row, or startDocumentation finds a documented one.
StartLoad(q) ==
  /\ At(q, "idle")
  /\ \/ /\ current = Nothing
        /\ request' = [request EXCEPT ![q].pc = "creating"]
     \/ /\ current # Nothing
        /\ contract[current].status = "DOCUMENTED"
        /\ request' = [request EXCEPT ![q].pc = "renewing"]
  /\ UNCHANGED <<contract, current, employee>>

\* Mutant: getOrCreateDraft does not return what it has created.
CreateDraftUnknown(q, r) ==
  /\ At(q, "creating")
  /\ contract[r].status = "none"
  /\ contract' = [contract EXCEPT ![r] = [NoContract EXCEPT !.status = "NOT_STARTED"]]
  /\ request' = [request EXCEPT ![q].pc = "loaded"]
  /\ current' = r
  /\ UNCHANGED employee

\* The draft is created; startDocumentation goes on with it.
CreateDraft(q, r) ==
  /\ At(q, "creating")
  /\ contract[r].status = "none"
  /\ LET draft == [NoContract EXCEPT !.status = "NOT_STARTED"]
     IN  /\ contract' = [contract EXCEPT ![r] = draft]
         /\ request' = [request EXCEPT ![q].pc = "loaded", ![q].row = r, ![q].seen = draft]
  /\ current' = r
  /\ UNCHANGED employee

\* A documented contract is renewed by a new row.
Renew(q, r) ==
  /\ At(q, "renewing")
  /\ contract[r].status = "none"
  /\ contract' = [contract EXCEPT ![r].status = "IN_PROGRESS"]
  /\ current' = r
  /\ Return(q)
  /\ UNCHANGED employee

\* The row after the write.  An approval writes the date it has read.
Written(q, c) ==
  LET s == request[q]
  IN  CASE s.op = "confirm" -> [status |-> Target(s.op), reference |-> s.paper, date |-> s.paper]
        [] s.op = "approve" -> [c EXCEPT !.status = Target(s.op), !.date = s.seen.date]
        [] OTHER -> [c EXCEPT !.status = Target(s.op)]

\* Mutant: the where clause names the row only.
WriteAnyway(q) ==
  /\ At(q, "loaded")
  /\ LET r == request[q].row
     IN  /\ contract' = [contract EXCEPT ![r] = Written(q, @)]
         /\ current' = r
  /\ IF request[q].op \in {"confirm", "approve"}
     THEN request' = [request EXCEPT ![q].pc = "updating"]
     ELSE Return(q)
  /\ UNCHANGED employee

\* updateMany changes the row if it still has the expected status.
Write(q) ==
  /\ At(q, "loaded")
  /\ LET r == request[q].row
     IN  /\ contract[r].status = Expected(request[q].op, request[q].seen)
         /\ contract' = [contract EXCEPT ![r] = Written(q, @)]
         /\ current' = r
  /\ IF request[q].op \in {"confirm", "approve"}
     THEN request' = [request EXCEPT ![q].pc = "updating"]
     ELSE Return(q)
  /\ UNCHANGED employee

\* It has changed no row: 'The Qiwa contract status has changed. Please refresh.'
WriteRefused(q) ==
  /\ At(q, "loaded")
  /\ contract[request[q].row].status # Expected(request[q].op, request[q].seen)
  /\ Return(q)
  /\ UNCHANGED <<contract, current, employee>>

\* The second statement of confirming and approving.
UpdateEmployee(q) ==
  /\ At(q, "updating")
  /\ LET s == request[q]
     IN  employee' = IF s.op = "approve"
                     THEN [reference |-> s.seen.reference, approved |-> TRUE]
                     ELSE [employee EXCEPT !.reference = s.paper]
  /\ Return(q)
  /\ UNCHANGED <<contract, current>>

\* A statement throws, or the process dies.
Fail(q) ==
  /\ ~At(q, "idle")
  /\ Return(q)
  /\ UNCHANGED <<contract, current, employee>>

Next ==
  \E q \in Requests :
    \/ \E op \in Ops, p \in Papers \cup {Nothing} : Load(q, op, p)
    \/ StartLoad(q)
    \/ \E r \in Rows : CreateDraft(q, r) \/ Renew(q, r)
    \/ Write(q) \/ WriteRefused(q) \/ UpdateEmployee(q)
    \/ Fail(q)

Spec == Init /\ [][Next]_vars
-----------------------------------------------------------------------------
(* Correctness. *)

\* What may become of a row in one step.
Follows(old, new) ==
  \/ new = old
  \/ old.status = "none" /\ new.status \in {"NOT_STARTED", "IN_PROGRESS"}
  \/ old.status # "none" /\ new.status \in ALLOWED[old.status]

(***************************************************************************)
(* Whatever requests overlap, and though each decides on a row it read     *)
(* earlier, a contract moves only along ALLOWED.  In particular nothing    *)
(* touches a documented contract again.                                    *)
(***************************************************************************)
FollowsWorkflow == [][\A r \in Rows : Follows(contract[r], contract'[r])]_vars

\* A contract under review or approved has its reference and its PDF.
HasPapers(c) == c.status \in {"PENDING_APPROVAL", "DOCUMENTED"} => c.reference # Nothing

(***************************************************************************)
(* The service marks an employee approved only when one of the contracts   *)
(* is documented, with a reference and a PDF: also when the approver's     *)
(* row has been rejected, resubmitted or superseded meanwhile, or when the *)
(* approval failed between its two writes.                                 *)
(***************************************************************************)
ApprovalBacked ==
  /\ \A r \in Rows : HasPapers(contract[r])
  /\ employee.approved => \E r \in Rows : contract[r].status = "DOCUMENTED"
=============================================================================
