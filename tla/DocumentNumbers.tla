---------------------------- MODULE DocumentNumbers ----------------------------
(***************************************************************************)
(* Allocation of document numbers from the company_settings row            *)
(* (common/documents/document-number.service.ts), with every other writer  *)
(* of that row.                                                            *)
(*                                                                         *)
(* The database runs transactions at MySQL's default REPEATABLE READ: a    *)
(* transaction reads from the snapshot its first SELECT takes, its UPDATE  *)
(* waits for the row lock and then overwrites whatever was committed in    *)
(* the meantime, and the INSERT of the numbered document is refused        *)
(* (P2002) when the unique index on (company, number) already holds that   *)
(* number.  No caller retries: a refused transaction is rolled back whole. *)
(*                                                                         *)
(* A request allocates one number.  Requests of AutoKeys' kinds run        *)
(* without a transaction (createTransfer and createAdjustment pass the     *)
(* plain client to nextSequence).                                          *)
(***************************************************************************)
EXTENDS CompanySettings

CONSTANTS Requests,      \* the requests that number a document, one each
          Writers,       \* the requests that save settings
          AutoKeys,      \* the keys allocated outside a transaction
          CrmSaves       \* TRUE: writers also save the CRM settings

ASSUME AutoKeysAssumption == AutoKeys \subseteq SequenceKeys
ASSUME ProcessAssumption == Requests \cap Writers = {}
ASSUME CrmSavesAssumption == CrmSaves \in BOOLEAN

TxKinds == Kinds \ AutoKeys

VARIABLES
  row,     \* the committed company_settings row
  issued,  \* issued[k]: the numbers of the committed documents of kind k
  pc,      \* pc[r]: where request r is
  kind,    \* kind[r]: what r numbers
  read,    \* read[r]: the row as r (or writer r) read it
  seen     \* history: issued[kind[r]] when r read the row

vars == <<row, issued, pc, kind, read, seen>>

(***************************************************************************)
(* The variables have the types of the columns they stand for.             *)
(***************************************************************************)
TypeOK ==
  /\ row \in Rows
  /\ issued \in [Kinds -> SUBSET (Nat \ {0})]
  /\ pc \in [Requests \cup Writers -> {"idle", "open", "bumped", "done", "refused", "aborted"}]
  /\ kind \in [Requests -> Kinds]
  /\ read \in [Requests \cup Writers -> Rows]
  /\ seen \in [Requests -> SUBSET (Nat \ {0})]

Init ==
  /\ row = NewRow
  /\ issued = [k \in Kinds |-> {}]
  /\ pc = [r \in Requests \cup Writers |-> "idle"]
  /\ kind \in [Requests -> Kinds]
  /\ read = [r \in Requests \cup Writers |-> NewRow]
  /\ seen = [r \in Requests |-> {}]

\* The number the row gave request r.
NumberOf(r) == read[r][kind[r]]

-----------------------------------------------------------------------------
(* The allocating requests. *)

\* r reads the settings row; in a transaction this is where its snapshot is.
Read(r) ==
  /\ pc[r] = "idle"
  /\ pc' = [pc EXCEPT ![r] = "open"]
  /\ read' = [read EXCEPT ![r] = row]
  /\ seen' = [seen EXCEPT ![r] = issued[kind[r]]]
  /\ UNCHANGED <<row, issued, kind>>

\* r's transaction updates the row, inserts the document and commits.
CommitTx(r) ==
  /\ pc[r] = "open" /\ kind[r] \in TxKinds
  /\ NumberOf(r) \notin issued[kind[r]]
  /\ row' = AfterAllocation(row, read[r], kind[r])
  /\ issued' = [issued EXCEPT ![kind[r]] = @ \cup {NumberOf(r)}]
  /\ pc' = [pc EXCEPT ![r] = "done"]
  /\ UNCHANGED <<kind, read, seen>>

\* The unique index refuses r's document; the counter's update goes with it.
RefuseTx(r) ==
  /\ pc[r] = "open" /\ kind[r] \in TxKinds
  /\ NumberOf(r) \in issued[kind[r]]
  /\ pc' = [pc EXCEPT ![r] = "refused"]
  /\ UNCHANGED <<row, issued, kind, read, seen>>

\* Mutant: the counter is updated outside the transaction that is rolled back.
AbortKeepsCounter(r) ==
  /\ pc[r] = "open" /\ kind[r] \in TxKinds
  /\ pc' = [pc EXCEPT ![r] = "aborted"]
  /\ row' = AfterAllocation(row, read[r], kind[r])
  /\ UNCHANGED <<issued, kind, read, seen>>

\* r's transaction ends early (a later check throws, or the process dies).
Abort(r) ==
  /\ pc[r] = "open" /\ kind[r] \in TxKinds
  /\ pc' = [pc EXCEPT ![r] = "aborted"]
  /\ UNCHANGED <<row, issued, kind, read, seen>>

\* Outside a transaction the counter's update commits on its own ...
BumpAuto(r) ==
  /\ pc[r] = "open" /\ kind[r] \in AutoKeys
  /\ row' = AfterAllocation(row, read[r], kind[r])
  /\ pc' = [pc EXCEPT ![r] = "bumped"]
  /\ UNCHANGED <<issued, kind, read, seen>>

\* ... and the document is inserted after it, unless its number is taken.
InsertAuto(r) ==
  /\ pc[r] = "bumped"
  /\ IF NumberOf(r) \in issued[kind[r]]
     THEN /\ pc' = [pc EXCEPT ![r] = "refused"]
          /\ UNCHANGED issued
     ELSE /\ pc' = [pc EXCEPT ![r] = "done"]
          /\ issued' = [issued EXCEPT ![kind[r]] = @ \cup {NumberOf(r)}]
  /\ UNCHANGED <<row, kind, read, seen>>

-----------------------------------------------------------------------------
(* The requests that save settings: read the row, then write the JSON back. *)

ReadSettings(w) ==
  /\ pc[w] = "idle"
  /\ pc' = [pc EXCEPT ![w] = "open"]
  /\ read' = [read EXCEPT ![w] = row]
  /\ UNCHANGED <<row, issued, kind, seen>>

\* Point-of-sale, company and onboarding settings: the rest of the bag is
\* written back as it was read.
SaveMergedBag(w) ==
  /\ pc[w] = "open"
  /\ row' = PutBagBack(row, read[w])
  /\ pc' = [pc EXCEPT ![w] = "idle"]
  /\ UNCHANGED <<issued, kind, read, seen>>

\* CRM settings: the JSON becomes {loyalty, pos, zatca}.
SaveCrmSettings(w) ==
  /\ CrmSaves
  /\ pc[w] = "open"
  /\ row' = DropSequences(row)
  /\ pc' = [pc EXCEPT ![w] = "idle"]
  /\ UNCHANGED <<issued, kind, read, seen>>

Next ==
  \/ \E r \in Requests : \/ Read(r)
                         \/ CommitTx(r)
                         \/ RefuseTx(r)
                         \/ Abort(r)
                         \/ BumpAuto(r)
                         \/ InsertAuto(r)
  \/ \E w \in Writers : \/ ReadSettings(w)
                        \/ SaveMergedBag(w)
                        \/ SaveCrmSettings(w)

Spec == Init /\ [][Next]_vars
-----------------------------------------------------------------------------
(* Correctness. *)

(***************************************************************************)
(* Gapless: the documents numbered inside a transaction are 1, 2, 3, ...   *)
(* without a gap, whatever overlaps and whoever rewrites the bag (the      *)
(* counter's update is rolled back with the document).                     *)
(***************************************************************************)
Gapless == \A k \in TxKinds : Segment(issued[k])

(***************************************************************************)
(* Lost updates move a counter back, never past a number nobody used: the  *)
(* number the row hands out next follows an issued one.                    *)
(***************************************************************************)
NeverSkips == \A k \in TxKinds : Follows(row[k], issued[k])

(***************************************************************************)
(* The invoice counter is a column of its own, out of reach of the writers *)
(* of the bag: it never hands out a number an invoice already has.         *)
(***************************************************************************)
InvoiceNumberFree == row[Invoice] \notin issued[Invoice]

(***************************************************************************)
(* First committer wins: a transaction that numbers a document commits     *)
(* only if no other document of its kind was committed since its snapshot. *)
(* The unique index is the only thing in the code that makes it so, and    *)
(* recordPayment relies on it: nothing else keeps two payments from being  *)
(* accepted against the same balance.                                      *)
(***************************************************************************)
FirstCommitterWins ==
  [][\A r \in Requests :
       kind[r] \in TxKinds /\ pc[r] = "open" /\ pc'[r] = "done"
         => issued[kind[r]] = seen[r]]_vars

(***************************************************************************)
(* An invoice number is refused only because another invoice was committed *)
(* meanwhile, so whoever tries again makes progress.                       *)
(***************************************************************************)
InvoiceRefusedOnlyByCompetitor ==
  \A r \in Requests :
    pc[r] = "refused" /\ kind[r] = Invoice => NumberOf(r) \notin seen[r]

(***************************************************************************)
(* Seen through its committed documents the whole mechanism is a number    *)
(* series: one document at a time, each with the number after the last.    *)
(***************************************************************************)
Series == INSTANCE NumberSeries
            WITH Kinds <- TxKinds, issued <- [k \in TxKinds |-> issued[k]]

NumbersFormSeries == Series!Spec
=============================================================================
