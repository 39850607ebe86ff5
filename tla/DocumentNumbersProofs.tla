------------------------- MODULE DocumentNumbersProofs -------------------------
(***************************************************************************)
(* Proofs about DocumentNumbers, for any sets of sequence keys, requests   *)
(* and settings writers.                                                   *)
(*                                                                         *)
(* The argument: every number a row was ever seen to hand out follows an   *)
(* issued one (ReadsFollow), and the issued numbers are an initial segment *)
(* of the positive numbers.  A number that is free and follows an issued   *)
(* one is therefore THE next number, so a transaction that commits read    *)
(* the row after the last document of its kind was committed.              *)
(***************************************************************************)
EXTENDS DocumentNumbers, TLAPS

(***************************************************************************)
(* A free number that follows a member of an initial segment is the number *)
(* right after the whole segment.                                          *)
(***************************************************************************)
LEMMA NextOfSegment ==
  ASSUME NEW S \in SUBSET (Nat \ {0}), Segment(S),
         NEW n \in Nat \ {0}, Follows(n, S), n \notin S
  PROVE  S = 1 .. (n - 1)
<1>1. ASSUME NEW m \in S  PROVE m \in 1 .. (n - 1)
  BY <1>1 DEF Segment
<1>2. ASSUME NEW m \in 1 .. (n - 1)  PROVE m \in S
  BY <1>2 DEF Segment, Follows
<1>3. QED
  BY <1>1, <1>2

(***************************************************************************)
(* Adding that number keeps the set an initial segment, and the number     *)
(* after it is free.                                                       *)
(***************************************************************************)
LEMMA SegmentGrows ==
  ASSUME NEW S \in SUBSET (Nat \ {0}), Segment(S),
         NEW n \in Nat \ {0}, Follows(n, S), n \notin S
  PROVE  /\ Segment(S \cup {n})
         /\ Follows(n + 1, S \cup {n})
         /\ n + 1 \notin S \cup {n}
<1>1. S = 1 .. (n - 1)
  BY NextOfSegment
<1>2. S \cup {n} = 1 .. n
  BY <1>1
<1>3. QED
  BY <1>2 DEF Segment, Follows

ReadsFollow ==
  \A p \in Requests \cup Writers : \A k \in TxKinds : Follows(read[p][k], issued[k])

\* What an open transaction knows of the documents of its kind.
SeenOK ==
  \A r \in Requests :
    pc[r] = "open" /\ kind[r] \in TxKinds =>
      /\ Segment(seen[r])
      /\ seen[r] \subseteq issued[kind[r]]
      /\ Follows(NumberOf(r), seen[r])

\* The invoice number a request was handed was free when it read the row.
HandedFree ==
  \A r \in Requests :
    pc[r] \in {"open", "refused"} /\ kind[r] = Invoice => NumberOf(r) \notin seen[r]

\* Requests outside a transaction are the only ones that bump first.
BumpedIsAuto == \A r \in Requests : pc[r] = "bumped" => kind[r] \in AutoKeys

IInv ==
  /\ TypeOK
  /\ Gapless
  /\ NeverSkips
  /\ InvoiceNumberFree
  /\ ReadsFollow
  /\ SeenOK
  /\ HandedFree
  /\ BumpedIsAuto

\* The invoice counter is allocated in transactions only.
LEMMA InvoiceIsTx == Invoice \in TxKinds /\ TxKinds \subseteq Kinds
BY InvoiceAssumption, AutoKeysAssumption DEF TxKinds, Kinds

\* Every step keeps the variables' types.
LEMMA TypeStep == TypeOK /\ [Next]_vars => TypeOK'
<1> SUFFICES ASSUME TypeOK, [Next]_vars  PROVE TypeOK'
  OBVIOUS
<1> USE DEF TypeOK
<1>1. ASSUME NEW r \in Requests, Read(r)  PROVE TypeOK'
  BY <1>1 DEF Read
<1>2. ASSUME NEW r \in Requests, CommitTx(r)  PROVE TypeOK'
  <2>1. row' \in Rows
    BY <1>2 DEF CommitTx, AfterAllocation, BumpInvoice, BumpSequence, Rows
  <2>2. NumberOf(r) \in Nat \ {0}
    BY DEF NumberOf, Rows
  <2>3. QED
    BY <1>2, <2>1, <2>2 DEF CommitTx
<1>3. ASSUME NEW r \in Requests, RefuseTx(r)  PROVE TypeOK'
  BY <1>3 DEF RefuseTx
<1>4. ASSUME NEW r \in Requests, Abort(r)  PROVE TypeOK'
  BY <1>4 DEF Abort
<1>5. ASSUME NEW r \in Requests, BumpAuto(r)  PROVE TypeOK'
  BY <1>5 DEF BumpAuto, AfterAllocation, BumpInvoice, BumpSequence, Rows
<1>6. ASSUME NEW r \in Requests, InsertAuto(r)  PROVE TypeOK'
  <2>1. NumberOf(r) \in Nat \ {0}
    BY DEF NumberOf, Rows
  <2>2. QED
    BY <1>6, <2>1 DEF InsertAuto
<1>7. ASSUME NEW w \in Writers, ReadSettings(w)  PROVE TypeOK'
  BY <1>7 DEF ReadSettings
<1>8. ASSUME NEW w \in Writers, SaveMergedBag(w)  PROVE TypeOK'
  BY <1>8 DEF SaveMergedBag, PutBagBack, Rows
<1>9. ASSUME NEW w \in Writers, SaveCrmSettings(w)  PROVE TypeOK'
  BY <1>9 DEF SaveCrmSettings, DropSequences, Rows
<1>10. CASE UNCHANGED vars
  BY <1>10 DEF vars
<1>11. QED
  BY <1>1, <1>2, <1>3, <1>4, <1>5, <1>6, <1>7, <1>8, <1>9, <1>10 DEF Next

(***************************************************************************)
(* The variables keep their types, for any number of requests and writers. *)
(***************************************************************************)
THEOREM TypeInvariant == Spec => []TypeOK
<1>1. Init => TypeOK
  BY DEF Init, TypeOK, Rows, NewRow
<1>2. QED
  BY <1>1, TypeStep, PTL DEF Spec

(***************************************************************************)
(* A transaction that commits keeps the strengthened invariant: the number *)
(* it adds is the one after the last, so every number handed out before    *)
(* still follows an issued one and the invoice column's stays free.        *)
(***************************************************************************)
LEMMA CommitKeeps ==
  ASSUME IInv, TypeOK', NEW r \in Requests, CommitTx(r)
  PROVE  IInv'
<1> DEFINE k == kind[r]
           n == NumberOf(r)
<1> USE DEF IInv, TypeOK
<1>1. /\ k \in TxKinds /\ k \in Kinds
      /\ n \in Nat \ {0} /\ n \notin issued[k]
      /\ issued[k] \in SUBSET (Nat \ {0})
  BY InvoiceIsTx DEF CommitTx, NumberOf, Rows
<1>2. Segment(issued[k]) /\ Follows(n, issued[k])
  BY <1>1 DEF Gapless, ReadsFollow, NumberOf
<1>3. /\ Segment(issued[k] \cup {n})
      /\ Follows(n + 1, issued[k] \cup {n})
      /\ n + 1 \notin issued[k] \cup {n}
  BY <1>1, <1>2, SegmentGrows
<1>4. issued' = [issued EXCEPT ![k] = @ \cup {n}]
  BY DEF CommitTx
<1>5. \A j \in Kinds : issued'[j] = IF j = k THEN issued[k] \cup {n} ELSE issued[j]
  BY <1>4
<1>6. Gapless'
  BY <1>3, <1>5, InvoiceIsTx DEF Gapless
<1>7. \A j \in TxKinds : row'[j] = row[j] \/ row'[j] = read[r][j] \/ (j = k /\ row'[j] = n + 1)
  BY <1>1, InvoiceIsTx DEF CommitTx, AfterAllocation, BumpInvoice, BumpSequence, NumberOf, Rows
<1>8. ASSUME NEW j \in TxKinds, NEW m, Follows(m, issued[j])
      PROVE  Follows(m, issued'[j])
  BY <1>5, <1>8, InvoiceIsTx DEF Follows
<1>9. NeverSkips'
  <2> SUFFICES ASSUME NEW j \in TxKinds  PROVE Follows(row'[j], issued'[j])
    BY DEF NeverSkips, Follows
  <2>1. CASE row'[j] = row[j]
    <3>1. Follows(row[j], issued[j])
      BY DEF NeverSkips, Follows
    <3>2. QED
      BY <2>1, <3>1, <1>8
  <2>2. CASE row'[j] = read[r][j]
    <3>1. Follows(read[r][j], issued[j])
      BY DEF ReadsFollow
    <3>2. QED
      BY <2>2, <3>1, <1>8
  <2>3. CASE j = k /\ row'[j] = n + 1
    BY <2>3, <1>1, <1>3, <1>5
  <2>4. QED
    BY <1>7, <2>1, <2>2, <2>3
<1>10. InvoiceNumberFree'
  <2>1. CASE k = Invoice
    <3>1. row'[Invoice] = n + 1
      BY <2>1, <1>1 DEF CommitTx, AfterAllocation, BumpInvoice, NumberOf, Rows
    <3>2. QED
      BY <2>1, <3>1, <1>1, <1>3, <1>5 DEF InvoiceNumberFree
  <2>2. CASE k # Invoice
    <3>1. row'[Invoice] = row[Invoice]
      BY <2>2, InvoiceIsTx DEF CommitTx, AfterAllocation, BumpSequence
    <3>2. QED
      BY <2>2, <3>1, <1>5, InvoiceIsTx DEF InvoiceNumberFree
  <2>3. QED
    BY <2>1, <2>2
<1>11. ReadsFollow'
  <2>1. read' = read
    BY DEF CommitTx
  <2>2. QED
    BY <2>1, <1>8 DEF ReadsFollow
<1>12. SeenOK'
  <2> SUFFICES ASSUME NEW s \in Requests, pc'[s] = "open", kind'[s] \in TxKinds
               PROVE  /\ Segment(seen'[s])
                      /\ seen'[s] \subseteq issued'[kind'[s]]
                      /\ Follows(NumberOf(s)', seen'[s])
    BY DEF SeenOK
  <2>1. kind' = kind /\ read' = read /\ seen' = seen /\ pc[s] = "open" /\ NumberOf(s)' = NumberOf(s)
    BY DEF CommitTx, NumberOf
  <2>2. /\ Segment(seen[s]) /\ seen[s] \subseteq issued[kind[s]]
        /\ Follows(NumberOf(s), seen[s])
    BY <2>1 DEF SeenOK
  <2>3. QED
    BY <2>1, <2>2, <1>5
<1>13. HandedFree'
  BY DEF CommitTx, HandedFree, NumberOf
<1>14. BumpedIsAuto'
  BY DEF CommitTx, BumpedIsAuto
<1>15. QED
  BY <1>6, <1>9, <1>10, <1>11, <1>12, <1>13, <1>14

(***************************************************************************)
(* So does a document inserted outside a transaction, whose kind is not in *)
(* TxKinds.                                                                *)
(***************************************************************************)
LEMMA InsertKeeps ==
  ASSUME IInv, TypeOK', NEW r \in Requests, InsertAuto(r)
  PROVE  IInv'
<1> USE DEF IInv, TypeOK
<1>1. kind[r] \in AutoKeys /\ kind[r] \notin TxKinds
  BY DEF InsertAuto, BumpedIsAuto, TxKinds
<1>2. /\ row' = row /\ kind' = kind /\ read' = read /\ seen' = seen
      /\ \A j \in TxKinds : issued'[j] = issued[j]
  BY <1>1, InvoiceIsTx DEF InsertAuto
<1>3. \A s \in Requests : pc'[s] # pc[s] => s = r /\ pc'[s] \in {"done", "refused", "aborted"}
  BY DEF InsertAuto
<1>4. kind[r] # Invoice
  BY <1>1, InvoiceIsTx
<1>5. Gapless' /\ NeverSkips' /\ InvoiceNumberFree' /\ ReadsFollow'
  BY <1>2, InvoiceIsTx DEF Gapless, NeverSkips, InvoiceNumberFree, ReadsFollow
<1>6. SeenOK'
  BY <1>2, <1>3 DEF SeenOK, NumberOf
<1>7. HandedFree' /\ BumpedIsAuto'
  BY <1>2, <1>3, <1>4 DEF HandedFree, BumpedIsAuto, NumberOf
<1>8. QED
  BY <1>5, <1>6, <1>7

(***************************************************************************)
(* The steps that change only the settings row: every counter is left, put *)
(* back as it was read, or back at 1, and the invoice column is left.      *)
(***************************************************************************)
LEMMA RowWriteKeeps ==
  ASSUME IInv, TypeOK', UNCHANGED <<issued, kind, read, seen>>,
         row'[Invoice] = row[Invoice],
         \A j \in TxKinds : Follows(row'[j], issued[j]),
         \A r \in Requests : pc'[r] # pc[r] => pc'[r] = "bumped" /\ kind[r] \in AutoKeys
  PROVE  IInv'
<1> USE DEF IInv, TypeOK
<1>1. Gapless' /\ NeverSkips' /\ InvoiceNumberFree' /\ ReadsFollow'
  BY DEF Gapless, NeverSkips, InvoiceNumberFree, ReadsFollow, Follows
<1>2. SeenOK'
  BY DEF SeenOK, NumberOf
<1>3. HandedFree' /\ BumpedIsAuto'
  BY DEF HandedFree, BumpedIsAuto, NumberOf
<1>4. QED
  BY <1>1, <1>2, <1>3

\* The strengthened invariant is inductive.
LEMMA Inductive == IInv /\ [Next]_vars => IInv'
<1> SUFFICES ASSUME IInv, [Next]_vars  PROVE IInv'
  OBVIOUS
<1>0. TypeOK'
  BY TypeStep DEF IInv
<1> USE DEF IInv, TypeOK
<1>1. ASSUME NEW r \in Requests, Read(r)  PROVE IInv'
  <2>1. /\ UNCHANGED <<row, issued, kind>>
        /\ pc[r] = "idle" /\ pc'[r] = "open" /\ read'[r] = row /\ seen'[r] = issued[kind[r]]
        /\ \A p \in Requests \cup Writers : p # r => read'[p] = read[p] /\ pc'[p] = pc[p]
        /\ \A s \in Requests : s # r => seen'[s] = seen[s]
    BY <1>1 DEF Read
  <2>2. Gapless' /\ NeverSkips' /\ InvoiceNumberFree' /\ BumpedIsAuto'
    BY <2>1 DEF Gapless, NeverSkips, InvoiceNumberFree, BumpedIsAuto
  <2>3. ReadsFollow'
    BY <2>1 DEF ReadsFollow, NeverSkips, Follows
  <2>4. SeenOK'
    BY <2>1 DEF SeenOK, Gapless, NeverSkips, Follows, NumberOf
  <2>5. HandedFree'
    BY <2>1 DEF HandedFree, InvoiceNumberFree, NumberOf
  <2>6. QED
    BY <1>0, <2>2, <2>3, <2>4, <2>5
<1>2. ASSUME NEW r \in Requests, CommitTx(r)  PROVE IInv'
  BY <1>0, <1>2, CommitKeeps
<1>3. ASSUME NEW r \in Requests, RefuseTx(r) \/ Abort(r)  PROVE IInv'
  <2>1. /\ UNCHANGED <<row, issued, kind, read, seen>>
        /\ pc[r] = "open" /\ pc'[r] \in {"refused", "aborted", "done"}
        /\ \A s \in Requests : s # r => pc'[s] = pc[s]
    BY <1>3 DEF RefuseTx, Abort
  <2>2. Gapless' /\ NeverSkips' /\ InvoiceNumberFree' /\ ReadsFollow'
    BY <2>1 DEF Gapless, NeverSkips, InvoiceNumberFree, ReadsFollow
  <2>3. SeenOK' /\ HandedFree' /\ BumpedIsAuto'
    BY <2>1 DEF SeenOK, HandedFree, BumpedIsAuto, NumberOf
  <2>4. QED
    BY <1>0, <2>2, <2>3
<1>4. ASSUME NEW r \in Requests, BumpAuto(r)  PROVE IInv'
  <2>1. kind[r] \in AutoKeys /\ kind[r] \notin TxKinds /\ kind[r] # Invoice
    BY <1>4, InvoiceIsTx DEF BumpAuto, TxKinds
  <2>2. \A j \in TxKinds : row'[j] = IF j = Invoice THEN row[j] ELSE read[r][j]
    BY <1>4, <2>1, InvoiceIsTx DEF BumpAuto, AfterAllocation, BumpSequence
  <2>3. \A j \in TxKinds : Follows(row'[j], issued[j])
    BY <2>2 DEF NeverSkips, ReadsFollow, Follows
  <2>4. \A s \in Requests : pc'[s] # pc[s] => pc'[s] = "bumped" /\ kind[s] \in AutoKeys
    BY <1>4 DEF BumpAuto
  <2>5. UNCHANGED <<issued, kind, read, seen>> /\ row'[Invoice] = row[Invoice]
    BY <1>4, <2>2, InvoiceIsTx DEF BumpAuto
  <2>6. QED
    BY ONLY IInv, <1>0, <2>3, <2>4, <2>5, RowWriteKeeps
<1>5. ASSUME NEW r \in Requests, InsertAuto(r)  PROVE IInv'
  BY <1>0, <1>5, InsertKeeps
<1>6. ASSUME NEW w \in Writers, ReadSettings(w)  PROVE IInv'
  <2>1. /\ UNCHANGED <<row, issued, kind, seen>>
        /\ w \notin Requests /\ read'[w] = row
        /\ \A p \in Requests \cup Writers : p # w => read'[p] = read[p] /\ pc'[p] = pc[p]
    BY <1>6, ProcessAssumption DEF ReadSettings
  <2>2. Gapless' /\ NeverSkips' /\ InvoiceNumberFree' /\ BumpedIsAuto'
    BY <2>1 DEF Gapless, NeverSkips, InvoiceNumberFree, BumpedIsAuto
  <2>3. ReadsFollow'
    BY <2>1 DEF ReadsFollow, NeverSkips, Follows
  <2>4. SeenOK' /\ HandedFree'
    BY <2>1 DEF SeenOK, HandedFree, NumberOf
  <2>5. QED
    BY <1>0, <2>2, <2>3, <2>4
<1>7. ASSUME NEW w \in Writers, SaveMergedBag(w)  PROVE IInv'
  <2>1. \A j \in TxKinds : row'[j] = IF j = Invoice THEN row[j] ELSE read[w][j]
    BY <1>7, InvoiceIsTx DEF SaveMergedBag, PutBagBack
  <2>2. \A j \in TxKinds : Follows(row'[j], issued[j])
    BY <2>1 DEF NeverSkips, ReadsFollow, Follows
  <2>3. \A s \in Requests : pc'[s] = pc[s]
    BY <1>7, ProcessAssumption DEF SaveMergedBag
  <2>4. UNCHANGED <<issued, kind, read, seen>> /\ row'[Invoice] = row[Invoice]
    BY <1>7, <2>1, InvoiceIsTx DEF SaveMergedBag
  <2>5. QED
    BY ONLY IInv, <1>0, <2>2, <2>3, <2>4, RowWriteKeeps
<1>8. ASSUME NEW w \in Writers, SaveCrmSettings(w)  PROVE IInv'
  <2>1. \A j \in TxKinds : row'[j] = IF j = Invoice THEN row[j] ELSE 1
    BY <1>8, InvoiceIsTx DEF SaveCrmSettings, DropSequences
  <2>2. \A j \in TxKinds : Follows(row'[j], issued[j])
    BY <2>1 DEF NeverSkips, Follows
  <2>3. \A s \in Requests : pc'[s] = pc[s]
    BY <1>8, ProcessAssumption DEF SaveCrmSettings
  <2>4. UNCHANGED <<issued, kind, read, seen>> /\ row'[Invoice] = row[Invoice]
    BY <1>8, <2>1, InvoiceIsTx DEF SaveCrmSettings
  <2>5. QED
    BY ONLY IInv, <1>0, <2>2, <2>3, <2>4, RowWriteKeeps
<1>9. CASE UNCHANGED vars
  BY <1>9 DEF vars, Gapless, NeverSkips, InvoiceNumberFree, ReadsFollow, SeenOK,
              HandedFree, BumpedIsAuto, NumberOf
<1>10. QED
  BY <1>1, <1>2, <1>3, <1>4, <1>5, <1>6, <1>7, <1>8, <1>9 DEF Next

\* It holds initially.
LEMMA Initially == Init => IInv
BY InvoiceIsTx DEF Init, IInv, TypeOK, Rows, NewRow, Gapless, Segment, NeverSkips, InvoiceNumberFree,
       ReadsFollow, Follows, SeenOK, HandedFree, BumpedIsAuto, NumberOf

\* Every reachable state satisfies the strengthened invariant.
THEOREM Invariance == Spec => []IInv
BY Initially, Inductive, PTL DEF Spec

(***************************************************************************)
(* Documents numbered in a transaction have the numbers 1, 2, 3, ..., and  *)
(* no counter ever runs ahead of them.                                     *)
(***************************************************************************)
THEOREM NoGaps == Spec => [](Gapless /\ NeverSkips)
BY Invariance, PTL DEF IInv

(***************************************************************************)
(* Invoice numbering never blocks: the column's number is always free, and *)
(* an invoice is refused only when it lost to another one.                 *)
(***************************************************************************)
THEOREM InvoiceNeverBlocks == Spec => [](InvoiceNumberFree /\ InvoiceRefusedOnlyByCompetitor)
<1>1. IInv => InvoiceNumberFree /\ InvoiceRefusedOnlyByCompetitor
  BY DEF IInv, HandedFree, InvoiceRefusedOnlyByCompetitor
<1>2. QED
  BY <1>1, Invariance, PTL

(***************************************************************************)
(* A transaction commits a document only if no other one of its kind was   *)
(* committed since the transaction's snapshot.                             *)
(***************************************************************************)
THEOREM FirstCommitter == Spec => FirstCommitterWins
<1>1. ASSUME IInv, [Next]_vars, NEW r \in Requests,
             kind[r] \in TxKinds, pc[r] = "open", pc'[r] = "done"
      PROVE  issued[kind[r]] = seen[r]
  <2> DEFINE k == kind[r]
             n == NumberOf(r)
  <2>1. CommitTx(r)
    BY <1>1, ProcessAssumption DEF IInv, TypeOK, Next, vars, Read, CommitTx, RefuseTx, Abort,
       BumpAuto, InsertAuto, ReadSettings, SaveMergedBag, SaveCrmSettings, TxKinds
  <2>2. /\ k \in Kinds /\ n \in Nat \ {0} /\ n \notin issued[k]
        /\ issued[k] \in SUBSET (Nat \ {0}) /\ seen[r] \in SUBSET (Nat \ {0})
    BY <1>1, <2>1 DEF IInv, TypeOK, CommitTx, NumberOf, Rows
  <2>3. Segment(issued[k]) /\ Follows(n, issued[k])
    BY <1>1 DEF IInv, Gapless, ReadsFollow, NumberOf
  <2>4. Segment(seen[r]) /\ Follows(n, seen[r]) /\ n \notin seen[r]
    BY <1>1, <2>2 DEF IInv, SeenOK
  <2>5. issued[k] = 1 .. (n - 1) /\ seen[r] = 1 .. (n - 1)
    BY <2>2, <2>3, <2>4, NextOfSegment
  <2>6. QED
    BY <2>5
<1>2. IInv /\ [Next]_vars =>
        [\A r \in Requests :
           kind[r] \in TxKinds /\ pc[r] = "open" /\ pc'[r] = "done"
             => issued[kind[r]] = seen[r]]_vars
  BY <1>1
<1>3. QED
  BY <1>2, Invariance, PTL DEF Spec, FirstCommitterWins

(***************************************************************************)
(* DocumentNumbers implements NumberSeries: seen through its committed     *)
(* documents, a step issues the next number of one kind or none.           *)
(***************************************************************************)
THEOREM Refinement == Spec => NumbersFormSeries
<1> DEFINE shown == [k \in TxKinds |-> issued[k]]
<1>1. Init => Series!Init
  BY InvoiceIsTx DEF Init, Series!Init
<1>2. IInv /\ [Next]_vars => [Series!Next]_shown
  <2> SUFFICES ASSUME IInv, [Next]_vars  PROVE [Series!Next]_shown
    OBVIOUS
  <2>1. ASSUME NEW r \in Requests, CommitTx(r)  PROVE Series!Next
    <3> DEFINE k == kind[r]
               n == NumberOf(r)
    <3>1. /\ k \in TxKinds /\ k \in Kinds /\ n \in Nat \ {0} /\ n \notin issued[k]
          /\ issued[k] \in SUBSET (Nat \ {0})
      BY <2>1, InvoiceIsTx DEF IInv, TypeOK, CommitTx, NumberOf, Rows
    <3>2. issued[k] = 1 .. (n - 1)
      BY <3>1, NextOfSegment DEF IInv, Gapless, ReadsFollow, NumberOf
    <3>3. \A j \in TxKinds : issued'[j] = IF j = k THEN issued[k] \cup {n} ELSE issued[j]
      BY <2>1, InvoiceIsTx DEF IInv, TypeOK, CommitTx
    <3>4. n \in shown'[k] \ shown[k] /\ shown' = [shown EXCEPT ![k] = @ \cup {n}]
      BY <3>1, <3>3
    <3>5. \A m \in 1 .. (n - 1) : m \in shown[k]
      BY <3>1, <3>2
    <3>6. QED
      BY <3>1, <3>4, <3>5 DEF Series!Next, Series!Issue
  <2>2. ASSUME NEW r \in Requests, InsertAuto(r)  PROVE shown' = shown
    <3>1. kind[r] \notin TxKinds
      BY <2>2 DEF IInv, BumpedIsAuto, InsertAuto, TxKinds
    <3>2. \A j \in TxKinds : issued'[j] = issued[j]
      BY <2>2, <3>1, InvoiceIsTx DEF IInv, TypeOK, InsertAuto
    <3>3. QED
      BY <3>2
  <2>3. CASE issued' = issued
    BY <2>3
  <2>4. QED
    BY <2>1, <2>2, <2>3 DEF Next, vars, Read, RefuseTx, Abort, BumpAuto, ReadSettings,
       SaveMergedBag, SaveCrmSettings
<1>3. QED
  BY <1>1, <1>2, Invariance, PTL DEF Spec, NumbersFormSeries, Series!Spec
=============================================================================
