--------------------------- MODULE ProviderWorkProofs ---------------------------
(***************************************************************************)
(* Theorems about ProviderWork, for any operations and events, attempts,   *)
(* stalls and faults: types, WorkBounded, SuccessIsReal,                   *)
(* EventsHandledOnce and AttemptsRunOut.                                   *)
(*                                                                         *)
(* The bound is inductive with what is left of it: effects, attempts left  *)
(* and stalls left never add up to more than the limit, and one more only  *)
(* while a run that has had its effect is still to be accounted for.       *)
(***************************************************************************)
EXTENDS ProviderWork, TLAPS

\* The steps of a run that may have had its effect.
After == {"acted", "succeeded", "returning", "failing", "recording"}

Spent(x) == acted[x] + queue[x].left + queue[x].stalls

BoundOK(x) ==
  /\ acted[x] <= Limit(x)
  /\ via[x] \in {"none", "rejected"} => acted[x] = 0
  /\ via[x] = "rejected" => queue[x].state \in {"rejecting", "done"}
  /\ queue[x].state = "rejecting" => via[x] = "rejected"
  /\ queue[x].state \in {"absent", "adding", "waiting"} => queue[x].left > 0 /\ Spent(x) <= Limit(x)
  /\ queue[x].state = "active" =>
       queue[x].left > 0 /\ Spent(x) <= Limit(x) + (IF run[x] \in After THEN 1 ELSE 0)

RowOK(x) ==
  /\ status[x] = "none" => queue[x].state = "absent" /\ via[x] = "none" /\ acted[x] = 0
  /\ status[x] # "none" => queue[x].state # "absent" /\ via[x] # "none"
  /\ queue[x].state = "active" <=> run[x] # "idle"
  /\ queue[x].state = "rejecting" => status[x] = Fresh(x)

ResultOK(x) ==
  /\ status[x] = Success(x) \/ run[x] \in {"acted", "succeeded"} => acted[x] > 0
  /\ x \in Events =>
       /\ run[x] = "marked" => status[x] = "PROCESSING"
       /\ run[x] # "succeeded"
       /\ status[x] \in Settled(x) => run[x] \in {"idle", "returning"}

MirrorOK == mirror # Nothing => acted[mirror] > 0

IInv == TypeOK /\ MirrorOK /\ \A x \in Work : BoundOK(x) /\ RowOK(x) /\ ResultOK(x)

LEMMA AttemptsPositive == ASSUME NEW x \in Work PROVE Attempts(x) \in Nat \ {0}
BY SizeAssumption DEF Attempts

LEMMA StatusFacts ==
  ASSUME NEW x \in Work
  PROVE  /\ Fresh(x) \in Statuses(x) /\ Success(x) \in Statuses(x) /\ Success(x) \in Settled(x)
         /\ {"none", "PROCESSING", "FAILED"} \subseteq Statuses(x)
         /\ Fresh(x) \notin Settled(x) \cup {"none"}
         /\ Settled(x) \subseteq Statuses(x)
         /\ "none" \notin Settled(x) /\ "PROCESSING" \notin Settled(x) /\ "FAILED" \notin Settled(x)
         /\ x \in Events => x \notin Operations /\ Success(x) = "PROCESSED"
                            /\ Settled(x) = {"PROCESSED", "IGNORED"}
         /\ x \in Operations => x \notin Events /\ Success(x) = "SUCCEEDED"
BY KindAssumption DEF Statuses, Fresh, Success, Settled, Work

LEMMA Initially == Init => IInv
<1> SUFFICES ASSUME Init PROVE IInv
  OBVIOUS
<1> USE DEF Init
<1>1. TypeOK
  <2>1. \A x \in Work : status[x] \in Statuses(x)
    BY StatusFacts
  <2>2. queue \in [Work -> QueueRecords]
    BY AttemptsPositive, SizeAssumption DEF QueueRecords
  <2>3. \A x \in Work : queue[x].left <= Attempts(x) /\ queue[x].stalls <= MaxStalls
    BY AttemptsPositive, SizeAssumption
  <2> QED BY <2>1, <2>2, <2>3 DEF TypeOK, RunSteps
<1>2. ASSUME NEW x \in Work PROVE BoundOK(x) /\ RowOK(x) /\ ResultOK(x)
  BY AttemptsPositive, SizeAssumption, StatusFacts
     DEF BoundOK, RowOK, ResultOK, Spent, Limit
<1> QED BY <1>1, <1>2, KindAssumption DEF IInv, MirrorOK

\* Rows other than x are as they were.
Only(x) ==
  \A y \in Work \ {x} :
    /\ status'[y] = status[y] /\ via'[y] = via[y] /\ queue'[y] = queue[y]
    /\ run'[y] = run[y] /\ acted'[y] = acted[y]

(***************************************************************************)
(* What a step of x has to show: it leaves the other rows alone, and what  *)
(* the mirror shows has happened.                                          *)
(***************************************************************************)
LEMMA OneRow ==
  ASSUME IInv, NEW x \in Work, TypeOK', Only(x), acted'[x] >= acted[x],
         mirror' = mirror \/ (mirror' = x /\ acted'[x] > 0),
         BoundOK(x)', RowOK(x)', ResultOK(x)'
  PROVE  IInv'
<1>1. MirrorOK'
  <2>1. acted \in [Work -> Nat] /\ acted' \in [Work -> Nat] /\ mirror' \in Work \cup {Nothing}
    BY DEF IInv, TypeOK
  <2>2. ASSUME mirror' # Nothing PROVE acted'[mirror'] > 0
    <3>1. CASE mirror' = x /\ acted'[x] > 0
      BY <3>1
    <3>2. CASE mirror' = mirror /\ mirror # x
      BY <2>1, <2>2, <3>2 DEF IInv, MirrorOK, Only
    <3>3. CASE mirror' = mirror /\ mirror = x
      BY <2>1, <2>2, <3>3 DEF IInv, MirrorOK
    <3> QED BY <3>1, <3>2, <3>3
  <2> QED BY <2>2 DEF MirrorOK
<1>2. ASSUME NEW y \in Work, y # x PROVE BoundOK(y)' /\ RowOK(y)' /\ ResultOK(y)'
  <2>1. /\ status'[y] = status[y] /\ via'[y] = via[y] /\ queue'[y] = queue[y]
        /\ run'[y] = run[y] /\ acted'[y] = acted[y]
    BY <1>2 DEF Only
  <2>2. BoundOK(y) /\ RowOK(y) /\ ResultOK(y)
    BY <1>2 DEF IInv
  <2> QED BY <2>1, <2>2 DEF BoundOK, RowOK, ResultOK, Spent, Limit
<1> QED BY <1>1, <1>2 DEF IInv

\* What is known of the row of x before a step of it.
OwnFacts(x) ==
  /\ status \in [Work -> UNION {Statuses(y) : y \in Work}] /\ status[x] \in Statuses(x)
  /\ via \in [Work -> {"none", "queue", "inline", "rejected"}]
  /\ queue \in [Work -> QueueRecords]
  /\ queue[x].left <= Attempts(x) /\ queue[x].stalls <= MaxStalls
  /\ queue[x].left \in Nat /\ queue[x].stalls \in Nat
  /\ run \in [Work -> RunSteps] /\ acted \in [Work -> Nat]
  /\ BoundOK(x) /\ RowOK(x) /\ ResultOK(x) /\ Limit(x) \in Nat

LEMMA Before == ASSUME IInv, NEW x \in Work PROVE OwnFacts(x)
BY AttemptsPositive, SizeAssumption DEF IInv, TypeOK, QueueRecords, Limit, OwnFacts

LEMMA CreateStep ==
  ASSUME IInv, NEW x \in Work, Create(x)
  PROVE  IInv'
<1> USE DEF Create, Ways
<1>1. x \in Work
  BY DEF Work
<1>2. OwnFacts(x)
  BY <1>1, Before
<1>3. Only(x) /\ acted'[x] >= acted[x]
  BY <1>1, <1>2 DEF Only, OwnFacts
<1>4. TypeOK'
  <2>1. status' \in [Work -> UNION {Statuses(y) : y \in Work}] /\ status'[x] \in Statuses(x)
    BY <1>1, <1>2, StatusFacts DEF OwnFacts
  <2>2. queue' \in [Work -> QueueRecords] /\ queue'[x].left <= Attempts(x) /\ queue'[x].stalls <= MaxStalls
    BY <1>1, <1>2, AttemptsPositive, SizeAssumption DEF OwnFacts, QueueRecords, BoundOK, RowOK
  <2>3. /\ via' \in [Work -> {"none", "queue", "inline", "rejected"}] /\ run' \in [Work -> RunSteps]
        /\ acted' \in [Work -> Nat] /\ mirror' \in Work \cup {Nothing}
    BY <1>1, <1>2 DEF OwnFacts, RunSteps, IInv, TypeOK
  <2> QED BY <1>1, <1>3, <2>1, <2>2, <2>3 DEF TypeOK, IInv, Only
<1>5. BoundOK(x)'
  BY <1>1, <1>2, AttemptsPositive, SizeAssumption
     DEF OwnFacts, BoundOK, RowOK, Spent, Limit, After, QueueRecords
<1>6. RowOK(x)'
  BY <1>1, <1>2, StatusFacts DEF OwnFacts, RowOK, BoundOK, QueueRecords
<1>7. ResultOK(x)'
  BY <1>1, <1>2, StatusFacts DEF OwnFacts, ResultOK, RowOK, BoundOK
<1>8. mirror' = mirror \/ (mirror' = x /\ acted'[x] > 0)
  BY <1>1, <1>2 DEF OwnFacts, ResultOK
<1> QED BY <1>1, <1>3, <1>4, <1>5, <1>6, <1>7, <1>8, OneRow

LEMMA InvokeStep ==
  ASSUME IInv, NEW o \in Operations, Invoke(o)
  PROVE  IInv'
<1> USE DEF Invoke
<1>1. o \in Work
  BY DEF Work
<1>2. OwnFacts(o)
  BY <1>1, Before
<1>3. Only(o) /\ acted'[o] >= acted[o]
  BY <1>1, <1>2 DEF Only, OwnFacts
<1>4. TypeOK'
  <2>1. status' \in [Work -> UNION {Statuses(y) : y \in Work}] /\ status'[o] \in Statuses(o)
    BY <1>1, <1>2, StatusFacts DEF OwnFacts
  <2>2. queue' \in [Work -> QueueRecords] /\ queue'[o].left <= Attempts(o) /\ queue'[o].stalls <= MaxStalls
    BY <1>1, <1>2, AttemptsPositive, SizeAssumption DEF OwnFacts, QueueRecords, BoundOK, RowOK
  <2>3. /\ via' \in [Work -> {"none", "queue", "inline", "rejected"}] /\ run' \in [Work -> RunSteps]
        /\ acted' \in [Work -> Nat] /\ mirror' \in Work \cup {Nothing}
    BY <1>1, <1>2 DEF OwnFacts, RunSteps, IInv, TypeOK
  <2> QED BY <1>1, <1>3, <2>1, <2>2, <2>3 DEF TypeOK, IInv, Only
<1>5. BoundOK(o)'
  BY <1>1, <1>2, AttemptsPositive, SizeAssumption
     DEF OwnFacts, BoundOK, RowOK, Spent, Limit, After, QueueRecords
<1>6. RowOK(o)'
  BY <1>1, <1>2, StatusFacts DEF OwnFacts, RowOK, BoundOK, QueueRecords
<1>7. ResultOK(o)'
  BY <1>1, <1>2, StatusFacts DEF OwnFacts, ResultOK, RowOK, BoundOK
<1>8. mirror' = mirror \/ (mirror' = o /\ acted'[o] > 0)
  BY <1>1, <1>2 DEF OwnFacts, ResultOK
<1> QED BY <1>1, <1>3, <1>4, <1>5, <1>6, <1>7, <1>8, OneRow

LEMMA EnqueueStep ==
  ASSUME IInv, NEW x \in Work, Enqueue(x)
  PROVE  IInv'
<1> USE DEF Enqueue
<1>1. x \in Work
  BY DEF Work
<1>2. OwnFacts(x)
  BY <1>1, Before
<1>3. Only(x) /\ acted'[x] >= acted[x]
  BY <1>1, <1>2 DEF Only, OwnFacts
<1>4. TypeOK'
  <2>1. status' \in [Work -> UNION {Statuses(y) : y \in Work}] /\ status'[x] \in Statuses(x)
    BY <1>1, <1>2, StatusFacts DEF OwnFacts
  <2>2. queue' \in [Work -> QueueRecords] /\ queue'[x].left <= Attempts(x) /\ queue'[x].stalls <= MaxStalls
    BY <1>1, <1>2, AttemptsPositive, SizeAssumption DEF OwnFacts, QueueRecords, BoundOK, RowOK
  <2>3. /\ via' \in [Work -> {"none", "queue", "inline", "rejected"}] /\ run' \in [Work -> RunSteps]
        /\ acted' \in [Work -> Nat] /\ mirror' \in Work \cup {Nothing}
    BY <1>1, <1>2 DEF OwnFacts, RunSteps, IInv, TypeOK
  <2> QED BY <1>1, <1>3, <2>1, <2>2, <2>3 DEF TypeOK, IInv, Only
<1>5. BoundOK(x)'
  BY <1>1, <1>2, AttemptsPositive, SizeAssumption
     DEF OwnFacts, BoundOK, RowOK, Spent, Limit, After, QueueRecords
<1>6. RowOK(x)'
  BY <1>1, <1>2, StatusFacts DEF OwnFacts, RowOK, BoundOK, QueueRecords
<1>7. ResultOK(x)'
  BY <1>1, <1>2, StatusFacts DEF OwnFacts, ResultOK, RowOK, BoundOK
<1>8. mirror' = mirror \/ (mirror' = x /\ acted'[x] > 0)
  BY <1>1, <1>2 DEF OwnFacts, ResultOK
<1> QED BY <1>1, <1>3, <1>4, <1>5, <1>6, <1>7, <1>8, OneRow

LEMMA EnqueueFailsStep ==
  ASSUME IInv, NEW x \in Work, EnqueueFails(x)
  PROVE  IInv'
<1> USE DEF EnqueueFails
<1>1. x \in Work
  BY DEF Work
<1>2. OwnFacts(x)
  BY <1>1, Before
<1>3. Only(x) /\ acted'[x] >= acted[x]
  BY <1>1, <1>2 DEF Only, OwnFacts
<1>4. TypeOK'
  <2>1. status' \in [Work -> UNION {Statuses(y) : y \in Work}] /\ status'[x] \in Statuses(x)
    BY <1>1, <1>2, StatusFacts DEF OwnFacts
  <2>2. queue' \in [Work -> QueueRecords] /\ queue'[x].left <= Attempts(x) /\ queue'[x].stalls <= MaxStalls
    BY <1>1, <1>2, AttemptsPositive, SizeAssumption DEF OwnFacts, QueueRecords, BoundOK, RowOK
  <2>3. /\ via' \in [Work -> {"none", "queue", "inline", "rejected"}] /\ run' \in [Work -> RunSteps]
        /\ acted' \in [Work -> Nat] /\ mirror' \in Work \cup {Nothing}
    BY <1>1, <1>2 DEF OwnFacts, RunSteps, IInv, TypeOK
  <2> QED BY <1>1, <1>3, <2>1, <2>2, <2>3 DEF TypeOK, IInv, Only
<1>5. BoundOK(x)'
  BY <1>1, <1>2, AttemptsPositive, SizeAssumption
     DEF OwnFacts, BoundOK, RowOK, Spent, Limit, After, QueueRecords
<1>6. RowOK(x)'
  BY <1>1, <1>2, StatusFacts DEF OwnFacts, RowOK, BoundOK, QueueRecords
<1>7. ResultOK(x)'
  BY <1>1, <1>2, StatusFacts DEF OwnFacts, ResultOK, RowOK, BoundOK
<1>8. mirror' = mirror \/ (mirror' = x /\ acted'[x] > 0)
  BY <1>1, <1>2 DEF OwnFacts, ResultOK
<1> QED BY <1>1, <1>3, <1>4, <1>5, <1>6, <1>7, <1>8, OneRow

LEMMA RejectEventStep ==
  ASSUME IInv, NEW x \in Work, RejectEvent(x)
  PROVE  IInv'
<1> USE DEF RejectEvent
<1>1. x \in Work
  BY DEF Work
<1>2. OwnFacts(x)
  BY <1>1, Before
<1>3. Only(x) /\ acted'[x] >= acted[x]
  BY <1>1, <1>2 DEF Only, OwnFacts
<1>4. TypeOK'
  <2>1. status' \in [Work -> UNION {Statuses(y) : y \in Work}] /\ status'[x] \in Statuses(x)
    BY <1>1, <1>2, StatusFacts DEF OwnFacts
  <2>2. queue' \in [Work -> QueueRecords] /\ queue'[x].left <= Attempts(x) /\ queue'[x].stalls <= MaxStalls
    BY <1>1, <1>2, AttemptsPositive, SizeAssumption DEF OwnFacts, QueueRecords, BoundOK, RowOK
  <2>3. /\ via' \in [Work -> {"none", "queue", "inline", "rejected"}] /\ run' \in [Work -> RunSteps]
        /\ acted' \in [Work -> Nat] /\ mirror' \in Work \cup {Nothing}
    BY <1>1, <1>2 DEF OwnFacts, RunSteps, IInv, TypeOK
  <2> QED BY <1>1, <1>3, <2>1, <2>2, <2>3 DEF TypeOK, IInv, Only
<1>5. BoundOK(x)'
  BY <1>1, <1>2, AttemptsPositive, SizeAssumption
     DEF OwnFacts, BoundOK, RowOK, Spent, Limit, After, QueueRecords
<1>6. RowOK(x)'
  BY <1>1, <1>2, StatusFacts DEF OwnFacts, RowOK, BoundOK, QueueRecords
<1>7. ResultOK(x)'
  BY <1>1, <1>2, StatusFacts DEF OwnFacts, ResultOK, RowOK, BoundOK
<1>8. mirror' = mirror \/ (mirror' = x /\ acted'[x] > 0)
  BY <1>1, <1>2 DEF OwnFacts, ResultOK
<1> QED BY <1>1, <1>3, <1>4, <1>5, <1>6, <1>7, <1>8, OneRow

LEMMA LoadStep ==
  ASSUME IInv, NEW x \in Work, Load(x)
  PROVE  IInv'
<1>1. x \in Work
  BY DEF Work
<1>2. OwnFacts(x)
  BY <1>1, Before
<1>3. PICK to \in {"done", "active"} :
        /\ queue' = [queue EXCEPT ![x].state = to]
        /\ run' = [run EXCEPT ![x] = IF to = "done" THEN "idle" ELSE "loaded"]
        /\ to = "active" => status[x] \notin Settled(x)
  BY DEF Load, Goto, Complete
<1>4. queue[x].state = "waiting" /\ UNCHANGED <<status, via, acted, mirror>>
  BY DEF Load
<1>5. Only(x) /\ acted'[x] >= acted[x]
  BY <1>1, <1>2, <1>3, <1>4 DEF Only, OwnFacts
<1>6. TypeOK'
  <2>1. status' \in [Work -> UNION {Statuses(y) : y \in Work}] /\ status'[x] \in Statuses(x)
    BY <1>1, <1>2, <1>3, <1>4, StatusFacts DEF OwnFacts
  <2>2. queue' \in [Work -> QueueRecords] /\ queue'[x].left <= Attempts(x) /\ queue'[x].stalls <= MaxStalls
    BY <1>1, <1>2, <1>3, <1>4, AttemptsPositive, SizeAssumption DEF OwnFacts, QueueRecords, BoundOK, RowOK
  <2>3. /\ via' \in [Work -> {"none", "queue", "inline", "rejected"}] /\ run' \in [Work -> RunSteps]
        /\ acted' \in [Work -> Nat] /\ mirror' \in Work \cup {Nothing}
    BY <1>1, <1>2, <1>3, <1>4 DEF OwnFacts, RunSteps, IInv, TypeOK
  <2> QED BY <1>1, <1>5, <2>1, <2>2, <2>3 DEF TypeOK, IInv, Only
<1>7. BoundOK(x)'
  BY <1>1, <1>2, <1>3, <1>4, AttemptsPositive, SizeAssumption
     DEF OwnFacts, BoundOK, RowOK, Spent, Limit, After, QueueRecords
<1>8. RowOK(x)'
  BY <1>1, <1>2, <1>3, <1>4, StatusFacts DEF OwnFacts, RowOK, BoundOK, QueueRecords
<1>9. ResultOK(x)'
  BY <1>1, <1>2, <1>3, <1>4, StatusFacts DEF OwnFacts, ResultOK, RowOK, BoundOK
<1>10. mirror' = mirror \/ (mirror' = x /\ acted'[x] > 0)
  BY <1>1, <1>2, <1>3, <1>4 DEF OwnFacts, ResultOK
<1> QED BY <1>1, <1>5, <1>6, <1>7, <1>8, <1>9, <1>10, OneRow

LEMMA MarkStep ==
  ASSUME IInv, NEW x \in Work, Mark(x)
  PROVE  IInv'
<1> USE DEF Mark, At, Goto
<1>1. x \in Work
  BY DEF Work
<1>2. OwnFacts(x)
  BY <1>1, Before
<1>3. Only(x) /\ acted'[x] >= acted[x]
  BY <1>1, <1>2 DEF Only, OwnFacts
<1>4. TypeOK'
  <2>1. status' \in [Work -> UNION {Statuses(y) : y \in Work}] /\ status'[x] \in Statuses(x)
    BY <1>1, <1>2, StatusFacts DEF OwnFacts
  <2>2. queue' \in [Work -> QueueRecords] /\ queue'[x].left <= Attempts(x) /\ queue'[x].stalls <= MaxStalls
    BY <1>1, <1>2, AttemptsPositive, SizeAssumption DEF OwnFacts, QueueRecords, BoundOK, RowOK
  <2>3. /\ via' \in [Work -> {"none", "queue", "inline", "rejected"}] /\ run' \in [Work -> RunSteps]
        /\ acted' \in [Work -> Nat] /\ mirror' \in Work \cup {Nothing}
    BY <1>1, <1>2 DEF OwnFacts, RunSteps, IInv, TypeOK
  <2> QED BY <1>1, <1>3, <2>1, <2>2, <2>3 DEF TypeOK, IInv, Only
<1>5. BoundOK(x)'
  BY <1>1, <1>2, AttemptsPositive, SizeAssumption
     DEF OwnFacts, BoundOK, RowOK, Spent, Limit, After, QueueRecords
<1>6. RowOK(x)'
  BY <1>1, <1>2, StatusFacts DEF OwnFacts, RowOK, BoundOK, QueueRecords
<1>7. ResultOK(x)'
  BY <1>1, <1>2, StatusFacts DEF OwnFacts, ResultOK, RowOK, BoundOK
<1>8. mirror' = mirror \/ (mirror' = x /\ acted'[x] > 0)
  BY <1>1, <1>2 DEF OwnFacts, ResultOK
<1> QED BY <1>1, <1>3, <1>4, <1>5, <1>6, <1>7, <1>8, OneRow

LEMMA RefuseStep ==
  ASSUME IInv, NEW x \in Work, Refuse(x)
  PROVE  IInv'
<1> USE DEF Refuse, At, Goto
<1>1. x \in Work
  BY DEF Work
<1>2. OwnFacts(x)
  BY <1>1, Before
<1>3. Only(x) /\ acted'[x] >= acted[x]
  BY <1>1, <1>2 DEF Only, OwnFacts
<1>4. TypeOK'
  <2>1. status' \in [Work -> UNION {Statuses(y) : y \in Work}] /\ status'[x] \in Statuses(x)
    BY <1>1, <1>2, StatusFacts DEF OwnFacts
  <2>2. queue' \in [Work -> QueueRecords] /\ queue'[x].left <= Attempts(x) /\ queue'[x].stalls <= MaxStalls
    BY <1>1, <1>2, AttemptsPositive, SizeAssumption DEF OwnFacts, QueueRecords, BoundOK, RowOK
  <2>3. /\ via' \in [Work -> {"none", "queue", "inline", "rejected"}] /\ run' \in [Work -> RunSteps]
        /\ acted' \in [Work -> Nat] /\ mirror' \in Work \cup {Nothing}
    BY <1>1, <1>2 DEF OwnFacts, RunSteps, IInv, TypeOK
  <2> QED BY <1>1, <1>3, <2>1, <2>2, <2>3 DEF TypeOK, IInv, Only
<1>5. BoundOK(x)'
  BY <1>1, <1>2, AttemptsPositive, SizeAssumption
     DEF OwnFacts, BoundOK, RowOK, Spent, Limit, After, QueueRecords
<1>6. RowOK(x)'
  BY <1>1, <1>2, StatusFacts DEF OwnFacts, RowOK, BoundOK, QueueRecords
<1>7. ResultOK(x)'
  BY <1>1, <1>2, StatusFacts DEF OwnFacts, ResultOK, RowOK, BoundOK
<1>8. mirror' = mirror \/ (mirror' = x /\ acted'[x] > 0)
  BY <1>1, <1>2 DEF OwnFacts, ResultOK
<1> QED BY <1>1, <1>3, <1>4, <1>5, <1>6, <1>7, <1>8, OneRow

LEMMA IgnoreStep ==
  ASSUME IInv, NEW e \in Events, Ignore(e)
  PROVE  IInv'
<1> USE DEF Ignore, At, Goto
<1>1. e \in Work
  BY DEF Work
<1>2. OwnFacts(e)
  BY <1>1, Before
<1>3. Only(e) /\ acted'[e] >= acted[e]
  BY <1>1, <1>2 DEF Only, OwnFacts
<1>4. TypeOK'
  <2>1. status' \in [Work -> UNION {Statuses(y) : y \in Work}] /\ status'[e] \in Statuses(e)
    BY <1>1, <1>2, StatusFacts DEF OwnFacts
  <2>2. queue' \in [Work -> QueueRecords] /\ queue'[e].left <= Attempts(e) /\ queue'[e].stalls <= MaxStalls
    BY <1>1, <1>2, AttemptsPositive, SizeAssumption DEF OwnFacts, QueueRecords, BoundOK, RowOK
  <2>3. /\ via' \in [Work -> {"none", "queue", "inline", "rejected"}] /\ run' \in [Work -> RunSteps]
        /\ acted' \in [Work -> Nat] /\ mirror' \in Work \cup {Nothing}
    BY <1>1, <1>2 DEF OwnFacts, RunSteps, IInv, TypeOK
  <2> QED BY <1>1, <1>3, <2>1, <2>2, <2>3 DEF TypeOK, IInv, Only
<1>5. BoundOK(e)'
  BY <1>1, <1>2, AttemptsPositive, SizeAssumption
     DEF OwnFacts, BoundOK, RowOK, Spent, Limit, After, QueueRecords
<1>6. RowOK(e)'
  BY <1>1, <1>2, StatusFacts DEF OwnFacts, RowOK, BoundOK, QueueRecords
<1>7. ResultOK(e)'
  BY <1>1, <1>2, StatusFacts DEF OwnFacts, ResultOK, RowOK, BoundOK
<1>8. mirror' = mirror \/ (mirror' = e /\ acted'[e] > 0)
  BY <1>1, <1>2 DEF OwnFacts, ResultOK
<1> QED BY <1>1, <1>3, <1>4, <1>5, <1>6, <1>7, <1>8, OneRow

LEMMA ExecuteStep ==
  ASSUME IInv, NEW o \in Operations, Execute(o)
  PROVE  IInv'
<1> USE DEF Execute, At, Goto
<1>1. o \in Work
  BY DEF Work
<1>2. OwnFacts(o)
  BY <1>1, Before
<1>3. Only(o) /\ acted'[o] >= acted[o]
  BY <1>1, <1>2 DEF Only, OwnFacts
<1>4. TypeOK'
  <2>1. status' \in [Work -> UNION {Statuses(y) : y \in Work}] /\ status'[o] \in Statuses(o)
    BY <1>1, <1>2, StatusFacts DEF OwnFacts
  <2>2. queue' \in [Work -> QueueRecords] /\ queue'[o].left <= Attempts(o) /\ queue'[o].stalls <= MaxStalls
    BY <1>1, <1>2, AttemptsPositive, SizeAssumption DEF OwnFacts, QueueRecords, BoundOK, RowOK
  <2>3. run' \in [Work -> RunSteps]
    BY <1>1, <1>2 DEF OwnFacts, RunSteps
  <2>4. acted' \in [Work -> Nat]
    BY <1>1, <1>2 DEF OwnFacts
  <2>5. via' \in [Work -> {"none", "queue", "inline", "rejected"}] /\ mirror' \in Work \cup {Nothing}
    BY <1>1, <1>2 DEF OwnFacts, IInv, TypeOK
  <2> QED BY <1>1, <1>3, <2>1, <2>2, <2>3, <2>4, <2>5 DEF TypeOK, IInv, Only
<1>5. BoundOK(o)'
  BY <1>1, <1>2, AttemptsPositive, SizeAssumption
     DEF OwnFacts, BoundOK, RowOK, Spent, Limit, After, QueueRecords
<1>6. RowOK(o)'
  BY <1>1, <1>2, StatusFacts DEF OwnFacts, RowOK, BoundOK, QueueRecords
<1>7. ResultOK(o)'
  BY <1>1, <1>2, StatusFacts DEF OwnFacts, ResultOK, RowOK, BoundOK
<1>8. mirror' = mirror \/ (mirror' = o /\ acted'[o] > 0)
  BY <1>1, <1>2 DEF OwnFacts, ResultOK
<1> QED BY <1>1, <1>3, <1>4, <1>5, <1>6, <1>7, <1>8, OneRow

LEMMA ApplyStep ==
  ASSUME IInv, NEW e \in Events, Apply(e)
  PROVE  IInv'
<1> USE DEF Apply, At, Goto
<1>1. e \in Work
  BY DEF Work
<1>2. OwnFacts(e)
  BY <1>1, Before
<1>3. Only(e) /\ acted'[e] >= acted[e]
  BY <1>1, <1>2 DEF Only, OwnFacts
<1>4. TypeOK'
  <2>1. status' \in [Work -> UNION {Statuses(y) : y \in Work}] /\ status'[e] \in Statuses(e)
    BY <1>1, <1>2, StatusFacts DEF OwnFacts
  <2>2. queue' \in [Work -> QueueRecords] /\ queue'[e].left <= Attempts(e) /\ queue'[e].stalls <= MaxStalls
    BY <1>1, <1>2, AttemptsPositive, SizeAssumption DEF OwnFacts, QueueRecords, BoundOK, RowOK
  <2>3. run' \in [Work -> RunSteps]
    BY <1>1, <1>2 DEF OwnFacts, RunSteps
  <2>4. acted' \in [Work -> Nat]
    BY <1>1, <1>2 DEF OwnFacts
  <2>5. via' \in [Work -> {"none", "queue", "inline", "rejected"}] /\ mirror' \in Work \cup {Nothing}
    BY <1>1, <1>2 DEF OwnFacts, IInv, TypeOK
  <2> QED BY <1>1, <1>3, <2>1, <2>2, <2>3, <2>4, <2>5 DEF TypeOK, IInv, Only
<1>5. BoundOK(e)'
  BY <1>1, <1>2, AttemptsPositive, SizeAssumption
     DEF OwnFacts, BoundOK, RowOK, Spent, Limit, After, QueueRecords
<1>6. RowOK(e)'
  BY <1>1, <1>2, StatusFacts DEF OwnFacts, RowOK, BoundOK, QueueRecords
<1>7. ResultOK(e)'
  BY <1>1, <1>2, StatusFacts DEF OwnFacts, ResultOK, RowOK, BoundOK
<1>8. mirror' = mirror \/ (mirror' = e /\ acted'[e] > 0)
  BY <1>1, <1>2 DEF OwnFacts, ResultOK
<1> QED BY <1>1, <1>3, <1>4, <1>5, <1>6, <1>7, <1>8, OneRow

LEMMA MarkSucceededStep ==
  ASSUME IInv, NEW o \in Operations, MarkSucceeded(o)
  PROVE  IInv'
<1> USE DEF MarkSucceeded, At, Goto
<1>1. o \in Work
  BY DEF Work
<1>2. OwnFacts(o)
  BY <1>1, Before
<1>3. Only(o) /\ acted'[o] >= acted[o]
  BY <1>1, <1>2 DEF Only, OwnFacts
<1>4. TypeOK'
  <2>1. status' \in [Work -> UNION {Statuses(y) : y \in Work}] /\ status'[o] \in Statuses(o)
    BY <1>1, <1>2, StatusFacts DEF OwnFacts
  <2>2. queue' \in [Work -> QueueRecords] /\ queue'[o].left <= Attempts(o) /\ queue'[o].stalls <= MaxStalls
    BY <1>1, <1>2, AttemptsPositive, SizeAssumption DEF OwnFacts, QueueRecords, BoundOK, RowOK
  <2>3. /\ via' \in [Work -> {"none", "queue", "inline", "rejected"}] /\ run' \in [Work -> RunSteps]
        /\ acted' \in [Work -> Nat] /\ mirror' \in Work \cup {Nothing}
    BY <1>1, <1>2 DEF OwnFacts, RunSteps, IInv, TypeOK
  <2> QED BY <1>1, <1>3, <2>1, <2>2, <2>3 DEF TypeOK, IInv, Only
<1>5. BoundOK(o)'
  BY <1>1, <1>2, AttemptsPositive, SizeAssumption
     DEF OwnFacts, BoundOK, RowOK, Spent, Limit, After, QueueRecords
<1>6. RowOK(o)'
  BY <1>1, <1>2, StatusFacts DEF OwnFacts, RowOK, BoundOK, QueueRecords
<1>7. ResultOK(o)'
  BY <1>1, <1>2, StatusFacts DEF OwnFacts, ResultOK, RowOK, BoundOK
<1>8. mirror' = mirror \/ (mirror' = o /\ acted'[o] > 0)
  BY <1>1, <1>2 DEF OwnFacts, ResultOK
<1> QED BY <1>1, <1>3, <1>4, <1>5, <1>6, <1>7, <1>8, OneRow

LEMMA MirrorOperationStep ==
  ASSUME IInv, NEW o \in Operations, MirrorOperation(o)
  PROVE  IInv'
<1> USE DEF MirrorOperation, At, Goto
<1>1. o \in Work
  BY DEF Work
<1>2. OwnFacts(o)
  BY <1>1, Before
<1>3. Only(o) /\ acted'[o] >= acted[o]
  BY <1>1, <1>2 DEF Only, OwnFacts
<1>4. TypeOK'
  <2>1. status' \in [Work -> UNION {Statuses(y) : y \in Work}] /\ status'[o] \in Statuses(o)
    BY <1>1, <1>2, StatusFacts DEF OwnFacts
  <2>2. queue' \in [Work -> QueueRecords] /\ queue'[o].left <= Attempts(o) /\ queue'[o].stalls <= MaxStalls
    BY <1>1, <1>2, AttemptsPositive, SizeAssumption DEF OwnFacts, QueueRecords, BoundOK, RowOK
  <2>3. /\ via' \in [Work -> {"none", "queue", "inline", "rejected"}] /\ run' \in [Work -> RunSteps]
        /\ acted' \in [Work -> Nat] /\ mirror' \in Work \cup {Nothing}
    BY <1>1, <1>2 DEF OwnFacts, RunSteps, IInv, TypeOK
  <2> QED BY <1>1, <1>3, <2>1, <2>2, <2>3 DEF TypeOK, IInv, Only
<1>5. BoundOK(o)'
  BY <1>1, <1>2, AttemptsPositive, SizeAssumption
     DEF OwnFacts, BoundOK, RowOK, Spent, Limit, After, QueueRecords
<1>6. RowOK(o)'
  BY <1>1, <1>2, StatusFacts DEF OwnFacts, RowOK, BoundOK, QueueRecords
<1>7. ResultOK(o)'
  BY <1>1, <1>2, StatusFacts DEF OwnFacts, ResultOK, RowOK, BoundOK
<1>8. mirror' = mirror \/ (mirror' = o /\ acted'[o] > 0)
  BY <1>1, <1>2 DEF OwnFacts, ResultOK
<1> QED BY <1>1, <1>3, <1>4, <1>5, <1>6, <1>7, <1>8, OneRow

LEMMA MarkProcessedStep ==
  ASSUME IInv, NEW e \in Events, MarkProcessed(e)
  PROVE  IInv'
<1> USE DEF MarkProcessed, At, Goto
<1>1. e \in Work
  BY DEF Work
<1>2. OwnFacts(e)
  BY <1>1, Before
<1>3. Only(e) /\ acted'[e] >= acted[e]
  BY <1>1, <1>2 DEF Only, OwnFacts
<1>4. TypeOK'
  <2>1. status' \in [Work -> UNION {Statuses(y) : y \in Work}] /\ status'[e] \in Statuses(e)
    BY <1>1, <1>2, StatusFacts DEF OwnFacts
  <2>2. queue' \in [Work -> QueueRecords] /\ queue'[e].left <= Attempts(e) /\ queue'[e].stalls <= MaxStalls
    BY <1>1, <1>2, AttemptsPositive, SizeAssumption DEF OwnFacts, QueueRecords, BoundOK, RowOK
  <2>3. /\ via' \in [Work -> {"none", "queue", "inline", "rejected"}] /\ run' \in [Work -> RunSteps]
        /\ acted' \in [Work -> Nat] /\ mirror' \in Work \cup {Nothing}
    BY <1>1, <1>2 DEF OwnFacts, RunSteps, IInv, TypeOK
  <2> QED BY <1>1, <1>3, <2>1, <2>2, <2>3 DEF TypeOK, IInv, Only
<1>5. BoundOK(e)'
  BY <1>1, <1>2, AttemptsPositive, SizeAssumption
     DEF OwnFacts, BoundOK, RowOK, Spent, Limit, After, QueueRecords
<1>6. RowOK(e)'
  BY <1>1, <1>2, StatusFacts DEF OwnFacts, RowOK, BoundOK, QueueRecords
<1>7. ResultOK(e)'
  BY <1>1, <1>2, StatusFacts DEF OwnFacts, ResultOK, RowOK, BoundOK
<1>8. mirror' = mirror \/ (mirror' = e /\ acted'[e] > 0)
  BY <1>1, <1>2 DEF OwnFacts, ResultOK
<1> QED BY <1>1, <1>3, <1>4, <1>5, <1>6, <1>7, <1>8, OneRow

LEMMA ReturnStep ==
  ASSUME IInv, NEW x \in Work, Return(x)
  PROVE  IInv'
<1> USE DEF Return, At, Goto, Complete
<1>1. x \in Work
  BY DEF Work
<1>2. OwnFacts(x)
  BY <1>1, Before
<1>3. Only(x) /\ acted'[x] >= acted[x]
  BY <1>1, <1>2 DEF Only, OwnFacts
<1>4. TypeOK'
  <2>1. status' \in [Work -> UNION {Statuses(y) : y \in Work}] /\ status'[x] \in Statuses(x)
    BY <1>1, <1>2, StatusFacts DEF OwnFacts
  <2>2. queue' \in [Work -> QueueRecords] /\ queue'[x].left <= Attempts(x) /\ queue'[x].stalls <= MaxStalls
    BY <1>1, <1>2, AttemptsPositive, SizeAssumption DEF OwnFacts, QueueRecords, BoundOK, RowOK
  <2>3. /\ via' \in [Work -> {"none", "queue", "inline", "rejected"}] /\ run' \in [Work -> RunSteps]
        /\ acted' \in [Work -> Nat] /\ mirror' \in Work \cup {Nothing}
    BY <1>1, <1>2 DEF OwnFacts, RunSteps, IInv, TypeOK
  <2> QED BY <1>1, <1>3, <2>1, <2>2, <2>3 DEF TypeOK, IInv, Only
<1>5. BoundOK(x)'
  BY <1>1, <1>2, AttemptsPositive, SizeAssumption
     DEF OwnFacts, BoundOK, RowOK, Spent, Limit, After, QueueRecords
<1>6. RowOK(x)'
  BY <1>1, <1>2, StatusFacts DEF OwnFacts, RowOK, BoundOK, QueueRecords
<1>7. ResultOK(x)'
  BY <1>1, <1>2, StatusFacts DEF OwnFacts, ResultOK, RowOK, BoundOK
<1>8. mirror' = mirror \/ (mirror' = x /\ acted'[x] > 0)
  BY <1>1, <1>2 DEF OwnFacts, ResultOK
<1> QED BY <1>1, <1>3, <1>4, <1>5, <1>6, <1>7, <1>8, OneRow

LEMMA ThrowStep ==
  ASSUME IInv, NEW x \in Work, Throw(x)
  PROVE  IInv'
<1> USE DEF Throw, At, Goto
<1>1. x \in Work
  BY DEF Work
<1>2. OwnFacts(x)
  BY <1>1, Before
<1>3. Only(x) /\ acted'[x] >= acted[x]
  BY <1>1, <1>2 DEF Only, OwnFacts
<1>4. TypeOK'
  <2>1. status' \in [Work -> UNION {Statuses(y) : y \in Work}] /\ status'[x] \in Statuses(x)
    BY <1>1, <1>2, StatusFacts DEF OwnFacts
  <2>2. queue' \in [Work -> QueueRecords] /\ queue'[x].left <= Attempts(x) /\ queue'[x].stalls <= MaxStalls
    BY <1>1, <1>2, AttemptsPositive, SizeAssumption DEF OwnFacts, QueueRecords, BoundOK, RowOK
  <2>3. /\ via' \in [Work -> {"none", "queue", "inline", "rejected"}] /\ run' \in [Work -> RunSteps]
        /\ acted' \in [Work -> Nat] /\ mirror' \in Work \cup {Nothing}
    BY <1>1, <1>2 DEF OwnFacts, RunSteps, IInv, TypeOK
  <2> QED BY <1>1, <1>3, <2>1, <2>2, <2>3 DEF TypeOK, IInv, Only
<1>5. BoundOK(x)'
  BY <1>1, <1>2, AttemptsPositive, SizeAssumption
     DEF OwnFacts, BoundOK, RowOK, Spent, Limit, After, QueueRecords
<1>6. RowOK(x)'
  BY <1>1, <1>2, StatusFacts DEF OwnFacts, RowOK, BoundOK, QueueRecords
<1>7. ResultOK(x)'
  BY <1>1, <1>2, StatusFacts DEF OwnFacts, ResultOK, RowOK, BoundOK
<1>8. mirror' = mirror \/ (mirror' = x /\ acted'[x] > 0)
  BY <1>1, <1>2 DEF OwnFacts, ResultOK
<1> QED BY <1>1, <1>3, <1>4, <1>5, <1>6, <1>7, <1>8, OneRow

LEMMA MarkFailedStep ==
  ASSUME IInv, NEW x \in Work, MarkFailed(x)
  PROVE  IInv'
<1> USE DEF MarkFailed, At, Goto
<1>1. x \in Work
  BY DEF Work
<1>2. OwnFacts(x)
  BY <1>1, Before
<1>3. Only(x) /\ acted'[x] >= acted[x]
  BY <1>1, <1>2 DEF Only, OwnFacts
<1>4. TypeOK'
  <2>1. status' \in [Work -> UNION {Statuses(y) : y \in Work}] /\ status'[x] \in Statuses(x)
    BY <1>1, <1>2, StatusFacts DEF OwnFacts
  <2>2. queue' \in [Work -> QueueRecords] /\ queue'[x].left <= Attempts(x) /\ queue'[x].stalls <= MaxStalls
    BY <1>1, <1>2, AttemptsPositive, SizeAssumption DEF OwnFacts, QueueRecords, BoundOK, RowOK
  <2>3. /\ via' \in [Work -> {"none", "queue", "inline", "rejected"}] /\ run' \in [Work -> RunSteps]
        /\ acted' \in [Work -> Nat] /\ mirror' \in Work \cup {Nothing}
    BY <1>1, <1>2 DEF OwnFacts, RunSteps, IInv, TypeOK
  <2> QED BY <1>1, <1>3, <2>1, <2>2, <2>3 DEF TypeOK, IInv, Only
<1>5. BoundOK(x)'
  BY <1>1, <1>2, AttemptsPositive, SizeAssumption
     DEF OwnFacts, BoundOK, RowOK, Spent, Limit, After, QueueRecords
<1>6. RowOK(x)'
  BY <1>1, <1>2, StatusFacts DEF OwnFacts, RowOK, BoundOK, QueueRecords
<1>7. ResultOK(x)'
  BY <1>1, <1>2, StatusFacts DEF OwnFacts, ResultOK, RowOK, BoundOK
<1>8. mirror' = mirror \/ (mirror' = x /\ acted'[x] > 0)
  BY <1>1, <1>2 DEF OwnFacts, ResultOK
<1> QED BY <1>1, <1>3, <1>4, <1>5, <1>6, <1>7, <1>8, OneRow

LEMMA RecordErrorStep ==
  ASSUME IInv, NEW x \in Work, RecordError(x)
  PROVE  IInv'
<1> USE DEF RecordError, At, Goto, Attempt
<1>1. x \in Work
  BY DEF Work
<1>2. OwnFacts(x)
  BY <1>1, Before
<1>3. Only(x) /\ acted'[x] >= acted[x]
  BY <1>1, <1>2 DEF Only, OwnFacts
<1>4. TypeOK'
  <2>1. status' \in [Work -> UNION {Statuses(y) : y \in Work}] /\ status'[x] \in Statuses(x)
    BY <1>1, <1>2, StatusFacts DEF OwnFacts
  <2>2. queue' \in [Work -> QueueRecords] /\ queue'[x].left <= Attempts(x) /\ queue'[x].stalls <= MaxStalls
    BY <1>1, <1>2, AttemptsPositive, SizeAssumption DEF OwnFacts, QueueRecords, BoundOK, RowOK
  <2>3. /\ via' \in [Work -> {"none", "queue", "inline", "rejected"}] /\ run' \in [Work -> RunSteps]
        /\ acted' \in [Work -> Nat] /\ mirror' \in Work \cup {Nothing}
    BY <1>1, <1>2 DEF OwnFacts, RunSteps, IInv, TypeOK
  <2> QED BY <1>1, <1>3, <2>1, <2>2, <2>3 DEF TypeOK, IInv, Only
<1>5. BoundOK(x)'
  BY <1>1, <1>2, AttemptsPositive, SizeAssumption
     DEF OwnFacts, BoundOK, RowOK, Spent, Limit, After, QueueRecords
<1>6. RowOK(x)'
  BY <1>1, <1>2, StatusFacts DEF OwnFacts, RowOK, BoundOK, QueueRecords
<1>7. ResultOK(x)'
  BY <1>1, <1>2, StatusFacts DEF OwnFacts, ResultOK, RowOK, BoundOK
<1>8. mirror' = mirror \/ (mirror' = x /\ acted'[x] > 0)
  BY <1>1, <1>2 DEF OwnFacts, ResultOK
<1> QED BY <1>1, <1>3, <1>4, <1>5, <1>6, <1>7, <1>8, OneRow

LEMMA CatchThrowsStep ==
  ASSUME IInv, NEW x \in Work, CatchThrows(x)
  PROVE  IInv'
<1> USE DEF CatchThrows, At, Goto, Attempt
<1>1. x \in Work
  BY DEF Work
<1>2. OwnFacts(x)
  BY <1>1, Before
<1>3. Only(x) /\ acted'[x] >= acted[x]
  BY <1>1, <1>2 DEF Only, OwnFacts
<1>4. TypeOK'
  <2>1. status' \in [Work -> UNION {Statuses(y) : y \in Work}] /\ status'[x] \in Statuses(x)
    BY <1>1, <1>2, StatusFacts DEF OwnFacts
  <2>2. queue' \in [Work -> QueueRecords] /\ queue'[x].left <= Attempts(x) /\ queue'[x].stalls <= MaxStalls
    BY <1>1, <1>2, AttemptsPositive, SizeAssumption DEF OwnFacts, QueueRecords, BoundOK, RowOK
  <2>3. /\ via' \in [Work -> {"none", "queue", "inline", "rejected"}] /\ run' \in [Work -> RunSteps]
        /\ acted' \in [Work -> Nat] /\ mirror' \in Work \cup {Nothing}
    BY <1>1, <1>2 DEF OwnFacts, RunSteps, IInv, TypeOK
  <2> QED BY <1>1, <1>3, <2>1, <2>2, <2>3 DEF TypeOK, IInv, Only
<1>5. BoundOK(x)'
  BY <1>1, <1>2, AttemptsPositive, SizeAssumption
     DEF OwnFacts, BoundOK, RowOK, Spent, Limit, After, QueueRecords
<1>6. RowOK(x)'
  BY <1>1, <1>2, StatusFacts DEF OwnFacts, RowOK, BoundOK, QueueRecords
<1>7. ResultOK(x)'
  BY <1>1, <1>2, StatusFacts DEF OwnFacts, ResultOK, RowOK, BoundOK
<1>8. mirror' = mirror \/ (mirror' = x /\ acted'[x] > 0)
  BY <1>1, <1>2 DEF OwnFacts, ResultOK
<1> QED BY <1>1, <1>3, <1>4, <1>5, <1>6, <1>7, <1>8, OneRow

LEMMA CrashStep ==
  ASSUME IInv, NEW x \in Work, Crash(x)
  PROVE  IInv'
<1> USE DEF Crash, Goto
<1>1. x \in Work
  BY DEF Work
<1>2. OwnFacts(x)
  BY <1>1, Before
<1>3. Only(x) /\ acted'[x] >= acted[x]
  BY <1>1, <1>2 DEF Only, OwnFacts
<1>4. TypeOK'
  <2>1. status' \in [Work -> UNION {Statuses(y) : y \in Work}] /\ status'[x] \in Statuses(x)
    BY <1>1, <1>2, StatusFacts DEF OwnFacts
  <2>2. queue' \in [Work -> QueueRecords] /\ queue'[x].left <= Attempts(x) /\ queue'[x].stalls <= MaxStalls
    BY <1>1, <1>2, AttemptsPositive, SizeAssumption DEF OwnFacts, QueueRecords, BoundOK, RowOK
  <2>3. /\ via' \in [Work -> {"none", "queue", "inline", "rejected"}] /\ run' \in [Work -> RunSteps]
        /\ acted' \in [Work -> Nat] /\ mirror' \in Work \cup {Nothing}
    BY <1>1, <1>2 DEF OwnFacts, RunSteps, IInv, TypeOK
  <2> QED BY <1>1, <1>3, <2>1, <2>2, <2>3 DEF TypeOK, IInv, Only
<1>5. BoundOK(x)'
  BY <1>1, <1>2, AttemptsPositive, SizeAssumption
     DEF OwnFacts, BoundOK, RowOK, Spent, Limit, After, QueueRecords
<1>6. RowOK(x)'
  BY <1>1, <1>2, StatusFacts DEF OwnFacts, RowOK, BoundOK, QueueRecords
<1>7. ResultOK(x)'
  BY <1>1, <1>2, StatusFacts DEF OwnFacts, ResultOK, RowOK, BoundOK
<1>8. mirror' = mirror \/ (mirror' = x /\ acted'[x] > 0)
  BY <1>1, <1>2 DEF OwnFacts, ResultOK
<1> QED BY <1>1, <1>3, <1>4, <1>5, <1>6, <1>7, <1>8, OneRow

LEMMA Inductive == IInv /\ [Next]_vars => IInv'
<1> SUFFICES ASSUME IInv, [Next]_vars PROVE IInv'
  OBVIOUS
<1>1. ASSUME NEW x \in Work, Create(x) \/ Handover(x) PROVE IInv'
  BY <1>1, CreateStep, EnqueueStep, EnqueueFailsStep, RejectEventStep DEF Handover
<1>2. ASSUME NEW x \in Work, RunStep(x) PROVE IInv'
  BY <1>2, LoadStep, MarkStep, ExecuteStep, MarkSucceededStep, MirrorOperationStep, ApplyStep,
     MarkProcessedStep, MarkFailedStep, RecordErrorStep, ReturnStep DEF RunStep
<1>3. ASSUME NEW x \in Work, Refuse(x) \/ Throw(x) \/ CatchThrows(x) \/ Crash(x) PROVE IInv'
  BY <1>3, RefuseStep, ThrowStep, CatchThrowsStep, CrashStep
<1>4. ASSUME NEW o \in Operations, Invoke(o) PROVE IInv'
  BY <1>4, InvokeStep
<1>5. ASSUME NEW e \in Events, Ignore(e) PROVE IInv'
  BY <1>5, IgnoreStep
<1>6. CASE UNCHANGED vars
  BY <1>6 DEF vars, IInv, TypeOK, MirrorOK, BoundOK, RowOK, ResultOK, Spent, Limit
<1> QED BY <1>1, <1>2, <1>3, <1>4, <1>5, <1>6 DEF Next

\* The inductive invariant holds throughout.
THEOREM Invariance == Spec => []IInv
BY Initially, Inductive, PTL DEF Spec

\* The variables of ProviderWork keep their types.
THEOREM TypeInvariant == Spec => []TypeOK
<1>1. IInv => TypeOK
  BY DEF IInv
<1> QED BY <1>1, Invariance, PTL

(***************************************************************************)
(* Retries of executeOperation and processWebhook are bounded: attempts    *)
(* and stalls together are the most often anything is done, whatever       *)
(* fails where, and what was invoked inline is done once at most.          *)
(***************************************************************************)
THEOREM Bounded == Spec => []WorkBounded
<1>1. IInv => WorkBounded
  BY DEF IInv, BoundOK, WorkBounded
<1> QED BY <1>1, Invariance, PTL

(***************************************************************************)
(* A row that reports success, and what the mirrored order shows, has      *)
(* really happened at the provider.                                        *)
(***************************************************************************)
THEOREM Real == Spec => []SuccessIsReal
<1>1. IInv => SuccessIsReal
  BY DEF IInv, ResultOK, MirrorOK, SuccessIsReal
<1> QED BY <1>1, Invariance, PTL

(***************************************************************************)
(* An event that has been processed or ignored is never applied again,     *)
(* though the queue may run it again.                                      *)
(***************************************************************************)
THEOREM HandledOnce == Spec => EventsHandledOnce
<1> DEFINE Once(e) == /\ acted'[e] # acted[e] => status[e] = "PROCESSING"
                      /\ status[e] \in Settled(e) => status'[e] = status[e]
<1>1. ASSUME IInv, [Next]_vars, NEW e \in Events
      PROVE  Once(e)
  <2>1. /\ e \in Work /\ e \notin Operations /\ OwnFacts(e)
        /\ Settled(e) = {"PROCESSED", "IGNORED"}
    BY <1>1, Before, KindAssumption DEF Work, Settled
  <2>2. ASSUME NEW x \in Work, x # e, Create(x) \/ Handover(x) \/ RunStep(x) \/ Refuse(x)
                                     \/ Throw(x) \/ CatchThrows(x) \/ Crash(x)
        PROVE  status'[e] = status[e] /\ acted'[e] = acted[e]
    BY <2>1, <2>2 DEF OwnFacts, Create, Handover, Enqueue, EnqueueFails, RejectEvent, RunStep, Load,
       Mark, Execute, MarkSucceeded, MirrorOperation, Apply, MarkProcessed, MarkFailed, RecordError,
       Return, Refuse, Throw, CatchThrows, Crash
  <2>3. ASSUME NEW o \in Operations, Invoke(o)
        PROVE  status'[e] = status[e] /\ acted'[e] = acted[e]
    BY <2>1, <2>3 DEF OwnFacts, Invoke
  <2>4. ASSUME NEW x \in Events, x # e, Ignore(x)
        PROVE  status'[e] = status[e] /\ acted'[e] = acted[e]
    BY <2>1, <2>4 DEF OwnFacts, Ignore
  <2>5. ASSUME Create(e) \/ Handover(e) PROVE Once(e)
    BY <2>1, <2>5, StatusFacts DEF OwnFacts, Create, Handover, Enqueue, EnqueueFails, RejectEvent,
       RowOK, BoundOK
  <2>6. ASSUME RunStep(e) PROVE Once(e)
    BY <2>1, <2>6 DEF OwnFacts, RunStep, Load, Mark, Apply, MarkProcessed, MarkFailed, RecordError,
       Return, At, ResultOK
  <2>7. ASSUME Refuse(e) \/ Throw(e) \/ CatchThrows(e) \/ Crash(e) \/ Ignore(e) PROVE Once(e)
    BY <2>1, <2>7 DEF OwnFacts, Refuse, Throw, CatchThrows, Crash, Ignore, At, ResultOK
  <2>8. CASE UNCHANGED vars
    BY <2>8 DEF vars
  <2> QED BY <1>1, <2>2, <2>3, <2>4, <2>5, <2>6, <2>7, <2>8 DEF Next
<1>2. IInv /\ [Next]_vars => [\A e \in Events : Once(e)]_vars
  BY <1>1
<1> QED BY <1>2, Invariance, PTL DEF Spec, EventsHandledOnce
-----------------------------------------------------------------------------
(* All work ends.                                                          *)

Nearer(x) == Again(x)' < Again(x) \/ (Again(x)' = Again(x) /\ Ahead(x)' < Ahead(x))

\* What a step of x has to show.
LEMMA OthersKeep ==
  ASSUME NEW x \in Work, Only(x)
  PROVE  \A y \in Work \ {x} : Again(y)' = Again(y) /\ Ahead(y)' = Ahead(y)
BY DEF Only, Again, Ahead

\* Both are natural numbers.
Ranked == \A x \in Work : Again(x) \in Nat /\ Ahead(x) \in Nat

LEMMA Ranks == IInv => Ranked
<1> SUFFICES ASSUME IInv, NEW x \in Work PROVE Again(x) \in Nat /\ Ahead(x) \in Nat
  BY DEF Ranked
<1>1. queue[x] \in QueueRecords /\ run[x] \in RunSteps
  BY DEF IInv, TypeOK
<1>2. QueueRank[queue[x].state] \in Nat /\ RunRank[run[x]] \in Nat
  BY <1>1 DEF QueueRecords, RunSteps, QueueRank, RunRank
<1> QED BY <1>1, <1>2 DEF QueueRecords, Again, Ahead

LEMMA RanksNext == IInv' => Ranked'
BY Ranks, PTL

\* A step that leaves what is left of x and moves its record or its run on.
LEMMA MovesOn ==
  ASSUME NEW x \in Work,
         queue[x].left \in Nat, queue[x].stalls \in Nat,
         queue'[x].left = queue[x].left, queue'[x].stalls = queue[x].stalls,
         QueueRank[queue'[x].state] + RunRank[run'[x]] < QueueRank[queue[x].state] + RunRank[run[x]]
  PROVE  Nearer(x)
BY DEF Nearer, Again, Ahead

\* A request: the row is handed over, or given up.
LEMMA RequestNearer ==
  ASSUME NEW x \in Work, OwnFacts(x),
         Create(x) \/ Handover(x) \/ (x \in Operations /\ Invoke(x))
  PROVE  Nearer(x) /\ Only(x)
<1>1. Only(x)
  BY DEF OwnFacts, Only, Create, Handover, Enqueue, EnqueueFails, RejectEvent, Invoke
<1>2. run' = run /\ run[x] \in RunSteps
  BY DEF OwnFacts, Create, Handover, Enqueue, EnqueueFails, RejectEvent, Invoke
<1>3. RunRank[run[x]] \in Nat
  BY <1>2 DEF RunSteps, RunRank
<1>4. CASE Create(x)
  <2>1. /\ queue[x].state = "absent" /\ queue'[x].state \in {"adding", "rejecting"}
        /\ queue'[x].left = queue[x].left /\ queue'[x].stalls = queue[x].stalls
    BY <1>4 DEF OwnFacts, Create, RowOK, QueueRecords
  <2>2. QueueRank[queue'[x].state] < QueueRank[queue[x].state]
        /\ QueueRank[queue'[x].state] \in Nat /\ QueueRank[queue[x].state] \in Nat
    BY <2>1 DEF QueueRank
  <2> QED BY <1>1, <1>2, <1>3, <2>1, <2>2, MovesOn DEF OwnFacts
<1>5. CASE Handover(x)
  <2>1. /\ queue[x].state \in {"adding", "rejecting"} /\ queue'[x].state \in {"waiting", "done"}
        /\ queue'[x].left = queue[x].left /\ queue'[x].stalls = queue[x].stalls
    BY <1>5 DEF OwnFacts, Handover, Enqueue, EnqueueFails, RejectEvent, QueueRecords
  <2>2. QueueRank[queue'[x].state] < QueueRank[queue[x].state]
        /\ QueueRank[queue'[x].state] \in Nat /\ QueueRank[queue[x].state] \in Nat
    BY <2>1 DEF QueueRank
  <2> QED BY <1>1, <1>2, <1>3, <2>1, <2>2, MovesOn DEF OwnFacts
<1>6. CASE Invoke(x)
  <2>1. queue[x].state = "absent" /\ queue[x].left > 0
    BY <1>6 DEF OwnFacts, Invoke, RowOK, BoundOK
  <2>2. queue'[x] = [state |-> "waiting", left |-> 1, stalls |-> 0]
    BY <1>6 DEF OwnFacts, Invoke
  <2>3. Again(x) \in Nat /\ Again(x)' = 1 /\ Again(x) >= 1
    BY <2>1, <2>2 DEF OwnFacts, Again
  <2>4. Ahead(x)' < Ahead(x)
    BY <1>2, <1>3, <2>1, <2>2 DEF Ahead, QueueRank
  <2> QED BY <1>1, <2>3, <2>4 DEF Nearer
<1> QED BY <1>1, <1>4, <1>5, <1>6

\* A statement of a run that goes on: the queue hears nothing of it.
LEMMA StatementNearer ==
  ASSUME NEW x \in Work, OwnFacts(x),
         \/ Mark(x) \/ Execute(x) \/ MarkSucceeded(x) \/ MirrorOperation(x) \/ Apply(x)
         \/ MarkProcessed(x) \/ MarkFailed(x) \/ Refuse(x) \/ Ignore(x) \/ Throw(x)
  PROVE  Nearer(x) /\ Only(x)
<1> USE DEF At, Goto
<1>1. Only(x)
  BY DEF OwnFacts, Only, Mark, Execute, MarkSucceeded, MirrorOperation, Apply, MarkProcessed,
         MarkFailed, Refuse, Ignore, Throw
<1>2. queue' = queue /\ queue[x].state = "active"
  BY DEF OwnFacts, RowOK, Mark, Execute, MarkSucceeded, MirrorOperation, Apply, MarkProcessed,
         MarkFailed, Refuse, Ignore, Throw
<1>3. RunRank[run'[x]] < RunRank[run[x]] /\ RunRank[run'[x]] \in Nat /\ RunRank[run[x]] \in Nat
  <2>1. run \in [Work -> RunSteps]
    BY DEF OwnFacts
  <2>2. CASE Mark(x) \/ MarkSucceeded(x) \/ MirrorOperation(x) \/ MarkProcessed(x) \/ MarkFailed(x)
    BY <2>1, <2>2 DEF Mark, MarkSucceeded, MirrorOperation, MarkProcessed, MarkFailed, RunRank
  <2>3. CASE Execute(x) \/ Apply(x) \/ Refuse(x) \/ Ignore(x)
    BY <2>1, <2>3 DEF Execute, Apply, Refuse, Ignore, RunRank
  <2>4. CASE Throw(x)
    BY <2>1, <2>4 DEF Throw, RunRank
  <2> QED BY <2>2, <2>3, <2>4
<1>4. QueueRank[queue[x].state] \in Nat
  BY <1>2 DEF QueueRank
<1> QED BY <1>1, <1>2, <1>3, <1>4, MovesOn DEF OwnFacts

\* The queue gives the job to a worker, or is told how the run ended.
LEMMA QueueNearer ==
  ASSUME NEW x \in Work, OwnFacts(x),
         Load(x) \/ Return(x) \/ RecordError(x) \/ CatchThrows(x) \/ Crash(x)
  PROVE  Nearer(x) /\ Only(x)
<1> USE DEF At, Goto, Complete
<1>1. Only(x)
  BY DEF OwnFacts, Only, Load, Return, RecordError, CatchThrows, Attempt, Crash
<1>2. queue \in [Work -> QueueRecords] /\ run \in [Work -> RunSteps]
      /\ (queue[x].state = "active" <=> run[x] # "idle")
  BY DEF OwnFacts, RowOK
<1>3. CASE Load(x)
  <2>1. /\ queue[x].state = "waiting" /\ run[x] = "idle"
        /\ queue'[x].left = queue[x].left /\ queue'[x].stalls = queue[x].stalls
        /\ \/ queue'[x].state = "done" /\ run'[x] = "idle"
           \/ queue'[x].state = "active" /\ run'[x] = "loaded"
    BY <1>2, <1>3 DEF Load, QueueRecords
  <2>2. QueueRank[queue'[x].state] + RunRank[run'[x]] < QueueRank[queue[x].state] + RunRank[run[x]]
    BY <2>1 DEF QueueRank, RunRank
  <2> QED BY <1>1, <2>1, <2>2, MovesOn DEF OwnFacts
<1>4. CASE queue' = [queue EXCEPT ![x].state = "done"] /\ run' = [run EXCEPT ![x] = "idle"]
           /\ queue[x].state = "active"
  <2>1. /\ queue'[x].left = queue[x].left /\ queue'[x].stalls = queue[x].stalls
        /\ queue'[x].state = "done" /\ run'[x] = "idle" /\ run[x] \in RunSteps \ {"idle"}
    BY <1>2, <1>4 DEF QueueRecords
  <2>2. QueueRank[queue'[x].state] + RunRank[run'[x]] < QueueRank[queue[x].state] + RunRank[run[x]]
    BY <1>4, <2>1 DEF QueueRank, RunRank, RunSteps
  <2> QED BY <1>1, <2>1, <2>2, MovesOn DEF OwnFacts
<1>5. CASE queue' = Attempt(x)
  <2>1. queue'[x].left = queue[x].left - 1 /\ queue'[x].stalls = queue[x].stalls
    BY <1>2, <1>5 DEF Attempt, QueueRecords
  <2>2. Again(x)' < Again(x)
    BY <2>1 DEF OwnFacts, Again
  <2> QED BY <1>1, <2>2 DEF Nearer
<1>6. CASE queue' = [queue EXCEPT ![x].state = "waiting", ![x].stalls = @ - 1]
  <2>1. queue'[x].left = queue[x].left /\ queue'[x].stalls = queue[x].stalls - 1
    BY <1>2, <1>6 DEF QueueRecords
  <2>2. Again(x)' < Again(x)
    BY <2>1 DEF OwnFacts, Again
  <2> QED BY <1>1, <2>2 DEF Nearer
<1>7. CASE Return(x)
  BY <1>2, <1>4, <1>7 DEF Return
<1>8. CASE RecordError(x) \/ CatchThrows(x)
  BY <1>5, <1>8 DEF RecordError, CatchThrows
<1>9. CASE Crash(x)
  BY <1>4, <1>6, <1>9 DEF Crash
<1> QED BY <1>3, <1>7, <1>8, <1>9

(***************************************************************************)
(* Operations and events end without any fairness: every step, of a        *)
(* request, the queue, a run, a fault or a crash, uses up an attempt or a  *)
(* stall of one of them, or brings its run nearer to its end.  What is     *)
(* left and the ranks are natural numbers, so neither goes on for ever,    *)
(* and what is done to one operation takes nothing from another.           *)
(***************************************************************************)
THEOREM Exhausts == Spec => AttemptsRunOut
<1>1. ASSUME IInv', NEW x \in Work, Nearer(x) /\ Only(x)
      PROVE  \E z \in Work :
               /\ Again(z)' < Again(z) \/ (Again(z)' = Again(z) /\ Ahead(z)' < Ahead(z))
               /\ {Again(z)', Ahead(z)'} \subseteq Nat
               /\ \A y \in Work \ {z} : Again(y)' = Again(y) /\ Ahead(y)' = Ahead(y)
  BY <1>1, OthersKeep, RanksNext DEF Nearer, Ranked
<1>2. ASSUME IInv, Next
      PROVE  \E x \in Work : Nearer(x) /\ Only(x)
  <2>1. Operations \subseteq Work /\ Events \subseteq Work
    BY DEF Work
  <2>2. ASSUME NEW x \in Work, Create(x) \/ Handover(x) PROVE Nearer(x) /\ Only(x)
    BY <1>2, <2>2, Before, RequestNearer
  <2>3. ASSUME NEW x \in Work, RunStep(x) PROVE Nearer(x) /\ Only(x)
    BY <1>2, <2>3, Before, StatementNearer, QueueNearer DEF RunStep
  <2>4. ASSUME NEW x \in Work, Refuse(x) \/ Throw(x) \/ CatchThrows(x) \/ Crash(x)
        PROVE  Nearer(x) /\ Only(x)
    BY <1>2, <2>4, Before, StatementNearer, QueueNearer
  <2>5. ASSUME NEW o \in Operations, Invoke(o) PROVE Nearer(o) /\ Only(o)
    BY <1>2, <2>1, <2>5, Before, RequestNearer
  <2>6. ASSUME NEW e \in Events, Ignore(e) PROVE Nearer(e) /\ Only(e)
    BY <1>2, <2>1, <2>6, Before, StatementNearer
  <2> QED BY <1>2, <2>1, <2>2, <2>3, <2>4, <2>5, <2>6 DEF Next
<1>3. IInv /\ IInv' /\ [Next]_vars =>
        [\E x \in Work :
           /\ Again(x)' < Again(x) \/ (Again(x)' = Again(x) /\ Ahead(x)' < Ahead(x))
           /\ {Again(x)', Ahead(x)'} \subseteq Nat
           /\ \A y \in Work \ {x} : Again(y)' = Again(y) /\ Ahead(y)' = Ahead(y)]_vars
  BY <1>1, <1>2
<1> QED BY <1>3, Invariance, PTL DEF Spec, AttemptsRunOut

=============================================================================
