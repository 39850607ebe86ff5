------------------------------ MODULE ProviderWork ------------------------------
(***************************************************************************)
(* What the server does with a provider besides syncing: operations that   *)
(* users request (operations.service.ts) and events the provider sends     *)
(* (webhooks.service.ts).  Both are a row with a unique key, a job in a    *)
(* queue, and a run of sync-runner.service.ts (executeOperation,           *)
(* processWebhook) that throws to be retried.  They write the mirror of    *)
(* the same order, the one after and the other before saying that it is    *)
(* done.                                                                   *)
(*                                                                         *)
(* Each statement of a run is a step.  A request or delivery whose key is  *)
(* taken is answered with the row there is and changes nothing: it is a    *)
(* stuttering step, and the members of Work are keys.                      *)
(***************************************************************************)
EXTENDS Naturals

CONSTANTS
  Operations,         \* idempotency keys of provider_operation_requests
  Events,             \* keys of webhook_events: provider event ids, payload hashes
  OperationAttempts,  \* how often the queue runs an operation that throws (5)
  EventAttempts,      \* ... and an event (8)
  MaxStalls,          \* how often it gives a job of a dead worker to another (1)
  Faults,             \* what may go wrong
  Nothing

Work == Operations \cup Events

ASSUME KindAssumption == Operations \cap Events = {} /\ Nothing \notin Work
ASSUME SizeAssumption ==
  /\ OperationAttempts \in Nat \ {0} /\ EventAttempts \in Nat \ {0} /\ MaxStalls \in Nat
ASSUME FaultsAssumption == Faults \subseteq {"enqueue", "provider", "database", "crash"}

VARIABLES
  status,  \* status[x]: the row's status; "none" before there is a row
  via,     \* via[x]: how it came: queued, run inline, or refused for its signature
  queue,   \* queue[x]: the queue's record of it
  run,     \* run[x]: where its run is
  acted,   \* acted[x]: how often the provider, or the event, has had its effect
  mirror   \* whose result the mirrored order shows

vars == <<status, via, queue, run, acted, mirror>>

Attempts(x) == IF x \in Operations THEN OperationAttempts ELSE EventAttempts

\* How often x may be run: an inline operation once, without a queue.
Limit(x) == IF via[x] = "inline" THEN 1 ELSE Attempts(x) + MaxStalls

Fresh(x) == IF x \in Operations THEN "PENDING" ELSE "RECEIVED"

Success(x) == IF x \in Operations THEN "SUCCEEDED" ELSE "PROCESSED"

\* What a run leaves alone when it finds it.
Settled(x) == IF x \in Operations THEN {"SUCCEEDED"} ELSE {"PROCESSED", "IGNORED"}

Statuses(x) == {"none", Fresh(x), "PROCESSING", "FAILED"} \cup Settled(x)

QueueRecords ==
  [state : {"absent", "adding", "rejecting", "waiting", "active", "done"},
   left : Nat, stalls : Nat]

RunSteps == {"idle", "loaded", "marked", "acted", "succeeded", "returning", "failing", "recording"}

TypeOK ==
  /\ status \in [Work -> UNION {Statuses(x) : x \in Work}]
  /\ \A x \in Work : status[x] \in Statuses(x)
  /\ via \in [Work -> {"none", "queue", "inline", "rejected"}]
  /\ queue \in [Work -> QueueRecords]
  /\ \A x \in Work : queue[x].left <= Attempts(x) /\ queue[x].stalls <= MaxStalls
  /\ run \in [Work -> RunSteps]
  /\ acted \in [Work -> Nat]
  /\ mirror \in Work \cup {Nothing}

Init ==
  /\ status = [x \in Work |-> "none"]
  /\ via = [x \in Work |-> "none"]
  /\ queue = [x \in Work |-> [state |-> "absent", left |-> Attempts(x), stalls |-> MaxStalls]]
  /\ run = [x \in Work |-> "idle"]
  /\ acted = [x \in Work |-> 0]
  /\ mirror = Nothing

-----------------------------------------------------------------------------
(* The requests *)

\* An event may come with a signature that is wrong.
Ways(x) == IF x \in Events THEN {"queue", "rejected"} ELSE {"queue"}

\* create and ingest insert the row, unless the key is taken.
Create(x) ==
  /\ status[x] = "none"
  /\ status' = [status EXCEPT ![x] = Fresh(x)]
  /\ \E how \in Ways(x) :
       /\ via' = [via EXCEPT ![x] = how]
       /\ queue' = [queue EXCEPT ![x].state = IF how = "queue" THEN "adding" ELSE "rejecting"]
  /\ UNCHANGED <<run, acted, mirror>>

\* invoke inserts it and runs it in the request; a second one is refused.
Invoke(o) ==
  /\ status[o] = "none"
  /\ status' = [status EXCEPT ![o] = Fresh(o)]
  /\ via' = [via EXCEPT ![o] = "inline"]
  /\ queue' = [queue EXCEPT ![o] = [state |-> "waiting", left |-> 1, stalls |-> 0]]
  /\ UNCHANGED <<run, acted, mirror>>

Enqueue(x) ==
  /\ queue[x].state = "adding"
  /\ queue' = [queue EXCEPT ![x].state = "waiting"]
  /\ UNCHANGED <<status, via, run, acted, mirror>>

\* The queue cannot be reached, or the process dies: nobody enqueues it later.
EnqueueFails(x) ==
  /\ "enqueue" \in Faults
  /\ queue[x].state \in {"adding", "rejecting"}
  /\ queue' = [queue EXCEPT ![x].state = "done"]
  /\ UNCHANGED <<status, via, run, acted, mirror>>

\* 'Invalid webhook signature': the event is not enqueued.
RejectEvent(e) ==
  /\ queue[e].state = "rejecting"
  /\ status' = [status EXCEPT ![e] = "FAILED"]
  /\ queue' = [queue EXCEPT ![e].state = "done"]
  /\ UNCHANGED <<via, run, acted, mirror>>

-----------------------------------------------------------------------------
(* executeOperation and processWebhook *)

At(x, pc) == run[x] = pc

Goto(x, pc) == run' = [run EXCEPT ![x] = pc]

\* The run returns, and the queue is rid of the job.
Complete(x) == Goto(x, "idle") /\ queue' = [queue EXCEPT ![x].state = "done"]

\* Mutant: a run starts over whatever the row says.
LoadAny(x) ==
  /\ queue[x].state = "waiting"
  /\ Goto(x, "loaded") /\ queue' = [queue EXCEPT ![x].state = "active"]
  /\ UNCHANGED <<status, via, acted, mirror>>

\* The row is read; one that is settled is left alone.
Load(x) ==
  /\ queue[x].state = "waiting"
  /\ IF status[x] \in Settled(x)
     THEN Complete(x)
     ELSE Goto(x, "loaded") /\ queue' = [queue EXCEPT ![x].state = "active"]
  /\ UNCHANGED <<status, via, acted, mirror>>

Mark(x) ==
  /\ At(x, "loaded")
  /\ status' = [status EXCEPT ![x] = "PROCESSING"]
  /\ Goto(x, "marked")
  /\ UNCHANGED <<via, queue, acted, mirror>>

\* The capability is not effective or the credentials are missing.
Refuse(x) ==
  /\ At(x, "marked")
  /\ status' = [status EXCEPT ![x] = "FAILED"]
  /\ Goto(x, "returning")
  /\ UNCHANGED <<via, queue, acted, mirror>>

\* The adapter has nothing to do for this event.
Ignore(e) ==
  /\ At(e, "marked")
  /\ status' = [status EXCEPT ![e] = "IGNORED"]
  /\ Goto(e, "returning")
  /\ UNCHANGED <<via, queue, acted, mirror>>

\* The provider carries the operation out.  Its answer may be lost.
Execute(o) ==
  /\ At(o, "marked")
  /\ acted' = [acted EXCEPT ![o] = @ + 1]
  /\ \/ Goto(o, "acted")
     \/ "provider" \in Faults /\ Goto(o, "failing")
  /\ UNCHANGED <<status, via, queue, mirror>>

\* applyMirrorResult: upserts of the order, its lines and its history, which
\* may stop after the first.
Apply(e) ==
  /\ At(e, "marked")
  /\ acted' = [acted EXCEPT ![e] = @ + 1]
  /\ mirror' = e
  /\ \/ Goto(e, "acted")
     \/ "database" \in Faults /\ Goto(e, "failing")
  /\ UNCHANGED <<status, via, queue>>

\* Mutant: an operation is marked before the provider is called.
SucceedEarly(o) ==
  /\ run[o] \in {"marked", "acted"}
  /\ status' = [status EXCEPT ![o] = "SUCCEEDED"]
  /\ Goto(o, "succeeded")
  /\ UNCHANGED <<via, queue, acted, mirror>>

MarkSucceeded(o) ==
  /\ At(o, "acted")
  /\ status' = [status EXCEPT ![o] = "SUCCEEDED"]
  /\ Goto(o, "succeeded")
  /\ UNCHANGED <<via, queue, acted, mirror>>

\* The order's mirrored status, if the operation has a target and a status.
MirrorOperation(o) ==
  /\ At(o, "succeeded")
  /\ mirror' \in {mirror, o}
  /\ Goto(o, "returning")
  /\ UNCHANGED <<status, via, queue, acted>>

MarkProcessed(e) ==
  /\ At(e, "acted")
  /\ status' = [status EXCEPT ![e] = "PROCESSED"]
  /\ Goto(e, "returning")
  /\ UNCHANGED <<via, queue, acted, mirror>>

\* The queue is told.
Return(x) ==
  /\ At(x, "returning")
  /\ Complete(x)
  /\ UNCHANGED <<status, via, acted, mirror>>

-----------------------------------------------------------------------------
(* What goes wrong *)

\* A statement throws, the last one as well as the first.
Throw(x) ==
  /\ \/ "provider" \in Faults /\ At(x, "marked")
     \/ "database" \in Faults /\ run[x] \in {"loaded", "marked", "acted", "succeeded"}
  /\ Goto(x, "failing")
  /\ UNCHANGED <<status, via, queue, acted, mirror>>

\* The catch clause: first the row ...
MarkFailed(x) ==
  /\ At(x, "failing")
  /\ status' = [status EXCEPT ![x] = "FAILED"]
  /\ Goto(x, "recording")
  /\ UNCHANGED <<via, queue, acted, mirror>>

\* Mutant: attempts are not counted.
RetryForEver(x) == [queue EXCEPT ![x].state = "waiting"]

\* An attempt has thrown: the queue runs the job again, or drops it.
Attempt(x) ==
  [queue EXCEPT ![x].left = @ - 1, ![x].state = IF queue[x].left > 1 THEN "waiting" ELSE "done"]

\* ... then the recorded error; the error is thrown on.
RecordError(x) ==
  /\ At(x, "recording")
  /\ Goto(x, "idle")
  /\ queue' = Attempt(x)
  /\ UNCHANGED <<status, via, acted, mirror>>

\* The catch clause itself throws.
CatchThrows(x) ==
  /\ "database" \in Faults
  /\ run[x] \in {"failing", "recording"}
  /\ Goto(x, "idle")
  /\ queue' = Attempt(x)
  /\ UNCHANGED <<status, via, acted, mirror>>

\* Mutant: stalls are not counted.
CrashUncounted(x) ==
  /\ "crash" \in Faults
  /\ queue[x].state = "active"
  /\ Goto(x, "idle")
  /\ queue' = [queue EXCEPT ![x].state = "waiting"]
  /\ UNCHANGED <<status, via, acted, mirror>>

\* The process dies; the queue notices the stalled job.
Crash(x) ==
  /\ "crash" \in Faults
  /\ queue[x].state = "active"
  /\ Goto(x, "idle")
  /\ queue' = IF queue[x].stalls > 0
              THEN [queue EXCEPT ![x].state = "waiting", ![x].stalls = @ - 1]
              ELSE [queue EXCEPT ![x].state = "done"]
  /\ UNCHANGED <<status, via, acted, mirror>>

RunStep(x) ==
  \/ Load(x) \/ Mark(x)
  \/ x \in Operations /\ (Execute(x) \/ MarkSucceeded(x) \/ MirrorOperation(x))
  \/ x \in Events /\ (Apply(x) \/ MarkProcessed(x))
  \/ MarkFailed(x) \/ RecordError(x) \/ Return(x)

Handover(x) == Enqueue(x) \/ EnqueueFails(x) \/ RejectEvent(x)

Next ==
  \/ \E x \in Work : Create(x) \/ Handover(x) \/ RunStep(x) \/ Refuse(x)
                     \/ Throw(x) \/ CatchThrows(x) \/ Crash(x)
  \/ \E o \in Operations : Invoke(o)
  \/ \E e \in Events : Ignore(e)

(***************************************************************************)
(* A request that has inserted a row goes on to hand it over, and the      *)
(* workers and the requests that run an operation go on.                   *)
(***************************************************************************)
Fairness == \A x \in Work : WF_vars(Handover(x)) /\ WF_vars(RunStep(x))

Spec == Init /\ [][Next]_vars /\ Fairness
-----------------------------------------------------------------------------
(* Correctness. *)

(***************************************************************************)
(* The provider may carry a retried operation out again, and an event may  *)
(* be applied again, but never more often than the queue's attempts and    *)
(* stalls allow, together, whatever fails in between; an invoked operation *)
(* is carried out at most once, and an event whose signature is wrong is   *)
(* never applied.                                                          *)
(***************************************************************************)
WorkBounded ==
  \A x \in Work : acted[x] <= Limit(x) /\ (via[x] \in {"none", "rejected"} => acted[x] = 0)

(***************************************************************************)
(* What the rows and the mirror say has happened: an operation that        *)
(* SUCCEEDED was carried out, a PROCESSED event was applied, also when an  *)
(* earlier attempt did it; and the mirror shows nothing that the provider  *)
(* has not done or reported.                                               *)
(***************************************************************************)
SuccessIsReal ==
  /\ \A x \in Work : status[x] = Success(x) => acted[x] > 0
  /\ mirror # Nothing => acted[mirror] > 0

(***************************************************************************)
(* "Inbound webhooks are persisted before processing and handled           *)
(* idempotently": an event is applied only while its row says PROCESSING,  *)
(* and one that is PROCESSED or IGNORED is done with for good, however     *)
(* often it is delivered, retried or given to another worker.              *)
(***************************************************************************)
EventsHandledOnce ==
  [][\A e \in Events :
       /\ acted'[e] # acted[e] => status[e] = "PROCESSING"
       /\ status[e] \in Settled(e) => status'[e] = status[e]]_vars

(***************************************************************************)
(* No operation or event is run for ever.                                  *)
(***************************************************************************)
WorkSettles == \A x \in Work : <>[](queue[x].state \in {"absent", "done"})

\* What is left of x: how often it may still be run again ...
Again(x) == queue[x].left + queue[x].stalls

\* ... and how many statements are ahead of it until this run has ended.
QueueRank == [absent |-> 10, adding |-> 9, rejecting |-> 9, waiting |-> 8, active |-> 0, done |-> 0]

RunRank == [idle |-> 0, loaded |-> 7, marked |-> 6, acted |-> 5, succeeded |-> 4,
            failing |-> 3, recording |-> 2, returning |-> 1]

Ahead(x) == QueueRank[queue[x].state] + RunRank[run[x]]

(***************************************************************************)
(* Every step, a fault's or a crash's too, brings one operation or event   *)
(* nearer to the end of its run, or uses up an attempt or a stall, which   *)
(* nothing gives back; and it leaves the others where they were.           *)
(***************************************************************************)
AttemptsRunOut ==
  [][\E x \in Work :
       /\ Again(x)' < Again(x) \/ (Again(x)' = Again(x) /\ Ahead(x)' < Ahead(x))
       /\ {Again(x)', Ahead(x)'} \subseteq Nat
       /\ \A y \in Work \ {x} : Again(y)' = Again(y) /\ Ahead(y)' = Ahead(y)]_vars
=============================================================================
