-------------------------------- MODULE SyncJobs --------------------------------
(***************************************************************************)
(* The sync jobs of one project and entity type: enqueueSync               *)
(* (jobs.service.ts), the queue (job-dispatcher.service.ts over BullMQ)    *)
(* and runSync with failJob (sync-runner.service.ts).                      *)
(*                                                                         *)
(* Each database statement of a run is a step, and runs of different jobs  *)
(* interleave.  The inline driver, which runs a job inside the request and *)
(* never again, is MaxAttempts = 1, MaxStalls = 0.                         *)
(***************************************************************************)
EXTENDS Naturals, FiniteSets

CONSTANTS
  Jobs,         \* the rows of integration_jobs
  MaxAttempts,  \* how often the queue runs a job that throws (5)
  MaxStalls,    \* how often it gives a job of a dead worker to another (1)
  Workers,      \* how many jobs are run at once
  Pages,        \* pages the provider has for the entity
  PageCap,      \* pages one run fetches at most (20)
  Faults        \* what may go wrong

ASSUME SizeAssumption ==
  /\ MaxAttempts \in Nat \ {0} /\ MaxStalls \in Nat /\ Workers \in Nat \ {0}
  /\ Pages \in Nat \ {0} /\ PageCap \in Nat \ {0}
ASSUME FaultsAssumption == Faults \subseteq {"enqueue", "provider", "database", "crash"}

VARIABLES
  job,       \* job[j]: its row
  keyed,     \* the jobs whose activeSyncKey is set
  queue,     \* queue[j]: the queue's record of it
  run,       \* run[j]: where runSync is with it
  sync,      \* the project_sync_states row
  mirrored   \* the provider's pages that have been mirrored

vars == <<job, keyed, queue, run, sync, mirrored>>

\* A cursor is the next page to fetch; 0 is null: from the beginning.
Cursors == 0 .. Pages

JobRows == [type : {"FULL_SYNC", "INCREMENTAL_SYNC"},
            status : {"none", "QUEUED", "RUNNING", "SUCCEEDED", "FAILED"}]

QueueRecords == [state : {"absent", "adding", "waiting", "active", "done"},
                 made : 0 .. MaxAttempts, stalls : 0 .. MaxStalls]

Runs == [pc : {"idle", "loaded", "marked", "paging", "fetched", "saved", "succeeded",
               "failing", "stateFailed", "refusing", "stateRefused"},
         cursor : Cursors, pages : 0 .. PageCap]

SyncStates == [last : {"none", "RUNNING", "SUCCESS", "FAILED"},
               synced : BOOLEAN, cursor : Cursors]

TypeOK ==
  /\ job \in [Jobs -> JobRows]
  /\ keyed \subseteq Jobs
  /\ queue \in [Jobs -> QueueRecords]
  /\ run \in [Jobs -> Runs]
  /\ sync \in SyncStates
  /\ mirrored \subseteq 1 .. Pages

NoRun == [pc |-> "idle", cursor |-> 0, pages |-> 0]

Init ==
  /\ job \in [Jobs -> [type : {"FULL_SYNC", "INCREMENTAL_SYNC"}, status : {"none"}]]
  /\ keyed = {}
  /\ queue = [j \in Jobs |-> [state |-> "absent", made |-> 0, stalls |-> 0]]
  /\ run = [j \in Jobs |-> NoRun]
  /\ sync = [last |-> "none", synced |-> FALSE, cursor |-> 0]
  /\ mirrored = {}

-----------------------------------------------------------------------------
(* enqueueSync *)

\* The row is inserted unless the unique key of a full sync is taken.
Create(j) ==
  /\ job[j].status = "none"
  /\ IF job[j].type = "FULL_SYNC" THEN keyed = {} /\ keyed' = keyed \cup {j} ELSE UNCHANGED keyed
  /\ job' = [job EXCEPT ![j].status = "QUEUED"]
  /\ queue' = [queue EXCEPT ![j].state = "adding"]
  /\ UNCHANGED <<run, sync, mirrored>>

Enqueue(j) ==
  /\ queue[j].state = "adding"
  /\ queue' = [queue EXCEPT ![j].state = "waiting"]
  /\ UNCHANGED <<job, keyed, run, sync, mirrored>>

\* The queue cannot be reached, or the process dies: the row stays as it is.
EnqueueFails(j) ==
  /\ "enqueue" \in Faults
  /\ queue[j].state = "adding"
  /\ queue' = [queue EXCEPT ![j].state = "done"]
  /\ UNCHANGED <<job, keyed, run, sync, mirrored>>

-----------------------------------------------------------------------------
(* runSync *)

At(j, pc) == run[j].pc = pc

Goto(j, pc) == run' = [run EXCEPT ![j].pc = pc]

\* The queue is rid of the job.
Completed(j) == [queue EXCEPT ![j].state = "done"]

\* A worker takes the job and reads its row.  A job that has succeeded is
\* left alone.
Load(j) ==
  /\ queue[j].state = "waiting"
  /\ Cardinality({i \in Jobs : queue[i].state = "active"}) < Workers
  /\ IF job[j].status = "SUCCEEDED"
     THEN queue' = Completed(j) /\ UNCHANGED run
     ELSE /\ queue' = [queue EXCEPT ![j].state = "active"]
          /\ Goto(j, "loaded")
  /\ UNCHANGED <<job, keyed, sync, mirrored>>

\* activeSyncKey is not touched, also when an earlier attempt has cleared it.
MarkRunning(j) ==
  /\ At(j, "loaded")
  /\ job' = [job EXCEPT ![j].status = "RUNNING"]
  /\ Goto(j, "marked")
  /\ UNCHANGED <<keyed, queue, sync, mirrored>>

\* The state becomes RUNNING, and the cursor is read.
MarkState(j) ==
  /\ At(j, "marked")
  /\ sync' = [sync EXCEPT !.last = "RUNNING"]
  /\ run' = [run EXCEPT ![j].pc = "paging",
                        ![j].cursor = IF job[j].type = "FULL_SYNC" THEN 0 ELSE sync.cursor]
  /\ UNCHANGED <<job, keyed, queue, mirrored>>

\* Mutant: the loop keeps no cursor when it stops at the cap.
FetchPageForgetful(j) ==
  /\ At(j, "paging")
  /\ LET page == IF run[j].cursor = 0 THEN 1 ELSE run[j].cursor
         capped == run[j].pages + 1 = PageCap
     IN  /\ mirrored' = mirrored \cup {page}
         /\ run' = [run EXCEPT ![j].cursor = IF page < Pages /\ ~capped THEN page + 1 ELSE 0,
                               ![j].pages = @ + 1,
                               ![j].pc = IF page < Pages /\ ~capped THEN "paging" ELSE "fetched"]
  /\ UNCHANGED <<job, keyed, queue, sync>>

\* One page is fetched and mirrored; after the last one the cursor is null.
FetchPage(j) ==
  /\ At(j, "paging")
  /\ LET page == IF run[j].cursor = 0 THEN 1 ELSE run[j].cursor
         more == page < Pages
     IN  /\ mirrored' = mirrored \cup {page}
         /\ run' = [run EXCEPT ![j].cursor = IF more THEN page + 1 ELSE 0,
                               ![j].pages = @ + 1,
                               ![j].pc = IF more /\ run[j].pages + 1 < PageCap
                                         THEN "paging" ELSE "fetched"]
  /\ UNCHANGED <<job, keyed, queue, sync>>

SaveState(j) ==
  /\ At(j, "fetched")
  /\ sync' = [last |-> "SUCCESS", synced |-> TRUE, cursor |-> run[j].cursor]
  /\ Goto(j, "saved")
  /\ UNCHANGED <<job, keyed, queue, mirrored>>

MarkSucceeded(j) ==
  /\ At(j, "saved")
  /\ job' = [job EXCEPT ![j].status = "SUCCEEDED"]
  /\ keyed' = keyed \ {j}
  /\ Goto(j, "succeeded")
  /\ UNCHANGED <<queue, sync, mirrored>>

\* The project's lastSuccessfulSyncAt, which ends the run.
TouchProject(j) ==
  /\ At(j, "succeeded")
  /\ run' = [run EXCEPT ![j] = NoRun]
  /\ queue' = Completed(j)
  /\ UNCHANGED <<job, keyed, sync, mirrored>>

-----------------------------------------------------------------------------
(* What goes wrong *)

Working == {"loaded", "marked", "paging", "fetched", "saved", "succeeded"}

\* A statement throws, the last one as well as the first.
Throw(j) ==
  /\ \/ "provider" \in Faults /\ At(j, "paging")
     \/ "database" \in Faults /\ run[j].pc \in Working \cup {"refusing", "stateRefused"}
  /\ Goto(j, "failing")
  /\ UNCHANGED <<job, keyed, queue, sync, mirrored>>

\* The credentials are gone: failJob too, but no error and so no retry.
Refuse(j) ==
  /\ At(j, "loaded")
  /\ Goto(j, "refusing")
  /\ UNCHANGED <<job, keyed, queue, sync, mirrored>>

\* failJob: first the sync state ...
FailState(j) ==
  /\ run[j].pc \in {"failing", "refusing"}
  /\ sync' = [sync EXCEPT !.last = "FAILED"]
  /\ Goto(j, IF At(j, "failing") THEN "stateFailed" ELSE "stateRefused")
  /\ UNCHANGED <<job, keyed, queue, mirrored>>

\* Mutant: attempts are not counted.
AttemptUncounted(j) == [queue EXCEPT ![j].state = "waiting"]

\* An attempt has thrown: the queue runs the job again, or drops it.
Attempt(j) ==
  [queue EXCEPT ![j].made = @ + 1,
                ![j].state = IF queue[j].made + 1 < MaxAttempts THEN "waiting" ELSE "done"]

\* Mutant: failJob keeps the key.
FailJobKeeps(j) ==
  /\ run[j].pc \in {"stateFailed", "stateRefused"}
  /\ job' = [job EXCEPT ![j].status = "FAILED"]
  /\ UNCHANGED keyed
  /\ run' = [run EXCEPT ![j] = NoRun]
  /\ queue' = IF At(j, "stateFailed") THEN Attempt(j) ELSE Completed(j)
  /\ UNCHANGED <<sync, mirrored>>

\* ... then the job, and with it the key.
FailJob(j) ==
  /\ run[j].pc \in {"stateFailed", "stateRefused"}
  /\ job' = [job EXCEPT ![j].status = "FAILED"]
  /\ keyed' = keyed \ {j}
  /\ run' = [run EXCEPT ![j] = NoRun]
  /\ queue' = IF At(j, "stateFailed") THEN Attempt(j) ELSE Completed(j)
  /\ UNCHANGED <<sync, mirrored>>

\* failJob itself throws.
FailJobThrows(j) ==
  /\ "database" \in Faults
  /\ run[j].pc \in {"failing", "stateFailed"}
  /\ run' = [run EXCEPT ![j] = NoRun]
  /\ queue' = Attempt(j)
  /\ UNCHANGED <<job, keyed, sync, mirrored>>

\* Mutant: stalls are not counted.
CrashUncounted(j) ==
  /\ "crash" \in Faults
  /\ queue[j].state = "active"
  /\ run' = [run EXCEPT ![j] = NoRun]
  /\ queue' = [queue EXCEPT ![j].state = "waiting"]
  /\ UNCHANGED <<job, keyed, sync, mirrored>>

\* The worker dies; the queue notices the stalled job.
Crash(j) ==
  /\ "crash" \in Faults
  /\ queue[j].state = "active"
  /\ run' = [run EXCEPT ![j] = NoRun]
  /\ queue' = IF queue[j].stalls < MaxStalls
              THEN [queue EXCEPT ![j].state = "waiting", ![j].stalls = @ + 1]
              ELSE Completed(j)
  /\ UNCHANGED <<job, keyed, sync, mirrored>>

RunStep(j) ==
  \/ Load(j) \/ MarkRunning(j) \/ MarkState(j) \/ FetchPage(j)
  \/ SaveState(j) \/ MarkSucceeded(j) \/ TouchProject(j)
  \/ FailState(j) \/ FailJob(j)

Next ==
  \E j \in Jobs : \/ Create(j) \/ Enqueue(j) \/ EnqueueFails(j)
                  \/ RunStep(j)
                  \/ Throw(j) \/ Refuse(j) \/ FailJobThrows(j) \/ Crash(j)

(***************************************************************************)
(* The workers keep working, and a request that has inserted a row goes on *)
(* to hand it to the queue.                                                *)
(***************************************************************************)
Fairness == \A j \in Jobs : WF_vars(Enqueue(j) \/ EnqueueFails(j)) /\ WF_vars(RunStep(j))

Spec == Init /\ [][Next]_vars /\ Fairness
-----------------------------------------------------------------------------
(* Correctness. *)

Active(j) == job[j].status \in {"QUEUED", "RUNNING"}

(***************************************************************************)
(* The key of a job that is not active would block every later full sync:  *)
(* whatever fails where, a key is held only by a full sync whose row says  *)
(* that it is queued or running.                                           *)
(***************************************************************************)
KeyMeansActive == \A j \in keyed : job[j].type = "FULL_SYNC" /\ Active(j)

(***************************************************************************)
(* The saved cursor is honest though runs stop at PageCap, fail halfway,   *)
(* and overlap: the pages before it are mirrored, and once a sync has been *)
(* successful without leaving a cursor, all of them are.                   *)
(***************************************************************************)
CursorCovers ==
  sync.synced => IF sync.cursor = 0 THEN mirrored = 1 .. Pages
                 ELSE 1 .. (sync.cursor - 1) \subseteq mirrored

(***************************************************************************)
(* No job is retried for ever: each one comes to rest.                     *)
(***************************************************************************)
JobsComeToRest == \A j \in Jobs : <>[](queue[j].state \in {"absent", "done"})

\* What is left of a job: how often it may still be run again ...
Again(j) == (MaxAttempts - queue[j].made) + (MaxStalls - queue[j].stalls)

\* ... and how far it is from the end of this run, in pages and statements.
QueueRank == [absent |-> 14, adding |-> 13, waiting |-> 12, active |-> 0, done |-> 0]

RunRank == [idle |-> 0, loaded |-> 11, marked |-> 10, paging |-> 9, fetched |-> 8, saved |-> 7,
            succeeded |-> 6, refusing |-> 4, stateRefused |-> 3, failing |-> 2, stateFailed |-> 1]

Ahead(j) ==
  IF queue[j].state = "done" THEN 0
  ELSE QueueRank[queue[j].state] + RunRank[run[j].pc] + (PageCap - run[j].pages)

Spends(j) ==
  /\ Again(j)' < Again(j) \/ (Again(j)' = Again(j) /\ Ahead(j)' < Ahead(j))
  /\ {Again(j)', Ahead(j)'} \subseteq Nat

(***************************************************************************)
(* Whatever fails, and however late, the runs of a job are numbered: every *)
(* step of anyone uses up some of what is left of one job and none of what *)
(* is left of another.  So all work ends, however workers are scheduled.   *)
(***************************************************************************)
WorkRunsOut ==
  [][\E j \in Jobs : /\ Spends(j)
                     /\ \A i \in Jobs \ {j} : Again(i)' = Again(i) /\ Ahead(i)' = Ahead(i)]_vars

(***************************************************************************)
(* "only one active full sync per project/entity".                         *)
(***************************************************************************)
OneActiveFullSync ==
  \A i, j \in Jobs :
    i # j /\ job[i].type = "FULL_SYNC" /\ job[j].type = "FULL_SYNC" => ~(Active(i) /\ Active(j))
=============================================================================
