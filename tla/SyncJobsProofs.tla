----------------------------- MODULE SyncJobsProofs -----------------------------
(***************************************************************************)
(* Theorems about SyncJobs, for any number of jobs, attempts, workers and  *)
(* pages and any faults: types, KeyMeansActive, CursorCovers and           *)
(* WorkRunsOut.                                                            *)
(*                                                                         *)
(* CursorCovers is about the saved cursor; what makes it inductive is the  *)
(* same fact about the cursor every run has in hand, from where it reads   *)
(* the saved one (MarkState) to where it saves its own (SaveState).        *)
(***************************************************************************)
EXTENDS SyncJobs, TLAPS

\* The pages before a cursor are mirrored.
Prefix(cursor, pages) == cursor # 0 => 1 .. (cursor - 1) \subseteq pages

\* ... and there is no cursor only if all are.
Covers(cursor, pages) == Prefix(cursor, pages) /\ (cursor = 0 => pages = 1 .. Pages)

RunCovers(j) ==
  /\ run[j].pc \in {"idle", "loaded", "marked"} => run[j].cursor = 0 /\ run[j].pages = 0
  /\ run[j].pc = "paging" => run[j].pages < PageCap /\ Prefix(run[j].cursor, mirrored)
  /\ run[j].pc = "fetched" => Covers(run[j].cursor, mirrored)

QueueAgrees(j) ==
  /\ queue[j].state = "active" <=> run[j].pc # "idle"
  /\ queue[j].state # "done" => queue[j].made < MaxAttempts
  /\ job[j].status = "none" => queue[j].state = "absent"

Saved == IF sync.synced THEN Covers(sync.cursor, mirrored) ELSE sync.cursor = 0

IInv ==
  /\ TypeOK
  /\ KeyMeansActive
  /\ Saved
  /\ \A j \in Jobs : RunCovers(j) /\ QueueAgrees(j)

\* What is covered stays covered as pages are mirrored.
LEMMA CoversGrows ==
  ASSUME NEW old \in SUBSET (1 .. Pages), NEW new \in SUBSET (1 .. Pages), old \subseteq new,
         NEW cursor \in Cursors
  PROVE  /\ Prefix(cursor, old) => Prefix(cursor, new)
         /\ Covers(cursor, old) => Covers(cursor, new)
BY DEF Prefix, Covers

LEMMA Initially == Init => IInv
<1> SUFFICES ASSUME Init PROVE IInv
  OBVIOUS
<1> USE DEF Init
<1>1. TypeOK
  <2>1. job \in [Jobs -> JobRows]
    BY DEF JobRows
  <2>2. queue \in [Jobs -> QueueRecords]
    BY SizeAssumption DEF QueueRecords
  <2>3. run \in [Jobs -> Runs] /\ sync \in SyncStates
    BY SizeAssumption DEF Runs, SyncStates, NoRun, Cursors
  <2> QED BY <2>1, <2>2, <2>3 DEF TypeOK
<1>2. KeyMeansActive /\ Saved
  BY DEF KeyMeansActive, Saved
<1>3. ASSUME NEW j \in Jobs PROVE RunCovers(j) /\ QueueAgrees(j)
  BY SizeAssumption DEF NoRun, RunCovers, QueueAgrees
<1> QED BY <1>1, <1>2, <1>3 DEF IInv

\* What a step of job j has to show: the other jobs are as they were.
LEMMA OneJob ==
  ASSUME IInv, NEW j \in Jobs, UNCHANGED mirrored,
         \A i \in Jobs \ {j} : run'[i] = run[i] /\ queue'[i] = queue[i] /\ job'[i] = job[i],
         RunCovers(j)', QueueAgrees(j)'
  PROVE  \A i \in Jobs : RunCovers(i)' /\ QueueAgrees(i)'
<1> SUFFICES ASSUME NEW i \in Jobs, i # j PROVE RunCovers(i)' /\ QueueAgrees(i)'
  OBVIOUS
<1> QED BY DEF IInv, RunCovers, QueueAgrees

\* Requests: nothing is mirrored and no run moves.
LEMMA RequestStep ==
  ASSUME IInv, NEW j \in Jobs, Create(j) \/ Enqueue(j) \/ EnqueueFails(j)
  PROVE  IInv'
<1> USE DEF IInv, Create, Enqueue, EnqueueFails
<1>1. TypeOK'
  <2>1. job' \in [Jobs -> JobRows] /\ keyed' \subseteq Jobs
    BY DEF TypeOK, JobRows
  <2>2. queue' \in [Jobs -> QueueRecords]
    BY DEF TypeOK, QueueRecords
  <2> QED BY <2>1, <2>2 DEF TypeOK
<1>2. KeyMeansActive'
  BY DEF TypeOK, JobRows, KeyMeansActive, Active
<1>3. Saved'
  BY DEF Saved
<1>4. RunCovers(j)' /\ QueueAgrees(j)'
  <2>1. RunCovers(j)'
    BY DEF RunCovers
  <2>2. queue'[j].state # "active" /\ queue'[j].made = queue[j].made /\ run' = run
    BY DEF TypeOK, QueueRecords
  <2>3. queue[j].state \notin {"active", "done"}
    BY DEF TypeOK, QueueRecords, QueueAgrees
  <2>4. job'[j].status = "none" => job[j].status = "none" /\ queue' = queue
    BY DEF TypeOK, JobRows, QueueAgrees
  <2>5. QueueAgrees(j)'
    BY <2>2, <2>3, <2>4 DEF QueueAgrees
  <2> QED BY <2>1, <2>5
<1>5. \A i \in Jobs \ {j} : run'[i] = run[i] /\ queue'[i] = queue[i] /\ job'[i] = job[i]
  BY DEF TypeOK
<1> QED BY <1>1, <1>2, <1>3, <1>4, <1>5, OneJob

\* Steps that only move job j's run and its queue record.
LEMMA MoveStep ==
  ASSUME IInv, NEW j \in Jobs,
         \/ Load(j) \/ TouchProject(j) \/ Throw(j)
         \/ Refuse(j) \/ FailJobThrows(j) \/ Crash(j)
  PROVE  IInv'
<1> USE SizeAssumption DEF IInv, Goto, At, NoRun, Working
<1>1. CASE Load(j)
  <2> USE <1>1 DEF Load, Completed
  <2>1. TypeOK'
    <3>1. job' \in [Jobs -> JobRows] /\ keyed' \subseteq Jobs
      BY DEF TypeOK, JobRows
    <3>2. queue' \in [Jobs -> QueueRecords]
      BY DEF TypeOK, QueueRecords, QueueAgrees
    <3>3. run' \in [Jobs -> Runs]
      BY DEF TypeOK, Runs, SyncStates, Cursors
    <3>4. sync' \in SyncStates /\ mirrored' \subseteq 1 .. Pages
      BY DEF TypeOK, Runs, SyncStates
    <3> QED BY <3>1, <3>2, <3>3, <3>4 DEF TypeOK
  <2>2. KeyMeansActive'
    BY DEF TypeOK, JobRows, KeyMeansActive, Active
  <2>3. Saved'
    BY DEF TypeOK, Runs, SyncStates, Saved, RunCovers
  <2>4. RunCovers(j)'
    BY DEF TypeOK, Runs, SyncStates, Cursors, RunCovers, QueueAgrees, Saved, Covers, Prefix
  <2>5. QueueAgrees(j)'
    BY DEF TypeOK, Runs, QueueRecords, JobRows, QueueAgrees
  <2>6. \A i \in Jobs \ {j} : run'[i] = run[i] /\ queue'[i] = queue[i] /\ job'[i] = job[i]
    BY DEF TypeOK
  <2> QED BY <2>1, <2>2, <2>3, <2>4, <2>5, <2>6, OneJob
<1>2. CASE TouchProject(j)
  <2> USE <1>2 DEF TouchProject, Completed
  <2>1. TypeOK'
    <3>1. job' \in [Jobs -> JobRows] /\ keyed' \subseteq Jobs
      BY DEF TypeOK, JobRows
    <3>2. queue' \in [Jobs -> QueueRecords]
      BY DEF TypeOK, QueueRecords, QueueAgrees
    <3>3. run' \in [Jobs -> Runs]
      BY DEF TypeOK, Runs, SyncStates, Cursors
    <3>4. sync' \in SyncStates /\ mirrored' \subseteq 1 .. Pages
      BY DEF TypeOK, Runs, SyncStates
    <3> QED BY <3>1, <3>2, <3>3, <3>4 DEF TypeOK
  <2>2. KeyMeansActive'
    BY DEF TypeOK, JobRows, KeyMeansActive, Active
  <2>3. Saved'
    BY DEF TypeOK, Runs, SyncStates, Saved, RunCovers
  <2>4. RunCovers(j)'
    BY DEF TypeOK, Runs, SyncStates, Cursors, RunCovers, QueueAgrees, Saved, Covers, Prefix
  <2>5. QueueAgrees(j)'
    BY DEF TypeOK, Runs, QueueRecords, JobRows, QueueAgrees
  <2>6. \A i \in Jobs \ {j} : run'[i] = run[i] /\ queue'[i] = queue[i] /\ job'[i] = job[i]
    BY DEF TypeOK
  <2> QED BY <2>1, <2>2, <2>3, <2>4, <2>5, <2>6, OneJob
<1>3. CASE Throw(j)
  <2> USE <1>3 DEF Throw
  <2>1. TypeOK'
    <3>1. job' \in [Jobs -> JobRows] /\ keyed' \subseteq Jobs
      BY DEF TypeOK, JobRows
    <3>2. queue' \in [Jobs -> QueueRecords]
      BY DEF TypeOK, QueueRecords, QueueAgrees
    <3>3. run' \in [Jobs -> Runs]
      BY DEF TypeOK, Runs, SyncStates, Cursors
    <3>4. sync' \in SyncStates /\ mirrored' \subseteq 1 .. Pages
      BY DEF TypeOK, Runs, SyncStates
    <3> QED BY <3>1, <3>2, <3>3, <3>4 DEF TypeOK
  <2>2. KeyMeansActive'
    BY DEF TypeOK, JobRows, KeyMeansActive, Active
  <2>3. Saved'
    BY DEF TypeOK, Runs, SyncStates, Saved, RunCovers
  <2>4. RunCovers(j)'
    BY DEF TypeOK, Runs, SyncStates, Cursors, RunCovers, QueueAgrees, Saved, Covers, Prefix
  <2>5. QueueAgrees(j)'
    BY DEF TypeOK, Runs, QueueRecords, JobRows, QueueAgrees
  <2>6. \A i \in Jobs \ {j} : run'[i] = run[i] /\ queue'[i] = queue[i] /\ job'[i] = job[i]
    BY DEF TypeOK
  <2> QED BY <2>1, <2>2, <2>3, <2>4, <2>5, <2>6, OneJob
<1>4. CASE Refuse(j)
  <2> USE <1>4 DEF Refuse
  <2>1. TypeOK'
    <3>1. job' \in [Jobs -> JobRows] /\ keyed' \subseteq Jobs
      BY DEF TypeOK, JobRows
    <3>2. queue' \in [Jobs -> QueueRecords]
      BY DEF TypeOK, QueueRecords, QueueAgrees
    <3>3. run' \in [Jobs -> Runs]
      BY DEF TypeOK, Runs, SyncStates, Cursors
    <3>4. sync' \in SyncStates /\ mirrored' \subseteq 1 .. Pages
      BY DEF TypeOK, Runs, SyncStates
    <3> QED BY <3>1, <3>2, <3>3, <3>4 DEF TypeOK
  <2>2. KeyMeansActive'
    BY DEF TypeOK, JobRows, KeyMeansActive, Active
  <2>3. Saved'
    BY DEF TypeOK, Runs, SyncStates, Saved, RunCovers
  <2>4. RunCovers(j)'
    BY DEF TypeOK, Runs, SyncStates, Cursors, RunCovers, QueueAgrees, Saved, Covers, Prefix
  <2>5. QueueAgrees(j)'
    BY DEF TypeOK, Runs, QueueRecords, JobRows, QueueAgrees
  <2>6. \A i \in Jobs \ {j} : run'[i] = run[i] /\ queue'[i] = queue[i] /\ job'[i] = job[i]
    BY DEF TypeOK
  <2> QED BY <2>1, <2>2, <2>3, <2>4, <2>5, <2>6, OneJob
<1>5. CASE FailJobThrows(j)
  <2> USE <1>5 DEF FailJobThrows, Attempt
  <2>1. TypeOK'
    <3>1. job' \in [Jobs -> JobRows] /\ keyed' \subseteq Jobs
      BY DEF TypeOK, JobRows
    <3>2. queue' \in [Jobs -> QueueRecords]
      BY DEF TypeOK, QueueRecords, QueueAgrees
    <3>3. run' \in [Jobs -> Runs]
      BY DEF TypeOK, Runs, SyncStates, Cursors
    <3>4. sync' \in SyncStates /\ mirrored' \subseteq 1 .. Pages
      BY DEF TypeOK, Runs, SyncStates
    <3> QED BY <3>1, <3>2, <3>3, <3>4 DEF TypeOK
  <2>2. KeyMeansActive'
    BY DEF TypeOK, JobRows, KeyMeansActive, Active
  <2>3. Saved'
    BY DEF TypeOK, Runs, SyncStates, Saved, RunCovers
  <2>4. RunCovers(j)'
    BY DEF TypeOK, Runs, SyncStates, Cursors, RunCovers, QueueAgrees, Saved, Covers, Prefix
  <2>5. QueueAgrees(j)'
    BY DEF TypeOK, Runs, QueueRecords, JobRows, QueueAgrees
  <2>6. \A i \in Jobs \ {j} : run'[i] = run[i] /\ queue'[i] = queue[i] /\ job'[i] = job[i]
    BY DEF TypeOK
  <2> QED BY <2>1, <2>2, <2>3, <2>4, <2>5, <2>6, OneJob
<1>6. CASE Crash(j)
  <2> USE <1>6 DEF Crash, Completed
  <2>1. TypeOK'
    <3>1. job' \in [Jobs -> JobRows] /\ keyed' \subseteq Jobs
      BY DEF TypeOK, JobRows
    <3>2. queue' \in [Jobs -> QueueRecords]
      BY DEF TypeOK, QueueRecords, QueueAgrees
    <3>3. run' \in [Jobs -> Runs]
      BY DEF TypeOK, Runs, SyncStates, Cursors
    <3>4. sync' \in SyncStates /\ mirrored' \subseteq 1 .. Pages
      BY DEF TypeOK, Runs, SyncStates
    <3> QED BY <3>1, <3>2, <3>3, <3>4 DEF TypeOK
  <2>2. KeyMeansActive'
    BY DEF TypeOK, JobRows, KeyMeansActive, Active
  <2>3. Saved'
    BY DEF TypeOK, Runs, SyncStates, Saved, RunCovers
  <2>4. RunCovers(j)'
    BY DEF TypeOK, Runs, SyncStates, Cursors, RunCovers, QueueAgrees, Saved, Covers, Prefix
  <2>5. QueueAgrees(j)'
    BY DEF TypeOK, Runs, QueueRecords, JobRows, QueueAgrees
  <2>6. \A i \in Jobs \ {j} : run'[i] = run[i] /\ queue'[i] = queue[i] /\ job'[i] = job[i]
    BY DEF TypeOK
  <2> QED BY <2>1, <2>2, <2>3, <2>4, <2>5, <2>6, OneJob
<1> QED BY <1>1, <1>2, <1>3, <1>4, <1>5, <1>6

\* Steps that write the job's row or the sync state.
LEMMA RowStep ==
  ASSUME IInv, NEW j \in Jobs,
         \/ MarkRunning(j) \/ MarkState(j) \/ SaveState(j)
         \/ MarkSucceeded(j) \/ FailState(j) \/ FailJob(j)
  PROVE  IInv'
<1> USE SizeAssumption DEF IInv, Goto, At, NoRun
<1>1. CASE MarkRunning(j)
  <2> USE <1>1 DEF MarkRunning
  <2>1. TypeOK'
    <3>1. job' \in [Jobs -> JobRows] /\ keyed' \subseteq Jobs
      BY DEF TypeOK, JobRows
    <3>2. queue' \in [Jobs -> QueueRecords]
      BY DEF TypeOK, QueueRecords, QueueAgrees
    <3>3. run' \in [Jobs -> Runs]
      BY DEF TypeOK, Runs, SyncStates, Cursors
    <3>4. sync' \in SyncStates /\ mirrored' \subseteq 1 .. Pages
      BY DEF TypeOK, Runs, SyncStates
    <3> QED BY <3>1, <3>2, <3>3, <3>4 DEF TypeOK
  <2>2. KeyMeansActive'
    BY DEF TypeOK, JobRows, KeyMeansActive, Active
  <2>3. Saved'
    BY DEF TypeOK, Runs, SyncStates, Saved, RunCovers
  <2>4. RunCovers(j)'
    BY DEF TypeOK, Runs, SyncStates, Cursors, RunCovers, QueueAgrees, Saved, Covers, Prefix
  <2>5. QueueAgrees(j)'
    BY DEF TypeOK, Runs, QueueRecords, JobRows, QueueAgrees
  <2>6. \A i \in Jobs \ {j} : run'[i] = run[i] /\ queue'[i] = queue[i] /\ job'[i] = job[i]
    BY DEF TypeOK
  <2> QED BY <2>1, <2>2, <2>3, <2>4, <2>5, <2>6, OneJob
<1>2. CASE MarkState(j)
  <2> USE <1>2 DEF MarkState
  <2>1. TypeOK'
    <3>1. job' \in [Jobs -> JobRows] /\ keyed' \subseteq Jobs
      BY DEF TypeOK, JobRows
    <3>2. queue' \in [Jobs -> QueueRecords]
      BY DEF TypeOK, QueueRecords, QueueAgrees
    <3>3. run' \in [Jobs -> Runs]
      <4>1. run'[j] = [pc |-> "paging", pages |-> run[j].pages,
                       cursor |-> IF job[j].type = "FULL_SYNC" THEN 0 ELSE sync.cursor]
        BY DEF TypeOK, Runs
      <4>2. run'[j] \in Runs
        BY <4>1 DEF TypeOK, Runs, SyncStates, Cursors
      <4> QED BY <4>2 DEF TypeOK
    <3>4. sync' \in SyncStates /\ mirrored' \subseteq 1 .. Pages
      BY DEF TypeOK, Runs, SyncStates
    <3> QED BY <3>1, <3>2, <3>3, <3>4 DEF TypeOK
  <2>2. KeyMeansActive'
    BY DEF TypeOK, JobRows, KeyMeansActive, Active
  <2>3. Saved'
    BY DEF TypeOK, Runs, SyncStates, Saved, RunCovers
  <2>4. RunCovers(j)'
    BY DEF TypeOK, Runs, SyncStates, Cursors, RunCovers, QueueAgrees, Saved, Covers, Prefix
  <2>5. QueueAgrees(j)'
    BY DEF TypeOK, Runs, QueueRecords, JobRows, QueueAgrees
  <2>6. \A i \in Jobs \ {j} : run'[i] = run[i] /\ queue'[i] = queue[i] /\ job'[i] = job[i]
    BY DEF TypeOK
  <2> QED BY <2>1, <2>2, <2>3, <2>4, <2>5, <2>6, OneJob
<1>3. CASE SaveState(j)
  <2> USE <1>3 DEF SaveState
  <2>1. TypeOK'
    <3>1. job' \in [Jobs -> JobRows] /\ keyed' \subseteq Jobs
      BY DEF TypeOK, JobRows
    <3>2. queue' \in [Jobs -> QueueRecords]
      BY DEF TypeOK, QueueRecords, QueueAgrees
    <3>3. run' \in [Jobs -> Runs]
      BY DEF TypeOK, Runs, SyncStates, Cursors
    <3>4. sync' \in SyncStates /\ mirrored' \subseteq 1 .. Pages
      BY DEF TypeOK, Runs, SyncStates
    <3> QED BY <3>1, <3>2, <3>3, <3>4 DEF TypeOK
  <2>2. KeyMeansActive'
    BY DEF TypeOK, JobRows, KeyMeansActive, Active
  <2>3. Saved'
    BY DEF TypeOK, Runs, SyncStates, Saved, RunCovers
  <2>4. RunCovers(j)'
    BY DEF TypeOK, Runs, SyncStates, Cursors, RunCovers, QueueAgrees, Saved, Covers, Prefix
  <2>5. QueueAgrees(j)'
    BY DEF TypeOK, Runs, QueueRecords, JobRows, QueueAgrees
  <2>6. \A i \in Jobs \ {j} : run'[i] = run[i] /\ queue'[i] = queue[i] /\ job'[i] = job[i]
    BY DEF TypeOK
  <2> QED BY <2>1, <2>2, <2>3, <2>4, <2>5, <2>6, OneJob
<1>4. CASE MarkSucceeded(j)
  <2> USE <1>4 DEF MarkSucceeded
  <2>1. TypeOK'
    <3>1. job' \in [Jobs -> JobRows] /\ keyed' \subseteq Jobs
      BY DEF TypeOK, JobRows
    <3>2. queue' \in [Jobs -> QueueRecords]
      BY DEF TypeOK, QueueRecords, QueueAgrees
    <3>3. run' \in [Jobs -> Runs]
      BY DEF TypeOK, Runs, SyncStates, Cursors
    <3>4. sync' \in SyncStates /\ mirrored' \subseteq 1 .. Pages
      BY DEF TypeOK, Runs, SyncStates
    <3> QED BY <3>1, <3>2, <3>3, <3>4 DEF TypeOK
  <2>2. KeyMeansActive'
    BY DEF TypeOK, JobRows, KeyMeansActive, Active
  <2>3. Saved'
    BY DEF TypeOK, Runs, SyncStates, Saved, RunCovers
  <2>4. RunCovers(j)'
    BY DEF TypeOK, Runs, SyncStates, Cursors, RunCovers, QueueAgrees, Saved, Covers, Prefix
  <2>5. QueueAgrees(j)'
    BY DEF TypeOK, Runs, QueueRecords, JobRows, QueueAgrees
  <2>6. \A i \in Jobs \ {j} : run'[i] = run[i] /\ queue'[i] = queue[i] /\ job'[i] = job[i]
    BY DEF TypeOK
  <2> QED BY <2>1, <2>2, <2>3, <2>4, <2>5, <2>6, OneJob
<1>5. CASE FailState(j)
  <2> USE <1>5 DEF FailState
  <2>1. TypeOK'
    <3>1. job' \in [Jobs -> JobRows] /\ keyed' \subseteq Jobs
      BY DEF TypeOK, JobRows
    <3>2. queue' \in [Jobs -> QueueRecords]
      BY DEF TypeOK, QueueRecords, QueueAgrees
    <3>3. run' \in [Jobs -> Runs]
      BY DEF TypeOK, Runs, SyncStates, Cursors
    <3>4. sync' \in SyncStates /\ mirrored' \subseteq 1 .. Pages
      BY DEF TypeOK, Runs, SyncStates
    <3> QED BY <3>1, <3>2, <3>3, <3>4 DEF TypeOK
  <2>2. KeyMeansActive'
    BY DEF TypeOK, JobRows, KeyMeansActive, Active
  <2>3. Saved'
    BY DEF TypeOK, Runs, SyncStates, Saved, RunCovers
  <2>4. RunCovers(j)'
    BY DEF TypeOK, Runs, SyncStates, Cursors, RunCovers, QueueAgrees, Saved, Covers, Prefix
  <2>5. QueueAgrees(j)'
    BY DEF TypeOK, Runs, QueueRecords, JobRows, QueueAgrees
  <2>6. \A i \in Jobs \ {j} : run'[i] = run[i] /\ queue'[i] = queue[i] /\ job'[i] = job[i]
    BY DEF TypeOK
  <2> QED BY <2>1, <2>2, <2>3, <2>4, <2>5, <2>6, OneJob
<1>6. CASE FailJob(j)
  <2> USE <1>6 DEF FailJob, Attempt, Completed
  <2>1. TypeOK'
    <3>1. job' \in [Jobs -> JobRows] /\ keyed' \subseteq Jobs
      BY DEF TypeOK, JobRows
    <3>2. queue' \in [Jobs -> QueueRecords]
      BY DEF TypeOK, QueueRecords, QueueAgrees
    <3>3. run' \in [Jobs -> Runs]
      BY DEF TypeOK, Runs, SyncStates, Cursors
    <3>4. sync' \in SyncStates /\ mirrored' \subseteq 1 .. Pages
      BY DEF TypeOK, Runs, SyncStates
    <3> QED BY <3>1, <3>2, <3>3, <3>4 DEF TypeOK
  <2>2. KeyMeansActive'
    BY DEF TypeOK, JobRows, KeyMeansActive, Active
  <2>3. Saved'
    BY DEF TypeOK, Runs, SyncStates, Saved, RunCovers
  <2>4. RunCovers(j)'
    BY DEF TypeOK, Runs, SyncStates, Cursors, RunCovers, QueueAgrees, Saved, Covers, Prefix
  <2>5. QueueAgrees(j)'
    BY DEF TypeOK, Runs, QueueRecords, JobRows, QueueAgrees
  <2>6. \A i \in Jobs \ {j} : run'[i] = run[i] /\ queue'[i] = queue[i] /\ job'[i] = job[i]
    BY DEF TypeOK
  <2> QED BY <2>1, <2>2, <2>3, <2>4, <2>5, <2>6, OneJob
<1> QED BY <1>1, <1>2, <1>3, <1>4, <1>5, <1>6

\* The only step that mirrors anything.
LEMMA FetchStep ==
  ASSUME IInv, NEW j \in Jobs, FetchPage(j)
  PROVE  IInv'
<1> DEFINE page == IF run[j].cursor = 0 THEN 1 ELSE run[j].cursor
           next == IF page < Pages THEN page + 1 ELSE 0
           to == IF page < Pages /\ run[j].pages + 1 < PageCap THEN "paging" ELSE "fetched"
<1> USE SizeAssumption DEF IInv
<1>1. /\ run[j].pc = "paging" /\ run[j].cursor \in Cursors
      /\ run[j].pages \in 0 .. PageCap /\ run[j].pages < PageCap
      /\ Prefix(run[j].cursor, mirrored)
  BY DEF FetchPage, At, RunCovers, TypeOK, Runs
<1>2. page \in 1 .. Pages /\ next \in Cursors
  BY <1>1 DEF Cursors
<1>3. mirrored' = mirrored \cup {page} /\ UNCHANGED <<job, keyed, queue, sync>>
      /\ run' = [run EXCEPT ![j].cursor = next, ![j].pages = run[j].pages + 1, ![j].pc = to]
  BY DEF FetchPage
<1>4. mirrored \in SUBSET (1 .. Pages) /\ mirrored' \in SUBSET (1 .. Pages)
      /\ mirrored \subseteq mirrored'
  BY <1>2, <1>3 DEF TypeOK
<1>5. Covers(next, mirrored')
  BY <1>1, <1>2, <1>3, <1>4 DEF Covers, Prefix, Cursors
<1> HIDE DEF next
<1>6. run'[j] = [pc |-> to, cursor |-> next, pages |-> run[j].pages + 1]
  BY <1>3 DEF TypeOK, Runs
<1>7. run' \in [Jobs -> Runs]
  <2>1. run'[j] \in Runs
    BY <1>1, <1>2, <1>6 DEF Runs
  <2> QED BY <2>1, <1>3 DEF TypeOK
<1>8. TypeOK' /\ KeyMeansActive'
  BY <1>3, <1>4, <1>7 DEF TypeOK, KeyMeansActive, Active
<1>9. Saved'
  BY <1>3, <1>4, CoversGrows DEF Saved, TypeOK, SyncStates
<1>10. ASSUME NEW i \in Jobs PROVE RunCovers(i)' /\ QueueAgrees(i)'
  <2>1. CASE i = j
    BY <1>1, <1>3, <1>5, <1>6, <2>1 DEF RunCovers, QueueAgrees, Covers, TypeOK, QueueRecords
  <2>2. CASE i # j
    <3>1. run'[i] = run[i] /\ queue'[i] = queue[i] /\ job'[i] = job[i]
          /\ run[i].cursor \in Cursors
      BY <1>3, <2>2 DEF TypeOK, Runs
    <3> QED BY <3>1, <1>4, CoversGrows DEF RunCovers, QueueAgrees
  <2> QED BY <2>1, <2>2
<1> QED BY <1>8, <1>9, <1>10

LEMMA Inductive == IInv /\ [Next]_vars => IInv'
<1>1. CASE UNCHANGED vars
  BY <1>1 DEF vars, IInv, TypeOK, KeyMeansActive, Active, Saved, RunCovers, QueueAgrees
<1> QED BY <1>1, RequestStep, MoveStep, RowStep, FetchStep DEF Next, RunStep

THEOREM Invariance == Spec => []IInv
<1>1. Init => IInv
  BY Initially
<1>2. IInv /\ [Next]_vars => IInv'
  BY Inductive
<1> QED BY <1>1, <1>2, PTL DEF Spec

(***************************************************************************)
(* The rows of jobs, queue records, runs and sync state keep their types;  *)
(* no run fetches more than PageCap pages, no job is run too often.        *)
(***************************************************************************)
THEOREM TypeInvariant == Spec => []TypeOK
<1>1. IInv => TypeOK
  BY DEF IInv
<1> QED BY <1>1, Invariance, PTL

(***************************************************************************)
(* Whatever fails where, activeSyncKey is held only by a full sync whose   *)
(* row is QUEUED or RUNNING.                                               *)
(***************************************************************************)
THEOREM KeysOfActiveJobs == Spec => []KeyMeansActive
<1>1. IInv => KeyMeansActive
  BY DEF IInv
<1> QED BY <1>1, Invariance, PTL

(***************************************************************************)
(* The cursor runSync saves is honest, however runs are capped, fail and   *)
(* overlap: the pages before it are mirrored, and all are without one.     *)
(***************************************************************************)
THEOREM CursorHonest == Spec => []CursorCovers
<1>1. IInv => CursorCovers
  BY DEF IInv, Saved, Covers, Prefix, CursorCovers
<1> QED BY <1>1, Invariance, PTL
-----------------------------------------------------------------------------
(* All work ends.                                                          *)

\* What a step of job j has to show: nothing is taken from another job.
LEMMA OthersKeep ==
  ASSUME NEW j \in Jobs,
         \A i \in Jobs \ {j} : run'[i] = run[i] /\ queue'[i] = queue[i]
  PROVE  \A i \in Jobs \ {j} : Again(i)' = Again(i) /\ Ahead(i)' = Ahead(i)
BY DEF Again, Ahead

\* Where a job's rank lies, in each state of the queue.
RankFits(j) ==
  /\ Again(j) \in Nat /\ Ahead(j) \in Nat
  /\ queue[j].state = "active" => Ahead(j) = RunRank[run[j].pc] + (PageCap - run[j].pages)
  /\ queue[j].state \in {"absent", "adding", "waiting"} =>
       Ahead(j) = QueueRank[queue[j].state] + PageCap

RanksFit == \A j \in Jobs : RankFits(j)

LEMMA Ranks == IInv => RanksFit
<1> SUFFICES ASSUME IInv, NEW j \in Jobs PROVE RankFits(j)
  BY DEF RanksFit
<1>1. /\ queue[j] \in QueueRecords /\ run[j] \in Runs
      /\ RunCovers(j) /\ QueueAgrees(j)
  BY DEF IInv, TypeOK
<1>2. Again(j) \in Nat
  BY <1>1, SizeAssumption DEF QueueRecords, Again
<1>3. RunRank[run[j].pc] \in Nat /\ QueueRank[queue[j].state] \in Nat /\ PageCap - run[j].pages \in Nat
  BY <1>1, SizeAssumption DEF Runs, QueueRecords, RunRank, QueueRank
<1>4. Ahead(j) \in Nat
  BY <1>3 DEF Ahead
<1>5. ASSUME queue[j].state = "active"
      PROVE  Ahead(j) = RunRank[run[j].pc] + (PageCap - run[j].pages)
  BY <1>3, <1>5 DEF Ahead, QueueRank
<1>6. ASSUME queue[j].state \in {"absent", "adding", "waiting"}
      PROVE  Ahead(j) = QueueRank[queue[j].state] + PageCap
  <2>1. run[j].pc = "idle" /\ run[j].pages = 0
    BY <1>1, <1>6 DEF QueueAgrees, RunCovers
  <2> QED BY <1>3, <1>6, <2>1, SizeAssumption DEF Ahead, RunRank, QueueRank
<1> QED BY <1>2, <1>4, <1>5, <1>6 DEF RankFits

LEMMA RanksNext == IInv' => RanksFit'
BY Ranks, PTL

\* A run that goes on keeps its queue record and comes nearer to its end.
LEMMA NearerSpends ==
  ASSUME IInv, IInv', NEW j \in Jobs,
         queue' = queue, queue[j].state = "active",
         \/ RunRank[run'[j].pc] < RunRank[run[j].pc] /\ run'[j].pages = run[j].pages
         \/ RunRank[run'[j].pc] <= RunRank[run[j].pc] /\ run'[j].pages = run[j].pages + 1
  PROVE  Spends(j)
<1>1. /\ run[j] \in Runs /\ run'[j] \in Runs
  BY DEF IInv, TypeOK
<1>2. RunRank[run[j].pc] \in Nat /\ RunRank[run'[j].pc] \in Nat
  BY <1>1 DEF Runs, RunRank
<1>3. run[j].pages \in Nat /\ run'[j].pages \in Nat
  BY <1>1, SizeAssumption DEF Runs
<1>4. /\ Ahead(j) = RunRank[run[j].pc] + (PageCap - run[j].pages)
      /\ Again(j) \in Nat
  BY Ranks DEF RanksFit, RankFits
<1>5. /\ (Ahead(j) = RunRank[run[j].pc] + (PageCap - run[j].pages))'
      /\ (Ahead(j) \in Nat /\ Again(j) \in Nat)'
  BY RanksNext DEF RanksFit, RankFits
<1>6. Again(j)' = Again(j)
  BY DEF Again
<1> QED BY <1>2, <1>3, <1>4, <1>5, <1>6, SizeAssumption DEF Spends

\* Requests, and workers taking a job: it moves on in the queue.
LEMMA QueueStepSpends ==
  ASSUME IInv, IInv', NEW j \in Jobs,
         Create(j) \/ Enqueue(j) \/ EnqueueFails(j) \/ Load(j)
  PROVE  Spends(j) /\ \A i \in Jobs \ {j} : run'[i] = run[i] /\ queue'[i] = queue[i]
<1> USE DEF Create, Enqueue, EnqueueFails, Load, Completed, Goto
<1>1. RankFits(j) /\ RankFits(j)'
  BY Ranks, RanksNext DEF RanksFit
<1>2. /\ queue \in [Jobs -> QueueRecords] /\ run \in [Jobs -> Runs]
      /\ RunCovers(j) /\ QueueAgrees(j)
  BY DEF IInv, TypeOK
<1>3. queue'[j].made = queue[j].made /\ queue'[j].stalls = queue[j].stalls
  BY <1>2 DEF QueueRecords
<1>4. Again(j)' = Again(j)
  BY <1>3 DEF Again
<1>5. Ahead(j)' < Ahead(j)
  <2>1. CASE Create(j)
    <3>1. queue[j].state = "absent" /\ queue'[j].state = "adding"
      BY <1>2, <2>1 DEF QueueAgrees, QueueRecords
    <3> QED BY <1>1, <3>1, SizeAssumption DEF RankFits, QueueRank
  <2>2. CASE Enqueue(j)
    <3>1. queue[j].state = "adding" /\ queue'[j].state = "waiting"
      BY <1>2, <2>2 DEF QueueRecords
    <3> QED BY <1>1, <3>1, SizeAssumption DEF RankFits, QueueRank
  <2>3. CASE EnqueueFails(j)
    <3>1. queue[j].state = "adding" /\ queue'[j].state = "done"
      BY <1>2, <2>3 DEF QueueRecords
    <3> QED BY <1>1, <3>1, SizeAssumption DEF RankFits, QueueRank, Ahead
  <2>4. CASE Load(j)
    <3>1. CASE queue' = [queue EXCEPT ![j].state = "done"]
      <4>1. queue[j].state = "waiting" /\ queue'[j].state = "done"
        BY <1>2, <2>4, <3>1 DEF QueueRecords
      <4> QED BY <1>1, <4>1, SizeAssumption DEF RankFits, QueueRank, Ahead
    <3>2. CASE /\ queue' = [queue EXCEPT ![j].state = "active"]
               /\ run' = [run EXCEPT ![j].pc = "loaded"]
      <4>1. queue[j].state = "waiting" /\ queue'[j].state = "active"
        BY <1>2, <2>4, <3>2 DEF QueueRecords
      <4>2. run'[j].pc = "loaded" /\ run'[j].pages = 0
        BY <1>2, <3>2, <4>1 DEF Runs, RunCovers, QueueAgrees
      <4> QED BY <1>1, <4>1, <4>2, SizeAssumption DEF RankFits, QueueRank, RunRank
    <3> QED BY <2>4, <3>1, <3>2
  <2> QED BY <2>1, <2>2, <2>3, <2>4
<1>6. Spends(j)
  BY <1>1, <1>4, <1>5 DEF Spends, RankFits
<1>7. \A i \in Jobs \ {j} : run'[i] = run[i] /\ queue'[i] = queue[i]
  BY <1>2
<1> QED BY <1>6, <1>7

\* The statements of a run: its rank, or its pages, get fewer.
LEMMA RunStepSpends ==
  ASSUME IInv, IInv', NEW j \in Jobs,
         \/ MarkRunning(j) \/ MarkState(j) \/ FetchPage(j) \/ SaveState(j) \/ MarkSucceeded(j)
         \/ FailState(j) \/ Throw(j) \/ Refuse(j)
  PROVE  Spends(j) /\ \A i \in Jobs \ {j} : run'[i] = run[i] /\ queue'[i] = queue[i]
<1> USE DEF At, Goto
<1>1. queue \in [Jobs -> QueueRecords] /\ run \in [Jobs -> Runs] /\ QueueAgrees(j)
  BY DEF IInv, TypeOK
<1>2. queue' = queue /\ queue[j].state = "active"
  BY <1>1 DEF MarkRunning, MarkState, FetchPage, SaveState, MarkSucceeded, FailState, Throw, Refuse,
              Working, QueueAgrees
<1>3. CASE FetchPage(j)
  <2>1. /\ run[j].pc = "paging" /\ run'[j].pc \in {"paging", "fetched"}
        /\ run'[j].pages = run[j].pages + 1
    BY <1>1, <1>3 DEF FetchPage, Runs
  <2>2. RunRank[run'[j].pc] <= RunRank[run[j].pc]
    BY <2>1 DEF RunRank
  <2>3. Spends(j)
    BY <1>2, <2>1, <2>2, NearerSpends
  <2>4. \A i \in Jobs \ {j} : run'[i] = run[i]
    BY <1>1, <1>3 DEF FetchPage
  <2> QED BY <1>2, <2>3, <2>4
<1>4. CASE ~FetchPage(j)
  <2>1. run'[j].pages = run[j].pages
    BY <1>1, <1>4 DEF MarkRunning, MarkState, SaveState, MarkSucceeded, FailState, Throw, Refuse, Runs
  <2>2. RunRank[run'[j].pc] < RunRank[run[j].pc]
    <3>1. CASE MarkRunning(j) \/ MarkState(j) \/ SaveState(j) \/ MarkSucceeded(j)
      BY <1>1, <3>1 DEF MarkRunning, MarkState, SaveState, MarkSucceeded, Runs, RunRank
    <3>2. CASE FailState(j) \/ Throw(j) \/ Refuse(j)
      BY <1>1, <3>2 DEF FailState, Throw, Refuse, Working, Runs, RunRank
    <3> QED BY <1>4, <3>1, <3>2
  <2>3. Spends(j)
    BY <1>2, <2>1, <2>2, NearerSpends
  <2>4. \A i \in Jobs \ {j} : run'[i] = run[i]
    BY <1>1, <1>4 DEF MarkRunning, MarkState, SaveState, MarkSucceeded, FailState, Throw, Refuse
  <2> QED BY <1>2, <2>3, <2>4
<1> QED BY <1>3, <1>4

\* The ends of a run: the queue drops the job, or counts the run.
LEMMA EndStepSpends ==
  ASSUME IInv, IInv', NEW j \in Jobs,
         TouchProject(j) \/ FailJob(j) \/ FailJobThrows(j) \/ Crash(j)
  PROVE  Spends(j) /\ \A i \in Jobs \ {j} : run'[i] = run[i] /\ queue'[i] = queue[i]
<1> USE DEF TouchProject, FailJob, FailJobThrows, Crash, At
<1>1. RankFits(j) /\ RankFits(j)'
  BY Ranks, RanksNext DEF RanksFit
<1>2. /\ queue \in [Jobs -> QueueRecords] /\ run \in [Jobs -> Runs]
      /\ QueueAgrees(j)
  BY DEF IInv, TypeOK
<1>3. queue[j].state = "active" /\ run[j].pc # "idle"
  BY <1>2 DEF QueueAgrees
<1>4. CASE queue' = Completed(j)
  <2>1. /\ queue'[j].state = "done"
        /\ queue'[j].made = queue[j].made /\ queue'[j].stalls = queue[j].stalls
    BY <1>2, <1>4 DEF Completed, QueueRecords
  <2>2. Again(j)' = Again(j) /\ Ahead(j)' = 0
    BY <2>1 DEF Again, Ahead
  <2>3. RunRank[run[j].pc] \in Nat \ {0} /\ PageCap - run[j].pages \in Nat
    BY <1>2, <1>3, SizeAssumption DEF Runs, RunRank
  <2>4. Ahead(j) > 0
    BY <1>1, <1>3, <2>3 DEF RankFits
  <2> QED BY <1>1, <1>2, <1>4, <2>2, <2>4 DEF Spends, RankFits, Completed
<1>5. CASE queue' = Attempt(j)
  <2>1. queue'[j].made = queue[j].made + 1 /\ queue'[j].stalls = queue[j].stalls
    BY <1>2, <1>5 DEF Attempt, QueueRecords
  <2>2. Again(j)' < Again(j)
    BY <1>2, <2>1, SizeAssumption DEF Again, QueueRecords
  <2> QED BY <1>1, <1>2, <1>5, <2>2 DEF Spends, RankFits, Attempt
<1>6. CASE queue' = [queue EXCEPT ![j].state = "waiting", ![j].stalls = @ + 1]
  <2>1. queue'[j].made = queue[j].made /\ queue'[j].stalls = queue[j].stalls + 1
    BY <1>2, <1>6 DEF QueueRecords
  <2>2. Again(j)' < Again(j)
    BY <1>2, <2>1, SizeAssumption DEF Again, QueueRecords
  <2> QED BY <1>1, <1>2, <1>6, <2>2 DEF Spends, RankFits
<1> QED BY <1>4, <1>5, <1>6

LEMMA StepSpends ==
  ASSUME IInv, IInv', NEW j \in Jobs,
         \/ Create(j) \/ Enqueue(j) \/ EnqueueFails(j) \/ RunStep(j)
         \/ Throw(j) \/ Refuse(j) \/ FailJobThrows(j) \/ Crash(j)
  PROVE  Spends(j) /\ \A i \in Jobs \ {j} : Again(i)' = Again(i) /\ Ahead(i)' = Ahead(i)
<1>1. Spends(j) /\ \A i \in Jobs \ {j} : run'[i] = run[i] /\ queue'[i] = queue[i]
  BY QueueStepSpends, RunStepSpends, EndStepSpends DEF RunStep
<1> QED BY <1>1, OthersKeep

(***************************************************************************)
(* All work ends, without any fairness: every step of the queue, a worker, *)
(* a fault or a crash uses up part of what is left of one job, and a job   *)
(* that is taken over or retried has spent a stall or an attempt.          *)
(***************************************************************************)
THEOREM Exhausts == Spec => WorkRunsOut
<1>1. IInv /\ IInv' /\ [Next]_vars =>
        [\E j \in Jobs : /\ Spends(j)
                         /\ \A i \in Jobs \ {j} : Again(i)' = Again(i) /\ Ahead(i)' = Ahead(i)]_vars
  BY StepSpends DEF Next
<1> QED BY <1>1, Invariance, PTL DEF Spec, WorkRunsOut

=============================================================================
