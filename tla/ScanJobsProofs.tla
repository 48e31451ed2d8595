--------------------------- MODULE ScanJobsProofs ---------------------------
(* Proofs about ScanJobs, for every number of directories, requests, rows,
   deletions and restarts, and whether or not statements may fail. *)
EXTENDS ScanJobsRefinement, TLAPS

(***************************************************************************)
(* The inductive invariant.                                                *)
(***************************************************************************)

(* The loop holds a row exactly while it works on one, and claims nothing
   while it sleeps. *)
LoopShape ==
  /\ pc \in {"idle", "next"} => cur = 0
  /\ pc \in {"paths", "scan", "walk"} => cur \in JobId
  /\ pc = "idle" => claimed = {}

(* The rows the loop holds were inserted, and an inserted row keeps the id of
   the library it was inserted for. *)
RowsNamed ==
  /\ \A j \in claimed \union {cur} : j < nextJob
  /\ \A j \in JobId : j < nextJob => lib[j] \in LibId

(* Ids not given out yet name no row. *)
NewRowsAbsent == \A j \in JobId : j >= nextJob => status[j] = "absent"

(* failed is written last: the row being worked is not failed yet. *)
CurNotFailed == cur # 0 => status[cur] # "failed"

(* A request only tracks ids already given out, so that no later insertion
   can make a tracked row pending. *)
TrackedInserted == \A t \in Task : \A j \in task[t].rows : j < nextJob

(* Once the poll loop was left, by either exit, no tracked row is pending. *)
LeftPoll(t) == task[t].pc \in {"finish", "ended"}
LeftPollNoPending ==
  ~ faulted => \A t \in Task : LeftPoll(t) => \A j \in task[t].rows : status[j] # "pending"

QueueInv == LoopShape /\ RowsNamed /\ NewRowsAbsent /\ ClaimedNotRun /\ CurNotFailed
TaskInv == TrackedInserted /\ LeftPollNoPending

-----------------------------------------------------------------------------
(* EnqueueNext keeps the shape of a request. *)
LEMMA EnqueueNextType ==
  ASSUME NEW ts \in TaskState
  PROVE  /\ EnqueueNext(ts) \in TaskState
         /\ EnqueueNext(ts).rows \subseteq ts.rows
         /\ EnqueueNext(ts).pc \in {"insert", "poll", "idle"}
  BY DEF EnqueueNext, TaskState, NoTask

LEMMA NoTaskType == NoTask \in TaskState /\ NoTask.rows = {} /\ NoTask.pc = "idle"
  BY DEF NoTask, TaskState

(* Every variable keeps its type. *)
LEMMA TypeLibsStep == TypeOK /\ [Next]_vars => TypeLibs'
<1> SUFFICES ASSUME TypeOK, [Next]_vars PROVE TypeLibs'
  OBVIOUS
<1> USE BoundsAssumption DEF TypeOK, TypeLibs, LibId
<1>1. ASSUME NEW ps \in SUBSET Path, CreateLibrary(ps) PROVE TypeLibs'
  BY <1>1 DEF CreateLibrary
<1>2. ASSUME NEW ps \in SUBSET Path, NEW l \in LibId, UpdateLibrary(l, ps) PROVE TypeLibs'
  BY <1>2 DEF UpdateLibrary
<1>3. ASSUME NEW l \in LibId, DeleteLibrary(l) PROVE TypeLibs'
  BY <1>3 DEF DeleteLibrary
<1>4. ASSUME NEW p \in Path, NEW l \in LibId, GetOrCreate(p, l) PROVE TypeLibs'
  <2>1. CASE UNCHANGED <<libs, nextLib, paths>>
    BY <2>1
  <2>2. CASE nextLib \in LibId /\ l = nextLib /\ libs' = libs \union {l}
             /\ paths' = [paths EXCEPT ![l] = {p}] /\ nextLib' = nextLib + 1
    BY <2>2
  <2> QED BY <1>4, <2>1, <2>2 DEF GetOrCreate
<1>5. ASSUME NEW p \in Path, WatchResolve(p) \/ ScanEnter(p) PROVE TypeLibs'
  BY <1>4, <1>5 DEF WatchResolve, ScanEnter
<1>6. CASE UNCHANGED <<libs, nextLib, paths>>
  BY <1>6
<1>7. CASE Consumer
  BY <1>5, <1>6, <1>7
     DEF Consumer, db, Claim, Begin, ReadPaths, ScanUnresolved, WalkOk, WalkErr, EndJob
<1>8. CASE Admin
  BY <1>1, <1>2, <1>3, <1>6, <1>8 DEF Admin, db, StartScan, CancelTask
<1>9. CASE Watcher
  BY <1>5, <1>6, <1>9 DEF Watcher, WatchInsert
<1>10. CASE \E t \in Task : TaskStep(t)
  BY <1>6, <1>10 DEF TaskStep, db, TaskInsert, TaskReadId, TaskPoll, TaskRevoke, TaskFinish
<1> QED
  BY <1>6, <1>7, <1>8, <1>9, <1>10 DEF Next, vars, db, Restart

LEMMA TypeRowsStep == TypeOK /\ [Next]_vars => TypeRows'
<1> SUFFICES ASSUME TypeOK, [Next]_vars PROVE TypeRows'
  OBVIOUS
<1> USE BoundsAssumption DEF TypeOK, TypeRows, JobId, LibId, Status
<1>1. ASSUME NEW l \in LibId, DeleteLibrary(l) PROVE TypeRows'
  BY <1>1 DEF DeleteLibrary
<1>2. ASSUME NEW l \in LibId, NEW who \in Task \union {"watch"}, InsertJob(l, who) PROVE TypeRows'
  BY <1>2 DEF InsertJob
<1>3. ASSUME NEW t \in Task, TaskInsert(t) PROVE TypeRows'
  <2>1. task[t].libs \subseteq LibId
    BY DEF TypeTasks, TaskState
  <2> QED BY <1>2, <1>3, <2>1 DEF TaskInsert
<1>4. ASSUME WatchInsert PROVE TypeRows'
  <2>1. watch \in LibId
    BY <1>4 DEF WatchInsert, TypeTasks
  <2>2. CASE InsertJob(watch, "watch")
    BY <1>2, <2>1, <2>2
  <2>3. CASE UNCHANGED <<status, lib, by, nextJob>>
    BY <2>3
  <2> QED BY <1>4, <2>2, <2>3 DEF WatchInsert
<1>5. ASSUME NEW t \in Task, TaskRevoke(t) PROVE TypeRows'
  BY <1>5 DEF TaskRevoke, CancelPending
<1>6. ASSUME NEW j \in 0 .. MaxJobs, NEW s \in Status, SetStatus(j, s), UNCHANGED <<lib, by, nextJob>>
      PROVE  TypeRows'
  BY <1>6 DEF SetStatus
<1>7. ASSUME Begin PROVE TypeRows'
  BY <1>6, <1>7 DEF Begin, TypeLoop
<1>8. ASSUME WalkOk PROVE TypeRows'
  BY <1>6, <1>8 DEF WalkOk, TypeLoop
<1>9. ASSUME EndJob PROVE TypeRows'
  BY <1>6, <1>9 DEF EndJob, TypeLoop
<1>10. CASE UNCHANGED <<status, lib, by, nextJob>>
  BY <1>10
<1>11. CASE Consumer
  BY <1>7, <1>8, <1>9, <1>10, <1>11
     DEF Consumer, db, Claim, ReadPaths, ScanEnter, ScanUnresolved, WalkErr
<1>12. CASE Admin
  BY <1>1, <1>10, <1>12 DEF Admin, db, CreateLibrary, UpdateLibrary, StartScan, CancelTask
<1>13. CASE Watcher
  BY <1>4, <1>10, <1>13 DEF Watcher, WatchResolve
<1>14. CASE \E t \in Task : TaskStep(t)
  BY <1>3, <1>5, <1>10, <1>14 DEF TaskStep, db, TaskReadId, TaskPoll, TaskFinish
<1> QED
  BY <1>10, <1>11, <1>12, <1>13, <1>14 DEF Next, vars, db, Restart

LEMMA TypeLoopStep == TypeOK /\ LoopShape /\ RowsNamed /\ [Next]_vars => TypeLoop'
<1> SUFFICES ASSUME TypeOK, LoopShape, RowsNamed, [Next]_vars PROVE TypeLoop'
  OBVIOUS
<1> USE BoundsAssumption DEF TypeOK, TypeLoop, JobId
<1>1. CASE Claim
  <2>1. claimed' \subseteq Pending
    BY <1>1 DEF Claim
  <2> QED BY <1>1, <2>1 DEF Claim, Pending
<1>2. CASE Begin
  <2>1. hadError' \in BOOLEAN
    BY <1>2 DEF Begin
  <2>2. pc' = "paths" /\ todo' = todo /\ cur' \in claimed /\ claimed' \subseteq claimed
    BY <1>2 DEF Begin
  <2> QED BY <2>1, <2>2
<1>3. CASE ReadPaths
  <2>1. lib[cur] \in LibId
    BY <1>3 DEF ReadPaths, LoopShape, RowsNamed
  <2>2. paths[lib[cur]] \subseteq Path
    BY <2>1 DEF TypeLibs
  <2> QED BY <1>3, <2>2 DEF ReadPaths
<1>4. ASSUME NEW p \in Path, ScanEnter(p) \/ ScanUnresolved(p) PROVE TypeLoop'
  BY <1>4 DEF ScanEnter, ScanUnresolved
<1>5. CASE WalkOk \/ WalkErr
  BY <1>5 DEF WalkOk, WalkErr
<1>6. CASE EndJob
  BY <1>6 DEF EndJob
<1>7. CASE Restart
  <2>1. hadError' \in BOOLEAN
    BY <1>7 DEF Restart
  <2>2. pc' = "idle" /\ todo' = {} /\ cur' = 0 /\ claimed' = {}
    BY <1>7 DEF Restart
  <2> QED BY <2>1, <2>2
<1>8. CASE UNCHANGED loop
  BY <1>8 DEF loop
<1>9. CASE Consumer
  BY <1>1, <1>2, <1>3, <1>4, <1>5, <1>6, <1>9 DEF Consumer
<1>10. CASE Admin
  BY <1>8, <1>10 DEF Admin, CreateLibrary, UpdateLibrary, DeleteLibrary, StartScan, CancelTask
<1>11. CASE Watcher
  BY <1>8, <1>11 DEF Watcher, WatchResolve, WatchInsert
<1>12. CASE \E t \in Task : TaskStep(t)
  BY <1>8, <1>12 DEF TaskStep, TaskInsert, TaskReadId, TaskPoll, TaskRevoke, TaskFinish
<1> QED
  BY <1>7, <1>8, <1>9, <1>10, <1>11, <1>12 DEF Next, vars

LEMMA TypeTasksStep == TypeOK /\ [Next]_vars => TypeTasks'
<1> SUFFICES ASSUME TypeOK, [Next]_vars PROVE TypeTasks'
  OBVIOUS
<1> USE BoundsAssumption DEF TypeOK, TypeTasks, LibId
<1>1. ASSUME NEW t \in Task, NEW ts \in TaskState,
             task' = [task EXCEPT ![t] = ts], watch' = watch
      PROVE  TypeTasks'
  BY <1>1
<1>2. ASSUME NEW t \in Task, NEW S \in ScanTargets, StartScan(t, S) PROVE TypeTasks'
  <2>1. [NoTask EXCEPT !.pc = "insert", !.libs = S] \in TaskState
    BY DEF TaskState, NoTask, ScanTargets, TypeLibs
  <2> QED BY <1>1, <1>2, <2>1 DEF StartScan
<1>3. ASSUME NEW t \in Task, CancelTask(t) PROVE TypeTasks'
  <2>1. [task[t] EXCEPT !.cancel = TRUE] \in TaskState
    BY DEF TaskState
  <2>2. task' = [task EXCEPT ![t] = [task[t] EXCEPT !.cancel = TRUE]] /\ watch' = watch
    BY <1>3 DEF CancelTask
  <2> QED BY <1>1, <2>1, <2>2
<1>4. ASSUME NEW t \in Task, TaskInsert(t) PROVE TypeTasks'
  <2>1. PICK l \in task[t].libs :
          \/ task' = [task EXCEPT ![t] = [[task[t] EXCEPT !.libs = @ \ {l}] EXCEPT !.pc = "readId"]]
          \/ task' = [task EXCEPT ![t] = EnqueueNext([task[t] EXCEPT !.libs = @ \ {l}])]
    BY <1>4 DEF TaskInsert
  <2>2. [task[t] EXCEPT !.libs = @ \ {l}] \in TaskState
    BY DEF TaskState
  <2>3. [[task[t] EXCEPT !.libs = @ \ {l}] EXCEPT !.pc = "readId"] \in TaskState
    BY DEF TaskState
  <2>4. watch' = watch
    BY <1>4 DEF TaskInsert
  <2> QED BY <1>1, <2>1, <2>2, <2>3, <2>4, EnqueueNextType
<1>5. ASSUME NEW t \in Task, TaskReadId(t) PROVE TypeTasks'
  <2>1. \A j \in JobId : [task[t] EXCEPT !.rows = @ \union {j}] \in TaskState
    BY DEF TaskState
  <2>2. watch' = watch /\ \E ts \in TaskState : task' = [task EXCEPT ![t] = EnqueueNext(ts)]
    BY <1>5, <2>1 DEF TaskReadId
  <2> QED BY <1>1, <2>2, EnqueueNextType
<1>6. ASSUME NEW t \in Task, TaskPoll(t) \/ TaskRevoke(t) \/ TaskFinish(t) PROVE TypeTasks'
  BY <1>6 DEF TaskPoll, TaskRevoke, TaskFinish, TaskState
<1>7. CASE Watcher
  BY <1>7 DEF Watcher, WatchResolve, WatchInsert
<1>8. CASE Restart
  BY <1>8, NoTaskType DEF Restart
<1>9. CASE UNCHANGED <<task, watch>>
  BY <1>9
<1>10. CASE Consumer
  BY <1>9, <1>10 DEF Consumer, Claim, Begin, ReadPaths, ScanEnter, ScanUnresolved, WalkOk, WalkErr, EndJob
<1>11. CASE Admin
  BY <1>2, <1>3, <1>9, <1>11 DEF Admin, CreateLibrary, UpdateLibrary, DeleteLibrary
<1> QED
  BY <1>4, <1>5, <1>6, <1>7, <1>8, <1>9, <1>10, <1>11 DEF Next, vars, TaskStep

LEMMA TypeEnvStep == TypeOK /\ [Next]_vars => TypeEnv'
<1> SUFFICES ASSUME TypeOK, [Next]_vars PROVE TypeEnv'
  OBVIOUS
<1> USE BoundsAssumption DEF TypeOK, TypeEnv
<1>1. CASE Consumer
  BY <1>1 DEF Consumer, env, Claim, Begin, ReadPaths, ScanEnter, ScanUnresolved, WalkOk, WalkErr,
     EndJob, SetStatus, Succeeds, Fails
<1>2. CASE Admin
  <2>1. ASSUME NEW l \in LibId, DeleteLibrary(l) PROVE TypeEnv'
    BY <2>1 DEF DeleteLibrary
  <2>2. CASE UNCHANGED <<env, faulted>>
    BY <2>2 DEF env
  <2> QED BY <1>2, <2>1, <2>2 DEF Admin, CreateLibrary, UpdateLibrary, StartScan, CancelTask
<1>3. CASE Watcher
  BY <1>3 DEF Watcher, env, WatchResolve, WatchInsert, Succeeds, Fails
<1>4. CASE \E t \in Task : TaskStep(t)
  BY <1>4 DEF TaskStep, env, TaskInsert, TaskReadId, TaskPoll, TaskRevoke, TaskFinish, Succeeds, Fails
<1>5. CASE Restart
  BY <1>5 DEF Restart
<1>6. CASE UNCHANGED <<env, faulted>>
  BY <1>6 DEF env
<1>7. CASE UNCHANGED vars
  BY <1>6, <1>7 DEF vars
<1> QED
  BY <1>1, <1>2, <1>3, <1>4, <1>5, <1>7 DEF Next

-----------------------------------------------------------------------------
(***************************************************************************)
(* What a step may do to the rows and to the loop's hands.                 *)
(***************************************************************************)

hands == <<claimed, cur>>
rows == <<status, lib, nextJob>>

(* A row is inserted; a library's rows are removed; pending rows are withdrawn. *)
Insertion == (\E l \in LibId, who \in Task \union {"watch"} : InsertJob(l, who)) /\ UNCHANGED hands
Removal == (\A j \in JobId : status'[j] \in {status[j], "absent"}) /\ UNCHANGED <<lib, nextJob, hands>>
Withdrawal ==
  /\ \A j \in JobId : status'[j] = status[j] \/ (status[j] = "pending" /\ status'[j] = "canceled")
  /\ UNCHANGED <<lib, nextJob, hands>>

(* The loop takes pending rows while it holds none, starts one, confirms it,
   lets it go. *)
Claiming ==
  /\ cur = 0 /\ claimed = {}
  /\ cur' = 0 /\ claimed' \subseteq Pending /\ claimed' # {} /\ UNCHANGED rows
Starting ==
  /\ \E j \in claimed : SetStatus(j, "running") /\ cur' = j /\ claimed' = claimed \ {j}
  /\ cur = 0 /\ UNCHANGED <<lib, nextJob>>
Confirming == cur \in JobId /\ SetStatus(cur, "done") /\ UNCHANGED <<lib, nextJob, hands>>
LettingGo ==
  /\ \/ cur \in JobId /\ (status' = status \/ SetStatus(cur, "failed")) /\ claimed' = claimed
     \/ status' = status /\ claimed' = {}
  /\ cur' = 0 /\ UNCHANGED <<lib, nextJob>>
Idling == UNCHANGED <<rows, hands>>

QueueStep == \/ Insertion \/ Removal \/ Withdrawal
             \/ Claiming \/ Starting \/ Confirming \/ LettingGo \/ Idling

LEMMA QueueStepHolds == TypeOK /\ LoopShape /\ [Next]_vars => QueueStep
<1> SUFFICES ASSUME TypeOK, LoopShape, [Next]_vars PROVE QueueStep
  OBVIOUS
<1> USE DEF QueueStep
<1>1. CASE Idling
  BY <1>1
<1>2. CASE Claim
  <2>1. claimed' \subseteq Pending
    BY <1>2 DEF Claim
  <2>2. cur = 0 /\ claimed = {} /\ claimed' # {}
    BY <1>2 DEF Claim, LoopShape
  <2> QED BY <1>2, <2>1, <2>2 DEF Claim, db, Claiming, rows
<1>3. CASE Begin
  BY <1>3 DEF Begin, Starting, LoopShape
<1>4. CASE WalkOk
  BY <1>4 DEF WalkOk, Confirming, hands, LoopShape
<1>5. CASE EndJob
  <2>1. cur \in JobId
    BY <1>5 DEF EndJob, LoopShape
  <2>2. status' = status \/ SetStatus(cur, "failed")
    BY <1>5 DEF EndJob
  <2>3. cur' = 0 /\ claimed' = claimed /\ UNCHANGED <<lib, nextJob>>
    BY <1>5 DEF EndJob
  <2> QED BY <2>1, <2>2, <2>3 DEF LettingGo
<1>6. CASE ReadPaths \/ WalkErr
  BY <1>1, <1>6 DEF ReadPaths, WalkErr, Idling, rows, hands, db
<1>7. ASSUME NEW p \in Path, ScanEnter(p) \/ ScanUnresolved(p) PROVE QueueStep
  BY <1>1, <1>7 DEF ScanEnter, ScanUnresolved, Idling, rows, hands, db
<1>8. CASE Consumer
  BY <1>2, <1>3, <1>4, <1>5, <1>6, <1>7, <1>8 DEF Consumer
<1>9. CASE Admin
  <2>1. ASSUME NEW l \in LibId, DeleteLibrary(l) PROVE Removal
    BY <2>1 DEF DeleteLibrary, Removal, loop, hands
  <2>2. CASE UNCHANGED <<status, lib, nextJob, loop>>
    BY <1>1, <2>2 DEF Idling, rows, hands, loop
  <2> QED BY <1>9, <2>1, <2>2 DEF Admin, CreateLibrary, UpdateLibrary, StartScan, CancelTask, db
<1>10. CASE Watcher
  <2>1. CASE WatchInsert
    <3>1. watch \in LibId
      BY <2>1, BoundsAssumption DEF WatchInsert, TypeOK, TypeTasks, LibId
    <3> QED BY <1>1, <2>1, <3>1 DEF WatchInsert, Insertion, Idling, rows, hands, loop
  <2>2. ASSUME NEW p \in Path, WatchResolve(p) PROVE Idling
    BY <2>2 DEF WatchResolve, Idling, rows, hands, loop
  <2> QED BY <1>1, <1>10, <2>1, <2>2 DEF Watcher
<1>11. ASSUME NEW t \in Task, TaskStep(t) PROVE QueueStep
  <2>1. CASE TaskInsert(t)
    <3>1. task[t].libs \subseteq LibId
      BY DEF TypeOK, TypeTasks, TaskState
    <3>2. UNCHANGED hands
      BY <2>1 DEF TaskInsert, loop, hands
    <3>3. (\E l \in task[t].libs : InsertJob(l, t)) \/ UNCHANGED rows
      BY <2>1 DEF TaskInsert, rows
    <3> QED BY <3>1, <3>2, <3>3 DEF Insertion, Idling
  <2>2. CASE TaskRevoke(t)
    <3>1. UNCHANGED <<lib, nextJob, hands>>
      BY <2>2 DEF TaskRevoke, hands, loop
    <3>2. \/ status' = status
          \/ status' = [j \in JobId |-> IF j \in task[t].rows /\ status[j] = "pending"
                                           THEN "canceled" ELSE status[j]]
      BY <2>2 DEF TaskRevoke, CancelPending
    <3>3. \A j \in JobId : status'[j] = status[j] \/ (status[j] = "pending" /\ status'[j] = "canceled")
      BY <3>2
    <3> QED BY <3>1, <3>3 DEF Withdrawal
  <2>3. CASE TaskReadId(t) \/ TaskPoll(t) \/ TaskFinish(t)
    BY <1>1, <2>3 DEF TaskReadId, TaskPoll, TaskFinish, Idling, rows, hands, db, loop
  <2> QED BY <1>11, <2>1, <2>2, <2>3 DEF TaskStep
<1>12. CASE Restart
  <2>1. cur' = 0 /\ claimed' = {} /\ UNCHANGED db
    BY <1>12 DEF Restart
  <2> QED BY <2>1 DEF LettingGo, db
<1>13. CASE UNCHANGED vars
  BY <1>1, <1>13 DEF vars, Idling, rows, hands, db, loop
<1> QED
  BY <1>8, <1>9, <1>10, <1>11, <1>12, <1>13 DEF Next

(* The loop's shape, from the loop's own actions. *)
LEMMA LoopShapeStep == TypeOK /\ LoopShape /\ [Next]_vars => LoopShape'
<1> SUFFICES ASSUME TypeOK, LoopShape, [Next]_vars PROVE LoopShape'
  OBVIOUS
<1> USE DEF TypeOK, TypeLoop, LoopShape
<1>1. CASE Claim
  BY <1>1 DEF Claim
<1>2. CASE Begin
  BY <1>2 DEF Begin
<1>3. CASE ReadPaths
  BY <1>3 DEF ReadPaths
<1>4. ASSUME NEW p \in Path, ScanEnter(p) \/ ScanUnresolved(p) PROVE LoopShape'
  BY <1>4 DEF ScanEnter, ScanUnresolved
<1>5. CASE WalkOk \/ WalkErr
  BY <1>5 DEF WalkOk, WalkErr
<1>6. CASE EndJob
  BY <1>6 DEF EndJob
<1>7. CASE Restart
  BY <1>7 DEF Restart
<1>8. CASE UNCHANGED loop
  BY <1>8 DEF loop
<1>9. CASE Consumer
  BY <1>1, <1>2, <1>3, <1>4, <1>5, <1>6, <1>9 DEF Consumer
<1>10. CASE Admin
  BY <1>8, <1>10 DEF Admin, CreateLibrary, UpdateLibrary, DeleteLibrary, StartScan, CancelTask
<1>11. CASE Watcher
  BY <1>8, <1>11 DEF Watcher, WatchResolve, WatchInsert
<1>12. CASE \E t \in Task : TaskStep(t)
  BY <1>8, <1>12 DEF TaskStep, TaskInsert, TaskReadId, TaskPoll, TaskRevoke, TaskFinish
<1>13. CASE UNCHANGED vars
  BY <1>8, <1>13 DEF vars
<1> QED
  BY <1>7, <1>9, <1>10, <1>11, <1>12, <1>13 DEF Next

-----------------------------------------------------------------------------
(***************************************************************************)
(* The rows' invariant and their life cycle.                               *)
(***************************************************************************)

LEMMA SetStatusEffect ==
  ASSUME TypeRows, NEW j \in JobId, NEW s \in Status, SetStatus(j, s)
  PROVE  /\ \A k \in JobId : k # j => status'[k] = status[k]
         /\ status'[j] = status[j] \/ (status[j] # "absent" /\ status'[j] = s)
  BY DEF SetStatus, TypeRows

(* An insertion changes the row of the fresh id and no other. *)
LEMMA InsertionEffect ==
  ASSUME TypeRows, Insertion
  PROVE  /\ nextJob \in JobId /\ nextJob' = nextJob + 1
         /\ \A k \in JobId : k # nextJob => status'[k] = status[k] /\ lib'[k] = lib[k]
         /\ status'[nextJob] = "pending" /\ lib'[nextJob] \in LibId
         /\ UNCHANGED hands
  BY DEF Insertion, InsertJob, TypeRows

LEMMA RowsNamedStep == TypeOK /\ QueueInv /\ QueueStep => RowsNamed' /\ NewRowsAbsent'
<1> SUFFICES ASSUME TypeOK, QueueInv, QueueStep PROVE RowsNamed' /\ NewRowsAbsent'
  OBVIOUS
<1>0. /\ nextJob \in Nat /\ nextJob > 0 /\ JobId \subseteq Nat
      /\ TypeRows /\ claimed \subseteq JobId /\ cur \in Nat
  BY BoundsAssumption DEF TypeOK, TypeRows, TypeLoop, JobId
<1> USE <1>0 DEF QueueInv, RowsNamed, NewRowsAbsent
<1>1. CASE Insertion
  <2>1. RowsNamed'
    <3>1. nextJob' = nextJob + 1 /\ claimed' = claimed /\ cur' = cur
      BY <1>1, InsertionEffect DEF hands
    <3>2. \A j \in JobId : j < nextJob' => lib'[j] \in LibId
      <4> SUFFICES ASSUME NEW j \in JobId, j < nextJob' PROVE lib'[j] \in LibId
        OBVIOUS
      <4>1. CASE j = nextJob
        BY <1>1, <4>1, InsertionEffect
      <4>2. CASE j # nextJob
        <5>1. j < nextJob
          BY <3>1, <4>2
        <5> QED BY <1>1, <4>2, <5>1, InsertionEffect
      <4> QED BY <4>1, <4>2
    <3>3. \A j \in claimed' \union {cur'} : j < nextJob'
      <4>1. \A j \in claimed \union {cur} : j \in Nat /\ j < nextJob
        OBVIOUS
      <4> QED BY <3>1, <4>1
    <3> QED BY <3>2, <3>3
  <2>2. NewRowsAbsent'
    <3> SUFFICES ASSUME NEW j \in JobId, j >= nextJob' PROVE status'[j] = "absent"
      OBVIOUS
    <3>1. j \in Nat /\ nextJob' = nextJob + 1
      BY <1>1, InsertionEffect
    <3>2. j > nextJob
      BY <3>1
    <3>3. status'[j] = status[j]
      BY <1>1, <3>2, InsertionEffect
    <3> QED BY <3>2, <3>3
  <2> QED BY <2>1, <2>2
<1>2. CASE Removal
  BY <1>2 DEF Removal, hands
<1>3. CASE Withdrawal
  BY <1>3 DEF Withdrawal, hands
<1>4. CASE Claiming
  <2>1. \A j \in Pending : j \in JobId /\ j < nextJob
    BY DEF Pending
  <2> QED BY <1>4, <2>1 DEF Claiming, rows
<1>5. ASSUME NEW j \in JobId, NEW s \in Status, SetStatus(j, s), j < nextJob, UNCHANGED nextJob
      PROVE  NewRowsAbsent'
  BY <1>5, SetStatusEffect
<1>6. CASE Starting
  <2>1. PICK j \in claimed : SetStatus(j, "running") /\ cur' = j /\ claimed' = claimed \ {j}
    BY <1>6 DEF Starting
  <2>2. NewRowsAbsent'
    BY <1>5, <1>6, <2>1 DEF Starting, Status
  <2>3. RowsNamed'
    BY <1>6, <2>1 DEF Starting
  <2> QED BY <2>2, <2>3
<1>7. CASE Confirming
  <2>1. NewRowsAbsent'
    BY <1>5, <1>7 DEF Confirming, Status
  <2>2. RowsNamed'
    BY <1>7 DEF Confirming, hands
  <2> QED BY <2>1, <2>2
<1>8. CASE LettingGo
  <2>1. NewRowsAbsent'
    BY <1>5, <1>8 DEF LettingGo, Status
  <2>2. RowsNamed'
    BY <1>8 DEF LettingGo
  <2> QED BY <2>1, <2>2
<1>9. CASE Idling
  BY <1>9 DEF Idling, rows, hands
<1> QED
  BY <1>1, <1>2, <1>3, <1>4, <1>6, <1>7, <1>8, <1>9 DEF QueueStep

LEMMA ClaimedNotRunStep == TypeOK /\ QueueInv /\ QueueStep => ClaimedNotRun' /\ CurNotFailed'
<1> SUFFICES ASSUME TypeOK, QueueInv, QueueStep PROVE ClaimedNotRun' /\ CurNotFailed'
  OBVIOUS
<1>0. /\ TypeRows /\ claimed \subseteq JobId /\ cur \in Nat /\ (cur # 0 => cur \in JobId)
      /\ nextJob \in Nat /\ nextJob > 0 /\ JobId \subseteq Nat /\ 0 \notin JobId
  BY BoundsAssumption DEF TypeOK, TypeRows, TypeLoop, JobId
<1> USE <1>0 DEF QueueInv, ClaimedNotRun, CurNotFailed
<1>1. CASE Insertion
  <2>1. \A j \in claimed \union {cur} : j # nextJob
    BY DEF RowsNamed
  <2>2. \A j \in JobId : j # nextJob => status'[j] = status[j]
    BY <1>1, InsertionEffect
  <2>3. claimed' = claimed /\ cur' = cur
    BY <1>1 DEF Insertion, hands
  <2> QED BY <2>1, <2>2, <2>3
<1>2. CASE Removal
  BY <1>2 DEF Removal, hands
<1>3. CASE Withdrawal
  BY <1>3 DEF Withdrawal, hands
<1>4. CASE Claiming
  <2>1. \A j \in Pending : j \in JobId /\ status[j] = "pending"
    BY DEF Pending
  <2> QED BY <1>4, <2>1 DEF Claiming, rows
<1>5. CASE Starting
  <2>1. PICK j \in claimed : SetStatus(j, "running") /\ cur' = j /\ claimed' = claimed \ {j}
    BY <1>5 DEF Starting
  <2>2. /\ \A k \in JobId : k # j => status'[k] = status[k]
        /\ status'[j] \in {status[j], "running"}
    BY <2>1, SetStatusEffect DEF Status
  <2> QED BY <2>1, <2>2
<1>6. CASE Confirming
  <2>1. /\ \A k \in JobId : k # cur => status'[k] = status[k]
        /\ cur \in JobId /\ status'[cur] \in {status[cur], "done"} /\ UNCHANGED hands
    BY <1>6, SetStatusEffect DEF Confirming, Status
  <2> QED BY <2>1 DEF hands
<1>7. CASE LettingGo
  <2>1. \A k \in JobId : k # cur => status'[k] = status[k]
    BY <1>7, SetStatusEffect DEF LettingGo, Status
  <2> QED BY <1>7, <2>1 DEF LettingGo
<1>8. CASE Idling
  BY <1>8 DEF Idling, rows, hands
<1> QED
  BY <1>1, <1>2, <1>3, <1>4, <1>5, <1>6, <1>7, <1>8 DEF QueueStep

(* Every row only moves along its life cycle. *)
LEMMA LifecycleStep == TypeOK /\ QueueInv /\ QueueStep => \A j \in JobId : LegalStep(status[j], status'[j])
<1> SUFFICES ASSUME TypeOK, QueueInv, QueueStep, NEW k \in JobId
             PROVE  LegalStep(status[k], status'[k])
  OBVIOUS
<1>0. TypeRows /\ claimed \subseteq JobId /\ status[k] \in Status /\ 0 \notin JobId
  BY BoundsAssumption DEF TypeOK, TypeRows, TypeLoop, JobId
<1>1. CASE status'[k] \in {status[k], "absent"}
  BY <1>1 DEF LegalStep
<1>2. CASE Insertion
  <2>1. status[nextJob] = "absent"
    BY <1>0, <1>2, InsertionEffect, BoundsAssumption DEF QueueInv, NewRowsAbsent, JobId
  <2> QED BY <1>0, <1>1, <1>2, <2>1, InsertionEffect DEF LegalStep
<1>3. CASE Removal \/ Idling \/ Claiming
  BY <1>1, <1>3 DEF Removal, Idling, Claiming, rows
<1>4. CASE Withdrawal
  BY <1>1, <1>4 DEF Withdrawal, LegalStep
<1>5. CASE Starting
  <2>1. PICK j \in claimed : SetStatus(j, "running")
    BY <1>5 DEF Starting
  <2>2. status[j] \in {"pending", "canceled", "absent"}
    BY DEF QueueInv, ClaimedNotRun
  <2>3. status'[k] = status[k] \/ (k = j /\ status[j] # "absent" /\ status'[j] = "running")
    BY <1>0, <2>1, SetStatusEffect DEF Status
  <2> QED BY <1>1, <2>2, <2>3 DEF LegalStep
<1>6. CASE Confirming \/ LettingGo
  <2>1. \/ status'[k] = status[k]
        \/ k = cur /\ status[cur] # "absent" /\ status'[cur] \in {"done", "failed"}
    BY <1>0, <1>6, SetStatusEffect DEF Confirming, LettingGo, Status
  <2>2. k = cur => status[cur] # "failed"
    BY <1>0 DEF QueueInv, CurNotFailed
  <2> QED BY <1>0, <1>1, <2>1, <2>2 DEF LegalStep, Status
<1> QED
  BY <1>2, <1>3, <1>4, <1>5, <1>6 DEF QueueStep

-----------------------------------------------------------------------------
(***************************************************************************)
(* The admin requests.                                                     *)
(***************************************************************************)

(* A row becomes pending only when it is inserted. *)
LEMMA NoReturnToPending ==
  TypeOK /\ QueueInv /\ QueueStep =>
    \A j \in JobId : status'[j] = "pending" /\ j < nextJob => status[j] = "pending"
<1> SUFFICES ASSUME TypeOK, QueueInv, QueueStep, NEW j \in JobId,
                    status'[j] = "pending", j < nextJob
             PROVE  status[j] = "pending"
  OBVIOUS
<1>1. j # nextJob /\ TypeRows /\ claimed \subseteq JobId
  BY BoundsAssumption DEF TypeOK, TypeRows, TypeLoop, JobId
<1>2. CASE Insertion
  BY <1>1, <1>2, InsertionEffect
<1>3. CASE Removal \/ Withdrawal \/ Claiming \/ Idling
  BY <1>3 DEF Removal, Withdrawal, Claiming, Idling, rows
<1>4. CASE Starting \/ Confirming \/ LettingGo
  BY <1>1, <1>4, SetStatusEffect DEF Starting, Confirming, LettingGo, Status
<1> QED
  BY <1>2, <1>3, <1>4 DEF QueueStep

(* A failure is never forgotten. *)
LEMMA FaultedStays == [Next]_vars /\ ~ faulted' => ~ faulted
<1> SUFFICES ASSUME [Next]_vars, ~ faulted' PROVE ~ faulted
  OBVIOUS
<1>1. CASE Consumer
  BY <1>1 DEF Consumer, Claim, Begin, ReadPaths, ScanEnter, ScanUnresolved, WalkOk, WalkErr,
     EndJob, SetStatus, Succeeds, Fails
<1>2. CASE Admin
  BY <1>2 DEF Admin, CreateLibrary, UpdateLibrary, DeleteLibrary, StartScan, CancelTask
<1>3. CASE Watcher
  BY <1>3 DEF Watcher, WatchResolve, WatchInsert, Succeeds, Fails
<1>4. CASE \E t \in Task : TaskStep(t)
  BY <1>4 DEF TaskStep, TaskInsert, TaskReadId, TaskPoll, TaskRevoke, TaskFinish, Succeeds, Fails
<1>5. CASE Restart
  BY <1>5 DEF Restart
<1>6. CASE UNCHANGED vars
  BY <1>6 DEF vars
<1> QED
  BY <1>1, <1>2, <1>3, <1>4, <1>5, <1>6 DEF Next

(* What a step may do to the request t: it tracks at most one more row, the
   newest one; and if it is past its poll loop afterwards, either it was before
   and tracks the same rows, or none of its rows is pending now, or a statement
   failed. *)
TrackStep(t) ==
  /\ task'[t].rows \subseteq task[t].rows \union Present
  /\ LeftPoll(t)' => \/ LeftPoll(t) /\ task'[t].rows = task[t].rows
                     \/ \A j \in task'[t].rows : status'[j] # "pending"
                     \/ faulted'

LEMMA TrackStepHolds == TypeOK /\ [Next]_vars => \A t \in Task : TrackStep(t)
<1> SUFFICES ASSUME TypeOK, [Next]_vars, NEW t \in Task PROVE TrackStep(t)
  OBVIOUS
<1>0. task \in [Task -> TaskState] /\ task[t] \in TaskState /\ task[t].rows \subseteq JobId
  BY DEF TypeOK, TypeTasks, TaskState
<1>1. CASE task'[t].rows = task[t].rows /\ task'[t].pc = task[t].pc
  BY <1>1 DEF TrackStep, LeftPoll
<1>2. ASSUME NEW ts \in TaskState, task' = [task EXCEPT ![t] = EnqueueNext(ts)],
             ts.rows \subseteq task[t].rows \union Present
      PROVE  TrackStep(t)
  BY <1>0, <1>2, EnqueueNextType DEF TrackStep, LeftPoll
<1>3. CASE TaskInsert(t)
  <2>1. PICK l \in task[t].libs :
          \/ task' = [task EXCEPT ![t] = [[task[t] EXCEPT !.libs = @ \ {l}] EXCEPT !.pc = "readId"]]
          \/ task' = [task EXCEPT ![t] = EnqueueNext([task[t] EXCEPT !.libs = @ \ {l}])]
    BY <1>3 DEF TaskInsert
  <2>2. /\ [task[t] EXCEPT !.libs = @ \ {l}] \in TaskState
        /\ [task[t] EXCEPT !.libs = @ \ {l}].rows = task[t].rows
    BY <1>0 DEF TaskState
  <2>3. /\ [[task[t] EXCEPT !.libs = @ \ {l}] EXCEPT !.pc = "readId"].rows = task[t].rows
        /\ [[task[t] EXCEPT !.libs = @ \ {l}] EXCEPT !.pc = "readId"].pc = "readId"
    BY <1>0 DEF TaskState
  <2> QED BY <1>0, <1>2, <2>1, <2>2, <2>3 DEF TrackStep, LeftPoll
<1>4. CASE TaskReadId(t)
  <2>1. ASSUME NEW j \in Present
        PROVE  /\ [task[t] EXCEPT !.rows = @ \union {j}] \in TaskState
               /\ [task[t] EXCEPT !.rows = @ \union {j}].rows = task[t].rows \union {j}
    BY <1>0 DEF TaskState, Present
  <2>2. CASE task' = [task EXCEPT ![t] = EnqueueNext(task[t])]
    BY <1>0, <1>2, <2>2
  <2>3. ASSUME NEW j \in Present,
               task' = [task EXCEPT ![t] = EnqueueNext([task[t] EXCEPT !.rows = @ \union {j}])]
        PROVE  TrackStep(t)
    <3> DEFINE ts == [task[t] EXCEPT !.rows = @ \union {j}]
    <3>1. ts \in TaskState /\ ts.rows \subseteq task[t].rows \union Present
      BY <2>1
    <3>2. task' = [task EXCEPT ![t] = EnqueueNext(ts)]
      BY <2>3
    <3> HIDE DEF ts
    <3> QED BY <1>2, <3>1, <3>2
  <2>4. \/ task' = [task EXCEPT ![t] = EnqueueNext(task[t])]
        \/ \E j \in Present : task' = [task EXCEPT ![t] = EnqueueNext([task[t] EXCEPT !.rows = @ \union {j}])]
    BY <1>4 DEF TaskReadId, NewestId
  <2> QED BY <2>2, <2>3, <2>4
<1>5. CASE TaskPoll(t)
  <2>1. task'[t].rows = task[t].rows /\ UNCHANGED status
    BY <1>0, <1>5 DEF TaskPoll, db, TaskState
  <2>2. task'[t].pc = "revoke" \/ ~ Active(task[t].rows) \/ faulted'
    BY <1>0, <1>5 DEF TaskPoll, TaskState, Fails
  <2> QED BY <2>1, <2>2 DEF TrackStep, LeftPoll, Active
<1>6. CASE TaskRevoke(t)
  <2>1. task'[t].rows = task[t].rows
    BY <1>0, <1>6 DEF TaskRevoke, TaskState
  <2>2. \/ faulted'
        \/ status' = [j \in JobId |-> IF j \in task[t].rows /\ status[j] = "pending"
                                         THEN "canceled" ELSE status[j]]
    BY <1>6 DEF TaskRevoke, CancelPending, Fails
  <2>3. faulted' \/ \A j \in task'[t].rows : status'[j] # "pending"
    BY <1>0, <2>1, <2>2
  <2> QED BY <2>1, <2>3 DEF TrackStep
<1>7. CASE TaskFinish(t)
  <2>1. task'[t].rows = task[t].rows /\ task[t].pc = "finish"
    BY <1>0, <1>7 DEF TaskFinish, TaskState
  <2> QED BY <2>1 DEF TrackStep, LeftPoll
<1>8. ASSUME NEW u \in Task, u # t, TaskStep(u) PROVE TrackStep(t)
  <2>1. task'[t] = task[t]
    BY <1>0, <1>8 DEF TaskStep, TaskInsert, TaskReadId, TaskPoll, TaskRevoke, TaskFinish
  <2> QED BY <1>1, <2>1
<1>9. CASE Admin
  <2>1. ASSUME NEW u \in Task, NEW S \in ScanTargets, StartScan(u, S) PROVE TrackStep(t)
    <3>1. CASE u = t
      BY <1>0, <2>1, <3>1 DEF StartScan, NoTask, TrackStep, LeftPoll
    <3>2. CASE u # t
      BY <1>0, <1>1, <2>1, <3>2 DEF StartScan
    <3> QED BY <3>1, <3>2
  <2>2. ASSUME NEW u \in Task, CancelTask(u) PROVE TrackStep(t)
    BY <1>0, <1>1, <2>2 DEF CancelTask, TaskState
  <2>3. CASE UNCHANGED task
    BY <1>1, <2>3
  <2> QED BY <1>9, <2>1, <2>2, <2>3 DEF Admin, CreateLibrary, UpdateLibrary, DeleteLibrary
<1>10. CASE Restart
  <2>1. task'[t] = NoTask
    BY <1>10 DEF Restart
  <2> QED BY <2>1, NoTaskType DEF TrackStep, LeftPoll
<1>11. CASE UNCHANGED task
  BY <1>1, <1>11
<1>12. CASE Consumer \/ Watcher
  BY <1>11, <1>12 DEF Consumer, Claim, Begin, ReadPaths, ScanEnter, ScanUnresolved, WalkOk, WalkErr,
     EndJob, Watcher, WatchResolve, WatchInsert
<1> QED
  BY <1>3, <1>4, <1>5, <1>6, <1>7, <1>8, <1>9, <1>10, <1>11, <1>12 DEF Next, vars, TaskStep

LEMMA TaskInvStep == TypeOK /\ QueueInv /\ TaskInv /\ [Next]_vars => TaskInv'
<1> SUFFICES ASSUME TypeOK, QueueInv, TaskInv, [Next]_vars PROVE TaskInv'
  OBVIOUS
<1>1. QueueStep
  BY QueueStepHolds DEF QueueInv
<1>2. /\ \A t \in Task : TrackStep(t)
      /\ \A j \in JobId : status'[j] = "pending" /\ j < nextJob => status[j] = "pending"
      /\ ~ faulted' => ~ faulted
  BY <1>1, TrackStepHolds, NoReturnToPending, FaultedStays
<1>3. \A j \in Present : j < nextJob
  BY BoundsAssumption DEF TypeOK, TypeRows, QueueInv, NewRowsAbsent, Present, JobId
<1>4. nextJob \in Nat /\ nextJob' \in {nextJob, nextJob + 1}
  <2>1. TypeRows /\ nextJob \in Nat
    BY BoundsAssumption DEF TypeOK, TypeRows
  <2>2. CASE Insertion
    BY <2>1, <2>2, InsertionEffect
  <2>3. CASE Removal \/ Withdrawal \/ Claiming \/ Starting \/ Confirming \/ LettingGo \/ Idling
    BY <2>1, <2>3 DEF Removal, Withdrawal, Claiming, Starting, Confirming, LettingGo, Idling, rows
  <2> QED BY <1>1, <2>1, <2>2, <2>3 DEF QueueStep
<1>5. \A t \in Task : task[t].rows \subseteq JobId
  BY DEF TypeOK, TypeTasks, TaskState
<1>6. TrackedInserted'
  <2> SUFFICES ASSUME NEW t \in Task, NEW j \in task'[t].rows PROVE j < nextJob'
    BY DEF TrackedInserted
  <2>1. j < nextJob /\ j \in Nat
    BY <1>2, <1>3, <1>5, BoundsAssumption DEF TrackStep, TaskInv, TrackedInserted, JobId, Present
  <2> QED BY <1>4, <2>1
<1>7. LeftPollNoPending'
  <2> SUFFICES ASSUME ~ faulted', NEW t \in Task, LeftPoll(t)', NEW j \in task'[t].rows
               PROVE  status'[j] # "pending"
    BY DEF LeftPollNoPending
  <2>1. CASE LeftPoll(t) /\ task'[t].rows = task[t].rows
    BY <1>2, <1>5, <2>1 DEF TaskInv, LeftPollNoPending, TrackedInserted
  <2> QED BY <1>2, <2>1 DEF TrackStep
<1> QED
  BY <1>6, <1>7 DEF TaskInv

-----------------------------------------------------------------------------
(***************************************************************************)
(* Rows do not stay running, as long as nothing fails, stops or is deleted. *)
(***************************************************************************)

Quiet == ~ faulted /\ crashes = 0 /\ deletes = 0

(* Every library mounts something, and every library that is named by a row,
   a request or the watcher exists. *)
Mounted ==
  /\ \A l \in libs : paths[l] # {}
  /\ \A j \in JobId : j < nextJob => lib[j] \in libs
  /\ \A t \in Task : task[t].libs \subseteq libs
  /\ watch # 0 => watch \in libs

(* A running row is in the loop's hands, and the loop still has a directory to
   scan for it or a failure to report: it will write its end. *)
Worked ==
  /\ \A j \in JobId : status[j] = "running" => j = cur
  /\ pc = "scan" /\ status[cur] = "running" => todo # {} \/ hadError

RunInv == Quiet => Mounted /\ Worked

(* A failure, a restart and a deletion are not taken back. *)
LEMMA QuietBefore == TypeOK /\ [Next]_vars /\ Quiet' => Quiet /\ ~ Restart /\ \A l \in LibId : ~ DeleteLibrary(l)
<1> SUFFICES ASSUME TypeOK, [Next]_vars, Quiet'
             PROVE  Quiet /\ ~ Restart /\ \A l \in LibId : ~ DeleteLibrary(l)
  OBVIOUS
<1> USE DEF Quiet
<1>1. deletes \in Nat /\ crashes \in Nat /\ ~ faulted
  BY FaultedStays, BoundsAssumption DEF TypeOK, TypeEnv
<1>2. ~ Restart /\ \A l \in LibId : ~ DeleteLibrary(l)
  BY <1>1 DEF Restart, DeleteLibrary
<1>3. CASE Consumer
  BY <1>1, <1>2, <1>3 DEF Consumer, env, Claim, Begin, ReadPaths, ScanEnter, ScanUnresolved, WalkOk, WalkErr, EndJob
<1>4. CASE Admin
  BY <1>1, <1>2, <1>4 DEF Admin, env, CreateLibrary, UpdateLibrary, StartScan, CancelTask
<1>5. CASE Watcher
  BY <1>1, <1>2, <1>5 DEF Watcher, env, WatchResolve, WatchInsert
<1>6. CASE \E t \in Task : TaskStep(t)
  BY <1>1, <1>2, <1>6 DEF TaskStep, env, TaskInsert, TaskReadId, TaskPoll, TaskRevoke, TaskFinish
<1>7. CASE UNCHANGED vars
  BY <1>1, <1>2, <1>7 DEF vars, env
<1> QED BY <1>2, <1>3, <1>4, <1>5, <1>6, <1>7 DEF Next

(* get_or_create_by_path answers a library that mounts something. *)
LEMMA GetOrCreateMounts ==
  ASSUME TypeLibs, Mounted, NEW p \in Path, NEW l \in LibId, GetOrCreate(p, l)
  PROVE  libs \subseteq libs' /\ l \in libs' /\ \A k \in libs' : paths'[k] # {}
<1>1. CASE l \in Mounts(p) /\ UNCHANGED <<libs, nextLib, paths>>
  BY <1>1 DEF Mounts, Mounted
<1>2. CASE libs' = libs \union {l} /\ paths' = [paths EXCEPT ![l] = {p}]
  BY <1>2 DEF Mounted, TypeLibs
<1> QED BY <1>1, <1>2 DEF GetOrCreate

(* Libraries only come, each with a directory. *)
LEMMA LibrariesGrow ==
  ASSUME TypeOK, Mounted, [Next]_vars, ~ Restart, \A l \in LibId : ~ DeleteLibrary(l)
  PROVE  libs \subseteq libs' /\ \A l \in libs' : paths'[l] # {}
<1> USE DEF TypeOK, TypeLibs
<1>1. CASE UNCHANGED <<libs, paths>>
  BY <1>1 DEF Mounted
<1>2. ASSUME NEW ps \in SUBSET Path, CreateLibrary(ps) PROVE libs \subseteq libs' /\ \A l \in libs' : paths'[l] # {}
  BY <1>2 DEF CreateLibrary, Mounted
<1>3. ASSUME NEW ps \in SUBSET Path, NEW k \in LibId, UpdateLibrary(k, ps)
      PROVE  libs \subseteq libs' /\ \A l \in libs' : paths'[l] # {}
  BY <1>3 DEF UpdateLibrary, Mounted
<1>4. ASSUME NEW p \in Path, ScanEnter(p) \/ WatchResolve(p)
      PROVE  libs \subseteq libs' /\ \A l \in libs' : paths'[l] # {}
  BY <1>4, GetOrCreateMounts DEF ScanEnter, WatchResolve
<1>5. CASE Consumer
  BY <1>1, <1>4, <1>5 DEF Consumer, db, Claim, Begin, ReadPaths, ScanUnresolved, WalkOk, WalkErr, EndJob
<1>6. CASE Admin
  BY <1>1, <1>2, <1>3, <1>6 DEF Admin, db, StartScan, CancelTask
<1>7. CASE Watcher
  BY <1>1, <1>4, <1>7 DEF Watcher, WatchInsert
<1>8. CASE \E t \in Task : TaskStep(t)
  BY <1>1, <1>8 DEF TaskStep, db, TaskInsert, TaskReadId, TaskPoll, TaskRevoke, TaskFinish
<1>9. CASE UNCHANGED vars
  BY <1>1, <1>9 DEF vars, db
<1> QED BY <1>5, <1>6, <1>7, <1>8, <1>9 DEF Next

(* A row is inserted for a library a request or the watcher has resolved. *)
LEMMA RowsMounted ==
  ASSUME TypeOK, Mounted, [Next]_vars, libs \subseteq libs'
  PROVE  \A j \in JobId : j < nextJob' => lib'[j] \in libs'
<1>1. TypeRows /\ nextJob \in Nat /\ JobId \subseteq Nat
  BY BoundsAssumption DEF TypeOK, TypeRows, JobId
<1>2. CASE UNCHANGED <<lib, nextJob>>
  BY <1>2 DEF Mounted
<1>3. ASSUME NEW l \in libs, NEW who, InsertJob(l, who) PROVE \A j \in JobId : j < nextJob' => lib'[j] \in libs'
  <2> SUFFICES ASSUME NEW j \in JobId, j < nextJob' PROVE lib'[j] \in libs'
    OBVIOUS
  <2>1. lib' = [lib EXCEPT ![nextJob] = l] /\ nextJob' = nextJob + 1
    BY <1>3 DEF InsertJob
  <2>2. j = nextJob \/ j < nextJob
    BY <1>1, <2>1
  <2> QED BY <1>1, <2>1, <2>2 DEF Mounted, TypeRows
<1>4. ASSUME NEW t \in Task, TaskInsert(t) PROVE \A j \in JobId : j < nextJob' => lib'[j] \in libs'
  BY <1>2, <1>3, <1>4 DEF TaskInsert, Mounted
<1>5. ASSUME WatchInsert PROVE \A j \in JobId : j < nextJob' => lib'[j] \in libs'
  BY <1>2, <1>3, <1>5 DEF WatchInsert, Mounted
<1>6. CASE Consumer
  BY <1>2, <1>6 DEF Consumer, db, Claim, Begin, ReadPaths, ScanEnter, ScanUnresolved, WalkOk, WalkErr, EndJob
<1>7. CASE Admin
  BY <1>2, <1>7 DEF Admin, db, CreateLibrary, UpdateLibrary, DeleteLibrary, StartScan, CancelTask
<1>8. CASE Watcher
  BY <1>2, <1>5, <1>8 DEF Watcher, WatchResolve
<1>9. CASE \E t \in Task : TaskStep(t)
  BY <1>2, <1>4, <1>9 DEF TaskStep, db, TaskReadId, TaskPoll, TaskRevoke, TaskFinish
<1>10. CASE Restart \/ UNCHANGED vars
  BY <1>2, <1>10 DEF Restart, vars, db
<1> QED BY <1>6, <1>7, <1>8, <1>9, <1>10 DEF Next

(* A request takes existing libraries only, and only drops some later. *)
LEMMA RequestsMounted ==
  ASSUME TypeOK, Mounted, [Next]_vars, libs \subseteq libs', NEW t \in Task
  PROVE  task'[t].libs \subseteq libs'
<1>1. task \in [Task -> TaskState] /\ task[t] \in TaskState /\ task[t].libs \subseteq libs
  BY DEF TypeOK, TypeTasks, Mounted
<1>2. CASE task'[t].libs \subseteq task[t].libs
  BY <1>1, <1>2
<1>3. NoTask.libs = {}
  BY DEF NoTask
<1>4. \A ts \in TaskState : EnqueueNext(ts).libs \subseteq ts.libs
  BY DEF EnqueueNext, NoTask, TaskState
<1>5. CASE TaskInsert(t)
  <2>1. PICK l \in task[t].libs :
          \/ task' = [task EXCEPT ![t] = [[task[t] EXCEPT !.libs = @ \ {l}] EXCEPT !.pc = "readId"]]
          \/ task' = [task EXCEPT ![t] = EnqueueNext([task[t] EXCEPT !.libs = @ \ {l}])]
    BY <1>5 DEF TaskInsert
  <2>2. PICK rest : rest = [task[t] EXCEPT !.libs = @ \ {l}]
    OBVIOUS
  <2>5. rest \in TaskState /\ rest.libs = task[t].libs \ {l}
    BY <1>1, <2>2 DEF TaskState
  <2>3. task'[t] = [rest EXCEPT !.pc = "readId"] \/ task'[t] = EnqueueNext(rest)
    BY <1>1, <2>1, <2>2
  <2>4. [rest EXCEPT !.pc = "readId"].libs = rest.libs
    BY <2>5 DEF TaskState
  <2> QED BY <1>2, <1>4, <2>3, <2>4, <2>5
<1>6. CASE TaskReadId(t)
  <2>1. \A j \in JobId : /\ [task[t] EXCEPT !.rows = @ \union {j}] \in TaskState
                         /\ [task[t] EXCEPT !.rows = @ \union {j}].libs = task[t].libs
    BY <1>1 DEF TaskState
  <2>2. CASE task'[t] = EnqueueNext(task[t])
    BY <1>1, <1>2, <1>4, <2>2
  <2>3. ASSUME NEW j \in JobId, task'[t] = EnqueueNext([task[t] EXCEPT !.rows = @ \union {j}])
        PROVE  task'[t].libs \subseteq libs'
    <3>1. PICK more : more = [task[t] EXCEPT !.rows = @ \union {j}]
      OBVIOUS
    <3>2. more \in TaskState /\ more.libs = task[t].libs /\ task'[t] = EnqueueNext(more)
      BY <2>1, <2>3, <3>1
    <3> QED BY <1>2, <1>4, <3>2
  <2>4. \/ task' = [task EXCEPT ![t] = EnqueueNext(task[t])]
        \/ \E j \in JobId : task' = [task EXCEPT ![t] = EnqueueNext([task[t] EXCEPT !.rows = @ \union {j}])]
    BY <1>6 DEF TaskReadId
  <2> QED BY <1>1, <2>2, <2>3, <2>4
<1>7. CASE TaskPoll(t) \/ TaskRevoke(t) \/ TaskFinish(t)
  BY <1>1, <1>2, <1>7 DEF TaskPoll, TaskRevoke, TaskFinish, TaskState
<1>8. ASSUME NEW u \in Task, u # t, TaskStep(u) PROVE task'[t].libs \subseteq libs'
  BY <1>1, <1>2, <1>8 DEF TaskStep, TaskInsert, TaskReadId, TaskPoll, TaskRevoke, TaskFinish
<1>9. ASSUME NEW u \in Task, NEW S \in ScanTargets, StartScan(u, S) PROVE task'[t].libs \subseteq libs'
  <2>1. S \subseteq libs
    BY DEF ScanTargets
  <2>2. [NoTask EXCEPT !.pc = "insert", !.libs = S].libs = S
    BY DEF NoTask
  <2>3. task'[t] = IF u = t THEN [NoTask EXCEPT !.pc = "insert", !.libs = S] ELSE task[t]
    BY <1>1, <1>9 DEF StartScan
  <2> QED BY <1>1, <2>1, <2>2, <2>3
<1>10. CASE Admin
  BY <1>1, <1>2, <1>9, <1>10 DEF Admin, CreateLibrary, UpdateLibrary, DeleteLibrary, CancelTask, TaskState
<1>11. CASE Consumer \/ Watcher \/ UNCHANGED vars
  BY <1>2, <1>11 DEF Consumer, Claim, Begin, ReadPaths, ScanEnter, ScanUnresolved, WalkOk, WalkErr, EndJob,
     Watcher, WatchResolve, WatchInsert, vars
<1>12. CASE Restart
  BY <1>3, <1>12 DEF Restart
<1> QED BY <1>5, <1>6, <1>7, <1>8, <1>10, <1>11, <1>12 DEF Next, TaskStep

(* So does the watcher. *)
LEMMA WatcherMounted ==
  ASSUME TypeOK, Mounted, [Next]_vars, libs \subseteq libs'
  PROVE  watch' # 0 => watch' \in libs'
<1>1. CASE watch' = watch \/ watch' = 0
  BY <1>1 DEF Mounted
<1>2. ASSUME NEW p \in Path, WatchResolve(p) PROVE watch' \in libs'
  BY <1>2, GetOrCreateMounts DEF WatchResolve, TypeOK
<1>3. CASE Watcher
  BY <1>1, <1>2, <1>3 DEF Watcher, WatchInsert
<1>4. CASE Consumer
  BY <1>1, <1>4 DEF Consumer, Claim, Begin, ReadPaths, ScanEnter, ScanUnresolved, WalkOk, WalkErr, EndJob
<1>5. CASE Admin
  BY <1>1, <1>5 DEF Admin, CreateLibrary, UpdateLibrary, DeleteLibrary, StartScan, CancelTask
<1>6. CASE \E t \in Task : TaskStep(t)
  BY <1>1, <1>6 DEF TaskStep, TaskInsert, TaskReadId, TaskPoll, TaskRevoke, TaskFinish
<1>7. CASE Restart \/ UNCHANGED vars
  BY <1>1, <1>7 DEF Restart, vars
<1> QED BY <1>3, <1>4, <1>5, <1>6, <1>7 DEF Next

(* The loop writes the end of every row it starts. *)
LEMMA WorkedKept ==
  ASSUME TypeOK, QueueInv, Mounted, Worked, [Next]_vars, ~ faulted', ~ Restart
  PROVE  Worked'
<1>1. TypeRows /\ claimed \subseteq JobId /\ 0 \notin JobId /\ (cur # 0 => cur \in JobId)
  BY BoundsAssumption DEF TypeOK, TypeRows, TypeLoop, JobId
<1>2. CASE Begin
  <2>1. PICK j \in claimed : SetStatus(j, "running") /\ cur' = j
    BY <1>2 DEF Begin
  <2>2. cur = 0 /\ pc' = "paths"
    BY <1>2 DEF Begin, QueueInv, LoopShape
  <2>3. \A k \in JobId : k # j => status'[k] = status[k]
    BY <1>1, <2>1, SetStatusEffect DEF Status
  <2> QED BY <1>1, <2>1, <2>2, <2>3 DEF Worked
<1>3. CASE WalkOk
  <2>1. cur \in JobId /\ SetStatus(cur, "done") /\ cur' = cur
    BY <1>3 DEF WalkOk, QueueInv, LoopShape
  <2>2. /\ \A k \in JobId : k # cur => status'[k] = status[k]
        /\ status'[cur] # "running"
    BY <1>1, <2>1 DEF SetStatus, Fails, TypeRows
  <2> QED BY <2>1, <2>2 DEF Worked
<1>4. CASE EndJob
  <2>1. cur \in JobId /\ todo = {} /\ pc = "scan"
    BY <1>4 DEF EndJob, QueueInv, LoopShape
  <2>2. /\ \A k \in JobId : k # cur => status'[k] = status[k]
        /\ status'[cur] # "running"
    BY <1>1, <1>4, <2>1 DEF EndJob, SetStatus, Fails, TypeRows, Worked
  <2>3. \A k \in JobId : status'[k] # "running"
    BY <2>2 DEF Worked
  <2>4. pc' # "scan"
    BY <1>4 DEF EndJob
  <2> QED BY <2>3, <2>4 DEF Worked
<1>5. CASE ReadPaths
  <2>1. cur \in JobId /\ cur < nextJob
    BY <1>5 DEF ReadPaths, QueueInv, LoopShape, RowsNamed
  <2>2. todo' = paths[lib[cur]]
    BY <1>5 DEF ReadPaths, Fails
  <2>3. todo' # {} /\ UNCHANGED <<status, cur>>
    BY <1>5, <2>1, <2>2 DEF ReadPaths, Mounted, db
  <2> QED BY <2>3 DEF Worked
<1>6. CASE WalkErr \/ \E p \in Path : ScanEnter(p) \/ ScanUnresolved(p)
  BY <1>6 DEF WalkErr, ScanEnter, ScanUnresolved, Worked, db
<1>7. CASE Claim
  BY <1>7 DEF Claim, Worked, db
<1>8. CASE UNCHANGED <<pc, cur, todo, hadError>> /\ \A j \in JobId : status'[j] = "running" => status[j] = "running"
  <2>1. pc = "scan" => cur \in JobId
    BY DEF QueueInv, LoopShape
  <2> QED BY <1>8, <2>1 DEF Worked
<1>9. CASE Admin
  <2>1. UNCHANGED <<pc, cur, todo, hadError>>
    BY <1>9 DEF Admin, loop, CreateLibrary, UpdateLibrary, DeleteLibrary, StartScan, CancelTask
  <2>2. \A j \in JobId : status'[j] = "running" => status[j] = "running"
    BY <1>9 DEF Admin, db, CreateLibrary, UpdateLibrary, DeleteLibrary, StartScan, CancelTask
  <2> QED BY <1>8, <2>1, <2>2
<1>10. CASE Watcher
  <2>1. UNCHANGED <<pc, cur, todo, hadError>>
    BY <1>10 DEF Watcher, loop, WatchResolve, WatchInsert
  <2>2. \A j \in JobId : status'[j] = "running" => status[j] = "running"
    BY <1>1, <1>10 DEF Watcher, WatchResolve, WatchInsert, InsertJob, TypeRows
  <2> QED BY <1>8, <2>1, <2>2
<1>11. ASSUME NEW t \in Task, TaskStep(t) PROVE Worked'
  <2>1. UNCHANGED <<pc, cur, todo, hadError>>
    BY <1>11 DEF TaskStep, loop, TaskInsert, TaskReadId, TaskPoll, TaskRevoke, TaskFinish
  <2>2. \A j \in JobId : status'[j] = "running" => status[j] = "running"
    BY <1>1, <1>11 DEF TaskStep, db, TaskInsert, TaskReadId, TaskPoll, TaskRevoke, TaskFinish,
       InsertJob, CancelPending, TypeRows
  <2> QED BY <1>8, <2>1, <2>2
<1>12. CASE UNCHANGED vars
  BY <1>8, <1>12 DEF vars, db, loop
<1> QED BY <1>2, <1>3, <1>4, <1>5, <1>6, <1>7, <1>9, <1>10, <1>11, <1>12 DEF Next, Consumer

(* Together. *)
LEMMA RunInvStep == TypeOK /\ QueueInv /\ RunInv /\ [Next]_vars => RunInv'
<1> SUFFICES ASSUME TypeOK, QueueInv, RunInv, [Next]_vars, Quiet' PROVE Mounted' /\ Worked'
  BY DEF RunInv
<1>1. Quiet /\ ~ Restart /\ \A l \in LibId : ~ DeleteLibrary(l)
  BY QuietBefore
<1>2. Mounted /\ Worked
  BY <1>1 DEF RunInv
<1>3. libs \subseteq libs' /\ \A l \in libs' : paths'[l] # {}
  BY <1>1, <1>2, LibrariesGrow
<1>4. Mounted'
  BY <1>2, <1>3, RowsMounted, RequestsMounted, WatcherMounted DEF Mounted
<1>5. Worked'
  BY <1>1, <1>2, WorkedKept DEF Quiet
<1> QED BY <1>4, <1>5

-----------------------------------------------------------------------------
(***************************************************************************)
(* The theorems.                                                           *)
(***************************************************************************)

IInv == TypeOK /\ QueueInv /\ TaskInv /\ RunInv

LEMMA IInvInit == Init => IInv
<1> SUFFICES ASSUME Init PROVE IInv
  OBVIOUS
<1>1. TypeOK
  <2>1. TypeLibs /\ TypeRows
    <3>1. /\ libs = {} /\ nextLib = 1 /\ paths = [l \in LibId |-> {}]
          /\ status = [j \in JobId |-> "absent"] /\ lib = [j \in JobId |-> 0]
          /\ by = [j \in JobId |-> "none"] /\ nextJob = 1
      BY DEF Init
    <3>2. TypeLibs
      BY <3>1, BoundsAssumption DEF TypeLibs
    <3>3. TypeRows
      BY <3>1, BoundsAssumption DEF TypeRows, Status
    <3> QED BY <3>2, <3>3
  <2>2. pc = "idle" /\ claimed = {} /\ cur = 0 /\ todo = {}
    BY DEF Init
  <2>3. hadError \in BOOLEAN
    BY DEF Init
  <2>4. TypeLoop
    BY <2>2, <2>3, BoundsAssumption DEF TypeLoop
  <2>5. TypeTasks
    BY NoTaskType, BoundsAssumption DEF Init, TypeTasks
  <2>6. faulted \in BOOLEAN /\ deletes = 0 /\ crashes = 0
    BY DEF Init
  <2>7. TypeEnv
    BY <2>6, BoundsAssumption DEF TypeEnv
  <2> QED BY <2>1, <2>4, <2>5, <2>7 DEF TypeOK
<1>2. pc = "idle" /\ claimed = {} /\ cur = 0 /\ nextJob = 1 /\ status = [j \in JobId |-> "absent"]
  BY DEF Init
<1>3. QueueInv
  BY <1>2, BoundsAssumption
     DEF QueueInv, LoopShape, RowsNamed, NewRowsAbsent, ClaimedNotRun, CurNotFailed, JobId
<1>4. TaskInv
  <2>1. \A t \in Task : task[t] = NoTask
    BY DEF Init
  <2> QED BY <2>1, NoTaskType DEF TaskInv, TrackedInserted, LeftPollNoPending, LeftPoll
<1>5. RunInv
  <2>1. \A t \in Task : task[t].libs = {}
    BY DEF Init, NoTask
  <2>2. Mounted
    BY <1>2, <2>1, BoundsAssumption DEF Init, Mounted, JobId
  <2>3. Worked
    BY <1>2 DEF Worked
  <2> QED BY <2>2, <2>3 DEF RunInv
<1> QED
  BY <1>1, <1>3, <1>4, <1>5 DEF IInv

LEMMA IInvStep == IInv /\ [Next]_vars => IInv'
<1> SUFFICES ASSUME IInv, [Next]_vars PROVE IInv'
  OBVIOUS
<1> USE DEF IInv
<1>1. TypeOK'
  BY TypeLibsStep, TypeRowsStep, TypeLoopStep, TypeTasksStep, TypeEnvStep DEF TypeOK, QueueInv
<1>2. QueueStep
  BY QueueStepHolds DEF QueueInv
<1>3. QueueInv'
  BY <1>2, LoopShapeStep, RowsNamedStep, ClaimedNotRunStep DEF QueueInv
<1> QED
  BY <1>1, <1>3, TaskInvStep, RunInvStep

(* Every variable keeps a value of its column or field, in every execution. *)
THEOREM TypeCorrect == Spec => []TypeOK
<1>1. IInv => TypeOK
  BY DEF IInv
<1> QED
  BY <1>1, IInvInit, IInvStep, PTL DEF Spec

(* The loop never holds in its snapshot a row that says running, done or failed,
   or the row it is at: no interleaving of requests, watcher events, deletions and
   restarts makes the consumer start again a row whose start was written down.  (A
   row whose updates all failed still says pending, and may be started again:
   run_scan_loop, pending, update_status.) *)
THEOREM NoStartedRowClaimed == Spec => []ClaimedNotRun
<1>1. IInv => ClaimedNotRun
  BY DEF IInv, QueueInv
<1> QED
  BY <1>1, IInvInit, IInvStep, PTL DEF Spec

(* Every row only moves along the life cycle the code really has, although
   update_status checks no previous status. *)
THEOREM LifecycleCorrect == Spec => RowLifecycle
<1>1. IInv /\ [Next]_vars => [\A j \in JobId : LegalStep(status[j], status'[j])]_vars
  BY QueueStepHolds, LifecycleStep DEF IInv, QueueInv
<1> QED
  BY <1>1, IInvInit, IInvStep, PTL DEF Spec, RowLifecycle

(* An admin task that has ended left none of its rows waiting (start_scan). *)
THEOREM NoPendingLeft == Spec => []EndedTaskLeavesNoPending
<1>1. IInv => EndedTaskLeavesNoPending
  BY DEF IInv, TaskInv, LeftPollNoPending, LeftPoll, EndedTaskLeavesNoPending
<1> QED
  BY <1>1, IInvInit, IInvStep, PTL DEF Spec

(* As long as no statement failed, the process did not stop and no library was
   deleted, a running row is the one the loop works on: no row is left behind
   in running, for any number of directories, requests and rows
   (run_scan_loop). *)
THEOREM NoRowLeftRunning == Spec => []RunningIsWorked
<1>1. IInv => RunningIsWorked
  BY DEF IInv, RunInv, Quiet, Worked, RunningIsWorked
<1> QED
  BY <1>1, IInvInit, IInvStep, PTL DEF Spec

-----------------------------------------------------------------------------
(***************************************************************************)
(* The scan queue implements ScanQueue when no statement fails.            *)
(***************************************************************************)

(* The row being worked was marked: only a failed statement leaves it waiting. *)
CurStarted == cur # 0 => status[cur] # "pending"

LEMMA CurStartedStep == ASSUME Faults = FALSE, IInv, CurStarted, [Next]_vars PROVE CurStarted'
<1>1. QueueStep /\ TypeOK /\ QueueInv
  BY QueueStepHolds DEF IInv, QueueInv
<1>2. TypeRows /\ claimed \subseteq JobId /\ 0 \notin JobId /\ ~ Fails
  BY <1>1, BoundsAssumption DEF TypeOK, TypeRows, TypeLoop, JobId, Fails
<1>3. CASE Starting
  <2>1. PICK j \in claimed : SetStatus(j, "running") /\ cur' = j
    BY <1>3 DEF Starting
  <2>2. status[j] # "pending" => status'[j] # "pending"
    BY <1>2, <2>1 DEF SetStatus, TypeRows
  <2>3. status[j] = "pending" => status'[j] = "running"
    BY <1>2, <2>1 DEF SetStatus, TypeRows
  <2> QED BY <2>1, <2>2, <2>3 DEF CurStarted
<1>4. CASE cur' = cur /\ cur # 0
  <2>1. cur < nextJob /\ cur \in JobId
    BY <1>1, <1>4, BoundsAssumption DEF QueueInv, RowsNamed, TypeOK, TypeLoop, JobId
  <2> QED BY <1>1, <1>4, <2>1, NoReturnToPending DEF CurStarted
<1>5. CASE cur' = 0
  BY <1>5 DEF CurStarted
<1>6. cur' = cur \/ cur' = 0 \/ Starting
  BY <1>1 DEF QueueStep, Insertion, Removal, Withdrawal, Claiming, Confirming, LettingGo, Idling, hands
<1> QED BY <1>3, <1>4, <1>5, <1>6

(* What the phase of a row is, by what holds it. *)
LEMMA PhaseOf ==
  ASSUME TypeOK, QueueInv, NEW j \in JobId
  PROVE  /\ j >= nextJob => JobPhase(j) = "new"
         /\ j = cur => JobPhase(j) = "active"
         /\ j \in claimed => JobPhase(j) = "claimed"
         /\ j < nextJob /\ j # cur /\ j \notin claimed =>
              JobPhase(j) = IF status[j] = "pending" THEN "waiting" ELSE "over"
<1>1. nextJob \in Int /\ j \in Int /\ cur \in Int
  BY BoundsAssumption DEF TypeOK, TypeRows, TypeLoop, JobId
<1>2. (j \in claimed \/ j = cur) => j < nextJob
  BY DEF QueueInv, RowsNamed
<1>3. j \in claimed => j # cur
  BY DEF QueueInv, ClaimedNotRun
<1>4. ~ (j < nextJob /\ j >= nextJob)
  BY <1>1
<1>5. j >= nextJob => JobPhase(j) = "new"
  BY DEF JobPhase
<1>6. j = cur => JobPhase(j) = "active"
  BY <1>2, <1>4 DEF JobPhase
<1>7. j \in claimed => JobPhase(j) = "claimed"
  BY <1>2, <1>3, <1>4 DEF JobPhase
<1>8. j < nextJob /\ j # cur /\ j \notin claimed =>
        JobPhase(j) = IF status[j] = "pending" THEN "waiting" ELSE "over"
  BY <1>4 DEF JobPhase
<1> QED BY <1>5, <1>6, <1>7, <1>8

LEMMA QueueInitMaps == Init => Queue!Init
<1> SUFFICES ASSUME Init PROVE Queue!Init
  OBVIOUS
<1>1. \A j \in JobId : j >= nextJob
  BY BoundsAssumption DEF Init, JobId
<1>2. \A j \in JobId : JobPhase(j) = "new"
  BY <1>1 DEF JobPhase
<1> QED BY <1>2 DEF Queue!Init

(* A step of the rows that leaves the loop's hands and the ids alone, and makes
   no row pending, withdraws the rows that no longer wait. *)
LEMMA HandsOff ==
  ASSUME TypeOK, QueueInv, (TypeOK /\ QueueInv)', UNCHANGED <<nextJob, hands>>,
         \A j \in JobId : status'[j] = "pending" => status[j] = "pending"
  PROVE  Queue!Next
<1> DEFINE phase == [j \in JobId |-> JobPhase(j)]
           S == {j \in JobId : phase[j] = "waiting" /\ status'[j] # "pending"}
<1>1. UNCHANGED <<nextJob, cur, claimed>>
  BY DEF hands
<1>2. ASSUME NEW j \in JobId
      PROVE  JobPhase(j)' = IF j \in S THEN "over" ELSE JobPhase(j)
  <2>1. j < nextJob \/ j >= nextJob
    BY BoundsAssumption DEF TypeOK, TypeRows, JobId
  <2>2. CASE j >= nextJob \/ j = cur \/ j \in claimed
    <3>1. JobPhase(j)' = JobPhase(j) /\ JobPhase(j) # "waiting"
      BY <1>1, <2>2, PhaseOf DEF JobPhase
    <3> QED BY <3>1
  <2>3. CASE j < nextJob /\ j # cur /\ j \notin claimed
    <3>1. JobPhase(j) = IF status[j] = "pending" THEN "waiting" ELSE "over"
      BY <2>3, PhaseOf
    <3>2. ~ (j >= nextJob)
      BY <2>3, BoundsAssumption DEF TypeOK, TypeRows, JobId
    <3>3. JobPhase(j)' = IF status'[j] = "pending" THEN "waiting" ELSE "over"
      BY <1>1, <2>3, <3>2 DEF JobPhase
    <3> QED BY <3>1, <3>3
  <2> QED BY <2>1, <2>2, <2>3
<1>3. phase' = [j \in JobId |-> IF j \in S THEN "over" ELSE phase[j]]
  BY <1>2
<1>4. S \in SUBSET JobId /\ S \subseteq {j \in JobId : phase[j] = "waiting"}
  OBVIOUS
<1>5. Queue!Withdraw(S)
  <2> HIDE DEF phase, S
  <2>1. phase = [j \in JobId |-> JobPhase(j)] /\ phase' = [j \in JobId |-> JobPhase(j)']
    BY DEF phase
  <2> QED BY <1>3, <1>4, <2>1 DEF Queue!Withdraw, Queue!In, Queue!Moves
<1> QED BY <1>4, <1>5 DEF Queue!Next

(* When one row changes its phase. *)
LEMMA OneMoves ==
  ASSUME NEW k \in JobId, NEW ph, JobPhase(k)' = ph,
         \A j \in JobId \ {k} : JobPhase(j)' = JobPhase(j)
  PROVE  Queue!Moves({k}, ph)
BY DEF Queue!Moves

LEMMA InsertionMaps ==
  ASSUME TypeOK, QueueInv, Insertion PROVE Queue!Next
<1>1. PICK n \in JobId :
        /\ n = nextJob /\ nextJob' = n + 1 /\ status'[n] = "pending"
        /\ \A k \in JobId : k # n => status'[k] = status[k]
        /\ cur' = cur /\ claimed' = claimed
  BY InsertionEffect DEF TypeOK, hands
<1>2. n # cur /\ n \notin claimed
  BY <1>1, BoundsAssumption DEF QueueInv, RowsNamed, JobId
<1>3. \A j \in JobId : j # n => (j >= n + 1 <=> j >= n)
  BY BoundsAssumption DEF JobId
<1>4. n >= n /\ ~ (n >= n + 1)
  BY BoundsAssumption DEF JobId
<1>5. JobPhase(n) = "new"
  BY <1>1, <1>4 DEF JobPhase
<1>6. JobPhase(n)' = "waiting"
  BY <1>1, <1>2, <1>4 DEF JobPhase
<1>7. \A j \in JobId \ {n} : JobPhase(j)' = JobPhase(j)
  BY <1>1, <1>3 DEF JobPhase
<1>8. Queue!Enqueue(n)
  BY <1>5, <1>6, <1>7, OneMoves DEF Queue!Enqueue
<1> QED BY <1>8 DEF Queue!Next

LEMMA ClaimingMaps ==
  ASSUME TypeOK, QueueInv, Claiming PROVE Queue!Next
<1>1. PICK S \in SUBSET JobId : S = claimed' /\ S # {} /\ \A j \in S : status[j] = "pending"
  BY DEF Claiming, Pending
<1>2. cur = 0 /\ claimed = {} /\ cur' = 0 /\ status' = status /\ nextJob' = nextJob /\ 0 \notin JobId
  BY BoundsAssumption DEF Claiming, rows, JobId
<1>3. \A j \in S : ~ (j >= nextJob)
  BY <1>1 DEF QueueInv, NewRowsAbsent
<1>4. \A j \in S : JobPhase(j) = "waiting" /\ JobPhase(j)' = "claimed"
  BY <1>1, <1>2, <1>3 DEF JobPhase
<1>5. \A j \in JobId \ S : JobPhase(j)' = JobPhase(j)
  BY <1>1, <1>2 DEF JobPhase
<1>6. \A j \in JobId : JobPhase(j) \notin {"claimed", "active"}
  BY <1>2 DEF JobPhase
<1>7. Queue!Moves(S, "claimed")
  BY <1>4, <1>5 DEF Queue!Moves
<1>8. Queue!Claim(S)
  BY <1>1, <1>4, <1>6, <1>7 DEF Queue!Claim, Queue!In
<1> QED BY <1>8 DEF Queue!Next

LEMMA StartingMaps ==
  ASSUME TypeOK, QueueInv, Starting PROVE Queue!Next
<1>1. PICK n \in JobId : n \in claimed /\ SetStatus(n, "running") /\ cur' = n /\ claimed' = claimed \ {n}
  BY DEF Starting, TypeOK, TypeLoop
<1>2. cur = 0 /\ nextJob' = nextJob /\ 0 \notin JobId
  BY BoundsAssumption DEF Starting, JobId
<1>3. \A k \in JobId : k # n => status'[k] = status[k]
  BY <1>1, SetStatusEffect DEF TypeOK, Status
<1>4. ~ (n >= nextJob)
  BY <1>1, BoundsAssumption DEF QueueInv, RowsNamed, TypeOK, TypeRows, JobId
<1>5. JobPhase(n) = "claimed" /\ JobPhase(n)' = "active"
  BY <1>1, <1>2, <1>4 DEF JobPhase
<1>6. \A j \in JobId \ {n} : JobPhase(j)' = JobPhase(j)
  BY <1>1, <1>2, <1>3 DEF JobPhase
<1>7. \A j \in JobId : JobPhase(j) # "active"
  BY <1>2 DEF JobPhase
<1>8. Queue!Start(n)
  BY <1>5, <1>6, <1>7, OneMoves DEF Queue!Start, Queue!In
<1> QED BY <1>8 DEF Queue!Next

(* The loop lets its row go; the row waits no more. *)
LEMMA FinishingMaps ==
  ASSUME TypeOK, QueueInv, CurStarted, cur \in JobId, status' = status \/ SetStatus(cur, "failed"),
         claimed' = claimed, cur' = 0, nextJob' = nextJob
  PROVE  Queue!Next
<1>1. PICK n \in JobId : n = cur
  OBVIOUS
<1>2. n \notin claimed /\ status[n] # "pending" /\ ~ (n >= nextJob) /\ 0 \notin JobId
  BY <1>1, BoundsAssumption DEF QueueInv, ClaimedNotRun, RowsNamed, CurStarted, TypeOK, TypeRows, JobId
<1>3. status'[n] # "pending" /\ \A k \in JobId : k # n => status'[k] = status[k]
  BY <1>1, <1>2, SetStatusEffect DEF TypeOK, Status
<1>4. JobPhase(n) = "active"
  BY <1>1, <1>2 DEF JobPhase
<1>5. JobPhase(n)' = "over"
  BY <1>2, <1>3 DEF JobPhase
<1>6. \A j \in JobId \ {n} : JobPhase(j)' = JobPhase(j)
  BY <1>1, <1>2, <1>3 DEF JobPhase
<1>7. Queue!Finish(n)
  BY <1>4, <1>5, <1>6, OneMoves DEF Queue!Finish
<1> QED BY <1>7 DEF Queue!Next

(* The loop's hands are emptied: what was claimed and still waits comes back. *)
LEMMA StoppingMaps ==
  ASSUME TypeOK, QueueInv, CurStarted, status' = status, claimed' = {}, cur' = 0, nextJob' = nextJob
  PROVE  Queue!Next
<1> DEFINE back == {j \in claimed : status[j] = "pending"}
<1>1. back \in SUBSET JobId /\ 0 \notin JobId
  <2>1. claimed \subseteq JobId
    BY DEF TypeOK, TypeLoop
  <2>2. 0 \notin JobId
    BY BoundsAssumption DEF JobId
  <2> QED BY <2>1, <2>2
<1>2. \A j \in claimed : JobPhase(j) = "claimed"
  BY <1>1, PhaseOf DEF TypeOK, TypeLoop
<1>3. \A j \in back : JobPhase(j)' = "waiting"
  <2> SUFFICES ASSUME NEW j \in JobId, j \in claimed, status[j] = "pending" PROVE JobPhase(j)' = "waiting"
    BY <1>1
  <2>1. ~ (j >= nextJob)
    BY BoundsAssumption DEF QueueInv, RowsNamed, TypeOK, TypeRows, JobId
  <2> QED BY <1>1, <2>1 DEF JobPhase
<1>4. ASSUME NEW j \in JobId, j \notin back
      PROVE  JobPhase(j)' = IF JobPhase(j) \in {"claimed", "active"} THEN "over" ELSE JobPhase(j)
  <2>1. CASE j \in claimed \/ j = cur
    <3>1. ~ (j >= nextJob) /\ status[j] # "pending"
      BY <1>4, <2>1, BoundsAssumption DEF CurStarted, QueueInv, RowsNamed, TypeOK, TypeRows, JobId
    <3> QED BY <1>1, <2>1, <3>1 DEF JobPhase
  <2>2. CASE j \notin claimed /\ j # cur
    BY <1>1, <2>2 DEF JobPhase
  <2> QED BY <2>1, <2>2
<1>5. [j \in JobId |-> JobPhase(j)'] =
        [j \in JobId |-> IF j \in back THEN "waiting"
                         ELSE IF JobPhase(j) \in {"claimed", "active"} THEN "over" ELSE JobPhase(j)]
  BY <1>3, <1>4
<1>6. back \subseteq {j \in JobId : JobPhase(j) = "claimed"}
  BY <1>1, <1>2
<1>7. Queue!Restart(back)
  <2> HIDE DEF back
  <2> QED BY <1>5, <1>6 DEF Queue!Restart, Queue!In
<1> QED BY <1>1, <1>7 DEF Queue!Next

(* Every step is a step of the abstract queue. *)
LEMMA QueueStepMaps ==
  ASSUME IInv, IInv', CurStarted, [Next]_vars PROVE Queue!Next
<1>1. QueueStep /\ TypeOK /\ QueueInv /\ (TypeOK /\ QueueInv)'
  BY QueueStepHolds DEF IInv, QueueInv
<1>2. CASE Removal \/ Withdrawal \/ Idling
  <2>1. UNCHANGED <<nextJob, hands>>
    BY <1>2 DEF Removal, Withdrawal, Idling, rows
  <2>2. \A j \in JobId : status'[j] = "pending" => status[j] = "pending"
    BY <1>2 DEF Removal, Withdrawal, Idling, rows
  <2> QED BY <1>1, <2>1, <2>2, HandsOff
<1>3. CASE Confirming
  <2>1. UNCHANGED <<nextJob, hands>>
    BY <1>3 DEF Confirming
  <2>2. \A j \in JobId : status'[j] = "pending" => status[j] = "pending"
    BY <1>1, <1>3, SetStatusEffect DEF Confirming, TypeOK, Status
  <2> QED BY <1>1, <2>1, <2>2, HandsOff
<1>4. CASE LettingGo
  BY <1>1, <1>4, FinishingMaps, StoppingMaps DEF LettingGo
<1> QED BY <1>1, <1>2, <1>3, <1>4, InsertionMaps, ClaimingMaps, StartingMaps DEF QueueStep

(* When no statement fails, the scan_job table with its loop, requests, watcher,
   deletions and restarts implements ScanQueue, for any number of them: a job
   starts at most once, one at a time, and is withdrawn only before it is
   claimed (run_scan_loop, pending, cancel_pending_batch, delete). *)
THEOREM ImplementsQueue == ASSUME Faults = FALSE PROVE Spec => RefinesQueue
<1>1. Init => CurStarted
  BY DEF Init, CurStarted
<1>2. IInv /\ CurStarted /\ [Next]_vars => CurStarted'
  BY CurStartedStep
<1>3. IInv /\ IInv' /\ CurStarted /\ [Next]_vars => [Queue!Next]_([j \in JobId |-> JobPhase(j)])
  BY QueueStepMaps
<1> QED BY <1>1, <1>2, <1>3, QueueInitMaps, IInvInit, IInvStep, PTL DEF Spec, RefinesQueue, Queue!Spec
=============================================================================
