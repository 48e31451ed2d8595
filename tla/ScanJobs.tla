------------------------------ MODULE ScanJobs ------------------------------
(***************************************************************************)
(* The scan queue of emrs: the scan_job table, the libraries its rows name, *)
(* the pipeline's scan loop that consumes the rows, the admin requests and  *)
(* the directory watcher that insert them, and the in-memory admin task     *)
(* (JobManager) that polls the rows it inserted and may withdraw them.      *)
(*                                                                          *)
(* A step is the code between two awaits that touch the database: every SQL *)
(* statement is atomic, and anything can happen between two of them.  Ids   *)
(* come from AUTOINCREMENT columns, so an id is never reused and a smaller  *)
(* id is an older row.                                                      *)
(***************************************************************************)
EXTENDS Integers, FiniteSets

CONSTANTS
  Path,        \* canonical directories that can be mounted as library_path
  Task,        \* slots for admin scan requests
  MaxJobs,     \* bound: scan_job rows ever inserted
  MaxLibs,     \* bound: library rows ever inserted
  BatchLimit,  \* LIMIT of the pending query (10 in the code)
  MaxDeletes,  \* bound: DELETE /admin/libraries/{id} requests
  MaxCrashes,  \* bound: process restarts
  Faults       \* TRUE when a statement whose error is only logged may fail

ASSUME BoundsAssumption ==
  /\ MaxJobs \in Nat
  /\ MaxLibs \in Nat
  /\ BatchLimit \in Nat
  /\ MaxDeletes \in Nat
  /\ MaxCrashes \in Nat
  /\ Faults \in BOOLEAN

JobId == 1 .. MaxJobs
LibId == 1 .. MaxLibs

(* "absent" is a row not inserted yet, or deleted with its library. *)
Status == {"absent", "pending", "running", "done", "failed", "canceled"}

VARIABLES
  libs,      \* ids of the rows of table library
  nextLib,   \* next library id
  paths,     \* library_path rows: library id -> mounted directories
  status,    \* scan_job.status
  lib,       \* scan_job.library_id (kept for a deleted row: snapshots hold it)
  by,        \* who inserted the row (scan_job.triggered_by, one value per request)
  nextJob,   \* next scan_job id
  pc,        \* the scan loop: where it stands
  claimed,   \* the scan loop: rows of its pending snapshot not started yet
  cur,       \* the scan loop: row being worked, 0 for none
  todo,      \* the scan loop: directories of cur still to be scanned
  hadError,  \* the scan loop: a directory of cur failed
  task,      \* admin scan requests and their JobManager entries
  watch,     \* the watcher: library it is about to enqueue, 0 for none
  deletes, crashes, \* requests and restarts so far (bounded)
  faulted    \* some logged-only statement has failed

db == <<libs, nextLib, paths, status, lib, by, nextJob>>
loop == <<pc, claimed, cur, todo, hadError>>
env == <<deletes, crashes>>
vars == <<db, loop, task, watch, env, faulted>>

(* One admin scan request: the libraries left to enqueue, the row ids it    *)
(* collected, and its JobManager entry (status, cancel_requested).          *)
TaskState == [pc: {"idle", "insert", "readId", "poll", "revoke", "finish", "ended"},
              libs: SUBSET LibId, rows: SUBSET JobId,
              status: {"None", "Running", "Completed", "Cancelled"},
              cancel: BOOLEAN]
NoTask == [pc |-> "idle", libs |-> {}, rows |-> {}, status |-> "None", cancel |-> FALSE]

Init ==
  /\ libs = {} /\ nextLib = 1 /\ paths = [l \in LibId |-> {}]
  /\ status = [j \in JobId |-> "absent"] /\ lib = [j \in JobId |-> 0]
  /\ by = [j \in JobId |-> "none"] /\ nextJob = 1
  /\ pc = "idle" /\ claimed = {} /\ cur = 0 /\ todo = {} /\ hadError = FALSE
  /\ task = [t \in Task |-> NoTask] /\ watch = 0
  /\ deletes = 0 /\ crashes = 0 /\ faulted = FALSE

-----------------------------------------------------------------------------
(* The tables.                                                             *)

Present == {j \in JobId : status[j] # "absent"}

(* Mutants of the pending query: it also picks up rows left in running, or it
   joins the library table. *)
PendingOrRunning == {j \in JobId : status[j] \in {"pending", "running"}}
PendingJoined == {j \in JobId : status[j] = "pending" /\ lib[j] \in libs}
Pending == {j \in JobId : status[j] = "pending"}

(* Mutants of the poll's test: only running rows count, or all but done ones. *)
ActiveRunning(S) == \E j \in S : status[j] = "running"
ActiveNotDone(S) == \E j \in S : status[j] # "done"
Active(S) == \E j \in S : status[j] \in {"pending", "running"}

(* UPDATE scan_job SET status = 'canceled' WHERE id IN R AND status =
   'pending'.  Mutant: the value takes the spelling of the JobManager. *)
CancelPendingMisspelt(R) ==
  status' = [j \in JobId |-> IF j \in R /\ status[j] = "pending" THEN "cancelled" ELSE status[j]]
CancelPending(R) ==
  status' = [j \in JobId |-> IF j \in R /\ status[j] = "pending" THEN "canceled" ELSE status[j]]

(* INSERT INTO scan_job ... 'pending' *)
InsertJob(l, who) ==
  /\ nextJob \in JobId
  /\ status' = [status EXCEPT ![nextJob] = "pending"]
  /\ lib' = [lib EXCEPT ![nextJob] = l]
  /\ by' = [by EXCEPT ![nextJob] = who]
  /\ nextJob' = nextJob + 1

(* A statement whose error is logged or dropped takes effect, or fails. *)
Fails == Faults /\ faulted' = TRUE
Succeeds == faulted' = faulted

(* UPDATE scan_job SET status = ... WHERE id = ?: no check of the old status,
   no effect on a deleted row. *)
SetStatus(j, s) ==
  \/ /\ Succeeds
     /\ status' = IF status[j] = "absent" THEN status ELSE [status EXCEPT ![j] = s]
  \/ Fails /\ status' = status

(* get_or_create_by_path: the library that mounts p (any of them when several
   do), or a new library mounting only p.  The chosen id satisfies the next
   argument. *)
Mounts(p) == {l \in libs : p \in paths[l]}
GetOrCreate(p, l) ==
  \/ l \in Mounts(p) /\ UNCHANGED <<libs, nextLib, paths>>
  \/ /\ Mounts(p) = {} /\ nextLib \in LibId /\ l = nextLib
     /\ libs' = libs \union {l}
     /\ paths' = [paths EXCEPT ![l] = {p}]
     /\ nextLib' = nextLib + 1

-----------------------------------------------------------------------------
(* Admin requests on libraries.                                            *)

(* POST /admin/libraries: a single already mounted path returns the library
   that mounts it and changes nothing; several paths always make a library. *)
CreateLibrary(ps) ==
  /\ nextLib \in LibId /\ ps # {}
  /\ ~ \E p \in Path : ps = {p} /\ Mounts(p) # {}
  /\ libs' = libs \union {nextLib}
  /\ paths' = [paths EXCEPT ![nextLib] = ps]
  /\ nextLib' = nextLib + 1
  /\ UNCHANGED <<status, lib, by, nextJob, loop, task, watch, env, faulted>>

(* PUT /admin/libraries/{id}: replaces the whole set of mounted paths. *)
UpdateLibrary(l, ps) ==
  /\ l \in libs /\ ps # {} /\ ps # paths[l]
  /\ paths' = [paths EXCEPT ![l] = ps]
  /\ UNCHANGED <<libs, nextLib, status, lib, by, nextJob, loop, task, watch, env, faulted>>

(* DELETE /admin/libraries/{id}: one transaction removes the library, its
   paths and its scan_job rows, whatever their status. *)
DeleteLibrary(l) ==
  /\ l \in libs /\ deletes < MaxDeletes
  /\ libs' = libs \ {l}
  /\ paths' = [paths EXCEPT ![l] = {}]
  /\ status' = [j \in JobId |-> IF lib[j] = l THEN "absent" ELSE status[j]]
  /\ deletes' = deletes + 1
  /\ UNCHANGED <<nextLib, lib, by, nextJob, loop, task, watch, crashes, faulted>>

-----------------------------------------------------------------------------
(* POST /admin/library/scan/start and its JobManager task.                 *)

(* The libraries to scan are read first: the one that mounts a given path, or
   every library that mounts something. *)
ScanTargets == {{l} : l \in {k \in libs : paths[k] # {}}} \union {{k \in libs : paths[k] # {}}}
StartScan(t, S) ==
  /\ task[t].pc = "idle" /\ S # {}
  /\ task' = [task EXCEPT ![t] = [NoTask EXCEPT !.pc = "insert", !.libs = S]]
  /\ UNCHANGED <<db, loop, watch, env, faulted>>

(* Enqueue loop over, at least one id collected: notify the scan loop and
   spawn the polling job; no id collected: error response, no job. *)
EnqueueNext(ts) ==
  IF ts.libs # {} THEN [ts EXCEPT !.pc = "insert"]
  ELSE IF ts.rows = {} THEN NoTask
  ELSE [ts EXCEPT !.pc = "poll", !.status = "Running"]

(* The loop goes through the libraries by id; create() inserts the row ... *)
TaskInsert(t) ==
  /\ task[t].pc = "insert"
  /\ \E l \in task[t].libs :
       LET rest == [task[t] EXCEPT !.libs = @ \ {l}] IN
       /\ \A k \in task[t].libs : l <= k
       /\ \/ /\ InsertJob(l, t) /\ Succeeds
             /\ task' = [task EXCEPT ![t] = [rest EXCEPT !.pc = "readId"]]
          \/ /\ Fails /\ UNCHANGED <<status, lib, by, nextJob>>
             /\ task' = [task EXCEPT ![t] = EnqueueNext(rest)]
  /\ UNCHANGED <<libs, nextLib, paths, loop, watch, env>>

(* ... and then asks for the largest id of the table. *)
NewestId(j) == j \in Present /\ \A k \in Present : k <= j
TaskReadId(t) ==
  /\ task[t].pc = "readId"
  /\ \/ \E j \in JobId :
          /\ NewestId(j) /\ Succeeds
          /\ task' = [task EXCEPT ![t] = EnqueueNext([task[t] EXCEPT !.rows = @ \union {j}])]
     \/ /\ IF Present = {} THEN Succeeds ELSE Fails
        /\ task' = [task EXCEPT ![t] = EnqueueNext(task[t])]
  /\ UNCHANGED <<db, loop, watch, env>>

(* One turn of the 800 ms poll.  A turn that finds an active row and no
   cancellation changes nothing; a failed query finds no row at all. *)
TaskPoll(t) ==
  /\ task[t].pc = "poll"
  /\ \/ /\ IF Active(task[t].rows) THEN Fails ELSE Succeeds
        /\ task' = [task EXCEPT ![t].pc = "finish"]
     \/ /\ Active(task[t].rows) /\ task[t].cancel /\ Succeeds
        /\ task' = [task EXCEPT ![t].pc = "revoke"]
  /\ UNCHANGED <<db, loop, watch, env>>

(* cancel_pending_batch: only rows still pending are withdrawn. *)
TaskRevoke(t) ==
  /\ task[t].pc = "revoke"
  /\ \/ CancelPending(task[t].rows) /\ Succeeds
     \/ Fails /\ status' = status
  /\ task' = [task EXCEPT ![t].pc = "finish"]
  /\ UNCHANGED <<libs, nextLib, paths, lib, by, nextJob, loop, watch, env>>

(* The future returned Ok: JobManager writes the final status. *)
TaskFinish(t) ==
  /\ task[t].pc = "finish"
  /\ task' = [task EXCEPT ![t].pc = "ended",
                          ![t].status = IF task[t].cancel THEN "Cancelled" ELSE "Completed"]
  /\ UNCHANGED <<db, loop, watch, env, faulted>>

(* DELETE /admin/library/scan/{id}: only a Running entry takes the request. *)
CancelTask(t) ==
  /\ task[t].status = "Running" /\ ~ task[t].cancel
  /\ task' = [task EXCEPT ![t].cancel = TRUE]
  /\ UNCHANGED <<db, loop, watch, env, faulted>>

-----------------------------------------------------------------------------
(* The watcher: a burst of events under root p, after the debounce window.  *)

WatchResolve(p) ==
  /\ watch = 0
  /\ \E l \in LibId : GetOrCreate(p, l) /\ watch' = l
  /\ UNCHANGED <<status, lib, by, nextJob, loop, task, env, faulted>>

WatchInsert ==
  /\ watch # 0
  /\ \/ InsertJob(watch, "watch") /\ Succeeds
     \/ Fails /\ UNCHANGED <<status, lib, by, nextJob>>
  /\ watch' = 0
  /\ UNCHANGED <<libs, nextLib, paths, loop, task, env>>

-----------------------------------------------------------------------------
(* The pipeline's scan loop, the only consumer of the rows.                *)

(* A notification or the poll interval wakes the loop: it takes a snapshot of
   at most BatchLimit pending rows.  They are ordered by created_at, which
   create() reads before its INSERT, so not by id: the order is left open. *)
Claim ==
  /\ pc = "idle"
  /\ \E S \in SUBSET Pending :
       /\ S # {} /\ Cardinality(S) <= BatchLimit
       /\ S # Pending => Cardinality(S) = BatchLimit
       /\ claimed' = S
  /\ pc' = "next"
  /\ UNCHANGED <<db, cur, todo, hadError, task, watch, env, faulted>>

(* The next row of the snapshot is set to running, whatever happened to it
   since the snapshot. *)
Begin ==
  /\ pc = "next"
  /\ \E j \in claimed :
       SetStatus(j, "running") /\ cur' = j /\ claimed' = claimed \ {j}
  /\ pc' = "paths" /\ hadError' = FALSE
  /\ UNCHANGED <<libs, nextLib, paths, lib, by, nextJob, todo, task, watch, env>>

(* paths_of_library: a failed query counts as no path. *)
ReadPaths ==
  /\ pc = "paths"
  /\ \/ todo' = paths[lib[cur]] /\ Succeeds
     \/ todo' = {} /\ Fails
  /\ pc' = "scan"
  /\ UNCHANGED <<db, claimed, cur, hadError, task, watch, env>>

(* scan_path begins: canonicalize, then the library of the directory. *)
ScanEnter(p) ==
  /\ pc = "scan" /\ p \in todo
  /\ \E l \in LibId : GetOrCreate(p, l)
  /\ todo' = todo \ {p}
  /\ pc' = "walk"
  /\ UNCHANGED <<status, lib, by, nextJob, claimed, cur, hadError, task, watch, env, faulted>>

(* The directory is gone: scan_path fails before it touches the database. *)
ScanUnresolved(p) ==
  /\ pc = "scan" /\ p \in todo
  /\ todo' = todo \ {p} /\ hadError' = TRUE
  /\ UNCHANGED <<db, pc, claimed, cur, task, watch, env, faulted>>

(* scan_path returned: Ok sets the row to done at once, Err is remembered.
   Mutants: Err sets the row to failed at once, or is forgotten. *)
WalkOk ==
  /\ pc = "walk"
  /\ SetStatus(cur, "done")
  /\ pc' = "scan"
  /\ UNCHANGED <<libs, nextLib, paths, lib, by, nextJob, claimed, cur, todo, hadError, task, watch, env>>

WalkErrFailsNow ==
  /\ pc = "walk"
  /\ SetStatus(cur, "failed")
  /\ hadError' = TRUE /\ pc' = "scan"
  /\ UNCHANGED <<libs, nextLib, paths, lib, by, nextJob, claimed, cur, todo, task, watch, env>>
WalkErrForgets ==
  /\ pc = "walk" /\ pc' = "scan"
  /\ UNCHANGED <<db, claimed, cur, todo, hadError, task, watch, env, faulted>>
WalkErr ==
  /\ pc = "walk"
  /\ hadError' = TRUE /\ pc' = "scan"
  /\ UNCHANGED <<db, claimed, cur, todo, task, watch, env, faulted>>

(* All directories were tried: failed if one of them was. *)
EndJob ==
  /\ pc = "scan" /\ todo = {}
  /\ IF hadError THEN SetStatus(cur, "failed") ELSE Succeeds /\ status' = status
  /\ cur' = 0
  /\ pc' = IF claimed = {} THEN "idle" ELSE "next"
  /\ UNCHANGED <<libs, nextLib, paths, lib, by, nextJob, claimed, todo, hadError, task, watch, env>>

(* The process stops and starts again: the tables stay, all else is new.  No
   start-up code reads scan_job. *)
Restart ==
  /\ crashes < MaxCrashes
  /\ crashes' = crashes + 1
  /\ pc' = "idle" /\ claimed' = {} /\ cur' = 0 /\ todo' = {} /\ hadError' = FALSE
  /\ task' = [t \in Task |-> NoTask] /\ watch' = 0
  /\ UNCHANGED <<db, deletes, faulted>>

-----------------------------------------------------------------------------
Consumer == Claim \/ Begin \/ ReadPaths \/ WalkOk \/ WalkErr \/ EndJob
              \/ \E p \in Path : ScanEnter(p) \/ ScanUnresolved(p)
TaskStep(t) == TaskInsert(t) \/ TaskReadId(t) \/ TaskPoll(t) \/ TaskRevoke(t) \/ TaskFinish(t)
Admin == \/ \E ps \in SUBSET Path : CreateLibrary(ps) \/ \E l \in LibId : UpdateLibrary(l, ps)
         \/ \E l \in LibId : DeleteLibrary(l)
         \/ \E t \in Task : CancelTask(t) \/ \E S \in ScanTargets : StartScan(t, S)
Watcher == WatchInsert \/ \E p \in Path : WatchResolve(p)

Next == Consumer \/ Admin \/ Watcher \/ Restart \/ \E t \in Task : TaskStep(t)

(* tokio keeps polling the loop and the spawned task; requests, events,
   failures and restarts need not happen. *)
Fairness == WF_vars(Consumer /\ Succeeds) /\ \A t \in Task : WF_vars(TaskStep(t) /\ Succeeds)

Spec == Init /\ [][Next]_vars
FairSpec == Spec /\ Fairness

-----------------------------------------------------------------------------
(* Properties.                                                             *)

(* Every variable holds a value of its column or field. *)
TypeLibs == libs \subseteq LibId /\ nextLib \in 1 .. MaxLibs + 1 /\ paths \in [LibId -> SUBSET Path]
TypeRows ==
  /\ status \in [JobId -> Status] /\ lib \in [JobId -> 0 .. MaxLibs]
  /\ by \in [JobId -> Task \union {"watch", "none"}] /\ nextJob \in 1 .. MaxJobs + 1
TypeLoop ==
  /\ pc \in {"idle", "next", "paths", "scan", "walk"}
  /\ claimed \subseteq JobId /\ cur \in 0 .. MaxJobs /\ todo \subseteq Path
  /\ hadError \in BOOLEAN
TypeTasks == task \in [Task -> TaskState] /\ watch \in 0 .. MaxLibs
TypeEnv == deletes \in 0 .. MaxDeletes /\ crashes \in 0 .. MaxCrashes /\ faulted \in BOOLEAN
TypeOK == TypeLibs /\ TypeRows /\ TypeLoop /\ TypeTasks /\ TypeEnv

(* A row waiting in the loop's snapshot does not read as started: once the row
   says running, done or failed, no request, watcher event, deletion or restart
   lets the loop start it a second time.  A row that was scanned while every update
   of its status failed still says pending and is scanned again: update_status only
   logs the failure.  (run_scan_loop, pending) *)
ClaimedNotRun == \A j \in claimed : j # cur /\ status[j] \in {"pending", "canceled", "absent"}

(* The statuses a row really goes through: nothing returns to pending, a
   failed row is final, a done row is only ever confirmed or failed by the
   remaining directories of the same job, and only a row that had not been
   started becomes running.  (update_status has no guard of its own) *)
LegalStep(s, u) ==
  \/ s = u \/ u = "absent"
  \/ s = "absent" /\ u = "pending"
  \/ s \in {"pending", "canceled"} /\ u \in {"running", "done", "failed"}
  \/ s = "pending" /\ u = "canceled"
  \/ s = "running" /\ u \in {"done", "failed"}
  \/ s = "done" /\ u = "failed"
RowLifecycle == [][\A j \in JobId : LegalStep(status[j], status'[j])]_vars

(* When the admin task has ended, completed or cancelled, none of the rows it
   tracked still waits for the loop, unless a statement failed. (start_scan) *)
EndedTaskLeavesNoPending ==
  ~ faulted => \A t \in Task : task[t].pc = "ended" => \A j \in task[t].rows : status[j] # "pending"

(* Until a restart, a failed statement or a deleted library, a running row is
   the one the loop is working on: rows do not get stuck in running.
   (run_scan_loop) *)
RunningIsWorked ==
  ~ faulted /\ crashes = 0 /\ deletes = 0 =>
    \A j \in JobId : status[j] = "running" => j = cur

(* A waiting row is eventually taken, withdrawn or deleted (or the database
   failed). (run_scan_loop polls whether or not it was notified) *)
PendingConsumed == \A j \in JobId : status[j] = "pending" ~> (status[j] # "pending" \/ faulted)

(* A row nobody will ever advance: running, and not in the loop's hands. *)
Orphan(j) == status[j] = "running" /\ j # cur /\ j \notin claimed

(* The admin task ends, unless one of the rows it polls is an orphan or its
   process stopped. (start_scan's poll loop) *)
TaskEnds ==
  \A t \in Task : task[t].pc = "poll" ~>
    (task[t].pc \in {"ended", "idle"} \/ faulted \/ \E j \in task[t].rows : Orphan(j))

-----------------------------------------------------------------------------
(* What the documentation says, and the code does not do.                  *)

(* scan_job_store.rs: canceled is a terminal status of the life cycle. *)
CanceledIsFinal == [][\A j \in JobId : status[j] = "canceled" => status'[j] \in {"canceled", "absent"}]_vars

(* scan_job_store.rs: create() returns the id of the row it inserted. *)
CreateReturnsOwnId == \A t \in Task : \A j \in task[t].rows : by[j] = t

(* pipeline.rs: all state is in the database, a restart loses no job. *)
RestartLosesNoJob == \A j \in JobId : status[j] = "running" ~> (status[j] # "running" \/ faulted)
=============================================================================
