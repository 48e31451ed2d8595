---------------------------- MODULE LibraryWatch ----------------------------
(***************************************************************************)
(* The directory watcher of emrs (watcher.rs) and the registry of libraries *)
(* it resolves changed directories with (library_store.rs, the library      *)
(* routes).  start() and stop() are requests that may overlap: each first   *)
(* takes a new generation and then waits for the lock of the watcher's      *)
(* state.  Every session has an event loop of its own, which ends when it   *)
(* sees that the generation is not its own any more.                        *)
(*                                                                          *)
(* A step is the code between two awaits.  get_or_create_by_path is four    *)
(* SQL statements here; ScanJobs takes it in one step.                      *)
(***************************************************************************)
EXTENDS Integers, FiniteSets, FiniteSetsExt

CONSTANTS
  Root,        \* directories
  Above,       \* Root -> the directories whose tree holds it, itself included
  Call,        \* slots for watch requests
  Admin,       \* slots for library requests and the scan loop's own get-or-create
  MaxStarts,   \* bound: start and stop requests
  MaxLibs,     \* bound: library rows ever inserted
  MaxWrites,   \* bound: library requests
  MaxChanges,  \* bound: changes below a directory
  Faults       \* TRUE when a statement of a task may fail

ASSUME WatchAssumption ==
  /\ Above \in [Root -> SUBSET Root] /\ \A r \in Root : r \in Above[r]
  /\ {MaxStarts, MaxLibs, MaxWrites, MaxChanges} \subseteq Nat
  /\ Faults \in BOOLEAN

Gen == 1 .. MaxStarts
LibId == 1 .. MaxLibs
Task == Gen \cup Admin

VARIABLES
  generation, \* LibraryWatcher.generation
  installed,  \* generation of the watcher in WatchState, 0 for none
  call,       \* watch requests: where they stand
  session,    \* generation -> its watcher and event loop
  libs,       \* ids of the rows of table library
  mounts,     \* rows of library_path: <<library, directory>>
  lastLib,    \* newest library id ever given
  task,       \* who resolves a directory: where it stands
  changes, writes,
  due,        \* history: changed directories not enqueued since
  overlap,    \* history: two watch requests overlapped
  raced,      \* history: a library was written while another task resolved one
  shared,     \* history: a request mounted a directory without looking whose it is,
              \* and it was another library's; or the query that looks failed
  faulted     \* history: an enqueue failed

watch == <<generation, installed, call, session>>
registry == <<libs, mounts, lastLib>>
history == <<due, overlap, raced, shared, faulted>>
vars == <<watch, registry, task, changes, writes, history>>

NoSession == [loop |-> "none", open |-> FALSE, roots |-> {}, queue |-> {}, pending |-> {},
              hits |-> {}]
Free == [at |-> "idle", roots |-> {}, gen |-> 0]
Resting == [at |-> "idle", root |-> CHOOSE r \in Root : TRUE, lib |-> 0, make |-> FALSE]

Init ==
  /\ generation = 0 /\ installed = 0
  /\ call = [c \in Call |-> Free] /\ session = [g \in Gen |-> NoSession]
  /\ libs = {} /\ mounts = {} /\ lastLib = 0
  /\ task = [t \in Task |-> Resting]
  /\ changes = 0 /\ writes = 0 /\ due = {}
  /\ overlap = FALSE /\ raced = FALSE /\ shared = FALSE /\ faulted = FALSE

-----------------------------------------------------------------------------
(* Watch requests.                                                         *)

Begun == {c \in Call : call[c].at # "idle"}

(* start(): the roots were canonicalized; the watcher is made, so its events
   begin to queue, and the generation is taken.  What the session before it had
   not enqueued yet is forgotten. *)
StartBump(c) ==
  /\ call[c].at = "idle" /\ generation < MaxStarts
  /\ generation' = generation + 1
  /\ \E R \in SUBSET Root \ {{}} :
       /\ call' = [call EXCEPT ![c] = [at |-> "install", roots |-> R, gen |-> generation + 1]]
       /\ session' = [session EXCEPT ![generation + 1] = [NoSession EXCEPT !.open = TRUE, !.roots = R]]
  /\ due' = {} /\ overlap' = (overlap \/ Begun # {})
  /\ UNCHANGED <<installed, registry, task, changes, writes, raced, shared, faulted>>

(* The watcher in the state is dropped, which closes its channel; mutant: it stays. *)
NotReplaced(s) == s
Replaced(s) == IF installed = 0 THEN s ELSE [s EXCEPT ![installed].open = FALSE]

(* The lock is taken, the watcher installed and the event loop spawned. *)
StartInstall(c) ==
  /\ call[c].at = "install"
  /\ installed' = call[c].gen
  /\ session' = [Replaced(session) EXCEPT ![call[c].gen].loop = "run"]
  /\ call' = [call EXCEPT ![c] = Free]
  /\ UNCHANGED <<generation, registry, task, changes, writes, history>>

(* stop(). *)
StopBump(c) ==
  /\ call[c].at = "idle" /\ generation < MaxStarts
  /\ generation' = generation + 1
  /\ call' = [call EXCEPT ![c] = [at |-> "clear", roots |-> {}, gen |-> generation + 1]]
  /\ due' = {} /\ overlap' = (overlap \/ Begun # {})
  /\ UNCHANGED <<installed, session, registry, task, changes, writes, raced, shared, faulted>>

StopClear(c) ==
  /\ call[c].at = "clear"
  /\ installed' = 0 /\ session' = Replaced(session)
  /\ call' = [call EXCEPT ![c] = Free]
  /\ UNCHANGED <<generation, registry, task, changes, writes, history>>

-----------------------------------------------------------------------------
(* The event loop of a session.                                            *)

LoopOnly == UNCHANGED <<generation, installed, call, registry, changes, writes>>

(* Something changes below r: the open watchers whose roots hold it queue it. *)
Change(r) ==
  /\ changes < MaxChanges /\ changes' = changes + 1
  /\ session' = [g \in Gen |->
       IF session[g].open /\ session[g].roots \cap Above[r] # {}
       THEN [session[g] EXCEPT !.queue = @ \cup {r}] ELSE session[g]]
  /\ due' = IF \E g \in Gen : g = generation /\ session[g].open /\ session[g].roots \cap Above[r] # {}
            THEN due \cup {r} ELSE due
  /\ UNCHANGED <<generation, installed, call, registry, task, writes, overlap, raced, shared, faulted>>

Receive(g, r) ==
  /\ session[g].loop = "run" /\ g = generation /\ r \in session[g].queue
  /\ session' = [session EXCEPT ![g].queue = @ \ {r}, ![g].pending = @ \cup {r}]
  /\ LoopOnly /\ UNCHANGED <<task, history>>

(* The roots that hold a changed path: all of them, not the longest.  Mutant:
   the path must be the root. *)
MatchExact(pending, roots) == pending \cap roots
MatchRoots(pending, roots) == {q \in roots : \E r \in pending : q \in Above[r]}

(* The timer: five seconds without an event. *)
Fire(g) ==
  /\ session[g].loop = "run" /\ g = generation /\ session[g].pending # {}
  /\ session' = [session EXCEPT ![g].loop = "fire", ![g].pending = {},
                                ![g].hits = MatchRoots(session[g].pending, session[g].roots)]
  /\ LoopOnly /\ UNCHANGED <<task, history>>

(* enqueue_watch_scan of the next root. *)
EnqueueNext(g, q) ==
  /\ session[g].loop = "fire" /\ task[g].at = "idle" /\ q \in session[g].hits
  /\ session' = [session EXCEPT ![g].hits = @ \ {q}]
  /\ task' = [task EXCEPT ![g] = [at |-> "resolve", root |-> q, lib |-> 0, make |-> FALSE]]
  /\ LoopOnly /\ UNCHANGED history

(* The batch is done. *)
BatchDone(g) ==
  /\ session[g].loop = "fire" /\ task[g].at = "idle" /\ session[g].hits = {}
  /\ session' = [session EXCEPT ![g].loop = "run"]
  /\ LoopOnly /\ UNCHANGED <<task, history>>

(* The generation is another session's, or the channel is closed and empty. *)
LoopEnds(g) ==
  /\ session[g].loop = "run"
  /\ g # generation \/ (~session[g].open /\ session[g].queue = {} /\ session[g].pending = {})
  /\ session' = [session EXCEPT ![g] = [NoSession EXCEPT !.loop = "ended", !.open = session[g].open]]
  /\ LoopOnly /\ UNCHANGED <<task, history>>

-----------------------------------------------------------------------------
(* Resolving a directory: library_id_for_path, get_or_create_by_path and     *)
(* create_library.                                                         *)

Go(t, rec) == task' = [task EXCEPT ![t] = rec]
Resolving(t) == task[t].at \in {"select", "insertLib", "readId", "insertPath", "create"}
Race(t) == raced' = (raced \/ \E u \in Task \ {t} : Resolving(u))
TaskOnly == UNCHANGED <<watch, changes, writes, due, overlap, shared, faulted>>

(* SELECT ... JOIN library: a row of a library that is gone does not count.
   POST /admin/libraries goes on to its transaction when there is none. *)
Resolve(t) ==
  /\ task[t].at = "resolve"
  /\ LET found == {l \in libs : <<l, task[t].root>> \in mounts}
     IN IF found # {} THEN \E l \in found : Go(t, [task[t] EXCEPT !.at = "found", !.lib = l])
        ELSE Go(t, [task[t] EXCEPT !.at = IF task[t].make THEN "create" ELSE "select"])
  /\ TaskOnly /\ UNCHANGED <<registry, raced>>

(* The same SELECT fails in POST /admin/libraries: `let Ok(Some(id))` takes it
   for a directory of no library. *)
ResolveBlind(t) ==
  /\ Faults /\ task[t].at = "resolve" /\ task[t].make
  /\ Go(t, [task[t] EXCEPT !.at = "create"])
  /\ shared' = TRUE
  /\ UNCHANGED <<watch, registry, changes, writes, due, overlap, raced, faulted>>

(* get_or_create_by_path: SELECT library_id FROM library_path, no join. *)
Select(t) ==
  /\ task[t].at = "select"
  /\ LET found == {m[1] : m \in {n \in mounts : n[2] = task[t].root}}
     IN IF found # {} THEN \E l \in found : Go(t, [task[t] EXCEPT !.at = "found", !.lib = l])
        ELSE Go(t, [task[t] EXCEPT !.at = "insertLib"])
  /\ TaskOnly /\ UNCHANGED <<registry, raced>>

InsertLib(t) ==
  /\ task[t].at = "insertLib" /\ lastLib < MaxLibs
  /\ lastLib' = lastLib + 1 /\ libs' = libs \cup {lastLib + 1}
  /\ Go(t, [task[t] EXCEPT !.at = "readId"])
  /\ Race(t) /\ TaskOnly /\ UNCHANGED mounts

(* SELECT id FROM library ORDER BY id DESC LIMIT 1. *)
ReadId(t) ==
  /\ task[t].at = "readId"
  /\ Go(t, IF libs = {} THEN Resting ELSE [task[t] EXCEPT !.at = "insertPath", !.lib = Max(libs)])
  /\ TaskOnly /\ UNCHANGED <<registry, raced>>

InsertPath(t) ==
  /\ task[t].at = "insertPath"
  /\ mounts' = mounts \cup {<<task[t].lib, task[t].root>>}
  /\ Go(t, [task[t] EXCEPT !.at = "found"])
  /\ Race(t) /\ TaskOnly /\ UNCHANGED <<libs, lastLib>>

(* create_library's transaction. *)
CreateTx(t) ==
  /\ task[t].at = "create" /\ lastLib < MaxLibs
  /\ lastLib' = lastLib + 1 /\ libs' = libs \cup {lastLib + 1}
  /\ mounts' = mounts \cup {<<lastLib + 1, task[t].root>>}
  /\ Go(t, Resting)
  /\ Race(t) /\ TaskOnly

(* The scan_job row is inserted: every change received before is enqueued. *)
Enqueued(t) ==
  /\ task[t].at = "found"
  /\ due' = IF t \notin Gen THEN due
            ELSE due \ {r \in Root : /\ task[t].root \in Above[r]
                                     /\ r \notin session[t].queue \cup session[t].pending}
  /\ Go(t, Resting)
  /\ UNCHANGED <<watch, registry, changes, writes, overlap, raced, shared, faulted>>

(* A statement fails.  The watcher warns and the change is forgotten; a request
   answers with the error (create_library rolls its transaction back). *)
EnqueueFails(t) ==
  /\ Faults /\ task[t].at # "idle" /\ faulted' = TRUE
  /\ Go(t, Resting)
  /\ UNCHANGED <<watch, registry, changes, writes, due, overlap, raced, shared>>

-----------------------------------------------------------------------------
(* Library requests.                                                       *)

Writes == writes < MaxWrites /\ writes' = writes + 1
AdminOnly == UNCHANGED <<watch, changes, due, overlap, faulted>>

(* A scan (start_scan, or scan_path's upsert_library) or POST /admin/libraries. *)
Ask(a, r) ==
  /\ task[a].at = "idle" /\ Writes
  /\ \E how \in {"scan", "enqueue", "create"} :
       Go(a, [at |-> IF how = "scan" THEN "select" ELSE "resolve", root |-> r, lib |-> 0,
              make |-> how = "create"])
  /\ AdminOnly /\ UNCHANGED <<registry, raced, shared>>

(* POST with several paths: nobody looks for them. *)
CreateMany(R) ==
  /\ Writes /\ Cardinality(R) > 1 /\ lastLib < MaxLibs
  /\ lastLib' = lastLib + 1 /\ libs' = libs \cup {lastLib + 1}
  /\ mounts' = mounts \cup {<<lastLib + 1, r>> : r \in R}
  /\ raced' = (raced \/ \E t \in Task : Resolving(t))
  /\ shared' = (shared \/ \E m \in mounts : m[2] \in R)
  /\ AdminOnly /\ UNCHANGED task

(* PUT: the paths of the library become R, whoever else mounts them. *)
UpdateLibrary(l, R) ==
  /\ Writes /\ l \in libs /\ R # {}
  /\ mounts' = {m \in mounts : m[1] # l} \cup {<<l, r>> : r \in R}
  /\ raced' = (raced \/ \E t \in Task : Resolving(t))
  /\ shared' = (shared \/ \E m \in mounts : m[1] # l /\ m[2] \in R)
  /\ AdminOnly /\ UNCHANGED <<task, libs, lastLib>>

(* DELETE.  Mutant: the path rows stay. *)
DeleteKeepsPaths(l) ==
  /\ Writes /\ l \in libs
  /\ libs' = libs \ {l} /\ UNCHANGED mounts
  /\ raced' = (raced \/ \E t \in Task : Resolving(t))
  /\ AdminOnly /\ UNCHANGED <<task, lastLib, shared>>
DeleteLibrary(l) ==
  /\ Writes /\ l \in libs
  /\ libs' = libs \ {l} /\ mounts' = {m \in mounts : m[1] # l}
  /\ raced' = (raced \/ \E t \in Task : Resolving(t))
  /\ AdminOnly /\ UNCHANGED <<task, lastLib, shared>>

WatchRequest ==
  \E c \in Call : StartBump(c) \/ StartInstall(c) \/ StopBump(c) \/ StopClear(c)
EventLoop(g) ==
  \/ (\E r \in Root : Receive(g, r)) \/ Fire(g) \/ (\E q \in Root : EnqueueNext(g, q))
  \/ BatchDone(g) \/ LoopEnds(g)
TaskStep(t) ==
  \/ Resolve(t) \/ ResolveBlind(t) \/ Select(t) \/ InsertLib(t) \/ ReadId(t) \/ InsertPath(t) \/ CreateTx(t)
  \/ Enqueued(t)
LibraryRequest ==
  \/ \E a \in Admin, r \in Root : Ask(a, r)
  \/ \E R \in SUBSET Root : CreateMany(R)
  \/ \E l \in LibId : DeleteLibrary(l) \/ \E R \in SUBSET Root : UpdateLibrary(l, R)

Next ==
  \/ WatchRequest \/ LibraryRequest \/ \E r \in Root : Change(r)
  \/ \E g \in Gen : EventLoop(g)
  \/ \E t \in Task : TaskStep(t) \/ EnqueueFails(t)

Spec == Init /\ [][Next]_vars

(* The event loops and the statements they await go on; nobody owes a request.
   A change that keeps coming resets the timer for ever: the bound on changes
   stands for the five quiet seconds. *)
Fairness ==
  /\ \A g \in Gen : WF_vars(EventLoop(g)) /\ WF_vars(TaskStep(g))
  /\ \A c \in Call : WF_vars(StartInstall(c)) /\ WF_vars(StopClear(c))
FairSpec == Spec /\ Fairness

-----------------------------------------------------------------------------
(* Properties.                                                             *)

Alive(g) == session[g].loop \in {"run", "fire"}

(* status() tells the truth as long as no two watch requests overlap: between
   requests "running" means that the loop of the installed watcher is alive, is
   the only one that may still take events, and its channel is open. *)
StatusIsTrue ==
  (~overlap /\ Begun = {}) =>
    /\ installed # 0 => Alive(installed) /\ installed = generation /\ session[installed].open
    /\ \A g \in Gen : session[g].open => g = installed

(* As long as no library is written while another task resolves a directory,
   every path row names a library, and a directory belongs to one only (unless
   a PUT, or a POST with several paths, gave it to two, or the query by which a
   POST looks for its directory failed). *)
RegistrySound ==
  ~raced =>
    /\ \A m \in mounts : m[1] \in libs
    /\ ~shared => \A m, n \in mounts : m[2] = n[2] => m = n

(* A change below a watched directory is enqueued, unless an enqueue failed or
   watch requests overlapped (a new session forgets what the old one knew). *)
ChangeIsEnqueued ==
  \A r \in Root : (r \in due) ~> (r \notin due \/ overlap \/ faulted \/ raced)

(* watcher.rs, start(): a repeated call "stops the old watch and rebuilds it":
   status() says running only while a loop takes the events. *)
RunningIsListening ==
  Begun = {} /\ installed # 0 => Alive(installed) /\ installed = generation

(* library_store.rs: "the atomic get-or-create of library + library_path". *)
GetOrCreateIsAtomic ==
  ~shared => \A m, n \in mounts : m[2] = n[2] => m = n
=============================================================================
