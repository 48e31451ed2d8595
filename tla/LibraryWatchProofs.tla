-------------------------- MODULE LibraryWatchProofs --------------------------
(* Proofs about LibraryWatch, for every set of directories, number of requests
   at a time, starts, libraries, writes and changes, and whether or not
   statements fail. *)
EXTENDS LibraryWatch, TLAPS

(***************************************************************************)
(* The watch: what its status says.                                        *)
(***************************************************************************)

CallType == [at : {"idle", "install", "clear"}, roots : SUBSET Root, gen : 0 .. MaxStarts]
SessionType ==
  [loop : {"none", "run", "fire", "ended"}, open : BOOLEAN, roots : SUBSET Root,
   queue : SUBSET Root, pending : SUBSET Root, hits : SUBSET Root]

WatchType ==
  /\ generation \in 0 .. MaxStarts /\ installed \in 0 .. MaxStarts
  /\ call \in [Call -> CallType] /\ session \in [Gen -> SessionType]
  /\ overlap \in BOOLEAN

(* Without an overlap one request is under way at most; it has the newest
   generation, which is not installed yet, and a start keeps its channel open. *)
OneAtATime ==
  ~overlap => \A c \in Begun :
    /\ \A d \in Begun : c = d
    /\ call[c].gen = generation /\ installed < generation
    /\ call[c].at = "install" => session[generation].open

(* The open channels are those of the installed watcher and of the start that
   is under way. *)
Opened ==
  ~overlap => \A g \in Gen : session[g].open =>
    g = installed \/ (g = generation /\ \E c \in Begun : call[c].at = "install")

(* The installed watcher is the newest, and listens, unless a request is under way. *)
Listening ==
  (~overlap /\ Begun = {} /\ installed # 0) =>
    Alive(installed) /\ installed = generation /\ session[installed].open

WatchInv == WatchType /\ OneAtATime /\ Opened /\ Listening

(* The steps that leave the requests and the watcher alone, and sessions open,
   alive or ended as they were: the loops' own, but for their end. *)
Sessions ==
  /\ UNCHANGED <<generation, installed, call, overlap>> /\ session' \in [Gen -> SessionType]
  /\ \A g \in Gen : /\ session'[g].open = session[g].open
                    /\ Alive(g) => (session'[g].loop \in {"run", "fire"}
                                      \/ g # generation \/ ~session[g].open)

LEMMA SessionsKeep ==
  ASSUME WatchInv, Sessions
  PROVE  WatchInv'
<1> USE WatchAssumption DEF WatchInv, Sessions
<1>1. WatchType' /\ Begun' = Begun
  BY DEF WatchType, Begun
<1>2. OneAtATime'
  <2> SUFFICES ASSUME ~overlap, NEW c \in Begun
               PROVE  /\ \A d \in Begun : c = d
                      /\ call[c].gen = generation /\ installed < generation
                      /\ call[c].at = "install" => session'[generation].open
    BY <1>1 DEF OneAtATime
  <2>1. c \in Call /\ call[c].gen = generation /\ installed < generation
    BY DEF OneAtATime, Begun
  <2>2. generation \in Gen
    BY <2>1 DEF WatchType, Gen
  <2> QED BY <2>1, <2>2 DEF OneAtATime
<1>3. Opened'
  BY <1>1 DEF Opened
<1>4. Listening'
  <2> SUFFICES ASSUME ~overlap, Begun = {}, installed # 0
               PROVE  /\ session'[installed].loop \in {"run", "fire"}
                      /\ installed = generation /\ session'[installed].open
    BY <1>1 DEF Listening, Alive
  <2>1. installed \in Gen
    BY DEF WatchType, Gen
  <2> QED BY <2>1 DEF Listening, Alive
<1> QED BY <1>1, <1>2, <1>3, <1>4

LEMMA WatchInit == Init => WatchInv
<1> SUFFICES ASSUME Init PROVE WatchInv
  OBVIOUS
<1>1. MaxStarts \in Nat
  BY WatchAssumption
<1>2. WatchType
  <2>1. Free \in CallType /\ NoSession \in SessionType
    BY <1>1 DEF Free, NoSession, CallType, SessionType
  <2>2. generation \in 0 .. MaxStarts /\ installed \in 0 .. MaxStarts
    BY <1>1 DEF Init
  <2>4. overlap \in BOOLEAN
    BY DEF Init
  <2>3. call \in [Call -> CallType] /\ session \in [Gen -> SessionType]
    BY <2>1 DEF Init
  <2> QED BY <2>2, <2>3, <2>4 DEF WatchType
<1>3. Begun = {}
  BY DEF Init, Begun, Free
<1>4. \A g \in Gen : ~session[g].open
  BY DEF Init, NoSession
<1> QED BY <1>2, <1>3, <1>4 DEF Init, WatchInv, OneAtATime, Opened, Listening

(* The steps that only resolve directories or write libraries. *)
LEMMA OthersKeep ==
  ASSUME WatchInv, UNCHANGED <<watch, overlap>>
  PROVE  WatchInv'
BY DEF WatchInv, watch, WatchType, OneAtATime, Opened, Listening, Begun, Alive

LEMMA StartKeeps ==
  ASSUME WatchInv, NEW c \in Call, StartBump(c)
  PROVE  WatchInv'
<1> USE DEF WatchInv
<1>1. PICK R \in SUBSET Root :
        /\ call' = [call EXCEPT ![c] = [at |-> "install", roots |-> R, gen |-> generation + 1]]
        /\ session' = [session EXCEPT ![generation + 1] = [NoSession EXCEPT !.open = TRUE, !.roots = R]]
  BY DEF StartBump
<1>2. /\ generation \in 0 .. MaxStarts /\ generation < MaxStarts /\ MaxStarts \in Nat
      /\ generation' = generation + 1 /\ generation + 1 \in Gen
      /\ installed' = installed /\ installed \in 0 .. MaxStarts
  BY WatchAssumption DEF StartBump, WatchType, Gen
<1>3. WatchType'
  <2>1. [at |-> "install", roots |-> R, gen |-> generation + 1] \in CallType
    BY <1>2 DEF CallType
  <2>2. [NoSession EXCEPT !.open = TRUE, !.roots = R] \in SessionType
    BY DEF NoSession, SessionType
  <2>3. call' \in [Call -> CallType]
    BY <1>1, <2>1 DEF WatchType
  <2>4. session' \in [Gen -> SessionType]
    BY <1>1, <1>2, <2>2 DEF WatchType
  <2>5. generation' \in 0 .. MaxStarts /\ installed' \in 0 .. MaxStarts
    BY <1>2
  <2>6. overlap' \in BOOLEAN
    BY DEF StartBump, WatchType
  <2> QED BY <2>3, <2>4, <2>5, <2>6 DEF WatchType
<1>4. CASE overlap'
  BY <1>3, <1>4 DEF OneAtATime, Opened, Listening
<1>5. CASE ~overlap'
  <2>1. ~overlap /\ Begun = {}
    BY <1>5 DEF StartBump, WatchType
  <2>2. Begun' = {c}
    BY <1>1, <2>1 DEF Begun, WatchType
  <2>3. \A g \in Gen : session[g].open => g = installed
    BY <2>1 DEF Opened
  <2>4. installed < generation'
    BY <1>2, <2>1 DEF Listening
  <2>5. /\ session'[generation'].open /\ call'[c].gen = generation' /\ call'[c].at = "install"
        /\ \A g \in Gen : g # generation' => session'[g] = session[g]
    BY <1>1, <1>2 DEF WatchType, SessionType, NoSession
  <2>6. OneAtATime'
    BY <2>2, <2>4, <2>5, <1>2 DEF OneAtATime
  <2>7. Opened'
    BY <2>2, <2>3, <2>5, <1>2 DEF Opened
  <2> QED BY <1>3, <2>2, <2>6, <2>7 DEF Listening
<1> QED BY <1>3, <1>4, <1>5 DEF WatchType

LEMMA StopKeeps ==
  ASSUME WatchInv, NEW c \in Call, StopBump(c)
  PROVE  WatchInv'
<1> USE DEF WatchInv
<1>1. /\ generation \in 0 .. MaxStarts /\ generation < MaxStarts /\ MaxStarts \in Nat
      /\ generation' = generation + 1
      /\ installed' = installed /\ installed \in 0 .. MaxStarts
  BY WatchAssumption DEF StopBump, WatchType
<1>2. WatchType'
  BY <1>1 DEF StopBump, WatchType, CallType
<1>3. CASE overlap'
  BY <1>2, <1>3 DEF OneAtATime, Opened, Listening
<1>4. CASE ~overlap'
  <2>1. ~overlap /\ Begun = {}
    BY <1>4 DEF StopBump, WatchType
  <2>2. Begun' = {c} /\ call'[c].gen = generation' /\ call'[c].at = "clear"
    BY <1>1, <2>1 DEF Begun, WatchType, StopBump
  <2>3. \A g \in Gen : session[g].open => g = installed
    BY <2>1 DEF Opened
  <2>4. installed < generation'
    BY <1>1, <2>1 DEF Listening
  <2>5. OneAtATime'
    BY <2>2, <2>4, <1>1 DEF OneAtATime
  <2>6. Opened'
    BY <2>2, <2>3, <1>1 DEF Opened, StopBump
  <2> QED BY <1>2, <2>2, <2>5, <2>6 DEF Listening
<1> QED BY <1>2, <1>3, <1>4 DEF WatchType

(* Dropping the installed watcher closes its channel and no other. *)
LEMMA ReplacedCloses ==
  ASSUME WatchType
  PROVE  /\ Replaced(session) \in [Gen -> SessionType]
         /\ \A g \in Gen : /\ g # installed => Replaced(session)[g] = session[g]
                           /\ g = installed => ~Replaced(session)[g].open
<1> USE WatchAssumption DEF WatchType, Replaced
<1>1. CASE installed = 0
  BY <1>1 DEF Gen
<1>2. CASE installed # 0
  <2>1. installed \in Gen
    BY <1>2 DEF Gen
  <2>2. session[installed] \in SessionType
    BY <2>1
  <2>3. [session[installed] EXCEPT !.open = FALSE] \in SessionType
    BY <2>2 DEF SessionType
  <2>4. Replaced(session) = [session EXCEPT ![installed] = [session[installed] EXCEPT !.open = FALSE]]
    BY <1>2
  <2>5. [session[installed] EXCEPT !.open = FALSE].open = FALSE
    BY <2>2 DEF SessionType
  <2> HIDE DEF Replaced
  <2> QED BY <2>1, <2>3, <2>4, <2>5
<1> QED BY <1>1, <1>2

(* start() comes to its lock.  Without an overlap it is the newest request, so
   what it installs is the newest session. *)
LEMMA InstallKeeps ==
  ASSUME WatchInv, NEW c \in Call, StartInstall(c)
  PROVE  WatchInv'
<1> DEFINE g == call[c].gen
<1> USE DEF WatchInv
<1>1. /\ call[c].at = "install" /\ installed' = g /\ generation' = generation
      /\ session' = [Replaced(session) EXCEPT ![g].loop = "run"]
      /\ call' = [call EXCEPT ![c] = Free] /\ overlap' = overlap
  BY DEF StartInstall, history
<1>2. call[c] \in CallType /\ g \in 0 .. MaxStarts /\ MaxStarts \in Nat
  BY WatchAssumption DEF WatchType, CallType
<1>3. /\ Replaced(session) \in [Gen -> SessionType]
      /\ \A h \in Gen : /\ h # installed => Replaced(session)[h] = session[h]
                        /\ h = installed => ~Replaced(session)[h].open
  BY ReplacedCloses
<1>4. /\ session' \in [Gen -> SessionType]
      /\ \A h \in Gen : /\ session'[h].open = Replaced(session)[h].open
                        /\ h = g => session'[h].loop = "run"
  <2>1. \A x \in SessionType : /\ [x EXCEPT !.loop = "run"] \in SessionType
                               /\ [x EXCEPT !.loop = "run"].open = x.open
                               /\ [x EXCEPT !.loop = "run"].loop = "run"
    BY DEF SessionType
  <2>2. session' = [Replaced(session) EXCEPT ![g] = [Replaced(session)[g] EXCEPT !.loop = "run"]]
    BY <1>1
  <2> QED BY <1>3, <2>1, <2>2
<1>5. WatchType'
  <2>1. Free \in CallType
    BY <1>2 DEF Free, CallType
  <2>2. call' \in [Call -> CallType]
    BY <1>1, <2>1 DEF WatchType
  <2> QED BY <1>1, <1>2, <1>4, <2>2 DEF WatchType
<1>6. CASE overlap
  BY <1>1, <1>5, <1>6 DEF OneAtATime, Opened, Listening
<1>7. CASE ~overlap
  <2>1. c \in Begun
    BY <1>1 DEF Begun
  <2>2. /\ Begun = {c} /\ g = generation /\ installed < generation
        /\ session[generation].open
    BY <1>1, <1>7, <2>1 DEF OneAtATime
  <2>3. Begun' = {}
    BY <1>1, <2>2 DEF Begun, Free, WatchType
  <2>4. g \in Gen /\ g # installed
    BY <1>2, <2>2 DEF WatchType, Gen
  <2>5. session'[g].open /\ session'[g].loop = "run"
    BY <1>3, <1>4, <2>2, <2>4
  <2>6. \A h \in Gen : session'[h].open => h = g
    BY <1>3, <1>4, <1>7, <2>2 DEF Opened
  <2>7. Listening'
    BY <1>1, <2>2, <2>5 DEF Listening, Alive
  <2>8. OneAtATime' /\ Opened'
    BY <1>1, <2>3, <2>6 DEF OneAtATime, Opened
  <2> QED BY <1>5, <2>7, <2>8
<1> QED BY <1>6, <1>7 DEF WatchType

(* stop() comes to its lock. *)
LEMMA ClearKeeps ==
  ASSUME WatchInv, NEW c \in Call, StopClear(c)
  PROVE  WatchInv'
<1> USE DEF WatchInv
<1>1. /\ call[c].at = "clear" /\ installed' = 0 /\ generation' = generation
      /\ session' = Replaced(session)
      /\ call' = [call EXCEPT ![c] = Free] /\ overlap' = overlap
  BY DEF StopClear, history
<1>2. MaxStarts \in Nat
  BY WatchAssumption
<1>3. /\ session' \in [Gen -> SessionType]
      /\ \A h \in Gen : /\ h # installed => session'[h] = session[h]
                        /\ h = installed => ~session'[h].open
  BY <1>1, ReplacedCloses
<1>4. WatchType'
  <2>1. Free \in CallType
    BY <1>2 DEF Free, CallType
  <2>2. call' \in [Call -> CallType]
    BY <1>1, <2>1 DEF WatchType
  <2> QED BY <1>1, <1>2, <1>3, <2>2 DEF WatchType
<1>5. CASE overlap
  BY <1>1, <1>4, <1>5 DEF OneAtATime, Opened, Listening
<1>6. CASE ~overlap
  <2>1. Begun = {c}
    BY <1>1, <1>6 DEF OneAtATime, Begun
  <2>2. Begun' = {}
    BY <1>1, <2>1 DEF Begun, Free, WatchType
  <2>3. \A h \in Gen : ~session'[h].open
    BY <1>1, <1>3, <1>6, <2>1 DEF Opened
  <2> QED BY <1>1, <1>4, <2>2, <2>3 DEF OneAtATime, Opened, Listening
<1> QED BY <1>5, <1>6 DEF WatchType

(* The steps of a loop, and the changes it is told of. *)
LEMMA LoopKeeps ==
  ASSUME WatchType, NEW g \in Gen, EventLoop(g)
  PROVE  Sessions
<1> USE DEF WatchType
<1>1. session[g] \in SessionType /\ UNCHANGED <<generation, installed, call, overlap>>
  BY DEF EventLoop, Receive, Fire, EnqueueNext, BatchDone, LoopEnds, LoopOnly, history
<1> SUFFICES ASSUME TRUE
             PROVE  \E x \in SessionType :
                      /\ session' = [session EXCEPT ![g] = x] /\ x.open = session[g].open
                      /\ \/ x.loop \in {"run", "fire"} \/ g # generation \/ ~session[g].open
                         \/ x.loop = session[g].loop
  BY <1>1 DEF Sessions, Alive
<1>2. ASSUME NEW r \in Root, Receive(g, r)
      PROVE  \E x \in SessionType :
               /\ session' = [session EXCEPT ![g] = x] /\ x.open = session[g].open
               /\ x.loop = session[g].loop
  <2> DEFINE x == [session[g] EXCEPT !.queue = @ \ {r}, !.pending = @ \cup {r}]
  <2>1. x \in SessionType /\ x.open = session[g].open /\ x.loop = session[g].loop
    BY <1>1 DEF SessionType
  <2>2. session' = [session EXCEPT ![g] = x]
    BY <1>1, <1>2 DEF Receive
  <2> HIDE DEF x
  <2> QED BY <2>1, <2>2
<1>3. ASSUME Fire(g)
      PROVE  \E x \in SessionType :
               /\ session' = [session EXCEPT ![g] = x] /\ x.open = session[g].open
               /\ x.loop = "fire"
  <2> DEFINE m == MatchRoots(session[g].pending, session[g].roots)
             x == [session[g] EXCEPT !.loop = "fire", !.pending = {}, !.hits = m]
  <2>0. m \in SUBSET Root
    BY <1>1 DEF SessionType, MatchRoots
  <2>1. x \in SessionType /\ x.open = session[g].open /\ x.loop = "fire"
    <3> HIDE DEF m
    <3> QED BY <1>1, <2>0 DEF SessionType
  <2>2. session' = [session EXCEPT ![g] = x]
    BY <1>1, <1>3 DEF Fire
  <2> HIDE DEF x
  <2> QED BY <2>1, <2>2
<1>4. ASSUME NEW q \in Root, EnqueueNext(g, q)
      PROVE  \E x \in SessionType :
               /\ session' = [session EXCEPT ![g] = x] /\ x.open = session[g].open
               /\ x.loop = session[g].loop
  <2> DEFINE x == [session[g] EXCEPT !.hits = @ \ {q}]
  <2>1. x \in SessionType /\ x.open = session[g].open /\ x.loop = session[g].loop
    BY <1>1 DEF SessionType
  <2>2. session' = [session EXCEPT ![g] = x]
    BY <1>1, <1>4 DEF EnqueueNext
  <2> HIDE DEF x
  <2> QED BY <2>1, <2>2
<1>5. ASSUME BatchDone(g)
      PROVE  \E x \in SessionType :
               /\ session' = [session EXCEPT ![g] = x] /\ x.open = session[g].open
               /\ x.loop = "run"
  <2> DEFINE x == [session[g] EXCEPT !.loop = "run"]
  <2>1. x \in SessionType /\ x.open = session[g].open /\ x.loop = "run"
    BY <1>1 DEF SessionType
  <2>2. session' = [session EXCEPT ![g] = x]
    BY <1>1, <1>5 DEF BatchDone
  <2> HIDE DEF x
  <2> QED BY <2>1, <2>2
<1>6. ASSUME LoopEnds(g)
      PROVE  \E x \in SessionType :
               /\ session' = [session EXCEPT ![g] = x] /\ x.open = session[g].open
               /\ g # generation \/ ~session[g].open
  <2> DEFINE x == [NoSession EXCEPT !.loop = "ended", !.open = session[g].open]
  <2>1. x \in SessionType /\ x.open = session[g].open
    BY <1>1 DEF SessionType, NoSession
  <2>2. session' = [session EXCEPT ![g] = x] /\ (g # generation \/ ~session[g].open)
    BY <1>6 DEF LoopEnds
  <2> HIDE DEF x
  <2> QED BY <2>1, <2>2
<1> QED BY <1>2, <1>3, <1>4, <1>5, <1>6 DEF EventLoop

LEMMA ChangeKeeps ==
  ASSUME WatchType, NEW r \in Root, Change(r)
  PROVE  Sessions
<1>1. /\ session' = [g \in Gen |->
           IF session[g].open /\ session[g].roots \cap Above[r] # {}
           THEN [session[g] EXCEPT !.queue = @ \cup {r}] ELSE session[g]]
      /\ UNCHANGED <<generation, installed, call, overlap>>
  BY DEF Change
<1>2. \A x \in SessionType : /\ [x EXCEPT !.queue = @ \cup {r}] \in SessionType
                             /\ [x EXCEPT !.queue = @ \cup {r}].open = x.open
                             /\ [x EXCEPT !.queue = @ \cup {r}].loop = x.loop
  BY DEF SessionType
<1>3. \A g \in Gen : /\ session'[g] \in SessionType /\ session'[g].open = session[g].open
                     /\ session'[g].loop = session[g].loop
  BY <1>1, <1>2 DEF WatchType
<1>4. session' \in [Gen -> SessionType]
  BY <1>1, <1>3
<1> QED BY <1>1, <1>3, <1>4 DEF Sessions, Alive

LEMMA WatchStep == WatchInv /\ [Next]_vars => WatchInv'
<1> SUFFICES ASSUME WatchInv, [Next]_vars PROVE WatchInv'
  OBVIOUS
<1>1. CASE WatchRequest
  BY <1>1, StartKeeps, InstallKeeps, StopKeeps, ClearKeeps DEF WatchRequest
<1>2. CASE LibraryRequest
  BY <1>2, OthersKeep
     DEF LibraryRequest, Ask, CreateMany, DeleteLibrary, UpdateLibrary, AdminOnly
<1>3. CASE \E r \in Root : Change(r)
  BY <1>3, ChangeKeeps, SessionsKeep DEF WatchInv
<1>4. CASE \E g \in Gen : EventLoop(g)
  BY <1>4, LoopKeeps, SessionsKeep DEF WatchInv
<1>5. ASSUME NEW t \in Task, TaskStep(t) \/ EnqueueFails(t)
      PROVE  WatchInv'
  BY <1>5, OthersKeep
     DEF TaskStep, Resolve, ResolveBlind, Select, InsertLib, ReadId, InsertPath, CreateTx, Enqueued,
         EnqueueFails, TaskOnly
<1>6. CASE UNCHANGED vars
  BY <1>6, OthersKeep DEF vars, history
<1> QED BY <1>1, <1>2, <1>3, <1>4, <1>5, <1>6 DEF Next

(* The status of the watcher (watcher.rs: start, stop, status, the event loop)
   tells the truth between requests as long as no two of them overlapped: what
   is installed is the newest session, its loop is alive, its channel is open,
   and no other session's channel is. *)
THEOREM StatusIsTrueAlways == Spec => []StatusIsTrue
<1>1. WatchInv => StatusIsTrue
  BY DEF WatchInv, StatusIsTrue, Listening, Opened
<1> QED BY <1>1, WatchInit, WatchStep, PTL DEF Spec

(***************************************************************************)
(* The registry of libraries.                                              *)
(***************************************************************************)

TaskType ==
  [at : {"idle", "resolve", "select", "insertLib", "readId", "insertPath", "create", "found"},
   root : Root \cup {Resting.root}, lib : 0 .. MaxLibs, make : BOOLEAN]

RegistryType ==
  /\ lastLib \in 0 .. MaxLibs /\ libs \in SUBSET (1 .. lastLib)
  /\ mounts \in SUBSET (LibId \X Root) /\ task \in [Task -> TaskType]

Named == \A m \in mounts : m[1] \in libs
OneLibrary == ~shared => \A m, n \in mounts : m[2] = n[2] => m = n

(* Where a task stands says what the statements before it saw, and what is
   still so when nobody writes meanwhile: its directory is mounted nowhere, the
   newest row is its own, the library it is to mount the directory in is there. *)
Stands(rec) ==
  /\ rec.at # "idle" => rec.root \in Root
  /\ rec.at \in {"insertLib", "readId", "insertPath"} => \A m \in mounts : m[2] # rec.root
  /\ rec.at = "create" /\ ~shared => \A m \in mounts : m[2] # rec.root
  /\ rec.at = "readId" => lastLib \in libs
  /\ rec.at = "insertPath" => rec.lib \in libs

RegistryInv ==
  ~raced => RegistryType /\ Named /\ OneLibrary /\ \A t \in Task : Stands(task[t])

LEMMA RegistryInit == Init => RegistryInv
<1> SUFFICES ASSUME Init PROVE RegistryInv
  OBVIOUS
<1>1. MaxLibs \in Nat
  BY WatchAssumption
<1>2. Resting \in TaskType /\ Resting.at = "idle"
  BY <1>1 DEF Resting, TaskType
<1>3. RegistryType
  <2>1. task \in [Task -> TaskType]
    BY <1>2 DEF Init
  <2> QED BY <1>1, <2>1 DEF Init, RegistryType
<1>4. \A t \in Task : Stands(task[t])
  BY <1>2 DEF Init, Stands
<1> QED BY <1>3, <1>4 DEF Init, RegistryInv, Named, OneLibrary

(* The steps that write neither libraries nor tasks. *)
LEMMA RegistryRests ==
  ASSUME RegistryInv, UNCHANGED <<registry, task, raced, shared>>
  PROVE  RegistryInv'
BY DEF RegistryInv, registry, RegistryType, Named, OneLibrary, Stands

(* A task goes on without a write: what it learned has to hold. *)
LEMMA TaskMoves ==
  ASSUME RegistryInv, ~raced => UNCHANGED <<registry, shared>>, raced' = raced, NEW t \in Task,
         NEW rec, Go(t, rec), ~raced => rec \in TaskType /\ Stands(rec)
  PROVE  RegistryInv'
<1> SUFFICES ASSUME ~raced
             PROVE  RegistryType' /\ Named' /\ OneLibrary' /\ \A u \in Task : Stands(task[u])'
  BY DEF RegistryInv
<1> USE DEF RegistryInv
<1>1. UNCHANGED <<registry, shared>> /\ task' = [task EXCEPT ![t] = rec]
      /\ rec \in TaskType /\ Stands(rec)
  BY DEF Go
<1>2. RegistryType' /\ Named' /\ OneLibrary'
  BY <1>1 DEF RegistryType, Named, OneLibrary, registry
<1>3. ASSUME NEW u \in Task PROVE Stands(task[u])'
  BY <1>1 DEF Stands, registry, RegistryType
<1> QED BY <1>2, <1>3

(* A write without a race: nobody else is resolving, so of the other tasks only
   the directory they are about has to be known. *)
LEMMA WriteKeepsTasks ==
  ASSUME RegistryInv, ~raced, NEW t \in Task, NEW rec \in TaskType, Go(t, rec), Stands(rec)',
         \A u \in Task \ {t} : ~Resolving(u)
  PROVE  task' \in [Task -> TaskType] /\ \A u \in Task : Stands(task[u])'
<1> USE DEF RegistryInv
<1>1. task' = [task EXCEPT ![t] = rec] /\ task \in [Task -> TaskType]
  BY DEF Go, RegistryType
<1>2. ASSUME NEW u \in Task PROVE Stands(task[u])'
  <2>1. CASE u = t
    BY <1>1, <2>1 DEF Stands
  <2>2. CASE u # t
    BY <1>1, <2>2 DEF Stands, Resolving, TaskType
  <2> QED BY <2>1, <2>2
<1> QED BY <1>1, <1>2

LEMMA RequestKeepsTasks ==
  ASSUME RegistryInv, ~raced, task' = task, \A t \in Task : ~Resolving(t)
  PROVE  task' \in [Task -> TaskType] /\ \A t \in Task : Stands(task[t])'
BY DEF RegistryInv, RegistryType, Stands, Resolving, TaskType

(* A record of a task with another status, or another library, is one. *)
LEMMA TaskRecords ==
  ASSUME NEW rec \in TaskType, NEW l \in 0 .. MaxLibs
  PROVE  /\ \A s \in {"select", "create", "insertLib", "readId", "found"} :
              /\ [rec EXCEPT !.at = s] \in TaskType
              /\ [rec EXCEPT !.at = s].at = s /\ [rec EXCEPT !.at = s].root = rec.root
         /\ \A s \in {"found", "insertPath"} :
              /\ [rec EXCEPT !.at = s, !.lib = l] \in TaskType
              /\ [rec EXCEPT !.at = s, !.lib = l].at = s
              /\ [rec EXCEPT !.at = s, !.lib = l].root = rec.root
              /\ [rec EXCEPT !.at = s, !.lib = l].lib = l
BY DEF TaskType

LEMMA TaskAt ==
  ASSUME NEW rec \in TaskType, NEW s \in {"select", "create", "insertLib"}
  PROVE  /\ [rec EXCEPT !.at = s] \in TaskType
         /\ [rec EXCEPT !.at = s].at = s /\ [rec EXCEPT !.at = s].root = rec.root
BY DEF TaskType

LEMMA RestingStands == Resting \in TaskType /\ Stands(Resting) /\ Stands(Resting)'
BY WatchAssumption DEF Resting, TaskType, Stands

LEMMA LookupKeeps ==
  ASSUME RegistryInv, NEW t \in Task, Resolve(t) \/ Select(t)
  PROVE  RegistryInv'
<1>1. UNCHANGED <<registry, shared>> /\ raced' = raced
  BY DEF Resolve, Select, TaskOnly
<1> SUFFICES ASSUME ~raced
             PROVE  \E rec \in TaskType : Go(t, rec) /\ Stands(rec)
  BY <1>1, TaskMoves DEF RegistryInv
<1>2. /\ task[t] \in TaskType /\ Stands(task[t]) /\ task[t].root \in Root
      /\ MaxLibs \in Nat /\ lastLib \in 0 .. MaxLibs
      /\ libs \in SUBSET (1 .. lastLib) /\ mounts \in SUBSET (LibId \X Root)
  BY WatchAssumption DEF RegistryInv, RegistryType, Resolve, Select, Stands
<1>3. CASE Resolve(t)
  <2>1. CASE {l \in libs : <<l, task[t].root>> \in mounts} # {}
    <3>1. PICK l \in libs : Go(t, [task[t] EXCEPT !.at = "found", !.lib = l])
      BY <1>3, <2>1 DEF Resolve
    <3>2. l \in 0 .. MaxLibs
      BY <1>2
    <3> QED BY ZenonT(60), <1>2, <3>1, <3>2, TaskRecords DEF Stands
  <2>2. CASE ~({l \in libs : <<l, task[t].root>> \in mounts} # {})
    <3>1. PICK s \in {"select", "create", "insertLib"} : Go(t, [task[t] EXCEPT !.at = s]) /\ s # "insertLib"
      BY <1>3, <2>2 DEF Resolve
    <3>2. task[t] \in TaskType
      BY <1>2
    <3>3. ASSUME NEW m \in mounts PROVE m[2] # task[t].root
      <4>1. m = <<m[1], m[2]>> /\ m[1] \in libs
        BY <1>2 DEF RegistryInv, Named
      <4> QED BY <2>2, <4>1
    <3> DEFINE rec == [task[t] EXCEPT !.at = s]
    <3>4. rec \in TaskType /\ rec.at = s /\ rec.root = task[t].root
      BY Zenon, <3>2, TaskAt
    <3> HIDE DEF rec
    <3>5. Stands(rec)
      BY <1>2, <3>1, <3>3, <3>4 DEF Stands
    <3> QED BY <3>1, <3>4, <3>5 DEF rec
  <2> QED BY <2>1, <2>2
<1>4. CASE Select(t)
  <2> DEFINE found == {m[1] : m \in {n \in mounts : n[2] = task[t].root}}
  <2>1. CASE found # {}
    <3>1. PICK l \in found : Go(t, [task[t] EXCEPT !.at = "found", !.lib = l])
      BY <1>4, <2>1 DEF Select
    <3>2. l \in 0 .. MaxLibs
      BY <1>2 DEF LibId
    <3> QED BY ZenonT(60), <1>2, <3>1, <3>2, TaskRecords DEF Stands
  <2>2. CASE found = {}
    <3>1. Go(t, [task[t] EXCEPT !.at = "insertLib"])
      BY <1>4, <2>2 DEF Select
    <3>2. \A m \in mounts : m[2] # task[t].root
      BY <2>2
    <3> DEFINE rec == [task[t] EXCEPT !.at = "insertLib"]
    <3>3. task[t] \in TaskType
      BY <1>2
    <3>4. rec \in TaskType /\ rec.at = "insertLib" /\ rec.root = task[t].root
      BY Zenon, <3>3, TaskAt
    <3> HIDE DEF rec
    <3>5. Stands(rec)
      BY <1>2, <3>2, <3>4 DEF Stands
    <3> QED BY <3>1, <3>4, <3>5 DEF rec
  <2> QED BY <2>1, <2>2
<1> QED BY <1>3, <1>4

(* The query that looks for the directory failed: from now on a directory may
   belong to two libraries. *)
LEMMA BlindKeeps ==
  ASSUME RegistryInv, NEW t \in Task, ResolveBlind(t)
  PROVE  RegistryInv'
<1> SUFFICES ASSUME ~raced
             PROVE  RegistryType' /\ Named' /\ OneLibrary' /\ \A u \in Task : Stands(task[u])'
  BY DEF RegistryInv, ResolveBlind
<1>1. /\ task' = [task EXCEPT ![t] = [task[t] EXCEPT !.at = "create"]] /\ shared'
      /\ UNCHANGED registry /\ task[t].at = "resolve"
  BY DEF ResolveBlind, Go
<1>2. /\ RegistryType /\ Named /\ task[t] \in TaskType /\ MaxLibs \in Nat
      /\ \A u \in Task : Stands(task[u])
  BY WatchAssumption DEF RegistryInv, RegistryType
<1>3. PICK rec \in TaskType : rec = [task[t] EXCEPT !.at = "create"]
  BY <1>2 DEF TaskType
<1>4. rec.at = "create" /\ rec.root = task[t].root
  BY <1>2, <1>3 DEF TaskType
<1>5. RegistryType' /\ Named' /\ OneLibrary'
  BY <1>1, <1>2, <1>3 DEF RegistryType, registry, Named, OneLibrary
<1>6. ASSUME NEW u \in Task PROVE Stands(task[u])'
  <2>1. CASE u = t
    <3>1. task'[u] = rec
      BY <1>1, <1>2, <1>3, <2>1 DEF RegistryType
    <3> QED BY <1>1, <1>2, <1>4, <3>1 DEF Stands
  <2>2. CASE u # t
    <3>1. task'[u] = task[u] /\ Stands(task[u])
      BY <1>1, <1>2, <2>2 DEF RegistryType
    <3> QED BY <1>1, <3>1 DEF Stands, registry
  <2> QED BY <2>1, <2>2
<1> QED BY <1>5, <1>6

LEMMA InsertLibKeeps ==
  ASSUME RegistryInv, NEW t \in Task, InsertLib(t)
  PROVE  RegistryInv'
<1> SUFFICES ASSUME ~raced'
             PROVE  RegistryType' /\ Named' /\ OneLibrary' /\ \A u \in Task : Stands(task[u])'
  BY DEF RegistryInv
<1>1. /\ ~raced /\ \A u \in Task \ {t} : ~Resolving(u)
      /\ task[t].at = "insertLib" /\ lastLib < MaxLibs
      /\ lastLib' = lastLib + 1 /\ libs' = libs \cup {lastLib + 1} /\ mounts' = mounts
      /\ Go(t, [task[t] EXCEPT !.at = "readId"]) /\ shared' = shared
  BY DEF InsertLib, Race, TaskOnly
<1>2. RegistryType /\ Named /\ OneLibrary /\ Stands(task[t]) /\ task[t] \in TaskType
  BY <1>1 DEF RegistryInv, RegistryType
<1>3. MaxLibs \in Nat
  BY WatchAssumption
<1>4. PICK rec \in TaskType : Go(t, rec) /\ rec.at = "readId" /\ rec.root = task[t].root
  <2> DEFINE new == [task[t] EXCEPT !.at = "readId"]
  <2>1. 0 \in 0 .. MaxLibs
    BY <1>3
  <2>2. new \in TaskType /\ new.at = "readId" /\ new.root = task[t].root
    BY <1>2, <2>1, TaskRecords
  <2>3. Go(t, new)
    BY <1>1
  <2> HIDE DEF new
  <2> QED BY <2>2, <2>3
<1>5. Stands(rec)'
  BY <1>1, <1>2, <1>4 DEF Stands
<1>6. task' \in [Task -> TaskType] /\ \A u \in Task : Stands(task[u])'
  BY <1>1, <1>4, <1>5, WriteKeepsTasks
<1>7. RegistryType'
  BY <1>1, <1>2, <1>3, <1>6 DEF RegistryType
<1>8. Named' /\ OneLibrary'
  BY <1>1, <1>2 DEF Named, OneLibrary
<1> QED BY <1>6, <1>7, <1>8

(* SELECT ... ORDER BY id DESC LIMIT 1 finds the task's own row: it is the
   newest, and nobody wrote since. *)
LEMMA ReadIdKeeps ==
  ASSUME RegistryInv, NEW t \in Task, ReadId(t)
  PROVE  RegistryInv'
<1>1. UNCHANGED <<registry, shared>> /\ raced' = raced /\ task[t].at = "readId"
  BY DEF ReadId, TaskOnly
<1> SUFFICES ASSUME ~raced
             PROVE  \E rec \in TaskType : Go(t, rec) /\ Stands(rec)
  BY <1>1, TaskMoves DEF RegistryInv
<1>2. /\ task[t] \in TaskType /\ Stands(task[t]) /\ lastLib \in libs
      /\ MaxLibs \in Nat /\ lastLib \in 0 .. MaxLibs /\ libs \in SUBSET (1 .. lastLib)
  BY <1>1, WatchAssumption DEF RegistryInv, RegistryType, Stands
<1>3. Max(libs) = lastLib
  <2>1. lastLib \in libs /\ \A y \in libs : lastLib >= y
    BY <1>2
  <2>2. \A x \in libs : (\A y \in libs : x >= y) => x = lastLib
    BY <1>2
  <2> QED BY <2>1, <2>2 DEF Max
<1>4. Go(t, [task[t] EXCEPT !.at = "insertPath", !.lib = lastLib])
  BY <1>2, <1>3 DEF ReadId
<1>5. PICK rec \in TaskType : /\ Go(t, rec) /\ rec.at = "insertPath" /\ rec.root = task[t].root
                              /\ rec.lib = lastLib
  <2> DEFINE new == [task[t] EXCEPT !.at = "insertPath", !.lib = lastLib]
  <2>1. /\ new \in TaskType /\ new.at = "insertPath" /\ new.root = task[t].root
        /\ new.lib = lastLib
    BY <1>2 DEF TaskType
  <2> HIDE DEF new
  <2> QED BY <1>4, <2>1 DEF new
<1>6. Stands(rec)
  BY <1>1, <1>2, <1>5 DEF Stands
<1> QED BY <1>5, <1>6

LEMMA InsertPathKeeps ==
  ASSUME RegistryInv, NEW t \in Task, InsertPath(t)
  PROVE  RegistryInv'
<1> SUFFICES ASSUME ~raced'
             PROVE  RegistryType' /\ Named' /\ OneLibrary' /\ \A u \in Task : Stands(task[u])'
  BY DEF RegistryInv
<1>1. /\ ~raced /\ \A u \in Task \ {t} : ~Resolving(u)
      /\ task[t].at = "insertPath" /\ lastLib' = lastLib /\ libs' = libs
      /\ mounts' = mounts \cup {<<task[t].lib, task[t].root>>}
      /\ Go(t, [task[t] EXCEPT !.at = "found"]) /\ shared' = shared
  BY DEF InsertPath, Race, TaskOnly
<1>2. RegistryType /\ Named /\ OneLibrary /\ Stands(task[t]) /\ task[t] \in TaskType
  BY <1>1 DEF RegistryInv, RegistryType
<1>3. MaxLibs \in Nat
  BY WatchAssumption
<1>4. /\ task[t].lib \in libs /\ task[t].root \in Root /\ task[t].lib \in LibId
      /\ \A m \in mounts : m[2] # task[t].root
  BY <1>1, <1>2, <1>3 DEF Stands, RegistryType, LibId
<1>5. PICK rec \in TaskType : Go(t, rec) /\ rec.at = "found" /\ rec.root = task[t].root
  <2> DEFINE new == [task[t] EXCEPT !.at = "found"]
  <2>1. 0 \in 0 .. MaxLibs
    BY <1>3
  <2>2. new \in TaskType /\ new.at = "found" /\ new.root = task[t].root
    BY <1>2, <2>1, TaskRecords
  <2>3. Go(t, new)
    BY <1>1
  <2> HIDE DEF new
  <2> QED BY <2>2, <2>3
<1>6. Stands(rec)'
  BY <1>4, <1>5 DEF Stands
<1>7. task' \in [Task -> TaskType] /\ \A u \in Task : Stands(task[u])'
  BY <1>1, <1>5, <1>6, WriteKeepsTasks
<1>8. RegistryType'
  BY <1>1, <1>2, <1>4, <1>7 DEF RegistryType
<1>9. Named' /\ OneLibrary'
  BY <1>1, <1>2, <1>4 DEF Named, OneLibrary
<1> QED BY <1>7, <1>8, <1>9

LEMMA CreateTxKeeps ==
  ASSUME RegistryInv, NEW t \in Task, CreateTx(t)
  PROVE  RegistryInv'
<1> SUFFICES ASSUME ~raced'
             PROVE  RegistryType' /\ Named' /\ OneLibrary' /\ \A u \in Task : Stands(task[u])'
  BY DEF RegistryInv
<1>1. /\ ~raced /\ \A u \in Task \ {t} : ~Resolving(u)
      /\ task[t].at = "create" /\ lastLib < MaxLibs
      /\ lastLib' = lastLib + 1 /\ libs' = libs \cup {lastLib + 1}
      /\ mounts' = mounts \cup {<<lastLib + 1, task[t].root>>}
      /\ Go(t, Resting) /\ shared' = shared
  BY DEF CreateTx, Race, TaskOnly
<1>2. /\ RegistryType /\ Named /\ OneLibrary /\ task[t].root \in Root
      /\ ~shared => \A m \in mounts : m[2] # task[t].root
  BY <1>1 DEF RegistryInv, RegistryType, Stands
<1>3. MaxLibs \in Nat
  BY WatchAssumption
<1>5. task' \in [Task -> TaskType] /\ \A u \in Task : Stands(task[u])'
  BY <1>1, RestingStands, WriteKeepsTasks
<1>6. RegistryType'
  BY <1>1, <1>2, <1>3, <1>5 DEF RegistryType, LibId
<1>7. Named' /\ OneLibrary'
  BY <1>1, <1>2 DEF Named, OneLibrary
<1> QED BY <1>5, <1>6, <1>7

LEMMA TaskRestsKeeps ==
  ASSUME RegistryInv, NEW t \in Task, Enqueued(t) \/ EnqueueFails(t)
  PROVE  RegistryInv'
<1>1. UNCHANGED <<registry, shared>> /\ raced' = raced /\ Go(t, Resting)
  BY DEF Enqueued, EnqueueFails
<1> QED BY <1>1, RestingStands, TaskMoves

(* A directory is looked up: by the watcher, by a request. *)
LEMMA AskKeeps ==
  ASSUME RegistryInv, NEW t \in Task, NEW r \in Root, NEW s \in {"resolve", "select"},
         NEW make \in BOOLEAN, Go(t, [at |-> s, root |-> r, lib |-> 0, make |-> make]),
         UNCHANGED <<registry, raced, shared>>
  PROVE  RegistryInv'
<1> DEFINE rec == [at |-> s, root |-> r, lib |-> 0, make |-> make]
<1>1. rec \in TaskType
  BY WatchAssumption DEF TaskType
<1>2. Stands(rec)
  BY DEF Stands
<1> HIDE DEF rec
<1>3. Go(t, rec)
  BY DEF rec
<1> QED BY <1>1, <1>2, <1>3, TaskMoves

LEMMA CreateManyKeeps ==
  ASSUME RegistryInv, NEW R \in SUBSET Root, CreateMany(R)
  PROVE  RegistryInv'
<1> SUFFICES ASSUME ~raced'
             PROVE  RegistryType' /\ Named' /\ OneLibrary' /\ \A u \in Task : Stands(task[u])'
  BY DEF RegistryInv
<1>1. /\ ~raced /\ (\A u \in Task : ~Resolving(u)) /\ task' = task /\ lastLib < MaxLibs
      /\ lastLib' = lastLib + 1 /\ libs' = libs \cup {lastLib + 1}
      /\ mounts' = mounts \cup {<<lastLib + 1, r>> : r \in R}
      /\ ~shared' => ~shared /\ \A m \in mounts : m[2] \notin R
  BY DEF CreateMany
<1>2. RegistryType /\ Named /\ OneLibrary
  BY <1>1 DEF RegistryInv
<1>3. MaxLibs \in Nat
  BY WatchAssumption
<1>4. task' \in [Task -> TaskType] /\ \A u \in Task : Stands(task[u])'
  BY <1>1, RequestKeepsTasks
<1>5. RegistryType'
  BY <1>1, <1>2, <1>3, <1>4 DEF RegistryType, LibId
<1>6. Named' /\ OneLibrary'
  BY <1>1, <1>2 DEF Named, OneLibrary
<1> QED BY <1>4, <1>5, <1>6

LEMMA UpdateKeeps ==
  ASSUME RegistryInv, NEW l \in LibId, NEW R \in SUBSET Root, UpdateLibrary(l, R)
  PROVE  RegistryInv'
<1> SUFFICES ASSUME ~raced'
             PROVE  RegistryType' /\ Named' /\ OneLibrary' /\ \A u \in Task : Stands(task[u])'
  BY DEF RegistryInv
<1>1. /\ ~raced /\ (\A u \in Task : ~Resolving(u)) /\ task' = task /\ l \in libs
      /\ lastLib' = lastLib /\ libs' = libs
      /\ mounts' = {m \in mounts : m[1] # l} \cup {<<l, r>> : r \in R}
      /\ ~shared' => ~shared /\ \A m \in mounts : ~(m[1] # l /\ m[2] \in R)
  BY DEF UpdateLibrary
<1>2. RegistryType /\ Named /\ OneLibrary
  BY <1>1 DEF RegistryInv
<1>3. task' \in [Task -> TaskType] /\ \A u \in Task : Stands(task[u])'
  BY <1>1, RequestKeepsTasks
<1>4. RegistryType'
  BY <1>1, <1>2, <1>3 DEF RegistryType
<1>5. Named' /\ OneLibrary'
  BY <1>1, <1>2 DEF Named, OneLibrary
<1> QED BY <1>3, <1>4, <1>5

LEMMA DeleteKeeps ==
  ASSUME RegistryInv, NEW l \in LibId, DeleteLibrary(l)
  PROVE  RegistryInv'
<1> SUFFICES ASSUME ~raced'
             PROVE  RegistryType' /\ Named' /\ OneLibrary' /\ \A u \in Task : Stands(task[u])'
  BY DEF RegistryInv
<1>1. /\ ~raced /\ (\A u \in Task : ~Resolving(u)) /\ task' = task
      /\ lastLib' = lastLib /\ libs' = libs \ {l} /\ mounts' = {m \in mounts : m[1] # l}
      /\ shared' = shared
  BY DEF DeleteLibrary
<1>2. RegistryType /\ Named /\ OneLibrary
  BY <1>1 DEF RegistryInv
<1>3. task' \in [Task -> TaskType] /\ \A u \in Task : Stands(task[u])'
  BY <1>1, RequestKeepsTasks
<1>4. RegistryType'
  BY <1>1, <1>2, <1>3 DEF RegistryType
<1>5. Named' /\ OneLibrary'
  BY <1>1, <1>2 DEF Named, OneLibrary
<1> QED BY <1>3, <1>4, <1>5

LEMMA RegistryStep == RegistryInv /\ [Next]_vars => RegistryInv'
<1> SUFFICES ASSUME RegistryInv, [Next]_vars PROVE RegistryInv'
  OBVIOUS
<1>1. CASE WatchRequest
  BY <1>1, RegistryRests DEF WatchRequest, StartBump, StartInstall, StopBump, StopClear, history
<1>2. CASE LibraryRequest
  <2>1. ASSUME NEW a \in Admin, NEW r \in Root, Ask(a, r)
        PROVE  RegistryInv'
    <3>1. PICK how \in {"scan", "enqueue", "create"} :
            Go(a, [at |-> IF how = "scan" THEN "select" ELSE "resolve", root |-> r, lib |-> 0,
                   make |-> how = "create"])
      BY <2>1 DEF Ask
    <3>2. PICK s \in {"resolve", "select"}, make \in BOOLEAN :
            Go(a, [at |-> s, root |-> r, lib |-> 0, make |-> make])
      BY <3>1
    <3>3. UNCHANGED <<registry, raced, shared>> /\ a \in Task
      BY <2>1 DEF Ask, Task
    <3> QED BY <3>2, <3>3, AskKeeps
  <2> QED BY <1>2, <2>1, CreateManyKeeps, UpdateKeeps, DeleteKeeps DEF LibraryRequest
<1>3. CASE \E r \in Root : Change(r)
  BY <1>3, RegistryRests DEF Change
<1>4. ASSUME NEW g \in Gen, EventLoop(g) PROVE RegistryInv'
  <2>1. ASSUME NEW q \in Root, EnqueueNext(g, q) PROVE RegistryInv'
    <3>1. Go(g, [at |-> "resolve", root |-> q, lib |-> 0, make |-> FALSE]) /\ g \in Task
      BY <2>1 DEF EnqueueNext, Go, Task
    <3>2. UNCHANGED <<registry, raced, shared>>
      BY <2>1 DEF EnqueueNext, LoopOnly, history
    <3> QED BY <3>1, <3>2, AskKeeps
  <2> QED BY <1>4, <2>1, RegistryRests
          DEF EventLoop, Receive, Fire, BatchDone, LoopEnds, LoopOnly, history
<1>5. ASSUME NEW t \in Task, TaskStep(t) \/ EnqueueFails(t)
      PROVE  RegistryInv'
  BY <1>5, LookupKeeps, BlindKeeps, InsertLibKeeps, ReadIdKeeps, InsertPathKeeps, CreateTxKeeps, TaskRestsKeeps
     DEF TaskStep
<1>6. CASE UNCHANGED vars
  BY <1>6, RegistryRests DEF vars, history
<1> QED BY <1>1, <1>2, <1>3, <1>4, <1>5, <1>6 DEF Next

(* As long as no library is written while another task is between the
   statements of get_or_create_by_path (library_store.rs), every row of
   library_path names a library, and a directory belongs to one library, unless
   a request gave it to two: a PUT or a POST with several paths, which do not look
   (admin/libraries.rs), or a POST with one path whose query failed. *)
THEOREM RegistrySoundAlways == Spec => []RegistrySound
<1>1. RegistryInv => RegistrySound
  BY DEF RegistryInv, RegistrySound, Named, OneLibrary
<1> QED BY <1>1, RegistryInit, RegistryStep, PTL DEF Spec
=============================================================================
