# TLA+ models of emrs

emrs is a media server with an Emby-compatible API, written in Rust on tokio,
axum and sqlx.  Its own logic is a pipeline over database tables: directories
are scanned into `item` and `media_source` rows, sources are probed, items are
scraped from TMDB, and HTTP requests, a directory watcher and admin jobs read
and change the same tables at the same time.  There are almost no transactions
and few in-memory locks: what keeps the system correct is the order in which
statements run and the status columns the loops agree on.  That is what these
modules model.

Paths below are relative to `src/crates/`.

## 1. The system

| Component | Code | State | Operations | Hard part | Module |
|---|---|---|---|---|---|
| Scan queue, job manager | `emrs-infra/src/stores/scan_job_store.rs`, `run_scan_loop` in `emrs-service/src/importer/pipeline.rs`, `emrs-server/src/routes/admin/jobs.rs`, `emrs-service/src/job.rs` | table `scan_job`; the loop's snapshot of pending rows; the row ids an admin task polls; the map of jobs | enqueue (admin, watcher), claim, start, finish or fail a row, poll, withdraw, cancel | rows are read in one statement and written in another; the process can stop between any two | `ScanJobs` |
| Scrape stage | `importer/stages/scrape.rs`, `stores/item_store.rs` (claim, status, attempts, cascade, start-up reset), `scanner/scrape.rs` | `item.scrape_status`, `item.scrape_attempts`, `item.tmdb_id` | claim, mark, scrape, cascade to children, retry, force reset, manual identification | the outcome of a long network call is written without looking at what changed meanwhile | `ScrapeStage` |
| Scanner, probe stage, deletion detection | `scanner/mod.rs`, `importer/stages/probe.rs`, `detect_deletions` in `pipeline.rs`, `media_store.rs` | the `item` tree, `media_source`, `external_subtitle`, a process-wide `SCAN_MUTEX` | walk, upsert items and sources; probe in chunks; list, stat, delete source, count siblings, delete item | select-then-insert, "newest id" reads, unique indexes, no foreign keys, a restart in the middle | `MediaLifecycle` |
| Library registry, directory watcher | `stores/library_store.rs`, `watcher.rs`, `routes/admin/libraries.rs` | tables `library`, `library_path`; installed watcher, generation, one event loop per session | get or create by path, create, update, delete; start, stop, event, debounce, enqueue | a generation taken before the lock it is checked under; four statements that should be one | `LibraryWatch` |
| Watch state | `stores/user_data_store.rs`, `routes/sessions.rs`, `routes/items/user_data.rs` | `user_item_data` | start, progress, stop, favourite, played | INSERT OR IGNORE then UPDATE, beside deletions and other requests | `UserData` |
| Item queries | `stores/item_store.rs`, `routes/items/list.rs`, `routes/params.rs` | none of their own | resume, next up, sessions, counts, lists and pages | chunks, pages and gaps; several queries that should agree | `ItemQueries` |
| What hangs on items | `stores/taxonomy_store.rs`, `stores/image_store.rs`, `scanner/scrape.rs`, `scanner/mod.rs` (NFO) | `genre`, `studio`, `tag`, `people`, their links, images | upsert by name or id, link, replace cast, replace images, clear, list | three writers, the newest id read after the INSERT | `Catalog` |
| Users and sessions | `auth_store.rs`, `emrs-service/src/auth.rs`, `middleware.rs`, `routes/users.rs`, `routes/admin/login.rs`, `cache/memory.rs` | users, tokens, the token cache, the counter of failed logins | log in, guard every request, revoke, disable, expire | cached verdicts; a counter read and written in two steps | `Access` |
| Playback | `routes/playback.rs`, `routes/items/playback_info.rs`, `emby/dto/media_source.rs`, `emrs-core/src/playback/` | `media_source`, `external_subtitle`, the set of probes under way | list sources and streams, probe in the background, deliver video and subtitles | a URL used later than it was listed, range arithmetic, a late probe | `Playback` |
| Block cache | `block_cache.rs` | files of blocks, per-block locks | read, fetch, write, evict, invalidate | readers, evictions and invalidations on the same files, a crash | `BlockCache` |
| TMDB and HTTP clients | `tmdb.rs`, `http_client.rs` | rate limiter, retries | request, retry | network I/O | inputs only |
| Start-up, settings, web | `main.rs`, `state.rs`, `app.rs`, `db.rs`, `emrs-core/src/config.rs`, `routes/system.rs`, `routes/web.rs`, `settings_store.rs` | configuration | read it, open the pool, migrate, serve | none of its own | not modelled |
| Protocol types | `emby-proto/` | none | serialisation | none | not modelled |

How they interact.  `main.rs` opens the database, starts the pipeline
(`Pipeline::start`: one clean-up task and three loops) and the HTTP server.
The loops never call each other: the scan loop leaves `media_source` rows in
`pending` for the probe loop and `item` rows in `pending` for the scrape loop;
`tokio::sync::Notify` and a poll interval only decide when a loop looks.  Admin
requests insert `scan_job` rows and spawn a task in the job manager that polls
them.  The watcher inserts rows as well.  Deletion detection runs inside the
scan loop.  Requests may delete a library, with everything in it, at any time.
Viewers' requests pass the guard, read the tables the loops fill and write
`user_item_data`; PlaybackInfo starts probes of its own.

## 2. Plan

Order: what several actors share first.

1. *Done*: the scan queue with its libraries, requests and watcher; its abstract
   specification, the refinement, the proofs.
2. *Done*: the status machine of the scrape stage; its abstract specification,
   the refinement, the proofs.
3. *Done*: `MediaLifecycle` (scanner, detection, probe loop, and the writers that
   interfere), `LibraryWatch`, `UserData` with `ItemQueries` and its proofs,
   `Catalog`, `Access` with `Playback` and their proofs, `BlockCache`.
4. *Done*: proofs for every component: the watch and the registry, the block
   cache, the media tables, the lists, the catalogue, deliveries, and the
   refinements of the scan queue and of the scrape stage.
5. *Left*: an abstract disk mirror that `MediaLifecycle` refines between rounds;
   the clock of tickets.

Composition.  `Playback` extends `Access`: every route but the ticket route runs
behind the guard.  `ItemQueries` extends `UserData`: lists are asked while its
requests and deletions run.  `ScanJobs` takes `get_or_create_by_path` as one
step, `LibraryWatch` splits it into its statements and says when that is
allowed (`raced`).  `ScrapeStage` treats the metadata it attaches as one step,
`Catalog` looks inside.  `MediaLifecycle` has of the scrape stage only the two
writes the scan reads.

## 3. The modules

A step is the code between two awaits that touch the database, the disk or the
network: every SQL statement is atomic, and anything can happen between two.
Ids come from AUTOINCREMENT columns and are not reused.  A statement whose error
the code drops, logs or answers may fail where the module's `Faults` is TRUE.
Variables named "history" in the declarations are observers: no action reads
them.

### ScanJobs, ScanQueue, ScanJobsRefinement

State: `libs`, `nextLib`, `paths` are the tables `library` and `library_path`;
`status`, `lib`, `by`, `nextJob` the table `scan_job`; `pc`, `claimed`, `cur`,
`todo`, `hadError` the locals of `run_scan_loop`; `task[t]` an admin request
`start_scan` and, once it has enqueued its rows, its job-manager entry and the
polling future; `watch` the watcher between resolving a library and inserting
its row.  `create()` is two steps, the INSERT and the SELECT of the newest id.
The pending query orders by `created_at`, which is read before the INSERT and so
is not the order of ids: the order in which the loop takes rows is left open.
`Restart` stops the process anywhere and starts it again with the tables as
they are.  The error branch of the spawned future is not modelled, since the
future of a scan always returns `Ok`, and neither is the garbage collection of
ended jobs, which only a test calls.

`ScanQueue` says what the queue promises, without tables or polling: a job
waits, is claimed by the one worker, is active alone, is over for good; a
withdrawal reaches it only while it waits; a restart drops the active job and
returns claimed ones to waiting.  `ScanJobsRefinement` maps a row to its phase.
The mapping makes a row that stays in `running` after a restart "over": the
queue does not promise more.

### ScrapeStage, ScrapeLifecycle, ScrapeStageRefinement

State: `status`, `attempts`, `tmdb` are the columns `scrape_status`,
`scrape_attempts` and `tmdb_id` of the movies and series in `item`; `kids` the
statuses found among the seasons, and among the episodes, of a series; `links`
the TMDB entries whose metadata are attached.  `pc`, `queue`, `snap`, `cur`,
`answer`, `outcome` are the locals of `run_pending` and of the `Scanner` methods
it calls; `snap` is what the batch query read, which the code goes on using
until the row is done.  `job` is the task of a force reset, `clearing` an
identification that still has to delete the old metadata, `sweepOwed` the
start-up task that runs next to the loops.

| Actions | Code |
|---|---|
| `Claim`, `Mark` | `claim_pending_scrape`, `mark_scraping` and the choice of a path in `run_pending` |
| `Check`, `Fetch`, `Apply`, `Link`, `Derive` | `scrape_movie`, `scrape_tv` and their `_by_tmdb` forms, `apply_movie`, `apply_tv`, `generate_virtual_entries` |
| `SettleSkipped`, `SettleNotFound`, `SettleFailed`, `CascadeSeasons`, `CascadeEpisodes` | the `match outcome` of `run_pending`, `cascade_scrape_status` |
| `Arrive`, `NewChild`, `ReadNfo`, `Delete` | `upsert_item`, `update_item_meta` of the scan; library deletion and deletion detection |
| `Identify`, `ClearMetadata`, `ForceReset`, `JobPoll`, `JobCancel` | the admin requests |
| `Sweep`, `Restart` | `reset_stale_scraping`; the process stops |

An id is the empty one, a text that parses as a positive number (`Tmdb`), or
another text (`Junk`): `run_pending` and `has_tmdb_id` disagree about the last
kind.  The unique indexes on `tmdb_id` are kept (`Taken`): a statement that would
break them fails, and the code takes that for a failed call.  A TMDB key is
configured, for without one the loop does nothing.  Identification with an empty
text is not modelled.  The distribution query of a force reset may fail and then
counts as an empty range (`jobs.rs:228`).

`ScrapeLifecycle` is the state machine in the header of `stages/scrape.rs`, with
the tries that are left made explicit and with the two ways back to pending that
cost none: somebody named the entry while the item was taken, or the process
stopped (`owed`, the start-up sweep).  `ScrapeStageRefinement` maps a row to it:
the row in the consumer's hands counts as taken even when the sweep has written
pending over it.

### MediaLifecycle

State: `item`, `src`, `subs` are the tables `item`, `media_source` and
`external_subtitle` (`lastItem`, `lastSrc`, `lastLib` their AUTOINCREMENTs), `disk`
the files, `lib` the library of the watched directory; `loop` the locals of the
scan loop through `scan_path`, `scan_dir`, the `process_*` and `upsert_*`
functions and `detect_deletions`; `probe` the batch and the chunk of the probe
loop; `virt` the locals of `generate_virtual_entries`, which reads the series once and
never looks again whether it is there.  A directory has one library at a time, and a
new one after each deletion: a scan request, the watcher or the scan itself makes it.

| Actions | Code |
|---|---|
| `ScanStart`, `ListDir`, `PickFile`, `Descend`, `FindByPath`, `Lookup`, `InsertItem`, `ReadBack` | `scan_path`, `scan_dir`, `find_movie_item_by_path`, `upsert_item`, `upsert_series_item` |
| `FindSource`, `DropSubs`, `DropSources`, `InsertSource`, `Attach` | `upsert_media_source`, `attach_subtitles_by_stem` |
| `DetectList`, `Stat`, `ItemOf`, `DelSubs`, `DelSource`, `Count`, `DelItem`, `DetectEnd` | `detect_deletions`, `delete_source`, `count_other_sources`, `delete_item` |
| `ProbeList`, `ProbeChunk`, `ProbeDone` | `run_probe_loop`, `probe_pending`, `probe_media_source` |
| `FileFails`, `DetectFails`, `Restart` | a failing statement at each place the code handles it; the process stops |
| `VirtBegin`, `VirtFind`, `VirtLib`, `VirtInsert`, `VirtEnd` | `generate_virtual_entries`: the series is read, TMDB asked, then per season a SELECT, the library of the series, an INSERT |
| `Claim`, `Request`, `MakeLibrary`, `DeleteLibrary` | a row goes to running; a scan is asked for, with the library or with one it makes; `DELETE /admin/libraries/{id}` |
| `Retitle`, `DiskChanges` | the scrape stage gives a movie its title; files come and go |

What a file name or an NFO file says is an input: `Chain` gives the items a file
stands for. A file whose title is one TMDB gave to another film comes to that film's
item (`MayTakeOver`); in the instances titles of TMDB are apart from those of file
names, the theorems do not ask for it. A file may be a local video, a `.strm` with a
URL, or a `.strm` that names a local file; the three are stat-ed, probed and matched
differently. The LIMIT of the probe loop's query and a failing UPDATE of a probe are
left out: the batch is all that is pending.

### LibraryWatch

State: `generation`, `installed` and `session[g]` are the fields of
`LibraryWatcher` and, per generation, its watcher, channel and event loop with the
locals of the debounce; `call` the watch requests between taking a generation and
getting the lock; `libs` and `mounts` the tables; `task` whoever is inside
`get_or_create_by_path`, `create` or an update, statement by statement.
`StartBump`/`StartInstall` and `StopBump`/`StopClear` split `start` and `stop` at
the await of the lock, with the walk over the directories before it; `Receive`,
`Fire`, `EnqueueNext`, `BatchDone`, `LoopEnds` are the event loop; `Resolve`,
`ResolveBlind` to `CreateTx` and `Enqueued` the registry (`ResolveBlind` is
`create_library` whose dedupe query failed: it goes on and inserts).

### UserData and ItemQueries

`uid` is the user's rows of `user_item_data`, `items` the ids in `item`, `req[s]` a
request between its statements: it looks for the item, inserts a row unless there
is one, updates it.  `doomed` are items whose rows a deletion has removed and
whose `item` row it has not.  `told`, `overlapped` and `lost` are history.  The
rows of one user are modelled: no statement touches two users' rows.

`ItemQueries` has each list as an operator of the state, translated from its SQL
and the loops around it: Resume with its chunks of series and page of films,
NextUp, active sessions, counts, favourites, browsing by library, parent, type
and genre with paging.  It adds no action: the statements of one list are taken
at one moment, and the lists are compared when no request is under way, since
they are only meant to agree then.  An order is a function `before` from an entry to
those that come before it (`Sorted`), and what a list is to contain is said
without chunks, pages and sorting (`Wanted`).

### Catalog

`rows[t]` are the tables `genre`, `studio`, `tag`, `people`, from which nothing is
ever deleted; `links` the link tables, `images` the table `item_image` with the
portraits of people.  Three workers, the scrape consumer, the scan loop and an
admin's identification, each carry out an agenda of operations (clear, link,
replace the cast, replace backdrops, set a primary image, delete an item), and
each operation is its statements.  A statement that fails is dropped and the agenda
goes on (`StatementFails`): a SELECT that fails finds nothing, of an INSERT that fails
the newest row is taken, a link or a backdrop is missing, an old one stays.  Two
errors are not dropped: of the UPDATE of the item, which ends the task, and of an
episode, which passes over what is left of it (`EpisodeFails`).  `astray`, `latest`,
`applied` are history: `astray` are the links whose own SELECT or INSERT failed or was
crossed, `latest` forgets a replacement of which a statement failed.

### Access and Playback

`tokens`, `disabled` are the tables, `seen` and `fails` the entries of the memory
cache, `req[s]` a request at the await it stands at: inside a login, inside the
guard, inside its handler or answered.  `Playback` adds `media` and `subs`, the
probes under way (`probing` is `STRM_PROBING`, `running` the tasks), and what each
handler holds.  Beside them run `Revoke`, `Disable`, `Lapse`, `Forget` (entries of
the cache that end), `GiveUp` (a request's time-out), `Stop` (the process) and the
scan's replacement of a source and attachment of subtitles.  A replacement, and a
deletion by `detect_deletions`, takes the subtitles first and the source in a second
statement; a stop or a failing statement between the two leaves the source without
subtitles, and the next scan attaches the files again in the order of the
directory.  The TTLs of the
cache are "at any time".  `listed`, `stale`, `misses`, `mixed` are history.

### BlockCache

`blocks`, `order`, `parts` are the `.bin` files with their mtimes and the `.tmp`
files; `locks` the per-block write locks; `read[r]` a call of `read_range` between
its awaits; `wiping` an invalidation among the files it removes, which may begin at
any time.  Listing the directory, removing a file and renaming one into place may
fail; `left` and `spared` (history) count the files that a killed reader, or one
whose removals failed, did not evict.  Bytes carry the
version of the source they came from.  The server builds the cache at start-up
and hands it to no reader yet, so the readers modelled are those of its tests.

### Proof modules

One per component: `ScanJobsProofs` and `ScrapeStageProofs` (which extend the
refinements), `MediaLifecycleProofs`, `LibraryWatchProofs`, `UserDataProofs`,
`CatalogProofs`, `PlaybackProofs` (with `Access`), `BlockCacheProofs`: section 6.

What the assumptions on the constants say of the code: ids of AUTOINCREMENT columns
and of TMDB are positive; a file stands for a movie, or for a series, a season and an
episode (`Chain`); TMDB entries and NFO files have the shapes of `tmdb.rs` and
`nfo.rs`; sets of readers, users and items are finite; lengths, limits and bounds are
natural numbers, limits that the code has as non-zero constants are not 0.

## 4. What the runs check

Every run instantiates its module through the `MC` module of the same name.
Interchangeable requests, readers and directories use symmetry in safety runs.

| Run | Instance | Shows |
|---|---|---|
| `scan_jobs` | 1 directory and library, 2 tasks, 3 rows, batches of 2, 1 deletion, 1 restart | types; a claimed row does not read as started (`ClaimedNotRun`); a running row is the one the loop works on (`RunningIsWorked`); an ended task leaves no pending row (`EndedTaskLeavesNoPending`); the code implements `ScanQueue` (`RefinesQueue`) |
| `scan_jobs_live` | 2 directories, 1 task, 2 rows, failures, 1 deletion, 1 restart | pending rows are consumed (`PendingConsumed`), the polling task ends unless it polls a row stuck in running (`TaskEnds`) |
| `scrape` | a movie and a series, limit 2, 1 request, 1 restart, failing calls; children come before their series is taken (`LateChildren = FALSE`) | types; a waiting item has a try left (`WaitingHasTriesLeft`); no row stays in scraping (`ScrapingIsInFlight`); the children of a settled series are settled (`ChildrenFollow`); only pending rows are taken (`OnlyPendingMarked`); the stage implements `ScrapeLifecycle` up to the first request (`RefinesUndisturbed`) |
| `scrape_live` | 2 movies, limit 1, 1 request, 1 restart, failures | every item is settled (`Settles`), every force job ends (`ForceJobEnds`) |
| `media_scan` | a movie and an episode, 1 change of the disk, a virtual season, a retitled movie, the library deleted and made again | after an undisturbed round the tables mirror the disk (`Mirrors`) and nothing is left over (`NothingLeftOver`); at every moment no row dangles (`Intact`), an item has one source and a file one row (`OneSource`); the source of a file that stays is not deleted (`LiveSourceStays`) |
| `media_live` | a movie and a `.strm` of its stem, 1 change, 1 restart, failing statements, the library deleted and made again | a file that stays ends up with a probed source, the source of one that stays away goes (`Converges`) |
| `watch` | 2 watch requests that may overlap, 2 nested directories, 1 library request, 1 change, failing statements | "running" is true (`StatusIsTrue`), the registry is sound (`RegistrySound`), a change is enqueued (`ChangeIsEnqueued`), each as far as the code keeps it |
| `watch_deaf` | 2 overlapping starts | a difference with the documentation (section 5) |
| `viewing` | 2 series (specials, a gap of seasons, an episode of unknown length) and a film, 2 requests at a time, a deletion, failures, pages of 2 | a row is its history (`RowIsHistory`), played is earned (`PlayedIsEarned`), Resume, NextUp, sessions, counts and pages are what they should be and agree (`ResumeIsExact`, `NextUpAgrees`, `SessionsAgree`, `CountsAgree`, `EverythingReached`) |
| `catalog` | a film with an NFO file, a series taken for two entries, 3 tasks or failing statements, failing calls, a stop | nothing foreign is linked where no SELECT or INSERT of the link failed or was crossed (`NothingForeign`), what is replaced without a failing statement is replaced whole (`LatestIsExact`), the pages agree with the items (`PagesAgree`) |
| `requests` | a user and an admin, 2 requests at a time, 3 in all, limit 2, 2 changes, 4 requests and changes together; a remote film with subtitles and a local one of 3 bytes | no handler runs for a bad token (`GrantIsValid`), failures are counted (`FailuresCounted`), what is delivered is what was listed and asked for (`DeliveredExactly`), found streams stay (`InfoIsKept`) |
| `blocks` | 2 readers, 3 reads, blocks of 2 bytes, room for 1, 1 change, 1 crash, failing fetches, writes and removals | a range is exact (`ReadIsExact`), the files stay within the limit but for those whose eviction is to come, was cut off or failed (`SizeBounded`) |

Why the bounds are enough for the cases that matter. *Scan queue*: three rows and a
batch of two make a row wait in the snapshot while another runs and one stay outside
it; two tasks interleave the two statements of `create()`; two directories make a job
fail after, or before, it was reported done; a restart and a deletion fall anywhere.
*Scrape stage*: one item is in the batch while the other is scraped, two compete for
one entry, a limit of two has a failure that is not the last, and one request falls
between any two steps of the consumer. *Media*: the episode needs three levels of
upserts, and the virtual season of the scrape stage falls between an INSERT and the
read of the newest id; four items are the movie and the three levels; with two library
rows the first is deleted at any moment, also under a scan or a virtual season, and
the second is scanned to the end. `media_scan` has no failing statements (`Faults =
FALSE`): with them its properties are theorems (section 6), and `media_live` walks
through them. Its two files never come to the same item: that a file takes over
another's is in the theorems (section 6), which hold for all chains and titles.
*Watch*: two generations overlap in every order, and the directory below another makes
two roots match one event; one library request is enough to race with a resolving
task. *Viewing*: two requests overlap in the same row; the state before them may hold
an earlier start (`UsedBefore`), so that lists have more than one entry; pages of one
and two with every offset cross the chunk boundary. *Catalog*: two tasks overlap and a
third comes after, or a statement of one of them fails; one person appears in two
entries and two people share a name. *Requests*: one request lists while another
replaces, probes or logs in, the third uses what was listed; two changes are a
replacement that is cut off and the scan after it, or a token revoked while a cache
entry ends; a limit of two has a failure below it. *Blocks*: two readers of two blocks
with room for one evict each other's blocks; the lengths three and four end inside a
block and at its edge; one range crosses the boundary of two blocks, the other skips
the first and has no end.

Fairness.  In `ScanJobs` and `ScrapeStage` weak fairness of the loop and of
each spawned task, in the form "a step that does not fail": tokio polls a task
whose timer or I/O is ready, the loop wakes by its poll interval even if every
notification is lost, and statements do not fail for ever.  That a call to TMDB
returns is justified by the 15 s time-out of the HTTP client
(`http_client.rs`), that a probe returns by its own time-out.  `MediaLifecycle`
has it for the scan loop, the detection, the probe loop and a generation of
virtual seasons that has been begun; `LibraryWatch` for the event loops, the tasks
between statements and the two requests that wait for the lock.  Requests,
events, changes of the disk, failures, deletions and restarts get none.

## 5. Where the code and its documentation differ

A run of its own (`findings` in `PROJECT.json`):

* `RunningIsListening` (`watch_deaf`).  `start()` takes its generation before the
  lock, so of two overlapping starts the older may be installed last: its loop
  ends at once, the newer one's channel is closed, and `status()` says running
  while nobody listens (`watcher.rs:73,109`).

Operators of the modules that state what a comment says and that the model
refutes; no run of their own:

* `CanceledIsFinal`: a withdrawn row that the loop had already taken in its
  snapshot is scanned, and ends `done` or `failed` (`scan_job_store.rs:4`).
* `CreateReturnsOwnId`: with two inserters, `create()` returns the other's row.
* `RestartLosesNoJob`: a row that was `running` when the process stopped stays
  `running`.
* `IdentificationHolds`: an identification that arrives while the item is being
  searched is overwritten by the result of the search.
* `ScrapedHasMetadata`: the deletions of an identification can come after the
  new metadata and remove it (`libraries.rs:690`).
* `StrmIsNotChecked` (`pipeline.rs:256`): a `.strm` that names a local file stores
  that text as its path and is found missing.
* `RescanResetsFailed` (`stages/probe.rs:3`, `scanner/mod.rs:231`): the upsert keeps
  the row of a file it knows as it is, so `failed` stays.
* `GetOrCreateIsAtomic` (`library_store.rs:52,59`): two callers make two libraries
  of one directory.

Other differences, visible in the models:

* A scan row is `done` after its first directory and may be `failed` after the
  last one (`WalkOk`, `WalkErr`), while `scan_job_store.rs:4` draws `done` as an end.
* The scan loop scans a directory whose library was deleted after its
  directories were read, and makes a library for it (`ScanEnter`;
  `scanner/mod.rs:174`); `jobs.rs:47` says that a scan never does.
* An item whose attempts were reset while it was being scraped may end in
  `failed` after one attempt: the limit is compared with the attempts of the
  batch query (`ReachedLimit`).
* Of two copies of one film the second violates a unique index each time it is
  scraped and ends in `failed` with the network up; `stages/scrape.rs:10` has
  `failed` for network and API errors only.
* An item whose `tmdb_id` is no number is skipped, set back to pending without an
  attempt counted, and taken again for ever; `stages/scrape.rs:115` says that
  this does not occur.  `Settles` is therefore checked with numbers only.
* When the process stops between scraping a series and the cascade, its seasons
  and episodes stay pending.  `ChildrenFollow` is therefore about runs without
  restarts.
* Every scan writes the id of the NFO file over the one the item has (`ReadNfo`),
  against the comment at `scanner/mod.rs:1021`.
* `upsert_item` and `upsert_named` answer the newest id of the table, not that of
  the row they inserted (`scanner/mod.rs:928,1015`, `taxonomy_store.rs:54`): a file
  can get the row of a virtual season, a link the row of another name.
  `SCAN_MUTEX` keeps scans apart, not scan and scrape.  `hist.mixed` and `astray`
  mark the executions where it happened, and the properties hold in the others.
* On an error `upsert_named` and `upsert_people` are said to answer 0, which the
  caller skips (`taxonomy_store.rs:15`, `scanner/scrape.rs:1080`).  They answer 0 only
  when the last SELECT fails: of a failed INSERT, or of a SELECT that fails although
  the row is there (its INSERT then conflicts), they answer the newest id, and the
  item is linked to somebody else (`UpsertFails`; `astray` marks these links too).
* `count_other_sources` answers 0 when its query fails, and the item is deleted
  with its other sources left behind; its comment says that 0 "conservatively"
  skips the deletion (`media_store.rs:229`).
* Virtual episodes are never inserted: the INSERT of `create_virtual_episode`
  leaves out `library_id`, which is mandatory, and drops the error
  (`scanner/scrape.rs:850`).
* A token found in the cache is said to be answered from it
  (`middleware.rs:261`); it is verified against the table all the same, which is
  why `GrantIsValid` holds.
* PlaybackInfo is said to probe once, and never again once streams are there
  (`playback_info.rs:21,98`): a request that listed the source before starts a
  second probe, and if that one fails it empties the streams (`stale`).
* Tickets are said to outlast the film (`emrs-core/src/playback/mod.rs:21`): only
  a film of known length.
* `list_similar` says it orders by likeness (`item_store.rs:2107`) and ends in an
  order by title; `child_counts_batch` (`item_store.rs:1580`) leaves the `ChildCount`
  of a series without episodes unset; the anchor of Resume and NextUp, the episode
  played last, is found by `updated_at`, which favourites move as well
  (`item_store.rs:661`); `TotalRecordCount` is the size of the page
  (`list.rs:393`); booleans and numbers that cannot be read answer 400 instead of
  being ignored (`params.rs:17-125`).

Behaviour no document excludes but a reader should know: an unmounted directory
deletes everything under it at the next detection; a crash between the deletion of a
source and of its item leaves the item for good (`torn`); a library deleted in the
middle of a scan leaves rows of no library (`ghost`); an episode whose season the
scrape stage inserted between the SELECT and the INSERT waits for the next scan; a
library deleted while TMDB is asked for the seasons of one of its series gets virtual
seasons of no series (`ghost` as well), and a failing query for the library gives a
virtual season library 0 (`mixed`); a POST of a library whose query for the directory
fails makes a second one of it (`ResolveBlind`, `shared`); a replacement of cast or
backdrops of which a statement fails stays mixed until the next; a source whose
replacement or deletion was cut off after its subtitles has them attached again in the
order of the directory, so a URL listed before may give another file (`cut`); a block
whose removal fails stays over the limit, and, if it was an invalidation, may be
served although the source has changed (`unsure`); the limiter reads a counter and
writes it back, so overlapping logins count once (`mixed`), and an admin's login has
no limiter; nobody writes "revoked", no route disables a user; a deleted subtitle file
keeps its row and answers 404, and `Movie 2.srt` is attached to `Movie`; a late
Progress after a Stopped takes the played mark back; marking a series as played leaves
its episodes; an invalidation takes no lock, so a fetch under way may put an old block
back (why `ReadIsExact` asks for an invalidation with no read under way); links
written for an item deleted meanwhile stay and are never shown; empty credits from
TMDB keep the old cast; two names equal but for their ids tie in the order of a page.

## 6. What is proved

`ScanJobsProofs`, from `BoundsAssumption` (bounds are natural numbers, `Faults` a
Boolean), for any number of directories, requests, rows, deletions and restarts:

* `TypeCorrect`: `Spec => []TypeOK`;
* `NoStartedRowClaimed`: `Spec => []ClaimedNotRun`;
* `LifecycleCorrect`: `Spec => RowLifecycle`;
* `NoPendingLeft`: `Spec => []EndedTaskLeavesNoPending`;
* `NoRowLeftRunning`: `Spec => []RunningIsWorked`;
* `ImplementsQueue`: with `Faults = FALSE`, `Spec => RefinesQueue`.

The inductive invariant is `TypeOK /\ QueueInv /\ TaskInv /\ RunInv`.
`ClaimedNotRun` alone is not inductive: a row that does not exist yet could be
in the snapshot (`RowsNamed`, `NewRowsAbsent`), and the row being worked could
have failed already (`CurNotFailed`), in which case reporting it done would leave
the life cycle.  `EndedTaskLeavesNoPending` needs that a task tracks only ids
already given out (`TrackedInserted`) and that it holds from the moment the poll
loop is left (`LeftPollNoPending`).  `RunningIsWorked` needs that the loop cannot
reach the end of a running row with nothing scanned, which rests on the libraries:
each mounts a directory, and every library named by a row, a request or the
watcher exists (`Mounted`), as long as nothing is deleted.  The proof first shows
that every step is one of eight kinds of change to the rows and the loop's hands
(`QueueStep`) and one kind of change to each request (`TrackStep`), and then works
with those.  The refinement needs that the row worked on is no longer pending
(`CurStarted`), which is why it is stated without failing statements: a failed
`update_status` leaves the row waiting in the table while the loop scans it.

`ScrapeStageProofs`, from `ScrapeAssumption` (the sets of names are disjoint,
limits are natural numbers, the retry limit is not 0), for any number of items,
ids, requests and restarts and any limit:

* `TypeCorrect`: `Spec => []TypeOK`;
* `TriesRemain`: `Spec => []WaitingHasTriesLeft`;
* `NoRowStuck`: `Spec => []ScrapingIsInFlight`;
* `MarksPending`: `Spec => OnlyPendingMarked`.

None of these four is inductive alone, not even `TypeOK`, since attempts are compared as the
batch query read them and incremented as the row has them now.  `SnapBounds`
closes the gap: while a row is in the batch or in flight its attempts are at
most those the query read, because only the consumer raises them and everyone
else sets them to 0.  `BatchUntouched` says that nobody but the consumer moves
a row of the batch away from pending (except to delete it), which is what the
missing guard of `mark_scraping` relies on.  `Hands` and `Ready` say where the
consumer stands.  `RowMoves` reduces a step to one of seven kinds of change to
a row, `HandMoves` to one of six kinds of change to the consumer's locals, and
the invariants are shown from those.

* `ChildrenAreSettled`: `Spec => []ChildrenFollow`;
* `ImplementsUndisturbed`: `Spec => RefinesUndisturbed`;
* `ImplementsLifecycle`: with `MaxRequests = 0` and `Faults = FALSE`,
  `Spec => RefinesLifecycle`.

`ChildrenFollow` needs to know what a half-finished cascade has written
(`Following`): the seasons, when the episodes are still to come, and that a series
in the consumer's hands is not settled meanwhile.  The refinements add one part
to the invariant, `UndisturbedInv`: without requests and failures, a row of the
batch is still as the batch query read it (or has been deleted, or was named by a
scan), so the limit `ReachedLimit` compares with is the row's own, and a skipped
row does have an id.  Every action is then shown to move the phases (`ItemPhase`)
of one item, of none, or of those a sweep or a stop puts back (`SamePhases`),
which are the actions of `ScrapeLifecycle`.  `ImplementsUndisturbed` has no
hypothesis: it says so much of every execution up to its first request or
failure.

`LibraryWatchProofs`, from `WatchAssumption`, for any directories, starts,
requests, libraries and changes:

* `StatusIsTrueAlways`: `Spec => []StatusIsTrue`;
* `RegistrySoundAlways`: `Spec => []RegistrySound`.

While no two watch requests overlapped, one at most is under way, it has the
newest generation, and the channels that are open are those of the installed
watcher and of that request (`OneAtATime`, `Opened`); the loop of an open channel is
alive (`Listening`).  For the registry every task has a claim on what it read
(`Stands`): what it is about to insert is not there yet, as long as nobody wrote
in between (`raced`).  That a directory has one library needs more: nobody mounted it
without looking, by a PUT, a POST of several paths or a POST whose query failed
(`shared`).

`UserDataProofs`, from `UserDataAssumption` and, for the lists,
`ShelfAssumption` (the shelf is finite; episodes stand in seasons in series of
the same library, siblings have numbers of their own, as the unique indexes of
`0003_item.up.sql` demand; only what has a file is played or deleted), for any
shelf of items, number of requests at a time, deletions and failures:

* `TypeCorrect`: `Spec => []TypeOK`;
* `HistoryKept`: `Spec => []RowIsHistory` (of items that no deletion and no failed statement has touched);
* `PlayedEarned`: `Spec => PlayedIsEarned`.

The invariant counts: what was asked for is what the row has plus the starts that
are under way (`Counted`), past its INSERT a request has its row unless a deletion
took it (`Inserted`), a request that does not overlap is alone with its item
(`Alone`) and about to write what was promised (`Pending`, `Kept`).

* `ResumeIsExactAlways`: `Spec => []ResumeIsExact`;
* `NextUpAgreesAlways`: `Spec => []NextUpAgrees`;
* `SessionsAgreeAlways`: `Spec => []SessionsAgree`;
* `CountsAgreeAlways`: `Spec => []CountsAgree`;
* `EverythingReachedAlways`: `Spec => []EverythingReached`.

What the lists need of the state is `QInv`: no two rows, and no row and a request
about another item, carry the same `updated_at` (`Stamps`), so that the orders by
use have no ties although rows are stamped with the time their request came; and
what is on the shelf stands in what is on the shelf (`Shelved`).  The rest is about
lists.  A strict order numbers a finite set from 0 on (`EveryRank`), hence a list
holds every member once, in order (`SortedList`, `TimeList`).  A part of a set
has the same first entries if as many of the part are newer than whatever was
left out (`TopIsExact`, `TopPage`).  That is so for the chunks of series, because
the seed of a series is as recent as the series in the order (`SeriesOrder`,
`FrontierIsTop`), for a page of films (`FilmsAreTop`), and so for both together
(`ResumeIs`).  A series shows one seed or none, the one `Wanted` names
(`RepsIs`, `WantedOfIs`), since its episodes stand in a row (`InARow`); a list
without the entries of a part is the list of the rest (`PartOfList`); badges add up
because numbering the parts of a set numbers the set (`SumOfParts`).

`PlaybackProofs`, from `AccessAssumption` and `PlaybackAssumption`, for any number
of users, tokens, addresses, requests at a time, sources and subtitles, and any
login limit:

* `NoStaleGrant`: `Spec => []GrantIsValid`;
* `NoFailureLost`: `Spec => []FailuresCounted`;
* `DeliveredAlways`: `Spec => []DeliveredExactly`;
* `StreamsKept`: `Spec => InfoIsKept`.

`GrantIsValid` holds although the cache may say anything: a guard that still looks
for a token was told the truth about it when the request came or the token is
worse by now (`Granted`), and tokens never get better (`TokensMove`).
`FailuresCounted` rests on one login at a time, let in below the limit, holding
the count as it is (`OneByOne`).  `InfoIsKept` rests on `STRM_PROBING`: one probe of
a source at a time, and one under way beside streams already found is stale
(`Probed`).

`DeliveredExactly` rests on the shelf: a source keeps its file and its
subtitles their paths for as long as they are there, and ids are not reused
(`Shelved`); what was listed stands as long as its rows do, or they are about to go
together (`ListedStands`), and a request carries the row it read (`Carrying`).  A source
at which the scan left off between deleting the subtitles and the source (`cut`) is
exempted: the next scan attaches its files in another order.  The bytes of a range follow from
arithmetic on `ParseRange`.

`MediaLifecycleProofs`, from `MediaAssumption`, for any files, chains of items,
libraries one after the other, changes of the disk, crashes, failures and restarts:

* `IntactAlways`: `Spec => []Intact`;
* `OneSourceAlways`: `Spec => []OneSource`;
* `NothingLeftOverAlways`: `Spec => []NothingLeftOver`;
* `MirrorsAlways`: `Spec => []Mirrors`;
* `LiveSourceStaysAlways`: `Spec => LiveSourceStays`.

Under the types (`Typed`) there are three layers.  `OneInv`: an item has one source,
and the walk that is about to insert one has made room.  `CleanInv`: unless a ghost
or a mixed-up row came in, items have their parents and their kind (`ItemsOK`), a
file's source is on an item of the file's own chain (`SourcesOK`), and the walk, the
detection and the generation of virtual seasons stand where their locals say
(`WalkAt`, `DetectAt`, `VirtOK`).  The last is why a library deleted under a generation
marks a ghost: `virt.series` is a series for as long as nobody deletes it, and the code
does not look again.  `WholeInv`: a leaf without a source is the one the walk or the
detection has in hand.

`Mirrors` and `LiveSourceStays` may not lean on `CleanInv`, since they hold whatever a
scan that outlived its library left behind, so they have two layers of their own.
`NearInv`: ids are not reused and rows never change their parent, so the chain of a
source is known as far up as its items are still there (`Near`), and rows of one
chain are of one library (`OfOneLib`).  `RoundInv` follows a round that nobody has
disturbed.  Every file the walk has been at is claimed (`Claimed`): the source of
this file or of one that comes to the same item stands on items that are all there
(`Sits`), or such a file is about to get it.  When a source makes room, its claims
pass to the file that takes over, for whoever may take over from that file
may take over from those it stood for (`TakeOverChains`).  Detection deletes no claim: a claiming
file is on the disk, and no item it stacks for deletion is on the line from a
standing source's item up to its root (`LineOf`).  And each local source without its file is
still to be found (`Missing`), so at the end of the round there is none.

`CatalogProofs`, from `CatalogAssumption`, for any library, entries, NFO files, tasks,
failing calls, failing statements and stops:

* `TypeCorrect`: `Spec => []Typed`;
* `NothingForeignAlways`: `Spec => []NothingForeign`;
* `PagesAgreeAlways`: `Spec => []PagesAgree`;
* `LatestIsExactAlways`: `Spec => []LatestIsExact`.

The invariant `CInv` says of every operation still on an agenda that it writes
what the entry or the NFO file lists for its item (`AgendaOK`), of a worker inside
an operation that the row it found or inserted is the one it wants, or that this
was marked (`SpotOK`), and of the tables that rows carry the name TMDB gives their
id (`RowsOK`), links lead to listed rows (`LinkOK`), biographies and portraits are
their owner's (`PeopleOK`, `PortraitOK`).  Every step only adds rows, entries and
marks and leaves ids, and the place of a picture, as they are (`Grows`), which
is why what others hold stays true.  That agendas built with `FlattenSeq` and
ordered by `Ranked` hold the elements they should is proved from the least
counterexample (`Flattened`, `EveryRank`).

`LatestIsExact` compares what an item shows with a list of which a task that is
under way has written only a part, so `LInv` says where every replacement stands:
the first d elements of the list are shown, in order, and the operations for the
others head the agenda of the scraper, in order (`PicsPart`, `CastPart`); a task
that goes on to other work has none left, and d is the length of the list.
Three facts about agendas carry this (`Lists`).  Guests come first, all of one
episode, and pictures last, so nothing gets between two elements of a replacement
(`Ordered`, kept by `OrderKept`); the one backdrop a search result brings goes only
to an item whose backdrops are not known to be an entry's (`Fallback`); and only the
scraper works from entries (`EntryOK`), which is why a cast or a set of pictures is
never replaced by two at once.  Rows of images are added in the order of their
ids, so the rank of a row is its place in the list; a guest listed twice keeps the
place it was linked at first, which is the one the list gives it.

`BlockCacheProofs`, from `BlockCacheAssumption`, for any keys, readers, sizes of
blocks, limits, changes and crashes:

* `TypeCorrect`: `Spec => []TypeOK`;
* `SizeBoundedAlways`: `Spec => []SizeBounded`;
* `ReadIsExactAlways`: `Spec => []ReadIsExact`.

`SizeInv` counts: the files are at most the limit, one for each reader that has
written and not yet evicted, and those that readers left whose eviction crashed or
failed (`left`); a reader that has listed all of these and removes all it finds
(`Evicts`) leaves no more than the limit and those that others still have to evict
(`Owed`).
`ExactInv` follows a range through its blocks: who holds a lock (`LockInv`), that the
files of a key that is sure are of its version, and so are those an invalidation
has not kept by a failure (`CacheInv`, `CurrentBlock`), what a reader holds
(`Held`), has copied (`Part`) and goes on to (`Going`).

Only model-checked is liveness (`PendingConsumed`, `TaskEnds`, `Settles`,
`ForceJobEnds`, `Converges`, `ChangeIsEnqueued`): the prover does not reason about
fairness.

## 7. Not modelled

* TMDB and HTTP clients: network I/O with fixed limits; what a call answers, or
  that it fails, is an input of `ScrapeStage` and `Catalog`.
* Start-up, settings, web: wiring and configuration.
* Protocol types and the JSON of items: formatting without state.
* Parsing of file names, NFO files and ffprobe output: inputs of `MediaLifecycle`,
  `Catalog` and `Playback`.
* Texts of metadata, free-text search, sort orders of lists, tags, codecs, chapters.
* Password hashing, `auth_login_event`, the master key, the cloud drivers (the
  one there is answers a direct URL with itself, so its cache shows nothing), the
  clock of tickets, Redis and the two-tier facade (filled at start-up, read by
  nobody), the cutting of a response to its length, which the HTTP layer does.
* Several sources of one item: the scan never makes them.
* In `BlockCache` equal mtimes and a future dropped between two awaits; `.tmp`
  files after a failed write stay, as in the code, and the map of locks, which
  never shrinks, is left out.
