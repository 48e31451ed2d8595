---------------------------- MODULE ScrapeStage ----------------------------
(***************************************************************************)
(* Metadata scraping: item.scrape_status, the single consumer that takes    *)
(* pending movies and series to TMDB, the scan that inserts items and reads *)
(* their NFO files, the admin requests that send items back to pending      *)
(* (force reset, manual identification), and the start-up sweep.            *)
(*                                                                          *)
(* A step is the code between two awaits.  A call to TMDB is a step of its  *)
(* own whose answer is left open: it takes long, and everything else may    *)
(* happen before the answer is written.  Seasons and episodes are kept only *)
(* as the set of statuses their rows hold.                                  *)
(***************************************************************************)
EXTENDS Integers, FiniteSets

CONSTANTS
  Movie, Series, \* item rows, by type
  Tmdb,          \* texts of tmdb_id that parse as a positive number
  Junk,          \* other non-empty texts (tmdb_id is a TEXT column)
  NoId,          \* tmdb_id NULL or empty
  NoItem,        \* the consumer holds no item
  NfoId, AskId,  \* the texts that NFO files, and identifications, contain
  Range,         \* the items a force reset may cover: those of a library, or all
  MaxAttempts,   \* retry_max_attempts (a configured 0 acts as 1)
  BatchLimit,    \* LIMIT of the pending query
  MaxRequests,   \* bound: force resets and identifications
  MaxCrashes,    \* bound: process restarts
  Network,       \* TRUE when calls to TMDB may fail
  Faults,        \* TRUE when a statement whose error is dropped may fail
  LateChildren   \* FALSE: children are inserted only while their series waits to be taken

Item == Movie \union Series
Text == Tmdb \union Junk

ASSUME ScrapeAssumption ==
  /\ Movie \intersect Series = {} /\ NoItem \notin Item
  /\ Tmdb \intersect Junk = {} /\ NoId \notin Text
  /\ NfoId \subseteq Text /\ AskId \subseteq Text
  /\ Range \subseteq SUBSET Item
  /\ MaxAttempts \in Nat \ {0} /\ BatchLimit \in Nat
  /\ MaxRequests \in Nat /\ MaxCrashes \in Nat
  /\ Network \in BOOLEAN /\ Faults \in BOOLEAN /\ LateChildren \in BOOLEAN

(* "new" and "gone" are no row: not inserted yet, deleted. *)
Waiting == {"pending", "scraping"}
Terminal == {"scraped", "none", "failed"}
Status == {"new", "gone"} \union Waiting \union Terminal
Level == {"season", "episode"}

VARIABLES
  status,    \* item.scrape_status of movies and series
  attempts,  \* item.scrape_attempts
  tmdb,      \* item.tmdb_id
  kids,      \* the statuses held by the seasons, and the episodes, of a series
  links,     \* the TMDB entries whose genres, people, images are attached
  pc,        \* the consumer: where it stands
  queue,     \* the consumer: rows of its batch not started yet
  snap,      \* the consumer: what its query read of them
  cur,       \* the consumer: the row being scraped
  answer,    \* the consumer: the TMDB entry it is writing
  outcome,   \* the consumer: ScrapeOutcome, and the status to cascade
  job,       \* the admin task of a force reset
  clearing,  \* identifications whose old metadata is still to be deleted
  sweepOwed, \* the start-up sweep has not run yet
  asked,     \* (history) the id of the last identification of an item
  requests, crashes, \* bounded
  faulted    \* some statement whose error is dropped has failed

rows == <<status, attempts, tmdb, kids, links>>
consumer == <<pc, queue, snap, cur, answer, outcome>>
admin == <<job, clearing, asked, requests>>
vars == <<rows, consumer, admin, sweepOwed, crashes, faulted>>

Present(i) == status[i] \notin {"new", "gone"}
NoSnap == [known |-> NoId, tries |-> 0]
NoJob == [pc |-> "none", range |-> {}, cancel |-> FALSE]

Idle ==
  /\ pc = "idle" /\ queue = {} /\ snap = [i \in Item |-> NoSnap]
  /\ cur = NoItem /\ answer = NoId /\ outcome = "none"

Init ==
  /\ status = [i \in Item |-> "new"] /\ attempts = [i \in Item |-> 0]
  /\ tmdb = [i \in Item |-> NoId] /\ links = [i \in Item |-> {}]
  /\ kids = [s \in Series |-> [l \in Level |-> {}]]
  /\ Idle
  /\ job = NoJob /\ clearing = {} /\ asked = [i \in Item |-> NoId] /\ requests = 0
  /\ sweepOwed = TRUE /\ crashes = 0 /\ faulted = FALSE

Fails == Faults /\ faulted' = TRUE
Succeeds == faulted' = faulted

(* UPDATE item SET scrape_status = s WHERE id = i *)
SetStatus(i, s) ==
  \/ Succeeds /\ status' = IF Present(i) THEN [status EXCEPT ![i] = s] ELSE status
  \/ Fails /\ status' = status

(* Unique index on tmdb_id, one for movies and one for series: another row
   has t. *)
SameType(i, k) == {i, k} \subseteq Movie \/ {i, k} \subseteq Series
Taken(i, t) == \E k \in Item \ {i} : SameType(i, k) /\ tmdb[k] = t

-----------------------------------------------------------------------------
(* The scan.                                                               *)

(* upsert_item, upsert_series_item: INSERT of a row nobody has seen. *)
Arrive(i) ==
  /\ status[i] = "new"
  /\ status' = [status EXCEPT ![i] = "pending"]
  /\ UNCHANGED <<attempts, tmdb, kids, links, consumer, admin, sweepOwed, crashes, faulted>>

(* update_item_meta, on every scan of the file: COALESCE(nfo, old) takes the
   id of the NFO file whenever it has one.  The statement fails, and the error
   is dropped, when another row has the id. *)
ReadNfo(i, t) ==
  /\ Present(i) /\ ~ Taken(i, t) /\ tmdb[i] # t
  /\ tmdb' = [tmdb EXCEPT ![i] = t]
  /\ UNCHANGED <<status, attempts, kids, links, consumer, admin, sweepOwed, crashes, faulted>>

(* upsert_item for a season, then for an episode of it: pending, like any row. *)
NewChild(s, l) ==
  /\ Present(s) /\ (l = "episode" => kids[s]["season"] # {})
  /\ LateChildren \/ (status[s] = "pending" /\ cur # s /\ s \notin queue)
  /\ kids' = [kids EXCEPT ![s][l] = @ \union {"pending"}]
  /\ UNCHANGED <<status, attempts, tmdb, links, consumer, admin, sweepOwed, crashes, faulted>>

(* delete_library, or for a movie deletion detection: the row with all it
   owns. *)
Delete(i) ==
  /\ Present(i)
  /\ status' = [status EXCEPT ![i] = "gone"]
  /\ attempts' = [attempts EXCEPT ![i] = 0]
  /\ tmdb' = [tmdb EXCEPT ![i] = NoId] /\ links' = [links EXCEPT ![i] = {}]
  /\ kids' = [s \in Series |-> IF s = i THEN [l \in Level |-> {}] ELSE kids[s]]
  /\ UNCHANGED <<consumer, admin, sweepOwed, crashes, faulted>>

-----------------------------------------------------------------------------
(* Admin requests.                                                         *)

(* manual_identify_item: one UPDATE, refused when another row has the id; the
   parameter is taken as it is.  Deleting the old metadata comes after. *)
Identify(i, t, clear) ==
  /\ requests < MaxRequests /\ Present(i) /\ ~ Taken(i, t)
  /\ tmdb' = [tmdb EXCEPT ![i] = t]
  /\ status' = [status EXCEPT ![i] = "pending"]
  /\ attempts' = [attempts EXCEPT ![i] = 0]
  /\ clearing' = IF clear THEN clearing \union {i} ELSE clearing
  /\ asked' = [asked EXCEPT ![i] = t] /\ requests' = requests + 1
  /\ UNCHANGED <<kids, links, consumer, job, sweepOwed, crashes, faulted>>

(* clear_metadata, unless the client went away first. *)
ClearMetadata(i) ==
  /\ i \in clearing
  /\ links' = [links EXCEPT ![i] = {}]
  /\ clearing' = clearing \ {i}
  /\ UNCHANGED <<status, attempts, tmdb, kids, consumer, job, asked, requests, sweepOwed, crashes, faulted>>

(* start_scrape with force: one UPDATE of all items in the range, then a job
   that waits for the backlog.  One such job is followed at a time. *)
ForceReset(R) ==
  /\ requests < MaxRequests /\ job.pc # "poll"
  /\ status' = [i \in Item |-> IF i \in R /\ Present(i) THEN "pending" ELSE status[i]]
  /\ attempts' = [i \in Item |-> IF i \in R THEN 0 ELSE attempts[i]]
  /\ job' = [NoJob EXCEPT !.pc = "poll", !.range = R]
  /\ requests' = requests + 1
  /\ UNCHANGED <<tmdb, kids, links, consumer, clearing, asked, sweepOwed, crashes, faulted>>

(* One turn of the job.  Mutant: it waits for every item to be scraped. *)
RemainingUnscraped(R) == {i \in R : status[i] # "scraped"}
Remaining(R) == {i \in R : status[i] \in Waiting}
JobPoll ==
  /\ job.pc = "poll"
  /\ \/ /\ IF Remaining(job.range) = {} THEN Succeeds ELSE Fails
        /\ job' = [job EXCEPT !.pc = "done"]
     \/ /\ Remaining(job.range) # {} /\ job.cancel /\ Succeeds
        /\ job' = [job EXCEPT !.pc = "canceled"]
  /\ UNCHANGED <<rows, consumer, clearing, asked, requests, sweepOwed, crashes>>

JobCancel ==
  /\ job.pc = "poll" /\ ~ job.cancel
  /\ job' = [job EXCEPT !.cancel = TRUE]
  /\ UNCHANGED <<rows, consumer, clearing, asked, requests, sweepOwed, crashes, faulted>>

-----------------------------------------------------------------------------
(* The consumer.                                                           *)

(* claim_pending_scrape: series before movies, at most BatchLimit rows, with
   the id and the attempts they have now.  The order within a type is left
   open.  Mutants: rows that failed are tried again; any text is a usable id. *)
PendingOrFailed == {i \in Item : status[i] \in {"pending", "failed"}}
Pending == {i \in Item : status[i] = "pending"}
IsBatch(S) ==
  /\ S \subseteq Pending /\ S # {} /\ Cardinality(S) <= BatchLimit
  /\ S # Pending => Cardinality(S) = BatchLimit
  /\ S \intersect Movie # {} => Pending \intersect Series \subseteq S
KnownRaw(t) == t
Known(t) == IF t \in Tmdb THEN t ELSE NoId
Claim ==
  /\ pc = "idle"
  /\ \E S \in SUBSET Item :
       /\ IsBatch(S)
       /\ queue' = S
       /\ snap' = [i \in Item |-> IF i \in S THEN [known |-> Known(tmdb[i]), tries |-> attempts[i]]
                                  ELSE NoSnap]
  /\ pc' = "next"
  /\ UNCHANGED <<rows, cur, answer, outcome, admin, sweepOwed, crashes, faulted>>

(* mark_scraping: the row of the batch is set to scraping whatever it holds by
   now.  With a usable id the entry is fetched at once, otherwise the title is
   searched, after a check that the row still has no id. *)
Mark ==
  /\ pc = "next"
  /\ \E i \in queue :
       /\ i \in Movie => queue \intersect Series = {}
       /\ SetStatus(i, "scraping")
       /\ cur' = i /\ queue' = queue \ {i}
       /\ pc' = IF snap[i].known = NoId THEN "check" ELSE "fetch"
  /\ UNCHANGED <<attempts, tmdb, kids, links, snap, answer, outcome, admin, sweepOwed, crashes>>

(* has_tmdb_id: an id appeared since the batch was read, or one that is no
   number was there all along: Skipped.  A failed query counts as no id. *)
Check ==
  /\ pc = "check"
  /\ \/ tmdb[cur] # NoId /\ Succeeds /\ pc' = "settle" /\ outcome' = "Skipped"
     \/ /\ IF tmdb[cur] = NoId THEN Succeeds ELSE Fails
        /\ pc' = "fetch" /\ outcome' = outcome
  /\ UNCHANGED <<rows, queue, snap, cur, answer, admin, sweepOwed, crashes>>

(* The call to TMDB: a search may find nothing, and finds any entry; a call by
   id returns that entry. *)
Fetch ==
  /\ pc = "fetch"
  /\ \/ Network /\ outcome' = "Failed" /\ pc' = "settle" /\ answer' = answer
     \/ snap[cur].known = NoId /\ outcome' = "NotFound" /\ pc' = "settle" /\ answer' = answer
     \/ \E t \in Tmdb : /\ snap[cur].known \in {NoId, t}
                        /\ answer' = t /\ outcome' = outcome /\ pc' = "apply"
  /\ UNCHANGED <<rows, queue, snap, cur, admin, sweepOwed, crashes, faulted>>

(* apply_movie, apply_tv: id and status in one UPDATE, without a look at what
   the row holds by now.  It fails when another row has the id. *)
Apply ==
  /\ pc = "apply"
  /\ \/ /\ Succeeds /\ ~ (Present(cur) /\ Taken(cur, answer))
        /\ tmdb' = IF Present(cur) THEN [tmdb EXCEPT ![cur] = answer] ELSE tmdb
        /\ status' = IF Present(cur) THEN [status EXCEPT ![cur] = "scraped"] ELSE status
        /\ pc' = "link" /\ outcome' = "scraped"
     \/ /\ IF Present(cur) /\ Taken(cur, answer) THEN Succeeds ELSE Fails
        /\ UNCHANGED <<tmdb, status>>
        /\ pc' = "settle" /\ outcome' = "Failed"
  /\ UNCHANGED <<attempts, kids, links, queue, snap, cur, answer, admin, sweepOwed, crashes>>

(* The consumer is done with cur. *)
Finish ==
  /\ pc' = IF queue = {} THEN "idle" ELSE "next"
  /\ snap' = [snap EXCEPT ![cur] = NoSnap]
  /\ cur' = NoItem /\ answer' = NoId /\ outcome' = "none"

(* Genres, people, studios, tags and images of the entry, inserted with no
   check that the row is still there. *)
Link ==
  /\ pc = "link"
  /\ links' = [links EXCEPT ![cur] = @ \union {answer}]
  /\ IF cur \in Series THEN pc' = "derive" /\ UNCHANGED <<snap, cur, answer, outcome>> ELSE Finish
  /\ UNCHANGED <<status, attempts, tmdb, kids, queue, admin, sweepOwed, crashes, faulted>>

(* generate_virtual_entries: seasons that TMDB lists and no scan has found are
   inserted as scraped.  The virtual episodes are not: their INSERT leaves out
   the mandatory library_id, and its error is dropped. *)
Derive ==
  /\ pc = "derive"
  /\ \/ kids' = kids
     \/ Present(cur) /\ kids' = [kids EXCEPT ![cur]["season"] = @ \union {"scraped"}]
  /\ pc' = "seasons"
  /\ UNCHANGED <<status, attempts, tmdb, links, queue, snap, cur, answer, outcome, admin, sweepOwed, crashes, faulted>>

(* The outcomes that still have to be written.  NotFound is final; Failed is
   retried until the attempts of the batch query plus this one reach the
   limit.  Mutants: one try too many; the status is not written back; the
   children are forgotten. *)
ReachedLimitLate == snap[cur].tries >= MaxAttempts
ReachedLimit == snap[cur].tries + 1 >= MaxAttempts
Cascades(s) == /\ outcome' = s /\ pc' = "seasons"
               /\ UNCHANGED <<snap, cur, answer>>
SettleSkippedForgets ==
  /\ pc = "settle" /\ outcome = "Skipped"
  /\ Finish
  /\ UNCHANGED <<rows, queue, admin, sweepOwed, crashes, faulted>>
SettleSkipped ==
  /\ pc = "settle" /\ outcome = "Skipped"
  /\ SetStatus(cur, "pending") /\ Finish
  /\ UNCHANGED <<attempts, tmdb, kids, links, queue, admin, sweepOwed, crashes>>
SettleNotFoundAlone ==
  /\ pc = "settle" /\ outcome = "NotFound"
  /\ SetStatus(cur, "none") /\ Finish
  /\ UNCHANGED <<attempts, tmdb, kids, links, queue, admin, sweepOwed, crashes>>
SettleNotFound ==
  /\ pc = "settle" /\ outcome = "NotFound"
  /\ SetStatus(cur, "none")
  /\ IF cur \in Series THEN Cascades("none") ELSE Finish
  /\ UNCHANGED <<attempts, tmdb, kids, links, queue, admin, sweepOwed, crashes>>

(* bump_scrape_attempt: attempts and status in one UPDATE.  Mutant: only the
   status is written. *)
SettleFailedNoBump ==
  /\ pc = "settle" /\ outcome = "Failed"
  /\ SetStatus(cur, IF ReachedLimit THEN "failed" ELSE "pending")
  /\ IF cur \in Series /\ ReachedLimit THEN Cascades("failed") ELSE Finish
  /\ UNCHANGED <<attempts, tmdb, kids, links, queue, admin, sweepOwed, crashes>>
SettleFailed ==
  /\ pc = "settle" /\ outcome = "Failed"
  /\ \/ /\ Succeeds
        /\ status' = IF Present(cur)
                     THEN [status EXCEPT ![cur] = IF ReachedLimit THEN "failed" ELSE "pending"]
                     ELSE status
        /\ attempts' = IF Present(cur) THEN [attempts EXCEPT ![cur] = @ + 1] ELSE attempts
     \/ Fails /\ UNCHANGED <<status, attempts>>
  /\ IF cur \in Series /\ ReachedLimit THEN Cascades("failed") ELSE Finish
  /\ UNCHANGED <<tmdb, kids, links, queue, admin, sweepOwed, crashes>>

(* cascade_scrape_status: all seasons in one UPDATE, then all episodes. *)
CascadeTo(l) ==
  \/ Succeeds /\ kids' = [kids EXCEPT ![cur][l] = IF @ = {} THEN {} ELSE {outcome}]
  \/ Fails /\ kids' = kids
CascadeSeasons ==
  /\ pc = "seasons" /\ CascadeTo("season") /\ pc' = "episodes"
  /\ UNCHANGED <<status, attempts, tmdb, links, queue, snap, cur, answer, outcome, admin, sweepOwed, crashes>>
CascadeEpisodes ==
  /\ pc = "episodes" /\ CascadeTo("episode") /\ Finish
  /\ UNCHANGED <<status, attempts, tmdb, links, queue, admin, sweepOwed, crashes>>

-----------------------------------------------------------------------------
(* reset_stale_scraping, a task of its own next to the loops. *)
Sweep ==
  /\ sweepOwed
  /\ \/ /\ Succeeds
        /\ status' = [i \in Item |-> IF status[i] = "scraping" THEN "pending" ELSE status[i]]
     \/ Fails /\ status' = status
  /\ sweepOwed' = FALSE
  /\ UNCHANGED <<attempts, tmdb, kids, links, consumer, admin, crashes>>

(* The process stops and starts again with the tables as they are. *)
Restart ==
  /\ crashes < MaxCrashes
  /\ crashes' = crashes + 1
  /\ pc' = "idle" /\ queue' = {} /\ snap' = [i \in Item |-> NoSnap]
  /\ cur' = NoItem /\ answer' = NoId /\ outcome' = "none"
  /\ job' = NoJob /\ clearing' = {} /\ sweepOwed' = TRUE
  /\ UNCHANGED <<rows, asked, requests, faulted>>

Consumer == \/ Claim \/ Mark \/ Check \/ Fetch \/ Apply \/ Link \/ Derive
            \/ SettleSkipped \/ SettleNotFound \/ SettleFailed
            \/ CascadeSeasons \/ CascadeEpisodes
Scan == \E i \in Item : \/ Arrive(i) \/ Delete(i)
                        \/ \E t \in NfoId : ReadNfo(i, t)
                        \/ i \in Series /\ \E l \in Level : NewChild(i, l)
Admin == \/ \E i \in Item, t \in AskId, clear \in BOOLEAN : Identify(i, t, clear)
         \/ \E i \in Item : ClearMetadata(i)
         \/ \E R \in Range : ForceReset(R)
         \/ JobPoll \/ JobCancel

Next == Consumer \/ Scan \/ Admin \/ Sweep \/ Restart

(* tokio polls the loop, which also wakes by its interval, the job and the
   start-up task; calls to TMDB have time-outs, so they return. *)
Fairness ==
  WF_vars(Consumer /\ Succeeds) /\ WF_vars(JobPoll /\ Succeeds) /\ WF_vars(Sweep /\ Succeeds)

Spec == Init /\ [][Next]_vars
FairSpec == Spec /\ Fairness

-----------------------------------------------------------------------------
(* Properties.                                                             *)

(* Every variable holds a value of its column or field. *)
Outcome == {"none", "scraped", "failed", "Skipped", "NotFound", "Failed"}
TypeRows ==
  /\ status \in [Item -> Status] /\ attempts \in [Item -> 0 .. MaxAttempts]
  /\ tmdb \in [Item -> Text \union {NoId}] /\ links \in [Item -> SUBSET Tmdb]
  /\ kids \in [Series -> [Level -> SUBSET Status]]
TypeConsumer ==
  /\ pc \in {"idle", "next", "check", "fetch", "apply", "link", "derive", "settle", "seasons", "episodes"}
  /\ queue \subseteq Item
  /\ snap \in [Item -> [known : Tmdb \union {NoId}, tries : 0 .. MaxAttempts]]
  /\ cur \in Item \union {NoItem} /\ answer \in Tmdb \union {NoId} /\ outcome \in Outcome
TypeAdmin ==
  /\ job \in [pc : {"none", "poll", "done", "canceled"}, range : SUBSET Item, cancel : BOOLEAN]
  /\ clearing \subseteq Item /\ asked \in [Item -> Text \union {NoId}]
  /\ requests \in 0 .. MaxRequests
TypeEnv == sweepOwed \in BOOLEAN /\ crashes \in 0 .. MaxCrashes /\ faulted \in BOOLEAN
TypeOK == TypeRows /\ TypeConsumer /\ TypeAdmin /\ TypeEnv

(* The consumer has set cur to scraping and has not written its outcome. *)
InFlight(i) == i = cur /\ pc \in {"check", "fetch", "apply", "settle"}

(* Rows do not get stuck in scraping: as long as no statement failed, such a
   row is the one being scraped, or the start-up sweep is still to come.
   (run_pending, reset_stale_scraping) *)
ScrapingIsInFlight ==
  ~ faulted => \A i \in Item : status[i] = "scraping" => InFlight(i) \/ sweepOwed

(* Whatever requests, sweeps, failures and restarts do between the batch query
   and the write of the outcome, an item that waits has a try left.
   (claim_pending_scrape, bump_scrape_attempt) *)
WaitingHasTriesLeft == \A i \in Item : status[i] \in Waiting => attempts[i] < MaxAttempts

(* mark_scraping has no guard: still, only rows in pending are marked, so a
   settled item is not scraped again without a request, and no item is handed
   out twice. (run_pending) *)
OnlyPendingMarked ==
  [][\A i \in Item : status[i] # "scraping" /\ status'[i] = "scraping" => status[i] = "pending"]_vars

(* An item that waits is settled, or deleted, whatever TMDB answers, unless its
   id is no number. (run_scrape_loop, retry limit) *)
Settles ==
  \A i \in Item : status[i] = "pending" ~> (status[i] \in Terminal \union {"gone"} \/ faulted)

(* The job of a force reset ends. (start_scrape) *)
ForceJobEnds == (job.pc = "poll") ~> (job.pc # "poll" \/ faulted)

(* When no child is inserted after its series was taken and the process does
   not stop, the children of a settled series are settled as well: the
   two UPDATEs of the cascade are not disturbed by requests, sweeps or the
   insertion of virtual seasons. (cascade_scrape_status) *)
ChildrenFollow ==
  ~ faulted /\ ~ LateChildren /\ crashes = 0 => \A s \in Series :
    status[s] \in Terminal /\ cur # s => \A l \in Level : "pending" \notin kids[s][l]

-----------------------------------------------------------------------------
(* What the documentation says, and the code does not do.                  *)

(* libraries.rs: an identified item is scraped again by the id that was given,
   so once it is scraped it has that id (NFO files without an id). *)
IdentificationHolds ==
  \A i \in Item : status[i] = "scraped" /\ asked[i] # NoId => tmdb[i] = asked[i]

(* libraries.rs: clear_metadata removes the old metadata, not that of the new
   identification: a scraped item has the metadata of its entry. *)
ScrapedHasMetadata ==
  \A i \in Item : status[i] = "scraped" /\ cur # i /\ crashes = 0 => tmdb[i] \in links[i]
=============================================================================
