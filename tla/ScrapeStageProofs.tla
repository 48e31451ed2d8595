------------------------- MODULE ScrapeStageProofs -------------------------
(* Proofs about ScrapeStage, for every value of its constants. *)
EXTENDS ScrapeStageRefinement, TLAPS

(* The consumer's hands: it holds an item while it works, and the row being
   scraped has left the batch. *)
Hands ==
  /\ pc \in {"idle", "next"} <=> cur = NoItem
  /\ cur \notin queue /\ (pc = "idle" => queue = {})

(* The consumer has the entry, and the verdict, it is about to write. *)
Ready ==
  /\ pc \in {"apply", "link"} => answer \in Tmdb
  /\ pc \in {"seasons", "episodes"} => outcome \in Terminal
  /\ pc \in {"link", "derive"} => outcome = "scraped"

(* A row that waits in the batch is still pending, or deleted. *)
BatchUntouched == \A i \in queue : status[i] \in {"pending", "gone"}

(* Until the outcome is written, the attempts the batch query read bound those
   of the row: requests only bring the row's attempts down. *)
SnapBounds ==
  /\ \A i \in Item : i \in queue \/ InFlight(i) =>
       attempts[i] <= snap[i].tries /\ snap[i].tries < MaxAttempts
  /\ \A i \in Item : status[i] = "new" => attempts[i] = 0

(* What a step may do to the consumer's hands. *)
Takes ==
  /\ pc = "next" /\ pc' \in {"check", "fetch"} /\ snap' = snap
  /\ cur' \in queue /\ queue' = queue \ {cur'}
Works ==
  /\ pc \notin {"idle", "next"} /\ pc' \notin {"idle", "next"}
  /\ UNCHANGED <<queue, snap, cur>>
  /\ InFlight(cur)' => InFlight(cur)
Drops ==
  /\ pc \notin {"idle", "next"} /\ queue' = queue /\ cur' = NoItem
  /\ snap' = [snap EXCEPT ![cur] = NoSnap]
  /\ pc' = IF queue = {} THEN "idle" ELSE "next"
Stops == pc' = "idle" /\ queue' = {} /\ cur' = NoItem
HandMove == Claim \/ Takes \/ Works \/ Drops \/ Stops \/ UNCHANGED <<pc, queue, snap, cur>>

(* What a step may do to a row. *)
Frozen(i) == status'[i] = status[i] /\ attempts'[i] \in {attempts[i], 0}
Enters(i) == status[i] = "new" /\ status'[i] = "pending" /\ attempts'[i] = attempts[i]
Leaves(i) == status'[i] = "gone" /\ attempts'[i] = 0
SentBack(i) == status[i] # "new" /\ Present(i) /\ status'[i] = "pending" /\ attempts'[i] = 0
Swept(i) == status[i] = "scraping" /\ status'[i] = "pending" /\ attempts'[i] = attempts[i]
Marked(i) ==
  /\ pc = "next" /\ i \in queue /\ Present(i) /\ cur' = i /\ pc' \in {"check", "fetch"}
  /\ status'[i] = "scraping" /\ attempts'[i] = attempts[i]
Settled(i) ==
  /\ i = cur /\ pc \in {"apply", "settle"} /\ Present(i)
  /\ \/ status'[i] \in {"scraped", "none", "pending"} /\ attempts'[i] = attempts[i]
     \/ /\ attempts'[i] = attempts[i] + 1 /\ ~ InFlight(i)'
        /\ status'[i] = IF snap[i].tries + 1 >= MaxAttempts THEN "failed" ELSE "pending"
RowMove(i) ==
  \/ Frozen(i) \/ Enters(i) \/ Leaves(i) \/ SentBack(i) \/ Swept(i) \/ Marked(i) \/ Settled(i)

IInv ==
  /\ TypeOK /\ Hands /\ Ready /\ BatchUntouched /\ SnapBounds
  /\ WaitingHasTriesLeft /\ ScrapingIsInFlight

(* A working consumer holds an item, and an entry when it is to write one. *)
LEMMA Holding ==
  ASSUME IInv PROVE /\ pc \notin {"idle", "next"} => cur \in Item
                    /\ pc \in {"apply", "link"} => answer \in Tmdb
BY DEF IInv, TypeOK, TypeConsumer, Hands, Ready

(* Statuses. *)
LEMMA StatusType ==
  ASSUME IInv, Next PROVE status' \in [Item -> Status]
<1>1. ASSUME NEW i \in Item, Arrive(i) PROVE status' \in [Item -> Status]
  BY <1>1 DEF Arrive, IInv, TypeOK, TypeRows, Status, Waiting, Terminal
<1>2. ASSUME NEW i \in Item, Delete(i) PROVE status' \in [Item -> Status]
  BY <1>2 DEF Delete, IInv, TypeOK, TypeRows, Status, Waiting, Terminal
<1>3. ASSUME NEW i \in Item, NEW t \in AskId, NEW clear \in BOOLEAN, Identify(i, t, clear)
      PROVE  status' \in [Item -> Status]
  BY <1>3 DEF Identify, IInv, TypeOK, TypeRows, Status, Waiting, Terminal
<1>4. ASSUME NEW R \in Range, ForceReset(R) PROVE status' \in [Item -> Status]
  BY <1>4 DEF ForceReset, IInv, TypeOK, TypeRows, Status, Waiting, Terminal
<1>5. CASE Mark
  BY <1>5 DEF Mark, SetStatus, IInv, TypeOK, TypeRows, Status, Waiting, Terminal
<1>6. CASE Apply
  BY <1>6 DEF Apply, IInv, TypeOK, TypeRows, Status, Waiting, Terminal
<1>7. CASE SettleSkipped
  BY <1>7 DEF SettleSkipped, SetStatus, Finish, IInv, TypeOK, TypeRows, Status, Waiting,
      Terminal
<1>8. CASE SettleNotFound
  BY <1>8 DEF SettleNotFound, SetStatus, Finish, Cascades, IInv, TypeOK, TypeRows, Status,
      Waiting, Terminal
<1>9. CASE SettleFailed
  BY <1>9 DEF SettleFailed, Finish, Cascades, ReachedLimit, IInv, TypeOK, TypeRows, Status,
      Waiting, Terminal
<1>10. CASE Sweep
  BY <1>10 DEF Sweep, IInv, TypeOK, TypeRows, Status, Waiting, Terminal
<1>11. CASE UNCHANGED status
  BY <1>11 DEF rows, consumer, admin, IInv, TypeOK, TypeRows, Status, Waiting, Terminal
<1>12. \/ UNCHANGED status \/ (\E i \in Item : Arrive(i)) \/ (\E i \in Item : Delete(i))
      \/ (\E i \in Item, t \in AskId, clear \in BOOLEAN : Identify(i, t, clear))
      \/ (\E R \in Range : ForceReset(R)) \/ Mark \/ Apply \/ SettleSkipped \/ SettleNotFound
      \/ SettleFailed \/ Sweep
  BY DEF Next, Consumer, Scan, Admin, ReadNfo, NewChild, ClearMetadata, JobPoll, JobCancel,
      Claim, Check, Fetch, Link, Derive, CascadeSeasons, CascadeEpisodes, Restart,
      CascadeTo, Finish, IsBatch, Pending, rows, consumer, admin
<1> QED BY <1>1, <1>2, <1>3, <1>4, <1>5, <1>6, <1>7, <1>8, <1>9, <1>10, <1>11, <1>12

(* Attempts: the limit is not exceeded, because the batch query saw less. *)
LEMMA AttemptsType ==
  ASSUME IInv, Next PROVE attempts' \in [Item -> 0 .. MaxAttempts]
<1> USE ScrapeAssumption
<1>1. ASSUME NEW i \in Item, Delete(i)
      PROVE  attempts' \in [Item -> 0 .. MaxAttempts]
  BY <1>1 DEF Delete, IInv, TypeOK, TypeRows
<1>2. ASSUME NEW i \in Item, NEW t \in AskId, NEW clear \in BOOLEAN, Identify(i, t, clear)
      PROVE  attempts' \in [Item -> 0 .. MaxAttempts]
  BY <1>2 DEF Identify, IInv, TypeOK, TypeRows
<1>3. ASSUME NEW R \in Range, ForceReset(R)
      PROVE  attempts' \in [Item -> 0 .. MaxAttempts]
  BY <1>3 DEF ForceReset, IInv, TypeOK, TypeRows
<1>4. CASE SettleFailed
  BY <1>4, Holding DEF SettleFailed, Finish, Cascades, ReachedLimit, SnapBounds,
      TypeConsumer, InFlight, IInv, TypeOK, TypeRows
<1>5. CASE UNCHANGED attempts
  BY <1>5 DEF rows, consumer, admin, IInv, TypeOK, TypeRows
<1>6. \/ UNCHANGED attempts \/ (\E i \in Item : Delete(i))
      \/ (\E i \in Item, t \in AskId, clear \in BOOLEAN : Identify(i, t, clear))
      \/ (\E R \in Range : ForceReset(R)) \/ SettleFailed
  BY DEF Next, Consumer, Scan, Admin, Arrive, ReadNfo, NewChild, ClearMetadata, JobPoll,
      JobCancel, Claim, Mark, Check, Fetch, Apply, Link, Derive, SettleSkipped,
      SettleNotFound, CascadeSeasons, CascadeEpisodes, Sweep, Restart, CascadeTo, Cascades,
      Finish, IsBatch, Pending, SetStatus, rows, consumer, admin
<1> QED BY <1>1, <1>2, <1>3, <1>4, <1>5, <1>6

(* Ids. *)
LEMMA TmdbType ==
  ASSUME IInv, Next PROVE tmdb' \in [Item -> Text \union {NoId}]
<1> USE ScrapeAssumption
<1>1. ASSUME NEW i \in Item, NEW t \in NfoId, ReadNfo(i, t)
      PROVE  tmdb' \in [Item -> Text \union {NoId}]
  BY <1>1 DEF ReadNfo, IInv, TypeOK, TypeRows
<1>2. ASSUME NEW i \in Item, Delete(i) PROVE tmdb' \in [Item -> Text \union {NoId}]
  BY <1>2 DEF Delete, IInv, TypeOK, TypeRows
<1>3. ASSUME NEW i \in Item, NEW t \in AskId, NEW clear \in BOOLEAN, Identify(i, t, clear)
      PROVE  tmdb' \in [Item -> Text \union {NoId}]
  BY <1>3 DEF Identify, IInv, TypeOK, TypeRows
<1>4. CASE Apply
  BY <1>4, Holding DEF Apply, Text, IInv, TypeOK, TypeRows
<1>5. CASE UNCHANGED tmdb
  BY <1>5 DEF rows, consumer, admin, IInv, TypeOK, TypeRows
<1>6. \/ UNCHANGED tmdb \/ (\E i \in Item, t \in NfoId : ReadNfo(i, t))
      \/ (\E i \in Item : Delete(i))
      \/ (\E i \in Item, t \in AskId, clear \in BOOLEAN : Identify(i, t, clear)) \/ Apply
  BY DEF Next, Consumer, Scan, Admin, Arrive, NewChild, ClearMetadata, ForceReset, JobPoll,
      JobCancel, Claim, Mark, Check, Fetch, Link, Derive, SettleSkipped, SettleNotFound,
      SettleFailed, CascadeSeasons, CascadeEpisodes, Sweep, Restart, CascadeTo, Cascades,
      Finish, IsBatch, Pending, ReachedLimit, SetStatus, rows, consumer, admin
<1> QED BY <1>1, <1>2, <1>3, <1>4, <1>5, <1>6

(* Attached entries. *)
LEMMA LinksType ==
  ASSUME IInv, Next PROVE links' \in [Item -> SUBSET Tmdb]
<1>1. ASSUME NEW i \in Item, Delete(i) PROVE links' \in [Item -> SUBSET Tmdb]
  BY <1>1 DEF Delete, IInv, TypeOK, TypeRows
<1>2. ASSUME NEW i \in Item, ClearMetadata(i)
      PROVE  links' \in [Item -> SUBSET Tmdb]
  BY <1>2 DEF ClearMetadata, IInv, TypeOK, TypeRows
<1>3. CASE Link
  BY <1>3, Holding DEF Link, Finish, IInv, TypeOK, TypeRows
<1>4. CASE UNCHANGED links
  BY <1>4 DEF rows, consumer, admin, IInv, TypeOK, TypeRows
<1>5. \/ UNCHANGED links \/ (\E i \in Item : Delete(i)) \/ (\E i \in Item : ClearMetadata(i))
      \/ Link
  BY DEF Next, Consumer, Scan, Admin, Arrive, ReadNfo, NewChild, Identify, ForceReset,
      JobPoll, JobCancel, Claim, Mark, Check, Fetch, Apply, Derive, SettleSkipped,
      SettleNotFound, SettleFailed, CascadeSeasons, CascadeEpisodes, Sweep, Restart,
      CascadeTo, Cascades, Finish, IsBatch, Pending, ReachedLimit, SetStatus, rows,
      consumer, admin
<1> QED BY <1>1, <1>2, <1>3, <1>4, <1>5

(* A change to one level of one series keeps the type of kids. *)
LEMMA KidsExcept ==
  ASSUME kids \in [Series -> [Level -> SUBSET Status]],
         NEW s, NEW l \in Level, NEW v, s \in Series => v \in SUBSET Status
  PROVE  [kids EXCEPT ![s][l] = v] \in [Series -> [Level -> SUBSET Status]]
<1>1. CASE s \notin Series
  BY <1>1
<1>2. CASE s \in Series
  <2>1. [kids[s] EXCEPT ![l] = v] \in [Level -> SUBSET Status]
    BY <1>2
  <2> QED BY <2>1
<1> QED BY <1>1, <1>2

(* Statuses of children. *)
LEMMA KidsType ==
  ASSUME IInv, Next PROVE kids' \in [Series -> [Level -> SUBSET Status]]
<1> DEFINE Kids == [Series -> [Level -> SUBSET Status]]
<1>0. /\ kids \in Kids /\ {"season", "episode"} \subseteq Level
      /\ {"pending", "scraped"} \subseteq Status
  BY DEF IInv, TypeOK, TypeRows, Level, Status, Waiting, Terminal
<1>1. ASSUME NEW s \in Series, NEW l \in Level, NewChild(s, l) PROVE kids' \in Kids
  <2>1. kids[s][l] \union {"pending"} \in SUBSET Status
    BY <1>0
  <2> QED BY <1>0, <1>1, <2>1, KidsExcept DEF NewChild
<1>2. ASSUME NEW i \in Item, Delete(i) PROVE kids' \in Kids
  BY <1>0, <1>2 DEF Delete
<1>3. CASE Derive
  <2> DEFINE v == kids[cur]["season"] \union {"scraped"}
  <2>1. cur \in Series => v \in SUBSET Status
    BY <1>0
  <2>2. kids' = kids \/ kids' = [kids EXCEPT ![cur]["season"] = v]
    BY <1>3 DEF Derive
  <2>3. "season" \in Level
    BY <1>0
  <2> HIDE DEF v
  <2>4. [kids EXCEPT ![cur]["season"] = v] \in Kids
    BY <1>0, <2>1, <2>3, KidsExcept
  <2> QED BY <1>0, <2>2, <2>4
<1>4. ASSUME NEW l \in {"season", "episode"}, CascadeTo(l),
    pc = "seasons" \/ pc = "episodes"
      PROVE  kids' \in Kids
  <2> DEFINE v == IF kids[cur][l] = {} THEN {} ELSE {outcome}
  <2>1. v \in SUBSET Status
    BY <1>4 DEF IInv, Ready, Status, Waiting, Terminal
  <2>2. kids' = kids \/ kids' = [kids EXCEPT ![cur][l] = v]
    BY <1>4 DEF CascadeTo
  <2>3. l \in Level
    BY <1>0, <1>4
  <2> HIDE DEF v
  <2>4. [kids EXCEPT ![cur][l] = v] \in Kids
    BY <1>0, <2>1, <2>3, KidsExcept
  <2> QED BY <1>0, <2>2, <2>4
<1>5. CASE CascadeSeasons \/ CascadeEpisodes
  BY <1>4, <1>5 DEF CascadeSeasons, CascadeEpisodes
<1>6. CASE kids' = kids
  BY <1>0, <1>6
<1>7. Next => \/ kids' = kids \/ Derive \/ CascadeSeasons \/ CascadeEpisodes
              \/ \E s \in Series, l \in Level : NewChild(s, l)
              \/ \E i \in Item : Delete(i)
  BY DEF Next, Consumer, Scan, Admin, Arrive, ReadNfo, Identify, ClearMetadata, ForceReset,
      JobPoll, JobCancel, Claim, Mark, Check, Fetch, Apply, Link, Finish, Cascades,
      SettleSkipped, SettleNotFound, SettleFailed, Sweep, Restart, rows
<1> QED BY <1>1, <1>2, <1>3, <1>5, <1>6, <1>7

(* A batch query: what it reads of a row fits its columns. *)
LEMMA ClaimType ==
  ASSUME IInv, Claim PROVE TypeConsumer' /\ Hands'
<1> USE ScrapeAssumption
<1>1. PICK S \in SUBSET Item : IsBatch(S) /\ queue' = S
             /\ snap' = [i \in Item |->
                          IF i \in S THEN [known |-> Known(tmdb[i]), tries |-> attempts[i]]
                          ELSE NoSnap]
  BY DEF Claim
<1>2. pc = "idle" /\ pc' = "next" /\ UNCHANGED <<rows, cur, answer, outcome>>
  BY DEF Claim
<1>3. \A i \in Item : /\ Known(tmdb[i]) \in Tmdb \union {NoId}
                      /\ attempts[i] \in 0 .. MaxAttempts
  BY DEF IInv, TypeOK, TypeRows, Known
<1>4. snap' \in [Item -> [known : Tmdb \union {NoId}, tries : 0 .. MaxAttempts]]
  BY <1>1, <1>3 DEF NoSnap
<1>5. TypeConsumer'
  BY <1>1, <1>2, <1>4 DEF IInv, TypeOK, TypeConsumer
<1>6. cur = NoItem /\ NoItem \notin Item
  BY <1>2 DEF IInv, Hands
<1>8. Hands'
  BY <1>1, <1>2, <1>6 DEF Hands
<1> QED BY <1>5, <1>8

(* The locals of the consumer. *)
LEMMA ConsumerType ==
  ASSUME IInv, Next PROVE TypeConsumer'
<1> USE ScrapeAssumption
<1>1. CASE Claim
  BY <1>1, ClaimType DEF Claim, IsBatch, Pending, consumer, IInv, TypeOK, TypeConsumer,
      Outcome
<1>2. CASE Mark
  BY <1>2 DEF Mark, SetStatus, consumer, IInv, TypeOK, TypeConsumer, Outcome
<1>3. CASE Check
  BY <1>3 DEF Check, consumer, IInv, TypeOK, TypeConsumer, Outcome
<1>4. CASE Fetch
  BY <1>4 DEF Fetch, consumer, IInv, TypeOK, TypeConsumer, Outcome
<1>5. CASE Apply
  BY <1>5 DEF Apply, consumer, IInv, TypeOK, TypeConsumer, Outcome
<1>6. CASE Link
  BY <1>6, Holding DEF Link, Finish, NoSnap, consumer, IInv, TypeOK, TypeConsumer, Outcome
<1>7. CASE Derive
  BY <1>7 DEF Derive, consumer, IInv, TypeOK, TypeConsumer, Outcome
<1>8. CASE SettleSkipped
  BY <1>8, Holding DEF SettleSkipped, SetStatus, Finish, NoSnap, consumer, IInv, TypeOK,
      TypeConsumer, Outcome
<1>9. CASE SettleNotFound
  BY <1>9, Holding DEF SettleNotFound, SetStatus, Finish, Cascades, NoSnap, consumer, IInv,
      TypeOK, TypeConsumer, Outcome
<1>10. CASE SettleFailed
  BY <1>10, Holding DEF SettleFailed, Finish, Cascades, ReachedLimit, NoSnap, consumer,
      IInv, TypeOK, TypeConsumer, Outcome
<1>11. CASE CascadeSeasons
  BY <1>11 DEF CascadeSeasons, CascadeTo, consumer, IInv, TypeOK, TypeConsumer, Outcome
<1>12. CASE CascadeEpisodes
  BY <1>12, Holding DEF CascadeEpisodes, CascadeTo, Finish, NoSnap, consumer, IInv, TypeOK,
      TypeConsumer, Outcome
<1>13. CASE Restart
  BY <1>13 DEF Restart, NoSnap, consumer, IInv, TypeOK, TypeConsumer, Outcome
<1>14. CASE UNCHANGED consumer
  BY <1>14 DEF admin, consumer, IInv, TypeOK, TypeConsumer, Outcome
<1>15. \/ UNCHANGED consumer \/ Claim \/ Mark \/ Check \/ Fetch \/ Apply \/ Link \/ Derive
      \/ SettleSkipped \/ SettleNotFound \/ SettleFailed \/ CascadeSeasons \/ CascadeEpisodes
      \/ Restart
  <2>1. Scan \/ Admin \/ Sweep => UNCHANGED consumer
    BY DEF Scan, Admin, Arrive, ReadNfo, NewChild, Delete, Identify, ClearMetadata,
        ForceReset, JobPoll, JobCancel, Sweep, rows, consumer, admin
  <2> QED BY <2>1 DEF Next, Consumer
<1> QED BY <1>1, <1>2, <1>3, <1>4, <1>5, <1>6, <1>7, <1>8, <1>9, <1>10, <1>11, <1>12,
    <1>13, <1>14, <1>15

(* Requests. *)
LEMMA AdminType ==
  ASSUME IInv, Next PROVE TypeAdmin'
<1> USE ScrapeAssumption
<1>1. ASSUME NEW i \in Item, NEW t \in AskId, NEW clear \in BOOLEAN, Identify(i, t, clear)
      PROVE  TypeAdmin'
  BY <1>1 DEF Identify, IInv, TypeOK, TypeAdmin
<1>2. ASSUME NEW i \in Item, ClearMetadata(i) PROVE TypeAdmin'
  BY <1>2 DEF ClearMetadata, IInv, TypeOK, TypeAdmin
<1>3. ASSUME NEW R \in Range, ForceReset(R) PROVE TypeAdmin'
  <2>1. R \in SUBSET Item /\ requests' \in 0 .. MaxRequests
    BY <1>3 DEF ForceReset, IInv, TypeOK, TypeAdmin
  <2>2. job' = [pc |-> "poll", range |-> R, cancel |-> FALSE]
    BY <1>3 DEF ForceReset, NoJob
  <2>3. job' \in [pc : {"none", "poll", "done", "canceled"}, range : SUBSET Item,
                  cancel : BOOLEAN]
    BY <2>1, <2>2
  <2>4. UNCHANGED <<clearing, asked>>
    BY <1>3 DEF ForceReset
  <2> QED BY <2>1, <2>3, <2>4 DEF IInv, TypeOK, TypeAdmin
<1>4. CASE JobPoll
  BY <1>4 DEF JobPoll, IInv, TypeOK, TypeAdmin
<1>5. CASE JobCancel
  BY <1>5 DEF JobCancel, IInv, TypeOK, TypeAdmin
<1>6. CASE Restart
  BY <1>6 DEF Restart, NoJob, IInv, TypeOK, TypeAdmin
<1>7. CASE UNCHANGED admin
  BY <1>7 DEF admin, IInv, TypeOK, TypeAdmin
<1>8. \/ UNCHANGED admin
      \/ (\E i \in Item, t \in AskId, clear \in BOOLEAN : Identify(i, t, clear))
      \/ (\E i \in Item : ClearMetadata(i)) \/ (\E R \in Range : ForceReset(R)) \/ JobPoll
      \/ JobCancel \/ Restart
  BY DEF Next, Consumer, Scan, Admin, Arrive, ReadNfo, NewChild, Delete, Claim, Mark,
      Check, Fetch, Apply, Link, Derive, SettleSkipped, SettleNotFound, SettleFailed,
      CascadeSeasons, CascadeEpisodes, Sweep, CascadeTo, Cascades, Finish, IsBatch,
      Pending, ReachedLimit, SetStatus, rows, consumer, admin
<1> QED BY <1>1, <1>2, <1>3, <1>4, <1>5, <1>6, <1>7, <1>8

(* Every step keeps the types. *)
LEMMA TypeStep ==
  ASSUME IInv, Next PROVE TypeOK'
<1>1. TypeRows'
  BY StatusType, AttemptsType, TmdbType, LinksType, KidsType DEF TypeRows
<1>2. TypeEnv'
  <2>1. faulted' \in {faulted, TRUE}
    BY DEF Next, Consumer, Scan, Admin, Arrive, ReadNfo, NewChild, Delete, Identify,
        ClearMetadata, ForceReset, JobPoll, JobCancel, Claim, Mark, Check, Fetch, Apply,
        Link, Derive, SettleSkipped, SettleNotFound, SettleFailed, CascadeSeasons,
        CascadeEpisodes, Sweep, Restart, SetStatus, CascadeTo, Fails, Succeeds
  <2>2. sweepOwed' \in {sweepOwed, TRUE, FALSE}
    BY DEF Next, Consumer, Scan, Admin, Arrive, ReadNfo, NewChild, Delete, Identify,
        ClearMetadata, ForceReset, JobPoll, JobCancel, Claim, Mark, Check, Fetch, Apply,
        Link, Derive, SettleSkipped, SettleNotFound, SettleFailed, CascadeSeasons,
        CascadeEpisodes, Sweep, Restart
  <2>3. crashes' = crashes \/ (crashes < MaxCrashes /\ crashes' = crashes + 1)
    BY DEF Next, Consumer, Scan, Admin, Arrive, ReadNfo, NewChild, Delete, Identify,
        ClearMetadata, ForceReset, JobPoll, JobCancel, Claim, Mark, Check, Fetch, Apply,
        Link, Derive, SettleSkipped, SettleNotFound, SettleFailed, CascadeSeasons,
        CascadeEpisodes, Sweep, Restart
  <2>4. sweepOwed \in BOOLEAN /\ faulted \in BOOLEAN /\ crashes \in 0 .. MaxCrashes
    BY DEF IInv, TypeOK, TypeEnv
  <2>5. crashes' \in 0 .. MaxCrashes
    BY ScrapeAssumption, <2>3, <2>4
  <2>6. sweepOwed' \in BOOLEAN /\ faulted' \in BOOLEAN
    BY <2>1, <2>2, <2>4
  <2> QED BY <2>5, <2>6 DEF TypeEnv
<1> QED BY <1>1, <1>2, ConsumerType, AdminType DEF TypeOK

(* Every step does one of these to every row. *)
LEMMA RowMoves ==
  ASSUME IInv, Next PROVE \A k \in Item : RowMove(k)
<1>1. ASSUME NEW i \in Item, Arrive(i) PROVE \A k \in Item : RowMove(k)
  BY <1>1 DEF Arrive, IInv, TypeOK, TypeRows, InFlight, RowMove, Frozen, Enters, Leaves,
      SentBack, Swept, Marked, Settled, Present
<1>2. ASSUME NEW i \in Item, Delete(i) PROVE \A k \in Item : RowMove(k)
  BY <1>2 DEF Delete, IInv, TypeOK, TypeRows, InFlight, RowMove, Frozen, Enters, Leaves,
      SentBack, Swept, Marked, Settled, Present
<1>3. ASSUME NEW i \in Item, NEW t \in AskId, NEW clear \in BOOLEAN, Identify(i, t, clear)
      PROVE  \A k \in Item : RowMove(k)
  BY <1>3 DEF Identify, IInv, TypeOK, TypeRows, InFlight, RowMove, Frozen, Enters, Leaves,
      SentBack, Swept, Marked, Settled, Present
<1>4. ASSUME NEW R \in Range, ForceReset(R) PROVE \A k \in Item : RowMove(k)
  BY <1>4 DEF ForceReset, IInv, TypeOK, TypeRows, InFlight, RowMove, Frozen, Enters,
      Leaves, SentBack, Swept, Marked, Settled, Present
<1>5. CASE Mark
  BY <1>5 DEF Mark, SetStatus, IInv, TypeOK, TypeRows, InFlight, RowMove, Frozen, Enters,
      Leaves, SentBack, Swept, Marked, Settled, Present
<1>6. CASE Apply
  BY <1>6, Holding DEF Apply, IInv, TypeOK, TypeRows, InFlight, RowMove, Frozen, Enters,
      Leaves, SentBack, Swept, Marked, Settled, Present
<1>7. CASE SettleSkipped
  BY <1>7, Holding DEF SettleSkipped, SetStatus, Finish, IInv, TypeOK, TypeRows, InFlight,
      RowMove, Frozen, Enters, Leaves, SentBack, Swept, Marked, Settled, Present
<1>8. CASE SettleNotFound
  BY <1>8, Holding DEF SettleNotFound, SetStatus, Finish, Cascades, IInv, TypeOK, TypeRows,
      InFlight, RowMove, Frozen, Enters, Leaves, SentBack, Swept, Marked, Settled, Present
<1>9. CASE SettleFailed
  BY <1>9, Holding DEF SettleFailed, Finish, Cascades, ReachedLimit, IInv, TypeOK,
      TypeRows, InFlight, RowMove, Frozen, Enters, Leaves, SentBack, Swept, Marked,
      Settled, Present
<1>10. CASE Sweep
  BY <1>10 DEF Sweep, IInv, TypeOK, TypeRows, InFlight, RowMove, Frozen, Enters, Leaves,
      SentBack, Swept, Marked, Settled, Present
<1>11. CASE UNCHANGED <<status, attempts>>
  BY <1>11 DEF RowMove, Frozen, IInv, TypeOK, TypeRows, InFlight, Enters, Leaves, SentBack,
      Swept, Marked, Settled, Present
<1>12. \/ UNCHANGED <<status, attempts>> \/ (\E i \in Item : Arrive(i))
      \/ (\E i \in Item : Delete(i))
      \/ (\E i \in Item, t \in AskId, clear \in BOOLEAN : Identify(i, t, clear))
      \/ (\E R \in Range : ForceReset(R)) \/ Mark \/ Apply \/ SettleSkipped \/ SettleNotFound
      \/ SettleFailed \/ Sweep
  BY DEF Next, Consumer, Scan, Admin, ReadNfo, NewChild, ClearMetadata, JobPoll, JobCancel,
      Claim, Check, Fetch, Link, Derive, CascadeSeasons, CascadeEpisodes, Restart,
      CascadeTo, Finish, IsBatch, Pending, rows, consumer, admin
<1> QED BY <1>1, <1>2, <1>3, <1>4, <1>5, <1>6, <1>7, <1>8, <1>9, <1>10, <1>11, <1>12

(* Every step does one of these to the hands. *)
LEMMA HandMoves ==
  ASSUME IInv, Next PROVE HandMove
<1>1. CASE Claim
  BY <1>1 DEF Claim, IsBatch, Pending, InFlight, HandMove, Takes, Works, Drops, Stops
<1>2. CASE Mark
  BY <1>2 DEF Mark, SetStatus, InFlight, HandMove, Takes, Works, Drops, Stops
<1>3. CASE Check
  BY <1>3 DEF Check, InFlight, HandMove, Takes, Works, Drops, Stops
<1>4. CASE Fetch
  BY <1>4 DEF Fetch, InFlight, HandMove, Takes, Works, Drops, Stops
<1>5. CASE Apply
  BY <1>5 DEF Apply, InFlight, HandMove, Takes, Works, Drops, Stops
<1>6. CASE Link
  BY <1>6 DEF Link, Finish, InFlight, HandMove, Takes, Works, Drops, Stops
<1>7. CASE Derive
  BY <1>7 DEF Derive, InFlight, HandMove, Takes, Works, Drops, Stops
<1>8. CASE SettleSkipped
  BY <1>8 DEF SettleSkipped, SetStatus, Finish, InFlight, HandMove, Takes, Works, Drops,
      Stops
<1>9. CASE SettleNotFound
  BY <1>9 DEF SettleNotFound, SetStatus, Finish, Cascades, InFlight, HandMove, Takes,
      Works, Drops, Stops
<1>10. CASE SettleFailed
  BY <1>10 DEF SettleFailed, Finish, Cascades, ReachedLimit, InFlight, HandMove, Takes,
      Works, Drops, Stops
<1>11. CASE CascadeSeasons
  BY <1>11 DEF CascadeSeasons, CascadeTo, InFlight, HandMove, Takes, Works, Drops, Stops
<1>12. CASE CascadeEpisodes
  BY <1>12 DEF CascadeEpisodes, CascadeTo, Finish, InFlight, HandMove, Takes, Works, Drops,
      Stops
<1>13. CASE Restart
  BY <1>13 DEF Restart, InFlight, HandMove, Takes, Works, Drops, Stops
<1>14. CASE UNCHANGED consumer
  BY <1>14 DEF HandMove, consumer, InFlight, Takes, Works, Drops, Stops
<1>15. \/ UNCHANGED consumer \/ Claim \/ Mark \/ Check \/ Fetch \/ Apply \/ Link \/ Derive
      \/ SettleSkipped \/ SettleNotFound \/ SettleFailed \/ CascadeSeasons \/ CascadeEpisodes
      \/ Restart
  <2>1. Scan \/ Admin \/ Sweep => UNCHANGED consumer
    BY DEF Scan, Admin, Arrive, ReadNfo, NewChild, Delete, Identify, ClearMetadata,
        ForceReset, JobPoll, JobCancel, Sweep, rows, consumer, admin
  <2> QED BY <2>1 DEF Next, Consumer
<1> QED BY <1>1, <1>2, <1>3, <1>4, <1>5, <1>6, <1>7, <1>8, <1>9, <1>10, <1>11, <1>12,
    <1>13, <1>14, <1>15

(* Every step keeps the consumer's hands. *)
LEMMA HandsStep ==
  ASSUME IInv, Next PROVE Hands'
<1> USE ScrapeAssumption
<1>0. queue \subseteq Item /\ NoItem \notin Item
  BY DEF IInv, TypeOK, TypeConsumer
<1>1. pc' \in {"idle", "next"} <=> cur' = NoItem
  BY <1>0, HandMoves, Holding, ClaimType DEF HandMove, Takes, Works, Drops, Stops, IInv,
      Hands
<1>2. cur' \notin queue' /\ (pc' = "idle" => queue' = {})
  BY <1>0, HandMoves, Holding, ClaimType DEF HandMove, Takes, Works, Drops, Stops, IInv,
      Hands
<1> QED BY <1>1, <1>2 DEF Hands

(* Every step keeps what the consumer is about to write. *)
LEMMA ReadyStep ==
  ASSUME IInv, Next PROVE Ready'
<1>1. CASE Claim
  BY <1>1 DEF Claim, IsBatch, Pending, IInv, Ready, Terminal
<1>2. CASE Mark
  BY <1>2 DEF Mark, SetStatus, IInv, Ready, Terminal
<1>3. CASE Check
  BY <1>3 DEF Check, IInv, Ready, Terminal
<1>4. CASE Fetch
  BY <1>4 DEF Fetch, IInv, Ready, Terminal
<1>5. CASE Apply
  BY <1>5 DEF Apply, IInv, Ready, Terminal
<1>6. CASE Link
  BY <1>6 DEF Link, Finish, IInv, Ready, Terminal
<1>7. CASE Derive
  BY <1>7 DEF Derive, IInv, Ready, Terminal
<1>8. CASE SettleSkipped
  BY <1>8 DEF SettleSkipped, SetStatus, Finish, IInv, Ready, Terminal
<1>9. CASE SettleNotFound
  BY <1>9 DEF SettleNotFound, SetStatus, Finish, Cascades, IInv, Ready, Terminal
<1>10. CASE SettleFailed
  BY <1>10 DEF SettleFailed, Finish, Cascades, ReachedLimit, IInv, Ready, Terminal
<1>11. CASE CascadeSeasons
  BY <1>11 DEF CascadeSeasons, CascadeTo, IInv, Ready, Terminal
<1>12. CASE CascadeEpisodes
  BY <1>12 DEF CascadeEpisodes, CascadeTo, Finish, IInv, Ready, Terminal
<1>13. CASE Restart
  BY <1>13 DEF Restart, IInv, Ready, Terminal
<1>14. CASE UNCHANGED <<pc, answer, outcome>>
  BY <1>14 DEF IInv, Ready, Terminal
<1>15. \/ UNCHANGED <<pc, answer, outcome>> \/ Claim \/ Mark \/ Check \/ Fetch \/ Apply
      \/ Link \/ Derive \/ SettleSkipped \/ SettleNotFound \/ SettleFailed \/ CascadeSeasons
      \/ CascadeEpisodes \/ Restart
  <2>1. Scan \/ Admin \/ Sweep => UNCHANGED <<pc, answer, outcome>>
    BY DEF Scan, Admin, Arrive, ReadNfo, NewChild, Delete, Identify, ClearMetadata,
        ForceReset, JobPoll, JobCancel, Sweep, rows, consumer, admin
  <2> QED BY <2>1 DEF Next, Consumer
<1> QED BY <1>1, <1>2, <1>3, <1>4, <1>5, <1>6, <1>7, <1>8, <1>9, <1>10, <1>11, <1>12,
    <1>13, <1>14, <1>15

(* Every step keeps the batch untouched by anyone but the consumer. *)
LEMMA BatchStep ==
  ASSUME IInv, Next PROVE BatchUntouched'
<1>0. queue \subseteq Item /\ BatchUntouched /\ cur \notin queue
  BY DEF IInv, TypeOK, TypeConsumer, Hands
<1>1. ASSUME NEW i \in queue, i \in queue' PROVE status'[i] \in {"pending", "gone"}
  <2>1. i \in Item /\ status[i] \in {"pending", "gone"}
    BY <1>0 DEF BatchUntouched
  <2>2. RowMove(i)
    BY <2>1, RowMoves
  <2>3. ~ Marked(i)
    BY <1>0, <1>1, <2>1, HandMoves DEF Marked, HandMove, Takes, Works, Drops, Stops, Claim
  <2> QED BY <1>0, <2>1, <2>2, <2>3 DEF RowMove, Frozen, Enters, Leaves, SentBack, Swept,
      Settled
<1>2. ASSUME NEW i \in queue', i \notin queue PROVE status'[i] = "pending"
  <2>1. Claim
    BY <1>2, HandMoves DEF HandMove, Takes, Works, Drops, Stops
  <2> QED BY <1>2, <2>1 DEF Claim, IsBatch, Pending, rows
<1> QED BY <1>1, <1>2 DEF BatchUntouched

(* Every step keeps the bounds on attempts. *)
LEMMA SnapStep ==
  ASSUME IInv, Next PROVE SnapBounds'
<1> USE ScrapeAssumption
<1>0. /\ queue \subseteq Item /\ NoItem \notin Item /\ SnapBounds
      /\ attempts \in [Item -> 0 .. MaxAttempts]
      /\ snap \in [Item -> [known : Tmdb \union {NoId}, tries : 0 .. MaxAttempts]]
      /\ status \in [Item -> Status] /\ WaitingHasTriesLeft
  BY DEF IInv, TypeOK, TypeConsumer, TypeRows
<1>1. ASSUME NEW i \in Item, i \in queue' \/ InFlight(i)'
      PROVE  attempts'[i] <= snap'[i].tries /\ snap'[i].tries < MaxAttempts
  <2>1. CASE Claim
    <3>1. i \in queue' /\ status[i] = "pending" /\ attempts' = attempts
      BY <1>0, <1>1, <2>1 DEF InFlight, Claim, IsBatch, Pending, rows, IInv, Hands
    <3>2. snap'[i].tries = attempts[i]
      BY <3>1, <2>1 DEF Claim
    <3> QED BY <1>0, <3>1, <3>2 DEF WaitingHasTriesLeft, Waiting
  <2>2. CASE ~ Claim
    <3>1. snap'[i] = snap[i] /\ (i \in queue \/ InFlight(i))
      BY <1>0, <1>1, <2>2, HandMoves, Holding DEF InFlight, HandMove, Takes, Works, Drops,
          Stops, IInv, Hands
    <3>2. Settled(i) => attempts'[i] = attempts[i]
      <4>1. cur \notin queue' \/ pc = "next" \/ pc = "idle"
        BY HandMoves, <2>2 DEF HandMove, Takes, Works, Drops, Stops, IInv, Hands
      <4> QED BY <1>1, <4>1 DEF Settled
    <3>3. RowMove(i)
      BY RowMoves
    <3> QED BY <1>0, <3>1, <3>2, <3>3
          DEF SnapBounds, RowMove, Frozen, Enters, Leaves, SentBack, Swept, Marked, Settled
  <2> QED BY <2>1, <2>2
<1>2. ASSUME NEW i \in Item, status'[i] = "new" PROVE attempts'[i] = 0
  <2>1. RowMove(i)
    BY RowMoves
  <2> QED BY <1>0, <1>2, <2>1 DEF SnapBounds, RowMove, Frozen, Enters, Leaves, SentBack,
      Swept, Marked, Settled
<1> QED BY <1>1, <1>2 DEF SnapBounds

(* Every step leaves a try to the items that wait: a failure that is not the
   last brings the attempts to one more than the batch query saw, at most. *)
LEMMA TriesStep ==
  ASSUME IInv, Next PROVE WaitingHasTriesLeft'
<1> USE ScrapeAssumption
<1>0. /\ attempts \in [Item -> 0 .. MaxAttempts] /\ SnapBounds /\ WaitingHasTriesLeft
      /\ snap \in [Item -> [known : Tmdb \union {NoId}, tries : 0 .. MaxAttempts]]
      /\ BatchUntouched
  BY DEF IInv, TypeOK, TypeRows, TypeConsumer
<1>1. ASSUME NEW i \in Item, status'[i] \in Waiting PROVE attempts'[i] < MaxAttempts
  <2>1. RowMove(i)
    BY RowMoves
  <2>2. CASE Settled(i)
    BY <1>0, <1>1, <2>2 DEF Settled, SnapBounds, InFlight, Waiting
  <2>3. CASE Marked(i)
    BY <1>0, <1>1, <2>3 DEF Marked, BatchUntouched, WaitingHasTriesLeft, Waiting, Present
  <2>4. CASE Frozen(i) \/ Enters(i) \/ Leaves(i) \/ SentBack(i) \/ Swept(i)
    BY <1>0, <1>1, <2>4 DEF Frozen, Enters, Leaves, SentBack, Swept, SnapBounds,
        WaitingHasTriesLeft, Waiting
  <2> QED BY <2>1, <2>2, <2>3, <2>4 DEF RowMove
<1> QED BY <1>1 DEF WaitingHasTriesLeft

(* A row leaves the consumer's hands with its outcome written. *)
LEMMA Landing ==
  ASSUME IInv, Next, NEW i \in Item, InFlight(i), status'[i] = "scraping", ~ faulted'
  PROVE  InFlight(i)' \/ sweepOwed'
<1> USE DEF InFlight
<1>0. status \in [Item -> Status] /\ ~ faulted
  <2>1. faulted \in BOOLEAN /\ status \in [Item -> Status]
    BY DEF IInv, TypeOK, TypeEnv, TypeRows
  <2>2. ~ faulted
    BY DEF Next, Consumer, Scan, Admin, Arrive, ReadNfo, NewChild, Delete, Identify,
        ClearMetadata, ForceReset, JobPoll, JobCancel, Claim, Mark, Check, Fetch, Apply,
        Link, Derive, SettleSkipped, SettleNotFound, SettleFailed, CascadeSeasons,
        CascadeEpisodes, Sweep, Restart, SetStatus, CascadeTo, Fails, Succeeds
  <2> QED BY <2>1, <2>2
<1>1. CASE Check \/ Fetch
  BY <1>1 DEF Check, Fetch
<1>2. CASE Apply
  BY <1>0, <1>2 DEF Apply, Present, Fails
<1>3. CASE SettleSkipped
  BY <1>0, <1>3 DEF SettleSkipped, SetStatus, Present, Fails
<1>4. CASE SettleNotFound
  BY <1>0, <1>4 DEF SettleNotFound, SetStatus, Present, Fails
<1>5. CASE SettleFailed
  BY <1>0, <1>5 DEF SettleFailed, Present, Fails
<1>6. CASE Restart
  BY <1>6 DEF Restart
<1>7. CASE UNCHANGED <<pc, cur>>
  BY <1>7
<1>8. \/ UNCHANGED <<pc, cur>> \/ Check \/ Fetch \/ Apply
      \/ SettleSkipped \/ SettleNotFound \/ SettleFailed \/ Restart
  BY DEF Next, Consumer, Scan, Admin, Arrive, ReadNfo, NewChild, Delete, Identify,
      ClearMetadata, ForceReset, JobPoll, JobCancel, Claim, Mark, Link, Derive,
      CascadeSeasons, CascadeEpisodes, Sweep, consumer
<1> QED BY <1>1, <1>2, <1>3, <1>4, <1>5, <1>6, <1>7, <1>8

(* Every step leaves a scraping row in the consumer's hands, or to a sweep. *)
LEMMA FlightStep ==
  ASSUME IInv, Next PROVE ScrapingIsInFlight'
<1>1. SUFFICES ASSUME ~ faulted', NEW i \in Item, status'[i] = "scraping"
               PROVE  InFlight(i)' \/ sweepOwed'
  BY DEF ScrapingIsInFlight
<1>2. RowMove(i)
  BY RowMoves
<1>3. CASE Marked(i)
  BY <1>3 DEF Marked, InFlight
<1>4. CASE status[i] = "scraping"
  <2>1. ~ faulted
    BY <1>1 DEF Next, Consumer, Scan, Admin, Arrive, ReadNfo, NewChild, Delete, Identify,
        ClearMetadata, ForceReset, JobPoll, JobCancel, Claim, Mark, Check, Fetch, Apply,
        Link, Derive, SettleSkipped, SettleNotFound, SettleFailed, CascadeSeasons,
        CascadeEpisodes, Sweep, Restart, SetStatus, CascadeTo, Fails, Succeeds, IInv,
        TypeOK, TypeEnv
  <2>2. InFlight(i) \/ sweepOwed
    BY <1>4, <2>1 DEF IInv, ScrapingIsInFlight
  <2>3. ~ Sweep
    BY <1>1 DEF Sweep, Fails, IInv, TypeOK, TypeRows
  <2>4. sweepOwed => sweepOwed'
    BY <2>3 DEF Next, Consumer, Scan, Admin, Arrive, ReadNfo, NewChild, Delete, Identify,
        ClearMetadata, ForceReset, JobPoll, JobCancel, Claim, Mark, Check, Fetch, Apply,
        Link, Derive, SettleSkipped, SettleNotFound, SettleFailed, CascadeSeasons,
        CascadeEpisodes, Restart
  <2> QED BY <1>1, <2>2, <2>4, Landing
<1>5. Marked(i) \/ status[i] = "scraping"
  BY <1>1, <1>2 DEF RowMove, Frozen, Enters, Leaves, SentBack, Swept, Settled
<1> QED BY <1>3, <1>4, <1>5

(* The invariant holds at the start. *)
LEMMA InitInv == Init => IInv
<1> SUFFICES ASSUME Init PROVE IInv
  OBVIOUS
<1> USE ScrapeAssumption
<1>1. TypeRows
  BY DEF Init, TypeRows, Status
<1>2. TypeConsumer
  BY DEF Init, Idle, NoSnap, TypeConsumer, Outcome
<1>3. TypeAdmin
  <2>1. job \in [pc : {"none", "poll", "done", "canceled"}, range : SUBSET Item,
                  cancel : BOOLEAN]
    BY DEF Init, NoJob
  <2> QED BY <2>1 DEF Init, TypeAdmin
<1>4. TypeEnv
  <2>1. crashes \in 0 .. MaxCrashes
    BY DEF Init
  <2>2. sweepOwed \in BOOLEAN /\ faulted \in BOOLEAN
    BY DEF Init
  <2> QED BY <2>1, <2>2 DEF TypeEnv
<1>5. Hands /\ Ready
  BY DEF Init, Idle, Hands, Ready
<1>6. BatchUntouched /\ SnapBounds /\ WaitingHasTriesLeft /\ ScrapingIsInFlight
  BY DEF Init, Idle, BatchUntouched, SnapBounds, InFlight, WaitingHasTriesLeft, Waiting,
      ScrapingIsInFlight
<1> QED BY <1>1, <1>2, <1>3, <1>4, <1>5, <1>6 DEF IInv, TypeOK

(* A stuttering step keeps it. *)
LEMMA StutterInv == IInv /\ UNCHANGED vars => IInv'
BY DEF IInv, TypeOK, TypeRows, TypeConsumer, TypeAdmin, TypeEnv, Hands, Ready,
    BatchUntouched, SnapBounds, InFlight, WaitingHasTriesLeft, ScrapingIsInFlight, vars,
    rows, consumer, admin

LEMMA NextInv == IInv /\ [Next]_vars => IInv'
<1>1. IInv /\ Next => IInv'
  BY TypeStep, HandsStep, ReadyStep, BatchStep, SnapStep, TriesStep, FlightStep DEF IInv
<1> QED BY <1>1, StutterInv

(* The inductive invariant holds in every reachable state. *)
THEOREM Inductive == Spec => []IInv
BY InitInv, NextInv, PTL DEF Spec

(* Every variable holds a value of its column or field; that the attempts stay
   within the limit needs the bound on what the batch query read. *)
THEOREM TypeCorrect == Spec => []TypeOK
<1>1. IInv => TypeOK
  BY DEF IInv
<1> QED BY <1>1, Inductive, PTL

(* An item that waits has a try left, whatever requests, sweeps, failures and
   restarts come between the batch query and the write of an outcome, for every
   number of items and every limit. (claim_pending_scrape, bump_scrape_attempt) *)
THEOREM TriesRemain == Spec => []WaitingHasTriesLeft
<1>1. IInv => WaitingHasTriesLeft
  BY DEF IInv
<1> QED BY <1>1, Inductive, PTL

(* As long as no dropped statement failed, a row in scraping is the one being
   scraped, or the start-up sweep will still send it back. (run_pending,
   reset_stale_scraping) *)
THEOREM NoRowStuck == Spec => []ScrapingIsInFlight
<1>1. IInv => ScrapingIsInFlight
  BY DEF IInv
<1> QED BY <1>1, Inductive, PTL

(* The unguarded UPDATE of mark_scraping only ever takes rows that are pending:
   nobody but the consumer moves a row of its batch elsewhere, except to delete
   it. (run_pending, mark_scraping) *)
THEOREM MarksPending == Spec => OnlyPendingMarked
<1> DEFINE Step == \A i \in Item :
      status[i] # "scraping" /\ status'[i] = "scraping" => status[i] = "pending"
<1>1. IInv /\ Next => Step
  <2> SUFFICES ASSUME IInv, Next, NEW i \in Item, status[i] # "scraping",
      status'[i] = "scraping"
               PROVE  status[i] = "pending"
    OBVIOUS
  <2>1. RowMove(i)
    BY RowMoves
  <2>2. Marked(i)
    BY <2>1 DEF RowMove, Frozen, Enters, Leaves, SentBack, Swept, Settled
  <2> QED BY <2>2 DEF Marked, Present, IInv, BatchUntouched
<1>2. UNCHANGED vars => Step
  BY DEF vars, rows
<1>3. IInv /\ [Next]_vars => [Step]_vars
  BY <1>1
<1> HIDE DEF Step
<1>4. Spec => [][Step]_vars
  BY <1>3, Inductive, PTL DEF Spec
<1> QED BY <1>4 DEF OnlyPendingMarked, Step

-----------------------------------------------------------------------------
(* The children of a settled series.                                       *)

(* Nothing has disturbed the cascades. *)
CascadeUndisturbed == ~ faulted /\ ~ LateChildren /\ crashes = 0

(* No season and no episode of the series waits. *)
Calm(s) == \A l \in Level : "pending" \notin kids[s][l]

(* What the two UPDATEs of the cascade have done so far: the children of a
   series that is settled, and no longer in the consumer's hands, are calm, and
   the seasons already are when it comes to the episodes. *)
Following ==
  CascadeUndisturbed =>
    /\ \A s \in Series : status[s] \in Terminal /\ cur # s => Calm(s)
    /\ pc = "episodes" /\ cur \in Series => "pending" \notin kids[cur]["season"]

(* What was not disturbed after a step was not before. *)
LEMMA StillCascadeUndisturbed ==
  ASSUME IInv, Next, CascadeUndisturbed' PROVE CascadeUndisturbed /\ ~ Restart
<1>1. ~ Restart /\ crashes = 0
  <2>1. crashes \in Nat /\ crashes' = 0
    BY ScrapeAssumption DEF IInv, TypeOK, TypeEnv, CascadeUndisturbed
  <2>2. ~ Restart
    BY <2>1 DEF Restart
  <2>3. crashes' = crashes
    BY <2>2 DEF Next, Consumer, Scan, Admin, Arrive, ReadNfo, NewChild, Delete, Identify,
        ClearMetadata, ForceReset, JobPoll, JobCancel, Claim, Mark, Check, Fetch, Apply, Link,
        Derive, SettleSkipped, SettleNotFound, SettleFailed, CascadeSeasons, CascadeEpisodes, Sweep
  <2> QED BY <2>1, <2>2, <2>3
<1>2. ~ faulted
  BY DEF IInv, TypeOK, TypeEnv, CascadeUndisturbed, Next, Consumer, Scan, Admin, Arrive, ReadNfo, NewChild,
      Delete, Identify, ClearMetadata, ForceReset, JobPoll, JobCancel, Claim, Mark, Check,
      Fetch, Apply, Link, Derive, SettleSkipped, SettleNotFound, SettleFailed,
      CascadeSeasons, CascadeEpisodes, Sweep, Restart, SetStatus, CascadeTo, Fails, Succeeds
<1> QED BY <1>1, <1>2 DEF CascadeUndisturbed

(* While nothing disturbs it, the children of a series are only touched by the
   cascade, when their row goes, or as new ones of a series that waits to be
   taken. *)
LEMMA KidsMoves ==
  ASSUME IInv, Next, CascadeUndisturbed, NEW s \in Series
  PROVE  \/ kids'[s] = kids[s]
         \/ status[s] = "pending" /\ cur # s /\ UNCHANGED <<status, cur, pc>>
         \/ status'[s] = "gone" /\ Calm(s)' /\ UNCHANGED <<cur, pc>>
         \/ cur = s /\ cur' = s /\ Derive
         \/ cur = s /\ CascadeSeasons
         \/ cur = s /\ CascadeEpisodes
<1>0. kids \in [Series -> [Level -> SUBSET Status]] /\ status \in [Item -> Status] /\ s \in Item
  BY DEF IInv, TypeOK, TypeRows, Item
<1>1. CASE kids' = kids
  BY <1>1
<1>2. ASSUME NEW i \in Series, NEW l \in Level, NewChild(i, l), i = s
      PROVE  status[s] = "pending" /\ cur # s /\ UNCHANGED <<status, cur, pc>>
  BY <1>2 DEF NewChild, CascadeUndisturbed, consumer
<1>3. ASSUME NEW i \in Series, NEW l \in Level, NewChild(i, l), i # s PROVE kids'[s] = kids[s]
  BY <1>0, <1>3 DEF NewChild
<1>4. ASSUME NEW i \in Item, Delete(i), i = s
      PROVE  status'[s] = "gone" /\ Calm(s)' /\ UNCHANGED <<cur, pc>>
  BY <1>0, <1>4 DEF Delete, Calm, consumer
<1>5. ASSUME NEW i \in Item, Delete(i), i # s PROVE kids'[s] = kids[s]
  BY <1>0, <1>5 DEF Delete
<1>6. CASE Derive
  BY <1>0, <1>6 DEF Derive
<1>7. CASE CascadeSeasons
  BY <1>0, <1>7 DEF CascadeSeasons, CascadeTo
<1>8. CASE CascadeEpisodes
  BY <1>0, <1>8 DEF CascadeEpisodes, CascadeTo
<1>9. \/ kids' = kids \/ Derive \/ CascadeSeasons \/ CascadeEpisodes
      \/ \E i \in Series, l \in Level : NewChild(i, l)
      \/ \E i \in Item : Delete(i)
  BY DEF Next, Consumer, Scan, Admin, Arrive, ReadNfo, Identify, ClearMetadata, ForceReset,
      JobPoll, JobCancel, Claim, Mark, Check, Fetch, Apply, Link, Finish, Cascades,
      SettleSkipped, SettleNotFound, SettleFailed, Sweep, Restart, rows
<1> QED BY <1>1, <1>2, <1>3, <1>4, <1>5, <1>6, <1>7, <1>8, <1>9

(* A series that leaves the consumer's hands waits again, is gone, or has its
   children settled with it. *)
LEMMA LetGo ==
  ASSUME IInv, Following, Next, CascadeUndisturbed, CascadeUndisturbed', NEW s \in Series, cur = s, cur' # s,
         status'[s] \in Terminal
  PROVE  CascadeEpisodes
<1>0. /\ status \in [Item -> Status] /\ s \in Item /\ ~ Restart
      /\ pc = "link" => s \in Series
  BY StillCascadeUndisturbed DEF IInv, TypeOK, TypeRows, Item
<1>1. CASE SettleSkipped
  BY <1>0, <1>1 DEF SettleSkipped, SetStatus, Present, Terminal, CascadeUndisturbed, Fails
<1>2. CASE SettleNotFound
  BY <1>0, <1>2 DEF SettleNotFound, Cascades
<1>3. CASE SettleFailed
  BY <1>0, <1>3 DEF SettleFailed, Cascades, Present, Terminal, CascadeUndisturbed, Fails
<1>4. CASE Link
  BY <1>4 DEF Link
<1>5. \/ UNCHANGED cur \/ Claim \/ Mark \/ Link \/ SettleSkipped \/ SettleNotFound \/ SettleFailed
      \/ CascadeEpisodes
  <2>1. Scan \/ Admin \/ Sweep => UNCHANGED cur
    BY DEF Scan, Admin, Arrive, ReadNfo, NewChild, Delete, Identify, ClearMetadata,
        ForceReset, JobPoll, JobCancel, Sweep, rows, consumer, admin
  <2> QED BY <1>0, <2>1 DEF Next, Consumer, Check, Fetch, Apply, Derive, CascadeSeasons
<1>6. CASE Claim \/ Mark
  <2>1. s # NoItem
    BY <1>0, ScrapeAssumption
  <2>2. pc \notin {"idle", "next"}
    BY <2>1 DEF IInv, Hands
  <2> QED BY <1>6, <2>2 DEF Claim, Mark
<1> QED BY <1>1, <1>2, <1>3, <1>4, <1>5, <1>6

(* A series that is settled and not in the consumer's hands: the step left it
   there, or it was the last of its cascade. *)
LEMMA CalmStep ==
  ASSUME IInv, Following, Next, CascadeUndisturbed, CascadeUndisturbed', NEW s \in Series,
         status'[s] \in Terminal, cur' # s
  PROVE  Calm(s)'
<1>0. /\ kids \in [Series -> [Level -> SUBSET Status]] /\ s \in Item /\ Level = {"season", "episode"}
      /\ pc \in {"seasons", "episodes"} => outcome \in Terminal
  BY DEF IInv, TypeOK, TypeRows, Item, Ready, Level
<1>1. CASE cur # s
  <2>1. RowMove(s)
    BY <1>0, RowMoves
  <2>2. status[s] = status'[s]
    BY <1>1, <2>1 DEF RowMove, Frozen, Enters, Leaves, SentBack, Swept, Marked, Settled, Terminal
  <2>3. Calm(s)
    BY <1>1, <2>2 DEF Following
  <2>4. kids'[s] = kids[s] \/ Calm(s)'
    BY <1>1, <2>2, KidsMoves DEF Terminal
  <2> QED BY <2>3, <2>4 DEF Calm
<1>2. CASE cur = s
  <2>1. CascadeEpisodes
    BY <1>2, LetGo
  <2>2. "pending" \notin kids[s]["season"]
    BY <1>2, <2>1 DEF CascadeEpisodes, Following
  <2>3. outcome # "pending"
    BY <1>0, <2>1 DEF CascadeEpisodes, Terminal
  <2>4. kids' = [kids EXCEPT ![s]["episode"] = IF @ = {} THEN {} ELSE {outcome}]
    BY <1>2, <2>1 DEF CascadeEpisodes, CascadeTo, CascadeUndisturbed, Fails
  <2>5. "pending" \notin kids'[s]["season"] /\ "pending" \notin kids'[s]["episode"]
    BY <1>0, <2>2, <2>3, <2>4
  <2> QED BY <1>0, <2>5 DEF Calm
<1> QED BY <1>1, <1>2

(* The seasons stay settled until the episodes are. *)
LEMMA SeasonsStep ==
  ASSUME IInv, Following, Next, CascadeUndisturbed, CascadeUndisturbed', pc' = "episodes", cur' \in Series
  PROVE  "pending" \notin kids'[cur']["season"]
<1>0. /\ kids \in [Series -> [Level -> SUBSET Status]] /\ Level = {"season", "episode"}
      /\ pc \in {"seasons", "episodes"} => outcome \in Terminal
  BY DEF IInv, TypeOK, TypeRows, Ready, Level
<1>1. CASE CascadeSeasons
  <2>1. cur' = cur /\ outcome # "pending"
    BY <1>0, <1>1 DEF CascadeSeasons, Terminal
  <2>2. kids' = [kids EXCEPT ![cur]["season"] = IF @ = {} THEN {} ELSE {outcome}]
    BY <1>1 DEF CascadeSeasons, CascadeTo, CascadeUndisturbed, Fails
  <2> QED BY <1>0, <2>1, <2>2
<1>2. CASE UNCHANGED <<pc, cur>>
  <2>1. cur \in Series /\ pc = "episodes" /\ "pending" \notin kids[cur]["season"]
    BY <1>2 DEF Following
  <2>2. \/ kids'[cur] = kids[cur] \/ Calm(cur)' \/ CascadeSeasons \/ CascadeEpisodes \/ Derive
    BY <2>1, KidsMoves
  <2>3. ~ CascadeSeasons /\ ~ CascadeEpisodes /\ ~ Derive
    BY <1>2, <2>1 DEF CascadeSeasons, CascadeEpisodes, Derive, Finish
  <2> QED BY <1>0, <1>2, <2>1, <2>2, <2>3 DEF Calm
<1>3. CascadeSeasons \/ UNCHANGED <<pc, cur>>
  <2>1. ~ Restart
    BY StillCascadeUndisturbed
  <2>2. Scan \/ Admin \/ Sweep => UNCHANGED <<pc, cur>>
    BY DEF Scan, Admin, Arrive, ReadNfo, NewChild, Delete, Identify, ClearMetadata,
        ForceReset, JobPoll, JobCancel, Sweep, rows, consumer, admin
  <2>3. Consumer => CascadeSeasons \/ pc' # "episodes"
    BY DEF Consumer, Claim, Mark, Check, Fetch, Apply, Link, Derive, SettleSkipped,
        SettleNotFound, SettleFailed, CascadeEpisodes, Finish, Cascades
  <2> QED BY <2>1, <2>2, <2>3 DEF Next
<1> QED BY <1>1, <1>2, <1>3

LEMMA FollowStep ==
  ASSUME IInv, Following, Next PROVE Following'
<1> SUFFICES ASSUME CascadeUndisturbed'
             PROVE  /\ \A s \in Series : status'[s] \in Terminal /\ cur' # s => Calm(s)'
                    /\ pc' = "episodes" /\ cur' \in Series => "pending" \notin kids'[cur']["season"]
  BY DEF Following
<1>1. CascadeUndisturbed
  BY StillCascadeUndisturbed
<1> QED BY <1>1, CalmStep, SeasonsStep

(* While no dropped statement fails, no child comes late and the process does
   not stop, the children of a settled series are settled as well: neither
   requests, sweeps nor the seasons that TMDB lists come between the two UPDATEs
   of a cascade and what it promises. (cascade_scrape_status) *)
THEOREM ChildrenAreSettled == Spec => []ChildrenFollow
<1>1. Init => Following
  BY DEF Init, Idle, Following, Terminal, Item
<1>2. IInv /\ Following /\ [Next]_vars => Following'
  <2>1. IInv /\ Following /\ UNCHANGED vars => Following'
    BY DEF Following, CascadeUndisturbed, Calm, vars, rows, consumer
  <2> QED BY <2>1, FollowStep
<1>3. Following => ChildrenFollow
  BY DEF Following, CascadeUndisturbed, Calm, ChildrenFollow
<1> QED BY <1>1, <1>2, <1>3, Inductive, PTL DEF Spec
-----------------------------------------------------------------------------
(* ScrapeStage implements ScrapeLifecycle, as long as no request has come in and
   no statement has failed.                                                 *)

(* What holds besides IInv when nobody interferes: the row in flight, and those
   of the batch, are as the batch query read them, and a skipped row has an id. *)
Undisturbed ==
  /\ requests = 0 /\ faulted = FALSE
  /\ \A i \in Item : i \in queue \/ InFlight(i) =>
       status[i] \in {"pending", "scraping", "gone"}
       /\ (Present(i) => attempts[i] = snap[i].tries)
  /\ pc = "settle" => outcome \in {"Skipped", "NotFound", "Failed"}
  /\ pc = "settle" /\ outcome = "Skipped" /\ Present(cur) => tmdb[cur] # NoId

JInv == IInv /\ Undisturbed

(* What is quiet after a step was quiet before it. *)
LEMMA Quiet ==
  ASSUME requests' = 0, faulted' = FALSE, IInv, Next
  PROVE  /\ requests = 0 /\ faulted = FALSE
         /\ ~ \E i \in Item, t \in AskId, clear \in BOOLEAN : Identify(i, t, clear)
         /\ ~ \E R \in Range : ForceReset(R)
<1>0. requests \in Nat /\ faulted \in BOOLEAN /\ ~ Fails
  BY ScrapeAssumption DEF IInv, TypeOK, TypeAdmin, TypeEnv, Fails
<1>1. /\ ~ \E i \in Item, t \in AskId, clear \in BOOLEAN : Identify(i, t, clear)
      /\ ~ \E R \in Range : ForceReset(R)
  <2>1. ASSUME NEW i \in Item, NEW t \in AskId, NEW clear \in BOOLEAN, Identify(i, t, clear)
        PROVE  FALSE
    <3>1. requests' = requests + 1
      BY <2>1 DEF Identify
    <3> QED BY <1>0, <3>1
  <2>2. ASSUME NEW R \in Range, ForceReset(R) PROVE FALSE
    <3>1. requests' = requests + 1
      BY <2>2 DEF ForceReset
    <3> QED BY <1>0, <3>1
  <2> QED BY <2>1, <2>2
<1>2. requests' = requests
  BY <1>1 DEF Next, Consumer, Scan, Admin, Arrive, ReadNfo, NewChild, Delete, ClearMetadata,
      JobPoll, JobCancel, Claim, Mark, Check, Fetch, Apply, Link, Derive, SettleSkipped,
      SettleNotFound, SettleFailed, CascadeSeasons, CascadeEpisodes, Sweep, Restart, admin
<1>3. faulted' = faulted
  BY <1>0, <1>1 DEF Next, Consumer, Scan, Admin, Arrive, ReadNfo, NewChild, Delete,
      ClearMetadata, JobPoll, JobCancel, Claim, Mark, Check, Fetch, Apply, Link, Derive,
      SettleSkipped, SettleNotFound, SettleFailed, CascadeSeasons, CascadeEpisodes, Sweep,
      Restart, SetStatus, CascadeTo, Succeeds
<1> QED BY <1>1, <1>2, <1>3

(* Attempts change only where a row is deleted or a failure is settled. *)
LEMMA AttemptsMoves ==
  ASSUME requests' = 0, faulted' = FALSE, JInv, Next
  PROVE  attempts' = attempts \/ SettleFailed \/ \E i \in Item : Delete(i)
<1>1. IInv
  BY DEF JInv
<1>2. /\ ~ \E i \in Item, t \in AskId, clear \in BOOLEAN : Identify(i, t, clear)
      /\ ~ \E R \in Range : ForceReset(R)
  BY <1>1, Quiet
<1> QED BY <1>2 DEF Next, Consumer, Scan, Admin, Arrive, ReadNfo, NewChild, ClearMetadata,
      JobPoll, JobCancel, Claim, Mark, Check, Fetch, Apply, Link, Derive, SettleSkipped,
      SettleNotFound, CascadeSeasons, CascadeEpisodes, Sweep, Restart, rows

(* A row that is in flight before and after a step is in flight as it was, put
   back by the sweep, or deleted. *)
LEMMA StaysInFlight ==
  ASSUME requests' = 0, faulted' = FALSE, JInv, Next, NEW i \in Item, InFlight(i), InFlight(i)'
  PROVE  status'[i] \in {status[i], "pending", "gone"} /\ ~ SettleFailed
<1>0. status \in [Item -> Status] /\ i \notin queue
  BY DEF JInv, IInv, TypeOK, TypeRows, Hands, InFlight
<1>a. IInv /\ ~ (\E k \in Item, t \in AskId, clear \in BOOLEAN : Identify(k, t, clear))
      /\ ~ (\E R \in Range : ForceReset(R))
  BY Quiet DEF JInv
<1>1. pc \in {"check", "fetch", "apply", "settle"} /\ pc' \in {"check", "fetch", "apply", "settle"}
  BY DEF InFlight
<1>2. CASE Consumer
  <2>1. ~ (Claim \/ Mark \/ Link \/ Derive \/ CascadeSeasons \/ CascadeEpisodes)
    BY <1>1 DEF Claim, Mark, Link, Derive, CascadeSeasons, CascadeEpisodes
  <2>2. ~ (SettleSkipped \/ SettleNotFound \/ SettleFailed)
    BY <1>1 DEF SettleSkipped, SettleNotFound, SettleFailed, Finish, Cascades
  <2>3. Check \/ Fetch \/ Apply
    BY <1>2, <2>1, <2>2 DEF Consumer
  <2> QED BY <1>0, <1>1, <2>2, <2>3 DEF Check, Fetch, Apply, rows
<1>3. CASE Scan \/ Admin \/ Sweep \/ Restart
  <2>1. ~ SettleFailed
    BY <1>0, <1>1, <1>3 DEF SettleFailed, Finish, Cascades
  <2>2. status' = status \/ Sweep \/ \E k \in Item : Arrive(k) \/ Delete(k)
    BY <1>3, <1>a DEF Scan, Admin, ReadNfo, NewChild, ClearMetadata, JobPoll, JobCancel,
        Restart, rows
  <2>3. Arrive(i) => status'[i] = "pending"
    BY <1>0 DEF Arrive
  <2> QED BY <1>0, <2>1, <2>2, <2>3 DEF Sweep, Arrive, Delete
<1> QED BY <1>2, <1>3 DEF Next

(* Every step keeps it. *)
LEMMA UndisturbedStep ==
  ASSUME requests' = 0, faulted' = FALSE, JInv, Next PROVE Undisturbed'
<1> USE ScrapeAssumption
<1>0. /\ IInv /\ status \in [Item -> Status] /\ attempts \in [Item -> 0 .. MaxAttempts]
      /\ tmdb \in [Item -> Text \union {NoId}] /\ queue \subseteq Item /\ NoItem \notin Item
      /\ snap \in [Item -> [known : Tmdb \union {NoId}, tries : 0 .. MaxAttempts]]
  BY DEF JInv, IInv, TypeOK, TypeRows, TypeConsumer
<1>a. /\ ~ \E k \in Item, t \in AskId, clear \in BOOLEAN : Identify(k, t, clear)
      /\ ~ \E R \in Range : ForceReset(R)
  BY <1>0, Quiet
<1>1. ASSUME NEW i \in Item, i \in queue' \/ InFlight(i)'
      PROVE  /\ status'[i] \in {"pending", "scraping", "gone"}
             /\ (Present(i)' => attempts'[i] = snap'[i].tries)
  <2>1. CASE Claim
    <3>0. i \in queue' /\ UNCHANGED <<status, attempts>>
      BY <1>1, <2>1 DEF InFlight, Claim, rows
    <3>1. status[i] = "pending"
      BY <2>1, <3>0 DEF Claim, IsBatch, Pending
    <3>2. snap'[i].tries = attempts[i]
      BY <3>0, <2>1 DEF Claim
    <3> QED BY <3>0, <3>1, <3>2
  <2>2. CASE ~ Claim
    <3>1. snap'[i] = snap[i] /\ (i \in queue \/ InFlight(i))
      BY <1>0, <1>1, <2>2, HandMoves, Holding DEF InFlight, HandMove, Takes, Works, Drops,
          Stops, IInv, Hands
    <3>2. status[i] \in {"pending", "scraping", "gone"}
      BY <3>1 DEF JInv, Undisturbed
    <3>3. status'[i] \in {"pending", "scraping", "gone"} /\ (InFlight(i) => ~ SettleFailed)
      <4>1. CASE InFlight(i) /\ InFlight(i)'
        BY <3>2, <4>1, StaysInFlight
      <4>2. CASE i \in queue
        <5>1. i # cur /\ RowMove(i)
          BY <1>0, <4>2, RowMoves DEF IInv, Hands
        <5> QED BY <3>2, <5>1 DEF RowMove, Frozen, Enters, Leaves, SentBack, Swept, Marked,
              Settled, InFlight
      <4>3. CASE InFlight(i) /\ i \in queue'
        BY <1>0, <4>3, <2>2, HandMoves DEF InFlight, HandMove, Takes, Works, Drops, Stops,
            IInv, Hands
      <4> QED BY <1>1, <3>1, <4>1, <4>2, <4>3
    <3>4. Present(i)' => attempts'[i] = attempts[i] /\ Present(i)
      <4>1. CASE SettleFailed
        BY <1>0, <3>1, <3>3, <4>1 DEF SettleFailed, IInv, Hands, InFlight, Present
      <4>2. ASSUME NEW k \in Item, Delete(k) PROVE Present(i)' => attempts'[i] = attempts[i]
        BY <1>0, <4>2 DEF Delete, Present
      <4>3. Present(i)' => attempts'[i] = attempts[i]
        BY <4>1, <4>2, AttemptsMoves
      <4>4. Present(i)' => Present(i)
        BY <1>0, <3>2, RowMoves DEF RowMove, Frozen, Enters, Leaves, SentBack, Swept, Marked,
            Settled, Present, IInv, BatchUntouched
      <4> QED BY <4>3, <4>4
    <3> QED BY <3>1, <3>3, <3>4 DEF JInv, Undisturbed
  <2> QED BY <2>1, <2>2
<1>2. ASSUME pc' = "settle"
      PROVE  /\ outcome' \in {"Skipped", "NotFound", "Failed"}
             /\ (outcome' = "Skipped" /\ Present(cur)' => tmdb'[cur'] # NoId)
  <2>1. CASE Check
    BY <1>2, <2>1 DEF Check, rows, Present
  <2>2. CASE Fetch \/ Apply
    BY <1>2, <2>2 DEF Fetch, Apply
  <2>3. CASE UNCHANGED consumer
    <3>1. pc = "settle" /\ cur \in Item /\ UNCHANGED <<pc, cur, outcome>>
      BY <1>0, <1>2, <2>3, Holding DEF consumer
    <3>2. outcome = "Skipped" /\ Present(cur) => tmdb[cur] # NoId
      BY <3>1 DEF JInv, Undisturbed
    <3>3. Present(cur)' => Present(cur)
      <4>1. InFlight(cur)
        BY <3>1 DEF InFlight
      <4>2. status[cur] \in {"pending", "scraping", "gone"}
        BY <3>1, <4>1 DEF JInv, Undisturbed
      <4> QED BY <1>0, <3>1, <4>2, RowMoves DEF RowMove, Frozen, Enters, Leaves, SentBack,
            Swept, Marked, Settled, Present
    <3>4. Present(cur)' => tmdb'[cur] \in Text \/ tmdb'[cur] = tmdb[cur]
      <4>1. tmdb' = tmdb \/ (\E k \in Item, t \in NfoId : ReadNfo(k, t))
            \/ (\E k \in Item : Delete(k)) \/ Apply
        BY <1>a DEF Next, Consumer, Scan, Admin, Arrive, NewChild, ClearMetadata, JobPoll,
            JobCancel, Claim, Mark, Check, Fetch, Link, Derive, SettleSkipped,
            SettleNotFound, SettleFailed, CascadeSeasons, CascadeEpisodes, Sweep, Restart,
            rows
      <4>2. ~ Apply
        BY <3>1 DEF Apply
      <4> QED BY <1>0, <3>1, <4>1, <4>2 DEF ReadNfo, Delete, Present
    <3> QED BY <3>1, <3>2, <3>3, <3>4 DEF JInv, Undisturbed
  <2>4. UNCHANGED consumer \/ Check \/ Fetch \/ Apply
    <3>1. Scan \/ Admin \/ Sweep => UNCHANGED consumer
      BY DEF Scan, Admin, Arrive, ReadNfo, NewChild, Delete, Identify, ClearMetadata,
          ForceReset, JobPoll, JobCancel, Sweep, rows, consumer, admin
    <3>2. ~ (Claim \/ Mark \/ Link \/ Derive \/ SettleSkipped \/ SettleNotFound \/ SettleFailed
             \/ CascadeSeasons \/ CascadeEpisodes \/ Restart)
      BY <1>2 DEF Claim, Mark, Link, Derive, SettleSkipped, SettleNotFound, SettleFailed,
          Cascades, Finish, CascadeSeasons, CascadeEpisodes, Restart
    <3> QED BY <3>1, <3>2 DEF Next, Consumer
  <2> QED BY <2>1, <2>2, <2>3, <2>4
<1> QED BY <1>1, <1>2, Quiet DEF Undisturbed

-----------------------------------------------------------------------------
(* What a step does to the mapped state, item by item. *)
SamePhases(S) == \A k \in Item \ S : ItemPhase(k)' = ItemPhase(k)
SameRest == UNCHANGED <<attempts, tmdb, sweepOwed>>

(* Steps that leave every item in its phase. *)
LEMMA Unseen ==
  ASSUME JInv, \/ Claim \/ Check \/ Fetch \/ Link \/ Derive \/ CascadeSeasons \/ CascadeEpisodes
               \/ (\E s \in Series, l \in Level : NewChild(s, l))
               \/ (\E i \in Item : ClearMetadata(i)) \/ JobPoll \/ JobCancel
  PROVE  SamePhases({}) /\ SameRest
<1>1. status' = status /\ SameRest
  BY DEF SameRest, Claim, Check, Fetch, Link, Derive, CascadeSeasons, CascadeEpisodes, NewChild,
      ClearMetadata, JobPoll, JobCancel, rows
<1>2. \A k \in Item : InFlight(k)' <=> InFlight(k)
  BY DEF InFlight, Claim, Check, Fetch, Link, Derive, CascadeSeasons, CascadeEpisodes, Finish,
      NewChild, ClearMetadata, JobPoll, JobCancel, consumer
<1> QED BY <1>1, <1>2 DEF SamePhases, ItemPhase, Present

(* Steps of the consumer that move the item it holds, or nothing when the item
   was deleted. *)
LEMMA SeenMark ==
  ASSUME requests' = 0, faulted' = FALSE, JInv, Mark
  PROVE  /\ SameRest
         /\ \/ SamePhases({})
            \/ \E i \in Item : /\ SamePhases({i}) /\ attempts[i] < MaxAttempts
                             /\ ItemPhase(i) = "pending" /\ ItemPhase(i)' = "scraping"
<1>0. status \in [Item -> Status] /\ ~ Fails /\ queue \subseteq Item
  BY DEF JInv, IInv, TypeOK, TypeRows, TypeConsumer, Fails
<1>1. PICK i \in queue : SetStatus(i, "scraping") /\ cur' = i
  BY DEF Mark
<1>2. pc = "next" /\ pc' \in {"check", "fetch"} /\ SameRest /\ i \in Item
  BY <1>0 DEF Mark, SameRest
<1>3. \A k \in Item : ~ InFlight(k) /\ (InFlight(k)' <=> k = i)
  BY <1>1, <1>2 DEF InFlight
<1>4. CASE Present(i)
  <2>1. status' = [status EXCEPT ![i] = "scraping"]
    BY <1>0, <1>1, <1>4 DEF SetStatus
  <2>2. status[i] = "pending" /\ attempts[i] < MaxAttempts
    BY <1>2, <1>4 DEF JInv, IInv, BatchUntouched, Present, WaitingHasTriesLeft, Waiting
  <2>3. ItemPhase(i) = "pending" /\ ItemPhase(i)' = "scraping"
    BY <1>0, <1>2, <1>3, <2>1, <2>2 DEF ItemPhase, Present
  <2>4. SamePhases({i})
    BY <1>0, <1>2, <1>3, <2>1 DEF SamePhases, ItemPhase, Present
  <2> QED BY <1>2, <2>2, <2>3, <2>4
<1>5. CASE ~ Present(i)
  <2>1. status' = status
    BY <1>0, <1>1, <1>5 DEF SetStatus
  <2>2. SamePhases({})
    BY <1>3, <1>5, <2>1 DEF SamePhases, ItemPhase, Present
  <2> QED BY <1>2, <2>2
<1> QED BY <1>4, <1>5

(* The consumer writes the status of the item it holds, and lets it go. *)
LEMMA Landed ==
  ASSUME JInv, pc \in {"apply", "settle"}, pc' \notin {"check", "fetch", "apply", "settle"},
         \A k \in Item : (k # cur \/ ~ Present(cur)) => status'[k] = status[k]
  PROVE  \E i \in Item :
           /\ i = cur
           /\ \/ SamePhases({}) /\ ~ Present(i)
              \/ /\ SamePhases({i}) /\ Present(i)
                 /\ ItemPhase(i) = "scraping" /\ ItemPhase(i)' = status'[i]
<1>0. status \in [Item -> Status] /\ cur \in Item
  BY Holding DEF JInv, IInv, TypeOK, TypeRows
<1>1. \A k \in Item : ~ InFlight(k)' /\ (InFlight(k) <=> k = cur)
  BY DEF InFlight
<1>2. PICK i \in Item : i = cur
  BY <1>0
<1>3. CASE Present(i)
  <2>1. ItemPhase(i) = "scraping"
    BY <1>1, <1>2, <1>3 DEF ItemPhase
  <2>2. ItemPhase(i)' = status'[i]
    BY <1>0, <1>1, <1>2, <1>3 DEF ItemPhase
  <2>3. SamePhases({i})
    BY <1>0, <1>1, <1>2, <1>3 DEF SamePhases, ItemPhase
  <2> QED BY <1>2, <1>3, <2>1, <2>2, <2>3
<1>4. CASE ~ Present(i)
  <2>1. SamePhases({})
    BY <1>0, <1>1, <1>2, <1>4 DEF SamePhases, ItemPhase
  <2> QED BY <1>2, <1>4, <2>1
<1> QED BY <1>3, <1>4

LEMMA SeenApply ==
  ASSUME requests' = 0, faulted' = FALSE, JInv, Apply
  PROVE  /\ UNCHANGED <<attempts, sweepOwed>>
         /\ \/ SamePhases({}) /\ tmdb' = tmdb
            \/ \E i \in Item, t \in Tmdb :
                 /\ SamePhases({i}) /\ ItemPhase(i) = "scraping" /\ ItemPhase(i)' = "scraped"
                 /\ tmdb' = [tmdb EXCEPT ![i] = t]
<1>0. ~ Fails /\ answer \in Tmdb /\ pc = "apply" /\ UNCHANGED <<attempts, sweepOwed>>
  BY Holding DEF JInv, Fails, Apply
<1>1. CASE pc' = "link"
  <2>1. /\ status' = IF Present(cur) THEN [status EXCEPT ![cur] = "scraped"] ELSE status
        /\ tmdb' = IF Present(cur) THEN [tmdb EXCEPT ![cur] = answer] ELSE tmdb
    BY <1>1 DEF Apply
  <2>2. PICK i \in Item :
           /\ i = cur
           /\ \/ SamePhases({}) /\ ~ Present(i)
              \/ /\ SamePhases({i}) /\ Present(i)
                 /\ ItemPhase(i) = "scraping" /\ ItemPhase(i)' = status'[i]
    BY <1>0, <1>1, <2>1, Landed DEF JInv, IInv, TypeOK, TypeRows
  <2>3. Present(i) => status'[i] = "scraped"
    BY <2>1, <2>2 DEF JInv, IInv, TypeOK, TypeRows
  <2> QED BY <1>0, <2>1, <2>2, <2>3
<1>2. CASE pc' # "link"
  <2>1. UNCHANGED <<status, tmdb, cur>> /\ pc' = "settle"
    BY <1>2 DEF Apply
  <2>2. \A k \in Item : InFlight(k)' <=> InFlight(k)
    BY <1>0, <2>1 DEF InFlight
  <2>3. SamePhases({})
    BY <2>1, <2>2 DEF SamePhases, ItemPhase, Present
  <2> QED BY <1>0, <2>1, <2>3
<1> QED BY <1>1, <1>2

LEMMA SeenSettle ==
  ASSUME requests' = 0, faulted' = FALSE, JInv, SettleSkipped \/ SettleNotFound
  PROVE  /\ SameRest
         /\ \/ SamePhases({})
            \/ \E i \in Item :
                 /\ SamePhases({i}) /\ ItemPhase(i) = "scraping"
                 /\ \/ ItemPhase(i)' = "pending" /\ tmdb[i] # NoId
                    \/ ItemPhase(i)' = "none"
<1>0. ~ Fails /\ pc = "settle" /\ SameRest
  BY DEF JInv, Fails, SettleSkipped, SettleNotFound, SameRest
<1>1. CASE SettleSkipped
  <2>1. /\ status' = IF Present(cur) THEN [status EXCEPT ![cur] = "pending"] ELSE status
        /\ pc' \in {"idle", "next"} /\ outcome = "Skipped"
    BY <1>0, <1>1 DEF SettleSkipped, SetStatus, Finish
  <2>2. Present(cur) => tmdb[cur] # NoId
    BY <1>0, <2>1 DEF JInv, Undisturbed
  <2>3. PICK i \in Item :
           /\ i = cur
           /\ \/ SamePhases({}) /\ ~ Present(i)
              \/ /\ SamePhases({i}) /\ Present(i)
                 /\ ItemPhase(i) = "scraping" /\ ItemPhase(i)' = status'[i]
    BY <1>0, <2>1, Landed DEF JInv, IInv, TypeOK, TypeRows
  <2>4. Present(i) => status'[i] = "pending"
    BY <2>1, <2>3 DEF JInv, IInv, TypeOK, TypeRows
  <2> QED BY <1>0, <2>2, <2>3, <2>4
<1>2. CASE SettleNotFound
  <2>1. /\ status' = IF Present(cur) THEN [status EXCEPT ![cur] = "none"] ELSE status
        /\ pc' \in {"idle", "next", "seasons"}
    BY <1>0, <1>2 DEF SettleNotFound, SetStatus, Finish, Cascades
  <2>2. PICK i \in Item :
           /\ i = cur
           /\ \/ SamePhases({}) /\ ~ Present(i)
              \/ /\ SamePhases({i}) /\ Present(i)
                 /\ ItemPhase(i) = "scraping" /\ ItemPhase(i)' = status'[i]
    BY <1>0, <2>1, Landed DEF JInv, IInv, TypeOK, TypeRows
  <2>3. Present(i) => status'[i] = "none"
    BY <2>1, <2>2 DEF JInv, IInv, TypeOK, TypeRows
  <2> QED BY <1>0, <2>2, <2>3
<1> QED BY <1>1, <1>2

LEMMA SeenFailed ==
  ASSUME requests' = 0, faulted' = FALSE, JInv, SettleFailed
  PROVE  /\ UNCHANGED <<tmdb, sweepOwed>>
         /\ \/ SamePhases({}) /\ attempts' = attempts
            \/ \E i \in Item :
                 /\ SamePhases({i}) /\ ItemPhase(i) = "scraping"
                 /\ ItemPhase(i)' = IF MaxAttempts - attempts[i] = 1 THEN "failed" ELSE "pending"
                 /\ attempts' = [attempts EXCEPT ![i] = @ + 1]
<1> USE ScrapeAssumption
<1> DEFINE v == IF ReachedLimit THEN "failed" ELSE "pending"
<1>0. /\ ~ Fails /\ pc = "settle" /\ UNCHANGED <<tmdb, sweepOwed>> /\ cur \in Item
      /\ attempts \in [Item -> 0 .. MaxAttempts]
      /\ snap \in [Item -> [known : Tmdb \union {NoId}, tries : 0 .. MaxAttempts]]
  BY Holding DEF JInv, Fails, SettleFailed, IInv, TypeOK, TypeRows, TypeConsumer
<1>1. /\ status' = IF Present(cur) THEN [status EXCEPT ![cur] = v] ELSE status
      /\ attempts' = IF Present(cur) THEN [attempts EXCEPT ![cur] = @ + 1] ELSE attempts
  BY <1>0 DEF SettleFailed
<1>2. pc' \in {"idle", "next", "seasons"}
  BY DEF SettleFailed, Finish, Cascades
<1>3. Present(cur) => v = IF MaxAttempts - attempts[cur] = 1 THEN "failed" ELSE "pending"
  <2>1. SUFFICES ASSUME Present(cur) PROVE ReachedLimit <=> MaxAttempts - attempts[cur] = 1
    OBVIOUS
  <2>2. InFlight(cur)
    BY <1>0 DEF InFlight
  <2>3. attempts[cur] = snap[cur].tries /\ snap[cur].tries < MaxAttempts
    BY <1>0, <2>1, <2>2 DEF JInv, Undisturbed, IInv, SnapBounds
  <2> QED BY <1>0, <2>3 DEF ReachedLimit
<1> HIDE DEF v
<1>4. PICK i \in Item :
         /\ i = cur
         /\ \/ SamePhases({}) /\ ~ Present(i)
            \/ /\ SamePhases({i}) /\ Present(i)
               /\ ItemPhase(i) = "scraping" /\ ItemPhase(i)' = status'[i]
  BY <1>0, <1>1, <1>2, Landed DEF JInv, IInv, TypeOK, TypeRows
<1>5. Present(i) => status'[i] = v
  BY <1>1, <1>4 DEF JInv, IInv, TypeOK, TypeRows
<1> QED BY <1>0, <1>1, <1>3, <1>4, <1>5

(* The scan and deletions. *)
LEMMA SeenArrive ==
  ASSUME JInv, NEW i \in Item, Arrive(i)
  PROVE  SameRest /\ SamePhases({i}) /\ ItemPhase(i) = "new" /\ ItemPhase(i)' = "pending"
<1>0. status \in [Item -> Status] /\ status[i] = "new" /\ SameRest
  BY DEF JInv, IInv, TypeOK, TypeRows, Arrive, SameRest
<1>1. ~ InFlight(i)
  BY <1>0 DEF JInv, Undisturbed
<1>2. \A k \in Item : InFlight(k)' <=> InFlight(k)
  BY DEF Arrive, InFlight, consumer
<1>3. status' = [status EXCEPT ![i] = "pending"]
  BY DEF Arrive
<1> QED BY <1>0, <1>1, <1>2, <1>3 DEF SamePhases, ItemPhase, Present

LEMMA SeenReadNfo ==
  ASSUME JInv, NEW i \in Item, NEW t \in NfoId, ReadNfo(i, t)
  PROVE  /\ UNCHANGED <<attempts, sweepOwed>> /\ SamePhases({})
         /\ ItemPhase(i) \notin {"new", "gone"} /\ tmdb' = [tmdb EXCEPT ![i] = t]
BY DEF ReadNfo, consumer, SamePhases, ItemPhase, InFlight, Present

LEMMA SeenDelete ==
  ASSUME JInv, NEW i \in Item, Delete(i)
  PROVE  /\ SamePhases({i}) /\ ItemPhase(i) # "new" /\ ItemPhase(i)' = "gone"
         /\ attempts' = [attempts EXCEPT ![i] = 0] /\ tmdb' = [tmdb EXCEPT ![i] = NoId]
         /\ sweepOwed' = sweepOwed
<1>0. status \in [Item -> Status] /\ status' = [status EXCEPT ![i] = "gone"] /\ Present(i)
  BY DEF JInv, IInv, TypeOK, TypeRows, Delete
<1>1. \A k \in Item : InFlight(k)' <=> InFlight(k)
  BY DEF Delete, InFlight, consumer
<1>2. SamePhases({i}) /\ ItemPhase(i) # "new" /\ ItemPhase(i)' = "gone"
  BY <1>0, <1>1 DEF SamePhases, ItemPhase, Present
<1> QED BY <1>2 DEF Delete

(* The sweep and a restart put back items that were taken. *)
LEMMA SeenSweep ==
  ASSUME requests' = 0, faulted' = FALSE, JInv, Sweep
  PROVE  /\ UNCHANGED <<attempts, tmdb>> /\ sweepOwed /\ ~ sweepOwed'
         /\ \E S \in SUBSET Item : /\ SamePhases(S)
              /\ \A k \in S : ItemPhase(k) = "scraping" /\ ItemPhase(k)' = "pending"
<1> DEFINE S == {k \in Item : status[k] = "scraping" /\ ~ InFlight(k)}
<1>1. status' = [i \in Item |-> IF status[i] = "scraping" THEN "pending" ELSE status[i]]
  BY DEF Sweep, JInv, Fails
<1>2. \A k \in Item : InFlight(k)' <=> InFlight(k)
  BY DEF Sweep, InFlight, consumer
<1>3. SamePhases(S) /\ \A k \in S : ItemPhase(k) = "scraping" /\ ItemPhase(k)' = "pending"
  BY <1>1, <1>2 DEF SamePhases, ItemPhase, Present
<1> QED BY <1>3 DEF Sweep

LEMMA SeenRestart ==
  ASSUME JInv, Restart
  PROVE  /\ UNCHANGED <<attempts, tmdb>> /\ sweepOwed' = TRUE
         /\ \E S \in SUBSET Item : /\ SamePhases(S)
              /\ \A k \in S : ItemPhase(k) = "scraping" /\ ItemPhase(k)' = "pending"
<1> DEFINE S == {k \in Item : status[k] = "pending" /\ InFlight(k)}
<1>1. status' = status /\ UNCHANGED <<attempts, tmdb>> /\ sweepOwed' = TRUE /\ pc' = "idle"
  BY DEF Restart, rows
<1>2. \A k \in Item : ~ InFlight(k)'
  BY <1>1 DEF InFlight
<1>3. \A k \in Item : InFlight(k) => status[k] \in {"pending", "scraping", "gone"}
  BY DEF JInv, Undisturbed
<1>4. SamePhases(S) /\ \A k \in S : ItemPhase(k) = "scraping" /\ ItemPhase(k)' = "pending"
  BY <1>1, <1>2, <1>3 DEF SamePhases, ItemPhase, Present
<1> QED BY <1>1, <1>4

-----------------------------------------------------------------------------
(* The refinement. *)
LEMMA InitMaps == Init => Lifecycle!Init
<1> SUFFICES ASSUME Init PROVE Lifecycle!Init
  OBVIOUS
<1>1. \A i \in Item : ItemPhase(i) = "new" /\ MaxAttempts - attempts[i] = MaxAttempts
                      /\ tmdb[i] = NoId
  BY ScrapeAssumption DEF Init, Idle, ItemPhase, InFlight
<1>2. sweepOwed = TRUE
  BY DEF Init
<1> QED BY <1>1, <1>2 DEF Lifecycle!Init

(* One item moves, and nothing else. *)
LEMMA Moved ==
  ASSUME NEW i \in Item, SamePhases({i})
  PROVE  [k \in Item |-> ItemPhase(k)]'
           = [[k \in Item |-> ItemPhase(k)] EXCEPT ![i] = ItemPhase(i)']
BY DEF SamePhases

(* Every step is a step of the life of one item, a sweep or a stop of the
   abstract stage, or nothing that it sees. *)
LEMMA StepMaps ==
  ASSUME requests' = 0, faulted' = FALSE, JInv, Next
  PROVE  Lifecycle!Next \/ UNCHANGED Lifecycle!vars
<1> DEFINE phase == [i \in Item |-> ItemPhase(i)]
           left == [i \in Item |-> MaxAttempts - attempts[i]]
           named == {i \in Item : tmdb[i] # NoId}
<1>0. attempts \in [Item -> 0 .. MaxAttempts] /\ tmdb \in [Item -> Text \union {NoId}]
      /\ MaxAttempts \in Nat \ {0} /\ NoId \notin Text /\ Tmdb \subseteq Text
      /\ NfoId \subseteq Text
  BY ScrapeAssumption DEF JInv, IInv, TypeOK, TypeRows, Text
<1>1. SamePhases({}) => phase' = phase
  BY DEF SamePhases
<1>2. attempts' = attempts => left' = left
  OBVIOUS
<1>3. tmdb' = tmdb => named' = named
  OBVIOUS
<1>4. CASE SamePhases({}) /\ SameRest
  BY <1>1, <1>2, <1>3, <1>4 DEF SameRest, Lifecycle!vars
<1>5. CASE Mark
  <2>1. CASE SamePhases({})
    BY <1>4, <1>5, <2>1, SeenMark
  <2>2. CASE ~ SamePhases({})
    <3>1. PICK i \in Item : /\ SamePhases({i}) /\ attempts[i] < MaxAttempts
                            /\ ItemPhase(i) = "pending" /\ ItemPhase(i)' = "scraping"
      BY <1>5, <2>2, SeenMark
    <3>2. SameRest
      BY <1>5, SeenMark
    <3>3. phase' = [phase EXCEPT ![i] = "scraping"] /\ phase[i] = "pending" /\ left[i] > 0
      BY <1>0, <3>1, Moved
    <3>4. Lifecycle!Take(i)
      BY <1>2, <1>3, <3>2, <3>3 DEF SameRest, Lifecycle!Take, Lifecycle!Moves
    <3> QED BY <3>4 DEF Lifecycle!Next
  <2> QED BY <2>1, <2>2
<1>6. CASE Apply
  <2>1. UNCHANGED <<attempts, sweepOwed>>
    BY <1>6, SeenApply
  <2>2. CASE SamePhases({}) /\ tmdb' = tmdb
    BY <1>4, <2>1, <2>2 DEF SameRest
  <2>3. ASSUME NEW i \in Item, NEW t \in Tmdb, SamePhases({i}), ItemPhase(i) = "scraping",
               ItemPhase(i)' = "scraped", tmdb' = [tmdb EXCEPT ![i] = t]
        PROVE  Lifecycle!Next
    <3>1. phase' = [phase EXCEPT ![i] = "scraped"] /\ phase[i] = "scraping"
      BY <2>3, Moved
    <3>2. named' = named \union {i}
      BY <1>0, <2>3
    <3>3. Lifecycle!Scraped(i)
      BY <1>2, <2>1, <3>1, <3>2 DEF Lifecycle!Scraped, Lifecycle!Moves
    <3> QED BY <3>3 DEF Lifecycle!Next
  <2> QED BY <1>6, <2>2, <2>3, SeenApply
<1>7. CASE SettleSkipped \/ SettleNotFound
  <2>1. SameRest
    BY <1>7, SeenSettle
  <2>2. ASSUME NEW i \in Item, SamePhases({i}), ItemPhase(i) = "scraping",
               \/ ItemPhase(i)' = "pending" /\ tmdb[i] # NoId
               \/ ItemPhase(i)' = "none"
        PROVE  Lifecycle!Next
    <3>1. phase' = [phase EXCEPT ![i] = ItemPhase(i)'] /\ phase[i] = "scraping"
      BY <2>2, Moved
    <3>2. CASE ItemPhase(i)' = "pending" /\ tmdb[i] # NoId
      <4>1. Lifecycle!Skip(i)
        BY <1>2, <1>3, <2>1, <3>1, <3>2 DEF SameRest, Lifecycle!Skip, Lifecycle!Moves
      <4> QED BY <4>1 DEF Lifecycle!Next
    <3>3. CASE ItemPhase(i)' = "none"
      <4>1. Lifecycle!NoMatch(i)
        BY <1>2, <1>3, <2>1, <3>1, <3>3 DEF SameRest, Lifecycle!NoMatch, Lifecycle!Moves
      <4> QED BY <4>1 DEF Lifecycle!Next
    <3> QED BY <2>2, <3>2, <3>3
  <2> QED BY <1>4, <1>7, <2>1, <2>2, SeenSettle
<1>8. CASE SettleFailed
  <2>1. UNCHANGED <<tmdb, sweepOwed>>
    BY <1>8, SeenFailed
  <2>2. ASSUME NEW i \in Item, SamePhases({i}), ItemPhase(i) = "scraping",
               ItemPhase(i)' = IF MaxAttempts - attempts[i] = 1 THEN "failed" ELSE "pending",
               attempts' = [attempts EXCEPT ![i] = @ + 1]
        PROVE  Lifecycle!Next
    <3>1. /\ phase' = [phase EXCEPT ![i] = IF left[i] = 1 THEN "failed" ELSE "pending"]
          /\ phase[i] = "scraping"
      BY <2>2, Moved
    <3>2. left' = [left EXCEPT ![i] = @ - 1]
      <4>1. \A k \in Item : attempts'[k] = IF k = i THEN attempts[i] + 1 ELSE attempts[k]
        BY <1>0, <2>2
      <4>2. attempts[i] \in Int /\ MaxAttempts \in Int
        BY <1>0
      <4>3. MaxAttempts - (attempts[i] + 1) = (MaxAttempts - attempts[i]) - 1
        BY <4>2
      <4>4. \A k \in Item : MaxAttempts - attempts'[k]
              = IF k = i THEN (MaxAttempts - attempts[i]) - 1 ELSE MaxAttempts - attempts[k]
        BY <4>1, <4>3, Zenon
      <4> QED BY <4>4, Zenon
    <3>3. Lifecycle!FailOnce(i)
      BY <1>3, <2>1, <3>1, <3>2 DEF Lifecycle!FailOnce, Lifecycle!Moves
    <3> QED BY <3>3 DEF Lifecycle!Next
  <2> QED BY <1>4, <1>8, <2>1, <2>2, SeenFailed DEF SameRest
<1>9. ASSUME NEW i \in Item, Arrive(i) PROVE Lifecycle!Next
  <2>1. SameRest /\ phase' = [phase EXCEPT ![i] = "pending"] /\ phase[i] = "new"
    BY <1>9, SeenArrive, Moved
  <2>2. Lifecycle!Enter(i)
    BY <1>2, <1>3, <2>1 DEF SameRest, Lifecycle!Enter, Lifecycle!Moves
  <2> QED BY <2>2 DEF Lifecycle!Next
<1>10. ASSUME NEW i \in Item, NEW t \in NfoId, ReadNfo(i, t) PROVE Lifecycle!Next
  <2>1. /\ UNCHANGED <<attempts, sweepOwed>> /\ phase' = phase
        /\ phase[i] \notin {"new", "gone"} /\ tmdb' = [tmdb EXCEPT ![i] = t]
    BY <1>1, <1>10, SeenReadNfo
  <2>2. named' = named \union {i}
    BY <1>0, <2>1
  <2>3. Lifecycle!Name(i)
    BY <1>2, <2>1, <2>2 DEF Lifecycle!Name
  <2> QED BY <2>3 DEF Lifecycle!Next
<1>11. ASSUME NEW i \in Item, Delete(i) PROVE Lifecycle!Next
  <2>1. /\ phase' = [phase EXCEPT ![i] = "gone"] /\ phase[i] # "new"
        /\ attempts' = [attempts EXCEPT ![i] = 0] /\ tmdb' = [tmdb EXCEPT ![i] = NoId]
        /\ sweepOwed' = sweepOwed
    BY <1>11, SeenDelete, Moved
  <2>2. left' = [left EXCEPT ![i] = MaxAttempts]
    <3>1. \A k \in Item : attempts'[k] = IF k = i THEN 0 ELSE attempts[k]
      BY <1>0, <2>1
    <3>2. MaxAttempts - 0 = MaxAttempts
      BY <1>0
    <3>3. \A k \in Item : MaxAttempts - attempts'[k]
            = IF k = i THEN MaxAttempts ELSE MaxAttempts - attempts[k]
      BY <3>1, <3>2, Zenon
    <3> QED BY <3>3, Zenon
  <2>3. named' = named \ {i}
    BY <1>0, <2>1
  <2>4. Lifecycle!Remove(i)
    BY <2>1, <2>2, <2>3 DEF Lifecycle!Remove
  <2> QED BY <2>4 DEF Lifecycle!Next
<1>12. CASE Sweep \/ Restart
  <2>1. UNCHANGED <<attempts, tmdb>>
    BY <1>12, SeenSweep, SeenRestart
  <2>2. PICK S \in SUBSET Item : /\ SamePhases(S)
             /\ \A k \in S : ItemPhase(k) = "scraping" /\ ItemPhase(k)' = "pending"
    BY <1>12, SeenSweep, SeenRestart
  <2>3. phase' = [k \in Item |-> IF k \in S THEN "pending" ELSE phase[k]]
    BY <2>2 DEF SamePhases
  <2>4. Lifecycle!PutBack(S)
    BY <1>2, <1>3, <2>1, <2>2, <2>3 DEF Lifecycle!PutBack
  <2>5. sweepOwed' = TRUE \/ (sweepOwed /\ sweepOwed' = FALSE)
    BY <1>12 DEF Sweep, Restart
  <2>6. Lifecycle!Sweep(S) \/ Lifecycle!Stop(S)
    BY <2>4, <2>5 DEF Lifecycle!Sweep, Lifecycle!Stop
  <2> QED BY <2>6 DEF Lifecycle!Next
<1>a. /\ ~ \E i \in Item, t \in AskId, clear \in BOOLEAN : Identify(i, t, clear)
      /\ ~ \E R \in Range : ForceReset(R)
  BY Quiet DEF JInv
<1>13. CASE \/ Claim \/ Check \/ Fetch \/ Link \/ Derive \/ CascadeSeasons \/ CascadeEpisodes
            \/ (\E s \in Series, l \in Level : NewChild(s, l))
            \/ (\E i \in Item : ClearMetadata(i)) \/ JobPoll \/ JobCancel
  BY <1>4, <1>13, Unseen
<1> QED
  <2> HIDE DEF phase, left, named
  <2> QED BY <1>5, <1>6, <1>7, <1>8, <1>9, <1>10, <1>11, <1>12, <1>13, <1>a
        DEF Next, Consumer, Scan, Admin

UndisturbedInv == requests = 0 /\ faulted = FALSE => Undisturbed

LEMMA UndisturbedInit == Init => Undisturbed
BY ScrapeAssumption DEF Init, Idle, Undisturbed, InFlight

LEMMA UndisturbedNext ==
  IInv /\ UndisturbedInv /\ [Next]_vars => IInv' /\ UndisturbedInv'
<1>1. ASSUME IInv, UndisturbedInv, Next PROVE UndisturbedInv'
  <2>1. SUFFICES ASSUME requests' = 0, faulted' = FALSE PROVE Undisturbed'
    BY DEF UndisturbedInv
  <2>2. JInv
    BY <1>1, <2>1, Quiet DEF UndisturbedInv, JInv
  <2> QED BY <1>1, <2>1, <2>2, UndisturbedStep
<1>2. ASSUME UndisturbedInv, UNCHANGED vars PROVE UndisturbedInv'
  BY <1>2 DEF UndisturbedInv, Undisturbed, InFlight, Present, vars, rows, consumer, admin
<1> QED BY <1>1, <1>2, NextInv, StutterInv

LEMMA StutterMaps == UNCHANGED vars => UNCHANGED Lifecycle!vars
BY DEF vars, rows, consumer, Lifecycle!vars, ItemPhase, InFlight, Present

(* Up to the first admin request or failed statement, the scrape stage, with its
   sweep, restarts, failing calls, scans and deletions, implements the life of an
   item that the header of stages/scrape.rs draws: a failure costs exactly one
   try, the last one is final, an item is resolved once. (run_pending) *)
THEOREM ImplementsUndisturbed == Spec => RefinesUndisturbed
<1>1. Init => IInv /\ UndisturbedInv
  BY UndisturbedInit, InitInv DEF UndisturbedInv
<1>2. IInv /\ UndisturbedInv /\ [Next]_vars =>
        [requests' = 0 /\ ~ faulted' => Lifecycle!Next \/ UNCHANGED Lifecycle!vars]_vars
  <2>1. SUFFICES ASSUME IInv, UndisturbedInv, Next, requests' = 0, ~ faulted'
                 PROVE  Lifecycle!Next \/ UNCHANGED Lifecycle!vars
    OBVIOUS
  <2>2. faulted' = FALSE
    BY <2>1, NextInv DEF IInv, TypeOK, TypeEnv
  <2>3. JInv
    BY <2>1, <2>2, Quiet DEF UndisturbedInv, JInv
  <2> QED BY <2>1, <2>2, <2>3, StepMaps
<1> QED BY <1>1, <1>2, InitMaps, UndisturbedNext, PTL DEF Spec, RefinesUndisturbed

(* And all the way when there are no requests and statements do not fail. *)
THEOREM ImplementsLifecycle ==
  ASSUME MaxRequests = 0, Faults = FALSE PROVE Spec => RefinesLifecycle
<1>1. Init => JInv
  BY UndisturbedInit, InitInv DEF JInv
<1>2. JInv /\ Next => requests' = 0 /\ faulted' = FALSE
  <2>1. SUFFICES ASSUME JInv, Next PROVE requests' = 0 /\ faulted' = FALSE
    OBVIOUS
  <2>2. requests = 0 /\ faulted = FALSE /\ ~ (requests < MaxRequests) /\ ~ Fails
    BY <2>1 DEF JInv, Undisturbed, Fails
  <2>3. ~ (\E i \in Item, t \in AskId, clear \in BOOLEAN : Identify(i, t, clear))
        /\ ~ \E R \in Range : ForceReset(R)
    BY <2>2 DEF Identify, ForceReset
  <2>4. requests' = requests
    BY <2>1, <2>3 DEF Next, Consumer, Scan, Admin, Arrive, ReadNfo, NewChild, Delete, ClearMetadata,
        JobPoll, JobCancel, Claim, Mark, Check, Fetch, Apply, Link, Derive, SettleSkipped,
        SettleNotFound, SettleFailed, CascadeSeasons, CascadeEpisodes, Sweep, Restart, admin
  <2>5. faulted' = FALSE
    BY <2>1, <2>2, <2>3 DEF Next, Consumer, Scan, Admin, Arrive, ReadNfo, NewChild, Delete,
        ClearMetadata, JobPoll, JobCancel, Claim, Mark, Check, Fetch, Apply, Link, Derive,
        SettleSkipped, SettleNotFound, SettleFailed, CascadeSeasons, CascadeEpisodes, Sweep,
        Restart, SetStatus, CascadeTo, Succeeds
  <2> QED BY <2>2, <2>4, <2>5
<1>3. JInv /\ [Next]_vars => JInv'
  <2>1. JInv /\ Next => JInv'
    BY <1>2, NextInv, UndisturbedStep DEF JInv
  <2>2. JInv /\ UNCHANGED vars => JInv'
    BY StutterInv DEF JInv, Undisturbed, InFlight, Present, vars, rows, consumer, admin
  <2> QED BY <2>1, <2>2
<1>4. JInv /\ [Next]_vars => [Lifecycle!Next]_(Lifecycle!vars)
  BY <1>2, StepMaps, StutterMaps
<1> QED BY <1>1, <1>3, <1>4, InitMaps, PTL DEF Spec, Lifecycle!Spec, RefinesLifecycle
=============================================================================
