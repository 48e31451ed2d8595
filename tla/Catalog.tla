------------------------------- MODULE Catalog -------------------------------
(***************************************************************************)
(* What hangs on the items of emrs: genres, studios, tags and people with   *)
(* their link tables, and images (taxonomy_store.rs, image_store.rs, the    *)
(* link writers of item_store.rs), written by three tasks that interleave   *)
(* statement by statement: the scrape consumer (scanner/scrape.rs), the     *)
(* scan loop, which applies NFO files and deletes items, and an admin's     *)
(* identification.  A task is an agenda of operations; an operation is a    *)
(* few statements.                                                          *)
(*                                                                          *)
(* genre, studio, tag and people are tables of rows that are never deleted  *)
(* (AUTOINCREMENT): a row's id is its place.  Texts of the items, which the *)
(* same UPDATEs write, are left out, and so are characters of roles.        *)
(***************************************************************************)
EXTENDS Integers, FiniteSets, Sequences, SequencesExt, FiniteSetsExt

CONSTANTS
  Row,        \* item -> [type, lib, parent]
  Tmdb,       \* entry -> what TMDB lists for it
  Nfo,        \* item -> what its NFO file lists; items without a file are not in its domain
  NameOf,     \* TMDB id of a genre, studio, tag or person -> its name
  Face,       \* TMDB id of a person -> picture, NoText when there is none
  Matches,    \* <<item, entry>>: what search or identification may come to
  Deletable,  \* items whose file may go
  MaxBackdrops, \* attach_backdrops(..., 10)
  MaxTasks,   \* bound: tasks, and statements that fail
  Faults      \* TRUE when a call to TMDB or a statement may fail, or the process stop

Item == DOMAIN Row
Worker == {"scraper", "scanner", "admin"}
Table == {"genre", "studio", "tag", "people"}

NoEntry == "none"
NoText == ""

(* Ids that TMDB gives its genres, studios, tags and people, and what an entry
   and an NFO file list. *)
Known == DOMAIN NameOf
Pictured == [poster : STRING, backdrops : Seq([url : STRING, vote : Int]), backdrop : STRING, logo : STRING]
Entry == [genres : Seq(Known), cast : Seq(Known), crew : Seq([who : Known, role : STRING]), studios : Seq(Known),
          tags : Seq(Known), guests : Seq(Known), poster : STRING, still : STRING, pictures : Pictured]
NfoFile == [genres : Seq(STRING), studios : Seq(STRING), tags : Seq(STRING), actors : Seq(Known), poster : STRING,
            backdrops : Seq(STRING)]

ASSUME CatalogAssumption ==
  /\ Row \in [Item -> [type : STRING, lib : Nat \ {0}, parent : Nat]]
  /\ IsFiniteSet(Item) /\ Item \subseteq Nat \ {0} /\ Deletable \subseteq Item
  /\ Known \subseteq Nat \ {0} /\ NameOf \in [Known -> STRING] /\ Face \in [Known -> STRING]
  /\ NoEntry \notin DOMAIN Tmdb /\ Tmdb \in [DOMAIN Tmdb -> Entry]
  /\ DOMAIN Nfo \subseteq Item /\ Nfo \in [DOMAIN Nfo -> NfoFile]
  /\ Matches \subseteq Item \X DOMAIN Tmdb
  /\ MaxBackdrops \in Nat /\ MaxTasks \in Nat /\ Faults \in BOOLEAN

VARIABLES
  items,    \* ids in table item
  rows,     \* table -> its rows [tmdb, name, bio], in the order of ids
  links,    \* item_genre, item_people, item_studio, item_tag
  images,   \* rows of item_image
  nextImage, \* the AUTOINCREMENT of item_image
  work,     \* worker -> what it is doing
  tasks,    \* tasks begun, and statements that failed
  applied,  \* history: item -> the entries written to it
  latest,   \* history: <<item, part>> -> the entry that part was last replaced from; NoEntry when there
            \* was none, or a statement of the replacement failed
  astray    \* history: <<table, item>> that took the newest row after another INSERT came between, or
            \* their own was refused or failed

db == <<items, rows, links, images, nextImage>>
history == <<applied, latest, astray>>
vars == <<db, work, tasks, history>>

Part == {"cast", "backdrop"}
Idle == [todo |-> <<>>, at |-> "next", id |-> 0, needs |-> FALSE, order |-> 0, crossed |-> FALSE,
         entry |-> NoEntry]

Init ==
  /\ items = Item /\ rows = [t \in Table |-> <<>>] /\ links = {} /\ images = {} /\ nextImage = 1
  /\ work = [w \in Worker |-> Idle] /\ tasks = 0
  /\ applied = [i \in Item |-> {}] /\ latest = [p \in Item \X Part |-> NoEntry] /\ astray = {}

-----------------------------------------------------------------------------
(* Agendas.                                                                *)

Op(op, i) == [op |-> op, table |-> NoText, item |-> i, tmdb |-> 0, name |-> NoText, role |-> NoText, type |-> NoText, url |-> NoText]
ByTmdb(t, i, k, role) ==
  [Op("upsert", i) EXCEPT !.table = t, !.tmdb = k, !.name = NameOf[k], !.role = role]
ByName(t, i, n) == [Op("upsert", i) EXCEPT !.table = t, !.name = n]
Picture(i, type, url) ==
  IF url = NoText THEN <<>> ELSE <<[Op("image", i) EXCEPT !.type = type, !.url = url]>>
Each(s, F(_)) == [k \in DOMAIN s |-> F(s[k])]

(* link_credits: the cast, then the crew whose job maps to a role. *)
LinkCredits(i, e) ==
  Each(Tmdb[e].cast, LAMBDA p : ByTmdb("people", i, p, "Actor"))
  \o FlattenSeq(Each(Tmdb[e].crew, LAMBDA c : IF c.role = NoText THEN <<>> ELSE <<ByTmdb("people", i, c.who, c.role)>>))
Relations(i, e) ==
  Each(Tmdb[e].genres, LAMBDA g : ByTmdb("genre", i, g, NoText)) \o LinkCredits(i, e)
  \o Each(Tmdb[e].studios, LAMBDA s : ByTmdb("studio", i, s, NoText))
  \o Each(Tmdb[e].tags, LAMBDA k : ByTmdb("tag", i, k, NoText))

(* apply_movie: the row is scraped before anything is linked to it.  Without
   the details there is nothing to link. *)
MovieAgenda(i, e, detail) ==
  <<Op("apply", i)>> \o (IF detail THEN Relations(i, e) ELSE <<>>)
  \o <<Op("pictures", i)>>
(* apply_tv, which also goes through the seasons and episodes that are there. *)
Child(i, type) == {c \in Item : Row[c].parent = i /\ Row[c].type = type}
TvAgenda(i, e, detail) ==
  <<Op("apply", i)>>
  \o (IF detail
      THEN Relations(i, e)
           \o FlattenSeq(Each(SetToSeq(Child(i, "season")), LAMBDA s :
                <<Op("season", s)>> \o Each(SetToSeq(Child(s, "episode")), LAMBDA ep : Op("episode", ep))))
      ELSE <<>>)
  \o <<Op("pictures", i)>>

(* apply_nfo_relations: people without a TMDB id are left out by the parser's
   caller; pictures of backdrops all go to one row. *)
NfoAgenda(i) ==
  LET n == Nfo[i]
  IN Each(n.genres, LAMBDA g : ByName("genre", i, g)) \o Each(n.studios, LAMBDA s : ByName("studio", i, s))
     \o Each(n.tags, LAMBDA k : ByName("tag", i, k))
     \o Each(n.actors, LAMBDA p : [ByTmdb("people", i, p, "Actor") EXCEPT !.op = "actor"])
     \o Picture(i, "primary", n.poster)
     \o FlattenSeq(Each(n.backdrops, LAMBDA u : Picture(i, "backdrop", u)))

(* The DELETEs of delete_item_cascade, and of manual_identify_item when it
   clears metadata. *)
Drops(i) ==
  Each(<<"genre", "people", "studio", "tag">>, LAMBDA t : [Op("unlink", i) EXCEPT !.table = t])
  \o <<Op("unpicture", i)>>

Begin(w, todo, e) ==
  /\ work[w].todo = <<>> /\ tasks < MaxTasks /\ tasks' = tasks + 1
  /\ work' = [work EXCEPT ![w] = [Idle EXCEPT !.todo = todo, !.entry = e]]
  /\ UNCHANGED <<db, history>>

ScrapeMovie(i, e, detail) == Row[i].type = "movie" /\ i \in items /\ Begin("scraper", MovieAgenda(i, e, detail), e)
ScrapeTv(i, e, detail) == Row[i].type = "series" /\ i \in items /\ Begin("scraper", TvAgenda(i, e, detail), e)
ReadNfo(i) == i \in items /\ Begin("scanner", NfoAgenda(i), NoEntry)
DeleteItem(i) == i \in items /\ Begin("scanner", Drops(i) \o <<Op("delete", i)>>, NoEntry)
Identify(i) == i \in items /\ Begin("admin", Drops(i), NoEntry)

-----------------------------------------------------------------------------
(* Operations.                                                             *)

Now(w, op) == work[w].todo # <<>> /\ Head(work[w].todo).op \in op
Cur(w) == Head(work[w].todo)
At(w, at) == work[w].todo # <<>> /\ work[w].at = at
Goto(w, at) == [work EXCEPT ![w].at = at]

(* On with the next operation.  sort_order counts the links of one list. *)
Next1(w, linked, more) ==
  LET todo == more \o Tail(work[w].todo)
      goesOn == todo # <<>> /\ Head(todo).table = Cur(w).table /\ Head(todo).item = Cur(w).item
  IN [Idle EXCEPT !.todo = todo, !.entry = IF todo = <<>> THEN NoEntry ELSE work[w].entry,
                  !.order = IF goesOn THEN work[w].order + (IF linked THEN 1 ELSE 0) ELSE 0]
Underway(i) == \E w \in Worker : \E k \in DOMAIN work[w].todo : work[w].todo[k].item = i
Done(w) == work' = [work EXCEPT ![w] = Next1(w, FALSE, <<>>)]

(* UPDATE item SET tmdb_id, scrape_status = 'scraped', ...; no row, no effect,
   and no error. *)
Apply(w) ==
  /\ Now(w, {"apply"}) /\ Done(w)
  /\ applied' = [applied EXCEPT ![Cur(w).item] = @ \cup {work[w].entry}]
  /\ UNCHANGED <<db, tasks, latest, astray>>

(* upsert_named and upsert_people look for the TMDB id, upsert_by_name for the
   name.  Mutant: people are known by name. *)
FindByName(w) ==
  LET o == Cur(w) r == rows[o.table]
  IN {k \in DOMAIN r : r[k].name = o.name}
Find(w) ==
  LET o == Cur(w) r == rows[o.table]
  IN {k \in DOMAIN r : IF o.tmdb = 0 THEN r[k].name = o.name ELSE r[k].tmdb = o.tmdb}
NeedsEnrich(w, k) == Cur(w).op = "upsert" /\ Cur(w).table = "people" /\ rows["people"][k].bio = 0

Select(w) ==
  /\ Now(w, {"upsert", "actor"}) /\ At(w, "next")
  /\ IF Find(w) = {} THEN work' = Goto(w, "insert")
     ELSE \E k \in Find(w) :
            work' = [work EXCEPT ![w].id = k, ![w].needs = NeedsEnrich(w, k),
                                 ![w].at = IF Cur(w).tmdb = 0 THEN "link" ELSE "rename"]
  /\ UNCHANGED <<db, tasks, history>>

AfterUpsert(w, needs) ==
  IF Cur(w).table # "people" THEN "link"
  ELSE IF needs THEN "enrich"
  ELSE IF Cur(w).op = "upsert" /\ Face[Cur(w).tmdb] # NoText THEN "look" ELSE "link"

Rename(w) ==
  /\ At(w, "rename")
  /\ rows' = [rows EXCEPT ![Cur(w).table][work[w].id].name = Cur(w).name]
  /\ work' = Goto(w, AfterUpsert(w, work[w].needs))
  /\ UNCHANGED <<items, links, images, nextImage, tasks, history>>

(* INSERT; a row with the TMDB id makes it fail, and the error is dropped: the
   newest row is taken all the same. *)
Insert(w) ==
  /\ At(w, "insert")
  /\ LET o == Cur(w)
         taken == o.tmdb # 0 /\ \E k \in DOMAIN rows[o.table] : rows[o.table][k].tmdb = o.tmdb
     IN /\ rows' = IF taken THEN rows
                   ELSE [rows EXCEPT ![o.table] = Append(@, [tmdb |-> o.tmdb, name |-> o.name, bio |-> 0])]
        /\ work' = [v \in Worker |->
             IF v = w THEN [work[v] EXCEPT !.at = "newest", !.crossed = taken]
             ELSE IF At(v, "newest") /\ Cur(v).table = o.table /\ ~taken
             THEN [work[v] EXCEPT !.crossed = TRUE] ELSE work[v]]
  /\ UNCHANGED <<items, links, images, nextImage, tasks, history>>

(* SELECT id ORDER BY id DESC LIMIT 1: the newest row, whoever inserted it. *)
Newest(w) ==
  /\ At(w, "newest")
  /\ LET o == Cur(w) id == Len(rows[o.table]) needs == o.table = "people" /\ o.op = "upsert"
     IN /\ work' = IF id = 0 THEN [work EXCEPT ![w] = Next1(w, FALSE, <<>>)]
                   ELSE [work EXCEPT ![w].id = id, ![w].at = AfterUpsert(w, needs), ![w].crossed = FALSE]
        /\ astray' = IF work[w].crossed THEN astray \cup {<<o.table, o.item>>} ELSE astray
  /\ UNCHANGED <<db, tasks, applied, latest>>

(* enrich_new_person: the life of the person TMDB was asked about goes to the
   row of that id. *)
Enrich(w) ==
  /\ At(w, "enrich")
  /\ \/ rows' = [rows EXCEPT !["people"][work[w].id].bio = Cur(w).tmdb]
     \/ Faults /\ rows' = rows
  /\ work' = Goto(w, AfterUpsert(w, FALSE))
  /\ UNCHANGED <<items, links, images, nextImage, tasks, history>>

(* INSERT OR IGNORE into the link table. *)
Link(w) ==
  /\ At(w, "link")
  /\ LET o == Cur(w)
         same(l) == l.table = o.table /\ l.item = o.item /\ l.id = work[w].id /\ l.role = o.role
     IN /\ links' = IF \E l \in links : same(l) THEN links
                    ELSE links \cup {[table |-> o.table, item |-> o.item, id |-> work[w].id, role |-> o.role,
                                      order |-> work[w].order]}
        /\ work' = IF o.op = "actor" /\ Face[o.tmdb] # NoText THEN Goto(w, "look")
                   ELSE [work EXCEPT ![w] = Next1(w, TRUE, <<>>)]
  /\ UNCHANGED <<items, rows, images, nextImage, tasks, history>>

-----------------------------------------------------------------------------
(* Images.                                                                 *)

(* What an image operation is about: a portrait, or a picture of an item. *)
Target(w) ==
  LET o == Cur(w)
  IN IF o.op = "image" THEN [of |-> "item", id |-> o.item, type |-> o.type, url |-> o.url]
     ELSE [of |-> "people", id |-> work[w].id, type |-> "primary", url |-> Face[o.tmdb]]
Pictures(of, id, type) == {m \in images : m.of = of /\ m.id = id /\ m.type = type}
NewImage(t) == [row |-> nextImage, of |-> t.of, id |-> t.id, type |-> t.type, url |-> t.url]

(* upsert_image_url: SELECT ... *)
Look(w) ==
  /\ At(w, "look") \/ (Now(w, {"image"}) /\ At(w, "next"))
  /\ LET t == Target(w) found == {m.row : m \in Pictures(t.of, t.id, t.type)}
     IN IF found = {} THEN work' = Goto(w, "picture")
        ELSE \E row \in found :
               work' = [work EXCEPT ![w].at = "repicture", ![w].id = IF Cur(w).op = "image" THEN row ELSE @]
  /\ UNCHANGED <<db, tasks, history>>
AfterPicture(w) ==
  work' = IF Cur(w).op = "upsert" THEN Goto(w, "link")
          ELSE [work EXCEPT ![w] = Next1(w, Cur(w).op = "actor", <<>>)]
(* ... UPDATE of the row found ... *)
Repicture(w) ==
  /\ At(w, "repicture") /\ AfterPicture(w)
  /\ LET t == Target(w)
         hit == {m \in images : IF Cur(w).op = "image" THEN m.row = work[w].id
                                ELSE m \in Pictures(t.of, t.id, t.type)}
     IN images' = (images \ hit) \cup {[m EXCEPT !.url = t.url] : m \in hit}
  /\ UNCHANGED <<items, rows, links, nextImage, tasks, history>>
(* ... or INSERT; of a primary image there is one. *)
NewPicture(w) ==
  /\ At(w, "picture") /\ AfterPicture(w)
  /\ LET t == Target(w)
     IN IF t.type = "primary" /\ Pictures(t.of, t.id, t.type) # {}
        THEN UNCHANGED <<images, nextImage>>
        ELSE images' = images \cup {NewImage(t)} /\ nextImage' = nextImage + 1
  /\ UNCHANGED <<items, rows, links, tasks, history>>

(* get_images: the set, or the one backdrop the search gave. *)
GetImages(w) ==
  /\ Now(w, {"pictures"})
  /\ LET i == Cur(w).item e == work[w].entry p == Tmdb[e].pictures
     IN \E ok \in {o \in BOOLEAN : o \/ Faults} :
          /\ work' = [work EXCEPT ![w] = Next1(w, FALSE,
                     Picture(i, "primary", p.poster)
                     \o (IF ok THEN <<Op("backdrops", i)>> ELSE Picture(i, "backdrop", p.backdrop))
                     \o Picture(i, "thumb", p.backdrop)
                     \o (IF ok THEN Picture(i, "logo", p.logo) ELSE <<>>))]
          /\ latest' = IF ok THEN latest ELSE [latest EXCEPT ![<<i, "backdrop">>] = NoEntry]
  /\ UNCHANGED <<db, tasks, applied, astray>>

(* A set in an order: how many come before an element is its place. *)
Ranked(S, Before(_, _)) ==
  [k \in 1 .. Cardinality(S) |-> CHOOSE x \in S : Cardinality({y \in S : Before(y, x)}) = k - 1]

(* attach_backdrops: DELETE, then an INSERT each for those with most votes that
   have a path. *)
TopVotes(s) ==
  LET order == Ranked(DOMAIN s, LAMBDA j, k : s[j].vote > s[k].vote \/ (s[j].vote = s[k].vote /\ j < k))
  IN [k \in 1 .. Min({MaxBackdrops, Len(s)}) |-> s[order[k]]]
Chosen(s) == FlattenSeq(Each(TopVotes(s), LAMBDA b : IF b.url = NoText THEN <<>> ELSE <<b.url>>))
NewBackdrops(w) ==
  Each(Chosen(Tmdb[work[w].entry].pictures.backdrops), LAMBDA u : [Op("backdrop", Cur(w).item) EXCEPT !.url = u])
DeleteBackdrops(w) == images' = images \ Pictures("item", Cur(w).item, "backdrop")
AttachBackdrops(w) ==
  /\ Now(w, {"backdrops"}) /\ DeleteBackdrops(w)
  /\ work' = [work EXCEPT ![w] = Next1(w, FALSE, NewBackdrops(w))]
  /\ latest' = [latest EXCEPT ![<<Cur(w).item, "backdrop">>] = work[w].entry]
  /\ UNCHANGED <<items, rows, links, nextImage, tasks, applied, astray>>
InsertBackdrop(w) ==
  /\ Now(w, {"backdrop"}) /\ Done(w)
  /\ images' = images \cup {NewImage([of |-> "item", id |-> Cur(w).item, type |-> "backdrop", url |-> Cur(w).url])}
  /\ nextImage' = nextImage + 1
  /\ UNCHANGED <<items, rows, links, tasks, history>>

-----------------------------------------------------------------------------
(* Seasons and episodes of a series.                                       *)

(* update_season_meta: a poster of its own, when the season is there. *)
UpdateSeason(w) ==
  /\ Now(w, {"season"})
  /\ work' = [work EXCEPT ![w] = Next1(w, FALSE,
       IF Cur(w).item \in items THEN Picture(Cur(w).item, "primary", Tmdb[work[w].entry].poster) ELSE <<>>)]
  /\ UNCHANGED <<db, tasks, history>>

(* scrape_episodes: the still of an episode that is there, then its credits. *)
ScrapeEpisode(w) ==
  /\ Now(w, {"episode"})
  /\ LET i == Cur(w).item e == work[w].entry
     IN work' = [work EXCEPT ![w] = Next1(w, FALSE,
          IF i \in items THEN Picture(i, "primary", Tmdb[e].still) \o <<Op("credits", i)>> ELSE <<>>)]
  /\ applied' = [applied EXCEPT ![Cur(w).item] = @ \cup {work[w].entry}]
  /\ UNCHANGED <<db, tasks, latest, astray>>

(* attach_episode_credits: what TMDB lists replaces what is there; nothing
   listed, nothing replaced.  Mutant: nothing is cleared. *)
ClearNot(i) == UNCHANGED links
ClearItemPeople(i) == links' = {l \in links : ~(l.table = "people" /\ l.item = i)}
AttachEpisodeCredits(w) ==
  /\ Now(w, {"credits"})
  /\ LET i == Cur(w).item cast == Tmdb[work[w].entry].guests
     IN IF cast = <<>> THEN Done(w) /\ UNCHANGED <<links, latest>>
        ELSE /\ ClearItemPeople(i)
             /\ work' = [work EXCEPT ![w] = Next1(w, FALSE, Each(cast, LAMBDA p : ByTmdb("people", i, p, "Actor")))]
             /\ latest' = [latest EXCEPT ![<<i, "cast">>] = work[w].entry]
  /\ UNCHANGED <<items, rows, images, nextImage, tasks, applied, astray>>
(* get_season fails, or the SELECT of an episode, and the episodes left of the
   season are passed over; or get_episode_credits, or the DELETE, and those of
   one episode are. *)
EpisodeFails(w) ==
  /\ Now(w, {"episode", "credits"}) /\ Faults /\ Done(w)
  /\ UNCHANGED <<db, tasks, history>>

-----------------------------------------------------------------------------
(* Deletions.                                                              *)

Unlink(w) ==
  /\ Now(w, {"unlink"}) /\ Done(w)
  /\ links' = {l \in links : ~(l.table = Cur(w).table /\ l.item = Cur(w).item)}
  /\ latest' = [latest EXCEPT ![<<Cur(w).item, "cast">>] = NoEntry]
  /\ UNCHANGED <<items, rows, images, nextImage, tasks, applied, astray>>
Unpicture(w) ==
  /\ Now(w, {"unpicture"}) /\ Done(w)
  /\ images' = {m \in images : ~(m.of = "item" /\ m.id = Cur(w).item)}
  /\ latest' = [latest EXCEPT ![<<Cur(w).item, "backdrop">>] = NoEntry]
  /\ UNCHANGED <<items, rows, links, nextImage, tasks, applied, astray>>
Delete(w) ==
  /\ Now(w, {"delete"}) /\ Done(w)
  /\ items' = items \ {Cur(w).item}
  /\ UNCHANGED <<rows, links, images, nextImage, tasks, history>>

-----------------------------------------------------------------------------
(* Statements that fail.  Their errors are dropped, but for the UPDATE of the
   item, which ends the task, and those of EpisodeFails.                    *)

Incomplete(i, part) == latest' = [latest EXCEPT ![<<i, part>>] = NoEntry]
Unlinked(w) == IF Cur(w).table = "people" THEN Incomplete(Cur(w).item, "cast") ELSE UNCHANGED latest

(* A SELECT that fails finds nothing; of an INSERT that fails the newest row is
   taken; without an id there is no link. *)
UpsertFails(w) ==
  \/ /\ Now(w, {"upsert", "actor"}) /\ At(w, "next")
     /\ work' = Goto(w, "insert") /\ UNCHANGED latest
  \/ /\ At(w, "rename")
     /\ work' = Goto(w, AfterUpsert(w, work[w].needs)) /\ UNCHANGED latest
  \/ /\ At(w, "insert")
     /\ work' = [work EXCEPT ![w].at = "newest", ![w].crossed = TRUE] /\ UNCHANGED latest
  \/ /\ At(w, "newest")
     /\ Done(w) /\ Unlinked(w)
(* sort_order counts the link that is not there. *)
LinkFails(w) ==
  /\ At(w, "link") /\ Unlinked(w)
  /\ work' = IF Cur(w).op = "actor" /\ Face[Cur(w).tmdb] # NoText THEN Goto(w, "look")
             ELSE [work EXCEPT ![w] = Next1(w, TRUE, <<>>)]
(* Of a SELECT that fails a second picture is made; the old backdrops stay
   beside the new ones, or one of those is missing. *)
PictureFails(w) ==
  \/ /\ At(w, "look") \/ (Now(w, {"image"}) /\ At(w, "next"))
     /\ work' = Goto(w, "picture") /\ UNCHANGED latest
  \/ /\ At(w, "repicture") \/ At(w, "picture")
     /\ AfterPicture(w) /\ UNCHANGED latest
  \/ /\ Now(w, {"backdrops"})
     /\ work' = [work EXCEPT ![w] = Next1(w, FALSE, NewBackdrops(w))] /\ Incomplete(Cur(w).item, "backdrop")
  \/ /\ Now(w, {"backdrop"})
     /\ Done(w) /\ Incomplete(Cur(w).item, "backdrop")
DeletionFails(w) == Now(w, {"unlink", "unpicture", "delete"}) /\ Done(w) /\ UNCHANGED latest
ApplyFails(w) == Now(w, {"apply"}) /\ work' = [work EXCEPT ![w] = Idle] /\ UNCHANGED latest

StatementFails(w) ==
  /\ Faults /\ tasks < MaxTasks /\ tasks' = tasks + 1
  /\ UpsertFails(w) \/ LinkFails(w) \/ PictureFails(w) \/ DeletionFails(w) \/ ApplyFails(w)
  /\ UNCHANGED <<db, applied, astray>>

(* The process stops: what was left of the agendas is never done. *)
Crash ==
  /\ Faults /\ \E w \in Worker : work[w].todo # <<>>
  /\ work' = [w \in Worker |-> Idle]
  /\ latest' = [p \in DOMAIN latest |-> IF Underway(p[1]) THEN NoEntry ELSE latest[p]]
  /\ UNCHANGED <<db, tasks, applied, astray>>

Step(w) ==
  \/ Apply(w) \/ Select(w) \/ Rename(w) \/ Insert(w) \/ Newest(w) \/ Enrich(w) \/ Link(w)
  \/ Look(w) \/ Repicture(w) \/ NewPicture(w) \/ GetImages(w) \/ AttachBackdrops(w) \/ InsertBackdrop(w)
  \/ UpdateSeason(w) \/ ScrapeEpisode(w) \/ AttachEpisodeCredits(w) \/ EpisodeFails(w)
  \/ Unlink(w) \/ Unpicture(w) \/ Delete(w) \/ StatementFails(w)

Next ==
  \/ \E m \in Matches, d \in {b \in BOOLEAN : b \/ Faults} : ScrapeMovie(m[1], m[2], d) \/ ScrapeTv(m[1], m[2], d)
  \/ \E i \in DOMAIN Nfo : ReadNfo(i)
  \/ \E i \in Deletable : DeleteItem(i)
  \/ \E m \in Matches : Identify(m[1])
  \/ \E w \in Worker : Step(w)
  \/ Crash

Spec == Init /\ [][Next]_vars

-----------------------------------------------------------------------------
(* What the pages show.                                                    *)

(* taxonomy_batch, for one item. *)
Taxonomy(t, i) == {l.id : l \in {k \in links : k.table = t /\ k.item = i}}
(* /Genres, /Persons, /Studios of a library: EXISTS (link JOIN item). *)
ListTerms(t, lib) == {k \in DOMAIN rows[t] : \E l \in links : l.table = t /\ l.id = k /\ l.item \in items /\ Row[l.item].lib = lib}
ListGenres(lib) == ListTerms("genre", lib)
ListPersons(lib) == ListTerms("people", lib)
ListStudios(lib) == ListTerms("studio", lib)
(* The handlers: all rows without a ParentId, none when it is no library's. *)
NoParent == 0
Answer(t, parent) ==
  IF t = "tag" \/ parent = NoParent THEN DOMAIN rows[t]
  ELSE IF parent \notin {Row[i].lib : i \in Item} THEN {}
  ELSE CASE t = "genre" -> ListGenres(parent) [] t = "people" -> ListPersons(parent) [] t = "studio" -> ListStudios(parent)
(* list_items_by_genre, _person, _studio: total, COUNT(DISTINCT item_id).
   Mutant: links are counted without their items. *)
CountByLinks(t, k) == Cardinality({l.item : l \in {x \in links : x.table = t /\ x.id = k}})
CountBy(t, k) == Cardinality({l.item : l \in {x \in links : x.table = t /\ x.id = k /\ x.item \in items}})
ListItemsByPerson(k) == CountBy("people", k)
ListItemsByStudio(k) == CountBy("studio", k)
ListItemsByGenre(k) == CountBy("genre", k)
(* image_ids_batch: ids ascending. *)
Backdrops(i) == Ranked({m.row : m \in Pictures("item", i, "backdrop")}, <)
(* The image route: the row of the tag. *)
ResolveByTag(row) == (CHOOSE m \in images : m.row = row).url

-----------------------------------------------------------------------------
(* Properties.                                                             *)

(* What is listed: by its TMDB id, but by its name in an NFO file. *)
TmdbLists(e) ==
  [people |-> ToSet(Tmdb[e].cast) \cup {c.who : c \in ToSet(Tmdb[e].crew)} \cup ToSet(Tmdb[e].guests),
   genre |-> ToSet(Tmdb[e].genres), studio |-> ToSet(Tmdb[e].studios), tag |-> ToSet(Tmdb[e].tags)]
NfoLists(i) ==
  [people |-> ToSet(Nfo[i].actors), genre |-> ToSet(Nfo[i].genres), studio |-> ToSet(Nfo[i].studios),
   tag |-> ToSet(Nfo[i].tags)]
Listed(t, i, r, entries) ==
  \/ \E e \in entries : r.tmdb \in TmdbLists(e)[t]
  \/ i \in DOMAIN Nfo /\ (IF t = "people" THEN r.tmdb ELSE r.name) \in NfoLists(i)[t]

(* Nobody's credits, biography or portrait come to another: whatever scraper,
   scanner and admin interleave, a link leads to what TMDB or the NFO file
   lists for the item, unless its own SELECT or INSERT failed, or another INSERT
   came between an INSERT and the read of the newest id. *)
NothingForeign ==
  /\ \A l \in links : <<l.table, l.item>> \notin astray => Listed(l.table, l.item, rows[l.table][l.id], applied[l.item])
  /\ (\A a \in astray : a[1] # "people") =>
       /\ \A k \in DOMAIN rows["people"] : rows["people"][k].bio \in {0, rows["people"][k].tmdb}
       /\ \A m \in images : m.of = "people" => m.url = Face[rows["people"][m.id].tmdb]

(* The cast of an episode, and the backdrops of an item, are those of the
   entry they were last replaced from, in its order, however often the item
   was taken for another before, if no statement of the replacement failed;
   where an NFO file adds to them, nothing of them is missing. *)
FirstPlace(s, p) == (CHOOSE k \in DOMAIN s : s[k] = p /\ \A j \in 1 .. k - 1 : s[j] # p) - 1
LatestIsExact ==
  \A i \in items : ~Underway(i) =>
    /\ LET e == latest[<<i, "cast">>]
           cast == {l \in links : l.table = "people" /\ l.item = i}
       IN e # NoEntry /\ <<"people", i>> \notin astray =>
            IF i \in DOMAIN Nfo
            THEN ToSet(Tmdb[e].guests) \subseteq {rows["people"][l.id].tmdb : l \in cast}
            ELSE {<<rows["people"][l.id].tmdb, l.order>> : l \in cast}
                 = {<<p, FirstPlace(Tmdb[e].guests, p)>> : p \in ToSet(Tmdb[e].guests)}
    /\ LET e == latest[<<i, "backdrop">>]
       IN e # NoEntry /\ i \notin DOMAIN Nfo =>
            Each(Backdrops(i), ResolveByTag) = Chosen(Tmdb[e].pictures.backdrops)

(* The pages agree, dangling links of items deleted under the scraper or not:
   what a library lists is what its items show, and a count is the number of
   items that show the term. *)
PagesAgree ==
  \A t \in {"genre", "studio", "people"} :
    /\ \A lib \in {Row[i].lib : i \in Item} :
         Answer(t, lib) = UNION {Taxonomy(t, i) : i \in {j \in items : Row[j].lib = lib}}
    /\ \A k \in DOMAIN rows[t] :
         (CASE t = "genre" -> ListItemsByGenre(k) [] t = "people" -> ListItemsByPerson(k) [] t = "studio" -> ListItemsByStudio(k))
         = Cardinality({i \in items : k \in Taxonomy(t, i)})
=============================================================================
