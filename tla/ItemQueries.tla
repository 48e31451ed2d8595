------------------------------ MODULE ItemQueries ------------------------------
(***************************************************************************)
(* The lists emrs answers with (stores/item_store.rs, routes/items/list.rs) *)
(* over the tables of UserData: Resume, NextUp, active sessions, counts,   *)
(* favorites and the browsing of libraries.  Each list is an operator of   *)
(* the state, the several statements behind it taken at one moment.        *)
(*                                                                         *)
(* No row of a virtual episode exists (MediaLifecycle says why), season and *)
(* episode numbers are there and unique (the scan and the unique indexes), *)
(* and no two rows have the same updated_at.                               *)
(***************************************************************************)
EXTENDS UserData, SequencesExt

CONSTANTS
  Genres,   \* item -> its genres
  MaxLimit  \* bound: page sizes and offsets looked at

Types == {"movie", "series", "season", "episode"}

(* The shelf the scanner builds: episodes in seasons in series, of one library,
   siblings with numbers of their own; only what has a file is played. *)
ASSUME ShelfAssumption ==
  /\ IsFiniteSet(Item) /\ MaxLimit \in Nat
  /\ \A i \in Item :
       /\ Row[i].type \in Types /\ Row[i].no \in Nat /\ Row[i].lib \in Nat \ {0}
       /\ Row[i].parent = 0 <=> Row[i].type \in {"movie", "series"}
       /\ Row[i].type = "season" => Row[Row[i].parent].type = "series"
       /\ Row[i].type = "episode" => Row[Row[i].parent].type = "season"
       /\ Row[i].parent # 0 => Row[Row[i].parent].lib = Row[i].lib
  /\ \A i, j \in Item : Row[i].parent = Row[j].parent /\ Row[i].parent # 0 /\ Row[i].no = Row[j].no => i = j
  /\ \A i \in Playable : Row[i].type \in {"movie", "episode"}

Typed == [type \in Types |-> {i \in Item : Row[i].type = type}]
Of(type) == items \cap Typed[type]
Season(e) == Row[e].parent
Series(e) == Row[Row[e].parent].parent
Started(i) == uid[i].count > 0
Unplayed(i) == ~uid[i].played
Recent(i) == uid[i].at

(* Episodes whose season is there: the JOIN with the season. *)
Episodes == {e \in Of("episode") : Season(e) \in items}

(* (season_number, episode_number) of f is not before that of e. *)
NotBefore(e, f) ==
  \/ Row[Season(f)].no > Row[Season(e)].no
  \/ Row[Season(f)].no = Row[Season(e)].no /\ Row[f].no >= Row[e].no

Newest(S) == CHOOSE i \in S : \A j \in S : Recent(j) <= Recent(i)
(* ORDER BY; before[x] are the members to come before x, and none are in a tie. *)
Sorted(S, before) == [k \in 1 .. Cardinality(S) |-> CHOOSE x \in S : Cardinality(before[x]) = k - 1]
ByTime(S, time) == Sorted(S, [x \in S |-> {y \in S : time[y] > time[x]}])
ByUse(S) == ByTime(S, [i \in S |-> Recent(i)])
Page(seq, start, limit) == SubSeq(seq, start + 1, IF start + limit < Len(seq) THEN start + limit ELSE Len(seq))

-----------------------------------------------------------------------------
(* Resume.                                                                 *)

Scopes == {[kind |-> "All", id |-> 0]}
  \cup {[kind |-> "Library", id |-> Row[i].lib] : i \in Item}
  \cup {[kind |-> "Series", id |-> i] : i \in {j \in Item : Row[j].type = "series"}}
  \cup {[kind |-> "Season", id |-> i] : i \in {j \in Item : Row[j].type \in {"season", "movie"}}}

InScope(e, scope) ==
  CASE scope.kind = "All" -> TRUE
    [] scope.kind = "Library" -> Row[e].lib = scope.id
    [] scope.kind = "Series" -> Series(e) = scope.id
    [] scope.kind = "Season" -> Season(e) = scope.id

(* frontier_series_order: the series somebody started, the latest first. *)
FrontierSeriesOrder(scope) ==
  LET eps == {e \in Episodes : Started(e) /\ InScope(e, scope)}
      shows == {Series(e) : e \in eps}
  IN ByTime(shows, [s \in shows |-> Recent(Newest({e \in eps : Series(e) = s}))])

(* frontier_reps_for_series of one series.  Mutant: the scope of a season is
   not pushed down to the second query. *)
RepsUnscoped(s, scope) ==
  LET group == {e \in Episodes : Series(e) = s}
      anchors == {e \in group : Started(e)}
      a == Newest(anchors)
      rest == {e \in group : NotBefore(a, e) /\ Unplayed(e)}
  IN IF anchors = {} \/ rest = {} THEN {}
     ELSE {[id |-> CHOOSE e \in rest : \A f \in rest : NotBefore(e, f), recency |-> Recent(a)]}
Reps(s, scope) ==
  LET group == {e \in Episodes : Series(e) = s /\ (scope.kind = "Season" => Season(e) = scope.id)}
      anchors == {e \in group : Started(e)}
      a == Newest(anchors)
      rest == {e \in group : NotBefore(a, e) /\ Unplayed(e)}
  IN IF anchors = {} \/ rest = {} THEN {}
     ELSE {[id |-> CHOOSE e \in rest : \A f \in rest : NotBefore(e, f), recency |-> Recent(a)]}

(* Seeds of the first n series of the order. *)
Seeds(order, n, scope) == UNION {Reps(order[k], scope) : k \in 1 .. (IF n < Len(order) THEN n ELSE Len(order))}

(* resume_frontier_episodes: chunk by chunk until there are enough. *)
FrontierEpisodes(scope, want) ==
  LET order == FrontierSeriesOrder(scope)
      step == want
      chunks == (Len(order) + step - 1) \div step
      enough == {k \in 1 .. chunks : Cardinality(Seeds(order, k * step, scope)) >= want}
      last == IF enough = {} THEN chunks ELSE CHOOSE k \in enough : \A l \in enough : k <= l
  IN Seeds(order, last * step, scope)

(* resume_movies. *)
ResumeMovies(scope, want) ==
  LET open == {m \in Of("movie") : /\ Started(m) /\ Unplayed(m)
                                   /\ scope.kind = "Library" => Row[m].lib = scope.id}
  IN IF scope.kind \in {"Series", "Season"} THEN {}
     ELSE {[id |-> m, recency |-> Recent(m)] : m \in Range(Page(ByUse(open), 0, want))}

Ids(seeds) == LET s == ByTime(seeds, [x \in seeds |-> x.recency]) IN [k \in DOMAIN s |-> s[k].id]

(* list_resume; an id that is no series, season or movie any more has no list. *)
ListResume(scope, limit, start) ==
  IF limit = 0 \/ (scope.kind \in {"Series", "Season"} /\ scope.id \notin items) THEN <<>>
  ELSE Page(Ids(FrontierEpisodes(scope, start + limit) \cup ResumeMovies(scope, start + limit)),
            start, limit)

(* list_next_up without and with a series.  Mutant: of every season. *)
ListNextUp(limit, start) ==
  IF limit = 0 THEN <<>> ELSE Page(Ids(FrontierEpisodes([kind |-> "All", id |-> 0], start + limit)), start, limit)

NextUpAnySeason(sid, limit, start) ==
  LET mine == {e \in Episodes : Series(e) = sid}
      a == Newest({e \in mine : Started(e)})
      cand == {e \in mine : Unplayed(e) /\ NotBefore(a, e)}
  IN IF \A e \in mine : ~Started(e) THEN <<>>
     ELSE Page(Sorted(cand, [e \in cand |-> {f \in cand : ~NotBefore(e, f)}]), start, limit)
NextUpInSeason(sid, limit, start) ==
  LET mine == {e \in Episodes : Series(e) = sid}
      a == Newest({e \in mine : Started(e)})
      cand == {e \in mine : Unplayed(e) /\ Season(e) = Season(a) /\ NotBefore(a, e)}
  IN IF \A e \in mine : ~Started(e) THEN <<>>
     ELSE Page(Sorted(cand, [e \in cand |-> {f \in cand : ~NotBefore(e, f)}]), start, limit)

-----------------------------------------------------------------------------
(* Sessions, counts and browsing.                                          *)

(* Mutant: what was watched to the end is shown, too. *)
ActiveThoughPlayed ==
  {i \in Of("movie") \cup Of("episode") : Started(i) /\ uid[i].pos > 0}
ActiveSessions ==
  {i \in Of("movie") \cup Of("episode") : Started(i) /\ Unplayed(i) /\ uid[i].pos > 0}

(* child_counts_batch of a season and of a series: total, unplayed.  (The number
   of seasons it asks for, too, without binding the ids of the series: SQLite
   compares with NULL and finds none.)  Mutant: an episode nobody touched is not
   counted as unplayed. *)
TouchedCounts(eps) ==
  [total |-> Cardinality(eps), unplayed |-> Cardinality({e \in eps : uid[e] # NoRow /\ Unplayed(e)})]
EpisodeCounts(eps) == [total |-> Cardinality(eps), unplayed |-> Cardinality({e \in eps : Unplayed(e)})]
SeasonCounts(s) == EpisodeCounts({e \in Of("episode") : Season(e) = s})
SeriesCounts(s) == EpisodeCounts({e \in Episodes : Series(e) = s})

ListFavorites(types) ==
  ByUse({i \in items : uid[i] # NoRow /\ uid[i].fav /\ (types # {} => Row[i].type \in types)})

(* list_movies_series: of the types, of the library (0 for all), played, not
   played or both, among what the search finds; ordered by title, which is the
   id here. *)
NoTerm == {0} \* a search is the set of items the term matches, or NoTerm
MatchesPlayed(i, played) ==
  CASE played = "yes" -> uid[i] # NoRow /\ uid[i].played
    [] played = "no" -> uid[i] = NoRow \/ ~uid[i].played
    [] played = "any" -> TRUE
ByTitle(S) == Sorted(S, [x \in S |-> {y \in S : y < x}])
ListMoviesSeries(lib, search, types, played) ==
  ByTitle({i \in items : /\ Row[i].type \in (IF types = {} THEN {"movie", "series"} ELSE types)
                         /\ lib # 0 => Row[i].lib = lib
                         /\ search # NoTerm => i \in search
                         /\ MatchesPlayed(i, played)})

(* list_items_by_genre, and by studio and by person, which differ in the table. *)
ListByGenre(genres, types) ==
  ByTitle({i \in items : Genres[i] \cap genres # {} /\ (types # {} => Row[i].type \in types)})

(* list_latest: by created_at, in the order of the ids. *)
ListLatest(lib, limit) ==
  LET titles == {i \in Of("movie") \cup Of("series") : lib # 0 => Row[i].lib = lib}
  IN Page(ByTime(titles, [i \in titles |-> i]), 0, limit)

(* Mutant: the season of the specials is left out. *)
ByNumber(S) == Sorted(S, [x \in S |-> {y \in S : Row[y].no < Row[x].no}])
ListSeasonsProper(s) == ByNumber({i \in Of("season") : Row[i].parent = s /\ Row[i].no > 0})
ListSeasons(s) == ByNumber({i \in Of("season") : Row[i].parent = s})
ListEpisodes(s) == ByNumber({i \in Of("episode") : Row[i].parent = s})

(* users_items: the branch a request takes, and what it answers.  A parent is an
   item or 0, an asked library is lib. *)
Children(parent) ==
  IF parent \notin items THEN <<>>
  ELSE CASE Row[parent].type = "series" -> ListSeasons(parent)
         [] Row[parent].type = "season" -> ListEpisodes(parent)
         [] OTHER -> <<>>
UsersItems(q) ==
  IF q.parent # 0 THEN Children(q.parent)
  ELSE IF q.favorite
  THEN IF Cardinality(q.types) > 1 THEN <<>> ELSE Page(ListFavorites(q.types), q.start, q.limit)
  ELSE IF q.ids # {} THEN ByTitle(q.ids \cap items)
  ELSE IF q.genres # {} THEN Page(ListByGenre(q.genres, q.types), q.start, q.limit)
  ELSE IF q.search = NoTerm /\ "series" \in q.types
  THEN Page(ByTitle({i \in Of("series") : q.lib # 0 => Row[i].lib = q.lib}), q.start, q.limit)
  ELSE Page(ListMoviesSeries(q.lib, q.search, q.types, q.played), q.start, q.limit)
Query == [parent |-> 0, favorite |-> FALSE, ids |-> {}, genres |-> {}, search |-> NoTerm, lib |-> 0, types |-> {},
          played |-> "any", start |-> 0, limit |-> Cardinality(Item)]

(* list_similar: the best candidates are chosen, then shown by title. *)
Shared(i, j) == Cardinality(Genres[i] \cap Genres[j])
ListSimilar(i, limit) ==
  LET shows == (Of("movie") \cup Of("series")) \ {i}
      alike == {j \in shows : Shared(i, j) > 0}
      better == [x \in alike |-> {y \in alike : \/ Shared(i, y) > Shared(i, x)
                                                \/ Shared(i, y) = Shared(i, x) /\ y < x}]
      near == ByTitle({j \in shows : Row[j].lib = Row[i].lib})
  IN ByTitle(Range(Page(IF alike # {} THEN Sorted(alike, better) ELSE near, 0, limit)))

-----------------------------------------------------------------------------
(* Properties.  No request is under way where lists are compared.          *)

Libraries == {Row[i].lib : i \in Item}
Quiet == \A s \in Slot : req[s].at = "idle"
All == [kind |-> "All", id |-> 0]

(* What Resume is to show, said at once: an unplayed episode not before the one
   of its series (of its season, in the scope of a season) used last, no
   unplayed one between them, and every open film; as old as that use. *)
Wanted(scope) ==
  LET eps == {e \in Episodes : InScope(e, scope)}
      groups == {{e \in eps : Series(e) = s} : s \in Of("series")}
      Anchors(G) == {a \in G : Started(a) /\ \A f \in G : Started(f) => Recent(f) <= Recent(a)}
      Ahead(G, a) == {e \in G : Unplayed(e) /\ NotBefore(a, e)}
      Leads(G, a) == {e \in Ahead(G, a) : \A f \in Ahead(G, a) : NotBefore(e, f)}
      open == {m \in Of("movie") : Started(m) /\ Unplayed(m) /\ (scope.kind = "Library" => Row[m].lib = scope.id)}
  IN (UNION {UNION {{[id |-> e, recency |-> Recent(a)] : e \in Leads(G, a)} : a \in Anchors(G)} : G \in groups})
     \cup (IF scope.kind \in {"All", "Library"} THEN {[id |-> m, recency |-> Recent(m)] : m \in open} ELSE {})

(* "Top K is exact": taking the series chunk by chunk until there are enough,
   and the films one page deep, shows on every page of every scope what sorting
   everything would. *)
ResumeIsExact ==
  Quiet => \A scope \in Scopes :
    LET all == Page(Ids(Wanted(scope)), 0, Cardinality(Item))
    IN \A limit \in 1 .. MaxLimit, start \in 0 .. MaxLimit - 1 :
         ListResume(scope, limit, start) = Page(all, start, limit)

(* NextUp and Resume choose alike: NextUp is Resume without the films, and for a
   named series it begins with the episode Resume shows, if that is of the
   season watched last. *)
Without(S, seq) == LET k == ByTitle({j \in DOMAIN seq : seq[j] \notin S}) IN [j \in DOMAIN k |-> seq[k[j]]]
NextUpAgrees ==
  Quiet =>
    LET n == Cardinality(Item)
        shown == Without(Of("movie"), ListResume(All, n, 0))
    IN /\ ListNextUp(n, 0) = shown
       /\ \A s \in Of("series") :
            LET used == {e \in Episodes : Series(e) = s /\ Started(e)}
            IN Range(NextUpInSeason(s, 1, 0)) =
                 {e \in Range(shown) : Series(e) = s /\ Season(e) = Season(Newest(used))}

(* Whatever is shown as being played can be resumed: the film itself, of a
   series the episode used last. *)
SessionsAgree ==
  Quiet =>
    LET resumed == Range(ListResume(All, Cardinality(Item), 0))
        Used(s) == {e \in Episodes : Series(e) = s /\ Started(e)}
    IN \A i \in ActiveSessions : Row[i].type = "movie" \/ i = Newest(Used(Series(i))) => i \in resumed

(* The badge of a series is the sum of the badges of its seasons, and a series
   with an episode to resume has something unplayed. *)
CountsAgree ==
  Quiet => \A s \in Of("series") :
    LET Sum(count) == Cardinality(UNION {{x} \X (1 .. count[x]) : x \in DOMAIN count})
        seasons == Range(ListSeasons(s))
    IN /\ SeriesCounts(s).total = Sum([x \in seasons |-> SeasonCounts(x).total])
       /\ SeriesCounts(s).unplayed = Sum([x \in seasons |-> SeasonCounts(x).unplayed])
       /\ ListResume([kind |-> "Series", id |-> s], 1, 0) # <<>> => SeriesCounts(s).unplayed > 0

(* Every item is reached from its library and from no other by opening one list
   after the other, also after deletions; Latest offers the same titles. *)
EverythingReached ==
  Quiet => \A l \in Libraries :
    LET tops == Range(UsersItems([Query EXCEPT !.lib = l]))
        Inside(S) == UNION {Range(UsersItems([Query EXCEPT !.parent = i])) : i \in S}
    IN /\ tops \cup Inside(tops) \cup Inside(Inside(tops)) = {i \in items : Row[i].lib = l}
       /\ Range(ListLatest(l, Cardinality(Item))) = tops
=============================================================================
