------------------------------- MODULE Playback -------------------------------
(***************************************************************************)
(* Playing: PlaybackInfo (routes/items/playback_info.rs), which lists the  *)
(* sources of an item with their streams and tickets (dto/media_source.rs) *)
(* and starts a probe in the background for a remote source that was never *)
(* probed, and the routes that deliver video and subtitles                 *)
(* (routes/playback.rs).  All but the ticket route pass the guard of       *)
(* Access.  Beside them a scan replaces the source of an item, attaches    *)
(* subtitle files to one, or removes one whose file is gone.  It may be cut*)
(* off between its statements: sources can stay behind without the         *)
(* subtitles they had.                                                     *)
(*                                                                         *)
(* A source has a uuid of its own, as it has an id: one number stands for  *)
(* both.  The driver answers a direct URL with itself, so its cache of     *)
(* 10 minutes holds nothing a model could tell apart and is left out, as   *)
(* are codecs, titles, sizes and chapters.                                 *)
(***************************************************************************)
EXTENDS Access, FiniteSetsExt

CONSTANTS
  Film,      \* what a source may point to -> [remote, size, streams]; streams as ffprobe lists them
  Item,      \* items
  First,     \* rows of media_source at the start, <<item, film, subtitle files>>
  SubFile,   \* subtitle files that a scan may attach
  Ranges,    \* values of a Range header
  MaxMedia   \* bound: sources made

NoItem == "no item"
RangeEnd == Nat \cup {-1} \* -1 is a number that is not there

ASSUME PlaybackAssumption ==
  /\ First \in Seq(Item \X (DOMAIN Film) \X Seq(SubFile)) /\ MaxMedia \in Nat
  /\ \A f \in DOMAIN Film : /\ Film[f].remote \in BOOLEAN /\ Film[f].size \in Nat
                            /\ Film[f].streams \in Seq([type : STRING, index : Nat])
  /\ NoItem \notin Item /\ Ranges \subseteq {<<>>} \cup (RangeEnd \X RangeEnd)

VARIABLES
  media,   \* id -> row of media_source [item, film, info]
  subs,    \* id -> its rows of external_subtitle in the order of ids
  nextMedia, \* the AUTOINCREMENT of media_source
  replacing, \* item whose source the scan is replacing, or NoItem
  leaving, \* sources the scan is deleting, whose subtitles are deleted already
  probing, \* STRM_PROBING
  running, \* id -> background probes under way
  held,    \* slot -> what the handler of its request holds
  tickets, \* ids of sources a ticket was issued for
  listed,  \* history: subtitles a client was shown, [media, place, index, file]
  stale,   \* history: sources probed again after they were probed
  cut      \* history: sources that stayed without the subtitles they had

scan == <<replacing, leaving, cut>>
play == <<media, subs, nextMedia, scan, probing, running, tickets, listed, stale>>
vars == <<access, req, play, held>>

Nothing == [item |-> NoItem, rows |-> {}, media |-> 0, place |-> 0, range |-> <<>>, size |-> -1, got |-> <<>>, status |-> 0]

(* The streams ffprobe finds are kept as JSON in the row; before, there are
   none. *)
Row(i, f) == [item |-> i, film |-> f, info |-> <<>>]

Init ==
  /\ InitAccess
  /\ media = [k \in DOMAIN First |-> Row(First[k][1], First[k][2])]
  /\ subs = [k \in DOMAIN First |-> First[k][3]] /\ nextMedia = Len(First) + 1
  /\ replacing = NoItem /\ leaving = {} /\ cut = {}
  /\ probing = {} /\ running = [k \in 1 .. MaxMedia |-> 0]
  /\ held = [s \in Slot |-> Nothing] /\ tickets = {} /\ listed = {} /\ stale = {}

Handles(s, at, route) == req[s].at = at /\ req[s].route = route
Hold(s, h) == held' = [held EXCEPT ![s] = h]
Reply(s) == Answer(s) /\ Hold(s, Nothing)

-----------------------------------------------------------------------------
(* PlaybackInfo.                                                           *)

(* list_media_sources: the rows as they are now; none is a 404. *)
ListMediaSources(s, i) ==
  /\ Handles(s, "run", "PlaybackInfo")
  /\ LET ids == {k \in DOMAIN media : media[k].item = i}
         rows == {[id |-> k, film |-> media[k].film, info |-> media[k].info] : k \in ids}
     IN IF ids = {} THEN Reply(s)
        ELSE To(s, "spawn") /\ Hold(s, [Nothing EXCEPT !.item = i, !.rows = rows])
  /\ UNCHANGED <<access, play>>

(* should_backfill, of the row as it was listed. *)
ShouldBackfill(row) == Film[row.film].remote /\ row.info = <<>>

(* spawn_strm_probe for each of the rows, without an await.  Mutant: the set is
   not asked. *)
SpawnAlways(s) ==
  /\ Handles(s, "spawn", "PlaybackInfo")
  /\ LET ids == {r.id : r \in {x \in held[s].rows : ShouldBackfill(x)}}
     IN /\ probing' = probing \cup ids
        /\ running' = [k \in DOMAIN running |-> IF k \in ids THEN running[k] + 1 ELSE running[k]]
        /\ stale' = stale \cup {k \in ids \cap DOMAIN media : media[k].info # <<>>}
  /\ To(s, "list")
  /\ UNCHANGED <<access, held, media, subs, nextMedia, scan, tickets, listed>>
SpawnStrmProbe(s) ==
  /\ Handles(s, "spawn", "PlaybackInfo")
  /\ LET ids == {r.id : r \in {x \in held[s].rows : ShouldBackfill(x)}} \ probing
     IN /\ probing' = probing \cup ids
        /\ running' = [k \in DOMAIN running |-> IF k \in ids THEN running[k] + 1 ELSE running[k]]
        /\ stale' = stale \cup {k \in ids \cap DOMAIN media : media[k].info # <<>>}
  /\ To(s, "list")
  /\ UNCHANGED <<access, held, media, subs, nextMedia, scan, tickets, listed>>

(* stream_json: a stream by ffprobe's own index. *)
StreamJson(st) == [type |-> st.type, index |-> st.index, place |-> -1, file |-> ""]
(* media_streams_json: what ffprobe listed, then the rows of external_subtitle
   after the highest index; each says where it is fetched, by its place among
   the rows from 0. *)
NextIndex(row) == Max({st.index : st \in ToSet(row.info)} \cup {-1}) + 1
Streams(row, files) ==
  [k \in DOMAIN row.info |-> StreamJson(row.info[k])]
  \o [k \in DOMAIN files |-> [type |-> "Subtitle", index |-> NextIndex(row) + k - 1, place |-> k - 1, file |-> files[k]]]

Listing(row, streams) ==
  {[media |-> row.id, place |-> st.place, index |-> st.index, file |-> st.file,
    others |-> Cardinality({k \in DOMAIN streams : streams[k].index = st.index})]
   : st \in {x \in ToSet(streams) : x.place >= 0}}
(* media_sources_json: a ticket and the streams of the next row by id; the
   subtitles are read now. *)
MediaSourceJson(s) ==
  /\ Handles(s, "list", "PlaybackInfo")
  /\ \E row \in held[s].rows :
       /\ \A other \in held[s].rows : row.id <= other.id
       /\ tickets' = tickets \cup {row.id}
       /\ listed' = listed \cup Listing(row, Streams(row, IF row.id \in DOMAIN subs THEN subs[row.id] ELSE <<>>))
       /\ IF held[s].rows = {row} THEN Reply(s)
          ELSE Hold(s, [held[s] EXCEPT !.rows = @ \ {row}]) /\ UNCHANGED req
  /\ UNCHANGED <<access, media, subs, nextMedia, scan, probing, running, stale>>

(* probe_media_checked: what ffprobe lists of it, or nothing when it fails. *)
Found(film) == {Film[film].streams, <<>>}
(* probe_media_source writes it, if the row is still there. *)
ProbeMediaSource(k) ==
  /\ running[k] > 0 /\ k \in DOMAIN media
  /\ \E found \in Found(media[k].film) : media' = [media EXCEPT ![k].info = found]
  /\ probing' = probing \ {k} /\ running' = [running EXCEPT ![k] = @ - 1]
  /\ UNCHANGED <<access, req, held, subs, nextMedia, scan, tickets, listed, stale>>
(* The time ran out, or the row is gone. *)
ProbeEnds(k) ==
  /\ running[k] > 0
  /\ probing' = probing \ {k} /\ running' = [running EXCEPT ![k] = @ - 1]
  /\ UNCHANGED <<access, req, held, media, subs, nextMedia, scan, tickets, listed, stale>>

-----------------------------------------------------------------------------
(* Video.                                                                  *)

(* parse_range: "from-to", "from-" and "-suffix".  <<>> when it cannot be
   satisfied.  Mutant: a suffix is taken from
   the start. *)
ParseRangeFromStart(range, total) ==
  IF range = <<>> THEN <<0, total - 1>>
  ELSE LET from == Max({range[1], 0}) to == range[2]
       IN IF from >= total THEN <<>>
          ELSE IF to = -1 THEN <<from, total - 1>>
          ELSE IF to < from THEN <<>> ELSE <<from, Min({to, total - 1})>>
ParseRange(range, total) ==
  IF range = <<>> THEN <<0, total - 1>>
  ELSE LET from == range[1] to == range[2]
       IN IF from = -1
          THEN IF total = 0 \/ to <= 0 THEN <<>> ELSE <<Max({total - to, 0}), total - 1>>
          ELSE IF from >= total THEN <<>>
          ELSE IF to = -1 THEN <<from, total - 1>>
          ELSE IF to < from THEN <<>> ELSE <<from, Min({to, total - 1})>>
(* The connection carries as many bytes of the rest of the file as the header
   Content-Length says. *)
Body(first, length, total) == [k \in 1 .. Min({length, total - first}) |-> first + k - 1]

(* serve_local_file *)
ServeLocalFile(range, total) ==
  LET r == ParseRange(range, total)
  IN IF r = <<>> THEN [status |-> 416, got |-> <<>>]
     ELSE [status |-> IF range = <<>> THEN 200 ELSE 206, got |-> Body(r[1], r[2] - r[1] + 1, total)]

(* play_video and ticket_play: the row of the uuid; a local file is served, the
   client is sent to any other URL.  A ticket that ran out is a 403, which
   changes nothing. *)
Deliver(s, k, range, r) ==
  IF k \notin DOMAIN media THEN Reply(s)
  ELSE LET film == Film[media[k].film]
           a == IF film.remote THEN [status |-> 307, got |-> <<>>] ELSE ServeLocalFile(range, film.size)
       IN /\ req' = [req EXCEPT ![s] = [r EXCEPT !.at = "answered"]]
          /\ Hold(s, [Nothing EXCEPT !.media = k, !.range = range, !.size = IF film.remote THEN -1 ELSE film.size, !.status = a.status, !.got = a.got])
PlayVideo(s, k, range) ==
  /\ Handles(s, "run", "Video") /\ Deliver(s, k, range, req[s])
  /\ UNCHANGED <<access, play>>
TicketPlay(s, k, range) ==
  /\ req[s].at = "idle" /\ Asked
  /\ k \in tickets /\ Deliver(s, k, range, [Idle EXCEPT !.route = "Video"])
  /\ UNCHANGED <<disabled, tokens, seen, fails, changes, misses, mixed, play>>

-----------------------------------------------------------------------------
(* Subtitles: the id of the uuid, then the row at the place.               *)

FindMedia(s, k) ==
  /\ Handles(s, "run", "Subtitle")
  /\ IF k \in DOMAIN media
     THEN \E place \in {l.place : l \in {x \in listed : x.media = k}} :
            To(s, "subtitle") /\ Hold(s, [Nothing EXCEPT !.media = k, !.place = place])
     ELSE Reply(s)
  /\ UNCHANGED <<access, play>>
(* ORDER BY id. *)
RowAt(k, place) ==
  IF k \in DOMAIN subs /\ place + 1 \in DOMAIN subs[k] THEN <<subs[k][place + 1]>> ELSE <<>>
PlaySubtitle(s) ==
  /\ Handles(s, "subtitle", "Subtitle")
  /\ LET row == RowAt(held[s].media, held[s].place)
     IN IF row = <<>> THEN Reply(s)
        ELSE To(s, "answered") /\ Hold(s, [held[s] EXCEPT !.got = row, !.status = 200])
  /\ UNCHANGED <<access, play>>

(* The answer is taken; routes of other modules are answered at once. *)
Leave(s) ==
  /\ req[s].at = "answered" \/ Handles(s, "run", "Sessions")
  /\ Reply(s) /\ UNCHANGED <<access, play>>
(* The scan leaves off between two statements: what it had not deleted yet
   stays, and is found again by the next scan. *)
Abandon == replacing' = NoItem /\ leaving' = {} /\ cut' = cut \cup leaving

(* A probe goes on when the request that began it is dropped, and ends with the
   process.  So does the scan, wherever it is. *)
Drop(s) == GiveUp(s) /\ Hold(s, Nothing) /\ UNCHANGED play
Stop ==
  /\ Restart /\ held' = [s \in Slot |-> Nothing]
  /\ probing' = {} /\ running' = [k \in DOMAIN running |-> 0] /\ Abandon
  /\ UNCHANGED <<media, subs, nextMedia, tickets, listed, stale>>

-----------------------------------------------------------------------------
(* The scan.                                                               *)

Scanning == replacing # NoItem \/ leaving # {}
ClearSubtitles(ids) ==
  /\ leaving' = ids /\ cut' = cut
  /\ subs' = [k \in DOMAIN subs |-> IF k \in ids THEN <<>> ELSE subs[k]]

(* upsert_media_source with another path: the old rows go, subtitles first,
   then there is a new one. *)
DropSubtitles(i) ==
  /\ Change /\ ~ Scanning /\ nextMedia <= MaxMedia
  /\ replacing' = i /\ ClearSubtitles({k \in DOMAIN media : media[k].item = i})
  /\ UNCHANGED <<disabled, tokens, seen, fails, requests, misses, mixed>>
  /\ UNCHANGED <<req, held, media, nextMedia, probing, running, tickets, listed, stale>>
(* detect_deletions: a local file is gone. *)
DetectDeletion(k) ==
  /\ Change /\ ~ Scanning /\ k \in DOMAIN media /\ ~ Film[media[k].film].remote
  /\ replacing' = NoItem /\ ClearSubtitles({k})
  /\ UNCHANGED <<disabled, tokens, seen, fails, requests, misses, mixed>>
  /\ UNCHANGED <<req, held, media, nextMedia, probing, running, tickets, listed, stale>>
DropSources ==
  /\ leaving # {} /\ leaving' = {}
  /\ media' = [k \in DOMAIN media \ leaving |-> media[k]]
  /\ subs' = [k \in DOMAIN media \ leaving |-> subs[k]]
  /\ UNCHANGED <<access, req, held, nextMedia, replacing, cut, probing, running, tickets, listed, stale>>
InsertSource(f) ==
  /\ replacing # NoItem /\ leaving = {}
  /\ media' = [k \in DOMAIN media \cup {nextMedia} |-> IF k = nextMedia THEN Row(replacing, f) ELSE media[k]]
  /\ subs' = [k \in DOMAIN media \cup {nextMedia} |-> IF k = nextMedia THEN <<>> ELSE subs[k]]
  /\ nextMedia' = nextMedia + 1 /\ replacing' = NoItem
  /\ UNCHANGED <<access, req, held, leaving, cut, probing, running, tickets, listed, stale>>
(* One of those statements fails, and ends it with the error. *)
ScanFails ==
  /\ Faults /\ Scanning /\ Abandon
  /\ UNCHANGED <<access, req, held, media, subs, nextMedia, probing, running, tickets, listed, stale>>

(* attach_subtitles_by_stem: a file that has no row gets one, and a file whose
   row is not found because the query fails a second one. *)
AttachSubtitle(k, f) ==
  /\ Change /\ ~ Scanning /\ k \in DOMAIN media /\ (f \notin ToSet(subs[k]) \/ Faults)
  /\ subs' = [subs EXCEPT ![k] = Append(@, f)]
  /\ UNCHANGED <<disabled, tokens, seen, fails, requests, misses, mixed>>
  /\ UNCHANGED <<req, held, media, nextMedia, scan, probing, running, tickets, listed, stale>>

Routes == {"PlaybackInfo", "Video", "Subtitle", "Sessions"}
Next ==
  \/ AccessNext /\ UNCHANGED <<play, held>>
  \/ \E s \in Slot :
       \/ \E t \in Carried, route \in Routes : Ask(s, t, route) /\ UNCHANGED <<play, held>>
       \/ \E i \in Item : ListMediaSources(s, i)
       \/ SpawnStrmProbe(s) \/ MediaSourceJson(s)
       \/ \E k \in 1 .. MaxMedia, range \in Ranges : PlayVideo(s, k, range) \/ TicketPlay(s, k, range)
       \/ \E k \in 1 .. MaxMedia : FindMedia(s, k)
       \/ PlaySubtitle(s) \/ Leave(s) \/ Drop(s)
  \/ Stop
  \/ \E k \in 1 .. MaxMedia : ProbeMediaSource(k) \/ ProbeEnds(k)
  \/ \E i \in Item : DropSubtitles(i)
  \/ \E k \in 1 .. MaxMedia : DetectDeletion(k)
  \/ DropSources \/ ScanFails
  \/ \E f \in DOMAIN Film : InsertSource(f)
  \/ \E k \in 1 .. MaxMedia, f \in SubFile : AttachSubtitle(k, f)

Spec == Init /\ [][Next]_vars

-----------------------------------------------------------------------------
(* Properties.                                                             *)

(* A subtitle stream that was listed has an index of its own among the streams
   of its source, and its URL gives the file that was listed or nothing,
   whatever was attached, probed or replaced since.  Not so for a source that
   was to go and stayed, its subtitles deleted: the next scan finds it under its
   old uuid and attaches the files again, in the order read_dir has then. *)
SubtitleIsTheOneListed ==
  /\ \A l \in listed : l.others = 1
  /\ \A s \in Slot : Handles(s, "answered", "Subtitle") =>
       \A l \in listed : /\ l.media = held[s].media /\ l.place = held[s].place
                         /\ l.media \notin cut
                         => held[s].got = <<l.file>>

(* A local video is answered with exactly the bytes asked for that it has, and
   with 416 exactly when there are none. *)
Wanted(range, size) ==
  {b \in 0 .. size - 1 :
     \/ range = <<>>
     \/ range # <<>> /\ range[1] = -1 /\ b >= size - range[2]
     \/ range # <<>> /\ range[1] >= 0 /\ b >= range[1] /\ (range[2] = -1 \/ b <= range[2])}
RangeIsExact ==
  \A s \in Slot : Handles(s, "answered", "Video") /\ held[s].size >= 0 =>
    LET wanted == Wanted(held[s].range, held[s].size)
        got == held[s].got
    IN /\ ToSet(got) = wanted /\ \A j, k \in DOMAIN got : j < k => got[j] < got[k]
       /\ held[s].status = 416 <=> wanted = {} /\ held[s].range # <<>>
DeliveredExactly == SubtitleIsTheOneListed /\ RangeIsExact

(* Streams that a background probe found are not lost to a second one that
   fails, unless that one was started after they were there: by a request that
   had listed the source before. *)
InfoIsKept ==
  [][\A k \in DOMAIN media \cap DOMAIN media' :
       media[k].info # <<>> /\ media'[k].info = <<>> => k \in stale]_vars
=============================================================================
