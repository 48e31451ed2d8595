--------------------------- MODULE MediaLifecycle ---------------------------
(***************************************************************************)
(* The life of a media file in the tables of emrs: the scan loop's walk of  *)
(* a library (scanner/mod.rs) that creates items and media sources, the     *)
(* deletion detection that follows it in the same task, the probe stage     *)
(* beside it, and the three that interfere: the scrape stage, which gives   *)
(* a movie its TMDB title and inserts virtual seasons, the deletion of the  *)
(* library, and whoever changes the disk.                                   *)
(*                                                                          *)
(* A step is one SQL statement or one look at the disk: anything can happen *)
(* between two of them.  Ids come from AUTOINCREMENT columns.  The schema   *)
(* has no foreign keys; it has unique indexes on (parent, season) and       *)
(* (parent, episode).                                                       *)
(***************************************************************************)
EXTENDS Integers, FiniteSets, Sequences, FiniteSetsExt

CONSTANTS
  NoFile,      \* no file
  File,        \* media files that may lie under the library's directory
  Kind,        \* File -> "local", "url" or "fileUrl" (the latter two are .strm)
  Chain,       \* File -> the items it stands for, outermost first
  Dir,         \* File -> the directory that lists it
  Twin,        \* File -> the .strm files of the same directory and stem
  WithSubs,    \* files with an external subtitle beside them
  Titles,      \* titles TMDB gives to movies
  Seasons,     \* season numbers TMDB lists for a series
  ProbeWidth,  \* ffprobe processes at a time (probe_concurrency)
  MaxItems,    \* bound: item rows ever inserted
  MaxSources,  \* bound: media_source rows ever inserted
  MaxLibs,     \* bound: library rows ever inserted
  MaxChanges,  \* bound: changes of the disk
  MaxCrashes,  \* bound: process restarts
  Faults       \* TRUE when a statement of the scan loop may fail

Types == {"movie", "series", "season", "episode"}
IsStrm(f) == Kind[f] # "local"
Probed(f) == Kind[f] # "url"

ASSUME MediaAssumption ==
  /\ NoFile \notin File
  /\ Kind \in [File -> {"local", "url", "fileUrl"}]
  /\ \A f \in File : LET c == Chain[f] IN
       \/ c = <<[type |-> "movie", key |-> c[1].key]>>
       \/ c = <<[type |-> "series", key |-> c[1].key], [type |-> "season", key |-> c[2].key],
                [type |-> "episode", key |-> c[3].key]>>
  /\ Twin \in [File -> SUBSET {f \in File : IsStrm(f)}]
  /\ WithSubs \subseteq File
  /\ ProbeWidth \in Nat \ {0}
  /\ {MaxItems, MaxSources, MaxLibs, MaxChanges, MaxCrashes} \subseteq Nat
  /\ Faults \in BOOLEAN

VARIABLES
  disk,     \* files that exist
  lib,      \* id of the library of the directory, 0 when there is none
  wanted,   \* a pending scan_job row of that library exists
  item,     \* table item: id -> [type, parent, lib, key, virtual]
  src,      \* table media_source: id -> [item, file, status]
  subs,     \* sources with rows in external_subtitle
  lastItem, lastSrc, lastLib,  \* newest ids ever given
  loop,     \* the scan loop
  probe,    \* the probe loop: rows of its batch and those in flight
  virt,     \* generate_virtual_entries: the series, the seasons it still has to look for
  checked,  \* last_delete_check is set
  changes, crashes,
  hist      \* history, read by the properties only

tables == <<item, src, subs, lastItem, lastSrc>>
vars == <<disk, lib, wanted, tables, lastLib, loop, probe, virt, checked, changes, crashes, hist>>

NoRow == <<0, NoFile>>
Idle == [at |-> "idle", lib |-> 0, dirs |-> {}, todo |-> {}, file |-> NoFile, level |-> 1,
         parent |-> 0, item |-> 0, row |-> NoRow, rows |-> {}, stack |-> {}]
Resting == [rows |-> {}, flight |-> {}]
NoSeries == [at |-> "idle", series |-> 0, left |-> {}, number |-> 0, lib |-> 0]

Init ==
  /\ disk \in SUBSET File /\ lib = 0 /\ wanted = FALSE
  /\ item = <<>> /\ src = <<>> /\ subs = {}
  /\ lastItem = 0 /\ lastSrc = 0 /\ lastLib = 0
  /\ loop = Idle /\ probe = Resting /\ virt = NoSeries /\ checked = FALSE
  /\ changes = 0 /\ crashes = 0
  /\ hist = [still |-> FALSE, lost |-> FALSE, torn |-> FALSE, mixed |-> FALSE, ghost |-> FALSE]

-----------------------------------------------------------------------------
(* The tables.                                                             *)

Items == DOMAIN item
Sources == DOMAIN src
SourcesOf(i) == {s \in Sources : src[s].item = i}
Without(t, S) == [k \in DOMAIN t \ S |-> t[k]]
With(t, k, row) == [j \in DOMAIN t \cup {k} |-> IF j = k THEN row ELSE t[j]]

Step(f) == Chain[f][loop.level]

(* The row upsert_item and upsert_series_item look for: movies and series by
   the library and their title or directory, the others by their parent. *)
Matches(i, e) ==
  /\ item[i].type = e.type /\ item[i].key = e.key
  /\ IF e.type \in {"movie", "series"} THEN item[i].lib = loop.lib
                                       ELSE item[i].parent = loop.parent

(* The unique indexes on (parent, season_number) and (parent, episode_number). *)
Taken(row) ==
  /\ row.type \in {"season", "episode"}
  /\ \E i \in Items : item[i].type = row.type /\ item[i].parent = row.parent /\ item[i].key = row.key

Disturb == hist' = [hist EXCEPT !.still = FALSE]
Tear == hist' = [hist EXCEPT !.still = FALSE, !.torn = TRUE, !.lost = TRUE]

-----------------------------------------------------------------------------
(* The scan loop: scan_path and scan_dir.                                  *)

(* The row goes to running and the paths of its library are read. *)
Claim ==
  /\ loop.at = "idle" /\ wanted /\ wanted' = FALSE
  /\ loop' = [Idle EXCEPT !.at = "claimed"]
  /\ Disturb
  /\ UNCHANGED <<disk, lib, tables, lastLib, probe, virt, checked, changes, crashes>>

(* scan_path gets the library of the directory, or makes it again when it was
   deleted since. *)
ScanStart ==
  /\ loop.at = "claimed"
  /\ IF lib # 0 THEN UNCHANGED <<lib, lastLib>>
     ELSE lastLib < MaxLibs /\ lastLib' = lastLib + 1 /\ lib' = lastLib + 1
  /\ loop' = [Idle EXCEPT !.at = "walk", !.lib = lib', !.dirs = {Dir[f] : f \in File}]
  /\ hist' = [hist EXCEPT !.still = TRUE, !.lost = FALSE]
  /\ UNCHANGED <<disk, wanted, tables, probe, virt, checked, changes, crashes>>

LoopOnly == UNCHANGED <<disk, lib, wanted, lastLib, probe, virt, checked, changes, crashes>>

(* read_dir: a video whose stem a .strm file of the directory has is left out. *)
ListDir(d) ==
  /\ loop.at = "walk" /\ loop.todo = {} /\ d \in loop.dirs
  /\ loop' = [loop EXCEPT !.dirs = @ \ {d},
                          !.todo = {f \in disk : Dir[f] = d /\ Twin[f] \cap disk = {}}]
  /\ LoopOnly /\ UNCHANGED <<tables, hist>>

(* The .strm files come first; one that is gone by now is only counted as an
   error.  A movie is first looked for by the path of its source. *)
PickFile(f) ==
  /\ loop.at = "walk" /\ f \in loop.todo
  /\ IsStrm(f) \/ \A g \in loop.todo : ~IsStrm(g)
  /\ loop' = IF IsStrm(f) /\ f \notin disk THEN [loop EXCEPT !.todo = @ \ {f}]
             ELSE [loop EXCEPT !.todo = @ \ {f}, !.file = f, !.level = 1, !.parent = 0,
                     !.at = IF Chain[f][1].type = "movie" THEN "byPath" ELSE "lookup"]
  /\ LoopOnly /\ UNCHANGED <<tables, hist>>

(* The next item of the chain, or the source when i is the innermost. *)
Descend(i) ==
  IF loop.level < Len(Chain[loop.file])
  THEN [loop EXCEPT !.at = "lookup", !.level = @ + 1, !.parent = i]
  ELSE [loop EXCEPT !.at = "source", !.parent = i]

HoldsPath(i) ==
  /\ item[i].type = "movie" /\ item[i].lib = loop.lib
  /\ \E s \in SourcesOf(i) : src[s].file = loop.file

(* find_movie_item_by_path.  Mutant: the movie is looked for by title alone. *)
FindByPathNever ==
  /\ loop.at = "byPath" /\ loop' = [loop EXCEPT !.at = "lookup"]
  /\ LoopOnly /\ UNCHANGED <<tables, hist>>
FindByPath ==
  /\ loop.at = "byPath"
  /\ LET found == {i \in Items : HoldsPath(i)}
     IN loop' = IF found = {} THEN [loop EXCEPT !.at = "lookup"] ELSE Descend(Min(found))
  /\ LoopOnly /\ UNCHANGED <<tables, hist>>

(* The SELECT of upsert_item or upsert_series_item. *)
Lookup ==
  /\ loop.at = "lookup"
  /\ LET found == {i \in Items : Matches(i, Step(loop.file))}
     IN IF found = {} THEN loop' = [loop EXCEPT !.at = "insert"]
        ELSE \E i \in found : loop' = Descend(i)
  /\ LoopOnly /\ UNCHANGED <<tables, hist>>

NewItem == [type |-> Step(loop.file).type, parent |-> loop.parent, lib |-> loop.lib,
            key |-> Step(loop.file).key, virtual |-> FALSE]

(* The INSERT; a row that another task inserted meanwhile makes it fail, and
   the file is left for the next scan. *)
InsertItem ==
  /\ loop.at = "insert"
  /\ IF Taken(NewItem)
     THEN /\ loop' = [loop EXCEPT !.at = "walk"]
          /\ hist' = [hist EXCEPT !.still = FALSE, !.lost = TRUE]
          /\ UNCHANGED <<item, lastItem>>
     ELSE /\ lastItem < MaxItems /\ lastItem' = lastItem + 1
          /\ item' = With(item, lastItem + 1, NewItem)
          /\ loop' = [loop EXCEPT !.at = "readBack", !.item = lastItem + 1]
          /\ UNCHANGED hist
  /\ LoopOnly /\ UNCHANGED <<src, subs, lastSrc>>

(* SELECT id FROM item ORDER BY id DESC LIMIT 1: the newest row of the table,
   whoever inserted it. *)
ReadBack ==
  /\ loop.at = "readBack"
  /\ IF Items = {} THEN loop' = [loop EXCEPT !.at = "walk"] /\ Disturb
     ELSE /\ loop' = Descend(Max(Items))
          /\ hist' = IF Max(Items) = loop.item THEN hist
                     ELSE [hist EXCEPT !.mixed = TRUE, !.still = FALSE]
  /\ LoopOnly /\ UNCHANGED tables

(* upsert_media_source: the same file again keeps its row as it is. *)
FindSource ==
  /\ loop.at = "source"
  /\ LET found == {s \in SourcesOf(loop.parent) : src[s].file = loop.file}
     IN loop' = IF found = {} THEN [loop EXCEPT !.at = "dropSubs"]
                ELSE [loop EXCEPT !.at = "attach", !.row = <<Min(found), loop.file>>]
  /\ LoopOnly /\ UNCHANGED <<tables, hist>>

DropSubs ==
  /\ loop.at = "dropSubs"
  /\ subs' = subs \ SourcesOf(loop.parent)
  /\ loop' = [loop EXCEPT !.at = "dropSources"]
  /\ LoopOnly /\ UNCHANGED <<item, src, lastItem, lastSrc, hist>>

DropSources ==
  /\ loop.at = "dropSources"
  /\ src' = Without(src, SourcesOf(loop.parent))
  /\ loop' = [loop EXCEPT !.at = "insertSource"]
  /\ LoopOnly /\ UNCHANGED <<item, subs, lastItem, lastSrc, hist>>

(* INSERT INTO media_source; the id is read back by the row's own uuid. *)
InsertSource ==
  /\ loop.at = "insertSource" /\ lastSrc < MaxSources
  /\ lastSrc' = lastSrc + 1
  /\ src' = With(src, lastSrc + 1,
                 [item |-> loop.parent, file |-> loop.file,
                  status |-> IF Probed(loop.file) THEN "pending" ELSE "ok"])
  /\ loop' = [loop EXCEPT !.at = "attach", !.row = <<lastSrc + 1, loop.file>>]
  /\ LoopOnly /\ UNCHANGED <<item, subs, lastItem, hist>>

(* attach_subtitles_by_stem, which leaves a subtitle already there alone. *)
Attach ==
  /\ loop.at = "attach"
  /\ subs' = IF loop.file \in WithSubs THEN subs \cup {loop.row[1]} ELSE subs
  /\ loop' = [loop EXCEPT !.at = "walk", !.file = NoFile, !.level = 1, !.parent = 0,
                          !.item = 0, !.row = NoRow]
  /\ LoopOnly /\ UNCHANGED <<item, src, lastItem, lastSrc, hist>>

InFile == loop.at \in {"byPath", "lookup", "insert", "readBack", "source", "dropSubs",
                       "dropSources", "insertSource"}

(* A statement of the file fails: the error is counted and the walk goes on. *)
FileFails ==
  /\ Faults /\ InFile
  /\ loop' = [loop EXCEPT !.at = "walk"]
  /\ Tear
  /\ LoopOnly /\ UNCHANGED tables

-----------------------------------------------------------------------------
(* Deletion detection: after a scan, or when its interval has passed.       *)

(* SELECT id, path, remote_path FROM media_source; http sources are skipped. *)
DetectList ==
  /\ \/ loop.at = "walk" /\ loop.todo = {} /\ loop.dirs = {}
     \/ loop.at = "idle" /\ checked /\ ~wanted
  /\ loop' = [Idle EXCEPT !.at = "stat",
                !.rows = {<<s, src[s].file>> : s \in {r \in Sources : Kind[src[r].file] # "url"}}]
  /\ checked' = TRUE
  /\ UNCHANGED <<disk, lib, wanted, tables, lastLib, probe, virt, changes, crashes, hist>>

(* tokio::fs::metadata of the stored path: the path of a .strm file that names
   a local file is a file:// URL, which no file has.  Mutants: nothing is found
   to be missing; or a remote target is looked for on the disk. *)
OnDiskAlways(f) == TRUE
OnDiskNever(f) == FALSE
OnDisk(f) == Kind[f] = "local" /\ f \in disk

Stat(r) ==
  /\ loop.at = "stat" /\ r \in loop.rows
  /\ loop' = IF OnDisk(r[2]) THEN [loop EXCEPT !.rows = @ \ {r}]
             ELSE [loop EXCEPT !.at = "itemOf", !.rows = @ \ {r}, !.row = r]
  /\ LoopOnly /\ UNCHANGED <<tables, hist>>

DetectEnd ==
  /\ loop.at = "stat" /\ loop.rows = {}
  /\ loop' = Idle
  /\ LoopOnly /\ UNCHANGED <<tables, hist>>

ItemOf ==
  /\ loop.at = "itemOf"
  /\ loop' = [loop EXCEPT !.at = "delSubs",
                          !.item = IF loop.row[1] \in Sources THEN src[loop.row[1]].item ELSE 0]
  /\ LoopOnly /\ UNCHANGED <<tables, hist>>

(* Mutant: the subtitles stay. *)
DelSubsNone ==
  /\ loop.at = "delSubs" /\ loop' = [loop EXCEPT !.at = "delSource"]
  /\ LoopOnly /\ UNCHANGED <<tables, hist>>
DelSubs ==
  /\ loop.at = "delSubs"
  /\ subs' = subs \ {loop.row[1]}
  /\ loop' = [loop EXCEPT !.at = "delSource"]
  /\ LoopOnly /\ UNCHANGED <<item, src, lastItem, lastSrc, hist>>

DelSource ==
  /\ loop.at = "delSource"
  /\ src' = Without(src, {loop.row[1]})
  /\ loop' = [loop EXCEPT !.at = "count"]
  /\ LoopOnly /\ UNCHANGED <<item, subs, lastItem, lastSrc, hist>>

(* The item goes when no other source is left, or the count failed.  Mutant:
   the row whose source is gone keeps its item. *)
CountKeepsItem ==
  /\ loop.at = "count"
  /\ loop' = [loop EXCEPT !.at = "stat", !.row = NoRow, !.item = 0]
  /\ LoopOnly /\ UNCHANGED <<tables, hist>>
Count ==
  /\ loop.at = "count"
  /\ \E failed \in {FALSE, Faults} :
       loop' = IF loop.item # 0 /\ (failed \/ SourcesOf(loop.item) = {})
               THEN [loop EXCEPT !.at = "delItem", !.stack = {loop.item}, !.row = NoRow, !.item = 0]
               ELSE [loop EXCEPT !.at = "stat", !.row = NoRow, !.item = 0]
  /\ LoopOnly /\ UNCHANGED <<tables, hist>>

(* delete_item: the children are stacked, the row goes unless it is virtual. *)
DelItem(i) ==
  /\ loop.at = "delItem" /\ i \in loop.stack
  /\ item' = IF i \in Items /\ item[i].virtual THEN item ELSE Without(item, {i})
  /\ LET rest == (loop.stack \ {i}) \cup {c \in Items : item[c].parent = i}
     IN loop' = IF rest = {} THEN [loop EXCEPT !.at = "stat", !.stack = {}]
                ELSE [loop EXCEPT !.stack = rest]
  /\ LoopOnly /\ UNCHANGED <<src, subs, lastItem, lastSrc, hist>>

(* An error before the count ends the detection. *)
DetectFails ==
  /\ Faults /\ loop.at \in {"itemOf", "delSubs", "delSource"}
  /\ loop' = Idle
  /\ Tear
  /\ LoopOnly /\ UNCHANGED tables

-----------------------------------------------------------------------------
(* The probe loop.                                                         *)

NotProbe == UNCHANGED <<disk, lib, wanted, item, subs, lastItem, lastSrc, lastLib, loop, virt,
                        checked, changes, crashes, hist>>

(* Mutant: the queue holds the rows in ok. *)
PendingOkOnly == {s \in Sources : src[s].status = "ok" /\ Probed(src[s].file)}
PendingSources == {s \in Sources : src[s].status = "pending" /\ Probed(src[s].file)}

ProbeList ==
  /\ probe = Resting /\ PendingSources # {}
  /\ probe' = [rows |-> PendingSources, flight |-> {}]
  /\ UNCHANGED src /\ NotProbe

(* The next chunk of the batch, once the last one has been joined. *)
ProbeChunk ==
  /\ probe.flight = {} /\ probe.rows # {}
  /\ \E S \in SUBSET probe.rows :
       /\ Cardinality(S) = Min({ProbeWidth, Cardinality(probe.rows)})
       /\ probe' = [rows |-> probe.rows \ S, flight |-> S]
  /\ UNCHANGED src /\ NotProbe

(* UPDATE ... WHERE id: nothing happens to a row deleted meanwhile. *)
ProbeDone(s) ==
  /\ s \in probe.flight
  /\ probe' = [probe EXCEPT !.flight = @ \ {s}]
  /\ \E result \in {"ok", "failed"} :
       src' = IF s \in Sources THEN [src EXCEPT ![s].status = result] ELSE src
  /\ NotProbe

-----------------------------------------------------------------------------
(* The scrape stage, as far as it writes what the scan reads.               *)

NotVirt == UNCHANGED <<disk, lib, wanted, src, subs, lastSrc, lastLib, loop, probe, checked, changes,
                       crashes>>

(* generate_virtual_entries reads the series and asks TMDB for its seasons. *)
VirtBegin(i) ==
  /\ virt.at = "idle" /\ i \in Items /\ item[i].type = "series"
  /\ \E S \in SUBSET Seasons : virt' = [NoSeries EXCEPT !.at = "begun", !.series = i, !.left = S]
  /\ NotVirt /\ UNCHANGED <<item, lastItem, hist>>

(* Is there a row of the season?  Nobody looks whether the series still is. *)
VirtFind(n) ==
  /\ virt.at = "begun" /\ n \in virt.left
  /\ virt' = IF \E c \in Items : /\ item[c].type = "season" /\ item[c].parent = virt.series
                                  /\ item[c].key = n
             THEN [virt EXCEPT !.left = @ \ {n}]
             ELSE [virt EXCEPT !.at = "found", !.left = @ \ {n}, !.number = n]
  /\ NotVirt /\ UNCHANGED <<item, lastItem, hist>>

(* series_library_id(..).unwrap_or(0): 0 when the series is gone, or when the
   query fails. *)
VirtLib ==
  /\ virt.at = "found"
  /\ \E failed \in {FALSE, Faults} :
       /\ virt' = [virt EXCEPT !.at = "ready",
                     !.lib = IF virt.series \in Items /\ ~failed THEN item[virt.series].lib ELSE 0]
       /\ hist' = [hist EXCEPT !.mixed = @ \/ failed]
  /\ NotVirt /\ UNCHANGED <<item, lastItem>>

(* The season is inserted; a row that another task inserted meanwhile ends the
   function.  Its episodes never are: their INSERT leaves out library_id, which
   is NOT NULL. *)
VirtInsert ==
  /\ virt.at = "ready"
  /\ LET row == [type |-> "season", parent |-> virt.series, key |-> virt.number, virtual |-> TRUE,
                 lib |-> virt.lib]
     IN IF Taken(row) THEN virt' = NoSeries /\ UNCHANGED <<item, lastItem>>
        ELSE /\ lastItem < MaxItems /\ lastItem' = lastItem + 1
             /\ item' = With(item, lastItem + 1, row)
             /\ virt' = [virt EXCEPT !.at = "begun", !.number = 0, !.lib = 0]
  /\ NotVirt /\ UNCHANGED hist

(* The list is through, or TMDB does not answer, or a statement fails. *)
VirtEnd ==
  /\ virt.at # "idle" /\ (virt.at = "begun" \/ Faults)
  /\ virt' = NoSeries
  /\ NotVirt /\ UNCHANGED <<item, lastItem, hist>>

(* A movie is scraped: its title is TMDB's from now on. *)
Retitle(i, t) ==
  /\ i \in Items /\ item[i].type = "movie" /\ item[i].key \notin Titles /\ t \in Titles
  /\ item' = [item EXCEPT ![i].key = t]
  /\ UNCHANGED <<disk, lib, wanted, src, subs, lastItem, lastSrc, lastLib, loop, probe, virt,
                 checked, changes, crashes, hist>>

-----------------------------------------------------------------------------
(* Requests, the disk, restarts.                                           *)

(* A scan is asked for. *)
Request ==
  /\ lib # 0 /\ ~wanted /\ wanted' = TRUE
  /\ UNCHANGED <<disk, lib, tables, lastLib, loop, probe, virt, checked, changes, crashes, hist>>

(* A scan is asked for when the directory has no library, by a request or by the
   watcher: get_or_create_by_path makes one. *)
MakeLibrary ==
  /\ lib = 0 /\ lastLib < MaxLibs /\ lib' = lastLib + 1 /\ lastLib' = lastLib + 1
  /\ wanted' = TRUE
  /\ Disturb
  /\ UNCHANGED <<disk, tables, loop, probe, virt, checked, changes, crashes>>

(* DELETE /admin/libraries/{id}, one transaction.  What the scan in progress,
   or the generation of virtual seasons, goes on to insert belongs to no library
   any more. *)
DeleteLibrary ==
  /\ lib # 0 /\ lastLib < MaxLibs
  /\ LET dead == {i \in Items : item[i].lib = lib}
         gone == {s \in Sources : src[s].item \in dead}
     IN /\ item' = Without(item, dead) /\ src' = Without(src, gone) /\ subs' = subs \ gone
        /\ hist' = [hist EXCEPT !.still = FALSE,
                                !.ghost = @ \/ (loop.lib = lib /\ loop.at # "idle") \/ virt.at # "idle"]
  /\ lib' = 0 /\ wanted' = FALSE
  /\ UNCHANGED <<disk, lastItem, lastSrc, lastLib, loop, probe, virt, checked, changes, crashes>>

(* A file appears or goes; the watcher of the directory asks for a scan, of the
   library there is or (MakeLibrary) of one it makes. *)
DiskChanges(f) ==
  /\ changes < MaxChanges /\ changes' = changes + 1
  /\ disk' = IF f \in disk THEN disk \ {f} ELSE disk \cup {f}
  /\ wanted' = (wanted \/ lib # 0)
  /\ Disturb
  /\ UNCHANGED <<lib, tables, lastLib, loop, probe, virt, checked, crashes>>

(* The process stops and starts again: the running row is not picked up. *)
Restart ==
  /\ crashes < MaxCrashes /\ crashes' = crashes + 1
  /\ loop' = Idle /\ probe' = Resting /\ virt' = NoSeries /\ checked' = FALSE
  /\ IF loop.at = "idle" THEN Disturb ELSE Tear
  /\ UNCHANGED <<disk, lib, wanted, tables, lastLib, changes>>

ScanLoop ==
  \/ Claim \/ ScanStart \/ (\E d \in loop.dirs : ListDir(d)) \/ (\E f \in loop.todo : PickFile(f))
  \/ FindByPath \/ Lookup \/ InsertItem \/ ReadBack
  \/ FindSource \/ DropSubs \/ DropSources \/ InsertSource \/ Attach \/ FileFails
Detection ==
  \/ DetectList \/ (\E r \in loop.rows : Stat(r)) \/ DetectEnd
  \/ ItemOf \/ DelSubs \/ DelSource \/ Count \/ (\E i \in loop.stack : DelItem(i)) \/ DetectFails
ProbeLoop == ProbeList \/ ProbeChunk \/ \E s \in probe.flight : ProbeDone(s)
VirtGoesOn == (\E n \in Seasons : VirtFind(n)) \/ VirtLib \/ VirtInsert \/ VirtEnd
ScrapeLoop ==
  \/ (\E i \in Items : VirtBegin(i)) \/ VirtGoesOn
  \/ \E i \in Items, t \in Titles : Retitle(i, t)
Environment == Request \/ MakeLibrary \/ DeleteLibrary \/ (\E f \in File : DiskChanges(f)) \/ Restart

Next == ScanLoop \/ Detection \/ ProbeLoop \/ ScrapeLoop \/ Environment

Spec == Init /\ [][Next]_vars

(* The loops are tokio tasks that run for ever; requests, changes of the disk,
   failing statements and restarts are not owed to anybody. *)
Fairness ==
  /\ WF_vars(ScanLoop /\ ~FileFails) /\ WF_vars(Detection /\ loop.at # "idle")
  /\ WF_vars(ProbeLoop) /\ WF_vars(VirtGoesOn)
FairSpec == Spec /\ Fairness

-----------------------------------------------------------------------------
(* Properties.                                                             *)

(* Files that come to the item of f: those that stand for the same innermost
   item (a movie's title in this library, an episode's number in its season),
   and movies with a title of TMDB, which the movie of f may have by now. *)
MayTakeOver(g, f) ==
  \/ Chain[g] = Chain[f]
  \/ Len(Chain[f]) = 1 /\ Len(Chain[g]) = 1 /\ Chain[g][1].key \in Titles
Rivals(f) == {g \in disk : MayTakeOver(g, f)}
Settled == hist.still /\ loop.at = "idle"

(* After a round (scan and deletion detection) during which nobody touched the
   disk, the library or, in mid-insert, the item table, the tables mirror the
   disk, whatever earlier crashes, failures and deleted libraries left behind: every file has its
   source under an item of its type, or lost it to a file that comes to the same
   item, and no local source is without its file.  (The source of a .strm that
   names a local file is deleted by every round, and with it the item.) *)
Mirrors ==
  (Settled /\ ~hist.mixed) =>
    /\ \A f \in disk :
         (Twin[f] \cap disk = {} /\ \A g \in Rivals(f) : Kind[g] # "fileUrl") =>
         \E s \in Sources :
           /\ src[s].file \in Rivals(f) /\ src[s].item \in Items
           /\ item[src[s].item].lib = lib
           /\ item[src[s].item].type = Chain[f][Len(Chain[f])].type
    /\ \A s \in Sources : Kind[src[s].file] = "local" => src[s].file \in disk

(* And as long as no crash or failing statement has torn a file or a detection
   apart, and no insert was crossed by another or outlived its library, no movie
   or episode is left without a source. *)
NothingLeftOver ==
  (Settled /\ ~hist.torn /\ ~hist.mixed /\ ~hist.ghost) =>
    \A i \in Items : item[i].type \in {"movie", "episode"} => SourcesOf(i) # {}

(* Without foreign keys only the order of the statements keeps the tables
   consistent: at every moment a source has its item, an item its parent, a
   subtitle its source; a restart or a failing statement of the scan leaves no
   dangling row.  What breaks this is a scan that outlives its library, a
   generation of virtual seasons that outlives it (neither looks again whether
   the library and the series are there), a scan that takes the id of a row of the
   scrape stage for its own, and a virtual season written for library 0 because
   the query for its library failed. *)
Intact ==
  (~hist.ghost /\ ~hist.mixed) =>
    /\ \A s \in Sources : src[s].item \in Items
    /\ \A i \in Items : item[i].parent # 0 => item[i].parent \in Items
    /\ subs \subseteq Sources

(* An item has one source at most, and so has a file unless it was written for
   a library that is gone or on a row of the scrape stage. *)
OneSource ==
  /\ \A s, t \in Sources : src[s].item = src[t].item => s = t
  /\ (~hist.ghost /\ ~hist.mixed) => \A s, t \in Sources : src[s].file = src[t].file => s = t

(* While nobody touches the disk, the source of a local file that exists is
   deleted only to make room for a file that comes to the same item, or with its
   library. *)
LiveSourceStays ==
  [][\A s \in Sources \ DOMAIN src' :
       (hist.still /\ ~hist.mixed /\ lib' = lib /\ Kind[src[s].file] = "local"
          /\ src[s].file \in disk) =>
         loop.file \in Rivals(src[s].file) \ {src[s].file}]_vars

(* A file that stays on the disk, in a directory whose library stays and whose
   last round was not cut short, ends up with a source that was probed; a
   source whose file stays away goes. *)
HasProbedSource(f) == \E s \in Sources : src[s].file = f /\ src[s].status # "pending"
Converges ==
  \A f \in File :
    /\ <>[](f \in disk /\ Twin[f] \cap disk = {} /\ Rivals(f) = {f} /\ lib # 0 /\ ~hist.lost)
         => <>[]HasProbedSource(f)
    /\ <>[](f \notin disk /\ Kind[f] = "local" /\ lib # 0 /\ ~hist.lost)
         => <>[](\A s \in Sources : src[s].file # f)

(* pipeline.rs: "http/strm are not checked for existence as local files": the
   source of a .strm file is never found missing. *)
StrmIsNotChecked == loop.at = "itemOf" => ~IsStrm(loop.row[2])

(* stages/probe.rs: a failed row "can be reset by a rescan": when the scan meets
   the file again, its source is not left in failed. *)
RescanResetsFailed ==
  [][(loop.at = "source" /\ loop'.at = "attach") => src'[loop'.row[1]].status # "failed"]_vars
=============================================================================
