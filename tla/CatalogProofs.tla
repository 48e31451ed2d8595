----------------------------- MODULE CatalogProofs -----------------------------
(* Proofs about Catalog, for any library, any entries and NFO files, any number
   of tasks, and whether or not calls and statements fail and the process stops. *)
EXTENDS Catalog, SequenceTheorems, FiniteSetTheorems, WellFoundedInduction, TLAPS

(***************************************************************************)
(* Sequences.                                                              *)
(***************************************************************************)

LEMMA Least == ASSUME NEW T \in SUBSET Nat, T # {} PROVE \E x \in T : \A y \in T : x <= y
<1> DEFINE R == OpToRel(<, Nat)
<1>1. \A x, y \in Nat : y < x => <<y, x>> \in R
  BY DEF OpToRel
<1>2. IsWellFoundedOn(R, Nat)
  BY NatLessThanWellFounded
<1> HIDE DEF R
<1>3. PICK x \in T : \A y \in T : ~ (<<y, x>> \in R)
  BY <1>2, WFMin
<1>4. ASSUME NEW y \in T PROVE x <= y
  <2>1. ~ (<<y, x>> \in R) /\ x \in Nat /\ y \in Nat
    BY <1>3
  <2>2. ~ (y < x)
    BY <1>1, <2>1, Zenon
  <2> QED BY <2>1, <2>2
<1> QED BY <1>4

(* The elements of a concatenation are those of its parts, if the function that
   FlattenSeq means exists: the shortest prefix without one would be one longer
   than a prefix with one. *)
LEMMA Flattened == ASSUME NEW S, NEW ss \in Seq(Seq(S)) PROVE FlattenSeq(ss) \in Seq(S)
<1> DEFINE n == Len(ss)
           Next2(f, m) == [i \in 1 .. m |-> IF i = 1 THEN ss[i] ELSE f[i - 1] \o ss[i]]
           Builds(f, m) == f = Next2(f, m)
           T == {m \in 0 .. n : ~ \E f : Builds(f, m)}
<1>0. n \in Nat /\ \A i \in 1 .. n : ss[i] \in Seq(S)
  OBVIOUS
<1>1. CASE n = 0
  <2>1. ss = <<>> /\ <<>> \in Seq(S)
    BY <1>1
  <2> QED BY <1>1, <2>1 DEF FlattenSeq
<1>2. CASE n # 0
  <2>1. Builds([i \in 1 .. 0 |-> 0], 0)
    OBVIOUS
  <2>2. ASSUME NEW m \in 1 .. n, NEW f, Builds(f, m - 1) PROVE \E g : Builds(g, m)
    <3> DEFINE g == [i \in 1 .. m |-> IF i = m THEN IF i = 1 THEN ss[i] ELSE f[m - 1] \o ss[m] ELSE f[i]]
    <3>1. \A i \in 1 .. m - 1 : f[i] = IF i = 1 THEN ss[i] ELSE f[i - 1] \o ss[i]
      BY <2>2, <1>0
    <3>2. \A i \in 1 .. m : g[i] = IF i = 1 THEN ss[i] ELSE g[i - 1] \o ss[i]
      BY <1>0, <3>1
    <3>3. g = Next2(g, m)
      BY <3>2
    <3> QED BY <3>3
  <2> HIDE DEF Builds
  <2>3. T = {}
    <3> SUFFICES ASSUME T # {} PROVE FALSE
      OBVIOUS
    <3>1. T \in SUBSET Nat
      BY <1>0
    <3>2. PICK m \in T : \A k \in T : m <= k
      <4> HIDE DEF T
      <4> QED BY <3>1, Least
    <3>3. m \in 1 .. n
      BY <1>0, <2>1
    <3>4. m - 1 \in 0 .. n /\ m - 1 \notin T
      <4>1. m - 1 \in 0 .. n /\ ~ (m <= m - 1)
        BY <1>0, <3>3
      <4> HIDE DEF T
      <4> QED BY <3>2, <4>1
    <3> QED BY <2>2, <3>3, <3>4
  <2>4. \E f : Builds(f, n)
    BY <1>0, <2>3
  <2> DEFINE flatten == CHOOSE f : Builds(f, n)
  <2>5. Builds(flatten, n)
    BY <2>4
  <2>6. FlattenSeq(ss) = flatten[n]
    BY <1>2 DEF FlattenSeq, Builds
  <2> HIDE DEF flatten
  <2>7. \A i \in 1 .. n : flatten[i] = IF i = 1 THEN ss[i] ELSE flatten[i - 1] \o ss[i]
    BY <2>5 DEF Builds
  <2> DEFINE U == {i \in 1 .. n : flatten[i] \notin Seq(S)}
  <2>8. U = {}
    <3> SUFFICES ASSUME U # {} PROVE FALSE
      OBVIOUS
    <3>1. U \in SUBSET Nat
      BY <1>0
    <3>2. PICK i \in U : \A k \in U : i <= k
      <4> HIDE DEF U
      <4> QED BY <3>1, Least
    <3>3. i # 1
      BY <1>0, <2>7
    <3>4. i - 1 \in 1 .. n /\ i - 1 \notin U
      BY <1>0, <3>2, <3>3
    <3>5. flatten[i - 1] \in Seq(S) /\ ss[i] \in Seq(S) /\ flatten[i] = flatten[i - 1] \o ss[i]
      BY <1>0, <2>7, <3>3, <3>4
    <3>6. flatten[i - 1] \o ss[i] \in Seq(S)
      BY <3>5, ConcatProperties
    <3> QED BY <3>5, <3>6
  <2> QED BY SMTT(30), <1>0, <1>2, <2>6, <2>8
<1> QED BY <1>1, <1>2

LEMMA SetSequence == ASSUME NEW S, IsFiniteSet(S) PROVE SetToSeq(S) \in Seq(S)
<1>1. Cardinality(S) \in Nat /\ \E f : f \in Bijection(1 .. Cardinality(S), S)
  BY FS_CardinalityType DEF ExistsBijection
<1>2. \E f \in [1 .. Cardinality(S) -> S] : IsInjective(f)
  BY <1>1 DEF Bijection, Injection, IsInjective
<1>3. SetToSeq(S) \in [1 .. Cardinality(S) -> S]
  BY <1>2 DEF SetToSeq
<1> QED BY <1>1, <1>3
-----------------------------------------------------------------------------
(***************************************************************************)
(* The inductive invariant.                                                *)
(***************************************************************************)

OpName == {"apply", "upsert", "actor", "image", "pictures", "backdrops", "backdrop", "season", "episode",
           "credits", "unlink", "unpicture", "delete"}
(* Texts: the prover knows of no literal that it is a STRING. *)
Text == STRING \cup {NoText, "Actor", "primary", "backdrop", "thumb", "logo"}
OpType == [op : OpName, table : Table \cup {NoText}, item : Item, tmdb : Nat, name : Text, role : Text,
           type : Text, url : Text]
Spot == {"next", "insert", "newest", "rename", "enrich", "link", "look", "picture", "repicture"}
WorkType == [todo : Seq(OpType), at : Spot, id : Nat, needs : BOOLEAN, order : Nat, crossed : BOOLEAN,
             entry : DOMAIN Tmdb \cup {NoEntry}]
TermRow == [tmdb : Nat, name : Text, bio : Nat]
LinkRow == [table : Table, item : Item, id : Nat, role : Text, order : Nat]
ImageRow == [row : Nat, of : {"item", "people"}, id : Nat, type : Text, url : Text]

DataTyped ==
  /\ items \subseteq Item /\ rows \in [Table -> Seq(TermRow)]
  /\ links \subseteq LinkRow /\ images \subseteq ImageRow /\ nextImage \in Nat
  /\ applied \in [Item -> SUBSET DOMAIN Tmdb] /\ latest \in [Item \X Part -> DOMAIN Tmdb \cup {NoEntry}]
  /\ astray \subseteq Table \X Item
Typed == DataTyped /\ work \in [Worker -> WorkType]

(* A row has the name of its TMDB id, and the id is its own. *)
Named(r) == r.tmdb # 0 => r.tmdb \in Known /\ r.name = NameOf[r.tmdb]
RowsOK ==
  \A t \in Table :
    /\ \A k \in DOMAIN rows[t] : Named(rows[t][k])
    /\ \A j, k \in DOMAIN rows[t] : rows[t][j].tmdb = rows[t][k].tmdb /\ rows[t][j].tmdb # 0 => j = k

(* An operation of an agenda for entry e: what it upserts is listed, by e or by
   the NFO file. *)
Upserts(o) == o.op \in {"upsert", "actor"}
By(e) == IF e = NoEntry THEN {} ELSE {e}
Fit(o, e) ==
  /\ o.op \in {"apply", "season", "episode", "credits", "pictures", "backdrops", "backdrop"} => e \in DOMAIN Tmdb
  /\ o.op = "image" => e \in DOMAIN Tmdb \/ o.item \in DOMAIN Nfo
  /\ Upserts(o) => /\ o.table \in Table /\ Named(o) /\ (o.table = "people" => o.tmdb # 0)
                   /\ Listed(o.table, o.item, o, By(e))
  /\ o.op = "actor" => o.table = "people"
  /\ o.op = "unlink" => o.table \in Table
(* It is ready when e is among the entries A[i] written to its item i; the rest
   of an agenda may wait for the operation that writes it, which is its first. *)
Ready(e, A) == {o \in OpType : Fit(o, e) /\ (o.op = "credits" \/ Upserts(o) => By(e) \subseteq A[o.item])}
Written(r, A) ==
  IF r.todo # <<>> /\ Head(r.todo).op = "apply"
  THEN [A EXCEPT ![Head(r.todo).item] = @ \cup {r.entry}] ELSE A
AgendaOK(r) == r.todo \in Seq(Ready(r.entry, Written(r, applied)))

(* The row an operation works on is the one it is about, unless it was led
   astray. *)
Fits(o, row) == IF o.tmdb = 0 THEN row.name = o.name ELSE row.tmdb = o.tmdb
Astray(o) == <<o.table, o.item>> \in astray
Worked(o, id) == id \in DOMAIN rows[o.table] /\ (Fits(o, rows[o.table][id]) \/ Astray(o))
SpotOK(r) ==
  LET o == Head(r.todo)
  IN /\ r.at # "next" => r.todo # <<>>
     /\ r.at \in {"insert", "newest", "rename", "enrich", "link"} => Upserts(o)
     /\ r.at \in {"look", "picture", "repicture"} => o.op = "image" \/ (Upserts(o) /\ o.table = "people")
     /\ r.at \in {"enrich", "link", "look", "picture", "repicture"} /\ Upserts(o) => Worked(o, r.id)
     /\ r.at = "rename" => o.tmdb # 0 /\ r.id \in DOMAIN rows[o.table] /\ Fits(o, rows[o.table][r.id])
     /\ r.at = "enrich" => o.table = "people"
     /\ r.at = "newest" /\ ~ r.crossed => /\ Len(rows[o.table]) # 0
                                          /\ Fits(o, rows[o.table][Len(rows[o.table])])
     /\ r.at = "repicture" /\ o.op = "image" =>
          r.id < nextImage /\ \A m \in images : m.row = r.id => m.of = "item" /\ m.id = o.item /\ m.type = o.type

LinkOK(l) ==
  /\ l.id \in DOMAIN rows[l.table]
  /\ <<l.table, l.item>> \notin astray => Listed(l.table, l.item, rows[l.table][l.id], applied[l.item])
ImagesOK ==
  /\ \A m \in images : m.row < nextImage
  /\ \A m, n \in images : m.row = n.row => m = n
(* The people are themselves as long as no link to one of them went astray. *)
Own == \A a \in astray : a[1] # "people"
PersonOK(r) == Own => r.bio \in {0, r.tmdb}
PeopleOK == \A k \in DOMAIN rows["people"] : PersonOK(rows["people"][k])
PortraitOK(m) ==
  m.of = "people" => m.id \in DOMAIN rows["people"] /\ (Own => m.url = Face[rows["people"][m.id].tmdb])

WorkInv == \A w \in Worker : AgendaOK(work[w]) /\ SpotOK(work[w])
DataInv ==
  /\ RowsOK /\ \A l \in links : LinkOK(l)
  /\ ImagesOK /\ PeopleOK /\ \A m \in images : PortraitOK(m)
CInv == Typed /\ WorkInv /\ DataInv

-----------------------------------------------------------------------------
(***************************************************************************)
(* Agendas: what they upsert is listed.                                    *)
(***************************************************************************)

LEMMA Shapes == /\ Item \subseteq Nat \ {0} /\ Known \subseteq Nat \ {0} /\ IsFiniteSet(Item)
                /\ \A k \in Known : NameOf[k] \in STRING /\ Face[k] \in STRING
                /\ NoEntry \notin DOMAIN Tmdb
                /\ \A e \in DOMAIN Tmdb : Tmdb[e] \in Entry
                /\ DOMAIN Nfo \subseteq Item /\ \A i \in DOMAIN Nfo : Nfo[i] \in NfoFile
                /\ \A i \in Item : Row[i].lib \in Nat \ {0}
                /\ \A m \in Matches : m[1] \in Item /\ m[2] \in DOMAIN Tmdb
                /\ Deletable \subseteq Item
  BY CatalogAssumption

LEMMA OpFields == ASSUME NEW op \in OpName, NEW i \in Item
                  PROVE /\ Op(op, i) \in OpType
                        /\ Op(op, i).op = op /\ Op(op, i).item = i /\ Op(op, i).tmdb = 0
  BY DEF Op, OpType, OpName, Table, Text

LEMMA ByTmdbFields == ASSUME NEW t \in Table, NEW i \in Item, NEW k \in Known, NEW role \in Text
                      PROVE /\ ByTmdb(t, i, k, role) \in OpType
                            /\ ByTmdb(t, i, k, role).op = "upsert" /\ ByTmdb(t, i, k, role).table = t
                            /\ ByTmdb(t, i, k, role).item = i /\ ByTmdb(t, i, k, role).tmdb = k
                            /\ ByTmdb(t, i, k, role).name = NameOf[k]
<1>1. k \in Nat /\ NameOf[k] \in STRING
  BY Shapes
<1> QED BY <1>1 DEF Text, ByTmdb, Op, OpType, OpName, Table, Text

LEMMA ByNameFields == ASSUME NEW t \in Table, NEW i \in Item, NEW n \in STRING
                      PROVE /\ ByName(t, i, n) \in OpType
                            /\ ByName(t, i, n).op = "upsert" /\ ByName(t, i, n).table = t
                            /\ ByName(t, i, n).item = i /\ ByName(t, i, n).tmdb = 0 /\ ByName(t, i, n).name = n
  BY DEF ByName, Op, OpType, OpName, Table, Text

(* What an agenda is made of. *)
Offers(i, e) == {o \in OpType : Fit(o, e) /\ o.item = i /\ o.op = "upsert"}

LEMMA Offered == ASSUME NEW e \in DOMAIN Tmdb, NEW i \in Item, NEW t \in Table, NEW k \in TmdbLists(e)[t],
                        NEW role \in Text, k \in Known
                 PROVE ByTmdb(t, i, k, role) \in Offers(i, e)
<1> DEFINE o == ByTmdb(t, i, k, role)
<1>1. o \in OpType /\ o.op = "upsert" /\ o.table = t /\ o.item = i /\ o.tmdb = k /\ o.name = NameOf[k]
  BY ByTmdbFields
<1>2. By(e) = {e} /\ k # 0
  BY Shapes DEF By
<1>3. Listed(o.table, o.item, o, By(e))
  BY <1>1, <1>2 DEF Listed
<1> HIDE DEF o
<1>4. Fit(o, e)
  BY <1>1, <1>2, <1>3 DEF Fit, Upserts, Named
<1> QED BY <1>1, <1>4 DEF Offers, o

LEMMA EntryShape == ASSUME NEW e \in DOMAIN Tmdb
                    PROVE /\ Tmdb[e].cast \in Seq(Known) /\ Tmdb[e].genres \in Seq(Known)
                          /\ Tmdb[e].studios \in Seq(Known) /\ Tmdb[e].tags \in Seq(Known)
                          /\ Tmdb[e].guests \in Seq(Known)
                          /\ Tmdb[e].crew \in Seq([who : Known, role : STRING])
                          /\ Tmdb[e].poster \in STRING /\ Tmdb[e].still \in STRING /\ Tmdb[e].pictures \in Pictured
<1>1. Tmdb[e] \in Entry
  BY Shapes
<1> QED BY <1>1 DEF Entry

LEMMA ListedByTmdb == ASSUME NEW e \in DOMAIN Tmdb
                      PROVE /\ \A k \in DOMAIN Tmdb[e].cast : Tmdb[e].cast[k] \in TmdbLists(e)["people"]
                            /\ \A k \in DOMAIN Tmdb[e].guests : Tmdb[e].guests[k] \in TmdbLists(e)["people"]
                            /\ \A k \in DOMAIN Tmdb[e].crew : Tmdb[e].crew[k].who \in TmdbLists(e)["people"]
                            /\ \A k \in DOMAIN Tmdb[e].genres : Tmdb[e].genres[k] \in TmdbLists(e)["genre"]
                            /\ \A k \in DOMAIN Tmdb[e].studios : Tmdb[e].studios[k] \in TmdbLists(e)["studio"]
                            /\ \A k \in DOMAIN Tmdb[e].tags : Tmdb[e].tags[k] \in TmdbLists(e)["tag"]
                            /\ \A t \in Table : TmdbLists(e)[t] \subseteq Known
<1>1. /\ TmdbLists(e)["people"] = ToSet(Tmdb[e].cast) \cup {c.who : c \in ToSet(Tmdb[e].crew)} \cup ToSet(Tmdb[e].guests)
      /\ TmdbLists(e)["genre"] = ToSet(Tmdb[e].genres) /\ TmdbLists(e)["studio"] = ToSet(Tmdb[e].studios)
      /\ TmdbLists(e)["tag"] = ToSet(Tmdb[e].tags)
  BY DEF TmdbLists
<1>2. \A k \in DOMAIN Tmdb[e].crew : Tmdb[e].crew[k].who \in {c.who : c \in ToSet(Tmdb[e].crew)}
  BY DEF ToSet
<1>3. /\ {c.who : c \in ToSet(Tmdb[e].crew)} \subseteq Known
      /\ ToSet(Tmdb[e].cast) \subseteq Known /\ ToSet(Tmdb[e].guests) \subseteq Known
      /\ ToSet(Tmdb[e].genres) \subseteq Known /\ ToSet(Tmdb[e].studios) \subseteq Known
      /\ ToSet(Tmdb[e].tags) \subseteq Known
  <2>1. \A S : \A s \in Seq(S) : ToSet(s) \subseteq S
    BY DEF ToSet
  <2>2. ToSet(Tmdb[e].crew) \subseteq [who : Known, role : STRING]
    BY <2>1, EntryShape
  <2> QED BY <2>1, <2>2, EntryShape
<1>4. \A t \in Table : TmdbLists(e)[t] \subseteq Known
  BY <1>1, <1>3 DEF Table
<1> QED BY <1>1, <1>2, <1>4 DEF ToSet

LEMMA CreditsOffered == ASSUME NEW e \in DOMAIN Tmdb, NEW i \in Item
                        PROVE LinkCredits(i, e) \in Seq(Offers(i, e))
<1> DEFINE S == Offers(i, e)
           cast == Each(Tmdb[e].cast, LAMBDA p : ByTmdb("people", i, p, "Actor"))
           crew == Each(Tmdb[e].crew, LAMBDA c : IF c.role = NoText THEN <<>> ELSE <<ByTmdb("people", i, c.who, c.role)>>)
<1>1. cast \in Seq(S)
  <2>1. \A k \in DOMAIN Tmdb[e].cast : ByTmdb("people", i, Tmdb[e].cast[k], "Actor") \in S
    <3>1. \A k \in DOMAIN Tmdb[e].cast : Tmdb[e].cast[k] \in TmdbLists(e)["people"] /\ Tmdb[e].cast[k] \in Known
      BY ListedByTmdb, EntryShape
    <3>2. "people" \in Table /\ "Actor" \in Text
      BY DEF Table, Text
    <3> QED BY <3>1, <3>2, Offered
  <2> HIDE DEF S
  <2>2. Tmdb[e].cast \in Seq(Known)
    BY EntryShape
  <2> QED BY <2>1, <2>2 DEF Each
<1>2. crew \in Seq(Seq(S))
  <2>1. ASSUME NEW k \in DOMAIN Tmdb[e].crew, Tmdb[e].crew[k].role # NoText
        PROVE ByTmdb("people", i, Tmdb[e].crew[k].who, Tmdb[e].crew[k].role) \in S
    <3>1. Tmdb[e].crew[k].who \in TmdbLists(e)["people"] /\ Tmdb[e].crew[k].who \in Known /\ Tmdb[e].crew[k].role \in Text
      <4>1. Tmdb[e].crew \in Seq([who : Known, role : STRING]) /\ Tmdb[e].crew[k].who \in TmdbLists(e)["people"]
        BY ListedByTmdb, EntryShape
      <4>3. \A C : \A s \in Seq(C) : \A j \in DOMAIN s : s[j] \in C
        OBVIOUS
      <4>2. Tmdb[e].crew[k] \in [who : Known, role : STRING]
        BY <4>1, <4>3, Zenon
      <4> QED BY <4>1, <4>2 DEF Text
    <3> QED BY <3>1, Offered DEF Table
  <2> HIDE DEF S
  <2>2. \A k \in DOMAIN Tmdb[e].crew :
          (IF Tmdb[e].crew[k].role = NoText THEN <<>> ELSE <<ByTmdb("people", i, Tmdb[e].crew[k].who, Tmdb[e].crew[k].role)>>)
          \in Seq(S)
    BY <2>1
  <2>3. DOMAIN Tmdb[e].crew = 1 .. Len(Tmdb[e].crew) /\ Len(Tmdb[e].crew) \in Nat
    BY EntryShape, LenProperties
  <2> QED BY <2>2, <2>3 DEF Each
<1> HIDE DEF S, cast, crew
<1>3. FlattenSeq(crew) \in Seq(S)
  BY <1>2, Flattened
<1>4. cast \o FlattenSeq(crew) \in Seq(S)
  BY <1>1, <1>3, ConcatProperties
<1> QED BY <1>4 DEF LinkCredits, S, cast, crew

LEMMA RelationsOffered == ASSUME NEW e \in DOMAIN Tmdb, NEW i \in Item
                          PROVE Relations(i, e) \in Seq(Offers(i, e))
<1> DEFINE S == Offers(i, e)
           genres == Each(Tmdb[e].genres, LAMBDA g : ByTmdb("genre", i, g, NoText))
           studios == Each(Tmdb[e].studios, LAMBDA s : ByTmdb("studio", i, s, NoText))
           tags == Each(Tmdb[e].tags, LAMBDA k : ByTmdb("tag", i, k, NoText))
<1>1. /\ \A k \in DOMAIN Tmdb[e].genres : ByTmdb("genre", i, Tmdb[e].genres[k], NoText) \in S
      /\ \A k \in DOMAIN Tmdb[e].studios : ByTmdb("studio", i, Tmdb[e].studios[k], NoText) \in S
      /\ \A k \in DOMAIN Tmdb[e].tags : ByTmdb("tag", i, Tmdb[e].tags[k], NoText) \in S
  <2>1. /\ \A k \in DOMAIN Tmdb[e].genres : Tmdb[e].genres[k] \in TmdbLists(e)["genre"] /\ Tmdb[e].genres[k] \in Known
        /\ \A k \in DOMAIN Tmdb[e].studios : Tmdb[e].studios[k] \in TmdbLists(e)["studio"] /\ Tmdb[e].studios[k] \in Known
        /\ \A k \in DOMAIN Tmdb[e].tags : Tmdb[e].tags[k] \in TmdbLists(e)["tag"] /\ Tmdb[e].tags[k] \in Known
    BY ListedByTmdb, EntryShape
  <2>2. "genre" \in Table /\ "studio" \in Table /\ "tag" \in Table /\ NoText \in Text
    BY DEF Table, Text
  <2> QED BY <2>1, <2>2, Offered
<1>2. LinkCredits(i, e) \in Seq(S)
  BY CreditsOffered
<1> HIDE DEF S
<1>3. genres \in Seq(S) /\ studios \in Seq(S) /\ tags \in Seq(S)
  <2>1. Tmdb[e].genres \in Seq(Known) /\ Tmdb[e].studios \in Seq(Known) /\ Tmdb[e].tags \in Seq(Known)
    BY EntryShape
  <2>2. genres \in Seq(S)
    BY <1>1, <2>1 DEF Each
  <2>3. studios \in Seq(S)
    BY <1>1, <2>1 DEF Each
  <2>4. tags \in Seq(S)
    BY <1>1, <2>1 DEF Each
  <2> QED BY <2>2, <2>3, <2>4
<1> HIDE DEF genres, studios, tags
<1>4. genres \o LinkCredits(i, e) \in Seq(S)
  BY <1>2, <1>3, ConcatProperties
<1>5. genres \o LinkCredits(i, e) \o studios \in Seq(S)
  BY <1>3, <1>4, ConcatProperties
<1>6. genres \o LinkCredits(i, e) \o studios \o tags \in Seq(S)
  BY <1>3, <1>5, ConcatProperties
<1> QED BY <1>6 DEF Relations, genres, studios, tags, S

(* What is listed by e is ready once e is among the entries of the item. *)
LEMMA OffersReady == ASSUME NEW i \in Item, NEW e, NEW A, By(e) \subseteq A[i]
                     PROVE Offers(i, e) \subseteq Ready(e, A)
  BY DEF Offers, Ready

LEMMA PlainReady == ASSUME NEW op \in OpName \ {"upsert", "actor", "credits", "unlink", "image"}, NEW i \in Item, NEW e, NEW A,
                           e \in DOMAIN Tmdb \/ op \in {"unpicture", "delete"}
                    PROVE Op(op, i) \in Ready(e, A)
  BY OpFields DEF Ready, Fit, Upserts, OpName

LEMMA PictureReady == ASSUME NEW i \in Item, NEW type \in Text, NEW url \in Text, NEW e, NEW A,
                             e \in DOMAIN Tmdb \/ i \in DOMAIN Nfo
                      PROVE Picture(i, type, url) \in Seq(Ready(e, A))
<1> DEFINE o == [Op("image", i) EXCEPT !.type = type, !.url = url]
<1>1. o \in OpType /\ o.op = "image" /\ o.item = i
  BY DEF Op, OpType, OpName, Table, Text
<1>2. o \in Ready(e, A)
  BY <1>1 DEF Ready, Fit, Upserts
<1> HIDE DEF o
<1> QED BY <1>2 DEF Picture, o

(* An agenda of the scraper: the row, what is linked, and the pictures. *)
LEMMA MovieFront == ASSUME NEW i \in Item, NEW e, NEW detail, NEW S, Op("apply", i) \in S, Relations(i, e) \in Seq(S)
                    PROVE \E front \in Seq(S) : /\ MovieAgenda(i, e, detail) = front \o <<Op("pictures", i)>>
                                               /\ Len(front) >= 1 /\ front[1] = Op("apply", i)
<1> DEFINE mid == IF detail THEN Relations(i, e) ELSE <<>>
<1>1. mid \in Seq(S)
  OBVIOUS
<1>2. <<Op("apply", i)>> \in Seq(S)
  OBVIOUS
<1> HIDE DEF mid
<1>3. <<Op("apply", i)>> \o mid \in Seq(S) /\ Len(<<Op("apply", i)>> \o mid) >= 1
      /\ (<<Op("apply", i)>> \o mid)[1] = Op("apply", i)
  BY <1>1, <1>2, ConcatProperties
<1>4. MovieAgenda(i, e, detail) = (<<Op("apply", i)>> \o mid) \o <<Op("pictures", i)>>
  BY DEF MovieAgenda, mid
<1> QED BY <1>3, <1>4

LEMMA FrontReady == ASSUME NEW S, NEW i, NEW front \in Seq(S), Len(front) >= 1, front[1] = Op("apply", i),
                           Op("pictures", i) \in S, NEW todo, todo = front \o <<Op("pictures", i)>>
                    PROVE  todo \in Seq(S) /\ todo # <<>> /\ Head(todo) = Op("apply", i)
<1>1. <<Op("pictures", i)>> \in Seq(S)
  OBVIOUS
<1>2. todo \in Seq(S) /\ Len(todo) >= 1 /\ todo[1] = Op("apply", i)
  BY <1>1, ConcatProperties
<1> QED BY <1>2

LEMMA MovieReady == ASSUME NEW i \in Item, NEW e \in DOMAIN Tmdb, NEW detail, NEW A, e \in A[i]
                    PROVE /\ MovieAgenda(i, e, detail) \in Seq(Ready(e, A)) /\ MovieAgenda(i, e, detail) # <<>>
                          /\ Head(MovieAgenda(i, e, detail)) = Op("apply", i)
<1> DEFINE S == Ready(e, A)
<1>1. Op("apply", i) \in S /\ Op("pictures", i) \in S
  BY PlainReady DEF OpName
<1>2. Relations(i, e) \in Seq(S)
  <2>1. Relations(i, e) \in Seq(Offers(i, e)) /\ Offers(i, e) \subseteq S
    BY RelationsOffered, OffersReady DEF By
  <2> QED BY <2>1, SeqMonotonic
<1> HIDE DEF S
<1>3. PICK front \in Seq(S) : /\ MovieAgenda(i, e, detail) = front \o <<Op("pictures", i)>>
                              /\ Len(front) >= 1 /\ front[1] = Op("apply", i)
  <2>1. Op("apply", i) \in S /\ Relations(i, e) \in Seq(S)
    BY <1>1, <1>2
  <2> QED BY ONLY SMTT(30), i \in Item, <2>1, MovieFront
<1> QED BY <1>1, <1>3, FrontReady DEF S

LEMMA ChildItem == ASSUME NEW i, NEW type PROVE Child(i, type) \subseteq Item /\ IsFiniteSet(Child(i, type))
<1>1. Child(i, type) \subseteq Item
  BY DEF Child
<1> QED BY <1>1, Shapes, FS_Subset

LEMMA TvFront == ASSUME NEW i \in Item, NEW e, NEW detail, NEW S, Op("apply", i) \in S, Relations(i, e) \in Seq(S),
                        \A s \in Item : Op("season", s) \in S,
                        \A s \in Item : Row[s].type = "episode" => Op("episode", s) \in S
                 PROVE \E front \in Seq(S) : /\ TvAgenda(i, e, detail) = front \o <<Op("pictures", i)>>
                                            /\ Len(front) >= 1 /\ front[1] = Op("apply", i)
<1> DEFINE season(s) == <<Op("season", s)>> \o Each(SetToSeq(Child(s, "episode")), LAMBDA ep : Op("episode", ep))
           tree == FlattenSeq(Each(SetToSeq(Child(i, "season")), LAMBDA s :
                     <<Op("season", s)>> \o Each(SetToSeq(Child(s, "episode")), LAMBDA ep : Op("episode", ep))))
           mid == IF detail THEN Relations(i, e) \o tree ELSE <<>>
<1>3. \A s \in Item : season(s) \in Seq(S)
  <2> SUFFICES ASSUME NEW s \in Item PROVE season(s) \in Seq(S)
    OBVIOUS
  <2> DEFINE kids == SetToSeq(Child(s, "episode"))
             eps == Each(kids, LAMBDA ep : Op("episode", ep))
  <2>1. kids \in Seq(Child(s, "episode"))
    BY ChildItem, SetSequence
  <2>2. \A c \in Child(s, "episode") : Op("episode", c) \in S
    BY DEF Child
  <2> HIDE DEF kids
  <2>3. eps \in Seq(S)
    BY <2>1, <2>2 DEF Each
  <2>4. <<Op("season", s)>> \in Seq(S)
    OBVIOUS
  <2> HIDE DEF eps
  <2>5. <<Op("season", s)>> \o eps \in Seq(S)
    BY <2>3, <2>4, ConcatProperties
  <2> QED BY <2>5 DEF eps, kids
<1>4. tree \in Seq(S)
  <2> DEFINE kids == SetToSeq(Child(i, "season"))
             parts == Each(kids, LAMBDA s :
                     <<Op("season", s)>> \o Each(SetToSeq(Child(s, "episode")), LAMBDA ep : Op("episode", ep)))
  <2>1. kids \in Seq(Item)
    BY ChildItem, SetSequence, SeqMonotonic
  <2> HIDE DEF kids
  <2>2. parts = [k \in DOMAIN kids |-> season(kids[k])]
    BY DEF Each
  <2> HIDE DEF season, parts
  <2>3. \A k \in DOMAIN kids : season(kids[k]) \in Seq(S)
    BY <1>3, <2>1
  <2>4. parts \in Seq(Seq(S))
    BY SMTT(30), <2>1, <2>2, <2>3
  <2>5. FlattenSeq(parts) \in Seq(S)
    BY <2>4, Flattened
  <2> QED BY <2>5 DEF parts, kids
<1> HIDE DEF tree, season
<1>5. mid \in Seq(S)
  BY <1>4, ConcatProperties
<1>9. TvAgenda(i, e, detail) = (<<Op("apply", i)>> \o mid) \o <<Op("pictures", i)>>
  <2>1. mid = IF detail THEN Relations(i, e) \o tree ELSE <<>>
    OBVIOUS
  <2> HIDE DEF mid
  <2> QED BY <2>1 DEF TvAgenda, tree
<1> HIDE DEF mid
<1>6. <<Op("apply", i)>> \in Seq(S)
  OBVIOUS
<1>7. <<Op("apply", i)>> \o mid \in Seq(S) /\ Len(<<Op("apply", i)>> \o mid) >= 1
      /\ (<<Op("apply", i)>> \o mid)[1] = Op("apply", i)
  BY <1>5, <1>6, ConcatProperties
<1> QED BY <1>7, <1>9

LEMMA TvReady == ASSUME NEW i \in Item, NEW e \in DOMAIN Tmdb, NEW detail, NEW A, e \in A[i]
                 PROVE /\ TvAgenda(i, e, detail) \in Seq(Ready(e, A)) /\ TvAgenda(i, e, detail) # <<>>
                       /\ Head(TvAgenda(i, e, detail)) = Op("apply", i)
<1> DEFINE S == Ready(e, A)
<1>1. /\ Op("apply", i) \in S /\ Op("pictures", i) \in S
      /\ \A s \in Item : Op("season", s) \in S /\ Op("episode", s) \in S
  BY PlainReady DEF OpName
<1>2. Relations(i, e) \in Seq(S)
  <2>1. Relations(i, e) \in Seq(Offers(i, e)) /\ Offers(i, e) \subseteq S
    BY RelationsOffered, OffersReady DEF By
  <2> QED BY <2>1, SeqMonotonic
<1> HIDE DEF S
<1>3. PICK front \in Seq(S) : /\ TvAgenda(i, e, detail) = front \o <<Op("pictures", i)>>
                              /\ Len(front) >= 1 /\ front[1] = Op("apply", i)
  BY <1>1, <1>2, TvFront
<1> QED BY <1>1, <1>3, FrontReady DEF S

LEMMA DropsReady == ASSUME NEW i \in Item, NEW e, NEW A
                    PROVE Drops(i) \in Seq(Ready(e, A)) /\ Drops(i) \o <<Op("delete", i)>> \in Seq(Ready(e, A))
<1> DEFINE S == Ready(e, A)
           unlinks == Each(<<"genre", "people", "studio", "tag">>, LAMBDA t : [Op("unlink", i) EXCEPT !.table = t])
<1>1. \A t \in Table : [Op("unlink", i) EXCEPT !.table = t] \in S
  <2> SUFFICES ASSUME NEW t \in Table PROVE [Op("unlink", i) EXCEPT !.table = t] \in S
    OBVIOUS
  <2> DEFINE o == [Op("unlink", i) EXCEPT !.table = t]
  <2>1. o \in OpType /\ o.op = "unlink" /\ o.table = t
    BY DEF Op, OpType, OpName, Table, Text
  <2> HIDE DEF o
  <2>2. o \in S
    BY <2>1 DEF Ready, Fit, Upserts
  <2> QED BY <2>2 DEF o
<1>2. Op("unpicture", i) \in S /\ Op("delete", i) \in S
  BY PlainReady DEF OpName
<1> HIDE DEF S
<1>3. unlinks \in Seq(S)
  <2> DEFINE tables == <<"genre", "people", "studio", "tag">>
  <2>1. tables \in Seq(Table)
    BY DEF Table
  <2> HIDE DEF tables
  <2>2. [k \in DOMAIN tables |-> [Op("unlink", i) EXCEPT !.table = tables[k]]] \in Seq(S)
    BY <1>1, <2>1
  <2> QED BY <2>2 DEF Each, tables
<1> HIDE DEF unlinks
<1>4. <<Op("unpicture", i)>> \in Seq(S) /\ <<Op("delete", i)>> \in Seq(S)
  BY <1>2
<1>5. Drops(i) \in Seq(S)
  BY <1>3, <1>4, ConcatProperties DEF Drops, unlinks
<1>6. Drops(i) \o <<Op("delete", i)>> \in Seq(S)
  BY <1>4, <1>5, ConcatProperties
<1> QED BY <1>5, <1>6 DEF S

LEMMA NfoShape == ASSUME NEW i \in DOMAIN Nfo
                  PROVE /\ Nfo[i].genres \in Seq(STRING) /\ Nfo[i].studios \in Seq(STRING)
                        /\ Nfo[i].tags \in Seq(STRING) /\ Nfo[i].actors \in Seq(Known)
                        /\ Nfo[i].backdrops \in Seq(STRING) /\ Nfo[i].poster \in STRING
<1>1. Nfo[i] \in NfoFile
  BY Shapes
<1> QED BY <1>1 DEF NfoFile

LEMMA ListedByNfo == ASSUME NEW i \in DOMAIN Nfo
                     PROVE /\ \A k \in DOMAIN Nfo[i].genres : Nfo[i].genres[k] \in NfoLists(i)["genre"]
                           /\ \A k \in DOMAIN Nfo[i].studios : Nfo[i].studios[k] \in NfoLists(i)["studio"]
                           /\ \A k \in DOMAIN Nfo[i].tags : Nfo[i].tags[k] \in NfoLists(i)["tag"]
                           /\ \A k \in DOMAIN Nfo[i].actors : Nfo[i].actors[k] \in NfoLists(i)["people"]
  BY DEF NfoLists, ToSet

LEMMA NamedReady == ASSUME NEW i \in DOMAIN Nfo, NEW t \in Table \ {"people"}, NEW n \in NfoLists(i)[t], n \in STRING,
                           NEW A
                    PROVE ByName(t, i, n) \in Ready(NoEntry, A)
<1> DEFINE o == ByName(t, i, n)
<1>0. i \in Item /\ t \in Table /\ t # "people"
  BY Shapes
<1>1. o \in OpType /\ o.op = "upsert" /\ o.table = t /\ o.item = i /\ o.tmdb = 0 /\ o.name = n
  BY <1>0, ByNameFields
<1> HIDE DEF o
<1>2. Listed(o.table, o.item, o, By(NoEntry))
  BY <1>0, <1>1 DEF Listed
<1>3. Fit(o, NoEntry)
  BY <1>0, <1>1, <1>2 DEF Fit, Upserts, Named
<1> QED BY <1>1, <1>3 DEF Ready, By, o

LEMMA ActorReady == ASSUME NEW i \in DOMAIN Nfo, NEW p \in NfoLists(i)["people"], p \in Known, NEW A
                    PROVE [ByTmdb("people", i, p, "Actor") EXCEPT !.op = "actor"] \in Ready(NoEntry, A)
<1> DEFINE b == ByTmdb("people", i, p, "Actor")
           o == [b EXCEPT !.op = "actor"]
<1>0. i \in Item /\ "people" \in Table /\ "Actor" \in Text
  BY Shapes DEF Table, Text
<1>1. /\ b \in OpType /\ b.table = "people" /\ b.item = i /\ b.tmdb = p /\ b.name = NameOf[p]
  BY <1>0, ByTmdbFields
<1> HIDE DEF b
<1>2. /\ o \in OpType /\ o.op = "actor" /\ o.table = "people" /\ o.item = i /\ o.tmdb = p /\ o.name = NameOf[p]
  BY <1>1 DEF OpType, OpName
<1> HIDE DEF o
<1>3. p # 0
  BY Shapes
<1>4. Listed(o.table, o.item, o, By(NoEntry))
  BY <1>2 DEF Listed
<1>5. Fit(o, NoEntry)
  BY <1>0, <1>2, <1>3, <1>4 DEF Fit, Upserts, Named
<1> QED BY <1>2, <1>5 DEF Ready, By, o, b

LEMMA NfoReady == ASSUME NEW i \in DOMAIN Nfo, NEW A PROVE NfoAgenda(i) \in Seq(Ready(NoEntry, A))
<1> DEFINE S == Ready(NoEntry, A)
           genres == Each(Nfo[i].genres, LAMBDA g : ByName("genre", i, g))
           studios == Each(Nfo[i].studios, LAMBDA s : ByName("studio", i, s))
           tags == Each(Nfo[i].tags, LAMBDA k : ByName("tag", i, k))
           actors == Each(Nfo[i].actors, LAMBDA p : [ByTmdb("people", i, p, "Actor") EXCEPT !.op = "actor"])
           poster == Picture(i, "primary", Nfo[i].poster)
           backdrops == Each(Nfo[i].backdrops, LAMBDA u : Picture(i, "backdrop", u))
<1>0. i \in Item
  BY Shapes
<1>1. /\ Nfo[i].genres \in Seq(STRING) /\ Nfo[i].studios \in Seq(STRING) /\ Nfo[i].tags \in Seq(STRING)
      /\ Nfo[i].actors \in Seq(Known) /\ Nfo[i].backdrops \in Seq(STRING) /\ Nfo[i].poster \in STRING
  BY NfoShape
<1>2. /\ \A k \in DOMAIN Nfo[i].genres : ByName("genre", i, Nfo[i].genres[k]) \in S
      /\ \A k \in DOMAIN Nfo[i].studios : ByName("studio", i, Nfo[i].studios[k]) \in S
      /\ \A k \in DOMAIN Nfo[i].tags : ByName("tag", i, Nfo[i].tags[k]) \in S
      /\ \A k \in DOMAIN Nfo[i].actors : [ByTmdb("people", i, Nfo[i].actors[k], "Actor") EXCEPT !.op = "actor"] \in S
  <2>1. /\ \A k \in DOMAIN Nfo[i].genres : Nfo[i].genres[k] \in NfoLists(i)["genre"] /\ Nfo[i].genres[k] \in STRING
        /\ \A k \in DOMAIN Nfo[i].studios : Nfo[i].studios[k] \in NfoLists(i)["studio"] /\ Nfo[i].studios[k] \in STRING
        /\ \A k \in DOMAIN Nfo[i].tags : Nfo[i].tags[k] \in NfoLists(i)["tag"] /\ Nfo[i].tags[k] \in STRING
        /\ \A k \in DOMAIN Nfo[i].actors : Nfo[i].actors[k] \in NfoLists(i)["people"] /\ Nfo[i].actors[k] \in Known
    BY <1>1, ListedByNfo
  <2>2. {"genre", "studio", "tag"} \subseteq Table \ {"people"}
    BY DEF Table
  <2> QED BY <2>1, <2>2, NamedReady, ActorReady
<1>3. /\ poster \in Seq(S)
      /\ \A k \in DOMAIN Nfo[i].backdrops : Picture(i, "backdrop", Nfo[i].backdrops[k]) \in Seq(S)
  <2>1. "primary" \in Text /\ "backdrop" \in Text /\ Nfo[i].poster \in Text
        /\ \A k \in DOMAIN Nfo[i].backdrops : Nfo[i].backdrops[k] \in Text
    BY <1>1 DEF Text
  <2> QED BY <1>0, <2>1, PictureReady
<1> HIDE DEF S, poster
<1>a. /\ DOMAIN Nfo[i].genres = 1 .. Len(Nfo[i].genres) /\ Len(Nfo[i].genres) \in Nat
      /\ DOMAIN Nfo[i].studios = 1 .. Len(Nfo[i].studios) /\ Len(Nfo[i].studios) \in Nat
      /\ DOMAIN Nfo[i].tags = 1 .. Len(Nfo[i].tags) /\ Len(Nfo[i].tags) \in Nat
      /\ DOMAIN Nfo[i].actors = 1 .. Len(Nfo[i].actors) /\ Len(Nfo[i].actors) \in Nat
      /\ DOMAIN Nfo[i].backdrops = 1 .. Len(Nfo[i].backdrops) /\ Len(Nfo[i].backdrops) \in Nat
  BY <1>1, LenProperties
<1>4. genres \in Seq(S)
  BY <1>a, <1>2 DEF Each
<1>5. studios \in Seq(S)
  BY <1>a, <1>2 DEF Each
<1>6. tags \in Seq(S)
  BY <1>a, <1>2 DEF Each
<1>7. actors \in Seq(S)
  BY <1>a, <1>2 DEF Each
<1>8. backdrops \in Seq(Seq(S))
  BY <1>a, <1>3 DEF Each
<1> HIDE DEF genres, studios, tags, actors, backdrops
<1>9. FlattenSeq(backdrops) \in Seq(S)
  BY <1>8, Flattened
<1>10. genres \o studios \in Seq(S)
  BY <1>4, <1>5, ConcatProperties
<1>11. genres \o studios \o tags \in Seq(S)
  BY <1>6, <1>10, ConcatProperties
<1>12. genres \o studios \o tags \o actors \in Seq(S)
  BY <1>7, <1>11, ConcatProperties
<1>13. genres \o studios \o tags \o actors \o poster \in Seq(S)
  BY <1>3, <1>12, ConcatProperties
<1>14. genres \o studios \o tags \o actors \o poster \o FlattenSeq(backdrops) \in Seq(S)
  BY <1>9, <1>13, ConcatProperties
<1> QED BY <1>14 DEF NfoAgenda, genres, studios, tags, actors, poster, backdrops, S

(* The guests of an episode, and the backdrops, as agendas of their own. *)
LEMMA GuestsReady == ASSUME NEW e \in DOMAIN Tmdb, NEW i \in Item, NEW A, e \in A[i]
                     PROVE Each(Tmdb[e].guests, LAMBDA p : ByTmdb("people", i, p, "Actor")) \in Seq(Ready(e, A))
<1> DEFINE S == Ready(e, A)
<1>1. \A k \in DOMAIN Tmdb[e].guests : Tmdb[e].guests[k] \in TmdbLists(e)["people"] /\ Tmdb[e].guests[k] \in Known
  BY ListedByTmdb, EntryShape
<1>2. "people" \in Table /\ "Actor" \in Text /\ Offers(i, e) \subseteq S
  BY OffersReady DEF Table, Text, By
<1>3. \A k \in DOMAIN Tmdb[e].guests : ByTmdb("people", i, Tmdb[e].guests[k], "Actor") \in S
  BY <1>1, <1>2, Offered
<1> HIDE DEF S
<1>4. Tmdb[e].guests \in Seq(Known)
  BY EntryShape
<1>5. Each(Tmdb[e].guests, LAMBDA p : ByTmdb("people", i, p, "Actor")) \in Seq(S)
  BY <1>3, <1>4 DEF Each
<1> QED BY <1>5 DEF S

-----------------------------------------------------------------------------
(***************************************************************************)
(* Ranks: in a strict total order of a finite set, every place is taken.   *)
(***************************************************************************)

LEMMA EveryRank ==
  ASSUME NEW S, IsFiniteSet(S), NEW R,
         \A x \in S : <<x, x>> \notin R,
         \A x, y, z \in S : <<x, y>> \in R /\ <<y, z>> \in R => <<x, z>> \in R,
         \A x, y \in S : x # y => <<x, y>> \in R \/ <<y, x>> \in R
  PROVE  /\ \A k \in 1 .. Cardinality(S) : \E x \in S : Cardinality({y \in S : <<y, x>> \in R}) = k - 1
         /\ \A x, y \in S : <<x, y>> \in R =>
              Cardinality({z \in S : <<z, x>> \in R}) < Cardinality({z \in S : <<z, y>> \in R})
<1> DEFINE before(x) == {y \in S : <<y, x>> \in R}
           n == Cardinality(S)
<1>1. n \in Nat
  BY FS_CardinalityType
<1>2. \A x \in S : before(x) \in SUBSET S /\ x \notin before(x)
  OBVIOUS
<1>3. \A x \in S : IsFiniteSet(before(x)) /\ Cardinality(before(x)) \in Nat /\ Cardinality(before(x)) < n
  <2> SUFFICES ASSUME NEW x \in S
               PROVE IsFiniteSet(before(x)) /\ Cardinality(before(x)) \in Nat /\ Cardinality(before(x)) < n
    OBVIOUS
  <2> DEFINE B == before(x)
  <2>1. B \in SUBSET S /\ B # S
    BY <1>2
  <2> HIDE DEF B
  <2>2. IsFiniteSet(B) /\ Cardinality(B) <= n /\ Cardinality(B) # n
    BY <2>1, FS_Subset
  <2>3. Cardinality(B) \in Nat
    BY <2>2, FS_CardinalityType
  <2> QED BY <1>1, <2>2, <2>3 DEF B
<1>4. ASSUME NEW x \in S, NEW y \in S, <<x, y>> \in R
      PROVE Cardinality(before(x)) < Cardinality(before(y))
  <2> DEFINE B == before(x)
             C == before(y)
  <2>1. B \in SUBSET C /\ C # B
    BY <1>4
  <2>2. IsFiniteSet(C) /\ Cardinality(B) \in Nat /\ Cardinality(C) \in Nat
    BY <1>3
  <2> HIDE DEF B, C
  <2>3. Cardinality(B) <= Cardinality(C) /\ Cardinality(B) # Cardinality(C)
    BY <2>1, <2>2, FS_Subset
  <2> QED BY <2>2, <2>3 DEF B, C
<1> DEFINE T == 0 .. n - 1
           f == [x \in S |-> Cardinality(before(x))]
<1>5. f \in Injection(S, T)
  <2>1. f \in [S -> T]
    BY SMTT(30), <1>1, <1>3
  <2>2. ASSUME NEW x \in S, NEW y \in S, x # y PROVE f[x] # f[y]
    <3>1. <<x, y>> \in R \/ <<y, x>> \in R
      BY <2>2
    <3>2. /\ Cardinality(before(x)) \in Nat /\ Cardinality(before(y)) \in Nat
          /\ Cardinality(before(x)) < Cardinality(before(y)) \/ Cardinality(before(y)) < Cardinality(before(x))
      BY ZenonT(60), <1>3, <1>4, <3>1
    <3>3. f[x] = Cardinality(before(x)) /\ f[y] = Cardinality(before(y))
      OBVIOUS
    <3> HIDE DEF f, before
    <3> QED BY <3>2, <3>3
  <2> HIDE DEF f, T
  <2> QED BY <2>1, <2>2 DEF Injection, IsInjective
<1>6. IsFiniteSet(T) /\ Cardinality(T) = n
  <2>1. n - 1 \in Int /\ 0 \in Int
    BY <1>1
  <2> QED BY <1>1, <2>1, FS_Interval
<1>7. f \in Surjection(S, T)
  <2> HIDE DEF f, T
  <2> QED BY <1>5, <1>6, FS_Injection
<1>8. \A j \in T : \E x \in S : f[x] = j
  <2> HIDE DEF f, T
  <2> QED BY <1>7 DEF Surjection
<1>9. \A k \in 1 .. n : \E x \in S : Cardinality(before(x)) = k - 1
  <2> SUFFICES ASSUME NEW k \in 1 .. n PROVE \E x \in S : Cardinality(before(x)) = k - 1
    OBVIOUS
  <2>1. k - 1 \in T
    BY <1>1
  <2>2. PICK x \in S : f[x] = k - 1
    BY <1>8, <2>1
  <2> QED BY <2>2
<1> QED BY <1>4, <1>9

LEMMA MinOfTwo ==
  ASSUME NEW a \in Nat, NEW b \in Nat
  PROVE  Min({a, b}) = IF a <= b THEN a ELSE b
  BY DEF Min

(* The backdrops with most votes are backdrops of the set. *)
LEMMA TopVotesListed ==
  ASSUME NEW s \in Seq([url : STRING, vote : Int])
  PROVE  /\ TopVotes(s) \in Seq([url : STRING, vote : Int])
<1> DEFINE S == DOMAIN s
           Before(j, k) == s[j].vote > s[k].vote \/ (s[j].vote = s[k].vote /\ j < k)
           R == {p \in S \X S : Before(p[1], p[2])}
           order == [k \in 1 .. Cardinality(S) |-> CHOOSE x \in S : Cardinality({y \in S : Before(y, x)}) = k - 1]
           m == Min({MaxBackdrops, Len(s)})
<1>1. S = 1 .. Len(s) /\ Len(s) \in Nat /\ \A k \in S : s[k].vote \in Int /\ s[k] \in [url : STRING, vote : Int]
  <2>1. S = 1 .. Len(s) /\ Len(s) \in Nat /\ \A k \in S : s[k] \in [url : STRING, vote : Int]
    BY LenProperties, ElementOfSeq
  <2> QED BY <2>1
<1>2. IsFiniteSet(S) /\ Cardinality(S) = Len(s)
  BY <1>1, FS_Interval
<1>3. m \in 0 .. Len(s)
  <2>1. MaxBackdrops \in Nat
    BY CatalogAssumption
  <2>2. m = IF MaxBackdrops <= Len(s) THEN MaxBackdrops ELSE Len(s)
    BY <1>1, <2>1, MinOfTwo
  <2> QED BY <1>1, <2>1, <2>2
<1>4. \A x, y \in S : Before(x, y) <=> <<x, y>> \in R
  OBVIOUS
<1>5. /\ \A x \in S : ~ Before(x, x)
      /\ \A x, y, z \in S : Before(x, y) /\ Before(y, z) => Before(x, z)
      /\ \A x, y \in S : x # y => Before(x, y) \/ Before(y, x)
  BY <1>1
<1> HIDE DEF R
<1>6. \A x \in S : {y \in S : Before(y, x)} = {y \in S : <<y, x>> \in R}
  BY <1>4, Zenon
<1> HIDE DEF Before, S
<1>7. \A k \in 1 .. Cardinality(S) : \E x \in S : Cardinality({y \in S : <<y, x>> \in R}) = k - 1
  <2>1. /\ \A x \in S : <<x, x>> \notin R
        /\ \A x, y, z \in S : <<x, y>> \in R /\ <<y, z>> \in R => <<x, z>> \in R
        /\ \A x, y \in S : x # y => <<x, y>> \in R \/ <<y, x>> \in R
    BY <1>4, <1>5
  <2> QED BY <1>2, <2>1, EveryRank
<1>8. \A k \in 1 .. Len(s) : order[k] \in S
  <2> SUFFICES ASSUME NEW k \in 1 .. Len(s) PROVE order[k] \in S
    OBVIOUS
  <2>1. \E x \in S : Cardinality({y \in S : Before(y, x)}) = k - 1
    BY <1>2, <1>6, <1>7
  <2> QED BY <1>2, <2>1
<1> HIDE DEF order, m
<1>9. [k \in 1 .. m |-> s[order[k]]] \in Seq([url : STRING, vote : Int])
  <2>1. \A k \in 1 .. m : s[order[k]] \in [url : STRING, vote : Int]
    BY <1>1, <1>3, <1>8
  <2>2. m \in Nat
    BY <1>1, <1>3
  <2> QED BY <2>1, <2>2
<1>10. TopVotes(s) = [k \in 1 .. m |-> s[order[k]]]
  BY DEF TopVotes, Ranked, S, Before, order, m
<1> QED BY <1>9, <1>10

(* The urls of the backdrops that are kept. *)
LEMMA ChosenUrls ==
  ASSUME NEW s \in Seq([url : STRING, vote : Int])
  PROVE  Chosen(s) \in Seq(STRING \ {NoText})
<1> DEFINE top == TopVotes(s)
           S == STRING \ {NoText}
           one == [k \in DOMAIN top |-> IF top[k].url = NoText THEN <<>> ELSE <<top[k].url>>]
<1>1. top \in Seq([url : STRING, vote : Int])
  BY TopVotesListed
<1> HIDE DEF top
<1>2. DOMAIN top = 1 .. Len(top) /\ Len(top) \in Nat
  BY <1>1, LenProperties
<1>3. \A k \in DOMAIN top : top[k].url \in STRING
  <2>1. \A C : \A q \in Seq(C) : \A j \in DOMAIN q : q[j] \in C
    OBVIOUS
  <2>2. \A k \in DOMAIN top : top[k] \in [url : STRING, vote : Int]
    BY <1>1, <2>1, Zenon
  <2> QED BY <2>2
<1>4. \A u \in S : <<u>> \in Seq(S)
  <2> HIDE DEF S
  <2> QED OBVIOUS
<1>5. <<>> \in Seq(S)
  <2> HIDE DEF S
  <2> QED OBVIOUS
<1>6. \A k \in DOMAIN top : one[k] \in Seq(S)
  <2> SUFFICES ASSUME NEW k \in DOMAIN top PROVE one[k] \in Seq(S)
    OBVIOUS
  <2>1. CASE top[k].url = NoText
    BY <1>5, <2>1
  <2>2. CASE top[k].url # NoText
    BY <1>3, <1>4, <2>2
  <2> QED BY <2>1, <2>2
<1>7. DOMAIN one = 1 .. Len(top)
  BY <1>2
<1> HIDE DEF one, S
<1>8. one \in Seq(Seq(S))
  <2>1. one = [k \in 1 .. Len(top) |-> one[k]]
    BY <1>7 DEF one
  <2>2. \A k \in 1 .. Len(top) : one[k] \in Seq(S)
    BY <1>2, <1>6
  <2> QED BY <1>2, <2>1, <2>2
<1>9. FlattenSeq(one) \in Seq(S)
  BY <1>8, Flattened
<1>10. Chosen(s) = FlattenSeq(one)
  BY DEF Chosen, Each, one, top
<1> QED BY <1>9, <1>10 DEF S

LEMMA BackdropsReady ==
  ASSUME NEW e \in DOMAIN Tmdb, NEW i \in Item, NEW A
  PROVE  Each(Chosen(Tmdb[e].pictures.backdrops), LAMBDA u : [Op("backdrop", i) EXCEPT !.url = u])
         \in Seq(Ready(e, A))
<1> DEFINE S == Ready(e, A)
           urls == Chosen(Tmdb[e].pictures.backdrops)
<1>1. Tmdb[e].pictures \in Pictured
  BY EntryShape
<1>2. Tmdb[e].pictures.backdrops \in Seq([url : STRING, vote : Int])
  BY <1>1 DEF Pictured
<1>3. urls \in Seq(STRING \ {NoText})
  BY <1>2, ChosenUrls
<1> HIDE DEF urls
<1>4. ASSUME NEW url \in STRING PROVE [Op("backdrop", i) EXCEPT !.url = url] \in S
  <2> DEFINE o == [Op("backdrop", i) EXCEPT !.url = url]
  <2>1. o \in OpType /\ o.op = "backdrop"
    BY DEF Op, OpType, OpName, Table, Text
  <2> HIDE DEF o
  <2>2. o \in S
    BY <2>1 DEF Ready, Fit, Upserts
  <2> QED BY <2>2 DEF o
<1> HIDE DEF S
<1>5. \A k \in DOMAIN urls : [Op("backdrop", i) EXCEPT !.url = urls[k]] \in S
  <2>1. \A C : \A s \in Seq(C) : \A j \in DOMAIN s : s[j] \in C
    OBVIOUS
  <2>2. \A k \in DOMAIN urls : urls[k] \in STRING \ {NoText}
    BY <1>3, <2>1, Zenon
  <2> QED BY <1>4, <2>2
<1>6. DOMAIN urls = 1 .. Len(urls) /\ Len(urls) \in Nat
  BY <1>3, LenProperties
<1>7. [k \in DOMAIN urls |-> [Op("backdrop", i) EXCEPT !.url = urls[k]]] \in Seq(S)
  BY <1>5, <1>6
<1> QED BY <1>7 DEF Each, S, urls

-----------------------------------------------------------------------------
(***************************************************************************)
(* What a step leaves: rows keep their TMDB id and name, entries stay      *)
(* written, what is astray stays so, and a picture keeps its place.        *)
(***************************************************************************)

Grows ==
  /\ \A t \in Table : \A k \in DOMAIN rows[t] :
       k \in DOMAIN rows'[t] /\ rows'[t][k].tmdb = rows[t][k].tmdb /\ rows'[t][k].name = rows[t][k].name
  /\ astray \subseteq astray' /\ \A i \in Item : applied[i] \subseteq applied'[i]
  /\ nextImage <= nextImage'
  /\ \A m \in images' : \/ m.row >= nextImage
                        \/ \E n \in images : n.row = m.row /\ n.of = m.of /\ n.id = m.id /\ n.type = m.type

LEMMA ReadyGrows == ASSUME NEW e, NEW A, NEW B, \A i \in Item : A[i] \subseteq B[i]
                    PROVE  Ready(e, A) \subseteq Ready(e, B)
  BY DEF Ready, OpType

LEMMA WrittenGrows == ASSUME NEW r, NEW A \in [Item -> SUBSET DOMAIN Tmdb], NEW B \in [Item -> SUBSET DOMAIN Tmdb],
                             r.todo \in Seq(OpType), \A i \in Item : A[i] \subseteq B[i]
                      PROVE  /\ \A i \in Item : A[i] \subseteq Written(r, A)[i]
                             /\ \A i \in Item : Written(r, A)[i] \subseteq Written(r, B)[i]
<1>1. r.todo # <<>> => Head(r.todo) \in OpType
  BY HeadTailProperties
<1>2. r.todo # <<>> => Head(r.todo).item \in Item
  BY <1>1 DEF OpType
<1> QED BY <1>2 DEF Written

(* A record of a worker is judged by its fields. *)
LEMMA Judged == ASSUME NEW v, NEW r, r = work'[v], AgendaOK(r)', SpotOK(r)'
                PROVE  AgendaOK(work[v])' /\ SpotOK(work[v])'
  BY DEF AgendaOK, SpotOK, Written, Worked, Astray

LEMMA AgendaKept ==
  ASSUME Typed, applied' \in [Item -> SUBSET DOMAIN Tmdb], Grows, NEW r, NEW q, q.todo = r.todo, q.entry = r.entry,
         r.todo \in Seq(OpType), AgendaOK(r)
  PROVE  AgendaOK(q)'
<1>1. \A i \in Item : Written(r, applied)[i] \subseteq Written(r, applied')[i]
  BY WrittenGrows DEF Typed, DataTyped, Grows
<1>2. Ready(r.entry, Written(r, applied)) \subseteq Ready(r.entry, Written(r, applied'))
  BY <1>1, ReadyGrows
<1>3. r.todo \in Seq(Ready(r.entry, Written(r, applied')))
  BY <1>2, SeqMonotonic DEF AgendaOK
<1>4. Written(q, applied') = Written(r, applied')
  BY DEF Written
<1> QED BY <1>3, <1>4 DEF AgendaOK

LEMMA SpotKept ==
  ASSUME Typed, Typed', Grows, NEW r \in WorkType, AgendaOK(r), SpotOK(r),
         r.at = "newest" /\ ~ r.crossed => Len(rows'[Head(r.todo).table]) = Len(rows[Head(r.todo).table])
  PROVE  SpotOK(r)'
<1> DEFINE o == Head(r.todo)
<1>1. CASE r.at = "next"
  BY <1>1 DEF SpotOK
<1>2. CASE r.at # "next"
  <2>1. r.todo # <<>> /\ r.todo \in Seq(Ready(r.entry, Written(r, applied)))
    BY <1>2 DEF SpotOK, AgendaOK
  <2>2. o \in Ready(r.entry, Written(r, applied))
    BY <2>1, HeadTailProperties
  <2>3. o \in OpType /\ Fit(o, r.entry)
    BY <2>2 DEF Ready
  <2>4. Upserts(o) => o.table \in Table
    BY <2>3 DEF Fit
  <2> HIDE DEF o
  <2>5. ASSUME NEW id, Upserts(o), Worked(o, id) PROVE Worked(o, id)'
    BY <2>4, <2>5 DEF Worked, Astray, Fits, Grows
  <2>6. r.at = "rename" => o.tmdb # 0 /\ r.id \in DOMAIN rows'[o.table] /\ Fits(o, rows'[o.table][r.id])
    BY <2>4 DEF SpotOK, Grows, Fits, o
  <2>7. r.at = "newest" /\ ~ r.crossed => /\ Len(rows'[o.table]) # 0
                                          /\ Fits(o, rows'[o.table][Len(rows'[o.table])])
    <3> SUFFICES ASSUME r.at = "newest", ~ r.crossed
                 PROVE Len(rows'[o.table]) # 0 /\ Fits(o, rows'[o.table][Len(rows'[o.table])])
      OBVIOUS
    <3>1. /\ o.table \in Table /\ Len(rows[o.table]) # 0 /\ Fits(o, rows[o.table][Len(rows[o.table])])
          /\ Len(rows'[o.table]) = Len(rows[o.table])
      BY <2>4 DEF SpotOK, o
    <3>2. Len(rows[o.table]) \in DOMAIN rows[o.table]
      BY <3>1 DEF Typed, DataTyped
    <3> QED BY <3>1, <3>2 DEF Grows, Fits
  <2>8. r.at = "repicture" /\ o.op = "image" =>
          r.id < nextImage' /\ \A m \in images' : m.row = r.id => m.of = "item" /\ m.id = o.item /\ m.type = o.type
    <3> SUFFICES ASSUME r.at = "repicture", o.op = "image"
                 PROVE r.id < nextImage' /\ \A m \in images' : m.row = r.id => m.of = "item" /\ m.id = o.item /\ m.type = o.type
      OBVIOUS
    <3>1. r.id < nextImage /\ \A m \in images : m.row = r.id => m.of = "item" /\ m.id = o.item /\ m.type = o.type
      BY DEF SpotOK, o
    <3>2. r.id \in Nat /\ nextImage \in Nat /\ nextImage' \in Nat
      BY DEF Typed, DataTyped, WorkType
    <3> QED BY <3>1, <3>2 DEF Grows
  <2> QED BY <2>1, <2>5, <2>6, <2>7, <2>8 DEF SpotOK, o
<1> QED BY <1>1, <1>2

LEMMA OthersKept ==
  ASSUME Typed, Typed', Grows, NEW v, AgendaOK(work[v]), SpotOK(work[v]), v \in Worker, work'[v] = work[v],
         work[v].at = "newest" /\ ~ work[v].crossed =>
           Len(rows'[Head(work[v].todo).table]) = Len(rows[Head(work[v].todo).table])
  PROVE  AgendaOK(work[v])' /\ SpotOK(work[v])'
<1>1. PICK r : r = work[v]
  OBVIOUS
<1>2. r \in WorkType /\ r.todo \in Seq(OpType)
  BY <1>1 DEF Typed, DataTyped, WorkType
<1>3. AgendaOK(r) /\ SpotOK(r)
  BY <1>1
<1>4. AgendaOK(r)'
  BY <1>2, <1>3, AgendaKept DEF Typed, DataTyped
<1>5. SpotOK(r)'
  BY <1>1, <1>2, <1>3, SpotKept
<1> QED BY <1>1, <1>4, <1>5, Judged

LEMMA IdleKept == Idle \in WorkType /\ \A A : Idle.todo \in Seq(Ready(Idle.entry, A))
  BY DEF Idle, WorkType, Spot

(* The operation at the head of an agenda. *)
LEMMA Current ==
  ASSUME Typed, NEW w \in Worker, AgendaOK(work[w]), work[w].todo # <<>>
  PROVE  /\ Cur(w) \in OpType /\ Fit(Cur(w), work[w].entry) /\ Cur(w).item \in Item
         /\ Cur(w).op = "credits" \/ Upserts(Cur(w)) => By(work[w].entry) \subseteq applied[Cur(w).item]
<1> DEFINE S == Ready(work[w].entry, Written(work[w], applied))
<1>1. work[w].todo \in Seq(S)
  BY DEF AgendaOK
<1>2. Head(work[w].todo) \in S
  <2> HIDE DEF S
  <2> QED BY <1>1, HeadTailProperties
<1>3. Cur(w) \in Ready(work[w].entry, Written(work[w], applied))
  BY <1>2 DEF Cur
<1>4. Cur(w).op # "apply" => Written(work[w], applied) = applied
  BY DEF Written, Cur
<1> QED BY <1>3, <1>4 DEF Ready, Upserts, OpType

(* On with the next operation. *)
LEMMA NextRecord ==
  ASSUME Typed, NEW w \in Worker, work[w].todo # <<>>, NEW linked, NEW more \in Seq(OpType)
  PROVE  /\ Next1(w, linked, more) \in WorkType
         /\ Next1(w, linked, more).todo = more \o Tail(work[w].todo) /\ Next1(w, linked, more).at = "next"
         /\ Next1(w, linked, more).entry = IF more \o Tail(work[w].todo) = <<>> THEN NoEntry ELSE work[w].entry
         /\ Next1(w, linked, more).id = 0
<1>1. work[w] \in WorkType /\ work[w].todo \in Seq(OpType) /\ work[w].order \in Nat
      /\ work[w].entry \in DOMAIN Tmdb \cup {NoEntry}
  BY DEF Typed, DataTyped, WorkType
<1>2. Tail(work[w].todo) \in Seq(OpType)
  BY <1>1, HeadTailProperties
<1> DEFINE todo == more \o Tail(work[w].todo)
           goesOn == todo # <<>> /\ Head(todo).table = Cur(w).table /\ Head(todo).item = Cur(w).item
           order == IF goesOn THEN work[w].order + (IF linked THEN 1 ELSE 0) ELSE 0
           entry == IF todo = <<>> THEN NoEntry ELSE work[w].entry
<1>3. todo \in Seq(OpType)
  BY <1>2, ConcatProperties
<1>4. order \in Nat /\ entry \in DOMAIN Tmdb \cup {NoEntry}
  BY <1>1
<1>5. Next1(w, linked, more) = [Idle EXCEPT !.todo = todo, !.entry = entry, !.order = order]
  BY DEF Next1
<1> HIDE DEF todo, goesOn, order, entry
<1> DEFINE r == [Idle EXCEPT !.todo = todo, !.entry = entry, !.order = order]
<1>6. r \in WorkType
  BY <1>3, <1>4, IdleKept DEF Idle, WorkType, Spot
<1>7. r.todo = todo /\ r.at = "next" /\ r.entry = entry /\ r.id = 0
  BY DEF Idle
<1> HIDE DEF r
<1> QED BY <1>5, <1>6, <1>7 DEF r, todo, entry

LEMMA NextKept ==
  ASSUME Typed, applied' \in [Item -> SUBSET DOMAIN Tmdb], NEW w \in Worker, AgendaOK(work[w]), work[w].todo # <<>>,
         \A i \in Item : Written(work[w], applied)[i] \subseteq applied'[i],
         NEW more \in Seq(Ready(work[w].entry, applied')), NEW linked, work'[w] = Next1(w, linked, more)
  PROVE  work'[w] \in WorkType /\ AgendaOK(work[w])' /\ SpotOK(work[w])'
<1>1. PICK r, e : r = Next1(w, linked, more) /\ e = work[w].entry
  OBVIOUS
<1> DEFINE S == Ready(e, applied')
           rest == Tail(work[w].todo)
<1>2. S \subseteq OpType
  BY DEF Ready
<1>3. more \in Seq(OpType)
  BY <1>1, <1>2, SeqMonotonic
<1>4. r \in WorkType /\ r.todo = more \o rest /\ r.at = "next" /\ (r.entry = IF more \o rest = <<>> THEN NoEntry ELSE e)
  BY <1>1, <1>3, NextRecord
<1>5. work[w].todo \in Seq(Ready(e, Written(work[w], applied))) /\ Ready(e, Written(work[w], applied)) \subseteq S
  BY <1>1, ReadyGrows DEF AgendaOK
<1>6. work[w].todo \in Seq(S)
  BY <1>5, SeqMonotonic
<1> HIDE DEF S
<1>7. rest \in Seq(S)
  BY <1>6, HeadTailProperties
<1>8. r.todo \in Seq(S)
  <2>1. more \in Seq(S)
    BY <1>1 DEF S
  <2> HIDE DEF rest
  <2> QED BY <1>4, <1>7, <2>1, ConcatProperties
<1>9. r.todo \in Seq(Ready(r.entry, applied'))
  <2>1. CASE more \o rest = <<>>
    <3>1. r.todo = <<>>
      BY <1>4, <2>1
    <3> QED BY <3>1
  <2>2. CASE more \o rest # <<>>
    BY <1>4, <1>8, <2>2 DEF S
  <2> QED BY <2>1, <2>2
<1>10. r.todo \in Seq(OpType)
  BY <1>4 DEF WorkType
<1>11. \A i \in Item : applied'[i] \subseteq Written(r, applied')[i]
  BY <1>10, WrittenGrows
<1>12. Ready(r.entry, applied') \subseteq Ready(r.entry, Written(r, applied'))
  BY <1>11, ReadyGrows
<1>13. AgendaOK(r)'
  BY <1>9, <1>12, SeqMonotonic DEF AgendaOK
<1>14. SpotOK(r)'
  BY <1>4 DEF SpotOK
<1> QED BY <1>1, <1>4, <1>13, <1>14, Judged

(* Links, people and portraits that stay. *)
LEMMA ListedGrows ==
  ASSUME NEW t, NEW i, NEW q, NEW r, NEW E, NEW D, q.tmdb = r.tmdb, q.name = r.name, E \subseteq D, Listed(t, i, q, E)
  PROVE  Listed(t, i, r, D)
  BY DEF Listed

LEMMA LinkKept == ASSUME Typed, Grows, NEW l \in LinkRow, LinkOK(l) PROVE LinkOK(l)'
<1>1. l.table \in Table /\ l.item \in Item
  BY DEF LinkRow
<1>2. l.id \in DOMAIN rows[l.table]
  BY DEF LinkOK
<1>3. /\ l.id \in DOMAIN rows'[l.table] /\ rows'[l.table][l.id].tmdb = rows[l.table][l.id].tmdb
      /\ rows'[l.table][l.id].name = rows[l.table][l.id].name
  BY <1>1, <1>2 DEF Grows
<1>4. ASSUME <<l.table, l.item>> \notin astray'
      PROVE Listed(l.table, l.item, rows'[l.table][l.id], applied'[l.item])
  <2>1. Listed(l.table, l.item, rows[l.table][l.id], applied[l.item])
    BY <1>4 DEF LinkOK, Grows
  <2>2. applied[l.item] \subseteq applied'[l.item]
    BY <1>1 DEF Grows
  <2> QED BY <1>3, <2>1, <2>2, ListedGrows
<1> QED BY <1>3, <1>4 DEF LinkOK

LEMMA PortraitKept == ASSUME Typed, Grows, NEW m, PortraitOK(m) PROVE PortraitOK(m)'
  BY DEF PortraitOK, Grows, Own, Table


-----------------------------------------------------------------------------
(***************************************************************************)
(* Steps of a worker.                                                      *)
(***************************************************************************)

SameLength == \A t \in Table : Len(rows'[t]) = Len(rows[t])

LEMMA OthersStay ==
  ASSUME Typed, Typed', WorkInv, Grows, SameLength, NEW v \in Worker, work'[v] = work[v]
  PROVE  AgendaOK(work[v])' /\ SpotOK(work[v])'
<1>1. AgendaOK(work[v]) /\ SpotOK(work[v])
  BY DEF WorkInv
<1>2. ASSUME work[v].at = "newest"
      PROVE Len(rows'[Head(work[v].todo).table]) = Len(rows[Head(work[v].todo).table])
  <2>1. work[v].todo # <<>> /\ Upserts(Cur(v))
    BY <1>1, <1>2 DEF SpotOK, Cur
  <2>2. Cur(v).table \in Table
    BY <1>1, <2>1, Current DEF Fit
  <2> QED BY <2>2 DEF SameLength, Cur
<1> QED BY <1>1, <1>2, OthersKept

(* A worker goes on with the next operation. *)
LEMMA Onward ==
  ASSUME Typed, WorkInv, DataTyped', Grows, SameLength, NEW w \in Worker, work[w].todo # <<>>,
         \A i \in Item : Written(work[w], applied)[i] \subseteq applied'[i],
         NEW more \in Seq(Ready(work[w].entry, applied')), NEW linked,
         work' = [work EXCEPT ![w] = Next1(w, linked, more)]
  PROVE  Typed' /\ WorkInv'
<1>1. AgendaOK(work[w]) /\ work'[w] = Next1(w, linked, more) /\ \A v \in Worker \ {w} : work'[v] = work[v]
  BY DEF WorkInv, Typed
<1>2. applied' \in [Item -> SUBSET DOMAIN Tmdb]
  BY DEF DataTyped
<1>3. work'[w] \in WorkType /\ AgendaOK(work[w])' /\ SpotOK(work[w])'
  BY <1>1, <1>2, NextKept
<1>4. Typed'
  BY <1>1, <1>3 DEF Typed
<1>5. \A v \in Worker \ {w} : AgendaOK(work[v])' /\ SpotOK(work[v])'
  BY <1>1, <1>4, OthersStay
<1> QED BY <1>3, <1>4, <1>5 DEF WorkInv

(* A worker goes on with the same one. *)
LEMMA Within ==
  ASSUME Typed, WorkInv, DataTyped', Grows, SameLength, NEW w \in Worker, NEW r \in WorkType,
         r.todo = work[w].todo, r.entry = work[w].entry, SpotOK(r)',
         work' = [work EXCEPT ![w] = r]
  PROVE  Typed' /\ WorkInv'
<1>1. AgendaOK(work[w]) /\ work'[w] = r /\ \A v \in Worker \ {w} : work'[v] = work[v]
  BY DEF WorkInv, Typed
<1>2. Typed'
  BY <1>1 DEF Typed
<1>3. AgendaOK(r)'
  <2>1. PICK q : q = work[w]
    OBVIOUS
  <2>2. q.todo \in Seq(OpType) /\ AgendaOK(q) /\ applied' \in [Item -> SUBSET DOMAIN Tmdb]
        /\ r.todo = q.todo /\ r.entry = q.entry
    BY <1>1, <2>1 DEF Typed, WorkType, DataTyped
  <2> QED BY <2>2, AgendaKept
<1>4. AgendaOK(work[w])' /\ SpotOK(work[w])'
  BY <1>1, <1>3, Judged
<1>5. \A v \in Worker \ {w} : AgendaOK(work[v])' /\ SpotOK(work[v])'
  BY <1>1, <1>2, OthersStay
<1> QED BY <1>2, <1>4, <1>5 DEF WorkInv

(* Steps that leave the tables as they are. *)
LEMMA Quiet ==
  ASSUME Typed, DataInv, UNCHANGED <<rows, links, images, nextImage>>, astray \subseteq astray',
         \A i \in Item : applied[i] \subseteq applied'[i]
  PROVE  Grows /\ SameLength /\ DataInv'
<1>1. Grows /\ SameLength
  <2>1. nextImage <= nextImage'
    BY DEF Typed, DataTyped
  <2>2. \A m \in images' : \E n \in images : n.row = m.row /\ n.of = m.of /\ n.id = m.id /\ n.type = m.type
    OBVIOUS
  <2> QED BY <2>1, <2>2 DEF Grows, SameLength
<1>2. RowsOK'
  BY DEF DataInv, RowsOK
<1>3. \A l \in links' : LinkOK(l)'
  <2> SUFFICES ASSUME NEW l \in links PROVE LinkOK(l)'
    OBVIOUS
  <2>1. LinkOK(l) /\ l \in LinkRow
    BY DEF DataInv, Typed, DataTyped
  <2> QED BY <1>1, <2>1, LinkKept
<1>4. ImagesOK'
  BY DEF DataInv, ImagesOK
<1>5. PeopleOK'
  BY DEF DataInv, PeopleOK, PersonOK, Own
<1>6. \A m \in images' : PortraitOK(m)'
  <2> SUFFICES ASSUME NEW m \in images PROVE PortraitOK(m)'
    OBVIOUS
  <2>1. PortraitOK(m)
    BY DEF DataInv
  <2> QED BY <1>1, <2>1, PortraitKept
<1> QED BY <1>1, <1>2, <1>3, <1>4, <1>5, <1>6 DEF DataInv

LEMMA ApplyKept == ASSUME CInv, NEW w \in Worker, Apply(w) PROVE CInv'
<1> USE DEF CInv
<1>1. work[w].todo # <<>> /\ Cur(w).op = "apply" /\ AgendaOK(work[w])
  BY DEF Apply, Now, Cur, WorkInv
<1>2. Cur(w).item \in Item /\ work[w].entry \in DOMAIN Tmdb
  BY <1>1, Current DEF Fit
<1>3. applied' = Written(work[w], applied)
  BY <1>1 DEF Apply, Written, Cur
<1>4. applied' = [applied EXCEPT ![Cur(w).item] = @ \cup {work[w].entry}]
  BY DEF Apply
<1>5. applied' \in [Item -> SUBSET DOMAIN Tmdb] /\ \A i \in Item : applied[i] \subseteq applied'[i]
  BY <1>2, <1>4 DEF Typed, DataTyped
<1>6. DataTyped'
  BY <1>5 DEF Apply, db, Typed, DataTyped
<1>7. Grows /\ SameLength /\ DataInv'
  BY <1>5, Quiet DEF Apply, db
<1>8. work' = [work EXCEPT ![w] = Next1(w, FALSE, <<>>)]
  BY DEF Apply, Done
<1>9. <<>> \in Seq(Ready(work[w].entry, applied'))
  OBVIOUS
<1>10. Typed' /\ WorkInv'
  <2>1. \A i \in Item : Written(work[w], applied)[i] \subseteq applied'[i]
    BY <1>3
  <2> QED BY <1>1, <1>6, <1>7, <1>8, <1>9, <2>1, Onward
<1> QED BY <1>7, <1>10

LEMMA NotWritten == ASSUME NEW w, Cur(w).op # "apply" PROVE Written(work[w], applied) = applied
  BY DEF Written, Cur

LEMMA QuietOnward ==
  ASSUME CInv, NEW w \in Worker, work[w].todo # <<>>, Cur(w).op # "apply",
         UNCHANGED <<rows, links, images, nextImage>>, DataTyped', astray \subseteq astray',
         \A i \in Item : applied[i] \subseteq applied'[i],
         NEW more \in Seq(Ready(work[w].entry, applied')), NEW linked,
         work' = [work EXCEPT ![w] = Next1(w, linked, more)]
  PROVE  CInv'
<1>1. Typed /\ WorkInv /\ DataInv
  BY DEF CInv
<1>2. Grows /\ SameLength /\ DataInv'
  BY <1>1, Quiet
<1>3. Typed' /\ WorkInv'
  BY <1>1, <1>2, NotWritten, Onward
<1> QED BY <1>2, <1>3 DEF CInv

LEMMA QuietWithin ==
  ASSUME CInv, UNCHANGED <<items, rows, links, images, nextImage, applied, latest, astray>>,
         NEW w \in Worker, NEW r \in WorkType, r.todo = work[w].todo, r.entry = work[w].entry, SpotOK(r)',
         work' = [work EXCEPT ![w] = r]
  PROVE  CInv'
<1>1. Typed /\ WorkInv /\ DataInv
  BY DEF CInv
<1>2. Grows /\ SameLength /\ DataInv'
  BY <1>1, Quiet
<1>3. DataTyped'
  BY <1>1 DEF Typed, DataTyped
<1>4. Typed' /\ WorkInv'
  BY <1>1, <1>2, <1>3, Within
<1> QED BY <1>2, <1>4 DEF CInv

(* The operation of a step of a worker. *)
LEMMA NowIs == ASSUME CInv, NEW w \in Worker, work[w].todo # <<>>
               PROVE  /\ Cur(w) \in OpType /\ Fit(Cur(w), work[w].entry) /\ Cur(w).item \in Item
                      /\ Cur(w).op = "credits" \/ Upserts(Cur(w)) => By(work[w].entry) \subseteq applied[Cur(w).item]
                      /\ SpotOK(work[w]) /\ AgendaOK(work[w])
<1>1. Typed /\ AgendaOK(work[w]) /\ SpotOK(work[w])
  BY DEF CInv, WorkInv
<1> QED BY <1>1, Current

LEMMA GetImagesKept == ASSUME CInv, NEW w \in Worker, GetImages(w) PROVE CInv'
<1> DEFINE i == Cur(w).item
           e == work[w].entry
           p == Tmdb[e].pictures
           S == Ready(e, applied')
           more(ok) == Picture(i, "primary", p.poster)
                     \o (IF ok THEN <<Op("backdrops", i)>> ELSE Picture(i, "backdrop", p.backdrop))
                     \o Picture(i, "thumb", p.backdrop)
                     \o (IF ok THEN Picture(i, "logo", p.logo) ELSE <<>>)
<1>1. work[w].todo # <<>> /\ Cur(w).op = "pictures"
  BY DEF GetImages, Now, Cur
<1>2. i \in Item /\ e \in DOMAIN Tmdb
  BY <1>1, NowIs DEF Fit
<1>3. p.poster \in Text /\ p.backdrop \in Text /\ p.logo \in Text
  <2>1. p \in Pictured
    BY <1>2, EntryShape
  <2>2. p.poster \in STRING /\ p.backdrop \in STRING /\ p.logo \in STRING
    BY <2>1 DEF Pictured
  <2> QED BY <2>2 DEF Text
<1>4. PICK ok \in BOOLEAN :
        /\ work' = [work EXCEPT ![w] = Next1(w, FALSE, more(ok))]
        /\ latest' = IF ok THEN latest ELSE [latest EXCEPT ![<<i, "backdrop">>] = NoEntry]
  BY DEF GetImages
<1>5. more(ok) \in Seq(S)
  <2>1. /\ Picture(i, "primary", p.poster) \in Seq(S) /\ Picture(i, "backdrop", p.backdrop) \in Seq(S)
        /\ Picture(i, "thumb", p.backdrop) \in Seq(S) /\ Picture(i, "logo", p.logo) \in Seq(S)
    <3>1. {"primary", "backdrop", "thumb", "logo"} \subseteq Text
      BY DEF Text
    <3> QED BY <1>2, <1>3, <3>1, PictureReady
  <2>2. Op("backdrops", i) \in S
    BY <1>2, PlainReady DEF OpName
  <2> HIDE DEF S, p, i, e
  <2>3. (IF ok THEN <<Op("backdrops", i)>> ELSE Picture(i, "backdrop", p.backdrop)) \in Seq(S)
    BY <2>1, <2>2
  <2>4. (IF ok THEN Picture(i, "logo", p.logo) ELSE <<>>) \in Seq(S)
    BY <2>1
  <2>5. Picture(i, "primary", p.poster)
        \o (IF ok THEN <<Op("backdrops", i)>> ELSE Picture(i, "backdrop", p.backdrop)) \in Seq(S)
    BY <2>1, <2>3, ConcatProperties
  <2>6. Picture(i, "primary", p.poster)
        \o (IF ok THEN <<Op("backdrops", i)>> ELSE Picture(i, "backdrop", p.backdrop))
        \o Picture(i, "thumb", p.backdrop) \in Seq(S)
    BY <2>1, <2>5, ConcatProperties
  <2> QED BY <2>4, <2>6, ConcatProperties
<1>6. DataTyped'
  BY <1>2, <1>4 DEF GetImages, db, CInv, Typed, DataTyped, Part
<1> HIDE DEF more, S
<1>7. /\ Cur(w).op # "apply" /\ UNCHANGED <<rows, links, images, nextImage>> /\ astray \subseteq astray'
      /\ \A j \in Item : applied[j] \subseteq applied'[j]
  BY <1>1 DEF GetImages, db
<1> QED BY <1>1, <1>4, <1>5, <1>6, <1>7, QuietOnward DEF S

LEMMA UpdateSeasonKept == ASSUME CInv, NEW w \in Worker, UpdateSeason(w) PROVE CInv'
<1> DEFINE i == Cur(w).item
           e == work[w].entry
           more == IF i \in items THEN Picture(i, "primary", Tmdb[e].poster) ELSE <<>>
<1>1. work[w].todo # <<>> /\ Cur(w).op = "season"
  BY DEF UpdateSeason, Now, Cur
<1>2. i \in Item /\ e \in DOMAIN Tmdb
  BY <1>1, NowIs DEF Fit
<1>3. more \in Seq(Ready(e, applied'))
  <2>1. Tmdb[e].poster \in Text /\ "primary" \in Text
    BY <1>2, EntryShape DEF Text
  <2>2. Picture(i, "primary", Tmdb[e].poster) \in Seq(Ready(e, applied'))
    BY <1>2, <2>1, PictureReady
  <2>3. <<>> \in Seq(Ready(e, applied'))
    OBVIOUS
  <2> QED BY <2>2, <2>3, Zenon
<1>4. work' = [work EXCEPT ![w] = Next1(w, FALSE, more)]
  BY DEF UpdateSeason
<1>5. DataTyped'
  BY DEF UpdateSeason, db, history, CInv, Typed, DataTyped
<1> HIDE DEF more
<1>6. /\ Cur(w).op # "apply" /\ UNCHANGED <<rows, links, images, nextImage>> /\ astray \subseteq astray'
      /\ \A j \in Item : applied[j] \subseteq applied'[j]
  BY <1>1 DEF UpdateSeason, db, history
<1> QED BY <1>1, <1>3, <1>4, <1>5, <1>6, QuietOnward

LEMMA ScrapeEpisodeKept == ASSUME CInv, NEW w \in Worker, ScrapeEpisode(w) PROVE CInv'
<1> DEFINE i == Cur(w).item
           e == work[w].entry
           more == IF i \in items THEN Picture(i, "primary", Tmdb[e].still) \o <<Op("credits", i)>> ELSE <<>>
<1>1. work[w].todo # <<>> /\ Cur(w).op = "episode"
  BY DEF ScrapeEpisode, Now, Cur
<1>2. i \in Item /\ e \in DOMAIN Tmdb
  BY <1>1, NowIs DEF Fit
<1>3. applied' = [applied EXCEPT ![i] = @ \cup {e}] /\ applied \in [Item -> SUBSET DOMAIN Tmdb]
  BY DEF ScrapeEpisode, CInv, Typed, DataTyped
<1>4. applied' \in [Item -> SUBSET DOMAIN Tmdb] /\ (\A j \in Item : applied[j] \subseteq applied'[j]) /\ e \in applied'[i]
  BY <1>2, <1>3
<1>5. more \in Seq(Ready(e, applied'))
  <2>1. Tmdb[e].still \in Text /\ "primary" \in Text
    BY <1>2, EntryShape DEF Text
  <2>2. Picture(i, "primary", Tmdb[e].still) \in Seq(Ready(e, applied'))
    BY <1>2, <2>1, PictureReady
  <2>3. Op("credits", i) \in Ready(e, applied')
    BY <1>2, <1>4, OpFields DEF Ready, Fit, Upserts, OpName, By
  <2>4. <<Op("credits", i)>> \in Seq(Ready(e, applied'))
    BY <2>3
  <2>5. Picture(i, "primary", Tmdb[e].still) \o <<Op("credits", i)>> \in Seq(Ready(e, applied'))
    BY <2>2, <2>4, ConcatProperties
  <2>6. <<>> \in Seq(Ready(e, applied'))
    OBVIOUS
  <2> QED BY <2>5, <2>6, Zenon
<1>6. work' = [work EXCEPT ![w] = Next1(w, FALSE, more)]
  BY DEF ScrapeEpisode
<1>7. DataTyped'
  BY <1>4 DEF ScrapeEpisode, db, CInv, Typed, DataTyped
<1> HIDE DEF more
<1>8. Cur(w).op # "apply" /\ UNCHANGED <<rows, links, images, nextImage>> /\ astray \subseteq astray'
  BY <1>1 DEF ScrapeEpisode, db
<1> QED BY <1>1, <1>4, <1>5, <1>6, <1>7, <1>8, QuietOnward

LEMMA EpisodeFailsKept == ASSUME CInv, NEW w \in Worker, EpisodeFails(w) PROVE CInv'
<1>1. work[w].todo # <<>> /\ Cur(w).op # "apply"
  BY DEF EpisodeFails, Now, Cur
<1>2. work' = [work EXCEPT ![w] = Next1(w, FALSE, <<>>)] /\ <<>> \in Seq(Ready(work[w].entry, applied'))
  BY DEF EpisodeFails, Done
<1>3. DataTyped'
  BY DEF EpisodeFails, db, history, CInv, Typed, DataTyped
<1>4. /\ UNCHANGED <<rows, links, images, nextImage>> /\ astray \subseteq astray'
      /\ \A j \in Item : applied[j] \subseteq applied'[j]
  BY DEF EpisodeFails, db, history
<1> QED BY <1>1, <1>2, <1>3, <1>4, QuietOnward

LEMMA BeginKept ==
  ASSUME CInv, NEW w \in Worker, NEW todo, NEW e \in DOMAIN Tmdb \cup {NoEntry}, NEW A, Begin(w, todo, e),
         todo \in Seq(Ready(e, A)),
         A = applied \/ (todo # <<>> /\ Head(todo).op = "apply" /\ A = [applied EXCEPT ![Head(todo).item] = @ \cup {e}])
  PROVE  CInv'
<1> DEFINE r == [Idle EXCEPT !.todo = todo, !.entry = e]
<1>1. Typed /\ WorkInv /\ DataInv
  BY DEF CInv
<1>2. UNCHANGED <<items, rows, links, images, nextImage, applied, latest, astray>> /\ work' = [work EXCEPT ![w] = r]
  BY DEF Begin, db, history
<1>3. Grows /\ SameLength /\ DataInv'
  BY <1>1, <1>2, Quiet
<1>4. DataTyped'
  BY <1>1, <1>2 DEF Typed, DataTyped
<1>5. todo \in Seq(OpType)
  <2>1. Ready(e, A) \subseteq OpType
    BY DEF Ready
  <2> QED BY <2>1, SeqMonotonic
<1>6. r \in WorkType /\ r.todo = todo /\ r.entry = e /\ r.at = "next"
  BY <1>5 DEF Idle, WorkType, Spot
<1> HIDE DEF r
<1>7. work'[w] = r /\ \A v \in Worker \ {w} : work'[v] = work[v]
  BY <1>1, <1>2 DEF Typed
<1>8. Typed'
  BY <1>1, <1>2, <1>4, <1>6 DEF Typed
<1>9. AgendaOK(r)'
  <2>1. \A i \in Item : A[i] \subseteq Written(r, applied)[i]
    <3>1. CASE A = applied
      BY <1>1, <1>5, <1>6, <3>1, WrittenGrows DEF Typed, DataTyped
    <3>2. CASE todo # <<>> /\ Head(todo).op = "apply" /\ A = [applied EXCEPT ![Head(todo).item] = @ \cup {e}]
      BY <1>6, <3>2 DEF Written
    <3> QED BY <3>1, <3>2
  <2>2. Ready(e, A) \subseteq Ready(e, Written(r, applied))
    BY <2>1, ReadyGrows
  <2>3. todo \in Seq(Ready(e, Written(r, applied)))
    BY <2>2, SeqMonotonic
  <2>4. applied' = applied
    BY <1>2
  <2>5. todo \in Seq(Ready(r.entry, Written(r, applied')))
    BY <1>6, <2>3, <2>4
  <2> QED BY <1>6, <2>5 DEF AgendaOK
<1>10. SpotOK(r)'
  BY <1>6 DEF SpotOK
<1>11. AgendaOK(work[w])' /\ SpotOK(work[w])'
  BY <1>7, <1>9, <1>10, Judged
<1>12. \A v \in Worker \ {w} : AgendaOK(work[v])' /\ SpotOK(work[v])'
  BY <1>1, <1>3, <1>7, <1>8, OthersStay
<1> QED BY <1>3, <1>8, <1>11, <1>12 DEF CInv, WorkInv

LEMMA BeginsKept ==
  ASSUME CInv,
         \/ \E m \in Matches, d \in BOOLEAN : ScrapeMovie(m[1], m[2], d) \/ ScrapeTv(m[1], m[2], d)
         \/ \E i \in DOMAIN Nfo : ReadNfo(i)
         \/ \E i \in Deletable : DeleteItem(i)
         \/ \E m \in Matches : Identify(m[1])
  PROVE  CInv'
<1>0. {"scraper", "scanner", "admin"} = Worker /\ applied \in [Item -> SUBSET DOMAIN Tmdb]
  BY DEF Worker, CInv, Typed, DataTyped
<1>1. ASSUME NEW i \in Item, NEW e \in DOMAIN Tmdb, NEW d, ScrapeMovie(i, e, d) PROVE CInv'
  <2> DEFINE A == [applied EXCEPT ![i] = @ \cup {e}]
             todo == MovieAgenda(i, e, d)
  <2>1. e \in A[i]
    BY <1>0
  <2>2. todo \in Seq(Ready(e, A)) /\ todo # <<>> /\ Head(todo) = Op("apply", i)
    BY <2>1, MovieReady
  <2>3. Op("apply", i).op = "apply" /\ Op("apply", i).item = i
    BY OpFields DEF OpName
  <2>4. Begin("scraper", todo, e)
    BY <1>1 DEF ScrapeMovie
  <2> HIDE DEF todo
  <2> QED BY <1>0, <2>2, <2>3, <2>4, BeginKept
<1>2. ASSUME NEW i \in Item, NEW e \in DOMAIN Tmdb, NEW d, ScrapeTv(i, e, d) PROVE CInv'
  <2> DEFINE A == [applied EXCEPT ![i] = @ \cup {e}]
             todo == TvAgenda(i, e, d)
  <2>1. e \in A[i]
    BY <1>0
  <2>2. todo \in Seq(Ready(e, A)) /\ todo # <<>> /\ Head(todo) = Op("apply", i)
    BY <2>1, TvReady
  <2>3. Op("apply", i).op = "apply" /\ Op("apply", i).item = i
    BY OpFields DEF OpName
  <2>4. Begin("scraper", todo, e)
    BY <1>2 DEF ScrapeTv
  <2> HIDE DEF todo
  <2> QED BY <1>0, <2>2, <2>3, <2>4, BeginKept
<1>3. ASSUME NEW i \in DOMAIN Nfo, ReadNfo(i) PROVE CInv'
  BY <1>0, <1>3, NfoReady, BeginKept DEF ReadNfo
<1>4. ASSUME NEW i \in Item, DeleteItem(i) PROVE CInv'
  BY <1>0, <1>4, DropsReady, BeginKept DEF DeleteItem
<1>5. ASSUME NEW i \in Item, Identify(i) PROVE CInv'
  BY <1>0, <1>5, DropsReady, BeginKept DEF Identify
<1> QED BY <1>1, <1>2, <1>3, <1>4, <1>5, Shapes

LEMMA CrashKept == ASSUME CInv, Crash PROVE CInv'
<1>1. Typed /\ WorkInv /\ DataInv
  BY DEF CInv
<1>2. UNCHANGED <<items, rows, links, images, nextImage, applied, astray>> /\ work' = [v \in Worker |-> Idle]
  BY DEF Crash, db
<1>3. latest' \in [Item \X Part -> DOMAIN Tmdb \cup {NoEntry}]
  BY <1>1 DEF Crash, Typed, DataTyped
<1>4. DataInv'
  BY <1>1, <1>2, Quiet
<1>5. Typed'
  BY <1>1, <1>2, <1>3, IdleKept DEF Typed, DataTyped
<1>6. WorkInv'
  <2> SUFFICES ASSUME NEW v \in Worker PROVE AgendaOK(work[v])' /\ SpotOK(work[v])'
    BY DEF WorkInv
  <2>1. work'[v] = Idle
    BY <1>2
  <2>2. AgendaOK(Idle)' /\ SpotOK(Idle)'
    BY DEF AgendaOK, SpotOK, Idle
  <2>3. PICK r : r = Idle
    OBVIOUS
  <2>4. AgendaOK(r)' /\ SpotOK(r)'
    BY <2>2, <2>3
  <2> QED BY <2>1, <2>3, <2>4, Judged
<1> QED BY <1>4, <1>5, <1>6 DEF CInv

LEMMA GotoFields ==
  ASSUME Typed, NEW w \in Worker, NEW at \in Spot
  PROVE  /\ [work[w] EXCEPT !.at = at] \in WorkType
         /\ [work[w] EXCEPT !.at = at].todo = work[w].todo /\ [work[w] EXCEPT !.at = at].entry = work[w].entry
         /\ [work[w] EXCEPT !.at = at].at = at /\ [work[w] EXCEPT !.at = at].id = work[w].id
<1>1. work[w] \in WorkType
  BY DEF Typed
<1> QED BY <1>1 DEF WorkType

LEMMA AfterIs == ASSUME NEW w, NEW needs
                 PROVE  /\ AfterUpsert(w, needs) \in {"link", "enrich", "look"}
                        /\ AfterUpsert(w, needs) # "link" => Cur(w).table = "people"
  BY DEF AfterUpsert

(* Past an upsert, the row worked on is the one the operation is about. *)
LEMMA UpsertedSpot ==
  ASSUME NEW r, r.todo # <<>>, NEW o, o = Head(r.todo), r.at \in {"link", "enrich", "look", "picture", "repicture"},
         r.at # "link" => o.table = "people", Upserts(o), Worked(o, r.id)'
  PROVE  SpotOK(r)'
  BY DEF SpotOK, Upserts

LEMMA SelectKept == ASSUME CInv, NEW w \in Worker, Select(w) PROVE CInv'
<1>0. PICK o : o = Cur(w)
  OBVIOUS
<1>1. work[w].todo # <<>> /\ o.op \in {"upsert", "actor"} /\ o = Head(work[w].todo) /\ Upserts(o)
  BY <1>0 DEF Select, Now, Cur, Upserts
<1>2. o \in OpType /\ o.table \in Table /\ work[w] \in WorkType /\ rows[o.table] \in Seq(TermRow)
  BY <1>0, <1>1, NowIs DEF Fit, CInv, Typed, DataTyped
<1>3. UNCHANGED <<items, rows, links, images, nextImage, applied, latest, astray>>
  BY DEF Select, db, history
<1>4. CASE Find(w) = {}
  <2>0. PICK r : r = [work[w] EXCEPT !.at = "insert"]
    OBVIOUS
  <2>1. work' = [work EXCEPT ![w] = r]
    BY <1>4, <2>0 DEF Select, Goto, CInv, Typed
  <2>2. r \in WorkType /\ r.todo = work[w].todo /\ r.entry = work[w].entry /\ r.at = "insert"
    BY <2>0, GotoFields DEF Spot, CInv
  <2>3. SpotOK(r)'
    BY <1>1, <2>2 DEF SpotOK
  <2> QED BY <1>3, <2>1, <2>2, <2>3, QuietWithin
<1>5. CASE Find(w) # {}
  <2>1. PICK k \in Find(w) :
          work' = [work EXCEPT ![w].id = k, ![w].needs = NeedsEnrich(w, k),
                               ![w].at = IF o.tmdb = 0 THEN "link" ELSE "rename"]
    BY <1>0, <1>5 DEF Select
  <2> DEFINE at == IF o.tmdb = 0 THEN "link" ELSE "rename"
             needs == NeedsEnrich(w, k)
  <2>0. PICK r : r = [work[w] EXCEPT !.id = k, !.needs = needs, !.at = at]
    OBVIOUS
  <2>2. k \in DOMAIN rows[o.table] /\ Fits(o, rows[o.table][k])
    BY <1>0 DEF Find, Fits
  <2>3. k \in Nat /\ needs \in BOOLEAN /\ at \in Spot
    BY <1>2, <2>2 DEF NeedsEnrich, Spot
  <2>4. work' = [work EXCEPT ![w] = r]
    BY <2>0, <2>1 DEF CInv, Typed
  <2>5. r \in WorkType /\ r.todo = work[w].todo /\ r.entry = work[w].entry /\ r.at = at /\ r.id = k
    <3> HIDE DEF needs, at
    <3> QED BY <1>2, <2>0, <2>3 DEF WorkType
  <2>6. SpotOK(r)'
    <3>1. rows' = rows /\ astray' = astray
      BY <1>3
    <3>2. CASE o.tmdb = 0
      <4>1. Worked(o, r.id)'
        BY <2>2, <2>5, <3>1 DEF Worked
      <4> QED BY <1>1, <2>5, <3>2, <4>1, UpsertedSpot
    <3>3. CASE o.tmdb # 0
      BY <1>1, <2>2, <2>5, <3>1, <3>3 DEF SpotOK
    <3> QED BY <3>2, <3>3
  <2> QED BY <1>3, <2>4, <2>5, <2>6, QuietWithin
<1> QED BY <1>4, <1>5

LEMMA LookKept == ASSUME CInv, NEW w \in Worker, Look(w) PROVE CInv'
<1>0. PICK o : o = Cur(w)
  OBVIOUS
<1> DEFINE t == Target(w)
           found == {m.row : m \in Pictures(t.of, t.id, t.type)}
<1>1. work[w].todo # <<>> /\ o = Head(work[w].todo) /\ work[w] \in WorkType
  BY <1>0 DEF Look, At, Cur, CInv, Typed
<1>2. o \in OpType /\ SpotOK(work[w]) /\ Fit(o, work[w].entry)
  BY <1>0, <1>1, NowIs
<1>3. o.op = "image" \/ (Upserts(o) /\ o.table = "people" /\ Worked(o, work[w].id))
  <2>1. CASE At(w, "look")
    BY <1>0, <1>2, <2>1 DEF SpotOK, At, Cur
  <2>2. CASE Now(w, {"image"})
    BY <1>0, <2>2 DEF Now, Cur
  <2> QED BY <2>1, <2>2 DEF Look
<1>4. UNCHANGED <<items, rows, links, images, nextImage, applied, latest, astray>>
  BY DEF Look, db, history
<1>5. CASE found = {}
  <2>0. PICK r : r = [work[w] EXCEPT !.at = "picture"]
    OBVIOUS
  <2>1. work' = [work EXCEPT ![w] = r]
    BY <1>5, <2>0 DEF Look, Goto, CInv, Typed
  <2>2. r \in WorkType /\ r.todo = work[w].todo /\ r.entry = work[w].entry /\ r.at = "picture" /\ r.id = work[w].id
    BY <2>0, GotoFields DEF Spot, CInv
  <2>3. SpotOK(r)'
    <3>1. CASE o.op = "image"
      BY <1>1, <2>2, <3>1 DEF SpotOK, Upserts
    <3>2. CASE o.op # "image"
      <4>1. Worked(o, r.id)'
        BY <1>3, <1>4, <2>2, <3>2 DEF Worked, Astray
      <4> QED BY <1>1, <1>3, <2>2, <3>2, <4>1, UpsertedSpot
    <3> QED BY <3>1, <3>2
  <2> QED BY <1>4, <2>1, <2>2, <2>3, QuietWithin
<1>6. CASE found # {}
  <2>1. PICK row \in found :
          work' = [work EXCEPT ![w].at = "repicture", ![w].id = IF o.op = "image" THEN row ELSE @]
    BY <1>0, <1>6 DEF Look
  <2> DEFINE id == IF o.op = "image" THEN row ELSE work[w].id
  <2>0. PICK r : r = [work[w] EXCEPT !.at = "repicture", !.id = id]
    OBVIOUS
  <2>2. PICK m \in images : m.row = row /\ m.of = t.of /\ m.id = t.id /\ m.type = t.type
    BY DEF Pictures
  <2>3. m.row \in Nat /\ row < nextImage /\ work[w].id \in Nat /\ \A n \in images : n.row = row => n = m
    <3>1. m \in ImageRow
      BY DEF CInv, Typed, DataTyped
    <3> QED BY <1>1, <2>2, <3>1 DEF ImageRow, WorkType, CInv, DataInv, ImagesOK
  <2>4. work' = [work EXCEPT ![w] = r]
    BY <2>0, <2>1 DEF CInv, Typed
  <2>5. id \in Nat
    BY <2>2, <2>3
  <2>6. r \in WorkType /\ r.todo = work[w].todo /\ r.entry = work[w].entry /\ r.at = "repicture" /\ r.id = id
    <3> HIDE DEF id
    <3> QED BY <1>1, <2>0, <2>5 DEF WorkType, Spot
  <2>7. SpotOK(r)'
    <3>1. CASE o.op = "image"
      <4>1. t.of = "item" /\ t.id = o.item /\ t.type = o.type
        BY <1>0, <3>1 DEF Target
      <4>2. ~ Upserts(o)
        BY <3>1 DEF Upserts
      <4>3. r.id = row /\ r.id < nextImage' /\ \A n \in images' : n.row = r.id => n.of = "item" /\ n.id = o.item /\ n.type = o.type
        BY <1>4, <2>2, <2>3, <2>6, <3>1, <4>1
      <4> QED BY <1>1, <2>6, <3>1, <4>2, <4>3 DEF SpotOK
    <3>2. CASE o.op # "image"
      <4>1. Worked(o, r.id)'
        BY <1>3, <1>4, <2>6, <3>2 DEF Worked, Astray
      <4> QED BY <1>1, <1>3, <2>6, <3>2, <4>1, UpsertedSpot
    <3> QED BY <3>1, <3>2
  <2> QED BY <1>4, <2>4, <2>6, <2>7, QuietWithin
<1> QED BY <1>5, <1>6

LEMMA NewestKept == ASSUME CInv, NEW w \in Worker, Newest(w) PROVE CInv'
<1>0. PICK o : o = Cur(w)
  OBVIOUS
<1> DEFINE id == Len(rows[o.table])
           needs == o.table = "people" /\ o.op = "upsert"
<1>1. work[w].todo # <<>> /\ o = Head(work[w].todo) /\ work[w] \in WorkType /\ work[w].at = "newest"
  BY <1>0 DEF Newest, At, Cur, CInv, Typed
<1>2. o \in OpType /\ SpotOK(work[w]) /\ Fit(o, work[w].entry) /\ Upserts(o)
  BY <1>0, <1>1, NowIs DEF SpotOK
<1>3. o.table \in Table /\ rows[o.table] \in Seq(TermRow) /\ o.item \in Item
  BY <1>2 DEF Fit, CInv, Typed, DataTyped, OpType
<1>4. /\ UNCHANGED <<items, rows, links, images, nextImage, applied, latest>>
      /\ astray' = IF work[w].crossed THEN astray \cup {<<o.table, o.item>>} ELSE astray
  BY <1>0 DEF Newest, db
<1>5. DataTyped' /\ astray \subseteq astray' /\ (\A i \in Item : applied[i] \subseteq applied'[i])
      /\ UNCHANGED <<rows, links, images, nextImage>>
  BY <1>3, <1>4 DEF CInv, Typed, DataTyped
<1>6. CASE id = 0
  <2>1. work' = [work EXCEPT ![w] = Next1(w, FALSE, <<>>)]
    BY <1>0, <1>6 DEF Newest
  <2>2. o.op # "apply" /\ <<>> \in Seq(Ready(work[w].entry, applied'))
    BY <1>2 DEF Upserts
  <2> QED BY <1>1, <1>5, <2>1, <2>2, <1>0, QuietOnward
<1>7. CASE id # 0
  <2> DEFINE at == AfterUpsert(w, needs)
  <2>0. PICK r : r = [work[w] EXCEPT !.id = id, !.at = at, !.crossed = FALSE]
    OBVIOUS
  <2>1. work' = [work EXCEPT ![w] = r]
    BY <1>0, <1>7, <2>0 DEF Newest, CInv, Typed
  <2>2. at \in {"link", "enrich", "look"} /\ (at # "link" => o.table = "people")
    BY <1>0, AfterIs
  <2> HIDE DEF at
  <2>3. id \in Nat /\ id \in DOMAIN rows[o.table]
    BY <1>3, <1>7
  <2>4. r \in WorkType /\ r.todo = work[w].todo /\ r.entry = work[w].entry /\ r.at = at /\ r.id = id
    <3> HIDE DEF id
    <3> QED BY <1>1, <2>0, <2>2, <2>3 DEF WorkType, Spot
  <2>5. Worked(o, r.id)'
    <3>1. ~ work[w].crossed => Fits(o, rows[o.table][id])
      BY <1>1, <1>2 DEF SpotOK
    <3>2. work[w].crossed => <<o.table, o.item>> \in astray'
      BY <1>4
    <3>3. rows' = rows
      BY <1>4
    <3> HIDE DEF id
    <3> QED BY <2>3, <2>4, <3>1, <3>2, <3>3 DEF Worked, Astray
  <2>6. SpotOK(r)'
    BY <1>1, <1>2, <2>2, <2>4, <2>5, UpsertedSpot
  <2>7. Typed /\ WorkInv /\ DataInv
    BY DEF CInv
  <2>8. Grows /\ SameLength /\ DataInv'
    BY <1>5, <2>7, Quiet
  <2>9. Typed' /\ WorkInv'
    BY <1>5, <2>1, <2>4, <2>6, <2>7, <2>8, Within
  <2> QED BY <2>8, <2>9 DEF CInv
<1> QED BY <1>6, <1>7

-----------------------------------------------------------------------------
(***************************************************************************)
(* Steps that change a table.                                              *)
(***************************************************************************)

(* Rows that keep their TMDB id and name. *)
LEMMA RowsRewritten ==
  ASSUME Typed, DataInv, UNCHANGED <<links, images, nextImage, applied, astray>>, PeopleOK',
         \A t \in Table : /\ DOMAIN rows'[t] = DOMAIN rows[t] /\ rows'[t] \in Seq(TermRow)
                          /\ \A k \in DOMAIN rows[t] : rows'[t][k].tmdb = rows[t][k].tmdb /\ rows'[t][k].name = rows[t][k].name
  PROVE  Grows /\ SameLength /\ DataInv'
<1>1. Grows
  <2>1. nextImage <= nextImage'
    BY DEF Typed, DataTyped
  <2>2. \A m \in images' : \E n \in images : n.row = m.row /\ n.of = m.of /\ n.id = m.id /\ n.type = m.type
    OBVIOUS
  <2> QED BY <2>1, <2>2 DEF Grows
<1>2. SameLength
  <2> SUFFICES ASSUME NEW t \in Table PROVE Len(rows'[t]) = Len(rows[t])
    BY DEF SameLength
  <2>1. rows[t] \in Seq(TermRow) /\ rows'[t] \in Seq(TermRow) /\ DOMAIN rows'[t] = DOMAIN rows[t]
    BY DEF Typed, DataTyped
  <2> QED BY <2>1
<1>3. RowsOK'
  BY DEF DataInv, RowsOK, Named
<1>4. \A l \in links' : LinkOK(l)'
  <2> SUFFICES ASSUME NEW l \in links PROVE LinkOK(l)'
    OBVIOUS
  <2>1. LinkOK(l) /\ l \in LinkRow
    BY DEF DataInv, Typed, DataTyped
  <2> QED BY <1>1, <2>1, LinkKept
<1>5. ImagesOK'
  BY DEF DataInv, ImagesOK
<1>6. \A m \in images' : PortraitOK(m)'
  <2> SUFFICES ASSUME NEW m \in images PROVE PortraitOK(m)'
    OBVIOUS
  <2>1. PortraitOK(m)
    BY DEF DataInv
  <2> QED BY <1>1, <2>1, PortraitKept
<1> QED BY <1>1, <1>2, <1>3, <1>4, <1>5, <1>6 DEF DataInv

LEMMA RenameKept == ASSUME CInv, NEW w \in Worker, Rename(w) PROVE CInv'
<1>0. PICK o, id : o = Cur(w) /\ id = work[w].id
  OBVIOUS
<1>1. work[w].todo # <<>> /\ o = Head(work[w].todo) /\ work[w] \in WorkType /\ work[w].at = "rename"
  BY <1>0 DEF Rename, At, Cur, CInv, Typed
<1>2. o \in OpType /\ SpotOK(work[w]) /\ Fit(o, work[w].entry)
  BY <1>0, <1>1, NowIs
<1>3. Upserts(o) /\ o.tmdb # 0 /\ id \in DOMAIN rows[o.table] /\ Fits(o, rows[o.table][id])
  BY <1>0, <1>1, <1>2 DEF SpotOK
<1>4. o.table \in Table /\ Named(o) /\ o.name \in Text /\ rows \in [Table -> Seq(TermRow)]
  BY <1>2, <1>3 DEF Fit, CInv, Typed, DataTyped, OpType
<1>5. rows' = [rows EXCEPT ![o.table][id].name = o.name]
  BY <1>0 DEF Rename
<1> DEFINE row == [rows[o.table][id] EXCEPT !.name = o.name]
<1>6. row \in TermRow /\ row.tmdb = rows[o.table][id].tmdb /\ row.name = rows[o.table][id].name
      /\ row.bio = rows[o.table][id].bio
  <2>1. rows[o.table][id] \in TermRow /\ rows[o.table] \in Seq(TermRow)
    BY <1>3, <1>4
  <2>2. rows[o.table][id].tmdb = o.tmdb /\ Named(rows[o.table][id])
    BY <1>3, <1>4 DEF Fits, CInv, DataInv, RowsOK
  <2>3. rows[o.table][id].name = o.name
    BY <1>3, <1>4, <2>2 DEF Named
  <2> QED BY <1>4, <2>1, <2>3 DEF TermRow
<1> HIDE DEF row
<1>7. rows' = [rows EXCEPT ![o.table] = [rows[o.table] EXCEPT ![id] = row]]
  BY <1>3, <1>4, <1>5 DEF row
<1>8. \A t \in Table : /\ DOMAIN rows'[t] = DOMAIN rows[t] /\ rows'[t] \in Seq(TermRow)
                       /\ \A k \in DOMAIN rows[t] : /\ rows'[t][k].tmdb = rows[t][k].tmdb
                                                    /\ rows'[t][k].name = rows[t][k].name
                                                    /\ rows'[t][k].bio = rows[t][k].bio
  <2> SUFFICES ASSUME NEW t \in Table
               PROVE  /\ DOMAIN rows'[t] = DOMAIN rows[t] /\ rows'[t] \in Seq(TermRow)
                      /\ \A k \in DOMAIN rows[t] : /\ rows'[t][k].tmdb = rows[t][k].tmdb
                                                   /\ rows'[t][k].name = rows[t][k].name
                                                   /\ rows'[t][k].bio = rows[t][k].bio
    OBVIOUS
  <2>1. CASE t = o.table
    <3>1. rows'[t] = [rows[t] EXCEPT ![id] = row] /\ rows[t] \in Seq(TermRow) /\ id \in DOMAIN rows[t]
      BY <1>3, <1>4, <1>7, <2>1
    <3>2. rows'[t] \in Seq(TermRow)
      BY <1>6, <3>1, ExceptSeq
    <3> QED BY <1>6, <2>1, <3>1, <3>2
  <2>2. CASE t # o.table
    BY <1>4, <1>7, <2>2
  <2> QED BY <2>1, <2>2
<1>9. UNCHANGED <<items, links, images, nextImage, applied, latest, astray>>
  BY DEF Rename, history
<1>10. PeopleOK'
  <2>1. "people" \in Table
    BY DEF Table
  <2> QED BY <1>8, <1>9, <2>1 DEF CInv, DataInv, PeopleOK, PersonOK, Own
<1>11. Typed /\ WorkInv /\ DataInv
  BY DEF CInv
<1>12. Grows /\ SameLength /\ DataInv'
  BY <1>8, <1>9, <1>10, <1>11, RowsRewritten
<1>13. DataTyped'
  <2>1. rows' \in [Table -> Seq(TermRow)]
    BY <1>4, <1>7, <1>8
  <2> QED BY <1>9, <1>11, <2>1 DEF Typed, DataTyped
<1>14. PICK at, r : at = AfterUpsert(w, work[w].needs) /\ r = [work[w] EXCEPT !.at = at]
  OBVIOUS
<1>15. at \in {"link", "enrich", "look"} /\ (at # "link" => o.table = "people")
  BY <1>0, <1>14, AfterIs
<1>16. work' = [work EXCEPT ![w] = r]
  BY <1>11, <1>14 DEF Rename, Goto, Typed
<1>17. r \in WorkType /\ r.todo = work[w].todo /\ r.entry = work[w].entry /\ r.at = at /\ r.id = id
  <2>1. at \in Spot
    BY <1>15 DEF Spot
  <2> QED BY <1>0, <1>11, <1>14, <2>1, GotoFields
<1>18. Worked(o, r.id)'
  BY <1>3, <1>4, <1>8, <1>17 DEF Worked, Fits
<1>19. SpotOK(r)'
  BY <1>1, <1>3, <1>15, <1>17, <1>18, UpsertedSpot
<1>20. Typed' /\ WorkInv'
  BY <1>11, <1>12, <1>13, <1>16, <1>17, <1>19, Within
<1> QED BY <1>12, <1>20 DEF CInv

LEMMA EnrichKept == ASSUME CInv, NEW w \in Worker, Enrich(w) PROVE CInv'
<1>0. PICK o, id : o = Cur(w) /\ id = work[w].id
  OBVIOUS
<1>1. work[w].todo # <<>> /\ o = Head(work[w].todo) /\ work[w] \in WorkType /\ work[w].at = "enrich"
  BY <1>0 DEF Enrich, At, Cur, CInv, Typed
<1>2. o \in OpType /\ SpotOK(work[w]) /\ Fit(o, work[w].entry)
  BY <1>0, <1>1, NowIs
<1>3. Upserts(o) /\ o.table = "people" /\ Worked(o, id)
  BY <1>0, <1>1, <1>2 DEF SpotOK
<1>4. "people" \in Table /\ id \in DOMAIN rows["people"] /\ rows \in [Table -> Seq(TermRow)] /\ o.tmdb \in Nat /\ o.tmdb # 0
      /\ o.item \in Item
  BY <1>2, <1>3 DEF Fit, CInv, Typed, DataTyped, OpType, Worked, Table
<1>5. Own => rows["people"][id].tmdb = o.tmdb
  <2>1. Own => ~ Astray(o)
    BY <1>3 DEF Own, Astray
  <2> QED BY <1>3, <1>4, <2>1 DEF Worked, Fits
<1> DEFINE row == [rows["people"][id] EXCEPT !.bio = o.tmdb]
<1>6. row \in TermRow /\ row.tmdb = rows["people"][id].tmdb /\ row.name = rows["people"][id].name /\ row.bio = o.tmdb
  <2>1. rows["people"][id] \in TermRow
    BY <1>4
  <2> QED BY <1>4, <2>1 DEF TermRow
<1> HIDE DEF row
<1>7. rows' = [rows EXCEPT !["people"] = [rows["people"] EXCEPT ![id] = row]] \/ rows' = rows
  BY <1>0, <1>4 DEF Enrich, row
<1>8. \A t \in Table : /\ DOMAIN rows'[t] = DOMAIN rows[t] /\ rows'[t] \in Seq(TermRow)
                       /\ \A k \in DOMAIN rows[t] : /\ rows'[t][k].tmdb = rows[t][k].tmdb
                                                    /\ rows'[t][k].name = rows[t][k].name
                                                    /\ \/ rows'[t][k].bio = rows[t][k].bio
                                                       \/ t = "people" /\ k = id /\ rows'[t][k].bio = o.tmdb
  <2>1. CASE rows' = rows
    BY <1>4, <2>1
  <2>2. CASE rows' = [rows EXCEPT !["people"] = [rows["people"] EXCEPT ![id] = row]]
    <3> SUFFICES ASSUME NEW t \in Table
                 PROVE  /\ DOMAIN rows'[t] = DOMAIN rows[t] /\ rows'[t] \in Seq(TermRow)
                        /\ \A k \in DOMAIN rows[t] : /\ rows'[t][k].tmdb = rows[t][k].tmdb
                                                     /\ rows'[t][k].name = rows[t][k].name
                                                     /\ \/ rows'[t][k].bio = rows[t][k].bio
                                                        \/ t = "people" /\ k = id /\ rows'[t][k].bio = o.tmdb
      OBVIOUS
    <3>1. CASE t = "people"
      <4>1. rows'[t] = [rows[t] EXCEPT ![id] = row] /\ rows[t] \in Seq(TermRow) /\ id \in DOMAIN rows[t]
        BY <1>4, <2>2, <3>1
      <4>2. rows'[t] \in Seq(TermRow)
        BY <1>6, <4>1, ExceptSeq
      <4> QED BY <1>6, <3>1, <4>1, <4>2
    <3>2. CASE t # "people"
      BY <1>4, <2>2, <3>2
    <3> QED BY <3>1, <3>2
  <2> QED BY <1>7, <2>1, <2>2
<1>9. UNCHANGED <<items, links, images, nextImage, applied, latest, astray>>
  BY DEF Enrich, history
<1>10. PeopleOK'
  <2> SUFFICES ASSUME NEW k \in DOMAIN rows["people"], Own PROVE rows'["people"][k].bio \in {0, rows'["people"][k].tmdb}
    BY <1>4, <1>8, <1>9 DEF PeopleOK, PersonOK, Own
  <2>1. rows["people"][k].bio \in {0, rows["people"][k].tmdb}
    BY DEF CInv, DataInv, PeopleOK, PersonOK
  <2> QED BY <1>4, <1>5, <1>8, <2>1
<1>11. Typed /\ WorkInv /\ DataInv
  BY DEF CInv
<1>12. Grows /\ SameLength /\ DataInv'
  BY <1>8, <1>9, <1>10, <1>11, RowsRewritten
<1>13. DataTyped'
  <2>1. rows' \in [Table -> Seq(TermRow)]
    BY <1>4, <1>7, <1>8
  <2> QED BY <1>9, <1>11, <2>1 DEF Typed, DataTyped
<1>14. PICK at, r : at = AfterUpsert(w, FALSE) /\ r = [work[w] EXCEPT !.at = at]
  OBVIOUS
<1>15. at \in {"link", "enrich", "look"}
  BY <1>14, AfterIs
<1>16. work' = [work EXCEPT ![w] = r]
  BY <1>11, <1>14 DEF Enrich, Goto, Typed
<1>17. r \in WorkType /\ r.todo = work[w].todo /\ r.entry = work[w].entry /\ r.at = at /\ r.id = id
  <2>1. at \in Spot
    BY <1>15 DEF Spot
  <2> QED BY <1>0, <1>11, <1>14, <2>1, GotoFields
<1>18. Worked(o, r.id)'
  BY <1>3, <1>4, <1>8, <1>9, <1>17 DEF Worked, Fits, Astray
<1>19. SpotOK(r)'
  BY <1>1, <1>3, <1>15, <1>17, <1>18, UpsertedSpot
<1>20. Typed' /\ WorkInv'
  BY <1>11, <1>12, <1>13, <1>16, <1>17, <1>19, Within
<1> QED BY <1>12, <1>20 DEF CInv

LEMMA InsertKept == ASSUME CInv, NEW w \in Worker, Insert(w) PROVE CInv'
<1>0. PICK o, q : o = Cur(w) /\ q = [tmdb |-> o.tmdb, name |-> o.name, bio |-> 0]
  OBVIOUS
<1> DEFINE taken == o.tmdb # 0 /\ \E k \in DOMAIN rows[o.table] : rows[o.table][k].tmdb = o.tmdb
<1>1. work[w].todo # <<>> /\ o = Head(work[w].todo) /\ work[w] \in WorkType /\ work[w].at = "insert"
  BY <1>0 DEF Insert, At, Cur, CInv, Typed
<1>2. o \in OpType /\ SpotOK(work[w]) /\ Fit(o, work[w].entry)
  BY <1>0, <1>1, NowIs
<1>3. Upserts(o)
  BY <1>1, <1>2 DEF SpotOK
<1>4. o.table \in Table /\ Named(o) /\ rows \in [Table -> Seq(TermRow)] /\ q \in TermRow
      /\ q.tmdb = o.tmdb /\ q.name = o.name /\ q.bio = 0
  <2>1. o.table \in Table /\ Named(o) /\ o.name \in Text /\ o.tmdb \in Nat
    BY <1>2, <1>3 DEF Fit, OpType
  <2>2. q \in TermRow /\ q.tmdb = o.tmdb /\ q.name = o.name /\ q.bio = 0
    BY <1>0, <2>1 DEF TermRow
  <2> QED BY <2>1, <2>2 DEF CInv, Typed, DataTyped
<1>5. /\ rows' = IF taken THEN rows ELSE [rows EXCEPT ![o.table] = Append(@, q)]
      /\ work' = [v \in Worker |->
             IF v = w THEN [work[v] EXCEPT !.at = "newest", !.crossed = taken]
             ELSE IF At(v, "newest") /\ Cur(v).table = o.table /\ ~taken
             THEN [work[v] EXCEPT !.crossed = TRUE] ELSE work[v]]
      /\ UNCHANGED <<items, links, images, nextImage, tasks, applied, latest, astray>>
  BY <1>0 DEF Insert, history
<1>6. PICK r : r = [work[w] EXCEPT !.at = "newest", !.crossed = taken]
  OBVIOUS
<1>7. r \in WorkType /\ r.todo = work[w].todo /\ r.entry = work[w].entry /\ r.at = "newest" /\ r.crossed = taken
  <2>1. taken \in BOOLEAN
    OBVIOUS
  <2> HIDE DEF taken
  <2> QED BY <1>1, <1>6, <2>1 DEF WorkType, Spot
<1>8. Typed /\ WorkInv /\ DataInv
  BY DEF CInv
<1>9. CASE taken
  <2>1. SpotOK(r)'
    BY <1>1, <1>3, <1>7, <1>9 DEF SpotOK
  <2>2. work' = [work EXCEPT ![w] = r]
    <3> HIDE DEF taken
    <3> QED BY <1>5, <1>6, <1>8, <1>9 DEF Typed
  <2>3. UNCHANGED <<items, rows, links, images, nextImage, applied, latest, astray>>
    <3> HIDE DEF taken
    <3> QED BY <1>5, <1>9
  <2> QED BY <1>7, <2>1, <2>2, <2>3, QuietWithin
<1>10. CASE ~ taken
  <2> DEFINE s == rows[o.table]
             n == Len(rows[o.table])
  <2>1. \A k \in DOMAIN s : o.tmdb # 0 => s[k].tmdb # o.tmdb
    BY <1>10
  <2>2. /\ rows' = [rows EXCEPT ![o.table] = Append(s, q)]
        /\ work' = [v \in Worker |->
             IF v = w THEN r
             ELSE IF At(v, "newest") /\ Cur(v).table = o.table
             THEN [work[v] EXCEPT !.crossed = TRUE] ELSE work[v]]
    <3> HIDE DEF taken
    <3> QED BY <1>4, <1>5, <1>6, <1>10
  <2> HIDE DEF taken
  <2>3. s \in Seq(TermRow) /\ n \in Nat /\ DOMAIN s = 1 .. n
    BY <1>4
  <2>4. /\ rows'[o.table] \in Seq(TermRow) /\ Len(rows'[o.table]) = n + 1 /\ DOMAIN rows'[o.table] = 1 .. n + 1
        /\ (\A k \in 1 .. n : rows'[o.table][k] = rows[o.table][k]) /\ rows'[o.table][n + 1] = q
    <3>1. rows'[o.table] = Append(s, q)
      BY <1>4, <2>2
    <3> HIDE DEF n
    <3>2. /\ Append(s, q) \in Seq(TermRow) /\ Len(Append(s, q)) = n + 1
          /\ (\A k \in 1 .. n : Append(s, q)[k] = s[k]) /\ Append(s, q)[n + 1] = q
      BY <1>4, <2>3 DEF n
    <3>3. \A x \in Seq(TermRow) : DOMAIN x = 1 .. Len(x)
      OBVIOUS
    <3> DEFINE a == Append(s, q)
    <3>4. a \in Seq(TermRow) /\ Len(a) = n + 1 /\ (\A k \in 1 .. n : a[k] = s[k]) /\ a[n + 1] = q /\ rows'[o.table] = a
      BY <3>1, <3>2
    <3> HIDE DEF a
    <3>5. DOMAIN a = 1 .. n + 1
      BY <3>3, <3>4
    <3> QED BY <3>4, <3>5
  <2>5. \A t \in Table : t # o.table => rows'[t] = rows[t]
    BY <1>4, <2>2
  <2>6. rows' \in [Table -> Seq(TermRow)]
    BY <1>4, <2>2, <2>4
  <2> HIDE DEF s, n
  <2>7. Grows
    <3>1. \A t \in Table : \A k \in DOMAIN rows[t] : k \in DOMAIN rows'[t] /\ rows'[t][k] = rows[t][k]
      BY <2>3, <2>4, <2>5 DEF s
    <3>2. nextImage <= nextImage'
      <4>1. nextImage' = nextImage /\ nextImage \in Nat
        BY <1>5, <1>8 DEF Typed, DataTyped
      <4> QED BY <4>1
    <3>3. \A m \in images' : \E p \in images : p.row = m.row /\ p.of = m.of /\ p.id = m.id /\ p.type = m.type
      BY <1>5
    <3> QED BY <1>5, <3>1, <3>2, <3>3 DEF Grows
  <2>8. RowsOK'
    <3> SUFFICES ASSUME NEW t \in Table
                 PROVE  /\ \A k \in DOMAIN rows'[t] : Named(rows'[t][k])
                        /\ \A j, k \in DOMAIN rows'[t] : rows'[t][j].tmdb = rows'[t][k].tmdb /\ rows'[t][j].tmdb # 0 => j = k
      BY DEF RowsOK, Named
    <3>1. /\ \A k \in DOMAIN rows[t] : Named(rows[t][k])
          /\ \A j, k \in DOMAIN rows[t] : rows[t][j].tmdb = rows[t][k].tmdb /\ rows[t][j].tmdb # 0 => j = k
      BY <1>8 DEF DataInv, RowsOK
    <3>2. CASE t = o.table
      <4>1. Named(q)
        BY <1>4 DEF Named
      <4>2. \A k \in 1 .. n + 1 : (k \in 1 .. n /\ rows'[t][k] = rows[t][k]) \/ (k = n + 1 /\ rows'[t][k] = q)
        BY <2>3, <2>4, <3>2
      <4>3. \A k \in DOMAIN rows[t] : o.tmdb # 0 => rows[t][k].tmdb # o.tmdb
        BY <2>1, <3>2 DEF s
      <4>4. DOMAIN rows'[t] = 1 .. n + 1 /\ DOMAIN rows[t] = 1 .. n
        BY <2>3, <2>4, <3>2 DEF s
      <4> QED BY SMTT(30), <1>4, <3>1, <4>1, <4>2, <4>3, <4>4
    <3>3. CASE t # o.table
      BY <2>5, <3>1, <3>3
    <3> QED BY <3>2, <3>3
  <2>9. \A l \in links' : LinkOK(l)'
    <3> SUFFICES ASSUME NEW l \in links PROVE LinkOK(l)'
      BY <1>5
    <3>1. LinkOK(l) /\ l \in LinkRow
      BY <1>8 DEF DataInv, Typed, DataTyped
    <3> QED BY <1>8, <2>7, <3>1, LinkKept
  <2>10. ImagesOK'
    BY <1>5, <1>8 DEF DataInv, ImagesOK
  <2>11. PeopleOK'
    <3>1. "people" \in Table
      BY DEF Table
    <3>2. \A k \in DOMAIN rows'["people"] : \/ k \in DOMAIN rows["people"] /\ rows'["people"][k] = rows["people"][k]
                                            \/ rows'["people"][k].bio = 0
      <4>1. CASE o.table = "people"
        <5>1. DOMAIN rows'["people"] = 1 .. n + 1 /\ DOMAIN rows["people"] = 1 .. n
              /\ (\A k \in 1 .. n : rows'["people"][k] = rows["people"][k]) /\ rows'["people"][n + 1].bio = 0
          BY <1>4, <2>3, <2>4, <4>1 DEF s
        <5>2. \A k \in 1 .. n + 1 : k \in 1 .. n \/ k = n + 1
          BY <2>3
        <5> QED BY <5>1, <5>2
      <4>2. CASE o.table # "people"
        BY <2>5, <3>1, <4>2
      <4> QED BY <4>1, <4>2
    <3> QED BY <1>5, <1>8, <3>2 DEF DataInv, PeopleOK, PersonOK, Own
  <2>12. \A m \in images' : PortraitOK(m)'
    <3> SUFFICES ASSUME NEW m \in images PROVE PortraitOK(m)'
      BY <1>5
    <3>1. PortraitOK(m)
      BY <1>8 DEF DataInv
    <3> QED BY <1>8, <2>7, <3>1, PortraitKept
  <2>13. DataInv'
    BY <2>8, <2>9, <2>10, <2>11, <2>12 DEF DataInv
  <2>14. Typed'
    <3>1. ASSUME NEW v \in Worker PROVE [work[v] EXCEPT !.crossed = TRUE] \in WorkType /\ work[v] \in WorkType
      <4>1. work[v] \in WorkType
        BY <1>8 DEF Typed
      <4> QED BY <4>1 DEF WorkType
    <3>2. work' \in [Worker -> WorkType]
      BY <1>7, <2>2, <3>1
    <3> QED BY <1>5, <1>8, <2>6, <3>2 DEF Typed, DataTyped
  <2>15. applied' \in [Item -> SUBSET DOMAIN Tmdb]
    BY <2>14 DEF Typed, DataTyped
  <2>16. ASSUME NEW v \in Worker PROVE AgendaOK(work[v])' /\ SpotOK(work[v])'
    <3>0. AgendaOK(work[v]) /\ SpotOK(work[v])
      BY <1>8 DEF WorkInv
    <3>1. CASE v = w
      <4>1. work'[v] = r
        BY <2>2, <3>1
      <4>2. PICK z : z = work[w]
        OBVIOUS
      <4>3. z.todo \in Seq(OpType) /\ AgendaOK(z) /\ r.todo = z.todo /\ r.entry = z.entry
        BY <1>7, <1>8, <3>0, <3>1, <4>2 DEF Typed, WorkType
      <4>4. AgendaOK(r)'
        BY <1>8, <2>7, <2>15, <4>3, AgendaKept
      <4>5. Len(rows'[o.table]) # 0 /\ Fits(o, rows'[o.table][Len(rows'[o.table])])
        BY <1>4, <2>3, <2>4 DEF Fits
      <4>6. SpotOK(r)'
        BY <1>1, <1>3, <1>7, <4>5 DEF SpotOK
      <4> QED BY <4>1, <4>4, <4>6, Judged
    <3>2. CASE v # w /\ At(v, "newest") /\ Cur(v).table = o.table
      <4>1. PICK z, c : z = work[v] /\ c = [work[v] EXCEPT !.crossed = TRUE]
        OBVIOUS
      <4>2. work'[v] = c
        BY <2>2, <3>2, <4>1
      <4>3. z \in WorkType /\ z.todo # <<>> /\ z.at = "newest" /\ AgendaOK(z) /\ SpotOK(z)
        BY <1>8, <3>0, <3>2, <4>1 DEF At, Typed
      <4>4. c.todo = z.todo /\ c.entry = z.entry /\ c.at = z.at /\ c.crossed = TRUE /\ z.todo \in Seq(OpType)
        BY <4>1, <4>3 DEF WorkType
      <4>5. AgendaOK(c)'
        BY <1>8, <2>7, <2>15, <4>3, <4>4, AgendaKept
      <4>6. SpotOK(c)'
        BY <4>3, <4>4 DEF SpotOK
      <4> QED BY <4>2, <4>5, <4>6, Judged
    <3>3. CASE v # w /\ ~ (At(v, "newest") /\ Cur(v).table = o.table)
      <4>1. work'[v] = work[v]
        BY <2>2, <3>3
      <4>2. ASSUME work[v].at = "newest"
            PROVE Len(rows'[Head(work[v].todo).table]) = Len(rows[Head(work[v].todo).table])
        <5>1. work[v].todo # <<>> /\ Upserts(Cur(v))
          BY <3>0, <4>2 DEF SpotOK, Cur
        <5>2. Cur(v).table \in Table
          BY <1>8, <3>0, <5>1, Current DEF Fit
        <5>3. Cur(v).table # o.table
          BY <3>3, <4>2, <5>1 DEF At
        <5> QED BY <2>5, <5>2, <5>3 DEF Cur
      <4> QED BY <1>8, <2>7, <2>14, <3>0, <4>1, <4>2, OthersKept
    <3> QED BY <3>1, <3>2, <3>3
  <2> QED BY <2>13, <2>14, <2>16 DEF CInv, WorkInv
<1> QED BY <1>9, <1>10

(* A row that fits what is listed is listed. *)
LEMMA FitsListed ==
  ASSUME NEW o \in OpType, NEW e, NEW row, NEW D, Fit(o, e), Upserts(o), Fits(o, row), Named(row), By(e) \subseteq D,
         e = NoEntry \/ e \in DOMAIN Tmdb
  PROVE  Listed(o.table, o.item, row, D)
<1>1. Listed(o.table, o.item, o, By(e)) /\ o.table \in Table /\ Named(o) /\ (o.table = "people" => o.tmdb # 0)
  BY DEF Fit
<1>2. CASE o.tmdb # 0
  <2>1. row.tmdb = o.tmdb /\ row.name = o.name
    BY <1>1, <1>2 DEF Fits, Named
  <2> QED BY <1>1, <2>1, ListedGrows
<1>3. CASE o.tmdb = 0
  <2>1. ~ \E d \in By(e) : o.tmdb \in TmdbLists(d)[o.table]
    <3>1. \A d \in By(e) : TmdbLists(d)[o.table] \subseteq Known
      BY <1>1, ListedByTmdb DEF By
    <3> QED BY <1>3, <3>1, Shapes
  <2>2. o.table # "people" /\ row.name = o.name
    BY <1>1, <1>3 DEF Fits
  <2> QED BY <1>1, <2>1, <2>2 DEF Listed
<1> QED BY <1>2, <1>3

LEMMA LinksRewritten ==
  ASSUME Typed, DataInv, UNCHANGED <<rows, images, nextImage, applied, astray>>,
         \A l \in links' : l \in links \/ LinkOK(l)
  PROVE  Grows /\ SameLength /\ DataInv'
<1>1. Grows /\ SameLength
  <2>1. nextImage <= nextImage'
    BY DEF Typed, DataTyped
  <2>2. \A m \in images' : \E n \in images : n.row = m.row /\ n.of = m.of /\ n.id = m.id /\ n.type = m.type
    OBVIOUS
  <2> QED BY <2>1, <2>2 DEF Grows, SameLength
<1>2. RowsOK' /\ ImagesOK' /\ PeopleOK'
  BY DEF DataInv, RowsOK, ImagesOK, PeopleOK, PersonOK, Own
<1>3. \A l \in links' : LinkOK(l)'
  <2> SUFFICES ASSUME NEW l \in links' PROVE LinkOK(l)'
    OBVIOUS
  <2>1. LinkOK(l)
    BY DEF DataInv
  <2> QED BY <2>1 DEF LinkOK
<1>4. \A m \in images' : PortraitOK(m)'
  <2> SUFFICES ASSUME NEW m \in images PROVE PortraitOK(m)'
    OBVIOUS
  <2>1. PortraitOK(m)
    BY DEF DataInv
  <2> QED BY <1>1, <2>1, PortraitKept
<1> QED BY <1>1, <1>2, <1>3, <1>4 DEF DataInv

LEMMA LinkStepKept == ASSUME CInv, NEW w \in Worker, Link(w) PROVE CInv'
<1>0. PICK o, q : /\ o = Cur(w)
                  /\ q = [table |-> o.table, item |-> o.item, id |-> work[w].id, role |-> o.role, order |-> work[w].order]
  OBVIOUS
<1>1. work[w].todo # <<>> /\ o = Head(work[w].todo) /\ work[w] \in WorkType /\ work[w].at = "link"
  BY <1>0 DEF Link, At, Cur, CInv, Typed
<1>2. /\ o \in OpType /\ SpotOK(work[w]) /\ Fit(o, work[w].entry) /\ Upserts(o) /\ Worked(o, work[w].id)
      /\ By(work[w].entry) \subseteq applied[o.item] /\ (work[w].entry = NoEntry \/ work[w].entry \in DOMAIN Tmdb)
  <2>1. o \in OpType /\ SpotOK(work[w]) /\ Fit(o, work[w].entry)
        /\ (Upserts(o) => By(work[w].entry) \subseteq applied[o.item])
    BY <1>0, <1>1, NowIs
  <2>2. Upserts(o)
    BY <1>1, <2>1 DEF SpotOK
  <2>3. Worked(o, work[w].id)
    BY <1>1, <2>1, <2>2 DEF SpotOK
  <2> QED BY <1>1, <2>1, <2>2, <2>3 DEF WorkType
<1>3. Typed /\ WorkInv /\ DataInv
  BY DEF CInv
<1>4. q \in LinkRow /\ q.table = o.table /\ q.item = o.item /\ q.id = work[w].id
  <2>1. /\ o.table \in Table /\ o.item \in Item /\ work[w].id \in Nat /\ o.role \in Text /\ work[w].order \in Nat
    BY <1>1, <1>2 DEF Fit, OpType, WorkType
  <2> QED BY <1>0, <2>1 DEF LinkRow
<1>5. LinkOK(q)
  <2>1. q.id \in DOMAIN rows[q.table]
    BY <1>2, <1>4 DEF Worked
  <2>2. ASSUME <<q.table, q.item>> \notin astray PROVE Listed(q.table, q.item, rows[q.table][q.id], applied[q.item])
    <3>1. Fits(o, rows[o.table][q.id])
      BY <1>2, <1>4, <2>2 DEF Worked, Astray
    <3>2. Named(rows[o.table][q.id])
      BY <1>2, <1>3, <1>4, <2>1 DEF Fit, DataInv, RowsOK
    <3> QED BY <1>2, <1>4, <3>1, <3>2, FitsListed
  <2> QED BY <2>1, <2>2 DEF LinkOK
<1>6. /\ UNCHANGED <<items, rows, images, nextImage, applied, latest, astray>>
      /\ links' = links \/ links' = links \cup {q}
  BY <1>0 DEF Link, history
<1>7. Grows /\ SameLength /\ DataInv'
  BY <1>3, <1>5, <1>6, LinksRewritten
<1>8. DataTyped'
  BY <1>3, <1>4, <1>6 DEF Typed, DataTyped
<1>9. Typed' /\ WorkInv'
  <2>1. CASE o.op = "actor" /\ Face[o.tmdb] # NoText
    <3>1. PICK r : r = [work[w] EXCEPT !.at = "look"]
      OBVIOUS
    <3>2. work' = [work EXCEPT ![w] = r]
      BY <1>0, <1>3, <2>1, <3>1 DEF Link, Goto, Typed
    <3>3. r \in WorkType /\ r.todo = work[w].todo /\ r.entry = work[w].entry /\ r.at = "look" /\ r.id = work[w].id
      <4>1. "look" \in Spot
        BY DEF Spot
      <4> QED BY <1>3, <3>1, <4>1, GotoFields
    <3>4. Worked(o, r.id)'
      BY <1>2, <1>6, <3>3 DEF Worked, Astray
    <3>5. o.table = "people"
      BY <1>2, <2>1 DEF Fit
    <3>6. SpotOK(r)'
      BY <1>1, <1>2, <3>3, <3>4, <3>5, UpsertedSpot
    <3> QED BY <1>3, <1>7, <1>8, <3>2, <3>3, <3>6, Within
  <2>2. CASE ~ (o.op = "actor" /\ Face[o.tmdb] # NoText)
    <3>1. work' = [work EXCEPT ![w] = Next1(w, TRUE, <<>>)]
      BY <1>0, <2>2 DEF Link
    <3>2. \A i \in Item : Written(work[w], applied)[i] \subseteq applied'[i]
      <4>1. Cur(w).op # "apply"
        BY <1>0, <1>2 DEF Upserts
      <4>2. Written(work[w], applied) = applied'
        BY <1>6, <4>1, NotWritten
      <4> QED BY <4>2
    <3>3. <<>> \in Seq(Ready(work[w].entry, applied'))
      OBVIOUS
    <3> QED BY <1>1, <1>3, <1>7, <1>8, <3>1, <3>2, <3>3, Onward
  <2> QED BY <2>1, <2>2
<1> QED BY <1>7, <1>9 DEF CInv

LEMMA ImagesRewritten ==
  ASSUME Typed, DataInv, UNCHANGED <<rows, links, applied, astray>>, nextImage <= nextImage', ImagesOK',
         \A m \in images' : \/ m.row >= nextImage
                            \/ \E n \in images : n.row = m.row /\ n.of = m.of /\ n.id = m.id /\ n.type = m.type,
         \A m \in images' : PortraitOK(m)
  PROVE  Grows /\ SameLength /\ DataInv'
<1>1. Grows /\ SameLength
  BY DEF Grows, SameLength
<1>2. RowsOK' /\ PeopleOK'
  BY DEF DataInv, RowsOK, PeopleOK, PersonOK, Own
<1>3. \A l \in links' : LinkOK(l)'
  <2> SUFFICES ASSUME NEW l \in links PROVE LinkOK(l)'
    OBVIOUS
  <2>1. LinkOK(l)
    BY DEF DataInv
  <2> QED BY <2>1 DEF LinkOK
<1>4. \A m \in images' : PortraitOK(m)'
  <2> SUFFICES ASSUME NEW m \in images' PROVE PortraitOK(m)'
    OBVIOUS
  <2>1. PortraitOK(m)
    OBVIOUS
  <2> QED BY <2>1 DEF PortraitOK, Own
<1> QED BY <1>1, <1>2, <1>3, <1>4 DEF DataInv

(* Pictures that go leave the others as they are. *)
LEMMA ImagesDropped ==
  ASSUME Typed, DataInv, UNCHANGED <<rows, links, nextImage, applied, astray>>, images' \subseteq images
  PROVE  Grows /\ SameLength /\ DataInv'
<1>1. nextImage <= nextImage'
  BY DEF Typed, DataTyped
<1>2. ImagesOK' /\ \A m \in images' : PortraitOK(m)
  BY DEF DataInv, ImagesOK
<1>3. \A m \in images' : \E n \in images : n.row = m.row /\ n.of = m.of /\ n.id = m.id /\ n.type = m.type
  OBVIOUS
<1> QED BY <1>1, <1>2, <1>3, ImagesRewritten

(* A picture that comes. *)
LEMMA ImageAdded ==
  ASSUME Typed, DataInv, UNCHANGED <<rows, links, applied, astray>>, nextImage' = nextImage + 1,
         NEW q, q.row = nextImage, PortraitOK(q), images' \subseteq images \cup {q}
  PROVE  Grows /\ SameLength /\ DataInv'
<1>1. nextImage \in Nat /\ \A m \in images : m.row \in Nat /\ m.row < nextImage
  <2>1. \A m \in images : m \in ImageRow
    BY DEF Typed, DataTyped
  <2> QED BY <2>1 DEF Typed, DataTyped, DataInv, ImagesOK, ImageRow
<1>2. ImagesOK'
  BY <1>1 DEF DataInv, ImagesOK
<1>3. \A m \in images' : PortraitOK(m)
  BY DEF DataInv
<1>4. \A m \in images' : \/ m.row >= nextImage
                         \/ \E n \in images : n.row = m.row /\ n.of = m.of /\ n.id = m.id /\ n.type = m.type
  BY <1>1
<1>5. nextImage <= nextImage'
  BY <1>1
<1> QED BY <1>2, <1>3, <1>4, <1>5, ImagesRewritten

(* What a picture is set for: an item, or the person the operation is about. *)
LEMMA TargetIs ==
  ASSUME CInv, NEW w \in Worker, work[w].todo # <<>>, work[w].at \in {"look", "picture", "repicture"}
  PROVE  LET o == Cur(w)
             t == Target(w)
         IN /\ t.of \in {"item", "people"} /\ t.id \in Nat /\ t.type \in Text /\ t.url \in Text
            /\ o.op = "image" => t.of = "item" /\ t.id = o.item /\ t.type = o.type
            /\ o.op # "image" => Upserts(o) /\ o.table = "people" /\ Worked(o, work[w].id)
            /\ t.of = "people" => t.id \in DOMAIN rows["people"] /\ (Own => t.url = Face[rows["people"][t.id].tmdb])
<1>0. PICK o, t : o = Cur(w) /\ t = Target(w)
  OBVIOUS
<1>1. /\ o \in OpType /\ SpotOK(work[w]) /\ Fit(o, work[w].entry) /\ o = Head(work[w].todo)
      /\ work[w] \in WorkType
  BY <1>0, NowIs DEF CInv, Typed, Cur
<1>2. CASE o.op = "image"
  <2>1. t = [of |-> "item", id |-> o.item, type |-> o.type, url |-> o.url]
    BY <1>0, <1>2 DEF Target
  <2>2. o.item \in Nat /\ o.type \in Text /\ o.url \in Text
    BY <1>1, Shapes DEF OpType
  <2> QED BY <1>0, <1>2, <2>1, <2>2
<1>3. CASE o.op # "image"
  <2>1. Upserts(o) /\ o.table = "people" /\ Worked(o, work[w].id)
    BY <1>1, <1>3 DEF SpotOK
  <2>2. t = [of |-> "people", id |-> work[w].id, type |-> "primary", url |-> Face[o.tmdb]]
    BY <1>0, <1>3 DEF Target
  <2>3. o.tmdb \in Known /\ o.tmdb # 0
    BY <1>1, <2>1 DEF Fit, Named
  <2>4. work[w].id \in Nat /\ Face[o.tmdb] \in Text /\ "primary" \in Text
    BY <1>1, <2>3, Shapes DEF WorkType, Text
  <2>5. work[w].id \in DOMAIN rows["people"] /\ (Own => rows["people"][work[w].id].tmdb = o.tmdb)
    BY <2>1, <2>3 DEF Worked, Astray, Own, Fits
  <2> QED BY <1>0, <1>3, <2>1, <2>2, <2>4, <2>5
<1> QED BY <1>2, <1>3

LEMMA AfterPictureKept ==
  ASSUME CInv, NEW w \in Worker, work[w].todo # <<>>, work[w].at \in {"picture", "repicture"}, AfterPicture(w),
         Grows, SameLength, DataTyped', UNCHANGED <<rows, astray, applied>>
  PROVE  Typed' /\ WorkInv'
<1>0. PICK o : o = Cur(w)
  OBVIOUS
<1>1. Typed /\ WorkInv
  BY DEF CInv
<1>2. /\ o.op # "image" => Upserts(o) /\ o.table = "people" /\ Worked(o, work[w].id)
      /\ o = Head(work[w].todo)
  BY <1>0, TargetIs DEF Cur
<1>3. CASE o.op = "upsert"
  <2>1. PICK r : r = [work[w] EXCEPT !.at = "link"]
    OBVIOUS
  <2>2. work' = [work EXCEPT ![w] = r]
    BY <1>0, <1>1, <1>3, <2>1 DEF AfterPicture, Goto, Typed
  <2>3. r \in WorkType /\ r.todo = work[w].todo /\ r.entry = work[w].entry /\ r.at = "link" /\ r.id = work[w].id
    <3>1. "link" \in Spot
      BY DEF Spot
    <3> QED BY <1>1, <2>1, <3>1, GotoFields
  <2>4. Worked(o, r.id)'
    BY <1>2, <1>3, <2>3 DEF Worked, Astray
  <2>5. SpotOK(r)'
    BY <1>2, <1>3, <2>3, <2>4, UpsertedSpot
  <2> QED BY <1>1, <2>2, <2>3, <2>5, Within
<1>4. CASE o.op # "upsert"
  <2>1. work' = [work EXCEPT ![w] = Next1(w, Cur(w).op = "actor", <<>>)]
    BY <1>0, <1>4 DEF AfterPicture
  <2>2. \A i \in Item : Written(work[w], applied)[i] \subseteq applied'[i]
    <3>1. Cur(w).op # "apply"
      BY <1>0, <1>2 DEF Upserts
    <3>2. Written(work[w], applied) = applied'
      BY <3>1, NotWritten
    <3> QED BY <3>2
  <2>3. <<>> \in Seq(Ready(work[w].entry, applied'))
    OBVIOUS
  <2> QED BY <1>1, <2>1, <2>2, <2>3, Onward
<1> QED BY <1>3, <1>4

LEMMA RepictureKept == ASSUME CInv, NEW w \in Worker, Repicture(w) PROVE CInv'
<1>0. PICK o, t : o = Cur(w) /\ t = Target(w)
  OBVIOUS
<1> DEFINE hit == {m \in images : IF o.op = "image" THEN m.row = work[w].id ELSE m \in Pictures(t.of, t.id, t.type)}
           put(m) == [m EXCEPT !.url = t.url]
<1>1. work[w].todo # <<>> /\ work[w].at = "repicture" /\ o = Head(work[w].todo) /\ SpotOK(work[w])
  BY <1>0, NowIs DEF Repicture, At, Cur
<1>2. /\ t.url \in Text
      /\ o.op = "image" => t.of = "item"
      /\ o.op # "image" => Upserts(o)
      /\ t.of = "people" => t.id \in DOMAIN rows["people"] /\ (Own => t.url = Face[rows["people"][t.id].tmdb])
  BY <1>0, <1>1, TargetIs
<1>3. Typed /\ WorkInv /\ DataInv
  BY DEF CInv
<1>4. images' = (images \ hit) \cup {put(m) : m \in hit} /\ UNCHANGED <<items, rows, links, nextImage, applied, latest, astray>>
      /\ AfterPicture(w)
  BY <1>0 DEF Repicture, history
<1>5. ASSUME NEW m \in images
      PROVE /\ m \in ImageRow /\ put(m) \in ImageRow /\ put(m).url = t.url
            /\ put(m).row = m.row /\ put(m).of = m.of /\ put(m).id = m.id /\ put(m).type = m.type
  <2>1. m \in ImageRow
    BY <1>3 DEF Typed, DataTyped
  <2> QED BY <1>2, <2>1 DEF ImageRow
<1>6. ASSUME NEW m \in hit PROVE PortraitOK(put(m))
  <2>1. CASE o.op = "image"
    <3>1. m.of = "item"
      BY <1>1, <2>1 DEF SpotOK
    <3>2. put(m).of = "item"
      BY <1>5, <3>1
    <3> HIDE DEF put
    <3> QED BY <3>2 DEF PortraitOK
  <2>2. CASE o.op # "image"
    <3>1. m.of = t.of /\ m.id = t.id /\ m \in images
      BY <2>2 DEF Pictures
    <3>2. put(m).of = t.of /\ put(m).id = t.id /\ put(m).url = t.url
      BY <1>5, <3>1
    <3> HIDE DEF put
    <3> QED BY <1>2, <3>2 DEF PortraitOK
  <2> QED BY <2>1, <2>2
<1> HIDE DEF put
<1>7. \A n \in images' : \E m \in images : /\ n.row = m.row /\ n.of = m.of /\ n.id = m.id /\ n.type = m.type
                                           /\ (n = m /\ m \notin hit) \/ (n = put(m) /\ m \in hit)
  BY <1>4, <1>5
<1> HIDE DEF hit
<1>8. ImagesOK'
  <2>1. nextImage' = nextImage /\ (\A m \in images : m.row < nextImage) /\ \A m, n \in images : m.row = n.row => m = n
    BY <1>3, <1>4 DEF DataInv, ImagesOK
  <2>2. \A n \in images' : n.row < nextImage'
    BY <1>7, <2>1
  <2>3. ASSUME NEW m \in images', NEW n \in images', m.row = n.row PROVE m = n
    <3>1. PICK x \in images : m.row = x.row /\ ((m = x /\ x \notin hit) \/ (m = put(x) /\ x \in hit))
      BY <1>7
    <3>2. PICK y \in images : n.row = y.row /\ ((n = y /\ y \notin hit) \/ (n = put(y) /\ y \in hit))
      BY <1>7
    <3>3. x = y
      BY <2>1, <2>3, <3>1, <3>2
    <3> QED BY <3>1, <3>2, <3>3
  <2> QED BY <2>2, <2>3 DEF ImagesOK
<1>9. \A n \in images' : PortraitOK(n)
  BY <1>3, <1>6, <1>7 DEF DataInv
<1>10. nextImage <= nextImage'
  BY <1>3, <1>4 DEF Typed, DataTyped
<1>11. Grows /\ SameLength /\ DataInv'
  BY <1>3, <1>4, <1>7, <1>8, <1>9, <1>10, ImagesRewritten
<1>12. DataTyped'
  <2>1. images' \subseteq ImageRow
    BY <1>5, <1>7
  <2> QED BY <1>3, <1>4, <2>1 DEF Typed, DataTyped
<1>13. Typed' /\ WorkInv'
  BY <1>1, <1>4, <1>11, <1>12, AfterPictureKept
<1> QED BY <1>11, <1>13 DEF CInv

LEMMA NewPictureKept == ASSUME CInv, NEW w \in Worker, NewPicture(w) PROVE CInv'
<1>0. PICK t, q : t = Target(w) /\ q = [row |-> nextImage, of |-> t.of, id |-> t.id, type |-> t.type, url |-> t.url]
  OBVIOUS
<1>1. work[w].todo # <<>> /\ work[w].at = "picture" /\ AfterPicture(w)
  BY DEF NewPicture, At
<1>2. /\ t.of \in {"item", "people"} /\ t.id \in Nat /\ t.type \in Text /\ t.url \in Text
      /\ t.of = "people" => t.id \in DOMAIN rows["people"] /\ (Own => t.url = Face[rows["people"][t.id].tmdb])
  BY <1>0, <1>1, TargetIs
<1>3. Typed /\ WorkInv /\ DataInv
  BY DEF CInv
<1>4. /\ UNCHANGED <<items, rows, links, applied, latest, astray>>
      /\ UNCHANGED <<images, nextImage>> \/ (images' = images \cup {q} /\ nextImage' = nextImage + 1)
  BY <1>0 DEF NewPicture, NewImage, history
<1>5. q \in ImageRow /\ q.row = nextImage /\ PortraitOK(q)
  <2>1. q \in ImageRow
    BY <1>0, <1>2, <1>3 DEF ImageRow, Typed, DataTyped
  <2> QED BY <1>0, <1>2, <2>1 DEF PortraitOK
<1>6. Grows /\ SameLength /\ DataInv' /\ DataTyped'
  <2>1. CASE UNCHANGED <<images, nextImage>>
    <3>1. Grows /\ SameLength /\ DataInv'
      BY <1>3, <1>4, <2>1, Quiet
    <3> QED BY <1>3, <1>4, <2>1, <3>1 DEF Typed, DataTyped
  <2>2. CASE images' = images \cup {q} /\ nextImage' = nextImage + 1
    <3>1. Grows /\ SameLength /\ DataInv'
      BY <1>3, <1>4, <1>5, <2>2, ImageAdded
    <3> QED BY <1>3, <1>4, <1>5, <2>2, <3>1 DEF Typed, DataTyped
  <2> QED BY <1>4, <2>1, <2>2
<1>7. Typed' /\ WorkInv'
  BY <1>1, <1>4, <1>6, AfterPictureKept
<1> QED BY <1>6, <1>7 DEF CInv

(* A step of a worker that goes on to the next operation, once its tables are
   seen to be. *)
LEMMA OnwardKept ==
  ASSUME CInv, NEW w \in Worker, work[w].todo # <<>>, Cur(w).op # "apply", UNCHANGED applied,
         Grows, SameLength, DataInv', DataTyped', NEW more \in Seq(Ready(work[w].entry, applied)), NEW linked,
         work' = [work EXCEPT ![w] = Next1(w, linked, more)]
  PROVE  CInv'
<1>1. Typed /\ WorkInv
  BY DEF CInv
<1>2. \A i \in Item : Written(work[w], applied)[i] \subseteq applied'[i]
  BY NotWritten
<1>3. more \in Seq(Ready(work[w].entry, applied'))
  OBVIOUS
<1>4. Typed' /\ WorkInv'
  BY <1>1, <1>2, <1>3, Onward
<1> QED BY <1>4 DEF CInv

LEMMA AttachBackdropsKept == ASSUME CInv, NEW w \in Worker, AttachBackdrops(w) PROVE CInv'
<1>0. PICK i, e : i = Cur(w).item /\ e = work[w].entry
  OBVIOUS
<1>1. work[w].todo # <<>> /\ Cur(w).op = "backdrops"
  BY DEF AttachBackdrops, Now, Cur
<1>2. i \in Item /\ e \in DOMAIN Tmdb
  BY <1>0, <1>1, NowIs DEF Fit
<1>3. Typed /\ DataInv
  BY DEF CInv
<1> DEFINE more == Each(Chosen(Tmdb[e].pictures.backdrops), LAMBDA u : [Op("backdrop", i) EXCEPT !.url = u])
<1>4. more \in Seq(Ready(e, applied))
  BY <1>2, BackdropsReady
<1>5. work' = [work EXCEPT ![w] = Next1(w, FALSE, more)]
  BY <1>0 DEF AttachBackdrops, NewBackdrops
<1> HIDE DEF more
<1>6. /\ UNCHANGED <<items, rows, links, nextImage, applied, astray>> /\ images' \subseteq images
      /\ latest' = [latest EXCEPT ![<<i, "backdrop">>] = e]
  BY <1>0 DEF AttachBackdrops, DeleteBackdrops
<1>7. Grows /\ SameLength /\ DataInv'
  BY <1>3, <1>6, ImagesDropped
<1>8. DataTyped'
  BY <1>2, <1>3, <1>6 DEF Typed, DataTyped, Part
<1> QED BY <1>0, <1>1, <1>4, <1>5, <1>6, <1>7, <1>8, OnwardKept

LEMMA InsertBackdropKept == ASSUME CInv, NEW w \in Worker, InsertBackdrop(w) PROVE CInv'
<1>0. PICK o, q : /\ o = Cur(w)
                  /\ q = [row |-> nextImage, of |-> "item", id |-> o.item, type |-> "backdrop", url |-> o.url]
  OBVIOUS
<1>1. work[w].todo # <<>> /\ Cur(w).op = "backdrop"
  BY DEF InsertBackdrop, Now, Cur
<1>2. o.item \in Nat /\ o.url \in Text
  BY <1>0, <1>1, NowIs, Shapes DEF OpType
<1>3. Typed /\ DataInv
  BY DEF CInv
<1>4. work' = [work EXCEPT ![w] = Next1(w, FALSE, <<>>)] /\ <<>> \in Seq(Ready(work[w].entry, applied))
  BY DEF InsertBackdrop, Done
<1>5. /\ UNCHANGED <<items, rows, links, applied, latest, astray>>
      /\ images' = images \cup {q} /\ nextImage' = nextImage + 1
  BY <1>0 DEF InsertBackdrop, NewImage, history
<1>6. q \in ImageRow /\ q.row = nextImage /\ PortraitOK(q)
  <2>1. q \in ImageRow
    BY <1>0, <1>2, <1>3 DEF ImageRow, Typed, DataTyped, Text
  <2> QED BY <1>0, <2>1 DEF PortraitOK
<1>7. Grows /\ SameLength /\ DataInv'
  BY <1>3, <1>5, <1>6, ImageAdded
<1>8. DataTyped'
  BY <1>3, <1>5, <1>6 DEF Typed, DataTyped
<1> QED BY <1>1, <1>4, <1>5, <1>7, <1>8, OnwardKept

LEMMA CreditsKept == ASSUME CInv, NEW w \in Worker, AttachEpisodeCredits(w) PROVE CInv'
<1>0. PICK i, e : i = Cur(w).item /\ e = work[w].entry
  OBVIOUS
<1>1. work[w].todo # <<>> /\ Cur(w).op = "credits"
  BY DEF AttachEpisodeCredits, Now, Cur
<1>2. i \in Item /\ e \in DOMAIN Tmdb /\ e \in applied[i]
  BY <1>0, <1>1, NowIs, Shapes DEF Fit, By
<1>3. Typed /\ DataInv
  BY DEF CInv
<1>4. UNCHANGED <<items, rows, images, nextImage, applied, astray>>
  BY DEF AttachEpisodeCredits
<1> DEFINE cast == Tmdb[e].guests
           more == Each(cast, LAMBDA p : ByTmdb("people", i, p, "Actor"))
<1>5. more \in Seq(Ready(e, applied))
  BY <1>2, GuestsReady
<1>8. \/ cast = <<>> /\ Done(w) /\ UNCHANGED <<links, latest>>
      \/ /\ cast # <<>> /\ ClearItemPeople(i) /\ work' = [work EXCEPT ![w] = Next1(w, FALSE, more)]
         /\ latest' = [latest EXCEPT ![<<i, "cast">>] = e]
  <2>1. CASE Tmdb[work[w].entry].guests = <<>>
    <3>1. Done(w) /\ UNCHANGED <<links, latest>>
      BY <2>1 DEF AttachEpisodeCredits
    <3> QED BY <1>0, <2>1, <3>1
  <2>2. CASE Tmdb[work[w].entry].guests # <<>>
    <3>1. /\ ClearItemPeople(Cur(w).item)
          /\ work' = [work EXCEPT ![w] =
               Next1(w, FALSE, Each(Tmdb[work[w].entry].guests, LAMBDA p : ByTmdb("people", Cur(w).item, p, "Actor")))]
          /\ latest' = [latest EXCEPT ![<<Cur(w).item, "cast">>] = work[w].entry]
      BY <2>2 DEF AttachEpisodeCredits
    <3> QED BY <1>0, <2>2, <3>1
  <2> QED BY <2>1, <2>2
<1> HIDE DEF more, cast
<1>6. CASE cast = <<>>
  <2>1. work' = [work EXCEPT ![w] = Next1(w, FALSE, <<>>)] /\ <<>> \in Seq(Ready(work[w].entry, applied))
        /\ UNCHANGED <<links, latest>>
    <3>1. Done(w) /\ UNCHANGED <<links, latest>>
      BY <1>6, <1>8
    <3>2. <<>> \in Seq(Ready(work[w].entry, applied))
      OBVIOUS
    <3> QED BY <3>1, <3>2 DEF Done
  <2>2. Grows /\ SameLength /\ DataInv'
    BY <1>3, <1>4, <2>1, Quiet
  <2>3. DataTyped'
    BY <1>3, <1>4, <2>1 DEF Typed, DataTyped
  <2> QED BY <1>1, <1>4, <2>1, <2>2, <2>3, OnwardKept
<1>7. CASE cast # <<>>
  <2>1. /\ work' = [work EXCEPT ![w] = Next1(w, FALSE, more)]
        /\ links' \subseteq links /\ latest' = [latest EXCEPT ![<<i, "cast">>] = e]
    BY <1>7, <1>8 DEF ClearItemPeople
  <2>2. Grows /\ SameLength /\ DataInv'
    BY <1>3, <1>4, <2>1, LinksRewritten
  <2>3. DataTyped'
    BY <1>2, <1>3, <1>4, <2>1 DEF Typed, DataTyped, Part
  <2> QED BY <1>0, <1>1, <1>4, <1>5, <2>1, <2>2, <2>3, OnwardKept
<1> QED BY <1>6, <1>7

LEMMA UnlinkKept == ASSUME CInv, NEW w \in Worker, Unlink(w) PROVE CInv'
<1>1. work[w].todo # <<>> /\ Cur(w).op = "unlink"
  BY DEF Unlink, Now, Cur
<1>2. Typed /\ DataInv
  BY DEF CInv
<1>3. work' = [work EXCEPT ![w] = Next1(w, FALSE, <<>>)] /\ <<>> \in Seq(Ready(work[w].entry, applied))
  BY DEF Unlink, Done
<1>4. /\ UNCHANGED <<items, rows, images, nextImage, applied, astray>> /\ links' \subseteq links
      /\ latest' = [latest EXCEPT ![<<Cur(w).item, "cast">>] = NoEntry]
  BY DEF Unlink
<1>5. Grows /\ SameLength /\ DataInv'
  BY <1>2, <1>4, LinksRewritten
<1>6. DataTyped'
  BY <1>2, <1>4 DEF Typed, DataTyped
<1> QED BY <1>1, <1>3, <1>4, <1>5, <1>6, OnwardKept

LEMMA UnpictureKept == ASSUME CInv, NEW w \in Worker, Unpicture(w) PROVE CInv'
<1>1. work[w].todo # <<>> /\ Cur(w).op = "unpicture"
  BY DEF Unpicture, Now, Cur
<1>2. Typed /\ DataInv
  BY DEF CInv
<1>3. work' = [work EXCEPT ![w] = Next1(w, FALSE, <<>>)] /\ <<>> \in Seq(Ready(work[w].entry, applied))
  BY DEF Unpicture, Done
<1>4. /\ UNCHANGED <<items, rows, links, nextImage, applied, astray>> /\ images' \subseteq images
      /\ latest' = [latest EXCEPT ![<<Cur(w).item, "backdrop">>] = NoEntry]
  BY DEF Unpicture
<1>5. Grows /\ SameLength /\ DataInv'
  BY <1>2, <1>4, ImagesDropped
<1>6. DataTyped'
  BY <1>2, <1>4 DEF Typed, DataTyped
<1> QED BY <1>1, <1>3, <1>4, <1>5, <1>6, OnwardKept

LEMMA DeleteKept == ASSUME CInv, NEW w \in Worker, Delete(w) PROVE CInv'
<1>1. work[w].todo # <<>> /\ Cur(w).op = "delete"
  BY DEF Delete, Now, Cur
<1>2. Typed /\ DataInv
  BY DEF CInv
<1>3. work' = [work EXCEPT ![w] = Next1(w, FALSE, <<>>)] /\ <<>> \in Seq(Ready(work[w].entry, applied))
  BY DEF Delete, Done
<1>4. UNCHANGED <<rows, links, images, nextImage, applied, latest, astray>> /\ items' \subseteq items
  BY DEF Delete, history
<1>5. Grows /\ SameLength /\ DataInv'
  BY <1>2, <1>4, Quiet
<1>6. DataTyped'
  BY <1>2, <1>4 DEF Typed, DataTyped
<1> QED BY <1>1, <1>3, <1>4, <1>5, <1>6, OnwardKept

(* A statement that fails leaves the tables as they are. *)
LEMMA FailureQuiet ==
  ASSUME CInv, NEW w \in Worker, StatementFails(w)
  PROVE  /\ Typed /\ WorkInv /\ UNCHANGED <<items, rows, links, images, nextImage, applied, astray>>
         /\ Grows /\ SameLength /\ DataInv' /\ DataTyped'
<1>1. Typed /\ WorkInv /\ DataInv
  BY DEF CInv
<1>2. UNCHANGED <<items, rows, links, images, nextImage, applied, astray>>
  BY DEF StatementFails, db
<1>3. Grows /\ SameLength /\ DataInv'
  BY <1>1, <1>2, Quiet
<1>4. latest' = latest \/ \E p : latest' = [latest EXCEPT ![p] = NoEntry]
  <2>1. UpsertFails(w) \/ LinkFails(w) \/ PictureFails(w) \/ DeletionFails(w) \/ ApplyFails(w)
    BY DEF StatementFails
  <2> QED
    BY <2>1, Zenon DEF UpsertFails, LinkFails, PictureFails, DeletionFails, ApplyFails, Unlinked, Incomplete
<1>5. DataTyped'
  BY <1>1, <1>2, <1>4 DEF Typed, DataTyped
<1> QED BY <1>1, <1>2, <1>3, <1>5

(* After it the worker is elsewhere in the same operation ... *)
LEMMA FailureWithin ==
  ASSUME CInv, NEW w \in Worker, StatementFails(w), NEW r \in WorkType, r.todo = work[w].todo,
         r.entry = work[w].entry, SpotOK(r)', work' = [work EXCEPT ![w] = r]
  PROVE  CInv'
<1>1. Typed /\ WorkInv /\ DataTyped' /\ Grows /\ SameLength /\ DataInv'
  BY FailureQuiet
<1>2. Typed' /\ WorkInv'
  BY <1>1, Within
<1> QED BY <1>1, <1>2 DEF CInv

(* ... or at the next. *)
LEMMA FailureOnward ==
  ASSUME CInv, NEW w \in Worker, StatementFails(w), work[w].todo # <<>>, Cur(w).op # "apply",
         NEW more \in Seq(Ready(work[w].entry, applied)), NEW linked,
         work' = [work EXCEPT ![w] = Next1(w, linked, more)]
  PROVE  CInv'
<1>1. UNCHANGED applied /\ Grows /\ SameLength /\ DataInv' /\ DataTyped'
  BY FailureQuiet
<1> QED BY <1>1, OnwardKept

LEMMA UpsertFailsKept == ASSUME CInv, NEW w \in Worker, StatementFails(w), UpsertFails(w) PROVE CInv'
<1>0. PICK o : o = Cur(w)
  OBVIOUS
<1>1. work[w].todo # <<>> /\ o = Head(work[w].todo) /\ work[w] \in WorkType /\ Typed
  BY <1>0 DEF UpsertFails, At, Cur, CInv, Typed
<1>2. o \in OpType /\ SpotOK(work[w]) /\ Fit(o, work[w].entry)
  BY <1>0, <1>1, NowIs
<1>3. rows' = rows /\ astray' = astray
  BY FailureQuiet
<1>4. CASE Now(w, {"upsert", "actor"}) /\ work' = Goto(w, "insert")
  <2>1. PICK r : r = [work[w] EXCEPT !.at = "insert"]
    OBVIOUS
  <2>2. work' = [work EXCEPT ![w] = r]
    BY <1>1, <1>4, <2>1 DEF Goto, Typed
  <2>3. r \in WorkType /\ r.todo = work[w].todo /\ r.entry = work[w].entry /\ r.at = "insert"
    BY <1>1, <2>1, GotoFields DEF Spot
  <2>4. Upserts(o)
    BY <1>1, <1>4 DEF Now, Upserts
  <2>5. SpotOK(r)'
    BY <1>1, <2>3, <2>4 DEF SpotOK
  <2> QED BY <2>2, <2>3, <2>5, FailureWithin
<1>5. CASE work[w].at = "rename" /\ work' = Goto(w, AfterUpsert(w, work[w].needs))
  <2> DEFINE at == AfterUpsert(w, work[w].needs)
  <2>1. at \in {"link", "enrich", "look"} /\ (at # "link" => o.table = "people")
    BY <1>0, AfterIs
  <2>2. work' = Goto(w, at)
    BY <1>5
  <2> HIDE DEF at
  <2>3. PICK r : r = [work[w] EXCEPT !.at = at]
    OBVIOUS
  <2>4. work' = [work EXCEPT ![w] = r]
    BY <1>1, <2>2, <2>3 DEF Goto, Typed
  <2>5. r \in WorkType /\ r.todo = work[w].todo /\ r.entry = work[w].entry /\ r.at = at /\ r.id = work[w].id
    <3>1. at \in Spot
      BY <2>1 DEF Spot
    <3> QED BY <1>1, <2>3, <3>1, GotoFields
  <2>6. Upserts(o) /\ Worked(o, r.id)'
    BY <1>1, <1>2, <1>3, <1>5, <2>5 DEF SpotOK, Worked
  <2>7. SpotOK(r)'
    BY <1>1, <2>1, <2>5, <2>6, UpsertedSpot
  <2> QED BY <2>4, <2>5, <2>7, FailureWithin
<1>6. CASE work[w].at = "insert" /\ work' = [work EXCEPT ![w].at = "newest", ![w].crossed = TRUE]
  <2>1. PICK r : r = [work[w] EXCEPT !.at = "newest", !.crossed = TRUE]
    OBVIOUS
  <2>2. work' = [work EXCEPT ![w] = r]
    BY <1>1, <1>6, <2>1 DEF Typed
  <2>3. r \in WorkType /\ r.todo = work[w].todo /\ r.entry = work[w].entry /\ r.at = "newest" /\ r.crossed
    BY <1>1, <2>1 DEF WorkType, Spot
  <2>4. SpotOK(r)'
    BY <1>1, <1>2, <1>6, <2>3 DEF SpotOK
  <2> QED BY <2>2, <2>3, <2>4, FailureWithin
<1>7. CASE work[w].at = "newest" /\ Done(w)
  <2>1. Cur(w).op # "apply" /\ <<>> \in Seq(Ready(work[w].entry, applied))
    BY <1>0, <1>1, <1>2, <1>7 DEF SpotOK, Upserts
  <2> QED BY <1>1, <1>7, <2>1, FailureOnward DEF Done
<1> QED BY <1>4, <1>5, <1>6, <1>7, Zenon DEF UpsertFails, At

LEMMA LinkFailsKept == ASSUME CInv, NEW w \in Worker, StatementFails(w), LinkFails(w) PROVE CInv'
<1>0. PICK o : o = Cur(w)
  OBVIOUS
<1>1. work[w].todo # <<>> /\ o = Head(work[w].todo) /\ work[w].at = "link" /\ Typed
  BY <1>0 DEF LinkFails, At, Cur, CInv
<1>2. SpotOK(work[w]) /\ Fit(o, work[w].entry)
  BY <1>0, <1>1, NowIs
<1>3. Upserts(o) /\ Worked(o, work[w].id)
  BY <1>1, <1>2 DEF SpotOK
<1>4. rows' = rows /\ astray' = astray
  BY FailureQuiet
<1>5. CASE o.op = "actor" /\ Face[o.tmdb] # NoText
  <2>1. PICK r : r = [work[w] EXCEPT !.at = "look"]
    OBVIOUS
  <2>2. work' = [work EXCEPT ![w] = r]
    BY <1>0, <1>1, <1>5, <2>1 DEF LinkFails, Goto, Typed
  <2>3. r \in WorkType /\ r.todo = work[w].todo /\ r.entry = work[w].entry /\ r.at = "look" /\ r.id = work[w].id
    <3>1. "look" \in Spot
      BY DEF Spot
    <3> QED BY <1>1, <2>1, <3>1, GotoFields
  <2>4. Worked(o, r.id)' /\ o.table = "people"
    BY <1>2, <1>3, <1>4, <1>5, <2>3 DEF Worked, Astray, Fit
  <2>5. SpotOK(r)'
    BY <1>1, <1>3, <2>3, <2>4, UpsertedSpot
  <2> QED BY <2>2, <2>3, <2>5, FailureWithin
<1>6. CASE ~ (o.op = "actor" /\ Face[o.tmdb] # NoText)
  <2>1. work' = [work EXCEPT ![w] = Next1(w, TRUE, <<>>)]
    BY <1>0, <1>6 DEF LinkFails
  <2>2. Cur(w).op # "apply" /\ <<>> \in Seq(Ready(work[w].entry, applied))
    BY <1>0, <1>3 DEF Upserts
  <2> QED BY <1>1, <2>1, <2>2, FailureOnward
<1> QED BY <1>5, <1>6

LEMMA NewBackdropsReady ==
  ASSUME CInv, NEW w \in Worker, work[w].todo # <<>>, Cur(w).op = "backdrops"
  PROVE  NewBackdrops(w) \in Seq(Ready(work[w].entry, applied))
<1>0. PICK i, e : i = Cur(w).item /\ e = work[w].entry
  OBVIOUS
<1>1. i \in Item /\ e \in DOMAIN Tmdb
  BY <1>0, NowIs DEF Fit
<1>2. Each(Chosen(Tmdb[e].pictures.backdrops), LAMBDA u : [Op("backdrop", i) EXCEPT !.url = u]) \in Seq(Ready(e, applied))
  BY <1>1, BackdropsReady
<1> QED BY <1>0, <1>2 DEF NewBackdrops

LEMMA PictureFailsKept == ASSUME CInv, NEW w \in Worker, StatementFails(w), PictureFails(w) PROVE CInv'
<1>0. PICK o : o = Cur(w)
  OBVIOUS
<1>1. work[w].todo # <<>> /\ o = Head(work[w].todo) /\ Typed
  BY <1>0 DEF PictureFails, At, Now, Cur, CInv
<1>2. SpotOK(work[w])
  BY <1>1, NowIs
<1>3. rows' = rows /\ astray' = astray /\ applied' = applied
  BY FailureQuiet
<1>4. CASE (At(w, "look") \/ Now(w, {"image"})) /\ work' = Goto(w, "picture")
  <2>1. PICK r : r = [work[w] EXCEPT !.at = "picture"]
    OBVIOUS
  <2>2. work' = [work EXCEPT ![w] = r]
    BY <1>1, <1>4, <2>1 DEF Goto, Typed
  <2>3. r \in WorkType /\ r.todo = work[w].todo /\ r.entry = work[w].entry /\ r.at = "picture" /\ r.id = work[w].id
    BY <1>1, <2>1, GotoFields DEF Spot
  <2>4. CASE o.op = "image"
    <3>1. SpotOK(r)'
      BY <1>1, <2>3, <2>4 DEF SpotOK, Upserts
    <3> QED BY <2>2, <2>3, <3>1, FailureWithin
  <2>5. CASE o.op # "image"
    <3>1. work[w].at = "look"
      BY <1>1, <1>4, <2>5 DEF At, Now
    <3>2. Upserts(o) /\ o.table = "people" /\ Worked(o, work[w].id)
      BY <1>1, <1>2, <2>5, <3>1 DEF SpotOK
    <3>3. Worked(o, r.id)'
      BY <1>3, <2>3, <3>2 DEF Worked, Astray
    <3>4. SpotOK(r)'
      BY <1>1, <2>3, <3>2, <3>3, UpsertedSpot
    <3> QED BY <2>2, <2>3, <3>4, FailureWithin
  <2> QED BY <2>4, <2>5
<1>5. CASE work[w].at \in {"picture", "repicture"} /\ AfterPicture(w)
  <2>1. Grows /\ SameLength /\ DataInv' /\ DataTyped'
    BY FailureQuiet
  <2>2. Typed' /\ WorkInv'
    BY <1>1, <1>3, <1>5, <2>1, AfterPictureKept
  <2> QED BY <2>1, <2>2 DEF CInv
<1>6. CASE Now(w, {"backdrops"}) /\ work' = [work EXCEPT ![w] = Next1(w, FALSE, NewBackdrops(w))]
  <2>1. Cur(w).op = "backdrops"
    BY <1>6 DEF Now, Cur
  <2>2. NewBackdrops(w) \in Seq(Ready(work[w].entry, applied))
    BY <1>1, <2>1, NewBackdropsReady
  <2> QED BY <1>1, <1>6, <2>1, <2>2, FailureOnward
<1>7. CASE Now(w, {"backdrop"}) /\ Done(w)
  <2>1. Cur(w).op # "apply" /\ <<>> \in Seq(Ready(work[w].entry, applied))
    BY <1>7 DEF Now, Cur
  <2> QED BY <1>1, <1>7, <2>1, FailureOnward DEF Done
<1>8. \/ (At(w, "look") \/ Now(w, {"image"})) /\ work' = Goto(w, "picture")
      \/ work[w].at \in {"picture", "repicture"} /\ AfterPicture(w)
      \/ Now(w, {"backdrops"}) /\ work' = [work EXCEPT ![w] = Next1(w, FALSE, NewBackdrops(w))]
      \/ Now(w, {"backdrop"}) /\ Done(w)
  BY DEF PictureFails, At
<1> QED BY <1>4, <1>5, <1>6, <1>7, <1>8

LEMMA ApplyFailsKept == ASSUME CInv, NEW w \in Worker, StatementFails(w), ApplyFails(w) PROVE CInv'
<1>1. Typed /\ WorkInv /\ DataTyped' /\ Grows /\ SameLength /\ DataInv'
  BY FailureQuiet
<1>2. work'[w] = Idle /\ (\A v \in Worker \ {w} : work'[v] = work[v]) /\ work' \in [Worker -> WorkType]
  BY <1>1, IdleKept DEF ApplyFails, Typed
<1>3. Typed'
  BY <1>1, <1>2 DEF Typed
<1>4. AgendaOK(work[w])' /\ SpotOK(work[w])'
  <2>1. PICK r : r = Idle
    OBVIOUS
  <2>2. AgendaOK(Idle)' /\ SpotOK(Idle)'
    BY DEF AgendaOK, SpotOK, Idle
  <2>3. AgendaOK(r)' /\ SpotOK(r)'
    BY <2>1, <2>2
  <2> QED BY <1>2, <2>1, <2>3, Judged
<1>5. \A v \in Worker \ {w} : AgendaOK(work[v])' /\ SpotOK(work[v])'
  BY <1>1, <1>2, <1>3, OthersStay
<1> QED BY <1>1, <1>3, <1>4, <1>5 DEF CInv, WorkInv

LEMMA StatementFailsKept == ASSUME CInv, NEW w \in Worker, StatementFails(w) PROVE CInv'
<1>1. CASE DeletionFails(w)
  <2>1. work[w].todo # <<>> /\ Cur(w).op # "apply" /\ <<>> \in Seq(Ready(work[w].entry, applied))
        /\ work' = [work EXCEPT ![w] = Next1(w, FALSE, <<>>)]
    BY <1>1 DEF DeletionFails, Now, Cur, Done
  <2> QED BY <2>1, FailureOnward
<1> QED BY <1>1, UpsertFailsKept, LinkFailsKept, PictureFailsKept, ApplyFailsKept DEF StatementFails

LEMMA CInvInit == Init => CInv
<1> SUFFICES ASSUME Init PROVE CInv
  OBVIOUS
<1>1. DataTyped
  BY DEF Init, DataTyped
<1>2. Typed
  BY <1>1, IdleKept DEF Init, Typed
<1>3. WorkInv
  <2>1. \A v \in Worker : work[v] = Idle
    BY DEF Init
  <2>2. AgendaOK(Idle) /\ SpotOK(Idle)
    BY DEF AgendaOK, SpotOK, Idle
  <2> QED BY <2>1, <2>2 DEF WorkInv
<1>4. \A t \in Table : rows[t] = <<>>
  BY DEF Init
<1>5. "people" \in Table
  BY DEF Table
<1>6. DataInv
  BY <1>4, <1>5 DEF Init, DataInv, RowsOK, ImagesOK, PeopleOK
<1> QED BY <1>2, <1>3, <1>6 DEF CInv

LEMMA CInvKept == CInv /\ [Next]_vars => CInv'
<1> SUFFICES ASSUME CInv, [Next]_vars PROVE CInv'
  OBVIOUS
<1>1. CASE \E w \in Worker : Step(w)
  <2>1. PICK w \in Worker : Step(w)
    BY <1>1
  <2>2. CASE Apply(w)
    BY <2>2, ApplyKept
  <2>3. CASE Select(w)
    BY <2>3, SelectKept
  <2>4. CASE Rename(w)
    BY <2>4, RenameKept
  <2>5. CASE Insert(w)
    BY <2>5, InsertKept
  <2>6. CASE Newest(w)
    BY <2>6, NewestKept
  <2>7. CASE Enrich(w)
    BY <2>7, EnrichKept
  <2>8. CASE Link(w)
    BY <2>8, LinkStepKept
  <2>9. CASE Look(w)
    BY <2>9, LookKept
  <2>10. CASE Repicture(w)
    BY <2>10, RepictureKept
  <2>11. CASE NewPicture(w)
    BY <2>11, NewPictureKept
  <2>12. CASE GetImages(w)
    BY <2>12, GetImagesKept
  <2>13. CASE AttachBackdrops(w)
    BY <2>13, AttachBackdropsKept
  <2>14. CASE InsertBackdrop(w)
    BY <2>14, InsertBackdropKept
  <2>15. CASE UpdateSeason(w)
    BY <2>15, UpdateSeasonKept
  <2>16. CASE ScrapeEpisode(w)
    BY <2>16, ScrapeEpisodeKept
  <2>17. CASE AttachEpisodeCredits(w)
    BY <2>17, CreditsKept
  <2>18. CASE EpisodeFails(w)
    BY <2>18, EpisodeFailsKept
  <2>19. CASE Unlink(w)
    BY <2>19, UnlinkKept
  <2>20. CASE Unpicture(w)
    BY <2>20, UnpictureKept
  <2>21. CASE Delete(w)
    BY <2>21, DeleteKept
  <2>22. CASE StatementFails(w)
    BY <2>22, StatementFailsKept
  <2> QED
    BY <2>1, <2>2, <2>3, <2>4, <2>5, <2>6, <2>7, <2>8, <2>9, <2>10, <2>11, <2>12, <2>13, <2>14, <2>15, <2>16, <2>17,
       <2>18, <2>19, <2>20, <2>21, <2>22 DEF Step
<1>2. CASE Crash
  BY <1>2, CrashKept
<1>3. CASE vars' = vars
  <2>1. Typed /\ WorkInv /\ DataInv
    BY DEF CInv
  <2>2. UNCHANGED <<items, rows, links, images, nextImage, work, applied, latest, astray>>
    BY <1>3 DEF vars, db, history
  <2>3. DataInv' /\ Grows /\ SameLength
    BY <2>1, <2>2, Quiet
  <2>4. Typed'
    BY <2>1, <2>2 DEF Typed, DataTyped
  <2>5. \A v \in Worker : AgendaOK(work[v])' /\ SpotOK(work[v])'
    BY <2>1, <2>2, <2>3, <2>4, OthersStay
  <2> QED BY <2>3, <2>4, <2>5 DEF CInv, WorkInv
<1>4. CASE \/ \E m \in Matches, d \in BOOLEAN : ScrapeMovie(m[1], m[2], d) \/ ScrapeTv(m[1], m[2], d)
           \/ \E i \in DOMAIN Nfo : ReadNfo(i)
           \/ \E i \in Deletable : DeleteItem(i)
           \/ \E m \in Matches : Identify(m[1])
  BY <1>4, BeginsKept
<1> QED BY <1>1, <1>2, <1>3, <1>4 DEF Next

LEMMA Invariance == Spec => []CInv
  BY CInvInit, CInvKept, PTL DEF Spec

-----------------------------------------------------------------------------
(***************************************************************************)
(* What is replaced is replaced whole.  A replacement deletes what is      *)
(* there and leaves an operation for each element of a list; d of them are *)
(* done, and the others head the scraper's agenda.                         *)
(***************************************************************************)

IsBackdrop(o, i) == o.op = "backdrop" /\ o.item = i
IsCast(o, i) == o.op = "upsert" /\ o.table = "people" /\ o.item = i
Guest(o) == Row[o.item].type = "episode" /\ IsCast(o, o.item)
Late(o) == o.op \in {"image", "backdrops"} /\ o.type # "backdrop"

(* Only episodes have credits of their own, and only an NFO file has actors. *)
Ours(o) ==
  /\ o.op # "actor" /\ (o.op = "credits" => o.table # "people")
  /\ o.op \in {"episode", "credits"} => Row[o.item].type = "episode"

(* Guests head the agenda, all of one episode; pictures end it. *)
Ordered(todo) ==
  /\ \A k \in DOMAIN todo : Ours(todo[k])
  /\ \A k \in DOMAIN todo : \A j \in 1 .. k - 1 : Guest(todo[k]) => Guest(todo[j]) /\ todo[j].item = todo[k].item
  /\ \A j \in DOMAIN todo : todo[j].op \in {"pictures", "backdrops"} =>
       \A k \in DOMAIN todo : j < k => Late(todo[k])

PendingPics(todo, i, s, d) ==
  /\ \A k \in 1 .. Len(s) - d : k \in DOMAIN todo /\ IsBackdrop(todo[k], i) /\ todo[k].url = s[d + k]
  /\ \A k \in DOMAIN todo : IsBackdrop(todo[k], i) => k <= Len(s) - d
Shown(B, s, d) ==
  /\ IsFiniteSet({m.row : m \in B}) /\ Cardinality({m.row : m \in B}) = d
  /\ \A m \in B : m.url = s[Cardinality({r \in {n.row : n \in B} : r < m.row}) + 1]
PendingCast(todo, order, i, g, d) ==
  /\ \A k \in 1 .. Len(g) - d :
       k \in DOMAIN todo /\ IsCast(todo[k], i) /\ todo[k].tmdb = g[d + k] /\ todo[k].role = "Actor"
  /\ \A k \in DOMAIN todo : IsCast(todo[k], i) => k <= Len(g) - d
  /\ d < Len(g) => order = d

-----------------------------------------------------------------------------
(* An agenda without its head, after more. *)
LEMMA NextAgenda ==
  ASSUME NEW todo \in Seq(OpType), todo # <<>>, NEW more \in Seq(OpType), NEW next, next = more \o Tail(todo)
  PROVE  /\ next \in Seq(OpType) /\ 1 \in DOMAIN todo /\ Head(todo) = todo[1] /\ Len(more) \in Nat
         /\ Len(next) = Len(more) + Len(todo) - 1 /\ Len(todo) \in Nat
         /\ \A k \in DOMAIN next :
              \/ k \in DOMAIN more /\ next[k] = more[k]
              \/ k - Len(more) + 1 \in DOMAIN todo /\ k > Len(more) /\ next[k] = todo[k - Len(more) + 1]
<1>1. Tail(todo) \in Seq(OpType) /\ Len(Tail(todo)) = Len(todo) - 1 /\ Head(todo) = todo[1] /\ Len(todo) \in Nat \ {0}
      /\ \A k \in 1 .. Len(Tail(todo)) : Tail(todo)[k] = todo[k + 1]
  BY HeadTailProperties, EmptySeq, LenProperties
<1> DEFINE t == Tail(todo)
<1> HIDE DEF t
<1>2. t \in Seq(OpType) /\ Len(t) = Len(todo) - 1 /\ \A k \in 1 .. Len(t) : t[k] = todo[k + 1]
  BY <1>1 DEF t
<1>3. next = more \o t
  BY DEF t
<1>4. /\ next \in Seq(OpType) /\ Len(next) = Len(more) + Len(t) /\ Len(more) \in Nat
      /\ \A k \in 1 .. Len(more) + Len(t) : next[k] = IF k <= Len(more) THEN more[k] ELSE t[k - Len(more)]
  <2>1. /\ more \o t \in Seq(OpType) /\ Len(more \o t) = Len(more) + Len(t)
        /\ \A k \in 1 .. Len(more) + Len(t) : (more \o t)[k] = IF k <= Len(more) THEN more[k] ELSE t[k - Len(more)]
    BY ONLY <1>2, more \in Seq(OpType), ConcatProperties
  <2> QED BY <1>3, <2>1, LenProperties
<1>5. DOMAIN next = 1 .. Len(next) /\ DOMAIN more = 1 .. Len(more) /\ DOMAIN todo = 1 .. Len(todo)
  BY <1>4, LenProperties
<1>6. ASSUME NEW k \in DOMAIN next
      PROVE  \/ k \in DOMAIN more /\ next[k] = more[k]
             \/ k - Len(more) + 1 \in DOMAIN todo /\ k > Len(more) /\ next[k] = todo[k - Len(more) + 1]
  <2>1. k \in 1 .. Len(more) + Len(t)
    BY <1>4, <1>5
  <2>2. CASE k <= Len(more)
    BY <1>4, <1>5, <2>1, <2>2
  <2>3. CASE ~ (k <= Len(more))
    <3>1. k - Len(more) \in 1 .. Len(t) /\ k > Len(more)
      BY <1>1, <1>2, <1>4, <2>1, <2>3
    <3>2. next[k] = t[k - Len(more)]
      BY <1>4, <2>1, <2>3
    <3>3. t[k - Len(more)] = todo[k - Len(more) + 1]
      BY <1>2, <3>1
    <3> QED BY <1>1, <1>2, <1>4, <1>5, <3>1, <3>2, <3>3
  <2> QED BY <2>2, <2>3
<1> QED BY <1>1, <1>2, <1>4, <1>5, <1>6

(* What an operation leaves to be done keeps the order, if it leaves guests of
   one episode or none, and pictures only after pictures. *)
Leaves(head, more) ==
  /\ \A k \in DOMAIN more : Ours(more[k])
  /\ more # <<>> => ~ Guest(head)
  /\ \/ \A k \in DOMAIN more : ~ Guest(more[k])
     \/ \E i \in Item : \A k \in DOMAIN more : Guest(more[k]) /\ more[k].item = i
  /\ \/ \A k \in DOMAIN more : more[k].op \notin {"pictures", "backdrops"}
     \/ head.op \in {"pictures", "backdrops"} /\ \A k \in DOMAIN more : Late(more[k])

LEMMA OrderKept ==
  ASSUME NEW todo \in Seq(OpType), todo # <<>>, NEW more \in Seq(OpType), NEW next, next = more \o Tail(todo),
         Ordered(todo), Leaves(Head(todo), more)
  PROVE  Ordered(next)
<1> DEFINE n == Len(more)
<1>1. /\ next \in Seq(OpType) /\ 1 \in DOMAIN todo /\ Head(todo) = todo[1] /\ n \in Nat
      /\ \A k \in DOMAIN next : \/ k \in DOMAIN more /\ next[k] = more[k]
                                \/ k - n + 1 \in DOMAIN todo /\ k > n /\ next[k] = todo[k - n + 1]
  BY NextAgenda
<1>2. DOMAIN next = 1 .. Len(next) /\ Len(next) \in Nat /\ DOMAIN todo = 1 .. Len(todo) /\ Len(todo) \in Nat
      /\ DOMAIN more = 1 .. n
  BY <1>1, LenProperties
<1>3. \A k \in DOMAIN next : Ours(next[k])
  BY <1>1 DEF Ordered, Leaves
<1>4. ASSUME NEW k \in DOMAIN next, NEW j \in 1 .. k - 1, Guest(next[k])
      PROVE  Guest(next[j]) /\ next[j].item = next[k].item
  <2>0. j \in DOMAIN next /\ j < k /\ j \in Nat /\ k \in Nat
    BY <1>2
  <2>1. CASE k <= n
    <3>1. k \in DOMAIN more /\ j \in DOMAIN more /\ next[k] = more[k] /\ next[j] = more[j]
      BY <1>1, <1>2, <2>0, <2>1
    <3> QED BY <1>4, <3>1 DEF Leaves
  <2>2. CASE k > n
    <3>1. k - n + 1 \in DOMAIN todo /\ next[k] = todo[k - n + 1]
      BY <1>1, <1>2, <2>0, <2>2
    <3>2. 1 \in 1 .. (k - n + 1) - 1
      BY <1>1, <2>0, <2>2
    <3>3. Guest(todo[1])
      BY <1>4, <3>1, <3>2 DEF Ordered
    <3>4. more = <<>>
      BY <1>1, <3>3 DEF Leaves
    <3>5. n = 0
      BY <3>4
    <3>6. next[j] = todo[j + 1] /\ next[k] = todo[k + 1] /\ k + 1 \in DOMAIN todo /\ j + 1 \in 1 .. (k + 1) - 1
      BY <1>1, <1>2, <2>0, <3>5
    <3>7. Guest(todo[k + 1])
      BY <1>4, <3>6
    <3>8. Guest(todo[j + 1]) /\ todo[j + 1].item = todo[k + 1].item
      BY <3>6, <3>7 DEF Ordered
    <3> QED BY <3>6, <3>8, Zenon
  <2>3. k <= n \/ k > n
    BY <1>1, <2>0
  <2> QED BY <2>1, <2>2, <2>3, Zenon
<1>5. ASSUME NEW j \in DOMAIN next, next[j].op \in {"pictures", "backdrops"}, NEW k \in DOMAIN next, j < k
      PROVE  Late(next[k])
  <2>0. j \in Nat /\ k \in Nat
    BY <1>2
  <2>1. CASE j <= n
    <3>1. j \in DOMAIN more /\ next[j] = more[j]
      BY <1>1, <1>2, <2>0, <2>1
    <3>2. todo[1].op \in {"pictures", "backdrops"} /\ \A x \in DOMAIN more : Late(more[x])
      BY <1>1, <1>5, <3>1 DEF Leaves
    <3>3. CASE k \in DOMAIN more /\ next[k] = more[k]
      BY <3>2, <3>3
    <3>4. CASE k - n + 1 \in DOMAIN todo /\ k > n /\ next[k] = todo[k - n + 1]
      <4>1. 1 < k - n + 1
        BY <1>1, <2>0, <3>4
      <4> QED BY <1>1, <3>2, <3>4, <4>1 DEF Ordered
    <3> QED BY <1>1, <3>3, <3>4
  <2>2. CASE j > n
    <3>1. /\ j - n + 1 \in DOMAIN todo /\ next[j] = todo[j - n + 1]
          /\ k - n + 1 \in DOMAIN todo /\ next[k] = todo[k - n + 1]
      BY SMTT(30), <1>1, <1>2, <1>5, <2>0, <2>2
    <3>2. j - n + 1 < k - n + 1
      BY <1>1, <1>5, <2>0
    <3> QED BY <1>5, <3>1, <3>2 DEF Ordered
  <2> QED BY <1>1, <2>0, <2>1, <2>2
<1> QED BY <1>3, <1>4, <1>5 DEF Ordered

(* Backdrops: an agenda that begins with none of item i holds none of it. *)
LEMMA NoPicsPending ==
  ASSUME NEW todo, NEW i, NEW s \in Seq(STRING), NEW d \in 0 .. Len(s), PendingPics(todo, i, s, d),
         ~ (1 \in DOMAIN todo /\ IsBackdrop(todo[1], i))
  PROVE  d = Len(s) /\ \A k \in DOMAIN todo : k \in Nat \ {0} => ~ IsBackdrop(todo[k], i)
<1>0. Len(s) \in Nat /\ d \in Nat
  BY LenProperties
<1>1. d = Len(s)
  <2> SUFFICES ASSUME d # Len(s) PROVE FALSE
    OBVIOUS
  <2>1. 1 \in 1 .. Len(s) - d
    BY <1>0
  <2> QED BY <2>1 DEF PendingPics
<1> QED BY <1>0, <1>1 DEF PendingPics

LEMMA PicsPast ==
  ASSUME NEW todo \in Seq(OpType), NEW i, NEW s \in Seq(STRING), NEW d \in 0 .. Len(s), PendingPics(todo, i, s, d),
         ~ (1 \in DOMAIN todo /\ IsBackdrop(todo[1], i)),
         NEW next, \A k \in DOMAIN next : IsBackdrop(next[k], i) => \E j \in DOMAIN todo : next[k] = todo[j]
  PROVE  PendingPics(next, i, s, d)
<1>1. d = Len(s) /\ \A k \in DOMAIN todo : k \in Nat \ {0} => ~ IsBackdrop(todo[k], i)
  BY NoPicsPending
<1>2. \A k \in DOMAIN todo : k \in Nat \ {0}
  BY LenProperties
<1>3. \A k \in DOMAIN next : ~ IsBackdrop(next[k], i)
  BY <1>1, <1>2
<1>4. 1 .. Len(s) - d = {}
  BY <1>1, LenProperties
<1> QED BY <1>3, <1>4 DEF PendingPics

LEMMA PicDone ==
  ASSUME NEW todo \in Seq(OpType), todo # <<>>, NEW i, NEW s \in Seq(STRING), NEW d \in 0 .. Len(s),
         PendingPics(todo, i, s, d), IsBackdrop(todo[1], i), NEW next, next = <<>> \o Tail(todo)
  PROVE  d + 1 \in 0 .. Len(s) /\ todo[1].url = s[d + 1] /\ PendingPics(next, i, s, d + 1)
<1>0. Len(s) \in Nat /\ d \in Nat
  BY LenProperties
<1>1. /\ 1 \in DOMAIN todo /\ next \in Seq(OpType) /\ Len(next) = Len(todo) - 1 /\ Len(todo) \in Nat
      /\ \A k \in DOMAIN next : k + 1 \in DOMAIN todo /\ next[k] = todo[k + 1]
  <2>1. <<>> \in Seq(OpType) /\ Len(<<>>) = 0 /\ DOMAIN <<>> = {}
    OBVIOUS
  <2>2. /\ next \in Seq(OpType) /\ 1 \in DOMAIN todo /\ Len(next) = 0 + Len(todo) - 1 /\ Len(todo) \in Nat
        /\ \A k \in DOMAIN next : k - 0 + 1 \in DOMAIN todo /\ next[k] = todo[k - 0 + 1]
    BY <2>1, NextAgenda
  <2>3. \A k \in DOMAIN next : k \in Nat
    BY <2>2, LenProperties
  <2>4. \A k \in DOMAIN next : k - 0 + 1 = k + 1
    BY <2>3
  <2> QED BY <2>2, <2>4
<1>2. 1 <= Len(s) - d
  BY <1>1 DEF PendingPics
<1>3. DOMAIN next = 1 .. Len(next) /\ DOMAIN todo = 1 .. Len(todo)
  BY <1>1, LenProperties
<1>4. ASSUME NEW k \in 1 .. Len(s) - (d + 1)
      PROVE k \in DOMAIN next /\ IsBackdrop(next[k], i) /\ next[k].url = s[d + 1 + k]
  <2>1. k + 1 \in 1 .. Len(s) - d /\ d + (k + 1) = d + 1 + k
    BY <1>0, <1>2
  <2>2. k + 1 \in DOMAIN todo /\ IsBackdrop(todo[k + 1], i) /\ todo[k + 1].url = s[d + (k + 1)]
    BY <2>1 DEF PendingPics
  <2>3. k \in DOMAIN next
    BY <1>1, <1>3, <2>2
  <2> QED BY <1>1, <2>1, <2>2, <2>3
<1>5. ASSUME NEW k \in DOMAIN next, IsBackdrop(next[k], i) PROVE k <= Len(s) - (d + 1)
  <2>1. k + 1 <= Len(s) - d /\ k \in Nat
    BY <1>1, <1>3, <1>5 DEF PendingPics
  <2> QED BY <1>0, <2>1
<1>6. todo[1].url = s[d + 1] /\ d + 1 \in 0 .. Len(s)
  <2>1. 1 \in 1 .. Len(s) - d
    BY <1>0, <1>2
  <2> QED BY <1>0, <1>2, <2>1 DEF PendingPics
<1> QED BY <1>4, <1>5, <1>6 DEF PendingPics

(* The cast, likewise. *)
LEMMA NoCastPending ==
  ASSUME NEW todo, NEW order, NEW i, NEW g \in Seq(Known), NEW d \in 0 .. Len(g), PendingCast(todo, order, i, g, d),
         ~ (1 \in DOMAIN todo /\ IsCast(todo[1], i))
  PROVE  d = Len(g) /\ \A k \in DOMAIN todo : k \in Nat \ {0} => ~ IsCast(todo[k], i)
<1>0. Len(g) \in Nat /\ d \in Nat
  BY LenProperties
<1>1. d = Len(g)
  <2> SUFFICES ASSUME d # Len(g) PROVE FALSE
    OBVIOUS
  <2>1. 1 \in 1 .. Len(g) - d
    BY <1>0
  <2> QED BY <2>1 DEF PendingCast
<1> QED BY <1>0, <1>1 DEF PendingCast

LEMMA CastPast ==
  ASSUME NEW todo \in Seq(OpType), NEW order, NEW i, NEW g \in Seq(Known), NEW d \in 0 .. Len(g),
         PendingCast(todo, order, i, g, d), ~ (1 \in DOMAIN todo /\ IsCast(todo[1], i)), NEW after,
         NEW next, \A k \in DOMAIN next : IsCast(next[k], i) => \E j \in DOMAIN todo : next[k] = todo[j]
  PROVE  PendingCast(next, after, i, g, d)
<1>1. d = Len(g) /\ \A k \in DOMAIN todo : k \in Nat \ {0} => ~ IsCast(todo[k], i)
  BY NoCastPending
<1>2. \A k \in DOMAIN todo : k \in Nat \ {0}
  BY LenProperties
<1>3. \A k \in DOMAIN next : ~ IsCast(next[k], i)
  BY <1>1, <1>2
<1>4. 1 .. Len(g) - d = {} /\ ~ (d < Len(g))
  BY <1>1, LenProperties
<1> QED BY <1>3, <1>4 DEF PendingCast

LEMMA CastDone ==
  ASSUME NEW todo \in Seq(OpType), todo # <<>>, NEW order, NEW i, NEW g \in Seq(Known), NEW d \in 0 .. Len(g),
         PendingCast(todo, order, i, g, d), IsCast(todo[1], i), NEW next, next = <<>> \o Tail(todo), NEW after,
         next # <<>> /\ IsCast(next[1], i) => after = order + 1
  PROVE  /\ d + 1 \in 0 .. Len(g) /\ todo[1].tmdb = g[d + 1] /\ todo[1].role = "Actor" /\ order = d
         /\ PendingCast(next, after, i, g, d + 1)
<1>0. Len(g) \in Nat /\ d \in Nat
  BY LenProperties
<1>1. /\ 1 \in DOMAIN todo /\ next \in Seq(OpType) /\ Len(next) = Len(todo) - 1 /\ Len(todo) \in Nat
      /\ \A k \in DOMAIN next : k + 1 \in DOMAIN todo /\ next[k] = todo[k + 1]
  <2>1. <<>> \in Seq(OpType) /\ Len(<<>>) = 0 /\ DOMAIN <<>> = {}
    OBVIOUS
  <2>2. /\ next \in Seq(OpType) /\ 1 \in DOMAIN todo /\ Len(next) = 0 + Len(todo) - 1 /\ Len(todo) \in Nat
        /\ \A k \in DOMAIN next : k - 0 + 1 \in DOMAIN todo /\ next[k] = todo[k - 0 + 1]
    BY <2>1, NextAgenda
  <2>3. \A k \in DOMAIN next : k \in Nat
    BY <2>2, LenProperties
  <2>4. \A k \in DOMAIN next : k - 0 + 1 = k + 1
    BY <2>3
  <2> QED BY <2>2, <2>4
<1>2. 1 <= Len(g) - d
  BY <1>1 DEF PendingCast
<1>3. DOMAIN next = 1 .. Len(next) /\ DOMAIN todo = 1 .. Len(todo)
  BY <1>1, LenProperties
<1>4. ASSUME NEW k \in 1 .. Len(g) - (d + 1)
      PROVE k \in DOMAIN next /\ IsCast(next[k], i) /\ next[k].tmdb = g[d + 1 + k] /\ next[k].role = "Actor"
  <2>1. k + 1 \in 1 .. Len(g) - d /\ d + (k + 1) = d + 1 + k
    BY <1>0, <1>2
  <2>2. /\ k + 1 \in DOMAIN todo /\ IsCast(todo[k + 1], i) /\ todo[k + 1].tmdb = g[d + (k + 1)]
        /\ todo[k + 1].role = "Actor"
    BY <2>1 DEF PendingCast
  <2>3. k \in DOMAIN next
    BY <1>1, <1>3, <2>2
  <2> QED BY <1>1, <2>1, <2>2, <2>3
<1>5. ASSUME NEW k \in DOMAIN next, IsCast(next[k], i) PROVE k <= Len(g) - (d + 1)
  <2>1. k + 1 <= Len(g) - d /\ k \in Nat
    BY <1>1, <1>3, <1>5 DEF PendingCast
  <2> QED BY <1>0, <2>1
<1>6. todo[1].tmdb = g[d + 1] /\ todo[1].role = "Actor" /\ d + 1 \in 0 .. Len(g) /\ order = d
  <2>1. 1 \in 1 .. Len(g) - d /\ d < Len(g)
    BY <1>0, <1>2
  <2> QED BY <1>0, <1>2, <2>1 DEF PendingCast
<1>7. d + 1 < Len(g) => after = d + 1
  <2> SUFFICES ASSUME d + 1 < Len(g) PROVE after = d + 1
    OBVIOUS
  <2>1. 1 \in 1 .. Len(g) - (d + 1)
    BY <1>0
  <2>2. 1 \in DOMAIN next /\ IsCast(next[1], i)
    BY <1>4, <2>1
  <2>3. next # <<>>
    <3>1. 1 \notin DOMAIN <<>>
      OBVIOUS
    <3> QED BY <2>2, <3>1, Zenon
  <2> QED BY <1>6, <2>2, <2>3
<1> QED BY <1>4, <1>5, <1>6, <1>7 DEF PendingCast

-----------------------------------------------------------------------------
(* What the lists are at: the inductive invariant of LatestIsExact. *)

(* What the pages show of the list s or g: its first d elements; of an item with
   an NFO file, at least those. *)
Agenda == work["scraper"].todo
UrlsOf(e) == Chosen(Tmdb[e].pictures.backdrops)
PicsPart(todo, B, i, s) == \E d \in 0 .. Len(s) : PendingPics(todo, i, s, d) /\ Shown(B, s, d)
Linked(C, P, i, g, d) ==
  /\ \A k \in 1 .. d : \E l \in C : P[l.id].tmdb = g[k]
  /\ i \notin DOMAIN Nfo => \A l \in C :
       /\ l.role = "Actor" /\ l.order \in 0 .. d - 1 /\ P[l.id].tmdb = g[l.order + 1]
       /\ \A j \in 1 .. l.order : g[j] # g[l.order + 1]
CastPart(todo, order, C, P, i, g) ==
  \E d \in 0 .. Len(g) : PendingCast(todo, order, i, g, d) /\ Linked(C, P, i, g, d)

CastOf(i) == {l \in links : l.table = "people" /\ l.item = i}
PicsFrom(i) == latest[<<i, "backdrop">>]
CastFrom(i) == latest[<<i, "cast">>]
PicsOK(i) ==
  PicsFrom(i) # NoEntry /\ i \notin DOMAIN Nfo =>
    PicsPart(Agenda, Pictures("item", i, "backdrop"), i, UrlsOf(PicsFrom(i)))
CastOK(i) ==
  CastFrom(i) # NoEntry /\ <<"people", i>> \notin astray =>
    /\ Row[i].type = "episode"
    /\ CastPart(Agenda, work["scraper"].order, CastOf(i), rows["people"], i, Tmdb[CastFrom(i)].guests)

(* Only the scraper works from entries; the backdrop that a search gave comes to
   items whose backdrops are not known to be an entry's. *)
EntryOK == \A w \in Worker \ {"scraper"} : work[w].entry = NoEntry
Fallback ==
  \A k \in DOMAIN Agenda :
    Agenda[k].op = "image" /\ Agenda[k].type = "backdrop" /\ Agenda[k].item \notin DOMAIN Nfo =>
      PicsFrom(Agenda[k].item) = NoEntry
Lists == EntryOK /\ Ordered(Agenda) /\ Fallback
LInv == Lists /\ \A i \in Item : PicsOK(i) /\ CastOK(i)

-----------------------------------------------------------------------------
LEMMA EntryLists == ASSUME NEW e \in DOMAIN Tmdb
                    PROVE  UrlsOf(e) \in Seq(STRING \ {NoText}) /\ Tmdb[e].guests \in Seq(Known)
<1>1. Tmdb[e].pictures \in Pictured /\ Tmdb[e].guests \in Seq(Known)
  BY EntryShape
<1>2. Tmdb[e].pictures.backdrops \in Seq([url : STRING, vote : Int])
  BY <1>1 DEF Pictured
<1> QED BY <1>1, <1>2, ChosenUrls DEF UrlsOf

LEMMA ScraperIs == ASSUME Typed
                   PROVE  /\ "scraper" \in Worker /\ work["scraper"] \in WorkType /\ Agenda \in Seq(OpType)
                          /\ work["scraper"].order \in Nat
                          /\ \A k \in DOMAIN Agenda : Agenda[k] \in OpType /\ Agenda[k].item \in Item
<1>1. "scraper" \in Worker
  BY DEF Worker
<1>2. PICK todo : todo = Agenda
  OBVIOUS
<1>3. work["scraper"] \in WorkType /\ todo \in Seq(OpType) /\ work["scraper"].order \in Nat
  BY <1>1, <1>2 DEF Typed, WorkType, Agenda
<1>4. \A k \in DOMAIN todo : todo[k] \in OpType
  BY <1>3
<1>5. \A k \in DOMAIN todo : todo[k].item \in Item
  BY <1>4 DEF OpType
<1> QED BY <1>1, <1>2, <1>3, <1>4, <1>5

LEMMA Sources == ASSUME Typed, NEW i \in Item
                 PROVE  PicsFrom(i) \in DOMAIN Tmdb \cup {NoEntry} /\ CastFrom(i) \in DOMAIN Tmdb \cup {NoEntry}
  BY DEF Typed, DataTyped, Part, PicsFrom, CastFrom

(* An agenda that holds its part of a replacement: it is the same, or goes on to
   nothing new of the item. *)
PicsSame(todo, next, i) ==
  \/ next = todo
  \/ /\ ~ (1 \in DOMAIN todo /\ IsBackdrop(todo[1], i))
     /\ \A k \in DOMAIN next : IsBackdrop(next[k], i) => \E j \in DOMAIN todo : next[k] = todo[j]
CastSame(todo, order, next, after, i) ==
  \/ next = todo /\ after = order
  \/ /\ ~ (1 \in DOMAIN todo /\ IsCast(todo[1], i))
     /\ \A k \in DOMAIN next : IsCast(next[k], i) => \E j \in DOMAIN todo : next[k] = todo[j]
PicsHeld(i) == PicsSame(Agenda, Agenda', i)
CastHeld(i) == CastSame(Agenda, work["scraper"].order, Agenda', work'["scraper"].order, i)

LEMMA PicsPartKept ==
  ASSUME NEW todo \in Seq(OpType), NEW B, NEW i, NEW s \in Seq(STRING), PicsPart(todo, B, i, s),
         NEW next, PicsSame(todo, next, i)
  PROVE  PicsPart(next, B, i, s)
<1>1. PICK d \in 0 .. Len(s) : PendingPics(todo, i, s, d) /\ Shown(B, s, d)
  BY DEF PicsPart
<1>2. PendingPics(next, i, s, d)
  <2>1. CASE next = todo
    BY <1>1, <2>1
  <2>2. CASE next # todo
    BY <1>1, <2>2, PicsPast DEF PicsSame
  <2> QED BY <2>1, <2>2
<1> QED BY <1>1, <1>2 DEF PicsPart

LEMMA LinkedKept ==
  ASSUME NEW C, NEW D, NEW P, NEW Q, NEW i, NEW g, NEW d, Linked(C, P, i, g, d), C \subseteq D,
         i \notin DOMAIN Nfo => D = C, \A l \in C : Q[l.id].tmdb = P[l.id].tmdb
  PROVE  Linked(D, Q, i, g, d)
<1>1. \A k \in 1 .. d : \E l \in D : Q[l.id].tmdb = g[k]
  BY DEF Linked
<1>2. ASSUME i \notin DOMAIN Nfo, NEW l \in D
      PROVE  /\ l.role = "Actor" /\ l.order \in 0 .. d - 1 /\ Q[l.id].tmdb = g[l.order + 1]
             /\ \A j \in 1 .. l.order : g[j] # g[l.order + 1]
  BY <1>2 DEF Linked
<1> QED BY <1>1, <1>2 DEF Linked

LEMMA CastPartKept ==
  ASSUME NEW todo \in Seq(OpType), NEW order, NEW C, NEW P, NEW i, NEW g \in Seq(Known),
         CastPart(todo, order, C, P, i, g), NEW next, NEW after, CastSame(todo, order, next, after, i),
         NEW D, NEW Q, C \subseteq D, i \notin DOMAIN Nfo => D = C, \A l \in C : Q[l.id].tmdb = P[l.id].tmdb
  PROVE  CastPart(next, after, D, Q, i, g)
<1>1. PICK d \in 0 .. Len(g) : PendingCast(todo, order, i, g, d) /\ Linked(C, P, i, g, d)
  BY DEF CastPart
<1>2. PendingCast(next, after, i, g, d)
  <2>1. CASE next = todo /\ after = order
    BY <1>1, <2>1
  <2>2. CASE ~ (next = todo /\ after = order)
    BY <1>1, <2>2, CastPast DEF CastSame
  <2> QED BY <2>1, <2>2
<1>3. Linked(D, Q, i, g, d)
  BY <1>1, LinkedKept
<1> QED BY <1>2, <1>3 DEF CastPart

LEMMA PicsKept ==
  ASSUME Typed, NEW i \in Item, PicsOK(i),
         (i \notin DOMAIN Nfo /\ PicsFrom(i)' # NoEntry) =>
           /\ PicsFrom(i)' = PicsFrom(i) /\ PicsHeld(i)
           /\ Pictures("item", i, "backdrop")' = Pictures("item", i, "backdrop")
  PROVE  PicsOK(i)'
<1> SUFFICES ASSUME i \notin DOMAIN Nfo, PicsFrom(i)' # NoEntry
             PROVE  PicsPart(Agenda', Pictures("item", i, "backdrop")', i, UrlsOf(PicsFrom(i)'))
  BY DEF PicsOK, UrlsOf
<1>1. PICK todo, next, B, e : todo = Agenda /\ next = Agenda' /\ B = Pictures("item", i, "backdrop") /\ e = PicsFrom(i)
  OBVIOUS
<1>2. e \in DOMAIN Tmdb /\ todo \in Seq(OpType) /\ PicsPart(todo, B, i, UrlsOf(e)) /\ PicsSame(todo, next, i)
  BY <1>1, Sources, ScraperIs DEF PicsOK, PicsHeld
<1>3. UrlsOf(e) \in Seq(STRING)
  <2>1. UrlsOf(e) \in Seq(STRING \ {NoText})
    BY <1>2, EntryLists
  <2> QED BY <2>1, SeqMonotonic
<1>4. PicsPart(next, B, i, UrlsOf(e))
  BY <1>2, <1>3, PicsPartKept
<1> QED BY <1>1, <1>4

PeopleStay ==
  astray \subseteq astray' /\ \A k \in DOMAIN rows["people"] : rows'["people"][k].tmdb = rows["people"][k].tmdb

LEMMA CastKept ==
  ASSUME CInv, PeopleStay, NEW i \in Item, CastOK(i),
         (Row[i].type = "episode" /\ CastFrom(i)' # NoEntry /\ <<"people", i>> \notin astray') =>
           /\ CastFrom(i)' = CastFrom(i) /\ CastHeld(i)
           /\ CastOf(i) \subseteq CastOf(i)' /\ (i \notin DOMAIN Nfo => CastOf(i)' = CastOf(i)),
         CastFrom(i)' # NoEntry => CastFrom(i)' = CastFrom(i) \/ Row[i].type = "episode"
  PROVE  CastOK(i)'
<1> SUFFICES ASSUME CastFrom(i)' # NoEntry, <<"people", i>> \notin astray'
             PROVE  /\ Row[i].type = "episode"
                    /\ CastPart(Agenda', work'["scraper"].order, CastOf(i)', rows'["people"], i, Tmdb[CastFrom(i)'].guests)
  BY DEF CastOK
<1>0. <<"people", i>> \notin astray
  BY DEF PeopleStay
<1>1. Row[i].type = "episode" /\ CastFrom(i)' = CastFrom(i)
  BY <1>0 DEF CastOK
<1>2. PICK todo, next, C, D, P, Q, e, order, after :
        /\ todo = Agenda /\ next = Agenda' /\ C = CastOf(i) /\ D = CastOf(i)' /\ P = rows["people"] /\ Q = rows'["people"]
        /\ e = CastFrom(i) /\ order = work["scraper"].order /\ after = work'["scraper"].order
  OBVIOUS
<1>3. /\ e \in DOMAIN Tmdb /\ todo \in Seq(OpType) /\ CastPart(todo, order, C, P, i, Tmdb[e].guests)
      /\ CastSame(todo, order, next, after, i) /\ C \subseteq D /\ (i \notin DOMAIN Nfo => D = C)
  BY <1>0, <1>1, <1>2, Sources, ScraperIs DEF CastOK, CastHeld, CInv
<1>4. \A l \in C : Q[l.id].tmdb = P[l.id].tmdb
  <2> SUFFICES ASSUME NEW l \in C PROVE Q[l.id].tmdb = P[l.id].tmdb
    OBVIOUS
  <2>1. l \in links /\ l.table = "people"
    BY <1>2 DEF CastOf
  <2>2. l.id \in DOMAIN rows["people"]
    BY <2>1 DEF CInv, DataInv, LinkOK
  <2> QED BY <1>2, <2>2 DEF PeopleStay
<1>5. CastPart(next, after, D, Q, i, Tmdb[e].guests)
  BY <1>3, <1>4, EntryLists, CastPartKept
<1> QED BY <1>1, <1>2, <1>5

-----------------------------------------------------------------------------
(* Steps that replace nothing: what is pending stays so. *)

(* A step that replaces nothing. *)
LEMMA Still ==
  ASSUME CInv, LInv, PeopleStay, Lists',
         \A i \in Item : (i \notin DOMAIN Nfo /\ PicsFrom(i)' # NoEntry) =>
           /\ PicsFrom(i)' = PicsFrom(i) /\ PicsHeld(i)
           /\ Pictures("item", i, "backdrop")' = Pictures("item", i, "backdrop"),
         \A i \in Item : (Row[i].type = "episode" /\ CastFrom(i)' # NoEntry /\ <<"people", i>> \notin astray') =>
           CastHeld(i) /\ CastOf(i) \subseteq CastOf(i)' /\ (i \notin DOMAIN Nfo => CastOf(i)' = CastOf(i)),
         \A i \in Item : CastFrom(i)' \in {CastFrom(i), NoEntry}
  PROVE  LInv'
<1>1. ASSUME NEW i \in Item PROVE PicsOK(i)' /\ CastOK(i)'
  <2>1. PicsOK(i) /\ CastOK(i) /\ Typed
    BY DEF LInv, CInv
  <2>2. PicsOK(i)'
    BY <2>1, PicsKept
  <2>3. CastOK(i)'
    BY <2>1, CastKept
  <2> QED BY <2>2, <2>3
<1> QED BY <1>1 DEF LInv

LEMMA Stays ==
  ASSUME LInv, Agenda' = Agenda, work'["scraper"].order = work["scraper"].order, EntryOK', Typed,
         \A i \in Item : PicsFrom(i)' \in {PicsFrom(i), NoEntry}
  PROVE  Lists' /\ \A i \in Item : PicsHeld(i) /\ CastHeld(i)
<1>1. \A i \in Item : PicsHeld(i) /\ CastHeld(i)
  BY DEF PicsHeld, CastHeld, PicsSame, CastSame
<1>2. Ordered(Agenda)'
  BY DEF LInv, Lists, Ordered
<1>3. Fallback'
  <2>1. \A k \in DOMAIN Agenda : Agenda[k].item \in Item
    BY ScraperIs
  <2>2. Fallback
    BY DEF LInv, Lists
  <2> SUFFICES ASSUME NEW k \in DOMAIN Agenda', NEW o, o = Agenda'[k], o.op = "image", o.type = "backdrop",
                      o.item \notin DOMAIN Nfo
               PROVE  PicsFrom(o.item)' = NoEntry
    BY Zenon DEF Fallback, PicsFrom
  <2>3. k \in DOMAIN Agenda /\ Agenda[k] = o /\ o.item \in Item
    BY <2>1
  <2> QED BY <2>2, <2>3 DEF Fallback
<1> QED BY <1>1, <1>2, <1>3 DEF Lists

(* On with the same operation. *)
SameAgendas ==
  \A v \in Worker :
    work'[v].todo = work[v].todo /\ work'[v].order = work[v].order /\ work'[v].entry = work[v].entry

LEMMA StayStill ==
  ASSUME CInv, LInv, PeopleStay, SameAgendas, UNCHANGED latest,
         \A i \in Item : (i \notin DOMAIN Nfo /\ PicsFrom(i) # NoEntry) =>
           Pictures("item", i, "backdrop")' = Pictures("item", i, "backdrop"),
         \A i \in Item : CastOf(i) \subseteq CastOf(i)' /\ (i \notin DOMAIN Nfo => CastOf(i)' = CastOf(i))
  PROVE  LInv'
<1>1. Agenda' = Agenda /\ work'["scraper"].order = work["scraper"].order
  BY DEF Agenda, Worker, SameAgendas
<1>2. EntryOK'
  BY DEF LInv, Lists, EntryOK, SameAgendas
<1>3. \A i : PicsFrom(i)' = PicsFrom(i) /\ CastFrom(i)' = CastFrom(i)
  BY DEF PicsFrom, CastFrom
<1>4. Lists' /\ \A i \in Item : PicsHeld(i) /\ CastHeld(i)
  BY <1>1, <1>2, <1>3, Stays DEF CInv
<1> QED BY <1>3, <1>4, Still

LEMMA NextOrder ==
  ASSUME NEW w, NEW linked, NEW more, NEW next, next = more \o Tail(work[w].todo)
  PROVE  Next1(w, linked, more).order = IF next # <<>> /\ Head(next).table = Cur(w).table /\ Head(next).item = Cur(w).item
                                        THEN work[w].order + (IF linked THEN 1 ELSE 0) ELSE 0
<1> DEFINE order == IF next # <<>> /\ Head(next).table = Cur(w).table /\ Head(next).item = Cur(w).item
                    THEN work[w].order + (IF linked THEN 1 ELSE 0) ELSE 0
           entry == IF next = <<>> THEN NoEntry ELSE work[w].entry
<1>1. Next1(w, linked, more) = [Idle EXCEPT !.todo = next, !.entry = entry, !.order = order]
  BY DEF Next1
<1> HIDE DEF order, entry
<1>2. [Idle EXCEPT !.todo = next, !.entry = entry, !.order = order].order = order
  BY DEF Idle
<1> QED BY <1>1, <1>2 DEF order

LEMMA Moved ==
  ASSUME CInv, LInv, NEW w \in Worker, work[w].todo # <<>>, NEW more \in Seq(OpType), NEW linked,
         work' = [work EXCEPT ![w] = Next1(w, linked, more)], w = "scraper" => Leaves(Cur(w), more)
  PROVE  /\ EntryOK' /\ Ordered(Agenda)'
         /\ \A i : PicsHeld(i) \/ (w = "scraper" /\ (IsBackdrop(Cur(w), i) \/ \E k \in DOMAIN more : IsBackdrop(more[k], i)))
         /\ \A i : CastHeld(i) \/ (w = "scraper" /\ (IsCast(Cur(w), i) \/ \E k \in DOMAIN more : IsCast(more[k], i)))
         /\ \A k \in DOMAIN Agenda' : \/ \E j \in DOMAIN Agenda : Agenda'[k] = Agenda[j]
                                      \/ w = "scraper" /\ \E j \in DOMAIN more : Agenda'[k] = more[j]
         /\ w = "scraper" => Agenda' = more \o Tail(Agenda) /\ Cur(w) = Agenda[1] /\ Agenda # <<>> /\ 1 \in DOMAIN Agenda
<1>1. Typed /\ Ordered(Agenda) /\ EntryOK
  BY DEF CInv, LInv, Lists
<1>2. /\ work'[w] = Next1(w, linked, more) /\ \A v \in Worker \ {w} : work'[v] = work[v]
  BY <1>1 DEF Typed
<1>3. /\ Next1(w, linked, more).todo = more \o Tail(work[w].todo)
      /\ Next1(w, linked, more).entry \in {NoEntry, work[w].entry}
  BY <1>1, NextRecord
<1>4. EntryOK'
  BY <1>1, <1>2, <1>3 DEF EntryOK
<1>5. CASE w # "scraper"
  <2>1. Agenda' = Agenda /\ work'["scraper"].order = work["scraper"].order
    BY <1>2, <1>5 DEF Agenda, Worker
  <2> QED BY <1>1, <1>4, <1>5, <2>1 DEF PicsHeld, CastHeld, PicsSame, CastSame
<1>6. CASE w = "scraper"
  <2>1. PICK todo, next, head : todo = Agenda /\ next = Agenda' /\ head = Cur(w)
    OBVIOUS
  <2>2. todo \in Seq(OpType) /\ todo # <<>> /\ next = more \o Tail(todo) /\ head = Head(todo) /\ Leaves(Head(todo), more)
        /\ Ordered(todo)
    BY <1>1, <1>2, <1>3, <1>6, <2>1, ScraperIs DEF Agenda, Cur
  <2>3. Ordered(next)
    BY <2>2, OrderKept
  <2>4. /\ 1 \in DOMAIN todo /\ Head(todo) = todo[1]
        /\ \A k \in DOMAIN next : \/ k \in DOMAIN more /\ next[k] = more[k]
                                  \/ k - Len(more) + 1 \in DOMAIN todo /\ next[k] = todo[k - Len(more) + 1]
    BY <2>2, NextAgenda
  <2>5. \A k \in DOMAIN next : (\E j \in DOMAIN todo : next[k] = todo[j]) \/ \E j \in DOMAIN more : next[k] = more[j]
    BY <2>4
  <2>6. \A i : PicsSame(todo, next, i) \/ IsBackdrop(head, i) \/ \E k \in DOMAIN more : IsBackdrop(more[k], i)
    BY <2>2, <2>4, <2>5, Zenon DEF PicsSame
  <2>7. \A order, after, i : CastSame(todo, order, next, after, i) \/ IsCast(head, i)
                             \/ \E k \in DOMAIN more : IsCast(more[k], i)
    BY <2>2, <2>4, <2>5, Zenon DEF CastSame
  <2> QED BY <1>4, <1>6, <2>1, <2>2, <2>3, <2>4, <2>5, <2>6, <2>7, ZenonT(60) DEF PicsHeld, CastHeld
<1> QED BY <1>5, <1>6

LEMMA FallbackMoved ==
  ASSUME Typed, Fallback, NEW w, NEW more \in Seq(OpType),
         \A k \in DOMAIN Agenda' : \/ \E j \in DOMAIN Agenda : Agenda'[k] = Agenda[j]
                                   \/ w = "scraper" /\ \E j \in DOMAIN more : Agenda'[k] = more[j],
         \A i \in Item : PicsFrom(i)' \in {PicsFrom(i), NoEntry},
         \A k \in DOMAIN more : w = "scraper" /\ more[k].op = "image" /\ more[k].type = "backdrop" /\ more[k].item \notin DOMAIN Nfo =>
           PicsFrom(more[k].item)' = NoEntry
  PROVE  Fallback'
<1>1. \A k \in DOMAIN Agenda : Agenda[k].item \in Item
  BY ScraperIs
<1> SUFFICES ASSUME NEW k \in DOMAIN Agenda', NEW o, o = Agenda'[k], o.op = "image", o.type = "backdrop",
                    o.item \notin DOMAIN Nfo
             PROVE  PicsFrom(o.item)' = NoEntry
  BY Zenon DEF Fallback, PicsFrom
<1>2. CASE \E j \in DOMAIN Agenda : o = Agenda[j]
  <2>1. PICK j \in DOMAIN Agenda : o = Agenda[j]
    BY <1>2
  <2>2. o.item \in Item /\ PicsFrom(o.item) = NoEntry
    BY <1>1, <2>1 DEF Fallback
  <2> QED BY <2>2
<1>3. CASE w = "scraper" /\ \E j \in DOMAIN more : o = more[j]
  BY <1>3
<1> QED BY <1>2, <1>3

-----------------------------------------------------------------------------
(* On to the next operation. *)

LEMMA OnwardStill ==
  ASSUME CInv, LInv, PeopleStay, NEW w \in Worker, work[w].todo # <<>>, NEW more \in Seq(OpType), NEW linked,
         work' = [work EXCEPT ![w] = Next1(w, linked, more)],
         w = "scraper" => /\ Leaves(Cur(w), more) /\ Cur(w).op # "backdrop"
                          /\ \A k \in DOMAIN more : more[k].op \notin {"backdrop", "upsert"},
         \A k \in DOMAIN more : w = "scraper" /\ more[k].op = "image" /\ more[k].type = "backdrop"
                                /\ more[k].item \notin DOMAIN Nfo => PicsFrom(more[k].item)' = NoEntry,
         \A i \in Item : PicsFrom(i)' \in {PicsFrom(i), NoEntry} /\ CastFrom(i)' \in {CastFrom(i), NoEntry},
         \A i \in Item : (i \notin DOMAIN Nfo /\ PicsFrom(i)' # NoEntry) =>
           Pictures("item", i, "backdrop")' = Pictures("item", i, "backdrop"),
         \A i \in Item : (Row[i].type = "episode" /\ CastFrom(i)' # NoEntry /\ <<"people", i>> \notin astray') =>
           /\ w = "scraper" => ~ IsCast(Cur(w), i)
           /\ CastOf(i) \subseteq CastOf(i)' /\ (i \notin DOMAIN Nfo => CastOf(i)' = CastOf(i))
  PROVE  LInv'
<1>1. Typed /\ Fallback
  BY DEF CInv, LInv, Lists
<1>2. /\ EntryOK' /\ Ordered(Agenda)'
      /\ \A i : PicsHeld(i) \/ (w = "scraper" /\ (IsBackdrop(Cur(w), i) \/ \E k \in DOMAIN more : IsBackdrop(more[k], i)))
      /\ \A i : CastHeld(i) \/ (w = "scraper" /\ (IsCast(Cur(w), i) \/ \E k \in DOMAIN more : IsCast(more[k], i)))
      /\ \A k \in DOMAIN Agenda' : \/ \E j \in DOMAIN Agenda : Agenda'[k] = Agenda[j]
                                   \/ w = "scraper" /\ \E j \in DOMAIN more : Agenda'[k] = more[j]
  BY Moved
<1>3. Lists'
  BY <1>1, <1>2, FallbackMoved DEF Lists
<1>4. \A i : PicsHeld(i)
  BY <1>2 DEF IsBackdrop
<1>5. \A i : (w = "scraper" => ~ IsCast(Cur(w), i)) => CastHeld(i)
  BY <1>2 DEF IsCast
<1> QED BY <1>3, <1>4, <1>5, Still

LEMMA NothingLeft == ASSUME NEW head PROVE Leaves(head, <<>>) /\ <<>> \in Seq(OpType) /\ DOMAIN <<>> = {}
<1>1. DOMAIN <<>> = {} /\ <<>> \in Seq(OpType)
  OBVIOUS
<1> QED BY <1>1 DEF Leaves

LEMMA Untouched ==
  ASSUME UNCHANGED <<rows, links, images, latest>>, astray \subseteq astray'
  PROVE  PeopleStay /\ \A i : /\ PicsFrom(i)' = PicsFrom(i) /\ CastFrom(i)' = CastFrom(i) /\ CastOf(i)' = CastOf(i)
                              /\ Pictures("item", i, "backdrop")' = Pictures("item", i, "backdrop")
  BY DEF PeopleStay, PicsFrom, CastFrom, CastOf, Pictures

(* On to the next operation, and no table is touched. *)
LEMMA QuietStill ==
  ASSUME CInv, LInv, UNCHANGED <<rows, links, images, latest>>, astray \subseteq astray',
         NEW w \in Worker, work[w].todo # <<>>, NEW more \in Seq(OpType),
         work' = [work EXCEPT ![w] = Next1(w, FALSE, more)],
         Cur(w).op \notin {"backdrop", "upsert"} \/ (more = <<>> /\ <<Cur(w).table, Cur(w).item>> \in astray' /\ Upserts(Cur(w))),
         w = "scraper" => /\ Leaves(Cur(w), more)
                          /\ \A k \in DOMAIN more : more[k].op \notin {"backdrop", "upsert"}
                                                    /\ (more[k].op = "image" => more[k].type # "backdrop")
  PROVE  LInv'
<1>1. PeopleStay /\ \A i : /\ PicsFrom(i)' = PicsFrom(i) /\ CastFrom(i)' = CastFrom(i) /\ CastOf(i)' = CastOf(i)
                           /\ Pictures("item", i, "backdrop")' = Pictures("item", i, "backdrop")
  BY Untouched
<1>2. Cur(w).op # "backdrop"
  BY DEF Upserts
<1>3. \A i : <<"people", i>> \notin astray' => ~ IsCast(Cur(w), i)
  BY DEF IsCast
<1> QED BY <1>1, <1>2, <1>3, OnwardStill

LEMMA ApplyLists == ASSUME CInv, LInv, NEW w \in Worker, Apply(w) PROVE LInv'
<1>1. work[w].todo # <<>> /\ Cur(w).op = "apply" /\ UNCHANGED <<rows, links, images, latest>> /\ astray \subseteq astray'
      /\ work' = [work EXCEPT ![w] = Next1(w, FALSE, <<>>)]
  BY DEF Apply, Now, Cur, Done, db
<1> QED BY <1>1, NothingLeft, QuietStill

LEMMA EpisodeFailsLists == ASSUME CInv, LInv, NEW w \in Worker, EpisodeFails(w) PROVE LInv'
<1>1. work[w].todo # <<>> /\ Cur(w).op \in {"episode", "credits"} /\ UNCHANGED <<rows, links, images, latest>> /\ astray \subseteq astray'
      /\ work' = [work EXCEPT ![w] = Next1(w, FALSE, <<>>)]
  BY DEF EpisodeFails, Now, Cur, Done, db, history
<1> QED BY <1>1, NothingLeft, QuietStill

LEMMA DeleteLists == ASSUME CInv, LInv, NEW w \in Worker, Delete(w) PROVE LInv'
<1>1. work[w].todo # <<>> /\ Cur(w).op = "delete" /\ UNCHANGED <<rows, links, images, latest>> /\ astray \subseteq astray'
      /\ work' = [work EXCEPT ![w] = Next1(w, FALSE, <<>>)]
  BY DEF Delete, Now, Cur, Done, history
<1> QED BY <1>1, NothingLeft, QuietStill

(* Pictures left to be set. *)
Plain(s) == \A k \in DOMAIN s : s[k].op = "image" /\ s[k].type # "backdrop"

LEMMA PictureIs ==
  ASSUME NEW i \in Item, NEW type \in Text, NEW url \in Text
  PROVE  /\ Picture(i, type, url) \in Seq(OpType)
         /\ \A k \in DOMAIN Picture(i, type, url) :
              Picture(i, type, url)[k].op = "image" /\ Picture(i, type, url)[k].type = type /\ Picture(i, type, url)[k].item = i
<1> DEFINE o == [Op("image", i) EXCEPT !.type = type, !.url = url]
<1>1. o \in OpType /\ o.op = "image" /\ o.type = type /\ o.item = i
  BY DEF Op, OpType, OpName, Table, Text
<1>2. Picture(i, type, url) = IF url = NoText THEN <<>> ELSE <<o>>
  BY DEF Picture
<1> HIDE DEF o
<1>3. <<>> \in Seq(OpType) /\ DOMAIN <<>> = {} /\ <<o>> \in Seq(OpType) /\ DOMAIN <<o>> = {1} /\ <<o>>[1] = o
  BY <1>1
<1> QED BY <1>1, <1>2, <1>3

LEMMA PlainLeaves ==
  ASSUME NEW head, head.op # "upsert", NEW more \in Seq(OpType), Plain(more)
  PROVE  Leaves(head, more)
<1>1. ~ Guest(head) /\ \A k \in DOMAIN more : Ours(more[k]) /\ ~ Guest(more[k]) /\ more[k].op \notin {"pictures", "backdrops"}
  BY DEF Plain, Guest, IsCast, Ours
<1> QED BY <1>1 DEF Leaves

LEMMA UpdateSeasonLists == ASSUME CInv, LInv, NEW w \in Worker, UpdateSeason(w) PROVE LInv'
<1>0. PICK i, e : i = Cur(w).item /\ e = work[w].entry
  OBVIOUS
<1>1. work[w].todo # <<>> /\ Cur(w).op = "season" /\ UNCHANGED <<rows, links, images, latest>> /\ astray \subseteq astray'
      /\ work' = [work EXCEPT ![w] = Next1(w, FALSE, IF i \in items THEN Picture(i, "primary", Tmdb[e].poster) ELSE <<>>)]
  BY <1>0 DEF UpdateSeason, Now, Cur, db, history
<1>2. i \in Item /\ e \in DOMAIN Tmdb
  BY <1>0, <1>1, NowIs DEF Fit
<1>3. Tmdb[e].poster \in Text /\ "primary" \in Text
  BY <1>2, EntryShape DEF Text
<1>4. PICK more : more = IF i \in items THEN Picture(i, "primary", Tmdb[e].poster) ELSE <<>>
  OBVIOUS
<1>5. more \in Seq(OpType) /\ Plain(more)
  BY <1>2, <1>3, <1>4, PictureIs, NothingLeft DEF Plain
<1>6. Leaves(Cur(w), more)
  BY <1>1, <1>5, PlainLeaves
<1> QED BY <1>1, <1>4, <1>5, <1>6, QuietStill DEF Plain

-----------------------------------------------------------------------------
(* What the scraper leaves to be done, and what deletions clear. *)

LEMMA OnlyScraper ==
  ASSUME CInv, LInv, NEW w \in Worker, work[w].todo # <<>>
  PROVE  /\ Cur(w).op \in {"apply", "season", "episode", "credits", "pictures", "backdrops", "backdrop"} =>
              w = "scraper" /\ work[w].entry \in DOMAIN Tmdb
         /\ w = "scraper" => Ours(Cur(w))
         /\ w # "scraper" => (Cur(w).op = "image" => Cur(w).item \in DOMAIN Nfo)
                             /\ (Upserts(Cur(w)) => Cur(w).item \in DOMAIN Nfo)
<1>1. Fit(Cur(w), work[w].entry) /\ NoEntry \notin DOMAIN Tmdb
  BY NowIs, Shapes
<1>2. w # "scraper" => work[w].entry = NoEntry
  BY DEF LInv, Lists, EntryOK
<1>3. w = "scraper" => Ours(Cur(w))
  <2> SUFFICES ASSUME w = "scraper" PROVE Ours(Cur(w))
    OBVIOUS
  <2>1. PICK todo : todo = Agenda
    OBVIOUS
  <2>2. todo \in Seq(OpType) /\ todo # <<>> /\ Ordered(todo) /\ Cur(w) = Head(todo)
    BY <2>1, ScraperIs DEF CInv, LInv, Lists, Agenda, Cur
  <2>3. 1 \in DOMAIN todo /\ Head(todo) = todo[1]
    BY <2>2
  <2> QED BY <2>2, <2>3 DEF Ordered
<1>4. w # "scraper" /\ Upserts(Cur(w)) => Cur(w).item \in DOMAIN Nfo
  BY <1>1, <1>2 DEF Fit, Listed, By
<1> QED BY <1>1, <1>2, <1>3, <1>4 DEF Fit

LEMMA Elements == ASSUME NEW S, NEW s \in Seq(S) PROVE \A k \in DOMAIN s : s[k] \in S
  OBVIOUS

LEMMA ScrapeEpisodeLists == ASSUME CInv, LInv, NEW w \in Worker, ScrapeEpisode(w) PROVE LInv'
<1>0. PICK i, e : i = Cur(w).item /\ e = work[w].entry
  OBVIOUS
<1>1. work[w].todo # <<>> /\ Cur(w).op = "episode" /\ UNCHANGED <<rows, links, images, latest>> /\ astray \subseteq astray'
      /\ work' = [work EXCEPT ![w] = Next1(w, FALSE,
           IF i \in items THEN Picture(i, "primary", Tmdb[e].still) \o <<Op("credits", i)>> ELSE <<>>)]
  BY <1>0 DEF ScrapeEpisode, Now, Cur, db
<1>2. i \in Item /\ e \in DOMAIN Tmdb /\ w = "scraper" /\ Ours(Cur(w))
  BY <1>0, <1>1, NowIs, OnlyScraper
<1>3. Tmdb[e].still \in Text /\ "primary" \in Text
  BY <1>2, EntryShape DEF Text
<1> DEFINE S == {o \in OpType : /\ o.op \in {"image", "credits"} /\ (o.op = "image" => o.type # "backdrop")
                                /\ (o.op = "credits" => o.table # "people" /\ Row[o.item].type = "episode")}
           credits == Op("credits", i)
<1>4. credits \in S
  <2>1. credits \in OpType /\ credits.op = "credits" /\ credits.item = i
    BY <1>2, OpFields DEF OpName
  <2>2. credits.table = NoText
    BY DEF Op
  <2>3. NoText # "people"
    BY Zenon DEF NoText
  <2>4. Row[i].type = "episode"
    BY <1>0, <1>1, <1>2 DEF Ours
  <2> HIDE DEF credits
  <2> QED BY <2>1, <2>2, <2>3, <2>4
<1>5. Picture(i, "primary", Tmdb[e].still) \in Seq(S)
  <2>1. PICK s : s = Picture(i, "primary", Tmdb[e].still)
    OBVIOUS
  <2>2. s \in Seq(OpType) /\ \A k \in DOMAIN s : s[k].op = "image" /\ s[k].type = "primary"
    BY <1>2, <1>3, <2>1, PictureIs
  <2>3. \A k \in DOMAIN s : s[k] \in S
    BY <2>2, Elements
  <2>4. s \in Seq(S)
    <3>1. DOMAIN s = 1 .. Len(s) /\ Len(s) \in Nat /\ s = [k \in 1 .. Len(s) |-> s[k]]
      BY <2>2
    <3> HIDE DEF S
    <3> QED BY <2>3, <3>1
  <2> QED BY <2>1, <2>4
<1>6. PICK more : more = IF i \in items THEN Picture(i, "primary", Tmdb[e].still) \o <<credits>> ELSE <<>>
  OBVIOUS
<1> HIDE DEF S, credits
<1>7. more \in Seq(S)
  <2>1. <<credits>> \in Seq(S) /\ <<>> \in Seq(S)
    BY <1>4
  <2> QED BY <1>5, <1>6, <2>1, ConcatProperties
<1>8. \A k \in DOMAIN more : more[k] \in S
  BY <1>7, Elements
<1>9. more \in Seq(OpType)
  <2>1. S \subseteq OpType
    BY DEF S
  <2> QED BY <1>7, <2>1, SeqMonotonic
<1>10. \A k \in DOMAIN more : more[k].op \in {"image", "credits"} /\ (more[k].op = "image" => more[k].type # "backdrop") /\ Ours(more[k])
  BY <1>8 DEF S, Ours
<1>11. Leaves(Cur(w), more)
  BY <1>1, <1>10 DEF Leaves, Guest, IsCast
<1>12. work' = [work EXCEPT ![w] = Next1(w, FALSE, more)]
  BY <1>1, <1>6 DEF credits
<1> QED BY <1>1, <1>9, <1>10, <1>11, <1>12, QuietStill

LEMMA GetImagesLists == ASSUME CInv, LInv, NEW w \in Worker, GetImages(w) PROVE LInv'
<1>0. PICK i, p : i = Cur(w).item /\ p = Tmdb[work[w].entry].pictures
  OBVIOUS
<1> DEFINE more(ok) == Picture(i, "primary", p.poster)
                     \o (IF ok THEN <<Op("backdrops", i)>> ELSE Picture(i, "backdrop", p.backdrop))
                     \o Picture(i, "thumb", p.backdrop)
                     \o (IF ok THEN Picture(i, "logo", p.logo) ELSE <<>>)
<1>1. work[w].todo # <<>> /\ Cur(w).op = "pictures" /\ UNCHANGED <<rows, links, images, astray>>
  BY DEF GetImages, Now, Cur, db
<1>2. i \in Item /\ work[w].entry \in DOMAIN Tmdb /\ w = "scraper"
  BY <1>0, <1>1, NowIs, OnlyScraper
<1>3. p.poster \in Text /\ p.backdrop \in Text /\ p.logo \in Text
  <2>1. p \in Pictured
    BY <1>0, <1>2, EntryShape
  <2>2. p.poster \in STRING /\ p.backdrop \in STRING /\ p.logo \in STRING
    BY <2>1 DEF Pictured
  <2> QED BY <2>2 DEF Text
<1>4. PICK ok \in BOOLEAN :
        /\ work' = [work EXCEPT ![w] = Next1(w, FALSE, more(ok))]
        /\ latest' = IF ok THEN latest ELSE [latest EXCEPT ![<<i, "backdrop">>] = NoEntry]
  BY <1>0 DEF GetImages
<1> DEFINE S == {o \in OpType : o.item = i /\ (IF ok THEN Late(o) ELSE o.op = "image")}
<1>5. more(ok) \in Seq(S)
  <2>1. ASSUME NEW type \in {"primary", "backdrop", "thumb", "logo"}, ok => type # "backdrop", NEW url \in Text
        PROVE Picture(i, type, url) \in Seq(S)
    <3>1. type \in Text
      BY DEF Text
    <3>2. PICK s : s = Picture(i, type, url)
      OBVIOUS
    <3>3. s \in Seq(OpType) /\ \A k \in DOMAIN s : s[k].op = "image" /\ s[k].type = type /\ s[k].item = i
      BY <1>2, <3>1, <3>2, PictureIs
    <3>4. \A k \in DOMAIN s : s[k] \in S
      BY <2>1, <3>3, Elements DEF Late
    <3>5. s \in Seq(S)
      <4>1. DOMAIN s = 1 .. Len(s) /\ Len(s) \in Nat /\ s = [k \in 1 .. Len(s) |-> s[k]]
        BY <3>3
      <4> HIDE DEF S
      <4> QED BY <3>4, <4>1
    <3> QED BY <3>2, <3>5
  <2>2. ok => Op("backdrops", i) \in S
    <3>1. Op("backdrops", i) \in OpType /\ Op("backdrops", i).op = "backdrops" /\ Op("backdrops", i).item = i
      BY <1>2, OpFields DEF OpName
    <3>2. Op("backdrops", i).type = NoText
      BY DEF Op
    <3>3. NoText # "backdrop"
      BY Zenon DEF NoText
    <3> QED BY <3>1, <3>2, <3>3 DEF Late
  <2> HIDE DEF S
  <2>3. (IF ok THEN <<Op("backdrops", i)>> ELSE Picture(i, "backdrop", p.backdrop)) \in Seq(S)
    BY <1>3, <2>1, <2>2
  <2>4. (IF ok THEN Picture(i, "logo", p.logo) ELSE <<>>) \in Seq(S)
    BY <1>3, <2>1
  <2>5. Picture(i, "primary", p.poster)
        \o (IF ok THEN <<Op("backdrops", i)>> ELSE Picture(i, "backdrop", p.backdrop)) \in Seq(S)
    BY <1>3, <2>1, <2>3, ConcatProperties
  <2>6. Picture(i, "thumb", p.backdrop) \in Seq(S)
    BY <1>3, <2>1
  <2>7. Picture(i, "primary", p.poster)
        \o (IF ok THEN <<Op("backdrops", i)>> ELSE Picture(i, "backdrop", p.backdrop))
        \o Picture(i, "thumb", p.backdrop) \in Seq(S)
    BY <2>5, <2>6, ConcatProperties
  <2> QED BY <2>4, <2>7, ConcatProperties
<1>6. PICK s : s = more(ok)
  OBVIOUS
<1> HIDE DEF more, S
<1>7. (\A k \in DOMAIN s : s[k] \in S) /\ s \in Seq(OpType)
  <2>1. S \subseteq OpType
    BY DEF S
  <2> QED BY <1>5, <1>6, <2>1, SeqMonotonic, Elements
<1>8. Leaves(Cur(w), s) /\ \A k \in DOMAIN s : s[k].op \notin {"backdrop", "upsert"} /\ s[k].item = i
                                               /\ (ok => s[k].type # "backdrop")
  BY <1>1, <1>7 DEF S, Leaves, Late, Guest, IsCast, Ours
<1>9. /\ \A j \in Item : PicsFrom(j)' \in {PicsFrom(j), NoEntry} /\ CastFrom(j)' = CastFrom(j)
      /\ ~ ok => PicsFrom(i)' = NoEntry
  BY <1>2, <1>4 DEF PicsFrom, CastFrom, CInv, Typed, DataTyped, Part
<1>10. PeopleStay /\ \A j : /\ CastOf(j)' = CastOf(j)
                            /\ Pictures("item", j, "backdrop")' = Pictures("item", j, "backdrop")
  BY <1>1 DEF PeopleStay, CastOf, Pictures
<1>11. \A j : ~ IsCast(Cur(w), j)
  BY <1>1 DEF IsCast
<1>12. work' = [work EXCEPT ![w] = Next1(w, FALSE, s)] /\ Cur(w).op # "backdrop"
  BY <1>1, <1>4, <1>6
<1>13. /\ \A j \in Item : PicsFrom(j)' \in {PicsFrom(j), NoEntry} /\ CastFrom(j)' \in {CastFrom(j), NoEntry}
       /\ \A j \in Item : (j \notin DOMAIN Nfo /\ PicsFrom(j)' # NoEntry) =>
            Pictures("item", j, "backdrop")' = Pictures("item", j, "backdrop")
       /\ \A j \in Item : (Row[j].type = "episode" /\ CastFrom(j)' # NoEntry /\ <<"people", j>> \notin astray') =>
            /\ w = "scraper" => ~ IsCast(Cur(w), j)
            /\ CastOf(j) \subseteq CastOf(j)' /\ (j \notin DOMAIN Nfo => CastOf(j)' = CastOf(j))
  BY <1>9, <1>10, <1>11
<1>14. \A k \in DOMAIN s : w = "scraper" /\ s[k].op = "image" /\ s[k].type = "backdrop"
                           /\ s[k].item \notin DOMAIN Nfo => PicsFrom(s[k].item)' = NoEntry
  <2>1. ASSUME NEW k \in DOMAIN s, s[k].type = "backdrop" PROVE PicsFrom(s[k].item)' = NoEntry
    <3>1. ~ ok /\ s[k].item = i
      BY <1>8, <2>1
    <3> QED BY <1>9, <3>1
  <2> QED BY <2>1
<1> QED BY <1>1, <1>7, <1>8, <1>10, <1>12, <1>13, <1>14, OnwardStill

LEMMA UnlinkLists == ASSUME CInv, LInv, NEW w \in Worker, Unlink(w) PROVE LInv'
<1>0. PICK o : o = Cur(w)
  OBVIOUS
<1>1. /\ work[w].todo # <<>> /\ o.op = "unlink" /\ UNCHANGED <<rows, images, astray>>
      /\ work' = [work EXCEPT ![w] = Next1(w, FALSE, <<>>)]
      /\ links' = {l \in links : ~(l.table = o.table /\ l.item = o.item)}
      /\ latest' = [latest EXCEPT ![<<o.item, "cast">>] = NoEntry]
  BY <1>0 DEF Unlink, Now, Cur, Done
<1>2. o.item \in Item
  BY <1>0, <1>1, NowIs
<1>3. \A j \in Item : /\ PicsFrom(j)' = PicsFrom(j) /\ CastFrom(j)' = IF j = o.item THEN NoEntry ELSE CastFrom(j)
                      /\ j # o.item => CastOf(j)' = CastOf(j)
                      /\ Pictures("item", j, "backdrop")' = Pictures("item", j, "backdrop")
  BY <1>1, <1>2 DEF PicsFrom, CastFrom, CastOf, Pictures, CInv, Typed, DataTyped, Part
<1>4. PeopleStay
  BY <1>1 DEF PeopleStay
<1>5. (\A j : ~ IsCast(Cur(w), j)) /\ Cur(w).op # "backdrop"
  BY <1>0, <1>1 DEF IsCast
<1>6. /\ \A j \in Item : PicsFrom(j)' \in {PicsFrom(j), NoEntry} /\ CastFrom(j)' \in {CastFrom(j), NoEntry}
      /\ \A j \in Item : (j \notin DOMAIN Nfo /\ PicsFrom(j)' # NoEntry) =>
           Pictures("item", j, "backdrop")' = Pictures("item", j, "backdrop")
      /\ \A j \in Item : (Row[j].type = "episode" /\ CastFrom(j)' # NoEntry /\ <<"people", j>> \notin astray') =>
           /\ w = "scraper" => ~ IsCast(Cur(w), j)
           /\ CastOf(j) \subseteq CastOf(j)' /\ (j \notin DOMAIN Nfo => CastOf(j)' = CastOf(j))
  BY <1>3, <1>5
<1>7. <<>> \in Seq(OpType) /\ Leaves(Cur(w), <<>>) /\ \A k \in DOMAIN <<>> : FALSE
  BY NothingLeft
<1> QED BY <1>1, <1>4, <1>5, <1>6, <1>7, OnwardStill

LEMMA UnpictureLists == ASSUME CInv, LInv, NEW w \in Worker, Unpicture(w) PROVE LInv'
<1>0. PICK o : o = Cur(w)
  OBVIOUS
<1>1. /\ work[w].todo # <<>> /\ o.op = "unpicture" /\ UNCHANGED <<rows, links, astray>>
      /\ work' = [work EXCEPT ![w] = Next1(w, FALSE, <<>>)]
      /\ images' = {m \in images : ~(m.of = "item" /\ m.id = o.item)}
      /\ latest' = [latest EXCEPT ![<<o.item, "backdrop">>] = NoEntry]
  BY <1>0 DEF Unpicture, Now, Cur, Done
<1>2. o.item \in Item
  BY <1>0, <1>1, NowIs
<1>3. \A j \in Item : /\ CastFrom(j)' = CastFrom(j) /\ PicsFrom(j)' = IF j = o.item THEN NoEntry ELSE PicsFrom(j)
                      /\ j # o.item => Pictures("item", j, "backdrop")' = Pictures("item", j, "backdrop")
                      /\ CastOf(j)' = CastOf(j)
  BY <1>1, <1>2 DEF PicsFrom, CastFrom, CastOf, Pictures, CInv, Typed, DataTyped, Part
<1>4. PeopleStay
  BY <1>1 DEF PeopleStay
<1>5. (\A j : ~ IsCast(Cur(w), j)) /\ Cur(w).op # "backdrop"
  BY <1>0, <1>1 DEF IsCast
<1>6. /\ \A j \in Item : PicsFrom(j)' \in {PicsFrom(j), NoEntry} /\ CastFrom(j)' \in {CastFrom(j), NoEntry}
      /\ \A j \in Item : (j \notin DOMAIN Nfo /\ PicsFrom(j)' # NoEntry) =>
           Pictures("item", j, "backdrop")' = Pictures("item", j, "backdrop")
      /\ \A j \in Item : (Row[j].type = "episode" /\ CastFrom(j)' # NoEntry /\ <<"people", j>> \notin astray') =>
           /\ w = "scraper" => ~ IsCast(Cur(w), j)
           /\ CastOf(j) \subseteq CastOf(j)' /\ (j \notin DOMAIN Nfo => CastOf(j)' = CastOf(j))
  BY <1>3, <1>5
<1>7. <<>> \in Seq(OpType) /\ Leaves(Cur(w), <<>>) /\ \A k \in DOMAIN <<>> : FALSE
  BY NothingLeft
<1> QED BY <1>1, <1>4, <1>5, <1>6, <1>7, OnwardStill

-----------------------------------------------------------------------------
(* Rows. *)

LEMMA AtSame ==
  ASSUME Typed, NEW w \in Worker, NEW at, work' = Goto(w, at)
  PROVE  SameAgendas
<1>1. \A v \in Worker : work[v] \in WorkType
  BY DEF Typed
<1> QED BY <1>1 DEF SameAgendas, Goto, WorkType, Typed

(* The tables are left, and so is the agenda. *)
LEMMA QuietStay ==
  ASSUME CInv, LInv, SameAgendas, UNCHANGED <<rows, links, images, latest>>, astray \subseteq astray'
  PROVE  LInv'
<1>1. PeopleStay /\ \A i : /\ CastOf(i)' = CastOf(i)
                           /\ Pictures("item", i, "backdrop")' = Pictures("item", i, "backdrop")
  BY Untouched
<1> QED BY <1>1, StayStill

LEMMA SelectLists == ASSUME CInv, LInv, NEW w \in Worker, Select(w) PROVE LInv'
<1>1. UNCHANGED <<rows, links, images, latest>> /\ astray \subseteq astray' /\ Typed
  BY DEF Select, db, history, CInv
<1>2. \A v \in Worker : work[v] \in WorkType
  BY <1>1 DEF Typed
<1>3. CASE Find(w) = {}
  <2>1. work' = Goto(w, "insert")
    BY <1>3 DEF Select
  <2> QED BY <1>1, <2>1, AtSame, QuietStay
<1>4. CASE Find(w) # {}
  <2>1. PICK k, needs, at : work' = [work EXCEPT ![w].id = k, ![w].needs = needs, ![w].at = at]
    BY <1>4 DEF Select
  <2>2. SameAgendas
    BY <1>1, <1>2, <2>1 DEF SameAgendas, WorkType, Typed
  <2> QED BY <1>1, <2>2, QuietStay
<1> QED BY <1>3, <1>4

LEMMA LookLists == ASSUME CInv, LInv, NEW w \in Worker, Look(w) PROVE LInv'
<1>1. UNCHANGED <<rows, links, images, latest>> /\ astray \subseteq astray' /\ Typed
  BY DEF Look, db, history, CInv
<1>2. \A v \in Worker : work[v] \in WorkType
  BY <1>1 DEF Typed
<1>3. work' = Goto(w, "picture") \/ \E id : work' = [work EXCEPT ![w].at = "repicture", ![w].id = id]
  <2>1. \/ work' = Goto(w, "picture")
        \/ \E row : work' = [work EXCEPT ![w].at = "repicture", ![w].id = IF Cur(w).op = "image" THEN row ELSE @]
    BY DEF Look
  <2>2. ASSUME NEW row, work' = [work EXCEPT ![w].at = "repicture", ![w].id = IF Cur(w).op = "image" THEN row ELSE @]
        PROVE  \E id : work' = [work EXCEPT ![w].at = "repicture", ![w].id = id]
    <3>1. work' = [work EXCEPT ![w].at = "repicture", ![w].id = IF Cur(w).op = "image" THEN row ELSE work[w].id]
      BY <1>1, <1>2, <2>2 DEF WorkType, Typed
    <3> QED BY <3>1
  <2> QED BY <2>1, <2>2
<1>4. SameAgendas
  <2>1. CASE work' = Goto(w, "picture")
    BY <1>1, <2>1, AtSame
  <2>2. CASE \E id : work' = [work EXCEPT ![w].at = "repicture", ![w].id = id]
    BY <1>1, <1>2, <2>2 DEF SameAgendas, WorkType, Typed
  <2> QED BY <1>3, <2>1, <2>2
<1> QED BY <1>1, <1>4, QuietStay

LEMMA NewestLists == ASSUME CInv, LInv, NEW w \in Worker, Newest(w) PROVE LInv'
<1>0. PICK o : o = Cur(w)
  OBVIOUS
<1>1. /\ work[w].todo # <<>> /\ work[w].at = "newest" /\ UNCHANGED <<rows, links, images, latest>> /\ Typed
      /\ astray' = IF work[w].crossed THEN astray \cup {<<o.table, o.item>>} ELSE astray
  BY <1>0 DEF Newest, At, db, CInv
<1>2. astray \subseteq astray'
  BY <1>1
<1>3. CASE Len(rows[o.table]) = 0
  <2>1. work' = [work EXCEPT ![w] = Next1(w, FALSE, <<>>)]
    BY <1>0, <1>3 DEF Newest
  <2>2. SpotOK(work[w])
    BY <1>1, NowIs
  <2>3. Upserts(o) /\ work[w].crossed
    BY <1>0, <1>1, <1>3, <2>2 DEF SpotOK, Cur
  <2>4. <<Cur(w).table, Cur(w).item>> \in astray' /\ Upserts(Cur(w))
    BY <1>0, <1>1, <2>3
  <2> QED BY <1>1, <1>2, <2>1, <2>4, NothingLeft, QuietStill
<1>4. CASE Len(rows[o.table]) # 0
  <2>1. PICK id, at : work' = [work EXCEPT ![w].id = id, ![w].at = at, ![w].crossed = FALSE]
    BY <1>0, <1>4 DEF Newest
  <2>2. \A v \in Worker : work[v] \in WorkType
    BY <1>1 DEF Typed
  <2>3. SameAgendas
    BY <1>1, <2>1, <2>2 DEF SameAgendas, WorkType, Typed
  <2> QED BY <1>1, <1>2, <2>3, QuietStay
<1> QED BY <1>3, <1>4

(* Rows that keep their TMDB id. *)
LEMMA RowsStay ==
  ASSUME CInv, LInv, SameAgendas, UNCHANGED <<links, images, latest, astray>>,
         \A k \in DOMAIN rows["people"] : rows'["people"][k].tmdb = rows["people"][k].tmdb
  PROVE  LInv'
<1>1. PeopleStay /\ \A i : /\ CastOf(i)' = CastOf(i)
                           /\ Pictures("item", i, "backdrop")' = Pictures("item", i, "backdrop")
  BY DEF PeopleStay, CastOf, Pictures
<1> QED BY <1>1, StayStill

LEMMA RenameLists == ASSUME CInv, LInv, NEW w \in Worker, Rename(w) PROVE LInv'
<1>1. UNCHANGED <<links, images, latest, astray>> /\ Typed
  BY DEF Rename, history, CInv
<1>2. SameAgendas
  BY <1>1, AtSame DEF Rename
<1>3. PICK t, id, name : rows' = [rows EXCEPT ![t][id].name = name]
  BY DEF Rename
<1>4. \A k \in DOMAIN rows["people"] : rows["people"][k] \in TermRow
  BY <1>1 DEF Typed, DataTyped, Table
<1>5. \A k \in DOMAIN rows["people"] : rows'["people"][k].tmdb = rows["people"][k].tmdb
  BY <1>1, <1>3, <1>4 DEF TermRow, Typed, DataTyped
<1> QED BY <1>1, <1>2, <1>5, RowsStay

LEMMA EnrichLists == ASSUME CInv, LInv, NEW w \in Worker, Enrich(w) PROVE LInv'
<1>1. UNCHANGED <<links, images, latest, astray>> /\ Typed
  BY DEF Enrich, history, CInv
<1>2. SameAgendas
  BY <1>1, AtSame DEF Enrich
<1>3. rows' = rows \/ \E id, bio : rows' = [rows EXCEPT !["people"][id].bio = bio]
  BY DEF Enrich
<1>4. \A k \in DOMAIN rows["people"] : rows["people"][k] \in TermRow
  BY <1>1 DEF Typed, DataTyped, Table
<1>5. \A k \in DOMAIN rows["people"] : rows'["people"][k].tmdb = rows["people"][k].tmdb
  <2>1. CASE rows' = rows
    BY <2>1
  <2>2. ASSUME NEW id, NEW bio, rows' = [rows EXCEPT !["people"][id].bio = bio]
        PROVE  \A k \in DOMAIN rows["people"] : rows'["people"][k].tmdb = rows["people"][k].tmdb
    BY <1>1, <1>4, <2>2 DEF TermRow, Typed, DataTyped
  <2> QED BY <1>3, <2>1, <2>2
<1> QED BY <1>1, <1>2, <1>5, RowsStay

LEMMA InsertLists == ASSUME CInv, LInv, NEW w \in Worker, Insert(w) PROVE LInv'
<1>1. UNCHANGED <<links, images, latest, astray>> /\ Typed
  BY DEF Insert, history, CInv
<1>2. \A v \in Worker : work[v] \in WorkType
  BY <1>1 DEF Typed
<1>0. PICK taken, o, q :
        /\ o = Cur(w) /\ q = [tmdb |-> o.tmdb, name |-> o.name, bio |-> 0]
        /\ taken = (o.tmdb # 0 /\ \E k \in DOMAIN rows[o.table] : rows[o.table][k].tmdb = o.tmdb)
  OBVIOUS
<1>3. /\ rows' = IF taken THEN rows ELSE [rows EXCEPT ![o.table] = Append(@, q)]
      /\ work' = [v \in Worker |->
           IF v = w THEN [work[v] EXCEPT !.at = "newest", !.crossed = taken]
           ELSE IF At(v, "newest") /\ Cur(v).table = o.table /\ ~ taken
           THEN [work[v] EXCEPT !.crossed = TRUE] ELSE work[v]]
  BY <1>0 DEF Insert
<1>4. SameAgendas
  BY <1>2, <1>3 DEF SameAgendas, WorkType
<1>5. \A k \in DOMAIN rows["people"] : rows'["people"][k] = rows["people"][k]
  <2>1. rows \in [Table -> Seq(TermRow)] /\ "people" \in Table
    BY <1>1 DEF Typed, DataTyped, Table
  <2>2. rows'["people"] = rows["people"] \/ rows'["people"] = Append(rows["people"], q)
    BY <1>3, <2>1
  <2>3. rows["people"] \in Seq(TermRow)
    BY <2>1
  <2> QED BY <2>2, <2>3
<1> QED BY <1>1, <1>4, <1>5, RowsStay

-----------------------------------------------------------------------------
(* Pictures: none is set among the backdrops that were replaced. *)

(* What the scraper sets for an item is none of the backdrops it replaced. *)
LEMMA NoneOfThese ==
  ASSUME CInv, LInv, NEW w \in Worker, work[w].todo # <<>>, Cur(w).op = "image", Cur(w).type = "backdrop",
         Cur(w).item \notin DOMAIN Nfo
  PROVE  PicsFrom(Cur(w).item) = NoEntry
<1>1. w = "scraper"
  BY OnlyScraper
<1>2. PICK todo : todo = Agenda
  OBVIOUS
<1>3. todo \in Seq(OpType) /\ todo # <<>> /\ Cur(w) = Head(todo)
  BY <1>1, <1>2, ScraperIs DEF CInv, Agenda, Cur
<1>4. 1 \in DOMAIN todo /\ Head(todo) = todo[1]
  BY <1>3
<1> QED BY <1>2, <1>3, <1>4 DEF LInv, Lists, Fallback

LEMMA AfterPictureStill ==
  ASSUME CInv, LInv, NEW w \in Worker, work[w].todo # <<>>, work[w].at \in {"picture", "repicture"}, AfterPicture(w),
         UNCHANGED <<rows, links, latest, astray>>,
         \A i \in Item : (i \notin DOMAIN Nfo /\ PicsFrom(i) # NoEntry) =>
           Pictures("item", i, "backdrop")' = Pictures("item", i, "backdrop")
  PROVE  LInv'
<1>1. PeopleStay /\ \A i : CastOf(i)' = CastOf(i) /\ PicsFrom(i)' = PicsFrom(i) /\ CastFrom(i)' = CastFrom(i)
  BY DEF PeopleStay, CastOf, PicsFrom, CastFrom
<1>2. CASE Cur(w).op = "upsert"
  <2>1. work' = Goto(w, "link")
    BY <1>2 DEF AfterPicture
  <2>2. SameAgendas
    BY <2>1, AtSame DEF CInv
  <2> QED BY <1>1, <2>2, StayStill
<1>3. CASE Cur(w).op # "upsert"
  <2>1. work' = [work EXCEPT ![w] = Next1(w, Cur(w).op = "actor", <<>>)]
    BY <1>3 DEF AfterPicture
  <2>2. Cur(w).op # "backdrop" /\ \A j : ~ IsCast(Cur(w), j)
    BY <1>3, TargetIs DEF Upserts, IsCast
  <2>3. <<>> \in Seq(OpType) /\ Leaves(Cur(w), <<>>) /\ \A k \in DOMAIN <<>> : FALSE
    BY NothingLeft
  <2>4. /\ \A j \in Item : PicsFrom(j)' \in {PicsFrom(j), NoEntry} /\ CastFrom(j)' \in {CastFrom(j), NoEntry}
        /\ \A j \in Item : (j \notin DOMAIN Nfo /\ PicsFrom(j)' # NoEntry) =>
             Pictures("item", j, "backdrop")' = Pictures("item", j, "backdrop")
        /\ \A j \in Item : (Row[j].type = "episode" /\ CastFrom(j)' # NoEntry /\ <<"people", j>> \notin astray') =>
             /\ w = "scraper" => ~ IsCast(Cur(w), j)
             /\ CastOf(j) \subseteq CastOf(j)' /\ (j \notin DOMAIN Nfo => CastOf(j)' = CastOf(j))
    BY <1>1, <2>2
  <2> QED BY <1>1, <2>1, <2>2, <2>3, <2>4, OnwardStill
<1> QED BY <1>2, <1>3

(* What a picture is set for is none of the backdrops replaced. *)
LEMMA TargetElse ==
  ASSUME CInv, LInv, NEW w \in Worker, work[w].todo # <<>>, work[w].at \in {"look", "picture", "repicture"},
         NEW i \in Item, i \notin DOMAIN Nfo, PicsFrom(i) # NoEntry
  PROVE  ~ (Target(w).of = "item" /\ Target(w).id = i /\ Target(w).type = "backdrop")
<1>1. CASE Cur(w).op = "image"
  <2>1. Target(w).id = Cur(w).item /\ Target(w).type = Cur(w).type
    BY <1>1, TargetIs
  <2> QED BY <1>1, <2>1, NoneOfThese
<1>2. CASE Cur(w).op # "image"
  <2>1. Target(w).of = "people"
    BY <1>2 DEF Target
  <2> QED BY <2>1
<1> QED BY <1>1, <1>2

LEMMA RepictureLists == ASSUME CInv, LInv, NEW w \in Worker, Repicture(w) PROVE LInv'
<1>0. PICK o, t : o = Cur(w) /\ t = Target(w)
  OBVIOUS
<1> DEFINE hit == {m \in images : IF o.op = "image" THEN m.row = work[w].id ELSE m \in Pictures(t.of, t.id, t.type)}
           put(m) == [m EXCEPT !.url = t.url]
<1>1. work[w].todo # <<>> /\ work[w].at = "repicture" /\ o = Head(work[w].todo) /\ SpotOK(work[w])
  BY <1>0, NowIs DEF Repicture, At, Cur
<1>2. /\ images' = (images \ hit) \cup {put(m) : m \in hit} /\ UNCHANGED <<rows, links, latest, astray>>
      /\ AfterPicture(w)
  BY <1>0 DEF Repicture, history
<1>3. o.op = "image" => t.of = "item" /\ t.id = o.item /\ t.type = o.type
  BY <1>0, <1>1, TargetIs
<1>4. ASSUME NEW m \in hit
      PROVE  /\ m.of = t.of /\ m.id = t.id /\ m.type = t.type
             /\ put(m).of = t.of /\ put(m).id = t.id /\ put(m).type = t.type
  <2>1. m.of = t.of /\ m.id = t.id /\ m.type = t.type
    <3>1. CASE o.op = "image"
      BY <1>1, <1>3, <3>1 DEF SpotOK
    <3>2. CASE o.op # "image"
      BY <3>2 DEF Pictures
    <3> QED BY <3>1, <3>2
  <2>2. m \in ImageRow
    BY DEF CInv, Typed, DataTyped
  <2> QED BY <2>1, <2>2 DEF ImageRow
<1> HIDE DEF hit, put
<1>5. ASSUME NEW i \in Item, i \notin DOMAIN Nfo, PicsFrom(i) # NoEntry
      PROVE  Pictures("item", i, "backdrop")' = Pictures("item", i, "backdrop")
  <2>1. ~ (t.of = "item" /\ t.id = i /\ t.type = "backdrop")
    BY <1>0, <1>1, <1>5, TargetElse
  <2>2. \A m \in hit : /\ ~ (m.of = "item" /\ m.id = i /\ m.type = "backdrop")
                       /\ ~ (put(m).of = "item" /\ put(m).id = i /\ put(m).type = "backdrop")
    BY <1>4, <2>1
  <2> QED BY <1>2, <2>2 DEF Pictures
<1> QED BY <1>1, <1>2, <1>5, AfterPictureStill

LEMMA NewPictureLists == ASSUME CInv, LInv, NEW w \in Worker, NewPicture(w) PROVE LInv'
<1>0. PICK t, q : t = Target(w) /\ q = [row |-> nextImage, of |-> t.of, id |-> t.id, type |-> t.type, url |-> t.url]
  OBVIOUS
<1>1. work[w].todo # <<>> /\ work[w].at = "picture" /\ AfterPicture(w)
  BY DEF NewPicture, At
<1>2. /\ UNCHANGED <<rows, links, latest, astray>>
      /\ images' = images \/ images' = images \cup {q}
  BY <1>0 DEF NewPicture, NewImage, history
<1>3. ASSUME NEW i \in Item, i \notin DOMAIN Nfo, PicsFrom(i) # NoEntry
      PROVE  Pictures("item", i, "backdrop")' = Pictures("item", i, "backdrop")
  <2>1. ~ (q.of = "item" /\ q.id = i /\ q.type = "backdrop")
    BY <1>0, <1>1, <1>3, TargetElse
  <2> QED BY <1>2, <2>1 DEF Pictures
<1> QED BY <1>1, <1>2, <1>3, AfterPictureStill

-----------------------------------------------------------------------------
(* Links: the next guest. *)

(* The next guest is linked, or was before: at an earlier place of the list. *)
LEMMA LinkedAlready ==
  ASSUME NEW C, NEW P, NEW i, NEW g, NEW d \in Nat, Linked(C, P, i, g, d), \E l \in C : P[l.id].tmdb = g[d + 1]
  PROVE  Linked(C, P, i, g, d + 1)
<1>1. \A k \in 1 .. d + 1 : k \in 1 .. d \/ k = d + 1
  OBVIOUS
<1>2. \A x \in 0 .. d - 1 : x \in 0 .. (d + 1) - 1
  OBVIOUS
<1> QED BY <1>1, <1>2 DEF Linked

LEMMA LinkedNow ==
  ASSUME NEW C, NEW P, NEW i, NEW g, NEW d \in Nat, Linked(C, P, i, g, d), NEW q,
         P[q.id].tmdb = g[d + 1], q.role = "Actor", q.order = d,
         \A l \in C : P[l.id].tmdb = g[d + 1] => l.id = q.id, \A l \in C : ~ (l.id = q.id /\ l.role = "Actor")
  PROVE  Linked(C \cup {q}, P, i, g, d + 1)
<1>1. \A k \in 1 .. d + 1 : k \in 1 .. d \/ k = d + 1
  OBVIOUS
<1>2. \A x \in 0 .. d - 1 : x \in 0 .. (d + 1) - 1
  OBVIOUS
<1>3. \A k \in 1 .. d + 1 : \E l \in C \cup {q} : P[l.id].tmdb = g[k]
  BY <1>1 DEF Linked
<1>4. ASSUME i \notin DOMAIN Nfo, NEW l \in C \cup {q}
      PROVE  /\ l.role = "Actor" /\ l.order \in 0 .. (d + 1) - 1 /\ P[l.id].tmdb = g[l.order + 1]
             /\ \A j \in 1 .. l.order : g[j] # g[l.order + 1]
  <2>1. CASE l \in C
    BY <1>2, <1>4, <2>1 DEF Linked
  <2>2. CASE l = q
    <3>1. q.order \in 0 .. (d + 1) - 1
      OBVIOUS
    <3>2. ASSUME NEW j \in 1 .. d PROVE g[j] # g[d + 1]
      <4> SUFFICES ASSUME g[j] = g[d + 1] PROVE FALSE
        OBVIOUS
      <4>1. PICK x \in C : P[x.id].tmdb = g[j]
        BY DEF Linked
      <4>2. x.role = "Actor"
        BY <1>4 DEF Linked
      <4> QED BY <4>1, <4>2
    <3> QED BY <2>2, <3>1, <3>2
  <2> QED BY <2>1, <2>2
<1> QED BY <1>3, <1>4 DEF Linked

(* What a guest's link adds. *)
LEMMA GuestLinked ==
  ASSUME CInv, LInv, NEW o, o = Cur("scraper"), work["scraper"].todo # <<>>,
         work["scraper"].at = "link", Guest(o), CastFrom(o.item) # NoEntry, <<"people", o.item>> \notin astray,
         NEW q, q = [table |-> o.table, item |-> o.item, id |-> work["scraper"].id, role |-> o.role,
                     order |-> work["scraper"].order],
         NEW D, D = IF \E l \in links : l.table = o.table /\ l.item = o.item /\ l.id = q.id /\ l.role = o.role
                    THEN CastOf(o.item) ELSE CastOf(o.item) \cup {q},
         NEW next, next = <<>> \o Tail(Agenda), NEW after,
         next # <<>> /\ IsCast(next[1], o.item) => after = work["scraper"].order + 1
  PROVE  CastPart(next, after, D, rows["people"], o.item, Tmdb[CastFrom(o.item)].guests)
<1>1. PICK todo, order, C, P, i, e :
        /\ todo = Agenda /\ order = work["scraper"].order /\ C = CastOf(o.item) /\ P = rows["people"] /\ i = o.item
        /\ e = CastFrom(o.item)
  OBVIOUS
<1>2. PICK g : g = Tmdb[e].guests
  OBVIOUS
<1>3. "scraper" \in Worker /\ o \in OpType /\ i \in Item /\ SpotOK(work["scraper"]) /\ Fit(o, work["scraper"].entry)
      /\ o.op = "upsert" /\ o.table = "people"
  BY <1>1, NowIs, ScraperIs DEF CInv, Guest, IsCast
<1>4. e \in DOMAIN Tmdb /\ g \in Seq(Known)
  BY <1>1, <1>2, <1>3, Sources, EntryLists DEF CInv
<1>5. todo \in Seq(OpType) /\ todo # <<>> /\ o = Head(todo) /\ CastPart(todo, order, C, P, i, g)
  BY <1>1, <1>2, <1>3, ScraperIs DEF CInv, LInv, CastOK, Agenda, Cur
<1>6. o = todo[1] /\ IsCast(todo[1], i)
  BY <1>1, <1>3, <1>5 DEF IsCast
<1>7. PICK d \in 0 .. Len(g) : PendingCast(todo, order, i, g, d) /\ Linked(C, P, i, g, d)
  BY <1>5 DEF CastPart
<1>8. /\ d + 1 \in 0 .. Len(g) /\ o.tmdb = g[d + 1] /\ o.role = "Actor" /\ order = d
      /\ PendingCast(next, after, i, g, d + 1)
  <2>1. next = <<>> \o Tail(todo)
    BY <1>1
  <2>2. next # <<>> /\ IsCast(next[1], i) => after = order + 1
    BY <1>1
  <2>4. todo \in Seq(OpType) /\ todo # <<>> /\ g \in Seq(Known) /\ IsCast(todo[1], i) /\ PendingCast(todo, order, i, g, d)
        /\ d \in 0 .. Len(g)
    BY <1>4, <1>5, <1>6, <1>7
  <2>5. PendingCast(next, after, i, g, d + 1)
    BY ONLY <2>1, <2>2, <2>4, CastDone
  <2>6. d + 1 \in 0 .. Len(g)
    BY ONLY <2>1, <2>2, <2>4, CastDone
  <2>7. order = d
    <3>1. Len(g) \in Nat
      BY <2>4, LenProperties
    <3> QED BY ONLY <2>4, <2>6, <3>1 DEF PendingCast
  <2>8. todo[1].tmdb = g[d + 1]
    BY ONLY <2>1, <2>2, <2>4, CastDone
  <2>9. todo[1].role = "Actor"
    BY ONLY <2>1, <2>2, <2>4, CastDone
  <2> QED BY <1>6, <2>5, <2>6, <2>7, <2>8, <2>9
<1>9. q.id = work["scraper"].id /\ q.order = d /\ q.role = "Actor"
  BY <1>1, <1>8
<1>10. q.id \in DOMAIN P /\ P[q.id].tmdb = g[d + 1] /\ o.tmdb # 0
  <2>1. Worked(o, q.id) /\ o.tmdb # 0
    BY <1>3, <1>9 DEF SpotOK, Upserts, Cur, Fit
  <2> QED BY <1>1, <1>3, <1>8, <2>1 DEF Worked, Astray, Fits
<1>11. \A l \in C : l \in links /\ l.table = "people" /\ l.item = i /\ l.id \in DOMAIN P
  BY <1>1 DEF CastOf, CInv, DataInv, LinkOK
<1>12. \A l \in C : P[l.id].tmdb = g[d + 1] => l.id = q.id
  <2>1. \A j, k \in DOMAIN P : P[j].tmdb = P[k].tmdb /\ P[j].tmdb # 0 => j = k
    BY <1>1 DEF CInv, DataInv, RowsOK, Table
  <2> QED BY <1>8, <1>10, <1>11, <2>1
<1>13. Linked(D, P, i, g, d + 1)
  <2>0. d \in Nat
    OBVIOUS
  <2>1. CASE \E l \in links : l.table = o.table /\ l.item = o.item /\ l.id = q.id /\ l.role = o.role
    <3>1. \E l \in C : l.id = q.id
      BY <1>1, <1>3, <2>1 DEF CastOf
    <3>2. Linked(C, P, i, g, d + 1)
      BY <1>7, <1>10, <2>0, <3>1, LinkedAlready
    <3> QED BY <1>1, <2>1, <3>2
  <2>2. CASE ~ \E l \in links : l.table = o.table /\ l.item = o.item /\ l.id = q.id /\ l.role = o.role
    <3>1. \A l \in C : ~ (l.id = q.id /\ l.role = "Actor")
      BY <1>1, <1>3, <1>8, <1>11, <2>2
    <3>2. Linked(C \cup {q}, P, i, g, d + 1)
      BY <1>7, <1>9, <1>10, <1>12, <2>0, <3>1, LinkedNow
    <3> QED BY <1>1, <2>2, <3>2
  <2> QED BY <2>1, <2>2
<1>14. CastPart(next, after, D, P, i, g)
  BY <1>8, <1>13 DEF CastPart
<1> QED BY <1>1, <1>2, <1>14

LEMMA LinkLists == ASSUME CInv, LInv, NEW w \in Worker, Link(w) PROVE LInv'
<1>0. PICK o, q : /\ o = Cur(w)
                  /\ q = [table |-> o.table, item |-> o.item, id |-> work[w].id, role |-> o.role, order |-> work[w].order]
  OBVIOUS
<1>1. work[w].todo # <<>> /\ work[w].at = "link" /\ o \in OpType /\ Upserts(o) /\ o.item \in Item
  <2>1. work[w].todo # <<>> /\ work[w].at = "link"
    BY DEF Link, At
  <2>2. SpotOK(work[w]) /\ o \in OpType /\ o.item \in Item
    BY <1>0, <2>1, NowIs
  <2> QED BY <1>0, <2>1, <2>2 DEF SpotOK, Cur
<1> DEFINE D == IF \E l \in links : l.table = o.table /\ l.item = o.item /\ l.id = work[w].id /\ l.role = o.role
                THEN links ELSE links \cup {q}
<1>2. UNCHANGED <<rows, images, latest, astray>> /\ links' = D
  BY <1>0 DEF Link, history
<1>3. PeopleStay /\ \A i : /\ PicsFrom(i)' = PicsFrom(i) /\ CastFrom(i)' = CastFrom(i)
                           /\ Pictures("item", i, "backdrop")' = Pictures("item", i, "backdrop")
  BY <1>2 DEF PeopleStay, PicsFrom, CastFrom, Pictures
<1>4. /\ \A i : CastOf(i) \subseteq CastOf(i)'
      /\ \A i : ~ (o.table = "people" /\ o.item = i) => CastOf(i)' = CastOf(i)
  <2>1. q.table = o.table /\ q.item = o.item
    BY <1>0
  <2>2. links' = links \/ links' = links \cup {q}
    BY <1>0 DEF Link
  <2> QED BY <2>1, <2>2 DEF CastOf
<1>5. /\ w # "scraper" => o.item \in DOMAIN Nfo
      /\ w = "scraper" => o.op = "upsert"
  BY <1>0, <1>1, OnlyScraper DEF Upserts, Ours
<1>6. CASE o.op = "actor" /\ Face[o.tmdb] # NoText
  <2>1. work' = Goto(w, "look")
    BY <1>0, <1>6 DEF Link
  <2>2. SameAgendas
    BY <2>1, AtSame DEF CInv
  <2>3. \A i \in Item : i \notin DOMAIN Nfo => CastOf(i)' = CastOf(i)
    BY <1>4, <1>5, <1>6
  <2>4. UNCHANGED latest
    BY <1>2
  <2> QED BY <1>3, <1>4, <2>2, <2>3, <2>4, StayStill
<1>7. CASE ~ (o.op = "actor" /\ Face[o.tmdb] # NoText)
  <2>1. work' = [work EXCEPT ![w] = Next1(w, TRUE, <<>>)]
    BY <1>0, <1>7 DEF Link
  <2>2. <<>> \in Seq(OpType) /\ Leaves(Cur(w), <<>>) /\ \A k \in DOMAIN <<>> : FALSE
    BY NothingLeft
  <2>3. Cur(w).op # "backdrop"
    BY <1>0, <1>1 DEF Upserts
  <2>4. CASE ~ (w = "scraper" /\ Guest(o))
    <3>1. ASSUME NEW i \in Item, Row[i].type = "episode"
          PROVE  /\ w = "scraper" => ~ IsCast(Cur(w), i)
                 /\ CastOf(i) \subseteq CastOf(i)' /\ (i \notin DOMAIN Nfo => CastOf(i)' = CastOf(i))
      <4>1. w = "scraper" => ~ IsCast(o, i)
        BY <2>4, <3>1 DEF Guest, IsCast
      <4>2. i \notin DOMAIN Nfo => ~ (o.table = "people" /\ o.item = i)
        BY <1>5, <4>1 DEF IsCast
      <4> QED BY <1>0, <1>4, <4>1, <4>2
    <3> QED BY <1>1, <1>3, <2>1, <2>2, <2>3, <3>1, OnwardStill
  <2>5. CASE w = "scraper" /\ Guest(o)
    <3>1. /\ EntryOK' /\ Ordered(Agenda)' /\ \A i : PicsHeld(i) \/ IsBackdrop(Cur(w), i)
          /\ \A i : CastHeld(i) \/ IsCast(Cur(w), i)
          /\ \A k \in DOMAIN Agenda' : \E j \in DOMAIN Agenda : Agenda'[k] = Agenda[j]
          /\ Agenda' = <<>> \o Tail(Agenda)
      BY <1>1, <2>1, <2>2, <2>5, Moved
    <3>2. Typed /\ Fallback /\ \A i \in Item : PicsOK(i) /\ CastOK(i)
      BY DEF CInv, LInv, Lists
    <3>3. Lists'
      <4>1. \A i \in Item : PicsFrom(i)' \in {PicsFrom(i), NoEntry}
        BY <1>3
      <4>2. Fallback'
        BY <2>2, <3>1, <3>2, <4>1, FallbackMoved
      <4> QED BY <3>1, <4>2 DEF Lists
    <3>4. ASSUME NEW j \in Item PROVE PicsOK(j)'
      <4>1. PicsHeld(j)
        BY <2>3, <3>1 DEF IsBackdrop
      <4> QED BY <1>3, <3>2, <4>1, PicsKept
    <3>5. ASSUME NEW j \in Item, j # o.item PROVE CastOK(j)'
      <4>1. CastHeld(j)
        BY <1>0, <3>1, <3>5 DEF IsCast
      <4>2. CastOf(j)' = CastOf(j)
        BY <1>4, <3>5
      <4> QED BY <1>3, <3>2, <4>1, <4>2, CastKept
    <3>6. CastOK(o.item)'
      <4> SUFFICES ASSUME CastFrom(o.item)' # NoEntry, <<"people", o.item>> \notin astray'
                   PROVE  /\ Row[o.item].type = "episode"
                          /\ CastPart(Agenda', work'["scraper"].order, CastOf(o.item)', rows'["people"], o.item,
                                      Tmdb[CastFrom(o.item)'].guests)
        BY DEF CastOK
      <4>1. PICK next, after, C : next = Agenda' /\ after = work'["scraper"].order /\ C = CastOf(o.item)'
        OBVIOUS
      <4>2. next = <<>> \o Tail(Agenda) /\ CastFrom(o.item)' = CastFrom(o.item) /\ rows' = rows /\ astray' = astray
        BY <1>2, <1>3, <3>1, <4>1
      <4>3. Row[o.item].type = "episode" /\ o.table = "people"
        BY <2>5 DEF Guest, IsCast
      <4>4. C = IF \E l \in links : l.table = o.table /\ l.item = o.item /\ l.id = work[w].id /\ l.role = o.role
                THEN CastOf(o.item) ELSE CastOf(o.item) \cup {q}
        BY <1>0, <1>2, <4>1, <4>3 DEF CastOf
      <4>5. next # <<>> /\ IsCast(next[1], o.item) => after = work["scraper"].order + 1
        <5>1. next = <<>> \o Tail(work[w].todo)
          BY <2>5, <4>2 DEF Agenda
        <5>2. Next1(w, TRUE, <<>>).order = IF next # <<>> /\ Head(next).table = Cur(w).table /\ Head(next).item = Cur(w).item
                                           THEN work[w].order + (IF TRUE THEN 1 ELSE 0) ELSE 0
          BY <5>1, NextOrder
        <5>3. after = Next1(w, TRUE, <<>>).order
          BY <2>1, <2>5, <3>2, <4>1 DEF Typed
        <5>4. next \in Seq(OpType)
          <6>1. PICK todo : todo = Agenda
            OBVIOUS
          <6>2. todo \in Seq(OpType) /\ todo # <<>> /\ next = <<>> \o Tail(todo)
            BY <1>1, <2>5, <3>2, <4>2, <6>1, ScraperIs DEF Agenda
          <6> QED BY <2>2, <6>2, NextAgenda
        <5>5. ASSUME next # <<>>, IsCast(next[1], o.item) PROVE after = work["scraper"].order + 1
          <6>1. Head(next) = next[1]
            BY <5>4, <5>5
          <6>2. Head(next).table = Cur(w).table /\ Head(next).item = Cur(w).item
            BY <1>0, <4>3, <5>5, <6>1 DEF IsCast
          <6> QED BY <2>5, <5>2, <5>3, <5>5, <6>2
        <5> QED BY <5>5
      <4>6. /\ o = Cur("scraper") /\ work["scraper"].todo # <<>> /\ work["scraper"].at = "link" /\ Guest(o)
            /\ CastFrom(o.item) # NoEntry /\ <<"people", o.item>> \notin astray
            /\ q = [table |-> o.table, item |-> o.item, id |-> work["scraper"].id, role |-> o.role,
                    order |-> work["scraper"].order]
            /\ C = IF \E l \in links : l.table = o.table /\ l.item = o.item /\ l.id = q.id /\ l.role = o.role
                   THEN CastOf(o.item) ELSE CastOf(o.item) \cup {q}
        BY <1>0, <1>1, <2>5, <4>2, <4>4
      <4>7. CastPart(next, after, C, rows["people"], o.item, Tmdb[CastFrom(o.item)].guests)
        BY <4>2, <4>5, <4>6, GuestLinked
      <4> QED BY <4>1, <4>2, <4>3, <4>7
    <3> QED BY <3>3, <3>4, <3>5, <3>6 DEF LInv
  <2> QED BY <2>4, <2>5
<1> QED BY <1>6, <1>7

-----------------------------------------------------------------------------
(* The next backdrop. *)

(* The next picture comes after the others. *)
LEMMA ShownAdded ==
  ASSUME NEW B, NEW s, NEW d \in Nat, Shown(B, s, d), NEW q, q.url = s[d + 1],
         q.row \in Nat, \A m \in B : m.row \in Nat /\ m.row < q.row
  PROVE  Shown(B \cup {q}, s, d + 1)
<1>1. PICK R, T : R = {m.row : m \in B} /\ T = {m.row : m \in B \cup {q}}
  OBVIOUS
<1>2. T = R \cup {q.row} /\ q.row \notin R /\ IsFiniteSet(R) /\ Cardinality(R) = d
      /\ \A r \in R : r \in Nat /\ r < q.row
  BY <1>1 DEF Shown
<1>3. IsFiniteSet(T) /\ Cardinality(T) = d + 1
  BY <1>2, FS_AddElement
<1>4. ASSUME NEW m \in B \cup {q} PROVE m.url = s[Cardinality({r \in T : r < m.row}) + 1]
  <2>1. CASE m \in B
    <3>1. {r \in T : r < m.row} = {r \in R : r < m.row}
      <4>1. m.row \in Nat /\ m.row < q.row
        BY <2>1
      <4>2. ~ (q.row < m.row)
        BY <4>1
      <4> QED BY <1>2, <4>2
    <3>2. m.url = s[Cardinality({r \in R : r < m.row}) + 1]
      BY <1>1, <2>1 DEF Shown
    <3> QED BY <3>1, <3>2
  <2>2. CASE m = q
    <3>1. {r \in T : r < m.row} = R
      BY <1>2, <2>2
    <3> QED BY <1>2, <2>2, <3>1
  <2> QED BY <2>1, <2>2
<1>5. IsFiniteSet({m.row : m \in B \cup {q}}) /\ Cardinality({m.row : m \in B \cup {q}}) = d + 1
  BY <1>1, <1>3
<1>6. \A m \in B \cup {q} : m.url = s[Cardinality({r \in {n.row : n \in B \cup {q}} : r < m.row}) + 1]
  BY <1>1, <1>4
<1> QED BY <1>5, <1>6 DEF Shown

LEMMA InsertBackdropLists == ASSUME CInv, LInv, NEW w \in Worker, InsertBackdrop(w) PROVE LInv'
<1>0. PICK o, q : /\ o = Cur(w)
                  /\ q = [row |-> nextImage, of |-> "item", id |-> o.item, type |-> "backdrop", url |-> o.url]
  OBVIOUS
<1>1. work[w].todo # <<>> /\ Cur(w).op = "backdrop" /\ work' = [work EXCEPT ![w] = Next1(w, FALSE, <<>>)]
      /\ UNCHANGED <<rows, links, latest, astray>> /\ images' = images \cup {q}
  BY <1>0 DEF InsertBackdrop, Now, Cur, Done, NewImage, history
<1>2. w = "scraper" /\ o.item \in Item
  BY <1>0, <1>1, NowIs, OnlyScraper
<1>3. <<>> \in Seq(OpType) /\ Leaves(Cur(w), <<>>) /\ \A k \in DOMAIN <<>> : FALSE
  BY NothingLeft
<1>4. PeopleStay /\ \A i : PicsFrom(i)' = PicsFrom(i) /\ CastFrom(i)' = CastFrom(i) /\ CastOf(i)' = CastOf(i)
  BY <1>1 DEF PeopleStay, PicsFrom, CastFrom, CastOf
<1>5. /\ \A i : i # o.item => Pictures("item", i, "backdrop")' = Pictures("item", i, "backdrop")
      /\ Pictures("item", o.item, "backdrop")' = Pictures("item", o.item, "backdrop") \cup {q}
  BY <1>0, <1>1 DEF Pictures
<1>6. /\ EntryOK' /\ Ordered(Agenda)' /\ \A i : PicsHeld(i) \/ IsBackdrop(Cur(w), i)
      /\ \A i : CastHeld(i) \/ IsCast(Cur(w), i)
      /\ \A k \in DOMAIN Agenda' : \E j \in DOMAIN Agenda : Agenda'[k] = Agenda[j]
      /\ Agenda' = <<>> \o Tail(Agenda) /\ Cur(w) = Agenda[1] /\ Agenda # <<>>
  BY <1>1, <1>2, <1>3, Moved
<1>7. Typed /\ Fallback /\ \A i \in Item : PicsOK(i) /\ CastOK(i)
  BY DEF CInv, LInv, Lists
<1>8. Lists'
  <2>1. \A i \in Item : PicsFrom(i)' \in {PicsFrom(i), NoEntry}
    BY <1>4
  <2>2. Fallback'
    BY <1>3, <1>6, <1>7, <2>1, FallbackMoved
  <2> QED BY <1>6, <2>2 DEF Lists
<1>9. ASSUME NEW j \in Item PROVE CastOK(j)'
  <2>1. CastHeld(j)
    BY <1>1, <1>6 DEF IsCast
  <2> QED BY <1>4, <1>7, <2>1, CastKept
<1>10. ASSUME NEW j \in Item, j # o.item PROVE PicsOK(j)'
  <2>1. PicsHeld(j)
    BY <1>0, <1>6, <1>10 DEF IsBackdrop
  <2> QED BY <1>4, <1>5, <1>7, <1>10, <2>1, PicsKept
<1>11. PicsOK(o.item)'
  <2> SUFFICES ASSUME o.item \notin DOMAIN Nfo, PicsFrom(o.item)' # NoEntry
               PROVE  PicsPart(Agenda', Pictures("item", o.item, "backdrop")', o.item, UrlsOf(PicsFrom(o.item)'))
    BY DEF PicsOK, UrlsOf
  <2>1. PICK todo, next, B, e, i : /\ todo = Agenda /\ next = Agenda' /\ i = o.item
                                   /\ B = Pictures("item", o.item, "backdrop") /\ e = PicsFrom(o.item)
    OBVIOUS
  <2>2. PICK s : s = UrlsOf(e)
    OBVIOUS
  <2>3. e \in DOMAIN Tmdb /\ todo \in Seq(OpType) /\ todo # <<>> /\ PicsPart(todo, B, i, s)
        /\ next = <<>> \o Tail(todo) /\ o = todo[1] /\ IsBackdrop(todo[1], i)
    BY <1>0, <1>1, <1>2, <1>4, <1>6, <1>7, <2>1, <2>2, Sources, ScraperIs DEF PicsOK, IsBackdrop
  <2>4. s \in Seq(STRING)
    <3>1. s \in Seq(STRING \ {NoText})
      BY <2>2, <2>3, EntryLists
    <3> QED BY <3>1, SeqMonotonic
  <2>5. PICK d \in 0 .. Len(s) : PendingPics(todo, i, s, d) /\ Shown(B, s, d)
    BY <2>3 DEF PicsPart
  <2>6. d + 1 \in 0 .. Len(s) /\ todo[1].url = s[d + 1] /\ PendingPics(next, i, s, d + 1)
    BY <2>3, <2>4, <2>5, PicDone
  <2>7. q.row \in Nat /\ \A m \in B : m.row \in Nat /\ m.row < q.row
    <3>1. B \subseteq images /\ q.row = nextImage /\ nextImage \in Nat
      BY <1>0, <1>7, <2>1 DEF Pictures, Typed, DataTyped
    <3>2. \A m \in images : m.row \in Nat /\ m.row < nextImage
      BY <1>7 DEF Typed, DataTyped, ImageRow, CInv, DataInv, ImagesOK
    <3> QED BY <3>1, <3>2
  <2>8. d \in Nat /\ q.url = s[d + 1]
    BY <1>0, <2>3, <2>6
  <2>9. Shown(B \cup {q}, s, d + 1)
    BY <2>5, <2>7, <2>8, ShownAdded
  <2>10. PicsPart(next, B \cup {q}, i, s)
    BY <2>6, <2>9 DEF PicsPart
  <2> QED BY <1>4, <1>5, <2>1, <2>2, <2>10
<1> QED BY <1>8, <1>9, <1>10, <1>11 DEF LInv

-----------------------------------------------------------------------------
(* A replacement begins. *)

(* Where the operations of an agenda stand that follows more. *)
Follows(next, more, todo) ==
  /\ \A k \in 1 .. Len(more) : k \in DOMAIN next /\ next[k] = more[k]
  /\ \A k \in DOMAIN next : k > Len(more) => \E j \in DOMAIN todo : j > 1 /\ next[k] = todo[j]
  /\ \A k \in DOMAIN next : k \in Nat

LEMMA Places ==
  ASSUME NEW todo \in Seq(OpType), todo # <<>>, NEW more \in Seq(OpType), NEW next, next = more \o Tail(todo)
  PROVE  Follows(next, more, todo)
<1>1. /\ next \in Seq(OpType) /\ Len(more) \in Nat
      /\ Len(next) = Len(more) + Len(todo) - 1 /\ Len(todo) \in Nat /\ 1 \in DOMAIN todo
      /\ \A k \in DOMAIN next :
           \/ k \in DOMAIN more /\ next[k] = more[k]
           \/ k - Len(more) + 1 \in DOMAIN todo /\ k > Len(more) /\ next[k] = todo[k - Len(more) + 1]
  BY NextAgenda
<1>2. DOMAIN next = 1 .. Len(next) /\ DOMAIN more = 1 .. Len(more) /\ DOMAIN todo = 1 .. Len(todo)
  BY <1>1, LenProperties
<1>3. ASSUME NEW k \in 1 .. Len(more) PROVE k \in DOMAIN next /\ next[k] = more[k]
  <2>1. k \in DOMAIN next /\ ~ (k > Len(more))
    BY <1>1, <1>2
  <2> QED BY <1>1, <2>1
<1>4. ASSUME NEW k \in DOMAIN next, k > Len(more) PROVE \E j \in DOMAIN todo : j > 1 /\ next[k] = todo[j]
  <2>1. k \notin DOMAIN more /\ k \in Nat
    BY <1>1, <1>2, <1>4
  <2>2. k - Len(more) + 1 \in DOMAIN todo /\ next[k] = todo[k - Len(more) + 1]
    BY <1>1, <2>1
  <2>3. k - Len(more) + 1 > 1
    BY <1>1, <1>4, <2>1
  <2> QED BY <2>2, <2>3
<1>5. \A k \in DOMAIN next : k \in Nat
  BY <1>1, <1>2
<1> QED BY <1>3, <1>4, <1>5 DEF Follows

(* A replacement begins: nothing is shown, everything is to come. *)
LEMMA FreshPics ==
  ASSUME NEW todo \in Seq(OpType), todo # <<>>, NEW more \in Seq(OpType), NEW next, next = more \o Tail(todo),
         NEW i, NEW s \in Seq(STRING), Len(more) = Len(s),
         \A k \in 1 .. Len(s) : IsBackdrop(more[k], i) /\ more[k].url = s[k],
         \A j \in DOMAIN todo : j > 1 => ~ IsBackdrop(todo[j], i)
  PROVE  PicsPart(next, {}, i, s)
<1>1. Len(s) \in Nat
  BY LenProperties
<1>2. Follows(next, more, todo)
  BY Places
<1>3. PendingPics(next, i, s, 0)
  <2>1. ASSUME NEW k \in 1 .. Len(s) - 0 PROVE k \in DOMAIN next /\ IsBackdrop(next[k], i) /\ next[k].url = s[0 + k]
    <3>1. k \in 1 .. Len(s) /\ 0 + k = k
      BY <1>1
    <3> QED BY <1>2, <3>1 DEF Follows
  <2>2. ASSUME NEW k \in DOMAIN next, IsBackdrop(next[k], i) PROVE k <= Len(s) - 0
    <3>1. ~ (k > Len(more)) /\ k \in Nat
      BY <1>2, <2>2 DEF Follows
    <3> QED BY <1>1, <3>1
  <2> QED BY <2>1, <2>2 DEF PendingPics
<1>4. Shown({}, s, 0)
  <2>1. {m.row : m \in {}} = {}
    OBVIOUS
  <2> QED BY <2>1, FS_EmptySet DEF Shown
<1>5. 0 \in 0 .. Len(s)
  BY <1>1
<1> QED BY <1>3, <1>4, <1>5 DEF PicsPart

LEMMA FreshCast ==
  ASSUME NEW todo \in Seq(OpType), todo # <<>>, NEW more \in Seq(OpType), NEW next, next = more \o Tail(todo),
         NEW i, NEW g \in Seq(Known), Len(more) = Len(g), NEW P,
         \A k \in 1 .. Len(g) : IsCast(more[k], i) /\ more[k].tmdb = g[k] /\ more[k].role = "Actor",
         \A j \in DOMAIN todo : j > 1 => ~ IsCast(todo[j], i)
  PROVE  CastPart(next, 0, {}, P, i, g)
<1>1. Len(g) \in Nat
  BY LenProperties
<1>2. Follows(next, more, todo)
  BY Places
<1>3. PendingCast(next, 0, i, g, 0)
  <2>1. ASSUME NEW k \in 1 .. Len(g) - 0
        PROVE k \in DOMAIN next /\ IsCast(next[k], i) /\ next[k].tmdb = g[0 + k] /\ next[k].role = "Actor"
    <3>1. k \in 1 .. Len(g) /\ 0 + k = k
      BY <1>1
    <3> QED BY <1>2, <3>1 DEF Follows
  <2>2. ASSUME NEW k \in DOMAIN next, IsCast(next[k], i) PROVE k <= Len(g) - 0
    <3>1. ~ (k > Len(more)) /\ k \in Nat
      BY <1>2, <2>2 DEF Follows
    <3> QED BY <1>1, <3>1
  <2> QED BY <2>1, <2>2 DEF PendingCast
<1>4. Linked({}, P, i, g, 0)
  BY DEF Linked
<1>5. 0 \in 0 .. Len(g)
  BY <1>1
<1> QED BY <1>3, <1>4, <1>5 DEF CastPart

(* What attach_backdrops leaves to be inserted. *)
BackdropsTo(more, i, s) ==
  /\ more \in Seq(OpType) /\ Len(more) = Len(s) /\ s \in Seq(STRING)
  /\ \A k \in DOMAIN more : more[k].op = "backdrop" /\ more[k].item = i
  /\ \A k \in 1 .. Len(s) : more[k].url = s[k] /\ k \in DOMAIN more

LEMMA BackdropsLeft ==
  ASSUME NEW e \in DOMAIN Tmdb, NEW i \in Item, NEW more,
         more = Each(Chosen(Tmdb[e].pictures.backdrops), LAMBDA u : [Op("backdrop", i) EXCEPT !.url = u])
  PROVE  BackdropsTo(more, i, UrlsOf(e))
<1>1. PICK s : s = UrlsOf(e)
  OBVIOUS
<1>2. s \in Seq(STRING)
  <2>1. s \in Seq(STRING \ {NoText})
    BY <1>1, EntryLists
  <2> QED BY <2>1, SeqMonotonic
<1>3. more = [k \in DOMAIN s |-> [Op("backdrop", i) EXCEPT !.url = s[k]]]
  BY <1>1 DEF Each, UrlsOf
<1>4. DOMAIN s = 1 .. Len(s) /\ Len(s) \in Nat /\ \A k \in DOMAIN s : s[k] \in STRING
  BY <1>2
<1>5. ASSUME NEW u \in STRING, NEW o, o = [Op("backdrop", i) EXCEPT !.url = u]
      PROVE  o \in OpType /\ o.op = "backdrop" /\ o.item = i /\ o.url = u
  BY <1>5 DEF Op, OpType, OpName, Table, Text
<1>6. \A k \in DOMAIN s : more[k] \in OpType /\ more[k].op = "backdrop" /\ more[k].item = i /\ more[k].url = s[k]
  BY <1>3, <1>4, <1>5
<1>7. DOMAIN more = 1 .. Len(s) /\ more = [k \in 1 .. Len(s) |-> more[k]]
  BY <1>3, <1>4
<1>8. more \in Seq(OpType) /\ Len(more) = Len(s)
  BY <1>4, <1>6, <1>7
<1> QED BY <1>1, <1>2, <1>4, <1>6, <1>7, <1>8 DEF BackdropsTo

LEMMA AttachBackdropsLists == ASSUME CInv, LInv, NEW w \in Worker, AttachBackdrops(w) PROVE LInv'
<1>0. PICK i, e, more : /\ i = Cur(w).item /\ e = work[w].entry
                        /\ more = Each(Chosen(Tmdb[e].pictures.backdrops), LAMBDA u : [Op("backdrop", i) EXCEPT !.url = u])
  OBVIOUS
<1>1. /\ work[w].todo # <<>> /\ Cur(w).op = "backdrops" /\ UNCHANGED <<rows, links, astray>>
      /\ work' = [work EXCEPT ![w] = Next1(w, FALSE, more)]
      /\ images' = images \ Pictures("item", i, "backdrop") /\ latest' = [latest EXCEPT ![<<i, "backdrop">>] = e]
  BY <1>0 DEF AttachBackdrops, NewBackdrops, Now, Cur, DeleteBackdrops
<1>2. w = "scraper" /\ i \in Item /\ e \in DOMAIN Tmdb
  BY <1>0, <1>1, NowIs, OnlyScraper
<1>3. PICK s : s = UrlsOf(e)
  OBVIOUS
<1>4. /\ more \in Seq(OpType) /\ Len(more) = Len(s) /\ s \in Seq(STRING)
      /\ \A k \in DOMAIN more : more[k].op = "backdrop" /\ more[k].item = i
      /\ \A k \in 1 .. Len(s) : more[k].url = s[k] /\ k \in DOMAIN more
  <2>1. BackdropsTo(more, i, UrlsOf(e))
    BY <1>0, <1>2, BackdropsLeft
  <2> QED BY <1>3, <2>1 DEF BackdropsTo
<1>5. Leaves(Cur(w), more)
  BY <1>1, <1>4 DEF Leaves, Ours, Guest, IsCast
<1>6. /\ EntryOK' /\ Ordered(Agenda)'
      /\ \A j : PicsHeld(j) \/ IsBackdrop(Cur(w), j) \/ \E k \in DOMAIN more : IsBackdrop(more[k], j)
      /\ \A j : CastHeld(j) \/ IsCast(Cur(w), j) \/ \E k \in DOMAIN more : IsCast(more[k], j)
      /\ Agenda' = more \o Tail(Agenda) /\ Cur(w) = Agenda[1] /\ Agenda # <<>> /\ 1 \in DOMAIN Agenda
  BY <1>1, <1>2, <1>4, <1>5, Moved
<1>7. Typed /\ Ordered(Agenda) /\ \A j \in Item : PicsOK(j) /\ CastOK(j)
  BY DEF CInv, LInv, Lists
<1>8. PICK todo, next : todo = Agenda /\ next = Agenda'
  OBVIOUS
<1>9. todo \in Seq(OpType) /\ todo # <<>> /\ next = more \o Tail(todo)
  BY <1>6, <1>7, <1>8, ScraperIs
<1>10. \A j \in DOMAIN todo : j > 1 => Late(todo[j])
  <2>1. Ordered(todo) /\ todo[1].op = "backdrops" /\ 1 \in DOMAIN todo
    BY <1>1, <1>6, <1>7, <1>8
  <2>2. \A j \in DOMAIN todo : j \in Nat
    BY <1>9, LenProperties
  <2> QED BY <2>1, <2>2 DEF Ordered
<1>11. PicsPart(next, {}, i, s)
  <2>1. \A k \in 1 .. Len(s) : IsBackdrop(more[k], i) /\ more[k].url = s[k]
    BY <1>4 DEF IsBackdrop
  <2>2. \A j \in DOMAIN todo : j > 1 => ~ IsBackdrop(todo[j], i)
    BY <1>10 DEF Late, IsBackdrop
  <2> QED BY <1>4, <1>9, <2>1, <2>2, FreshPics
<1>12. Fallback'
  <2> SUFFICES ASSUME NEW k \in DOMAIN next, next[k].op = "image", next[k].type = "backdrop" PROVE FALSE
    BY <1>8, Zenon DEF Fallback
  <2>1. Follows(next, more, todo)
    BY <1>4, <1>9, Places
  <2>2. k \in DOMAIN next /\ k \in Nat /\ k # 0
    <3>1. next \in Seq(OpType)
      BY <1>4, <1>9, NextAgenda
    <3> QED BY <3>1, LenProperties
  <2>3. CASE k > Len(more)
    BY <1>10, <2>1, <2>3 DEF Late, Follows
  <2>4. CASE ~ (k > Len(more))
    <3>1. k \in 1 .. Len(more) /\ k \in DOMAIN more
      BY <1>4, <2>2, <2>4, LenProperties
    <3> QED BY <1>4, <2>1, <3>1 DEF Follows
  <2> QED BY <2>3, <2>4
<1>13. PeopleStay /\ \A j : CastFrom(j)' = CastFrom(j) /\ CastOf(j)' = CastOf(j)
  BY <1>1, <1>2 DEF PeopleStay, CastFrom, CastOf
<1>14. /\ \A j \in Item : PicsFrom(j)' = IF j = i THEN e ELSE PicsFrom(j)
       /\ \A j \in Item : j # i => Pictures("item", j, "backdrop")' = Pictures("item", j, "backdrop")
       /\ Pictures("item", i, "backdrop")' = {}
  BY <1>1, <1>2, <1>7 DEF PicsFrom, Pictures, Typed, DataTyped, Part
<1>15. ASSUME NEW j \in Item PROVE CastOK(j)'
  <2>1. CastHeld(j)
    BY <1>1, <1>4, <1>6 DEF IsCast
  <2> QED BY <1>7, <1>13, <2>1, CastKept
<1>16. ASSUME NEW j \in Item, j # i PROVE PicsOK(j)'
  <2>1. PicsHeld(j)
    BY <1>0, <1>4, <1>6, <1>16 DEF IsBackdrop
  <2> QED BY <1>7, <1>14, <1>16, <2>1, PicsKept
<1>17. PicsOK(i)'
  <2>1. PicsPart(Agenda', Pictures("item", i, "backdrop")', i, UrlsOf(PicsFrom(i)'))
    BY <1>2, <1>3, <1>8, <1>11, <1>14
  <2> QED BY <2>1 DEF PicsOK, UrlsOf
<1> QED BY <1>6, <1>12, <1>15, <1>16, <1>17 DEF LInv, Lists

(* What attach_episode_credits leaves to be linked. *)
GuestsTo(more, i, g) ==
  /\ more \in Seq(OpType) /\ Len(more) = Len(g) /\ g \in Seq(Known)
  /\ \A k \in DOMAIN more : IsCast(more[k], i)
  /\ \A k \in 1 .. Len(g) : more[k].tmdb = g[k] /\ more[k].role = "Actor" /\ k \in DOMAIN more

LEMMA GuestsLeft ==
  ASSUME NEW e \in DOMAIN Tmdb, NEW i \in Item, NEW more,
         more = Each(Tmdb[e].guests, LAMBDA p : ByTmdb("people", i, p, "Actor"))
  PROVE  GuestsTo(more, i, Tmdb[e].guests)
<1>1. PICK g : g = Tmdb[e].guests
  OBVIOUS
<1>2. g \in Seq(Known)
  BY <1>1, EntryLists
<1>3. more = [k \in DOMAIN g |-> ByTmdb("people", i, g[k], "Actor")]
  BY <1>1 DEF Each
<1>4. DOMAIN g = 1 .. Len(g) /\ Len(g) \in Nat /\ \A k \in DOMAIN g : g[k] \in Known
  BY <1>2
<1>5. ASSUME NEW p \in Known, NEW o, o = ByTmdb("people", i, p, "Actor")
      PROVE  o \in OpType /\ IsCast(o, i) /\ o.tmdb = p /\ o.role = "Actor"
  <2>1. p \in Nat /\ NameOf[p] \in STRING
    BY Shapes
  <2> QED BY <1>5, <2>1 DEF ByTmdb, Op, OpType, OpName, Table, Text, IsCast
<1>6. \A k \in DOMAIN g : more[k] \in OpType /\ IsCast(more[k], i) /\ more[k].tmdb = g[k] /\ more[k].role = "Actor"
  <2> SUFFICES ASSUME NEW k \in DOMAIN g
               PROVE  more[k] \in OpType /\ IsCast(more[k], i) /\ more[k].tmdb = g[k] /\ more[k].role = "Actor"
    OBVIOUS
  <2>1. g[k] \in Known /\ more[k] = ByTmdb("people", i, g[k], "Actor")
    BY <1>3, <1>4
  <2> QED BY <1>5, <2>1
<1>7. DOMAIN more = 1 .. Len(g) /\ more = [k \in 1 .. Len(g) |-> more[k]]
  BY <1>3, <1>4
<1>8. more \in Seq(OpType) /\ Len(more) = Len(g)
  <2>1. \A k \in 1 .. Len(g) : more[k] \in OpType
    BY <1>4, <1>6
  <2>2. Len(g) \in Nat
    BY <1>4
  <2>3. more \in [1 .. Len(g) -> OpType]
    BY <1>7, <2>1, Zenon
  <2>4. more \in Seq(OpType)
    <3>1. PICK n \in Nat : n = Len(g)
      BY <2>2
    <3>2. more \in [1 .. n -> OpType]
      BY <2>3, <3>1
    <3> QED BY ONLY <3>2
  <2>5. DOMAIN more = 1 .. Len(more) /\ Len(more) \in Nat
    BY <2>4, LenProperties
  <2> QED BY <1>7, <2>2, <2>4, <2>5
<1> QED BY <1>1, <1>2, <1>4, <1>6, <1>7, <1>8 DEF GuestsTo

LEMMA CreditsLists == ASSUME CInv, LInv, NEW w \in Worker, AttachEpisodeCredits(w) PROVE LInv'
<1>0. PICK i, e, more, g : /\ i = Cur(w).item /\ e = work[w].entry /\ g = Tmdb[e].guests
                           /\ more = Each(Tmdb[e].guests, LAMBDA p : ByTmdb("people", i, p, "Actor"))
  OBVIOUS
<1>1. work[w].todo # <<>> /\ Cur(w).op = "credits" /\ UNCHANGED <<rows, images, astray>>
  BY DEF AttachEpisodeCredits, Now, Cur
<1>2. w = "scraper" /\ i \in Item /\ e \in DOMAIN Tmdb /\ Ours(Cur(w))
  BY <1>0, <1>1, NowIs, OnlyScraper
<1>3. CASE g = <<>>
  <2>1. work' = [work EXCEPT ![w] = Next1(w, FALSE, <<>>)] /\ UNCHANGED <<links, latest>>
    <3>1. Tmdb[work[w].entry].guests = <<>>
      BY <1>0, <1>3
    <3> QED BY <3>1 DEF AttachEpisodeCredits, Done
  <2> QED BY <1>1, <2>1, NothingLeft, QuietStill
<1>4. CASE g # <<>>
  <2>1. /\ work' = [work EXCEPT ![w] = Next1(w, FALSE, more)]
        /\ links' = {l \in links : ~(l.table = "people" /\ l.item = i)} /\ latest' = [latest EXCEPT ![<<i, "cast">>] = e]
    <3>1. Tmdb[work[w].entry].guests # <<>>
      BY <1>0, <1>4
    <3>2. /\ ClearItemPeople(Cur(w).item)
          /\ work' = [work EXCEPT ![w] =
               Next1(w, FALSE, Each(Tmdb[work[w].entry].guests, LAMBDA p : ByTmdb("people", Cur(w).item, p, "Actor")))]
          /\ latest' = [latest EXCEPT ![<<Cur(w).item, "cast">>] = work[w].entry]
      BY <3>1 DEF AttachEpisodeCredits
    <3> QED BY <1>0, <3>2 DEF ClearItemPeople
  <2>2. GuestsTo(more, i, g) /\ more \in Seq(OpType)
    <3>1. GuestsTo(more, i, Tmdb[e].guests)
      BY <1>0, <1>2, GuestsLeft
    <3> QED BY <1>0, <3>1 DEF GuestsTo
  <2>3. Row[i].type = "episode" /\ Cur(w).table # "people"
    BY <1>0, <1>1, <1>2 DEF Ours
  <2>4. \A k \in DOMAIN more : more[k].op = "upsert" /\ IsCast(more[k], i) /\ Guest(more[k]) /\ more[k].item = i
    BY <2>2, <2>3 DEF GuestsTo, IsCast, Guest
  <2>5. Leaves(Cur(w), more)
    BY <1>1, <1>2, <2>4 DEF Leaves, Ours, Guest, IsCast
  <2>6. /\ EntryOK' /\ Ordered(Agenda)'
        /\ \A j : PicsHeld(j) \/ IsBackdrop(Cur(w), j) \/ \E k \in DOMAIN more : IsBackdrop(more[k], j)
        /\ \A j : CastHeld(j) \/ IsCast(Cur(w), j) \/ \E k \in DOMAIN more : IsCast(more[k], j)
        /\ \A k \in DOMAIN Agenda' : \/ \E j \in DOMAIN Agenda : Agenda'[k] = Agenda[j]
                                     \/ w = "scraper" /\ \E j \in DOMAIN more : Agenda'[k] = more[j]
        /\ Agenda' = more \o Tail(Agenda) /\ Cur(w) = Agenda[1] /\ Agenda # <<>> /\ 1 \in DOMAIN Agenda
    BY <1>1, <1>2, <2>1, <2>2, <2>5, Moved
  <2>7. Typed /\ Ordered(Agenda) /\ Fallback /\ \A j \in Item : PicsOK(j) /\ CastOK(j)
    BY DEF CInv, LInv, Lists
  <2>8. /\ \A j \in Item : PicsFrom(j)' = PicsFrom(j) /\ CastFrom(j)' = IF j = i THEN e ELSE CastFrom(j)
        /\ \A j : Pictures("item", j, "backdrop")' = Pictures("item", j, "backdrop")
        /\ \A j : j # i => CastOf(j)' = CastOf(j)
        /\ CastOf(i)' = {} /\ PeopleStay
    BY <1>1, <1>2, <2>1, <2>7 DEF PeopleStay, PicsFrom, CastFrom, CastOf, Pictures, Typed, DataTyped, Part
  <2>9. Lists'
    <3>1. \A j \in Item : PicsFrom(j)' \in {PicsFrom(j), NoEntry}
      BY <2>8
    <3>2. \A k \in DOMAIN more : w = "scraper" /\ more[k].op = "image" /\ more[k].type = "backdrop"
                                  /\ more[k].item \notin DOMAIN Nfo => PicsFrom(more[k].item)' = NoEntry
      BY <2>4
    <3>3. \A k \in DOMAIN Agenda' : \/ \E j \in DOMAIN Agenda : Agenda'[k] = Agenda[j]
                                    \/ w = "scraper" /\ \E j \in DOMAIN more : Agenda'[k] = more[j]
      BY <2>6, Zenon
    <3>4. Fallback'
      BY <2>2, <2>7, <3>1, <3>2, <3>3, FallbackMoved
    <3> QED BY <2>6, <3>4 DEF Lists
  <2>10. ASSUME NEW j \in Item PROVE PicsOK(j)'
    <3>1. PicsHeld(j)
      BY <1>1, <2>4, <2>6 DEF IsBackdrop
    <3> QED BY <2>7, <2>8, <3>1, PicsKept
  <2>11. ASSUME NEW j \in Item, j # i PROVE CastOK(j)'
    <3>1. CastHeld(j)
      BY <1>1, <2>4, <2>6, <2>11 DEF IsCast
    <3> QED BY <2>7, <2>8, <2>11, <3>1, CastKept
  <2>12. PICK todo, next, after : todo = Agenda /\ next = Agenda' /\ after = work'["scraper"].order
    OBVIOUS
  <2>13. todo \in Seq(OpType) /\ todo # <<>> /\ next = more \o Tail(todo)
    BY <2>6, <2>7, <2>12, ScraperIs
  <2>14. \A j \in DOMAIN todo : j > 1 => ~ IsCast(todo[j], i)
    <3>1. Ordered(todo) /\ ~ Guest(todo[1])
      BY <1>1, <2>6, <2>7, <2>12 DEF Guest, IsCast
    <3>2. ASSUME NEW j \in DOMAIN todo, j > 1, IsCast(todo[j], i) PROVE FALSE
      <4>1. 1 \in 1 .. j - 1
        <5>1. j \in Nat
          BY <2>13, LenProperties
        <5> QED BY <3>2, <5>1
      <4>2. Guest(todo[j])
        BY <2>3, <3>2 DEF Guest, IsCast
      <4> QED BY <3>1, <4>1, <4>2 DEF Ordered
    <3> QED BY <3>2
  <2>15. CastPart(next, 0, {}, rows["people"], i, g)
    <3>1. \A k \in 1 .. Len(g) : IsCast(more[k], i) /\ more[k].tmdb = g[k] /\ more[k].role = "Actor"
      BY <2>2 DEF GuestsTo
    <3>2. g \in Seq(Known) /\ Len(more) = Len(g)
      BY <2>2 DEF GuestsTo
    <3> QED BY <2>2, <2>13, <2>14, <3>1, <3>2, FreshCast
  <2>16. after = 0
    <3>1. next = more \o Tail(work[w].todo)
      BY <1>2, <2>12, <2>13 DEF Agenda
    <3>2. Next1(w, FALSE, more).order = IF next # <<>> /\ Head(next).table = Cur(w).table /\ Head(next).item = Cur(w).item
                                        THEN work[w].order + (IF FALSE THEN 1 ELSE 0) ELSE 0
      BY <3>1, NextOrder
    <3>3. after = Next1(w, FALSE, more).order
      BY <1>2, <2>1, <2>7, <2>12 DEF Typed
    <3>4. Head(next).table = "people"
      <4>1. Follows(next, more, todo) /\ next \in Seq(OpType)
        BY <2>2, <2>13, Places, NextAgenda
      <4>2. 1 \in 1 .. Len(more)
        <5>1. g \in Seq(Known) /\ Len(more) = Len(g)
          BY <2>2 DEF GuestsTo
        <5> QED BY <1>4, <5>1
      <4>3. 1 \in DOMAIN next /\ next[1] = more[1] /\ 1 \in DOMAIN more
        BY <2>2, <4>1, <4>2 DEF Follows
      <4>4. Head(next) = next[1]
        BY <4>1, <4>3
      <4> QED BY <2>4, <4>3, <4>4 DEF IsCast
    <3> QED BY <2>3, <3>2, <3>3, <3>4
  <2>17. CastOK(i)'
    <3>1. CastPart(Agenda', work'["scraper"].order, CastOf(i)', rows'["people"], i, Tmdb[CastFrom(i)'].guests)
      BY <1>0, <1>1, <1>2, <2>8, <2>12, <2>15, <2>16
    <3> QED BY <2>3, <3>1 DEF CastOK
  <2> QED BY <2>9, <2>10, <2>11, <2>17 DEF LInv
<1> QED BY <1>3, <1>4

-----------------------------------------------------------------------------
(* Tasks begin, and the process stops. *)

(* The agendas that the scraper begins with: guests and pictures come later. *)
OpeningOps == {o \in OpType : o.op \in {"apply", "season", "episode", "upsert"} /\ Ours(o) /\ ~ Guest(o)}
Fresh(todo) ==
  todo \in Seq(OpType) /\ Ordered(todo) /\ \A k \in DOMAIN todo : todo[k].op \notin {"image", "backdrop"} /\ ~ Guest(todo[k])

LEMMA OpeningFresh ==
  ASSUME NEW i \in Item, NEW front \in Seq(OpeningOps), NEW todo, todo = front \o <<Op("pictures", i)>>
  PROVE  Fresh(todo)
<1>1. PICK o : o = Op("pictures", i)
  OBVIOUS
<1>2. o \in OpType /\ o.op = "pictures"
  BY <1>1, OpFields DEF OpName
<1>3. front \in Seq(OpType) /\ \A k \in DOMAIN front : front[k] \in OpeningOps
  <2>1. OpeningOps \subseteq OpType
    BY DEF OpeningOps
  <2> QED BY <2>1, SeqMonotonic, Elements
<1>4. /\ todo \in Seq(OpType) /\ Len(todo) = Len(front) + 1 /\ Len(front) \in Nat
      /\ \A k \in 1 .. Len(front) + 1 : todo[k] = IF k <= Len(front) THEN front[k] ELSE o
  <2>1. todo = front \o <<o>> /\ <<o>> \in Seq(OpType) /\ Len(<<o>>) = 1 /\ <<o>>[1] = o
    BY <1>1, <1>2
  <2>2. /\ Len(todo) = Len(front) + 1 /\ Len(front) \in Nat
        /\ \A k \in 1 .. Len(front) + 1 : todo[k] = IF k <= Len(front) THEN front[k] ELSE <<o>>[k - Len(front)]
    BY <1>3, <2>1, ConcatProperties, LenProperties
  <2>3. \A k \in 1 .. Len(front) + 1 : k <= Len(front) \/ k - Len(front) = 1
    BY <2>2
  <2> QED BY <1>3, <2>1, <2>2, <2>3, ConcatProperties
<1>5. DOMAIN todo = 1 .. Len(front) + 1 /\ DOMAIN front = 1 .. Len(front)
  BY <1>3, <1>4, LenProperties
<1>6. \A k \in DOMAIN todo : todo[k] \in OpeningOps \/ (k = Len(front) + 1 /\ todo[k] = o)
  <2> SUFFICES ASSUME NEW k \in DOMAIN todo PROVE todo[k] \in OpeningOps \/ (k = Len(front) + 1 /\ todo[k] = o)
    OBVIOUS
  <2>1. CASE k <= Len(front)
    <3>1. k \in DOMAIN front /\ todo[k] = front[k]
      BY <1>4, <1>5, <2>1
    <3> QED BY <1>3, <3>1
  <2>2. CASE ~ (k <= Len(front))
    BY <1>4, <1>5, <2>2
  <2> QED BY <2>1, <2>2
<1>7. Ours(o) /\ ~ Guest(o)
  BY <1>2 DEF Ours, Guest, IsCast
<1>8. \A k \in DOMAIN todo : /\ Ours(todo[k]) /\ ~ Guest(todo[k]) /\ todo[k].op \notin {"image", "backdrop"}
                             /\ todo[k].op \in {"pictures", "backdrops"} => k = Len(front) + 1
  BY <1>2, <1>6, <1>7 DEF OpeningOps
<1>9. \A j, k \in DOMAIN todo : j < k => j # Len(front) + 1
  BY <1>4, <1>5
<1>10. Ordered(todo)
  BY <1>8, <1>9 DEF Ordered
<1> QED BY <1>4, <1>8, <1>10 DEF Fresh

LEMMA BeginStill ==
  ASSUME CInv, LInv, NEW w \in Worker, NEW todo, NEW e \in DOMAIN Tmdb \cup {NoEntry}, Begin(w, todo, e),
         w # "scraper" => e = NoEntry, w = "scraper" => Fresh(todo)
  PROVE  LInv'
<1>1. PICK r : r = [Idle EXCEPT !.todo = todo, !.entry = e]
  OBVIOUS
<1>2. r.todo = todo /\ r.entry = e
  BY <1>1 DEF Idle
<1>3. UNCHANGED <<rows, links, images, latest, astray>> /\ work' = [work EXCEPT ![w] = r] /\ work[w].todo = <<>>
  BY <1>1 DEF Begin, db, history
<1>4. Typed /\ EntryOK
  BY DEF CInv, LInv, Lists
<1>5. work'[w] = r /\ \A v \in Worker \ {w} : work'[v] = work[v]
  BY <1>3, <1>4 DEF Typed
<1>6. EntryOK'
  BY <1>2, <1>4, <1>5 DEF EntryOK
<1>7. PeopleStay /\ \A i : /\ PicsFrom(i)' = PicsFrom(i) /\ CastFrom(i)' = CastFrom(i) /\ CastOf(i)' = CastOf(i)
                           /\ Pictures("item", i, "backdrop")' = Pictures("item", i, "backdrop")
  BY <1>3, Untouched
<1>8. CASE w # "scraper"
  <2>1. Agenda' = Agenda /\ work'["scraper"].order = work["scraper"].order
    BY <1>5, <1>8 DEF Agenda, Worker
  <2>2. Lists' /\ \A i \in Item : PicsHeld(i) /\ CastHeld(i)
    BY <1>4, <1>6, <1>7, <2>1, Stays
  <2> QED BY <1>7, <2>2, Still
<1>9. CASE w = "scraper"
  <2>1. Agenda = <<>> /\ Agenda' = todo /\ Fresh(todo)
    BY <1>2, <1>3, <1>5, <1>9 DEF Agenda
  <2>2. Fallback'
    BY <2>1, Zenon DEF Fallback, Fresh
  <2>3. Lists'
    BY <1>6, <2>1, <2>2 DEF Lists, Fresh
  <2>4. 1 \notin DOMAIN <<>>
    OBVIOUS
  <2>5. \A i \in Item : PicsHeld(i)
    BY <2>1, <2>4 DEF PicsHeld, PicsSame, Fresh, IsBackdrop
  <2>6. \A i \in Item : Row[i].type = "episode" => CastHeld(i)
    BY <2>1, <2>4 DEF CastHeld, CastSame, Fresh, IsCast, Guest
  <2> QED BY <1>7, <2>3, <2>5, <2>6, Still
<1> QED BY <1>8, <1>9

LEMMA PlainFront ==
  ASSUME NEW i \in Item
  PROVE  /\ Op("apply", i) \in OpeningOps /\ Op("season", i) \in OpeningOps
         /\ Row[i].type = "episode" => Op("episode", i) \in OpeningOps
<1>1. ASSUME NEW op \in {"apply", "season", "episode"}, op = "episode" => Row[i].type = "episode"
      PROVE  Op(op, i) \in OpeningOps
  <2>1. Op(op, i) \in OpType /\ Op(op, i).op = op /\ Op(op, i).item = i
    BY OpFields DEF OpName
  <2> QED BY <1>1, <2>1 DEF OpeningOps, Ours, Guest, IsCast
<1> QED BY <1>1

LEMMA RelationsFront ==
  ASSUME NEW i \in Item, NEW e \in DOMAIN Tmdb, Row[i].type # "episode"
  PROVE  Relations(i, e) \in Seq(OpeningOps)
<1>1. Offers(i, e) \subseteq OpeningOps
  BY DEF Offers, OpeningOps, Ours, Guest, IsCast
<1> QED BY <1>1, RelationsOffered, SeqMonotonic

LEMMA BeginsLists ==
  ASSUME CInv, LInv,
         \/ \E m \in Matches, d \in BOOLEAN : ScrapeMovie(m[1], m[2], d) \/ ScrapeTv(m[1], m[2], d)
         \/ \E i \in DOMAIN Nfo : ReadNfo(i)
         \/ \E i \in Deletable : DeleteItem(i)
         \/ \E m \in Matches : Identify(m[1])
  PROVE  LInv'
<1>0. {"scraper", "scanner", "admin"} = Worker
  BY DEF Worker
<1>1. ASSUME NEW i \in Item, NEW e \in DOMAIN Tmdb, NEW d, ScrapeMovie(i, e, d) PROVE LInv'
  <2>1. Row[i].type # "episode" /\ Begin("scraper", MovieAgenda(i, e, d), e)
    BY <1>1 DEF ScrapeMovie
  <2>2. Op("apply", i) \in OpeningOps /\ Relations(i, e) \in Seq(OpeningOps)
    BY <2>1, PlainFront, RelationsFront
  <2>3. PICK front \in Seq(OpeningOps) : MovieAgenda(i, e, d) = front \o <<Op("pictures", i)>>
    BY <2>2, MovieFront
  <2>4. Fresh(MovieAgenda(i, e, d))
    BY <2>3, OpeningFresh
  <2> QED BY <1>0, <2>1, <2>4, BeginStill
<1>2. ASSUME NEW i \in Item, NEW e \in DOMAIN Tmdb, NEW d, ScrapeTv(i, e, d) PROVE LInv'
  <2>1. Row[i].type # "episode" /\ Begin("scraper", TvAgenda(i, e, d), e)
    BY <1>2 DEF ScrapeTv
  <2>2. Op("apply", i) \in OpeningOps /\ Relations(i, e) \in Seq(OpeningOps)
    BY <2>1, PlainFront, RelationsFront
  <2>3. (\A s \in Item : Op("season", s) \in OpeningOps) /\ \A s \in Item : Row[s].type = "episode" => Op("episode", s) \in OpeningOps
    BY PlainFront
  <2>4. PICK front \in Seq(OpeningOps) : TvAgenda(i, e, d) = front \o <<Op("pictures", i)>>
    BY SMTT(30), <2>2, <2>3, TvFront
  <2>5. Fresh(TvAgenda(i, e, d))
    BY <2>4, OpeningFresh
  <2> QED BY <1>0, <2>1, <2>5, BeginStill
<1>3. ASSUME NEW w \in {"scanner", "admin"}, NEW todo, Begin(w, todo, NoEntry) PROVE LInv'
  BY <1>0, <1>3, BeginStill
<1>4. ASSUME NEW i \in DOMAIN Nfo, ReadNfo(i) PROVE LInv'
  BY <1>3, <1>4 DEF ReadNfo
<1>5. ASSUME NEW i \in Item, DeleteItem(i) PROVE LInv'
  BY <1>3, <1>5 DEF DeleteItem
<1>6. ASSUME NEW i \in Item, Identify(i) PROVE LInv'
  BY <1>3, <1>6 DEF Identify
<1> QED BY <1>1, <1>2, <1>4, <1>5, <1>6, Shapes

LEMMA CrashLists == ASSUME CInv, LInv, Crash PROVE LInv'
<1>1. /\ UNCHANGED <<rows, links, images, astray>> /\ work' = [v \in Worker |-> Idle]
      /\ latest' = [p \in DOMAIN latest |-> IF Underway(p[1]) THEN NoEntry ELSE latest[p]]
  BY DEF Crash, db
<1>2. Typed
  BY DEF CInv
<1>3. "scraper" \in Worker /\ Agenda' = <<>> /\ EntryOK'
  BY <1>1 DEF Agenda, Worker, EntryOK, Idle
<1>4. DOMAIN <<>> = {}
  OBVIOUS
<1>5. Lists'
  <2>1. Ordered(Agenda)'
    BY <1>3, <1>4 DEF Ordered
  <2>2. Fallback'
    BY <1>3, <1>4 DEF Fallback
  <2> QED BY <1>3, <2>1, <2>2 DEF Lists
<1>6. PeopleStay /\ \A i : CastOf(i)' = CastOf(i) /\ Pictures("item", i, "backdrop")' = Pictures("item", i, "backdrop")
  BY <1>1 DEF PeopleStay, CastOf, Pictures
<1>7. ASSUME NEW i \in Item
      PROVE  /\ PicsFrom(i)' = IF Underway(i) THEN NoEntry ELSE PicsFrom(i)
             /\ CastFrom(i)' = IF Underway(i) THEN NoEntry ELSE CastFrom(i)
  <2>1. <<i, "backdrop">> \in DOMAIN latest /\ <<i, "cast">> \in DOMAIN latest
    BY <1>2 DEF Typed, DataTyped, Part
  <2>2. latest'[<<i, "backdrop">>] = IF Underway(i) THEN NoEntry ELSE latest[<<i, "backdrop">>]
    BY <1>1, <2>1
  <2>3. latest'[<<i, "cast">>] = IF Underway(i) THEN NoEntry ELSE latest[<<i, "cast">>]
    BY <1>1, <2>1
  <2> QED BY <2>2, <2>3 DEF PicsFrom, CastFrom
<1>8. ASSUME NEW i \in Item, ~ Underway(i) PROVE PicsHeld(i) /\ CastHeld(i)
  <2>1. \A k \in DOMAIN Agenda : Agenda[k].item # i
    BY <1>3, <1>8 DEF Underway, Agenda
  <2> QED BY <1>3, <1>4, <2>1 DEF PicsHeld, CastHeld, PicsSame, CastSame, IsBackdrop, IsCast
<1> QED BY <1>5, <1>6, <1>7, <1>8, Still

(* A statement fails: what is not whole is not taken to be. *)
LEMMA GivenUp ==
  ASSUME CInv, LInv, UNCHANGED <<rows, links, images, astray>>, NEW w \in Worker, work[w].todo # <<>>,
         NEW more \in Seq(OpType), NEW linked, work' = [work EXCEPT ![w] = Next1(w, linked, more)],
         w = "scraper" => Leaves(Cur(w), more),
         \A k \in DOMAIN more : more[k].op = "backdrop",
         \A i \in Item : PicsFrom(i)' \in {PicsFrom(i), NoEntry} /\ CastFrom(i)' \in {CastFrom(i), NoEntry},
         \A i \in Item : PicsFrom(i)' # NoEntry =>
           ~ IsBackdrop(Cur(w), i) /\ \A k \in DOMAIN more : ~ IsBackdrop(more[k], i),
         \A i \in Item : CastFrom(i)' # NoEntry => ~ IsCast(Cur(w), i)
  PROVE  LInv'
<1>1. Typed /\ Fallback
  BY DEF CInv, LInv, Lists
<1>2. /\ EntryOK' /\ Ordered(Agenda)'
      /\ \A i : PicsHeld(i) \/ (w = "scraper" /\ (IsBackdrop(Cur(w), i) \/ \E k \in DOMAIN more : IsBackdrop(more[k], i)))
      /\ \A i : CastHeld(i) \/ (w = "scraper" /\ (IsCast(Cur(w), i) \/ \E k \in DOMAIN more : IsCast(more[k], i)))
      /\ \A k \in DOMAIN Agenda' : \/ \E j \in DOMAIN Agenda : Agenda'[k] = Agenda[j]
                                   \/ w = "scraper" /\ \E j \in DOMAIN more : Agenda'[k] = more[j]
  BY Moved
<1>3. \A k \in DOMAIN more : w = "scraper" /\ more[k].op = "image" /\ more[k].type = "backdrop"
                             /\ more[k].item \notin DOMAIN Nfo => PicsFrom(more[k].item)' = NoEntry
  OBVIOUS
<1>4. Lists'
  <2>1. \A i \in Item : PicsFrom(i)' \in {PicsFrom(i), NoEntry}
    OBVIOUS
  <2>2. \A k \in DOMAIN Agenda' : \/ \E j \in DOMAIN Agenda : Agenda'[k] = Agenda[j]
                                  \/ w = "scraper" /\ \E j \in DOMAIN more : Agenda'[k] = more[j]
    BY <1>2
  <2>3. Fallback'
    BY ONLY <1>1, <1>3, <2>1, <2>2, more \in Seq(OpType), FallbackMoved
  <2> QED BY <1>2, <2>3 DEF Lists
<1>5. PeopleStay /\ \A i : /\ CastOf(i)' = CastOf(i)
                           /\ Pictures("item", i, "backdrop")' = Pictures("item", i, "backdrop")
  BY DEF PeopleStay, CastOf, Pictures
<1>6. \A i \in Item : PicsFrom(i)' # NoEntry => PicsHeld(i)
  BY <1>2
<1>7. \A i \in Item : CastFrom(i)' # NoEntry => CastHeld(i)
  <2>1. \A k \in DOMAIN more : \A i : ~ IsCast(more[k], i)
    BY DEF IsCast
  <2> QED BY <1>2, <2>1
<1> QED BY <1>4, <1>5, <1>6, <1>7, Still

LEMMA StayUnknown ==
  ASSUME CInv, LInv, UNCHANGED <<rows, links, images, astray>>, SameAgendas,
         \A i \in Item : PicsFrom(i)' \in {PicsFrom(i), NoEntry} /\ CastFrom(i)' \in {CastFrom(i), NoEntry}
  PROVE  LInv'
<1>1. Agenda' = Agenda /\ work'["scraper"].order = work["scraper"].order
  BY DEF Agenda, Worker, SameAgendas
<1>2. EntryOK'
  BY DEF LInv, Lists, EntryOK, SameAgendas
<1>3. Lists' /\ \A i \in Item : PicsHeld(i) /\ CastHeld(i)
  BY <1>1, <1>2, Stays DEF CInv
<1>4. PeopleStay /\ \A i : /\ CastOf(i)' = CastOf(i)
                           /\ Pictures("item", i, "backdrop")' = Pictures("item", i, "backdrop")
  BY DEF PeopleStay, CastOf, Pictures
<1> QED BY <1>3, <1>4, Still

LEMMA IncompleteIs ==
  ASSUME Typed, NEW i \in Item, NEW part \in Part, Incomplete(i, part)
  PROVE  /\ \A j \in Item : PicsFrom(j)' \in {PicsFrom(j), NoEntry} /\ CastFrom(j)' \in {CastFrom(j), NoEntry}
         /\ part = "backdrop" => PicsFrom(i)' = NoEntry
         /\ part = "cast" => CastFrom(i)' = NoEntry
  BY DEF Incomplete, PicsFrom, CastFrom, Typed, DataTyped, Part

LEMMA UnlinkedIs ==
  ASSUME Typed, NEW w, Cur(w).item \in Item, Unlinked(w)
  PROVE  /\ \A j \in Item : PicsFrom(j)' \in {PicsFrom(j), NoEntry} /\ CastFrom(j)' \in {CastFrom(j), NoEntry}
         /\ \A j \in Item : CastFrom(j)' # NoEntry => ~ IsCast(Cur(w), j)
<1>1. CASE Cur(w).table = "people"
  <2>1. Incomplete(Cur(w).item, "cast") /\ "cast" \in Part
    BY <1>1 DEF Unlinked, Part
  <2> QED BY <2>1, IncompleteIs DEF IsCast
<1>2. CASE Cur(w).table # "people"
  BY <1>2 DEF Unlinked, PicsFrom, CastFrom, IsCast
<1> QED BY <1>1, <1>2

LEMMA UpsertFailsLists == ASSUME CInv, LInv, NEW w \in Worker, StatementFails(w), UpsertFails(w) PROVE LInv'
<1>1. UNCHANGED <<rows, links, images, astray>> /\ Typed /\ work[w].todo # <<>>
  BY FailureQuiet DEF UpsertFails, At
<1>2. CASE latest' = latest /\ \E at : work' = Goto(w, at)
  <2>1. SameAgendas
    BY <1>1, <1>2, AtSame
  <2> QED BY <1>1, <1>2, <2>1, QuietStay
<1>3. CASE latest' = latest /\ work' = [work EXCEPT ![w].at = "newest", ![w].crossed = TRUE]
  <2>1. \A v \in Worker : work[v] \in WorkType
    BY <1>1 DEF Typed
  <2>2. SameAgendas
    BY <1>1, <1>3, <2>1 DEF SameAgendas, WorkType, Typed
  <2> QED BY <1>1, <1>3, <2>2, QuietStay
<1>4. CASE work[w].at = "newest" /\ Done(w) /\ Unlinked(w)
  <2>1. Cur(w).item \in Item /\ Upserts(Cur(w))
    BY <1>1, <1>4, NowIs DEF SpotOK, Cur
  <2>2. work' = [work EXCEPT ![w] = Next1(w, FALSE, <<>>)]
    BY <1>4 DEF Done
  <2>3. <<>> \in Seq(OpType) /\ Leaves(Cur(w), <<>>) /\ \A k \in DOMAIN <<>> : FALSE
    BY NothingLeft
  <2>4. \A i : ~ IsBackdrop(Cur(w), i)
    BY <2>1 DEF IsBackdrop, Upserts
  <2> QED BY <1>1, <1>4, <2>1, <2>2, <2>3, <2>4, UnlinkedIs, GivenUp
<1>5. \/ latest' = latest /\ \E at : work' = Goto(w, at)
      \/ latest' = latest /\ work' = [work EXCEPT ![w].at = "newest", ![w].crossed = TRUE]
      \/ work[w].at = "newest" /\ Done(w) /\ Unlinked(w)
  BY DEF UpsertFails, At
<1> QED BY <1>2, <1>3, <1>4, <1>5

LEMMA LinkFailsLists == ASSUME CInv, LInv, NEW w \in Worker, StatementFails(w), LinkFails(w) PROVE LInv'
<1>1. UNCHANGED <<rows, links, images, astray>> /\ Typed /\ work[w].todo # <<>> /\ work[w].at = "link"
  BY FailureQuiet DEF LinkFails, At
<1>2. Cur(w).item \in Item /\ Upserts(Cur(w))
  BY <1>1, NowIs DEF SpotOK, Cur
<1>3. /\ \A j \in Item : PicsFrom(j)' \in {PicsFrom(j), NoEntry} /\ CastFrom(j)' \in {CastFrom(j), NoEntry}
      /\ \A j \in Item : CastFrom(j)' # NoEntry => ~ IsCast(Cur(w), j)
  BY <1>1, <1>2, UnlinkedIs DEF LinkFails
<1>4. CASE work' = Goto(w, "look")
  <2>1. SameAgendas
    BY <1>1, <1>4, AtSame
  <2> QED BY <1>1, <1>3, <2>1, StayUnknown
<1>5. CASE work' = [work EXCEPT ![w] = Next1(w, TRUE, <<>>)]
  <2>1. <<>> \in Seq(OpType) /\ Leaves(Cur(w), <<>>) /\ \A k \in DOMAIN <<>> : FALSE
    BY NothingLeft
  <2>2. \A i : ~ IsBackdrop(Cur(w), i)
    BY <1>2 DEF IsBackdrop, Upserts
  <2> QED BY <1>1, <1>3, <1>5, <2>1, <2>2, GivenUp
<1> QED BY <1>4, <1>5 DEF LinkFails

LEMMA PictureFailsLists == ASSUME CInv, LInv, NEW w \in Worker, StatementFails(w), PictureFails(w) PROVE LInv'
<1>1. UNCHANGED <<rows, links, images, astray>> /\ Typed /\ work[w].todo # <<>>
  BY FailureQuiet DEF PictureFails, At, Now
<1>2. CASE latest' = latest /\ work' = Goto(w, "picture")
  <2>1. SameAgendas
    BY <1>1, <1>2, AtSame
  <2> QED BY <1>1, <1>2, <2>1, QuietStay
<1>3. CASE work[w].at \in {"picture", "repicture"} /\ AfterPicture(w) /\ latest' = latest
  <2>1. \A i \in Item : (i \notin DOMAIN Nfo /\ PicsFrom(i) # NoEntry) =>
          Pictures("item", i, "backdrop")' = Pictures("item", i, "backdrop")
    BY <1>1 DEF Pictures
  <2> QED BY <1>1, <1>3, <2>1, AfterPictureStill
<1>4. CASE \/ Now(w, {"backdrops"}) /\ work' = [work EXCEPT ![w] = Next1(w, FALSE, NewBackdrops(w))]
              /\ Incomplete(Cur(w).item, "backdrop")
           \/ Now(w, {"backdrop"}) /\ Done(w) /\ Incomplete(Cur(w).item, "backdrop")
  <2>1. PICK i, e : i = Cur(w).item /\ e = work[w].entry
    OBVIOUS
  <2>2. Cur(w).op \in {"backdrops", "backdrop"} /\ i \in Item /\ "backdrop" \in Part
    BY <1>1, <1>4, <2>1, NowIs DEF Now, Cur, Part
  <2>3. /\ \A j \in Item : PicsFrom(j)' \in {PicsFrom(j), NoEntry} /\ CastFrom(j)' \in {CastFrom(j), NoEntry}
        /\ PicsFrom(i)' = NoEntry
    BY <1>1, <1>4, <2>1, <2>2, IncompleteIs
  <2>4. PICK more : /\ work' = [work EXCEPT ![w] = Next1(w, FALSE, more)] /\ more \in Seq(OpType)
                    /\ Leaves(Cur(w), more)
                    /\ \A k \in DOMAIN more : more[k].op = "backdrop" /\ more[k].item = i
    <3>1. CASE Now(w, {"backdrops"}) /\ work' = [work EXCEPT ![w] = Next1(w, FALSE, NewBackdrops(w))]
      <4>1. PICK more : more = NewBackdrops(w)
        OBVIOUS
      <4>2. Cur(w).op = "backdrops"
        BY <3>1 DEF Now, Cur
      <4>3. e \in DOMAIN Tmdb
        BY <1>1, <2>1, <4>2, NowIs DEF Fit
      <4>4. more = Each(Chosen(Tmdb[e].pictures.backdrops), LAMBDA u : [Op("backdrop", i) EXCEPT !.url = u])
        BY <2>1, <4>1 DEF NewBackdrops
      <4>5. BackdropsTo(more, i, UrlsOf(e))
        BY <2>2, <4>3, <4>4, BackdropsLeft
      <4>6. more \in Seq(OpType) /\ \A k \in DOMAIN more : more[k].op = "backdrop" /\ more[k].item = i
        BY <4>5 DEF BackdropsTo
      <4>7. Leaves(Cur(w), more)
        BY <4>2, <4>6 DEF Leaves, Ours, Guest, IsCast
      <4>8. work' = [work EXCEPT ![w] = Next1(w, FALSE, more)]
        BY <3>1, <4>1
      <4> QED BY <4>6, <4>7, <4>8
    <3>2. CASE Now(w, {"backdrop"}) /\ Done(w)
      <4>1. <<>> \in Seq(OpType) /\ Leaves(Cur(w), <<>>) /\ \A k \in DOMAIN <<>> : FALSE
        BY NothingLeft
      <4>2. work' = [work EXCEPT ![w] = Next1(w, FALSE, <<>>)]
        BY <3>2 DEF Done
      <4> QED BY <4>1, <4>2
    <3> QED BY <1>4, <3>1, <3>2
  <2>5. /\ \A j \in Item : PicsFrom(j)' # NoEntry =>
             ~ IsBackdrop(Cur(w), j) /\ \A k \in DOMAIN more : ~ IsBackdrop(more[k], j)
        /\ \A j : ~ IsCast(Cur(w), j)
    BY <2>1, <2>2, <2>3, <2>4 DEF IsBackdrop, IsCast
  <2> QED BY <1>1, <2>3, <2>4, <2>5, GivenUp
<1>5. \/ latest' = latest /\ work' = Goto(w, "picture")
      \/ work[w].at \in {"picture", "repicture"} /\ AfterPicture(w) /\ latest' = latest
      \/ Now(w, {"backdrops"}) /\ work' = [work EXCEPT ![w] = Next1(w, FALSE, NewBackdrops(w))]
         /\ Incomplete(Cur(w).item, "backdrop")
      \/ Now(w, {"backdrop"}) /\ Done(w) /\ Incomplete(Cur(w).item, "backdrop")
  BY DEF PictureFails, At
<1> QED BY <1>2, <1>3, <1>4, <1>5

LEMMA ApplyFailsLists == ASSUME CInv, LInv, NEW w \in Worker, StatementFails(w), ApplyFails(w) PROVE LInv'
<1>1. /\ UNCHANGED <<rows, links, images, latest>> /\ astray \subseteq astray' /\ Typed /\ work[w].todo # <<>>
      /\ Cur(w).op = "apply"
  BY FailureQuiet DEF ApplyFails, Now, Cur
<1>2. PeopleStay /\ \A i : /\ PicsFrom(i)' = PicsFrom(i) /\ CastFrom(i)' = CastFrom(i) /\ CastOf(i)' = CastOf(i)
                           /\ Pictures("item", i, "backdrop")' = Pictures("item", i, "backdrop")
  BY <1>1, Untouched
<1>3. work'[w] = Idle /\ (\A v \in Worker \ {w} : work'[v] = work[v])
  BY <1>1 DEF ApplyFails, Typed
<1>4. EntryOK'
  BY <1>3 DEF LInv, Lists, EntryOK, Idle
<1>5. CASE w # "scraper"
  <2>1. Agenda' = Agenda /\ work'["scraper"].order = work["scraper"].order
    BY <1>3, <1>5 DEF Agenda, Worker
  <2>2. Lists' /\ \A i \in Item : PicsHeld(i) /\ CastHeld(i)
    BY <1>1, <1>2, <1>4, <2>1, Stays
  <2> QED BY <1>2, <2>2, Still
<1>6. CASE w = "scraper"
  <2>1. Agenda' = <<>> /\ DOMAIN <<>> = {}
    BY <1>3, <1>6 DEF Agenda, Idle
  <2>2. Lists'
    <3>1. Ordered(Agenda)'
      BY <2>1 DEF Ordered
    <3>2. Fallback'
      BY <2>1 DEF Fallback
    <3> QED BY <1>4, <3>1, <3>2 DEF Lists
  <2>3. PICK todo : todo = Agenda
    OBVIOUS
  <2>4. todo \in Seq(OpType) /\ todo # <<>> /\ Head(todo).op = "apply"
    BY <1>1, <1>6, <2>3, ScraperIs DEF Agenda, Cur
  <2>5. todo[1].op = "apply"
    BY <2>4
  <2>6. \A i : PicsHeld(i) /\ CastHeld(i)
    BY <2>1, <2>3, <2>5 DEF PicsHeld, CastHeld, PicsSame, CastSame, IsBackdrop, IsCast
  <2> QED BY <1>2, <2>2, <2>6, Still
<1> QED BY <1>5, <1>6

LEMMA StatementFailsLists == ASSUME CInv, LInv, NEW w \in Worker, StatementFails(w) PROVE LInv'
<1>1. CASE DeletionFails(w)
  <2>1. /\ UNCHANGED <<rows, links, images, latest>> /\ astray \subseteq astray'
        /\ work[w].todo # <<>> /\ Cur(w).op \notin {"backdrop", "upsert"}
        /\ work' = [work EXCEPT ![w] = Next1(w, FALSE, <<>>)]
    BY <1>1, FailureQuiet DEF DeletionFails, Now, Cur, Done
  <2> QED BY <2>1, NothingLeft, QuietStill
<1> QED BY <1>1, UpsertFailsLists, LinkFailsLists, PictureFailsLists, ApplyFailsLists DEF StatementFails

LEMMA LInvInit == Init => LInv
<1> SUFFICES ASSUME Init PROVE LInv
  OBVIOUS
<1>1. /\ \A v \in Worker : work[v] = Idle
      /\ \A i \in Item : PicsFrom(i) = NoEntry /\ CastFrom(i) = NoEntry
  BY DEF Init, PicsFrom, CastFrom, Part
<1>2. Agenda = <<>> /\ EntryOK
  BY <1>1 DEF Agenda, EntryOK, Worker, Idle
<1>3. DOMAIN <<>> = {}
  OBVIOUS
<1>4. Lists
  BY <1>2, <1>3 DEF Lists, Ordered, Fallback
<1> QED BY <1>1, <1>4 DEF LInv, PicsOK, CastOK

LEMMA LInvKept == CInv /\ LInv /\ [Next]_vars => LInv'
<1> SUFFICES ASSUME CInv, LInv, [Next]_vars PROVE LInv'
  OBVIOUS
<1>1. CASE \E w \in Worker : Step(w)
  <2>1. PICK w \in Worker : Step(w)
    BY <1>1
  <2>2. CASE Apply(w)
    BY <2>2, ApplyLists
  <2>3. CASE Select(w)
    BY <2>3, SelectLists
  <2>4. CASE Rename(w)
    BY <2>4, RenameLists
  <2>5. CASE Insert(w)
    BY <2>5, InsertLists
  <2>6. CASE Newest(w)
    BY <2>6, NewestLists
  <2>7. CASE Enrich(w)
    BY <2>7, EnrichLists
  <2>8. CASE Link(w)
    BY <2>8, LinkLists
  <2>9. CASE Look(w)
    BY <2>9, LookLists
  <2>10. CASE Repicture(w)
    BY <2>10, RepictureLists
  <2>11. CASE NewPicture(w)
    BY <2>11, NewPictureLists
  <2>12. CASE GetImages(w)
    BY <2>12, GetImagesLists
  <2>13. CASE AttachBackdrops(w)
    BY <2>13, AttachBackdropsLists
  <2>14. CASE InsertBackdrop(w)
    BY <2>14, InsertBackdropLists
  <2>15. CASE UpdateSeason(w)
    BY <2>15, UpdateSeasonLists
  <2>16. CASE ScrapeEpisode(w)
    BY <2>16, ScrapeEpisodeLists
  <2>17. CASE AttachEpisodeCredits(w)
    BY <2>17, CreditsLists
  <2>18. CASE EpisodeFails(w)
    BY <2>18, EpisodeFailsLists
  <2>19. CASE Unlink(w)
    BY <2>19, UnlinkLists
  <2>20. CASE Unpicture(w)
    BY <2>20, UnpictureLists
  <2>21. CASE Delete(w)
    BY <2>21, DeleteLists
  <2>22. CASE StatementFails(w)
    BY <2>22, StatementFailsLists
  <2> QED
    BY <2>1, <2>2, <2>3, <2>4, <2>5, <2>6, <2>7, <2>8, <2>9, <2>10, <2>11, <2>12, <2>13, <2>14, <2>15, <2>16, <2>17,
       <2>18, <2>19, <2>20, <2>21, <2>22 DEF Step
<1>2. CASE Crash
  BY <1>2, CrashLists
<1>3. CASE vars' = vars
  <2>1. UNCHANGED <<rows, links, images, work, latest, astray>>
    BY <1>3 DEF vars, db, history
  <2>2. SameAgendas
    BY <2>1 DEF SameAgendas
  <2> QED BY <2>1, <2>2, QuietStay
<1>4. CASE \/ \E m \in Matches, d \in BOOLEAN : ScrapeMovie(m[1], m[2], d) \/ ScrapeTv(m[1], m[2], d)
           \/ \E i \in DOMAIN Nfo : ReadNfo(i)
           \/ \E i \in Deletable : DeleteItem(i)
           \/ \E m \in Matches : Identify(m[1])
  BY <1>4, BeginsLists
<1> QED BY <1>1, <1>2, <1>3, <1>4 DEF Next

LEMMA ListsInvariance == Spec => [](CInv /\ LInv)
<1>1. Init => CInv /\ LInv
  BY CInvInit, LInvInit
<1>2. CInv /\ LInv /\ [Next]_vars => (CInv /\ LInv)'
  BY CInvKept, LInvKept
<1> QED BY <1>1, <1>2, PTL DEF Spec

(* The first place of what is listed. *)
LEMMA FirstIs ==
  ASSUME NEW g \in Seq(Known), NEW k \in DOMAIN g, \A j \in 1 .. k - 1 : g[j] # g[k]
  PROVE  FirstPlace(g, g[k]) = k - 1
<1> DEFINE p == g[k]
           First(x) == g[x] = p /\ \A j \in 1 .. x - 1 : g[j] # p
<1>1. First(k)
  OBVIOUS
<1>2. \A x \in DOMAIN g : x \in Nat \ {0}
  BY LenProperties
<1>3. ASSUME NEW x \in DOMAIN g, First(x) PROVE x = k
  <2>1. ~ (k < x)
    <3> SUFFICES ASSUME k < x PROVE FALSE
      OBVIOUS
    <3>1. k \in 1 .. x - 1
      BY <1>2
    <3> QED BY <1>3, <3>1
  <2>2. ~ (x < k)
    <3> SUFFICES ASSUME x < k PROVE FALSE
      OBVIOUS
    <3>1. x \in 1 .. k - 1
      BY <1>2
    <3> QED BY <1>3, <3>1
  <2> QED BY <1>2, <2>1, <2>2
<1>4. (CHOOSE x \in DOMAIN g : First(x)) = k
  <2> HIDE DEF First
  <2> QED BY <1>1, <1>3
<1>5. FirstPlace(g, g[k]) = (CHOOSE x \in DOMAIN g : First(x)) - 1
  BY DEF FirstPlace
<1> QED BY <1>4, <1>5

(* Nothing of an item is pending that no agenda names. *)
LEMMA NothingNamed ==
  ASSUME Typed, NEW i \in Item, ~ Underway(i)
  PROVE  \A k \in DOMAIN Agenda : Agenda[k].item # i
<1>1. "scraper" \in Worker
  BY DEF Worker
<1> QED BY <1>1 DEF Underway, Agenda

LEMMA CastExact ==
  ASSUME CInv, LInv, NEW i \in Item, ~ Underway(i), CastFrom(i) # NoEntry, <<"people", i>> \notin astray,
         NEW C, C = CastOf(i), NEW P, P = rows["people"], NEW g, g = Tmdb[CastFrom(i)].guests
  PROVE  IF i \in DOMAIN Nfo THEN ToSet(g) \subseteq {P[l.id].tmdb : l \in C}
         ELSE {<<P[l.id].tmdb, l.order>> : l \in C} = {<<p, FirstPlace(g, p)>> : p \in ToSet(g)}
<1>1. PICK todo, order : todo = Agenda /\ order = work["scraper"].order
  OBVIOUS
<1>2. g \in Seq(Known) /\ CastPart(todo, order, C, P, i, g) /\ todo \in Seq(OpType)
  BY <1>1, Sources, EntryLists, ScraperIs DEF CInv, LInv, CastOK
<1>3. PICK d \in 0 .. Len(g) : PendingCast(todo, order, i, g, d) /\ Linked(C, P, i, g, d)
  BY <1>2 DEF CastPart
<1>4. \A k \in DOMAIN todo : ~ IsCast(todo[k], i)
  BY <1>1, NothingNamed DEF CInv, IsCast
<1>5. d = Len(g)
  <2>1. ~ (1 \in DOMAIN todo /\ IsCast(todo[1], i))
    BY <1>4
  <2>2. PendingCast(todo, order, i, g, d) /\ g \in Seq(Known) /\ d \in 0 .. Len(g)
    BY <1>2, <1>3
  <2> QED BY ONLY <2>1, <2>2, NoCastPending
<1>6. Linked(C, P, i, g, Len(g)) /\ DOMAIN g = 1 .. Len(g) /\ Len(g) \in Nat /\ ToSet(g) = {g[k] : k \in DOMAIN g}
  BY <1>2, <1>3, <1>5, LenProperties DEF ToSet
<1>7. ASSUME NEW p \in ToSet(g) PROVE \E l \in C : P[l.id].tmdb = p
  BY <1>6 DEF Linked
<1>8. ASSUME i \notin DOMAIN Nfo, NEW l \in C
      PROVE  P[l.id].tmdb \in ToSet(g) /\ l.order = FirstPlace(g, P[l.id].tmdb)
  <2>1. /\ l.order \in 0 .. Len(g) - 1 /\ P[l.id].tmdb = g[l.order + 1]
        /\ \A j \in 1 .. l.order : g[j] # g[l.order + 1]
    BY <1>6, <1>8 DEF Linked
  <2>2. PICK k : k = l.order + 1
    OBVIOUS
  <2>3. k \in DOMAIN g /\ l.order = k - 1
    BY <1>6, <2>1, <2>2
  <2>4. FirstPlace(g, g[k]) = k - 1
    BY <1>2, <2>1, <2>2, <2>3, FirstIs
  <2> QED BY <1>6, <2>1, <2>2, <2>3, <2>4
<1>9. CASE i \in DOMAIN Nfo
  BY <1>7, <1>9
<1>10. CASE i \notin DOMAIN Nfo
  BY <1>7, <1>8, <1>10
<1> QED BY <1>9, <1>10

LEMMA PicsExact ==
  ASSUME CInv, LInv, NEW i \in Item, ~ Underway(i), PicsFrom(i) # NoEntry, i \notin DOMAIN Nfo
  PROVE  Each(Backdrops(i), ResolveByTag) = UrlsOf(PicsFrom(i))
<1>1. PICK todo, B, s : todo = Agenda /\ B = Pictures("item", i, "backdrop") /\ s = UrlsOf(PicsFrom(i))
  OBVIOUS
<1>2. s \in Seq(STRING) /\ PicsPart(todo, B, i, s) /\ todo \in Seq(OpType)
  <2>1. PicsFrom(i) \in DOMAIN Tmdb /\ todo \in Seq(OpType)
    BY <1>1, Sources, ScraperIs DEF CInv
  <2>2. s \in Seq(STRING \ {NoText})
    BY <1>1, <2>1, EntryLists
  <2> QED BY <1>1, <2>1, <2>2, SeqMonotonic DEF LInv, PicsOK
<1>3. PICK d \in 0 .. Len(s) : PendingPics(todo, i, s, d) /\ Shown(B, s, d)
  BY <1>2 DEF PicsPart
<1>4. \A k \in DOMAIN todo : ~ IsBackdrop(todo[k], i)
  BY <1>1, NothingNamed DEF CInv, IsBackdrop
<1>5. d = Len(s)
  BY <1>2, <1>3, <1>4, NoPicsPending
<1>6. PICK R : R = {m.row : m \in B}
  OBVIOUS
<1>7. IsFiniteSet(R) /\ Cardinality(R) = Len(s) /\ Len(s) \in Nat /\ DOMAIN s = 1 .. Len(s)
      /\ \A m \in B : m.url = s[Cardinality({r \in R : r < m.row}) + 1]
  BY <1>2, <1>3, <1>5, <1>6, LenProperties DEF Shown
<1>8. \A m \in B : m \in images /\ m.row \in Nat
  BY <1>1 DEF Pictures, CInv, Typed, DataTyped, ImageRow
<1>9. \A k \in 1 .. Len(s) : \E x \in R : Cardinality({y \in R : y < x}) = k - 1
  <2> DEFINE L == {p \in R \X R : p[1] < p[2]}
  <2>1. \A x \in R : x \in Nat
    BY <1>6, <1>8
  <2>2. \A x, y \in R : <<x, y>> \in L <=> x < y
    OBVIOUS
  <2> HIDE DEF L
  <2>3. /\ \A x \in R : <<x, x>> \notin L
        /\ \A x, y, z \in R : <<x, y>> \in L /\ <<y, z>> \in L => <<x, z>> \in L
        /\ \A x, y \in R : x # y => <<x, y>> \in L \/ <<y, x>> \in L
    BY <2>1, <2>2
  <2>4. \A k \in 1 .. Cardinality(R) : \E x \in R : Cardinality({y \in R : <<y, x>> \in L}) = k - 1
    BY <1>7, <2>3, EveryRank
  <2>5. \A x \in R : {y \in R : y < x} = {y \in R : <<y, x>> \in L}
    BY <2>2
  <2> QED BY <1>7, <2>4, <2>5
<1>10. Backdrops(i) = [k \in 1 .. Cardinality(R) |-> CHOOSE x \in R : Cardinality({y \in R : y < x}) = k - 1]
  BY <1>1, <1>6 DEF Backdrops, Ranked
<1>11. PICK b : b = Backdrops(i)
  OBVIOUS
<1>12. DOMAIN b = 1 .. Len(s) /\ \A k \in 1 .. Len(s) : b[k] = CHOOSE x \in R : Cardinality({y \in R : y < x}) = k - 1
  BY <1>7, <1>10, <1>11
<1>13. ASSUME NEW k \in 1 .. Len(s) PROVE ResolveByTag(b[k]) = s[k]
  <2>1. b[k] \in R /\ Cardinality({y \in R : y < b[k]}) = k - 1
    BY <1>9, <1>12
  <2>2. PICK m \in B : m.row = b[k]
    BY <1>6, <2>1
  <2>3. m.url = s[k]
    <3>1. {r \in R : r < m.row} = {y \in R : y < b[k]}
      BY <2>2
    <3>2. Cardinality({r \in R : r < m.row}) = k - 1
      BY <2>1, <3>1, Zenon
    <3>3. (k - 1) + 1 = k
      OBVIOUS
    <3>4. m.url = s[(k - 1) + 1]
      BY <1>7, <3>2, Zenon
    <3> QED BY <3>3, <3>4
  <2>4. (CHOOSE n \in images : n.row = b[k]) = m
    <3>1. \A n \in images : n.row = m.row => n = m
      BY <1>8 DEF CInv, DataInv, ImagesOK
    <3>2. m \in images
      BY <1>8
    <3> QED BY <2>2, <3>1, <3>2
  <2> QED BY <2>3, <2>4 DEF ResolveByTag
<1>14. Each(b, ResolveByTag) = [k \in DOMAIN b |-> ResolveByTag(b[k])]
  BY DEF Each
<1>15. s = [k \in 1 .. Len(s) |-> s[k]]
  BY <1>2
<1> QED BY <1>1, <1>11, <1>12, <1>13, <1>14, <1>15

-----------------------------------------------------------------------------
(***************************************************************************)
(* Theorems.                                                               *)
(***************************************************************************)

(* The tables hold what their columns may hold, and so do the agendas. *)
THEOREM TypeCorrect == Spec => []Typed
<1>1. CInv => Typed
  BY DEF CInv
<1> QED BY <1>1, Invariance, PTL

(* Whatever library, entries and NFO files, however scraper, scanner and admin
   interleave, whatever else fails, and wherever the process stops: nobody's
   credits, biography or portrait come to another, unless the SELECT or the
   INSERT of that upsert failed, or another INSERT came between its INSERT and
   the read of the newest id. *)
THEOREM NothingForeignAlways == Spec => []NothingForeign
<1>1. CInv => NothingForeign
  BY DEF CInv, DataInv, LinkOK, PeopleOK, PersonOK, PortraitOK, Own, NothingForeign
<1> QED BY <1>1, Invariance, PTL

(* A library lists the genres, studios and people that its items show, and
   counts the items that show them, dangling links or not. *)
THEOREM PagesAgreeAlways == Spec => []PagesAgree
<1>1. CInv => PagesAgree
  <2> SUFFICES ASSUME CInv, NEW t \in {"genre", "studio", "people"} PROVE
        /\ \A lib \in {Row[i].lib : i \in Item} :
             Answer(t, lib) = UNION {Taxonomy(t, i) : i \in {j \in items : Row[j].lib = lib}}
        /\ \A k \in DOMAIN rows[t] :
             (CASE t = "genre" -> ListItemsByGenre(k) [] t = "people" -> ListItemsByPerson(k)
                [] t = "studio" -> ListItemsByStudio(k))
             = Cardinality({i \in items : k \in Taxonomy(t, i)})
    BY DEF PagesAgree
  <2>1. \A l \in links : LinkOK(l) /\ l \in LinkRow
    BY DEF CInv, DataInv, Typed, DataTyped
  <2>2. items \subseteq Item
    BY DEF CInv, Typed, DataTyped
  <2>3. ASSUME NEW lib \in {Row[i].lib : i \in Item}
        PROVE Answer(t, lib) = UNION {Taxonomy(t, i) : i \in {j \in items : Row[j].lib = lib}}
    <3>1. lib # NoParent
      BY Shapes DEF NoParent
    <3>2. Answer(t, lib) = ListTerms(t, lib)
      BY <3>1 DEF Answer, ListGenres, ListPersons, ListStudios
    <3>3. \A k \in ListTerms(t, lib) : \E i \in items : Row[i].lib = lib /\ k \in Taxonomy(t, i)
      BY DEF ListTerms, Taxonomy
    <3>4. \A i \in items : Row[i].lib = lib => Taxonomy(t, i) \subseteq ListTerms(t, lib)
      BY <2>1 DEF ListTerms, Taxonomy, LinkOK
    <3> QED BY <3>2, <3>3, <3>4
  <2>4. ASSUME NEW k \in DOMAIN rows[t] PROVE
          (CASE t = "genre" -> ListItemsByGenre(k) [] t = "people" -> ListItemsByPerson(k)
             [] t = "studio" -> ListItemsByStudio(k))
          = Cardinality({i \in items : k \in Taxonomy(t, i)})
    <3>1. {l.item : l \in {x \in links : x.table = t /\ x.id = k /\ x.item \in items}}
          = {i \in items : k \in Taxonomy(t, i)}
      BY DEF Taxonomy
    <3>2. CountBy(t, k) = Cardinality({i \in items : k \in Taxonomy(t, i)})
      BY <3>1 DEF CountBy
    <3> QED BY <3>2 DEF ListItemsByGenre, ListItemsByPerson, ListItemsByStudio
  <2> QED BY <2>3, <2>4
<1> QED BY <1>1, Invariance, PTL

(* Whatever the scraper, the scanner and an admin interleave, and wherever the
   process stops: an item that no task is at has the cast and the backdrops of
   the entry they were last replaced from, whole and in its order, if no
   statement of that replacement failed.  Where an NFO file adds people of its
   own the cast is among them, and people are only compared while no link went
   to a newest id that another INSERT had taken. *)
THEOREM LatestIsExactAlways == Spec => []LatestIsExact
<1>1. CInv /\ LInv => LatestIsExact
  <2> SUFFICES ASSUME CInv, LInv, NEW i \in items, ~ Underway(i) PROVE
        /\ LET e == latest[<<i, "cast">>]
               cast == {l \in links : l.table = "people" /\ l.item = i}
           IN e # NoEntry /\ <<"people", i>> \notin astray =>
                IF i \in DOMAIN Nfo
                THEN ToSet(Tmdb[e].guests) \subseteq {rows["people"][l.id].tmdb : l \in cast}
                ELSE {<<rows["people"][l.id].tmdb, l.order>> : l \in cast}
                     = {<<p, FirstPlace(Tmdb[e].guests, p)>> : p \in ToSet(Tmdb[e].guests)}
        /\ LET e == latest[<<i, "backdrop">>]
           IN e # NoEntry /\ i \notin DOMAIN Nfo =>
                Each(Backdrops(i), ResolveByTag) = Chosen(Tmdb[e].pictures.backdrops)
    BY Zenon DEF LatestIsExact
  <2>1. i \in Item
    BY DEF CInv, Typed, DataTyped
  <2>2. ASSUME CastFrom(i) # NoEntry, <<"people", i>> \notin astray
        PROVE  IF i \in DOMAIN Nfo
               THEN ToSet(Tmdb[CastFrom(i)].guests) \subseteq {rows["people"][l.id].tmdb : l \in CastOf(i)}
               ELSE {<<rows["people"][l.id].tmdb, l.order>> : l \in CastOf(i)}
                    = {<<p, FirstPlace(Tmdb[CastFrom(i)].guests, p)>> : p \in ToSet(Tmdb[CastFrom(i)].guests)}
    BY <2>1, <2>2, CastExact
  <2>3. ASSUME PicsFrom(i) # NoEntry, i \notin DOMAIN Nfo
        PROVE  Each(Backdrops(i), ResolveByTag) = UrlsOf(PicsFrom(i))
    BY <2>1, <2>3, PicsExact
  <2> QED BY <2>2, <2>3, Zenon DEF CastFrom, PicsFrom, CastOf, UrlsOf
<1> QED BY <1>1, ListsInvariance, PTL
=============================================================================
