---------------------------- MODULE CatalogLists ----------------------------
(***************************************************************************)
(* The orders of the catalog's lists and what is computed from them: pages *)
(* (library/store/paging.rs), the scroll index (library/store/catalog.rs), *)
(* and what "play what I see" plays (library/store/playback.rs).           *)
(*                                                                         *)
(* A table holds the rows a search matches, by id.  A row has a name, the  *)
(* first character of its sort key by code point and 0 if that is empty,   *)
(* and a number, its year or duration and 0 if there is none.              *)
(***************************************************************************)
EXTENDS Integers, Sequences, FiniteSets, SequencesExt, FiniteSetsExt

CONSTANTS Playable,   \* the ids of tracks whose file is there and was decoded
          PageSize, IdsPerQuery, None

ASSUME ListsAssumption == PageSize \in Nat \ {0} /\ IdsPerQuery \in Nat \ {0}

(* The phases of an order: which rows, and by which columns.               *)
Phase(where, by) == [where |-> where, by |-> by]

NamePhases ==
  << Phase({<<"name", TRUE>>}, <<"name", "id">>),
     Phase({<<"name", FALSE>>}, <<"id">>) >>

(* Rows with a year first, and in each half those without a name last.     *)
YearPhases ==
  << Phase({<<"number", TRUE>>, <<"name", TRUE>>}, <<"number", "name", "id">>),
     Phase({<<"number", TRUE>>, <<"name", FALSE>>}, <<"number", "id">>),
     Phase({<<"number", FALSE>>, <<"name", TRUE>>}, <<"name", "id">>),
     Phase({<<"number", FALSE>>, <<"name", FALSE>>}, <<"id">>) >>

(* The orders of the tracks, of albums, also those of one artist, of album *)
(* artists, and of the tracks of one album.                                *)
TrackOrdering ==
  [title |-> << Phase({}, <<"name", "id">>) >>,
   name |-> NamePhases,
   duration |-> << Phase({<<"number", TRUE>>}, <<"number", "id">>),
                   Phase({<<"number", FALSE>>}, <<"id">>) >>]
AlbumOrdering == [name |-> NamePhases, year |-> YearPhases]
AlbumArtistOrdering ==
  [name |-> NamePhases, count |-> << Phase({}, <<"number", "name", "id">>) >>]
AlbumOrder == [position |-> << Phase({}, <<"position", "id">>) >>]

Orderings == TrackOrdering @@ AlbumOrdering @@ AlbumArtistOrdering @@ AlbumOrder
TrackSorts == DOMAIN TrackOrdering
Sorts == DOMAIN Orderings
Phases(sort) == Orderings[sort]

(* An album's tracks that have no number follow those that do.             *)
Column(table, id, column) ==
  CASE column = "id" -> id
    [] column = "position" -> IF table[id].number = 0 THEN 2147483647 ELSE table[id].number
    [] OTHER -> table[id][column]

InPhase(table, phase) ==
  {id \in DOMAIN table : \A c \in phase.where : (Column(table, id, c[1]) > 0) = c[2]}

Terms(table, phase, id) ==
  [i \in DOMAIN phase.by |-> Column(table, id, phase.by[i])]

Less(a, b) == \E i \in DOMAIN a : a[i] < b[i] /\ \A j \in 1..(i - 1) : a[j] = b[j]
Precedes(direction, a, b) == IF direction = "ascending" THEN Less(a, b) ELSE Less(b, a)

(* The rows of a phase, and those after a row with these keys.             *)
RowsOf(table, phase, direction) ==
  SetToSortSeq(InPhase(table, phase),
               LAMBDA x, y : Precedes(direction, Terms(table, phase, x), Terms(table, phase, y)))

(* Mutant: the row the page before ended on comes again.                   *)
RowsFrom(table, phase, direction, keys) ==
  SelectSeq(RowsOf(table, phase, direction),
            LAMBDA id : ~Precedes(direction, Terms(table, phase, id), keys))

RowsAfter(table, phase, direction, keys) ==
  SelectSeq(RowsOf(table, phase, direction),
            LAMBDA id : Precedes(direction, keys, Terms(table, phase, id)))

(* What a list is to be.                                                   *)
WholeList(table, sort, direction) ==
  FlattenSeq([i \in DOMAIN Phases(sort) |-> RowsOf(table, Phases(sort)[i], direction)])
-----------------------------------------------------------------------------
(* The selection that is played.                                           *)

(* Mutant: one order of all rows, unknown ones among the others.           *)
OrderByTerms(table, sort, direction) ==
  RowsOf(table, Phase({}, Phases(sort)[1].by), direction)

(* One statement: the phases in their order, the terms of the first.       *)
OrderBy(table, sort, direction) ==
  LET PhaseOf(id) == CHOOSE i \in DOMAIN Phases(sort) : id \in InPhase(table, Phases(sort)[i])
      Keys(id) == Terms(table, Phases(sort)[1], id)
  IN SetToSortSeq(DOMAIN table,
       LAMBDA x, y : \/ PhaseOf(x) < PhaseOf(y)
                     \/ PhaseOf(x) = PhaseOf(y) /\ Precedes(direction, Keys(x), Keys(y)))

Refused(error) == [error |-> error, ids |-> <<>>, start |-> 0]

(* The ids that can be played, and where to start among them.              *)
SelectPlayable(rows, start) ==
  LET ids == SelectSeq(rows, LAMBDA id : id \in Playable)
      At(id) == Len(SelectSeq(SubSeq(rows, 1, CHOOSE i \in DOMAIN rows : rows[i] = id),
                              LAMBDA x : x \in Playable))
  IN CASE start # None /\ start \notin Range(rows) -> Refused("not a member")
       [] start # None /\ start \in Range(rows) \ Playable -> Refused("not playable")
       [] OTHER -> IF ids = <<>> THEN Refused("nothing plays")
                   ELSE [error |-> None, ids |-> ids,
                         start |-> IF start = None THEN 1 ELSE At(start)]

PlaybackForTracks(table, sort, direction, start) ==
  SelectPlayable(OrderBy(table, sort, direction), start)

(* Of an album without rows there is nothing to refuse a track of.         *)
PlaybackForAlbum(table, start) ==
  IF DOMAIN table = {} THEN Refused("album not found")
  ELSE SelectPlayable(OrderBy(table, "position", "ascending"), start)

(* The tracks of a selection when they are needed: some at a time, and     *)
(* nothing in the place of one that is gone.                               *)
PlayableTracks(table, ids) ==
  LET Chunk(k) == SubSeq(ids, (k - 1) * IdsPerQuery + 1, Min({k * IdsPerQuery, Len(ids)}))
      chunks == 1..((Len(ids) + IdsPerQuery - 1) \div IdsPerQuery)
      found == UNION {Range(Chunk(k)) \cap DOMAIN table \cap Playable : k \in chunks}
  IN [i \in DOMAIN ids |-> IF ids[i] \in found THEN ids[i] ELSE None]
-----------------------------------------------------------------------------
(* The scroll index.                                                       *)

In(code, ranges) == \E r \in ranges : code \in r[1]..r[2]

(* Rows of kana by their last character; a letter stands for itself.       *)
KanaRows == <<12362, 12372, 12382, 12393, 12398, 12413, 12418, 12424, 12430, 12543>>

Unknown == <<"?", 0>>

IndexLabel(code) ==
  CASE code = 0 -> Unknown
    [] code = 1 \/ In(code, {<<48, 57>>}) -> <<"symbol", 0>>
    [] In(code, {<<12353, 12543>>}) ->
         <<"kana", Min({i \in DOMAIN KanaRows : code <= KanaRows[i]})>>
    [] In(code, {<<13312, 19903>>, <<19968, 40959>>, <<63744, 64255>>}) -> <<"kanji", 0>>
    [] In(code, {<<44032, 55203>>}) -> <<"hangul", 0>>
    [] OTHER -> <<"letter", code>>

Bucket(label, count) == [label |-> label, count |-> count]

(* Counts by a column; neighbours with one label are one bucket, and the   *)
(* rows that have no value come last.                                      *)
Buckets(table, column, direction, label) ==
  LET values == {Column(table, id, column) : id \in DOMAIN table}
      Count(v) == Cardinality({id \in DOMAIN table : Column(table, id, column) = v})
      File(buckets, v) ==
        IF buckets # <<>> /\ buckets[Len(buckets)].label = label[v]
        THEN [buckets EXCEPT ![Len(buckets)].count = @ + Count(v)]
        ELSE Append(buckets, Bucket(label[v], Count(v)))
      known == SetToSortSeq(values \ {0},
                 LAMBDA a, b : IF direction = "ascending" THEN a < b ELSE b < a)
  IN FoldLeft(File, <<>>, known) \o
       (IF 0 \in values THEN << Bucket(Unknown, Count(0)) >> ELSE <<>>)

(* Mutant: the buckets of a list that descends ascend.                     *)
NameBucketsAscending(table, direction) ==
  Buckets(table, "name", "ascending", [code \in Nat |-> IndexLabel(code)])

NameBuckets(table, direction) ==
  Buckets(table, "name", direction, [code \in Nat |-> IndexLabel(code)])
YearBuckets(table, direction) ==
  Buckets(table, "number", direction,
          [year \in Nat |-> IF year = 0 THEN Unknown ELSE <<"year", year>>])

(* Only names and years have an index.                                     *)
Index(table, sort, direction) ==
  CASE sort \in {"title", "name"} -> NameBuckets(table, direction)
    [] sort = "year" -> YearBuckets(table, direction)
    [] OTHER -> <<>>

(* How many rows precede the first one filed under a label.                *)
SkipTo(buckets, label) ==
  LET at == Min({i \in DOMAIN buckets : buckets[i].label = label})
  IN FoldLeft(LAMBDA sum, b : sum + b.count, 0, SubSeq(buckets, 1, at - 1))

(* Jumping to a label leads to the first row that has it.                  *)
JumpsLand(buckets, labels) ==
  \A b \in Range(buckets) :
    LET skip == SkipTo(buckets, b.label)
    IN /\ skip < Len(labels) /\ labels[skip + 1] = b.label
       /\ \A i \in 1..skip : labels[i] # b.label
=============================================================================
