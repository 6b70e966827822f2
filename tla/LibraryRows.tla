---------------------------- MODULE LibraryRows ----------------------------
(***************************************************************************)
(* What the Library's database holds of files, tracks and metadata, and    *)
(* the two computations over it: the summaries that albums and artists are *)
(* listed from (library/summary.rs), and the pairing of files that arrived *)
(* with tracks that are missing (library/scanner/relink.rs).               *)
(*                                                                         *)
(* A file is its content: its size and modification time, the hash of its  *)
(* ends, its tags and its artwork are functions of it, though each of them *)
(* may fail to be read.  A row stands for a file, its track and the        *)
(* track's metadata, which hang together one to one, and is named by its   *)
(* path, which is unique.  All contents carry the same album title and no  *)
(* Album Artist tag, so an album is told by who it is filed under and by   *)
(* its directory.                                                          *)
(***************************************************************************)
EXTENDS Naturals, Sequences, FiniteSets, SequencesExt, FiniteSetsExt

CONSTANTS Paths, DirOf,   \* the places of files, and their directories
          Contents,       \* what a decodable file may hold
          Artist,         \* the artist tag of each content
          Recording,      \* what its tags name in full, or None
          None

Various == "various artists"
Cleared == "cleared"
ArtworkStatus == {"notPresent", "unavailable", "invalid", "stored", "storeFailed"}

(* A row: the size and time it was last read under, whether the latest     *)
(* walk has seen the file, whether it is missing, what became of its       *)
(* artwork, whether it arrived since the last relinking, its track if it   *)
(* has one, the tags and the hash that were read, and who the album is     *)
(* filed under.  A track without tags, of a file that cannot be decoded    *)
(* any more or whose tags could not be read, is Cleared.  misread is       *)
(* history: the file could be decoded, and yet not all of it was read.     *)
Row(keys) ==
  [key : keys, seen : BOOLEAN, missing : BOOLEAN, art : ArtworkStatus,
   pending : BOOLEAN, track : Nat, tags : Contents \cup {None, Cleared},
   hash : Contents \cup {None}, under : Range(Artist) \cup {Various, ""},
   misread : BOOLEAN]

ASSUME RowsAssumption ==
  /\ DOMAIN DirOf = Paths
  /\ DOMAIN Artist = Contents /\ DOMAIN Recording = Contents
  /\ None \notin Contents /\ Cleared \notin Contents \cup {None}

HasTrack(row) == row # None /\ row.tags # None
Readable(row) == HasTrack(row) /\ row.tags \in Contents
-----------------------------------------------------------------------------
(* Summaries.                                                              *)

(* The album of a track: all tracks without metadata share one.            *)
Album(table, p) ==
  IF table[p].tags = Cleared THEN <<"", "">> ELSE <<table[p].under, DirOf[p]>>
OnAlbum(table, a) == {p \in Paths : HasTrack(table[p]) /\ Album(table, p) = a}
AlbumsOf(table) == {Album(table, p) : p \in {x \in Paths : HasTrack(table[x])}}

AlbumRows(table, ids) ==
  [a \in ids \cap AlbumsOf(table) |-> Cardinality(OnAlbum(table, a))]

Total(counts) == FoldFunction(+, 0, counts)

ArtistRows(list, names) ==
  LET own(n) == {a \in DOMAIN list : a[1] = n}
  IN [n \in {x \in names : own(x) # {}} |->
        <<Cardinality(own(n)), Total([a \in own(n) |-> list[a]])>>]

Without(list, ids) == [a \in DOMAIN list \ ids |-> list[a]]
Joined(f, g) == [x \in DOMAIN f \cup DOMAIN g |-> IF x \in DOMAIN f THEN f[x] ELSE g[x]]

(* The tracks of one directory are filed under Various Artists when they   *)
(* have several artists, else each under its own.                          *)
FiledUnder(table, p) ==
  LET group == {q \in Paths : Readable(table[q]) /\ DirOf[q] = DirOf[p]}
      names == {Artist[table[q].tags] : q \in group}
  IN IF Cardinality(names) > 1 THEN Various ELSE Artist[table[p].tags]

SettledCompilation(table, dirs) ==
  [p \in Paths |-> IF Readable(table[p]) /\ DirOf[p] \in dirs
                   THEN [table[p] EXCEPT !.under = FiledUnder(table, p)]
                   ELSE table[p]]

(* A summary of the albums and artists; the artists are those the albums   *)
(* were under before their rows are replaced, and those they are under now.*)
Refreshed(lib, touched) ==
  LET names == {a[1] : a \in touched}
      list == Joined(Without(lib.albums, touched), AlbumRows(lib.rows, touched))
  IN [lib EXCEPT !.albums = list,
                 !.artists = Joined(Without(@, names), ArtistRows(list, names))]

(* Mutant: albums a compilation takes tracks from are not refreshed.       *)
SettledAlone(lib, ids, dirs) ==
  Refreshed([lib EXCEPT !.rows = SettledCompilation(lib.rows, dirs)], ids)

(* A write has touched the albums ids, and the directories dirs.           *)
Settled(lib, ids, dirs) ==
  LET filed == SettledCompilation(lib.rows, dirs)
      moved == {p \in Paths : filed[p] # lib.rows[p]}
  IN Refreshed([lib EXCEPT !.rows = filed],
               ids \cup {Album(lib.rows, p) : p \in moved}
                   \cup {Album(filed, p) : p \in moved})

SummaryOf(table) ==
  LET list == AlbumRows(table, AlbumsOf(table))
  IN [rows |-> table, albums |-> list,
      artists |-> ArtistRows(list, {a[1] : a \in DOMAIN list})]

Rebuilt(table) == SummaryOf(SettledCompilation(table, {DirOf[p] : p \in Paths}))
-----------------------------------------------------------------------------
(* Relinking.  arrived and missing are sequences of paths: the order of    *)
(* the rows' ids.                                                          *)

SameHash(table, p, q) ==
  table[p].hash # None /\ table[p].hash = table[q].hash

Fingerprint(table, p) ==
  IF Readable(table[p]) THEN Recording[table[p].tags] ELSE None

SameTags(table, p, q) ==
  Fingerprint(table, p) # None /\ Fingerprint(table, p) = Fingerprint(table, q)

Claimed(pairs) == {pair[2] : pair \in pairs}

Free(pairs, missing) == {i \in DOMAIN missing : missing[i] \notin Claimed(pairs)}

(* By the hash, where the first with the same tags comes first.            *)
PairByHash(table, pairs, p, missing) ==
  LET same == {i \in Free(pairs, missing) : SameHash(table, p, missing[i])}
      alike == {i \in same : SameTags(table, p, missing[i])}
  IN IF same = {} THEN {}
     ELSE {<<p, missing[Min(IF alike # {} THEN alike ELSE same)]>>}

PairingByHash(table, arrived, missing) ==
  LET pairs[k \in 0..Len(arrived)] ==
        IF k = 0 THEN {}
        ELSE pairs[k - 1] \cup PairByHash(table, pairs[k - 1], arrived[k], missing)
  IN pairs

(* By the tags, if one missing track has them.                             *)
PairByTags(table, pairs, p, missing) ==
  LET same == {i \in Free(pairs, missing) : SameTags(table, p, missing[i])}
  IN IF Cardinality(same) = 1 THEN {<<p, missing[i]>> : i \in same} ELSE {}

PairingByTags(table, byHash, arrived, missing) ==
  LET pairs[k \in 0..Len(arrived)] ==
        IF k = 0 THEN byHash
        ELSE IF \E pair \in byHash : pair[1] = arrived[k] THEN pairs[k - 1]
        ELSE pairs[k - 1] \cup PairByTags(table, pairs[k - 1], arrived[k], missing)
  IN pairs

(* Every arrival by the hash first; then, of what is left, by the tags.    *)
PairMoves(table, arrived, missing) ==
  LET byHash == PairingByHash(table, arrived, missing)[Len(arrived)]
  IN PairingByTags(table, byHash, arrived, missing)[Len(arrived)]

(* The old track takes over the new file and its metadata; the row of the  *)
(* old file goes.  Every arrival is forgotten.                             *)
Relinked(table, pairs) ==
  [p \in Paths |->
     IF p \in Claimed(pairs) THEN None
     ELSE IF table[p] = None THEN None
     ELSE LET taken == {pair \in pairs : pair[1] = p}
          IN [table[p] EXCEPT
                !.pending = FALSE,
                !.track = IF taken = {} THEN @
                          ELSE table[(CHOOSE pair \in taken : TRUE)[2]].track]]
=============================================================================
