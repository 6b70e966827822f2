----------------------------- MODULE ScannerProofs -----------------------------
(***************************************************************************)
(* Proofs about Scanner.tla, for every library, any files in it, and scans *)
(* of any extent that end in any way.                                      *)
(*                                                                         *)
(* First the summaries of albums and artists, which are kept row by row,   *)
(* are what a rebuild from the tracks would give (SoundInv).  Then, what   *)
(* is planned and read is of the file that is there (ReadInv).  On these   *)
(* rests what a scan has done at each moment while no file changes         *)
(* (WayInv), and so what it leaves when it completes (ScanInv).            *)
(***************************************************************************)
EXTENDS Scanner, WellFoundedInduction, SequenceTheorems, FiniteSetTheorems, TLAPS

Table == [Paths -> RowOrNone]

(* The same row as far as summaries go.                                    *)
Alike(r, s) ==
  /\ r = None <=> s = None
  /\ r # None => r.tags = s.tags /\ r.under = s.under

ArtistsOf(list) == ArtistRows(list, {a[1] : a \in DOMAIN list})

(* The summaries are those of the rows.                                    *)
Summed(lib) ==
  /\ lib.albums = AlbumRows(lib.rows, AlbumsOf(lib.rows))
  /\ lib.artists = ArtistsOf(lib.albums)

(* Each track is filed as its directory demands.                           *)
Filed(table) ==
  \A p \in Paths : Readable(table[p]) => table[p].under = FiledUnder(table, p)

Fields == {"rows", "albums", "artists", "nextTrack"}
-----------------------------------------------------------------------------
(* Summaries.                                                              *)

(* An album is there if a track is on it.                                  *)
LEMMA AlbumIsThere ==
  ASSUME NEW T, NEW a
  PROVE  a \in AlbumsOf(T) <=> OnAlbum(T, a) # {}
BY DEF AlbumsOf, OnAlbum

LEMMA AlbumRowsAt ==
  ASSUME NEW T, NEW ids
  PROVE  /\ DOMAIN AlbumRows(T, ids) = ids \cap AlbumsOf(T)
         /\ \A a \in ids \cap AlbumsOf(T) : AlbumRows(T, ids)[a] = Cardinality(OnAlbum(T, a))
BY DEF AlbumRows

LEMMA AlbumRowsOfAll ==
  ASSUME NEW T
  PROVE  /\ DOMAIN AlbumRows(T, AlbumsOf(T)) = AlbumsOf(T)
         /\ \A a \in AlbumsOf(T) : AlbumRows(T, AlbumsOf(T))[a] = Cardinality(OnAlbum(T, a))
<1>1. AlbumsOf(T) \cap AlbumsOf(T) = AlbumsOf(T)
  OBVIOUS
<1>2. QED
  BY <1>1, AlbumRowsAt

(* Rows that are refreshed where something changed are the rows of all.    *)
LEMMA AlbumsRefreshed ==
  ASSUME NEW T, NEW U, NEW touched,
         \A a : a \notin touched => OnAlbum(T, a) = OnAlbum(U, a)
  PROVE  Joined(Without(AlbumRows(T, AlbumsOf(T)), touched), AlbumRows(U, touched))
           = AlbumRows(U, AlbumsOf(U))
<1> DEFINE old == AlbumRows(T, AlbumsOf(T))
           new == AlbumRows(U, touched)
           all == AlbumRows(U, AlbumsOf(U))
           list == Joined(Without(old, touched), new)
<1>1. /\ DOMAIN old = AlbumsOf(T) /\ DOMAIN new = touched \cap AlbumsOf(U)
      /\ DOMAIN all = AlbumsOf(U)
      /\ \A a \in AlbumsOf(T) : old[a] = Cardinality(OnAlbum(T, a))
      /\ \A a \in touched \cap AlbumsOf(U) : new[a] = Cardinality(OnAlbum(U, a))
      /\ \A a \in AlbumsOf(U) : all[a] = Cardinality(OnAlbum(U, a))
  BY AlbumRowsAt
<1>2. all = [a \in AlbumsOf(U) |-> Cardinality(OnAlbum(U, a))]
  BY DEF AlbumRows
<1> HIDE DEF old, new, all
<1>3. \A a : a \notin touched => (a \in AlbumsOf(T) <=> a \in AlbumsOf(U))
  BY AlbumIsThere
<1>4. /\ DOMAIN Without(old, touched) = AlbumsOf(T) \ touched
      /\ \A a \in AlbumsOf(T) \ touched : Without(old, touched)[a] = old[a]
  BY <1>1 DEF Without
<1>5. list = [a \in AlbumsOf(U) |-> Cardinality(OnAlbum(U, a))]
  <2> DEFINE kept == Without(old, touched)
  <2> HIDE DEF kept
  <2>1. (DOMAIN kept) \cup (DOMAIN new) = AlbumsOf(U)
    BY <1>1, <1>3, <1>4 DEF kept
  <2>2. list = [a \in AlbumsOf(U) |-> IF a \in DOMAIN kept THEN kept[a] ELSE new[a]]
    BY <2>1 DEF Joined, kept
  <2>3. \A a \in AlbumsOf(U) : (IF a \in DOMAIN kept THEN kept[a] ELSE new[a])
                                 = Cardinality(OnAlbum(U, a))
    BY <1>1, <1>3, <1>4 DEF kept
  <2>4. QED
    BY <2>2, <2>3
<1>6. QED
  BY <1>2, <1>5 DEF old, new, all

OwnAlbums(list, n) == {a \in DOMAIN list : a[1] = n}

LEMMA ArtistRowsAt ==
  ASSUME NEW list, NEW names
  PROVE  ArtistRows(list, names) =
           [n \in {x \in names : OwnAlbums(list, x) # {}} |->
              <<Cardinality(OwnAlbums(list, n)), Total([a \in OwnAlbums(list, n) |-> list[a]])>>]
BY DEF ArtistRows, OwnAlbums

(* The artists of the albums that did not change are what they were.       *)
LEMMA ArtistsRefreshed ==
  ASSUME NEW old, NEW new, NEW touched,
         \A a : a \notin touched => (a \in DOMAIN old <=> a \in DOMAIN new),
         \A a \in DOMAIN new : a \notin touched => old[a] = new[a]
  PROVE  Joined(Without(ArtistRows(old, {a[1] : a \in DOMAIN old}), {a[1] : a \in touched}),
                ArtistRows(new, {a[1] : a \in touched}))
           = ArtistRows(new, {a[1] : a \in DOMAIN new})
<1> DEFINE Names(S) == {a[1] : a \in S}
           Line(list, n) == <<Cardinality(OwnAlbums(list, n)),
                              Total([a \in OwnAlbums(list, n) |-> list[a]])>>
           kept == Without(ArtistRows(old, Names(DOMAIN old)), Names(touched))
           fresh == ArtistRows(new, Names(touched))
           all == ArtistRows(new, Names(DOMAIN new))
<1>1. ASSUME NEW n, n \notin Names(touched)
      PROVE  OwnAlbums(old, n) = OwnAlbums(new, n) /\ Line(old, n) = Line(new, n)
  <2>1. \A a : a[1] = n => a \notin touched
    BY <1>1
  <2>2. OwnAlbums(old, n) = OwnAlbums(new, n)
    BY <2>1 DEF OwnAlbums
  <2>3. \A a \in OwnAlbums(new, n) : old[a] = new[a]
    BY <2>1 DEF OwnAlbums
  <2>4. [a \in OwnAlbums(old, n) |-> old[a]] = [a \in OwnAlbums(new, n) |-> new[a]]
    BY <2>2, <2>3
  <2>5. QED
    BY <2>2, <2>4
<1>2. \A list, n : n \in Names(DOMAIN list) <=> OwnAlbums(list, n) # {}
  BY DEF OwnAlbums
<1>3. /\ kept = [n \in {x \in Names(DOMAIN old) : OwnAlbums(old, x) # {}} \ Names(touched) |->
                   Line(old, n)]
      /\ fresh = [n \in {x \in Names(touched) : OwnAlbums(new, x) # {}} |-> Line(new, n)]
      /\ all = [n \in {x \in Names(DOMAIN new) : OwnAlbums(new, x) # {}} |-> Line(new, n)]
  BY ArtistRowsAt DEF Without
<1> HIDE DEF Line, kept, fresh, all
<1>4. (DOMAIN kept) \cup (DOMAIN fresh) = DOMAIN all
  <2>1. /\ DOMAIN kept = {x \in Names(DOMAIN old) : OwnAlbums(old, x) # {}} \ Names(touched)
        /\ DOMAIN fresh = {x \in Names(touched) : OwnAlbums(new, x) # {}}
        /\ DOMAIN all = {x \in Names(DOMAIN new) : OwnAlbums(new, x) # {}}
    BY <1>3
  <2> HIDE DEF Names
  <2>2. QED
    BY <1>1, <1>2, <2>1
<1>5. \A n \in DOMAIN all : (IF n \in DOMAIN kept THEN kept[n] ELSE fresh[n]) = all[n]
  <2> HIDE DEF Names
  <2>1. QED
    BY <1>1, <1>3, <1>4
<1>6. Joined(kept, fresh) = all
  <2>1. Joined(kept, fresh) =
          [n \in DOMAIN all |-> IF n \in DOMAIN kept THEN kept[n] ELSE fresh[n]]
    BY <1>4 DEF Joined
  <2>2. all = [n \in DOMAIN all |-> all[n]]
    BY <1>3
  <2>3. QED
    BY <1>5, <2>1, <2>2
<1>7. QED
  BY <1>6 DEF kept, fresh, all

(* Refreshing what a write has touched gives the summaries of the rows     *)
(* after it.                                                               *)
LEMMA RefreshedIsSummed ==
  ASSUME NEW T, NEW lib, NEW touched, Fields \subseteq DOMAIN lib,
         lib.albums = AlbumRows(T, AlbumsOf(T)),
         lib.artists = ArtistsOf(lib.albums),
         \A a : a \notin touched => OnAlbum(T, a) = OnAlbum(lib.rows, a)
  PROVE  LET to == Refreshed(lib, touched)
         IN /\ Summed(to)
            /\ to.rows = lib.rows /\ to.nextTrack = lib.nextTrack
            /\ DOMAIN to = DOMAIN lib
<1> DEFINE U == lib.rows
           to == Refreshed(lib, touched)
           list == AlbumRows(U, AlbumsOf(U))
           names == {a[1] : a \in touched}
<1>1. Joined(Without(lib.albums, touched), AlbumRows(U, touched)) = list
  BY AlbumsRefreshed
<1>2. to = [lib EXCEPT !.albums = list,
                       !.artists = Joined(Without(lib.artists, names), ArtistRows(list, names))]
  BY <1>1 DEF Refreshed
<1>3. /\ to.rows = lib.rows /\ to.nextTrack = lib.nextTrack /\ DOMAIN to = DOMAIN lib
      /\ to.albums = list
      /\ to.artists = Joined(Without(lib.artists, names), ArtistRows(list, names))
  BY <1>2 DEF Fields
<1>4. Joined(Without(lib.artists, names), ArtistRows(list, names))
        = ArtistsOf(list)
  <2>1. /\ DOMAIN lib.albums = AlbumsOf(T) /\ DOMAIN list = AlbumsOf(U)
        /\ \A a \in AlbumsOf(T) : lib.albums[a] = Cardinality(OnAlbum(T, a))
        /\ \A a \in AlbumsOf(U) : list[a] = Cardinality(OnAlbum(U, a))
    BY AlbumRowsOfAll
  <2>2. \A a : a \notin touched => (a \in AlbumsOf(T) <=> a \in AlbumsOf(U))
    BY AlbumIsThere
  <2> HIDE DEF list, U
  <2>3. \A a : a \notin touched => (a \in DOMAIN lib.albums <=> a \in DOMAIN list)
    BY <2>1, <2>2
  <2>4. \A a \in DOMAIN list : a \notin touched => lib.albums[a] = list[a]
    BY <2>1, <2>2 DEF U
  <2>5. Joined(Without(ArtistRows(lib.albums, {a[1] : a \in DOMAIN lib.albums}),
                       {a[1] : a \in touched}),
               ArtistRows(list, {a[1] : a \in touched}))
          = ArtistRows(list, {a[1] : a \in DOMAIN list})
    BY <2>3, <2>4, ArtistsRefreshed
  <2>6. QED
    BY <2>5 DEF ArtistsOf
<1>5. QED
  BY <1>3, <1>4 DEF Summed
-----------------------------------------------------------------------------
(* Filing.                                                                 *)

(* Rows are records, so none of them is None.                              *)
LEMMA RowFields ==
  ASSUME NEW r \in AnyRow
  PROVE  /\ r # None
         /\ r.tags \in Contents \cup {None, Cleared} /\ r.hash \in Contents \cup {None}
         /\ r.under \in Range(Artist) \cup {Various, ""}
         /\ r.track \in Nat /\ r.key \in Contents \cup {Garbage}
         /\ \A u \in Range(Artist) \cup {Various, ""} : [r EXCEPT !.under = u] \in AnyRow
         /\ \A b \in BOOLEAN : /\ [r EXCEPT !.seen = b] \in AnyRow
                               /\ [r EXCEPT !.missing = b] \in AnyRow
                               /\ [r EXCEPT !.pending = b] \in AnyRow
         /\ \A n \in Nat : [r EXCEPT !.track = n] \in AnyRow
         /\ \A a \in ArtworkStatus : [r EXCEPT !.art = a] \in AnyRow
BY ScannerAssumption DEF AnyRow, Row

(* Alike rows have tracks, and tags that can be read, alike.               *)
LEMMA AlikeRows ==
  ASSUME NEW r, NEW s, Alike(r, s)
  PROVE  /\ HasTrack(r) <=> HasTrack(s)
         /\ Readable(r) <=> Readable(s)
         /\ HasTrack(r) => r.tags = s.tags /\ r.under = s.under
BY DEF Alike, HasTrack, Readable

LEMMA AlikeAlbum ==
  ASSUME NEW T, NEW U, NEW p, Alike(T[p], U[p]), HasTrack(T[p])
  PROVE  Album(T, p) = Album(U, p)
BY AlikeRows DEF Album

LEMMA AlikeSelf ==
  ASSUME NEW r, NEW s, NEW t
  PROVE  /\ Alike(r, r)
         /\ Alike(r, s) /\ Alike(s, t) => Alike(r, t)
BY DEF Alike

(* Where a track is filed depends on the tags in its directory alone.      *)
LEMMA FiledUnderSame ==
  ASSUME NEW T, NEW U, NEW p \in Paths, Readable(T[p]),
         \A q \in Paths : DirOf[q] = DirOf[p] =>
           /\ Readable(T[q]) <=> Readable(U[q])
           /\ Readable(T[q]) => T[q].tags = U[q].tags
  PROVE  FiledUnder(T, p) = FiledUnder(U, p)
<1> DEFINE GroupOf(V) == {q \in Paths : Readable(V[q]) /\ DirOf[q] = DirOf[p]}
           NamesOf(V) == {Artist[V[q].tags] : q \in GroupOf(V)}
<1>1. GroupOf(T) = GroupOf(U) /\ \A q \in GroupOf(T) : T[q].tags = U[q].tags
  OBVIOUS
<1>2. NamesOf(T) = NamesOf(U)
  BY <1>1
<1>3. T[p].tags = U[p].tags
  OBVIOUS
<1>4. /\ FiledUnder(T, p) = IF Cardinality(NamesOf(T)) > 1 THEN Various ELSE Artist[T[p].tags]
      /\ FiledUnder(U, p) = IF Cardinality(NamesOf(U)) > 1 THEN Various ELSE Artist[U[p].tags]
  BY DEF FiledUnder
<1> HIDE DEF NamesOf
<1>5. QED
  BY <1>2, <1>3, <1>4

LEMMA FiledUnderName ==
  ASSUME NEW T, NEW p, Readable(T[p])
  PROVE  FiledUnder(T, p) \in Range(Artist) \cup {Various, ""}
<1>1. T[p].tags \in DOMAIN Artist
  BY RowsAssumption DEF Readable
<1>2. Artist[T[p].tags] \in Range(Artist)
  BY <1>1 DEF Range
<1>3. QED
  BY <1>2 DEF FiledUnder

(* Filing changes who a track is filed under and nothing else.             *)
LEMMA SettledRows ==
  ASSUME NEW T \in Table, NEW dirs
  PROVE  LET F == SettledCompilation(T, dirs)
         IN /\ F \in Table
            /\ \A p \in Paths :
                 /\ HasTrack(F[p]) <=> HasTrack(T[p])
                 /\ Readable(F[p]) <=> Readable(T[p])
                 /\ HasTrack(T[p]) => F[p].tags = T[p].tags
                 /\ Readable(T[p]) /\ DirOf[p] \in dirs => F[p].under = FiledUnder(T, p)
                 /\ ~(Readable(T[p]) /\ DirOf[p] \in dirs) => F[p] = T[p]
<1> DEFINE F == SettledCompilation(T, dirs)
<1>1. \A p \in Paths : F[p] = IF Readable(T[p]) /\ DirOf[p] \in dirs
                              THEN [T[p] EXCEPT !.under = FiledUnder(T, p)] ELSE T[p]
  BY DEF SettledCompilation
<1>2. F = [p \in Paths |-> F[p]]
  BY DEF SettledCompilation
<1> HIDE DEF F
<1>3. ASSUME NEW p \in Paths
      PROVE  /\ F[p] \in RowOrNone
             /\ HasTrack(F[p]) <=> HasTrack(T[p])
             /\ Readable(F[p]) <=> Readable(T[p])
             /\ HasTrack(T[p]) => F[p].tags = T[p].tags
             /\ Readable(T[p]) /\ DirOf[p] \in dirs => F[p].under = FiledUnder(T, p)
             /\ ~(Readable(T[p]) /\ DirOf[p] \in dirs) => F[p] = T[p]
  <2>1. CASE Readable(T[p]) /\ DirOf[p] \in dirs
    <3>1. T[p] \in AnyRow
      BY <2>1 DEF Table, RowOrNone, Readable, HasTrack
    <3>2. F[p] = [T[p] EXCEPT !.under = FiledUnder(T, p)]
      BY <1>1, <2>1
    <3>3. F[p] \in AnyRow
      <4>1. FiledUnder(T, p) \in Range(Artist) \cup {Various, ""}
        BY <2>1, FiledUnderName
      <4>2. \A u \in Range(Artist) \cup {Various, ""} : [T[p] EXCEPT !.under = u] \in AnyRow
        BY <3>1, RowFields
      <4>3. QED
        BY <3>2, <4>1, <4>2
    <3>4. F[p].tags = T[p].tags /\ F[p].under = FiledUnder(T, p)
      BY <3>1, <3>2 DEF AnyRow, Row
    <3>5. F[p] # None /\ T[p] # None
      BY <3>1, <3>3, RowFields
    <3>6. QED
      BY <2>1, <3>3, <3>4, <3>5 DEF HasTrack, Readable, RowOrNone
  <2>2. CASE ~(Readable(T[p]) /\ DirOf[p] \in dirs)
    BY <1>1, <2>2 DEF Table
  <2>3. QED
    BY <2>1, <2>2
<1>4. F \in Table
  BY <1>2, <1>3 DEF Table
<1>5. QED
  BY <1>3, <1>4 DEF F

(* When the directories left out are filed already, all are afterwards.    *)
LEMMA SettledIsFiled ==
  ASSUME NEW T \in Table, NEW dirs,
         \A p \in Paths : Readable(T[p]) /\ DirOf[p] \notin dirs =>
           T[p].under = FiledUnder(T, p)
  PROVE  Filed(SettledCompilation(T, dirs))
<1> DEFINE F == SettledCompilation(T, dirs)
<1>1. \A p \in Paths :
        /\ HasTrack(F[p]) <=> HasTrack(T[p])
        /\ Readable(F[p]) <=> Readable(T[p])
        /\ HasTrack(T[p]) => F[p].tags = T[p].tags
        /\ Readable(T[p]) /\ DirOf[p] \in dirs => F[p].under = FiledUnder(T, p)
        /\ ~(Readable(T[p]) /\ DirOf[p] \in dirs) => F[p] = T[p]
  BY SettledRows
<1> HIDE DEF F
<1>2. ASSUME NEW p \in Paths, Readable(F[p]) PROVE F[p].under = FiledUnder(F, p)
  <2>1. FiledUnder(F, p) = FiledUnder(T, p)
    <3>1. \A q \in Paths : /\ Readable(F[q]) <=> Readable(T[q])
                           /\ Readable(F[q]) => F[q].tags = T[q].tags
      BY <1>1 DEF Readable
    <3>2. QED
      BY <1>2, <3>1, FiledUnderSame
  <2>2. F[p].under = FiledUnder(T, p)
    BY <1>1, <1>2
  <2>3. QED
    BY <2>1, <2>2
<1>3. QED
  BY <1>2 DEF Filed, F

(* What is filed is not filed otherwise.                                   *)
LEMMA FiledIsSettled ==
  ASSUME NEW T \in Table, NEW dirs, Filed(T)
  PROVE  SettledCompilation(T, dirs) = T
<1> DEFINE F == SettledCompilation(T, dirs)
<1>1. ASSUME NEW p \in Paths, Readable(T[p])
      PROVE  [T[p] EXCEPT !.under = FiledUnder(T, p)] = T[p]
  <2>1. T[p] \in AnyRow
    BY <1>1 DEF Table, RowOrNone, Readable, HasTrack
  <2>2. T[p].under = FiledUnder(T, p)
    BY <1>1 DEF Filed
  <2>3. QED
    BY <2>1, <2>2 DEF AnyRow, Row
<1>2. \A p \in Paths : (IF Readable(T[p]) /\ DirOf[p] \in dirs
                        THEN [T[p] EXCEPT !.under = FiledUnder(T, p)] ELSE T[p]) = T[p]
  BY <1>1
<1>3. T = [p \in Paths |-> T[p]]
  BY DEF Table
<1>4. QED
  BY <1>2, <1>3 DEF SettledCompilation
-----------------------------------------------------------------------------
(* What a write has to name.                                               *)

(* Every row of T that is another in U has its albums, before and after,   *)
(* and its directory among those named.                                    *)
CoveredRow(T, U, p, ids, dirs) ==
  /\ HasTrack(T[p]) => Album(T, p) \in ids
  /\ HasTrack(U[p]) => Album(U, p) \in ids
  /\ Readable(T[p]) \/ Readable(U[p]) => DirOf[p] \in dirs

Covered(T, U, ids, dirs) ==
  \A p \in Paths : Alike(T[p], U[p]) \/ CoveredRow(T, U, p, ids, dirs)

(* An album that is not named has the tracks it had.                       *)
LEMMA OtherAlbumsStay ==
  ASSUME NEW T, NEW U, NEW ids, NEW dirs, Covered(T, U, ids, dirs),
         NEW a, a \notin ids
  PROVE  OnAlbum(T, a) = OnAlbum(U, a)
<1>1. ASSUME NEW p \in Paths
      PROVE  HasTrack(T[p]) /\ Album(T, p) = a <=> HasTrack(U[p]) /\ Album(U, p) = a
  <2>1. CASE Alike(T[p], U[p])
    BY <2>1, AlikeRows, AlikeAlbum
  <2>2. CASE CoveredRow(T, U, p, ids, dirs)
    BY <2>2 DEF CoveredRow
  <2>3. QED
    BY <2>1, <2>2 DEF Covered
<1>2. QED
  BY <1>1 DEF OnAlbum

(* A directory that is not named is filed as it was.                       *)
LEMMA OtherDirectoriesStay ==
  ASSUME NEW T, NEW U, NEW ids, NEW dirs, Covered(T, U, ids, dirs), Filed(T),
         NEW p \in Paths, Readable(U[p]), DirOf[p] \notin dirs
  PROVE  U[p].under = FiledUnder(U, p)
<1>1. \A q \in Paths : DirOf[q] = DirOf[p] =>
        /\ Readable(T[q]) <=> Readable(U[q])
        /\ Readable(T[q]) => T[q].tags = U[q].tags /\ T[q].under = U[q].under
  <2>1. ASSUME NEW q \in Paths, DirOf[q] = DirOf[p]
        PROVE  /\ Readable(T[q]) <=> Readable(U[q])
               /\ Readable(T[q]) => T[q].tags = U[q].tags /\ T[q].under = U[q].under
    <3>1. CASE Alike(T[q], U[q])
      BY <3>1, AlikeRows DEF Readable
    <3>2. CASE CoveredRow(T, U, q, ids, dirs)
      BY <2>1, <3>2 DEF CoveredRow
    <3>3. QED
      BY <3>1, <3>2 DEF Covered
  <2>2. QED
    BY <2>1
<1>2. Readable(T[p]) /\ T[p].under = U[p].under
  BY <1>1
<1>3. FiledUnder(T, p) = FiledUnder(U, p)
  BY <1>1, <1>2, FiledUnderSame
<1>4. T[p].under = FiledUnder(T, p)
  BY <1>2 DEF Filed
<1>5. QED
  BY <1>2, <1>3, <1>4

(* Settling a write whose changes are named leaves true summaries, also of *)
(* the albums that compilations take tracks from.                          *)
LEMMA SettledIsTrue ==
  ASSUME NEW T, NEW lib, NEW ids, NEW dirs, Fields \subseteq DOMAIN lib,
         lib.rows \in Table, Filed(T), Covered(T, lib.rows, ids, dirs),
         lib.albums = AlbumRows(T, AlbumsOf(T)),
         lib.artists = ArtistsOf(lib.albums)
  PROVE  LET to == Settled(lib, ids, dirs)
         IN /\ Summed(to) /\ Filed(to.rows) /\ to.rows \in Table
            /\ to.nextTrack = lib.nextTrack /\ DOMAIN to = DOMAIN lib
<1> DEFINE U == lib.rows
           F == SettledCompilation(U, dirs)
           moved == {p \in Paths : F[p] # U[p]}
           touched == ids \cup {Album(U, p) : p \in moved} \cup {Album(F, p) : p \in moved}
           with == [lib EXCEPT !.rows = F]
           to == Refreshed(with, touched)
<1>1. Settled(lib, ids, dirs) = to
  BY DEF Settled
<1>2. /\ with.rows = F /\ with.albums = lib.albums /\ with.artists = lib.artists
      /\ with.nextTrack = lib.nextTrack /\ DOMAIN with = DOMAIN lib
  BY DEF Fields
<1>3. /\ F \in Table
      /\ \A p \in Paths : HasTrack(F[p]) <=> HasTrack(U[p])
  BY SettledRows
<1>4. Filed(F)
  <2>1. \A p \in Paths : Readable(U[p]) /\ DirOf[p] \notin dirs => U[p].under = FiledUnder(U, p)
    BY OtherDirectoriesStay
  <2>2. QED
    BY <2>1, SettledIsFiled
<1> HIDE DEF F, U
<1>5. ASSUME NEW a, a \notin touched PROVE OnAlbum(T, a) = OnAlbum(F, a)
  <2>1. OnAlbum(T, a) = OnAlbum(U, a)
    BY <1>5, OtherAlbumsStay DEF U
  <2>2. ASSUME NEW p \in Paths
        PROVE  HasTrack(U[p]) /\ Album(U, p) = a <=> HasTrack(F[p]) /\ Album(F, p) = a
    <3>1. CASE p \in moved
      BY <1>5, <3>1
    <3>2. CASE p \notin moved
      <4>1. F[p] = U[p]
        BY <3>2
      <4>2. Album(F, p) = Album(U, p)
        BY <4>1 DEF Album
      <4>3. QED
        BY <4>1, <4>2
    <3>3. QED
      BY <3>1, <3>2
  <2>3. OnAlbum(U, a) = OnAlbum(F, a)
    BY <2>2 DEF OnAlbum
  <2>4. QED
    BY <2>1, <2>3
<1> HIDE DEF touched, with
<1>6. /\ Summed(to) /\ to.rows = F /\ to.nextTrack = with.nextTrack /\ DOMAIN to = DOMAIN with
  <2>1. Fields \subseteq DOMAIN with
    BY <1>2
  <2>2. \A a : a \notin touched => OnAlbum(T, a) = OnAlbum(with.rows, a)
    BY <1>2, <1>5
  <2>3. /\ with.albums = AlbumRows(T, AlbumsOf(T))
        /\ with.artists = ArtistsOf(with.albums)
    BY <1>2
  <2>4. /\ Summed(Refreshed(with, touched))
        /\ Refreshed(with, touched).rows = with.rows
        /\ Refreshed(with, touched).nextTrack = with.nextTrack
        /\ DOMAIN Refreshed(with, touched) = DOMAIN with
    BY <2>1, <2>2, <2>3, RefreshedIsSummed
  <2>5. QED
    BY <1>2, <2>4
<1>7. QED
  BY <1>1, <1>2, <1>3, <1>4, <1>6

(* A rebuild gives the summaries of the rows, filed.                       *)
LEMMA RebuiltIsTrue ==
  ASSUME NEW T \in Table
  PROVE  LET to == Rebuilt(T)
         IN /\ to.albums = AlbumRows(to.rows, AlbumsOf(to.rows))
            /\ to.artists = ArtistsOf(to.albums)
            /\ Filed(to.rows) /\ to.rows \in Table
<1> DEFINE F == SettledCompilation(T, {DirOf[p] : p \in Paths})
<1>1. F \in Table
  BY SettledRows
<1>2. Filed(F)
  <2>1. \A p \in Paths : DirOf[p] \in {DirOf[q] : q \in Paths}
    OBVIOUS
  <2>2. QED
    BY <2>1, SettledIsFiled
<1> HIDE DEF F
<1>3. Rebuilt(T) = SummaryOf(F)
  BY DEF Rebuilt, F
<1>4. QED
  BY <1>1, <1>2, <1>3 DEF SummaryOf, ArtistsOf

(* Of rows that are filed and summed up, a rebuild changes nothing.        *)
LEMMA RebuiltIsSame ==
  ASSUME NEW lib, lib.rows \in Table, Filed(lib.rows), Summed(lib)
  PROVE  Rebuilt(lib.rows) =
           [rows |-> lib.rows, albums |-> lib.albums, artists |-> lib.artists]
<1>1. SettledCompilation(lib.rows, {DirOf[p] : p \in Paths}) = lib.rows
  BY FiledIsSettled
<1>2. Rebuilt(lib.rows) = SummaryOf(lib.rows)
  BY <1>1 DEF Rebuilt
<1>3. QED
  BY <1>2 DEF SummaryOf, Summed, ArtistsOf

(* Rows that are alike have the same summaries.                            *)
LEMMA AlikeIsTrue ==
  ASSUME NEW lib, NEW to, Summed(lib), Filed(lib.rows),
         \A p \in Paths : Alike(lib.rows[p], to.rows[p]),
         to.albums = lib.albums, to.artists = lib.artists
  PROVE  Summed(to) /\ Filed(to.rows)
<1> DEFINE T == lib.rows
           U == to.rows
<1>1. Covered(T, U, {}, {})
  BY DEF Covered
<1>2. \A a : OnAlbum(T, a) = OnAlbum(U, a)
  BY <1>1, OtherAlbumsStay
<1>3. AlbumsOf(T) = AlbumsOf(U)
  <2>1. \A a : a \in AlbumsOf(T) <=> a \in AlbumsOf(U)
    BY <1>2, AlbumIsThere
  <2>2. QED
    BY <2>1
<1>4. AlbumRows(T, AlbumsOf(T)) = AlbumRows(U, AlbumsOf(U))
  BY <1>2, <1>3 DEF AlbumRows
<1>5. Filed(U)
  BY <1>1, OtherDirectoriesStay DEF Filed
<1>6. QED
  BY <1>4, <1>5 DEF Summed
-----------------------------------------------------------------------------
(* A batch.                                                                *)

(* Induction: what fails for a number fails for a least one.               *)
LEMMA Least ==
  ASSUME NEW S, S \subseteq Nat, S # {}
  PROVE  \E x \in S : \A y \in S : x <= y
<1>1. IsWellFoundedOn(OpToRel(<, Nat), Nat)
  BY NatLessThanWellFounded
<1>2. PICK x \in S : \A y \in S : <<y, x>> \notin OpToRel(<, Nat)
  BY <1>1, WFMin
<1>3. \A y \in S : ~(y < x)
  BY <1>2 DEF OpToRel
<1>4. QED
  BY <1>3

FirstWrite == [rows |-> rows, nextTrack |-> library.nextTrack, albums |-> {}, dirs |-> {}]

(* The write after each of the first n files, step by step.                *)
ApplyingUpTo(retried, n, w) ==
  w = [k \in 0..n |-> IF k = 0 THEN FirstWrite
                      ELSE Apply(w[k - 1], scan.planned[k], retried)]

LEMMA ApplyingDefined ==
  ASSUME NEW retried, NEW n \in Nat
  PROVE  \E w : ApplyingUpTo(retried, n, w)
<1> DEFINE S == {m \in Nat : ~ \E w : ApplyingUpTo(retried, m, w)}
           At(w, k) == IF k = 0 THEN FirstWrite
                       ELSE Apply(w[k - 1], scan.planned[k], retried)
<1>1. SUFFICES ASSUME S # {} PROVE FALSE
  OBVIOUS
<1>2. PICK m \in S : \A k \in S : m <= k
  BY <1>1, Least
<1>3. m \in Nat /\ ~ \E w : ApplyingUpTo(retried, m, w)
  BY <1>2
<1>4. CASE m = 0
  <2>1. ApplyingUpTo(retried, 0, [k \in 0..0 |-> FirstWrite])
    BY DEF ApplyingUpTo
  <2>2. QED
    BY <1>3, <1>4, <2>1
<1>5. CASE m > 0
  <2>1. m - 1 \in Nat /\ m - 1 \notin S
    BY <1>2, <1>3, <1>5
  <2>2. PICK before : ApplyingUpTo(retried, m - 1, before)
    BY <2>1
  <2> DEFINE w == [k \in 0..m |-> IF k = m THEN At(before, m) ELSE before[k]]
  <2>3. DOMAIN w = 0..m /\ w[m] = At(before, m) /\ \A k \in 0..(m - 1) : w[k] = before[k]
    BY <1>3, <1>5
  <2>4. \A k \in 0..(m - 1) : before[k] = At(before, k)
    BY <2>2 DEF ApplyingUpTo
  <2> HIDE DEF w
  <2>5. ASSUME NEW k \in 0..m PROVE w[k] = At(w, k)
    <3>1. k # 0 => k - 1 \in 0..(m - 1) /\ w[k - 1] = before[k - 1]
      BY <1>3, <2>3
    <3>2. At(w, k) = At(before, k)
      BY <3>1
    <3>3. k = m \/ k \in 0..(m - 1)
      BY <1>3
    <3>4. QED
      BY <2>3, <2>4, <3>2, <3>3
  <2>6. ApplyingUpTo(retried, m, w)
    <3>1. w = [k \in 0..m |-> w[k]]
      BY <2>3 DEF w
    <3>2. QED
      BY <2>5, <3>1 DEF ApplyingUpTo
  <2>7. QED
    BY <1>3, <2>6
<1>6. QED
  BY <1>3, <1>4, <1>5

LEMMA ApplyingSteps ==
  ASSUME NEW retried, Len(scan.planned) \in Nat
  PROVE  /\ Applying(retried)[0] = FirstWrite
         /\ \A k \in 1..Len(scan.planned) :
              Applying(retried)[k] = Apply(Applying(retried)[k - 1], scan.planned[k], retried)
<1>1. Applying(retried) = CHOOSE w : ApplyingUpTo(retried, Len(scan.planned), w)
  BY DEF Applying, ApplyingUpTo, FirstWrite
<1>2. ApplyingUpTo(retried, Len(scan.planned), Applying(retried))
  BY <1>1, ApplyingDefined
<1>3. PICK w : w = Applying(retried)
  OBVIOUS
<1>4. \A k \in 0..Len(scan.planned) :
        w[k] = IF k = 0 THEN FirstWrite ELSE Apply(w[k - 1], scan.planned[k], retried)
  BY <1>2, <1>3 DEF ApplyingUpTo
<1>5. QED
  BY <1>3, <1>4

(* A write in the making.                                                  *)
Write(w) ==
  /\ DOMAIN w = {"rows", "nextTrack", "albums", "dirs"}
  /\ w.rows \in Table /\ w.nextTrack \in Nat

(* Only the row of p changes, and no album or directory is forgotten.      *)
OnlyAt(w, to, p) ==
  /\ Write(to)
  /\ \A x \in Paths : x # p => to.rows[x] = w.rows[x]
  /\ w.albums \subseteq to.albums /\ w.dirs \subseteq to.dirs

LEMMA TouchRow ==
  ASSUME NEW w, Write(w), NEW p \in Paths, w.rows[p] # None
  PROVE  LET to == Touch(w, p)
         IN /\ OnlyAt(w, to, p)
            /\ to.rows[p] = [w.rows[p] EXCEPT !.seen = TRUE, !.missing = FALSE]
            /\ to.rows[p] \in AnyRow
            /\ to.nextTrack = w.nextTrack
<1> DEFINE to == Touch(w, p)
           row == [w.rows[p] EXCEPT !.seen = TRUE, !.missing = FALSE]
<1>1. w.rows[p] \in AnyRow
  BY DEF Write, Table, RowOrNone
<1>2. row \in AnyRow
  BY <1>1 DEF AnyRow, Row
<1>3. to = [w EXCEPT !.rows = [@ EXCEPT ![p] = row]]
  BY DEF Touch, Write
<1> HIDE DEF row
<1>4. /\ to.rows = [w.rows EXCEPT ![p] = row] /\ to.nextTrack = w.nextTrack
      /\ to.albums = w.albums /\ to.dirs = w.dirs /\ DOMAIN to = DOMAIN w
  BY <1>3 DEF Write
<1>5. to.rows \in Table /\ to.rows[p] = row /\ \A x \in Paths : x # p => to.rows[x] = w.rows[x]
  BY <1>2, <1>4 DEF Write, Table, RowOrNone
<1>6. QED
  BY <1>2, <1>4, <1>5 DEF OnlyAt, Write, row

LEMMA TouchedTrackIs ==
  ASSUME NEW w, Write(w), NEW p
  PROVE  LET to == TouchedTrack(w, p)
         IN /\ Write(to) /\ to.rows = w.rows /\ to.nextTrack = w.nextTrack
            /\ w.albums \subseteq to.albums /\ w.dirs \subseteq to.dirs
            /\ HasTrack(w.rows[p]) => Album(w.rows, p) \in to.albums
            /\ Readable(w.rows[p]) => DirOf[p] \in to.dirs
<1> DEFINE to == TouchedTrack(w, p)
<1>1. /\ to.rows = w.rows /\ to.nextTrack = w.nextTrack /\ DOMAIN to = DOMAIN w
      /\ to.albums = w.albums \cup (IF HasTrack(w.rows[p]) THEN {Album(w.rows, p)} ELSE {})
      /\ to.dirs = w.dirs \cup (IF Readable(w.rows[p]) THEN {DirOf[p]} ELSE {})
  BY DEF TouchedTrack, Write
<1> HIDE DEF to
<1>2. QED
  BY <1>1 DEF Write, to

(* Two rows of the same file, read alike.                                  *)
SameContent(r, s) ==
  r.key = s.key /\ r.tags = s.tags /\ r.hash = s.hash /\ r.misread = s.misread

(* Two rows of the same file, track and tags.                              *)
SameFile(r, s) ==
  /\ r # None /\ s # None
  /\ r.key = s.key /\ r.tags = s.tags /\ r.hash = s.hash /\ r.misread = s.misread
  /\ r.under = s.under /\ r.track = s.track /\ r.pending = s.pending

LEMMA SameFileIs ==
  ASSUME NEW r \in AnyRow, NEW b \in BOOLEAN, NEW c \in BOOLEAN, NEW art \in ArtworkStatus
  PROVE  /\ SameFile(r, r)
         /\ SameFile(r, [r EXCEPT !.seen = b])
         /\ SameFile(r, [r EXCEPT !.missing = b])
         /\ SameFile(r, [r EXCEPT !.seen = b, !.missing = c])
         /\ SameFile(r, [r EXCEPT !.seen = b, !.missing = c, !.art = art])
<1>1. /\ [r EXCEPT !.seen = b] \in AnyRow /\ [r EXCEPT !.missing = b] \in AnyRow
      /\ [r EXCEPT !.seen = b, !.missing = c] \in AnyRow
      /\ [r EXCEPT !.seen = b, !.missing = c, !.art = art] \in AnyRow
  BY DEF AnyRow, Row, ArtworkStatus
<1>2. None \notin AnyRow
  BY ScannerAssumption
<1>3. QED
  BY <1>1, <1>2 DEF SameFile, AnyRow, Row

(* What a write does of a file whose artwork was read again.               *)
LEMMA ArtworkRow ==
  ASSUME NEW w, Write(w), NEW p \in Paths, w.rows[p] # None,
         NEW art \in ArtworkStatus
  PROVE  LET to == ApplyArtwork(Touch(w, p), p, art)
         IN /\ OnlyAt(w, to, p) /\ SameFile(w.rows[p], to.rows[p])
            /\ to.rows[p].seen /\ ~to.rows[p].missing
<1> DEFINE one == Touch(w, p)
           two == TouchedTrack(one, p)
           to == ApplyArtwork(one, p, art)
           row == [one.rows[p] EXCEPT !.art = art]
<1>1. /\ OnlyAt(w, one, p)
      /\ one.rows[p] = [w.rows[p] EXCEPT !.seen = TRUE, !.missing = FALSE]
      /\ one.rows[p] \in AnyRow /\ one.nextTrack = w.nextTrack
  BY TouchRow
<1> HIDE DEF one
<1>2. /\ Write(two) /\ two.rows = one.rows /\ two.nextTrack = one.nextTrack
      /\ one.albums \subseteq two.albums /\ one.dirs \subseteq two.dirs
  BY <1>1, TouchedTrackIs DEF OnlyAt
<1> HIDE DEF two
<1>3. row \in AnyRow
  BY <1>1 DEF AnyRow, Row
<1>4. to = [two EXCEPT !.rows = [@ EXCEPT ![p] = row]]
  <2>1. to = [two EXCEPT !.rows[p].art = art]
    BY DEF ApplyArtwork, two
  <2>2. QED
    BY <1>2, <2>1 DEF Write
<1>5. SameFile(w.rows[p], row) /\ row.seen /\ ~row.missing
  <2>1. w.rows[p] \in AnyRow
    BY DEF Write, Table, RowOrNone
  <2>2. row = [w.rows[p] EXCEPT !.seen = TRUE, !.missing = FALSE, !.art = art]
    BY <1>1, <2>1 DEF AnyRow, Row
  <2>3. row.seen /\ ~row.missing
    BY <2>1, <2>2 DEF AnyRow, Row
  <2>4. QED
    BY <2>1, <2>2, <2>3, SameFileIs DEF ArtworkStatus
<1> HIDE DEF row
<1>6. /\ to.rows = [two.rows EXCEPT ![p] = row] /\ to.nextTrack = w.nextTrack
      /\ to.albums = two.albums /\ to.dirs = two.dirs /\ DOMAIN to = DOMAIN two
  BY <1>1, <1>2, <1>4 DEF Write
<1>7. /\ to.rows \in Table /\ to.rows[p] = row
      /\ \A x \in Paths : x # p => to.rows[x] = two.rows[x]
  BY <1>2, <1>3, <1>6 DEF Write, Table, RowOrNone
<1>8. QED
  BY <1>1, <1>2, <1>3, <1>5, <1>6, <1>7 DEF OnlyAt, Write, one

(* What a write does of a file that was read.                              *)
StoredRow(w, plan, result) ==
  LET old == w.rows[plan.path]
      tracked == HasTrack(old)
      ok == result.tags # None
  IN [key |-> plan.key, seen |-> TRUE, missing |-> FALSE, art |-> result.art,
      hash |-> result.hash, misread |-> result.misread,
      pending |-> IF old # None THEN old.pending ELSE ok,
      track |-> IF tracked THEN old.track ELSE IF ok THEN w.nextTrack ELSE 0,
      tags |-> IF ok THEN result.tags ELSE IF tracked THEN Cleared ELSE None,
      under |-> IF result.tags \in Contents THEN Artist[result.tags] ELSE ""]

LEMMA StoredRowType ==
  ASSUME NEW w, Write(w), NEW plan \in Plans, NEW result \in Results
  PROVE  StoredRow(w, plan, result) \in AnyRow
<1> DEFINE p == plan.path
           old == w.rows[p]
           ok == result.tags # None
           tracked == HasTrack(old)
<1>1. /\ p \in Paths /\ plan.key \in Contents \cup {Garbage}
      /\ result.tags \in Contents \cup {None, Cleared}
      /\ result.hash \in Contents \cup {None} /\ result.misread \in BOOLEAN
      /\ result.art \in ArtworkStatus
  BY DEF Plans, Results
<1>2. old # None => old.pending \in BOOLEAN /\ old.track \in Nat
  <2>1. old \in RowOrNone
    BY <1>1 DEF Write, Table
  <2>2. QED
    BY <2>1 DEF RowOrNone, AnyRow, Row
<1>3. result.tags \in Contents => Artist[result.tags] \in Range(Artist)
  BY <1>1, RowsAssumption DEF Range
<1>4. w.nextTrack \in Nat
  BY DEF Write
<1>5. tracked => old # None
  BY DEF HasTrack
<1> DEFINE pending == IF old # None THEN old.pending ELSE ok
           track == IF tracked THEN old.track ELSE IF ok THEN w.nextTrack ELSE 0
           tags == IF ok THEN result.tags ELSE IF tracked THEN Cleared ELSE None
           under == IF result.tags \in Contents THEN Artist[result.tags] ELSE ""
<1>6. pending \in BOOLEAN
  <2>1. CASE old # None
    BY <1>2, <2>1
  <2>2. CASE old = None
    BY <2>2
  <2>3. QED
    BY <2>1, <2>2
<1>7. track \in Nat
  <2> HIDE DEF tracked, ok, old
  <2>1. QED
    BY <1>2, <1>4, <1>5
<1>8. tags \in Contents \cup {None, Cleared}
  BY <1>1
<1>9. under \in Range(Artist) \cup {Various, ""}
  BY <1>3
<1>10. StoredRow(w, plan, result) =
         [key |-> plan.key, seen |-> TRUE, missing |-> FALSE, art |-> result.art,
          hash |-> result.hash, misread |-> result.misread,
          pending |-> pending, track |-> track, tags |-> tags, under |-> under]
  BY DEF StoredRow
<1> HIDE DEF pending, track, tags, under
<1>11. PICK n \in Nat, t \in Contents \cup {None, Cleared},
            u \in Range(Artist) \cup {Various, ""} : n = track /\ t = tags /\ u = under
  BY ONLY <1>7, <1>8, <1>9
<1>12. PICK row : row = StoredRow(w, plan, result)
  OBVIOUS
<1>13. row = [key |-> plan.key, seen |-> TRUE, missing |-> FALSE, art |-> result.art,
              hash |-> result.hash, misread |-> result.misread,
              pending |-> pending, track |-> n, tags |-> t, under |-> u]
  BY ONLY <1>10, <1>11, <1>12
<1>14. row \in AnyRow
  BY ONLY <1>1, <1>6, <1>13 DEF AnyRow, Row
<1>15. QED
  BY <1>12, <1>14

LEMMA StoreRow ==
  ASSUME NEW w, Write(w), NEW plan \in Plans, NEW result \in Results
  PROVE  LET to == StoreFile(w, plan, result)
             p == plan.path
         IN /\ OnlyAt(w, to, p)
            /\ to.rows[p] = StoredRow(w, plan, result) /\ to.rows[p] \in AnyRow
            /\ CoveredRow(w.rows, to.rows, p, to.albums, to.dirs)
<1> DEFINE p == plan.path
           row == StoredRow(w, plan, result)
           next == IF result.tags # None /\ ~HasTrack(w.rows[p])
                   THEN w.nextTrack + 1 ELSE w.nextTrack
           one == TouchedTrack(w, p)
           two == [one EXCEPT !.rows[p] = row, !.nextTrack = next]
           to == StoreFile(w, plan, result)
<1>1. /\ Write(one) /\ one.rows = w.rows /\ one.nextTrack = w.nextTrack
      /\ w.albums \subseteq one.albums /\ w.dirs \subseteq one.dirs
      /\ HasTrack(w.rows[p]) => Album(w.rows, p) \in one.albums
      /\ Readable(w.rows[p]) => DirOf[p] \in one.dirs
  BY TouchedTrackIs
<1>2. to = TouchedTrack(two, p)
  <2> HIDE DEF one
  <2>1. to = TouchedTrack([one EXCEPT !.rows[p] = row,
               !.nextTrack = IF result.tags # None /\ ~HasTrack(w.rows[p]) THEN @ + 1 ELSE @], p)
    BY DEF StoreFile, StoredRow, one
  <2>2. QED
    BY <1>1, <2>1 DEF Write
<1>3. row \in AnyRow /\ p \in Paths /\ next \in Nat
  BY StoredRowType DEF Plans, Write
<1> HIDE DEF one, row, next
<1>4. /\ two.rows = [w.rows EXCEPT ![p] = row] /\ two.nextTrack = next
      /\ two.albums = one.albums /\ two.dirs = one.dirs /\ DOMAIN two = DOMAIN one
  BY <1>1 DEF Write
<1> HIDE DEF two
<1>5. /\ two.rows \in Table /\ two.rows[p] = row
      /\ \A x \in Paths : x # p => two.rows[x] = w.rows[x]
  BY <1>3, <1>4 DEF Write, Table, RowOrNone
<1>6. Write(two)
  BY <1>1, <1>3, <1>4, <1>5 DEF Write
<1>7. /\ Write(to) /\ to.rows = two.rows
      /\ two.albums \subseteq to.albums /\ two.dirs \subseteq to.dirs
      /\ HasTrack(two.rows[p]) => Album(two.rows, p) \in to.albums
      /\ Readable(two.rows[p]) => DirOf[p] \in to.dirs
  BY <1>2, <1>6, TouchedTrackIs
<1> HIDE DEF to
<1>8. OnlyAt(w, to, p)
  BY <1>1, <1>4, <1>5, <1>7 DEF OnlyAt
<1>9. CoveredRow(w.rows, to.rows, p, to.albums, to.dirs)
  BY <1>1, <1>4, <1>7 DEF CoveredRow
<1>10. QED
  BY <1>3, <1>5, <1>7, <1>8, <1>9 DEF to, row, p

LEMMA CoveredGrows ==
  ASSUME NEW T, NEW w, NEW to, NEW p \in Paths,
         Covered(T, w.rows, w.albums, w.dirs), OnlyAt(w, to, p),
         \/ Alike(w.rows[p], to.rows[p])
         \/ CoveredRow(w.rows, to.rows, p, to.albums, to.dirs)
  PROVE  Covered(T, to.rows, to.albums, to.dirs)
<1>1. ASSUME NEW x \in Paths, x # p
      PROVE  Alike(T[x], to.rows[x]) \/ CoveredRow(T, to.rows, x, to.albums, to.dirs)
  <2>1. to.rows[x] = w.rows[x]
    BY <1>1 DEF OnlyAt
  <2>2. Album(to.rows, x) = Album(w.rows, x)
    BY <2>1 DEF Album
  <2>3. QED
    BY <2>1, <2>2 DEF Covered, CoveredRow, OnlyAt
<1>2. Alike(T[p], to.rows[p]) \/ CoveredRow(T, to.rows, p, to.albums, to.dirs)
  <2>1. CASE Alike(w.rows[p], to.rows[p])
    <3>1. CASE Alike(T[p], w.rows[p])
      BY <2>1, <3>1, AlikeSelf
    <3>2. CASE CoveredRow(T, w.rows, p, w.albums, w.dirs)
      <4>1. /\ HasTrack(to.rows[p]) => HasTrack(w.rows[p])
            /\ Readable(to.rows[p]) => Readable(w.rows[p])
            /\ HasTrack(w.rows[p]) => Album(w.rows, p) = Album(to.rows, p)
        BY <2>1, AlikeRows, AlikeAlbum
      <4>2. QED
        BY <3>2, <4>1 DEF CoveredRow, OnlyAt
    <3>3. QED
      BY <3>1, <3>2 DEF Covered
  <2>2. CASE CoveredRow(w.rows, to.rows, p, to.albums, to.dirs)
    <3>1. CASE Alike(T[p], w.rows[p])
      <4>1. /\ HasTrack(T[p]) => HasTrack(w.rows[p]) /\ Album(T, p) = Album(w.rows, p)
            /\ Readable(T[p]) => Readable(w.rows[p])
        BY <3>1, AlikeRows, AlikeAlbum
      <4>2. QED
        BY <2>2, <4>1 DEF CoveredRow
    <3>2. CASE CoveredRow(T, w.rows, p, w.albums, w.dirs)
      BY <2>2, <3>2 DEF CoveredRow, OnlyAt
    <3>3. QED
      BY <3>1, <3>2 DEF Covered
  <2>3. QED
    BY <2>1, <2>2
<1>3. QED
  BY <1>1, <1>2 DEF Covered

LEMMA SameFileAlike ==
  ASSUME NEW r, NEW s, SameFile(r, s)
  PROVE  Alike(r, s)
BY DEF SameFile, Alike

(* A plan can be carried out: a file that is not read has a row.           *)
Feasible(plan, w, retried) ==
  /\ plan.does # "inspect" => w.rows[plan.path] # None
  /\ plan.does = "retry" => retried[plan.path] \in ArtworkStatus

LEMMA ApplyStep ==
  ASSUME TypeOK, NEW w, Write(w), NEW plan \in Plans, NEW retried,
         Feasible(plan, w, retried)
  PROVE  LET to == Apply(w, plan, retried)
             p == plan.path
         IN /\ OnlyAt(w, to, p)
            /\ \/ Alike(w.rows[p], to.rows[p])
               \/ CoveredRow(w.rows, to.rows, p, to.albums, to.dirs)
            /\ w.rows[p] # None => to.rows[p] # None
            /\ plan.does # "inspect" =>
                 SameFile(w.rows[p], to.rows[p]) /\ to.rows[p].seen /\ ~to.rows[p].missing
            /\ plan.does = "inspect" /\ p \in DOMAIN scan.read =>
                 to.rows[p] = StoredRow(w, plan, scan.read[p])
            /\ plan.does = "inspect" /\ p \notin DOMAIN scan.read => to.rows[p] = w.rows[p]
<1> DEFINE p == plan.path
           to == Apply(w, plan, retried)
<1>1. p \in Paths /\ plan.does \in {"inspect", "retry", "touch"}
  BY DEF Plans
<1>2. w.rows[p] \in RowOrNone
  BY <1>1 DEF Write, Table
<1>3. None \notin AnyRow
  BY ScannerAssumption
<1>4. CASE plan.does = "touch"
  <2> DEFINE row == [w.rows[p] EXCEPT !.seen = TRUE, !.missing = FALSE]
  <2>1. w.rows[p] \in AnyRow
    BY <1>2, <1>4 DEF Feasible, RowOrNone
  <2>2. to = Touch(w, p)
    BY <1>4 DEF Apply
  <2>3. OnlyAt(w, to, p) /\ to.rows[p] = row /\ to.rows[p] \in AnyRow
    <3>1. w.rows[p] # None
      BY <1>3, <2>1
    <3>2. /\ OnlyAt(w, Touch(w, p), p) /\ Touch(w, p).rows[p] = row
          /\ Touch(w, p).rows[p] \in AnyRow
      BY <1>1, <3>1, TouchRow
    <3>3. QED
      BY ONLY <2>2, <3>2
  <2>4. SameFile(w.rows[p], row) /\ row.seen /\ ~row.missing
    <3>1. row.seen /\ ~row.missing
      BY <2>1 DEF AnyRow, Row
    <3>2. QED
      BY <2>1, <3>1, SameFileIs DEF ArtworkStatus
  <2>5. QED
    BY <1>3, <1>4, <2>3, <2>4, SameFileAlike
<1>5. CASE plan.does = "retry"
  <2>1. w.rows[p] # None /\ retried[p] \in ArtworkStatus
    BY <1>5 DEF Feasible, ArtworkStatus
  <2>2. to = ApplyArtwork(Touch(w, p), p, retried[p])
    BY <1>5 DEF Apply
  <2>3. /\ OnlyAt(w, to, p) /\ SameFile(w.rows[p], to.rows[p])
        /\ to.rows[p].seen /\ ~to.rows[p].missing
    BY <1>1, <2>1, <2>2, ArtworkRow
  <2>4. QED
    BY <1>5, <2>3, SameFileAlike DEF SameFile
<1>6. CASE plan.does = "inspect" /\ p \in DOMAIN scan.read
  <2>1. scan.read[p] \in Results
    <3>1. PICK S \in SUBSET Paths : scan.read \in [S -> Results]
      BY DEF TypeOK, Scans
    <3>2. QED
      BY <1>6, <3>1
  <2>2. to = StoreFile(w, plan, scan.read[p])
    BY <1>6 DEF Apply
  <2>3. /\ OnlyAt(w, to, p)
        /\ to.rows[p] = StoredRow(w, plan, scan.read[p]) /\ to.rows[p] \in AnyRow
        /\ CoveredRow(w.rows, to.rows, p, to.albums, to.dirs)
    BY <2>1, <2>2, StoreRow
  <2>4. QED
    BY <1>3, <1>6, <2>3
<1>7. CASE plan.does = "inspect" /\ p \notin DOMAIN scan.read
  <2>1. to = w
    BY <1>7 DEF Apply
  <2>2. QED
    BY <1>7, <2>1, AlikeSelf DEF OnlyAt
<1>8. QED
  BY <1>1, <1>4, <1>5, <1>6, <1>7

(* Every plan of the batch can be carried out.                             *)
PlansAreFeasible ==
  \A i \in DOMAIN scan.planned :
    scan.planned[i].does # "inspect" => rows[scan.planned[i].path] # None

(* After each file of the batch, what changed is named.                    *)
LEMMA BatchIsCovered ==
  ASSUME TypeOK, PlansAreFeasible, NEW retried,
         \A p \in PathsTo("retry") : retried[p] \in ArtworkStatus,
         NEW k \in 0..Len(scan.planned)
  PROVE  LET w == Applying(retried)[k]
         IN /\ Write(w) /\ Covered(rows, w.rows, w.albums, w.dirs)
            /\ \A x \in Paths : rows[x] # None => w.rows[x] # None
<1> DEFINE n == Len(scan.planned)
           w(i) == Applying(retried)[i]
           Good(i) == /\ Write(w(i)) /\ Covered(rows, w(i).rows, w(i).albums, w(i).dirs)
                      /\ \A x \in Paths : rows[x] # None => w(i).rows[x] # None
           S == {i \in 0..n : ~Good(i)}
<1>1. n \in Nat /\ scan.planned \in Seq(Plans) /\ DOMAIN scan.planned = 1..n
  BY DEF TypeOK, Scans
<1>2. /\ w(0) = FirstWrite
      /\ \A i \in 1..n : w(i) = Apply(w(i - 1), scan.planned[i], retried)
  BY <1>1, ApplyingSteps
<1> HIDE DEF w
<1>3. Good(0)
  <2>1. w(0).rows = rows /\ Write(w(0))
    BY <1>2 DEF FirstWrite, TypeOK, Write, Table
  <2>2. QED
    BY <2>1, AlikeSelf DEF Covered
<1>4. ASSUME NEW i \in 1..n, Good(i - 1) PROVE Good(i)
  <2> DEFINE plan == scan.planned[i]
             p == plan.path
             old == w(i - 1)
  <2>1. plan \in Plans /\ i \in DOMAIN scan.planned
    BY <1>1
  <2>2. p \in Paths
    BY <2>1 DEF Plans
  <2>3. Feasible(plan, old, retried)
    <3>1. plan.does # "inspect" => old.rows[p] # None
      BY <1>4, <2>1, <2>2 DEF PlansAreFeasible
    <3>2. plan.does = "retry" => p \in PathsTo("retry")
      BY <2>1 DEF PathsTo
    <3>3. QED
      BY <3>1, <3>2 DEF Feasible
  <2>4. w(i) = Apply(old, plan, retried)
    BY <1>2
  <2> HIDE DEF plan, Good
  <2>5. /\ OnlyAt(old, w(i), p)
        /\ \/ Alike(old.rows[p], w(i).rows[p])
           \/ CoveredRow(old.rows, w(i).rows, p, w(i).albums, w(i).dirs)
        /\ old.rows[p] # None => w(i).rows[p] # None
    BY <1>4, <2>1, <2>3, <2>4, ApplyStep DEF Good
  <2>6. Covered(rows, w(i).rows, w(i).albums, w(i).dirs)
    BY <1>4, <2>2, <2>5, CoveredGrows DEF Good
  <2>7. \A x \in Paths : rows[x] # None => w(i).rows[x] # None
    BY <1>4, <2>5 DEF OnlyAt, Good
  <2>8. QED
    BY <2>5, <2>6, <2>7 DEF OnlyAt, Good
<1> HIDE DEF Good
<1>5. S = {}
  <2>1. SUFFICES ASSUME S # {} PROVE FALSE
    OBVIOUS
  <2>2. PICK i \in S : \A j \in S : i <= j
    <3>1. S \subseteq Nat
      BY <1>1
    <3>2. QED
      BY <2>1, <3>1, Least
  <2>3. i \in 0..n /\ ~Good(i)
    BY <2>2
  <2>4. i # 0 /\ i - 1 \in 0..n /\ i - 1 \notin S /\ i \in 1..n
    BY <1>1, <1>3, <2>2, <2>3
  <2>5. QED
    BY <1>4, <2>3, <2>4
<1>6. QED
  BY <1>5 DEF Good, w
-----------------------------------------------------------------------------
(* The library is sound: typed, each track filed, and summed up.           *)

Sound(lib) ==
  /\ DOMAIN lib = Fields /\ lib.rows \in Table /\ lib.nextTrack \in Nat
  /\ Summed(lib) /\ Filed(lib.rows)

LEMMA AlikeIsSound ==
  ASSUME Sound(library), NEW T \in Table, \A p \in Paths : Alike(rows[p], T[p])
  PROVE  LET lib == [library EXCEPT !.rows = T] IN Sound(lib) /\ lib.rows = T
<1> DEFINE lib == [library EXCEPT !.rows = T]
<1>1. /\ DOMAIN lib = Fields /\ lib.rows = T /\ lib.nextTrack = library.nextTrack
      /\ lib.albums = library.albums /\ lib.artists = library.artists
  BY DEF Sound, Fields
<1> HIDE DEF lib
<1>2. Summed(lib) /\ Filed(lib.rows)
  BY <1>1, AlikeIsTrue DEF Sound, rows
<1>3. QED
  BY <1>1, <1>2 DEF Sound, lib

LEMMA RebuiltIsSound ==
  ASSUME Sound(library), NEW T \in Table
  PROVE  LET lib == Hold(library, Rebuilt(T))
         IN Sound(lib) /\ lib.rows = SettledCompilation(T, {DirOf[p] : p \in Paths})
<1> DEFINE to == Rebuilt(T)
           lib == Hold(library, to)
<1>1. /\ to.albums = AlbumRows(to.rows, AlbumsOf(to.rows))
      /\ to.artists = ArtistsOf(to.albums)
      /\ Filed(to.rows) /\ to.rows \in Table
  BY RebuiltIsTrue
<1>2. to.rows = SettledCompilation(T, {DirOf[p] : p \in Paths})
  BY DEF Rebuilt, SummaryOf
<1> HIDE DEF to
<1>3. /\ DOMAIN lib = Fields /\ lib.rows = to.rows /\ lib.nextTrack = library.nextTrack
      /\ lib.albums = to.albums /\ lib.artists = to.artists
  BY DEF Hold, Sound, Fields
<1> HIDE DEF lib
<1>4. Sound(lib)
  BY <1>1, <1>3 DEF Sound, Summed
<1>5. QED
  BY <1>2, <1>3, <1>4 DEF lib, to

(* What a batch has written is sound, and is what it applied, filed.       *)
LEMMA WrittenIsSound ==
  ASSUME TypeOK, Sound(library), PlansAreFeasible, NEW retried,
         \A p \in PathsTo("retry") : retried[p] \in ArtworkStatus
  PROVE  /\ Sound(Written(retried))
         /\ Applied(retried).rows \in Table
         /\ \E dirs : Written(retried).rows = SettledCompilation(Applied(retried).rows, dirs)
<1> DEFINE w == Applied(retried)
           lib == [library EXCEPT !.rows = w.rows, !.nextTrack = w.nextTrack]
           to == Settled(lib, w.albums, w.dirs)
<1>1. Write(w) /\ Covered(rows, w.rows, w.albums, w.dirs)
  <2>1. Len(scan.planned) \in 0..Len(scan.planned)
    BY DEF TypeOK, Scans
  <2>2. QED
    BY <2>1, BatchIsCovered DEF Applied
<1>2. Written(retried) = to
  BY DEF Written
<1> HIDE DEF w
<1>3. /\ DOMAIN lib = Fields /\ lib.rows = w.rows /\ lib.nextTrack = w.nextTrack
      /\ lib.albums = library.albums /\ lib.artists = library.artists
  BY DEF Sound, Fields
<1> HIDE DEF lib
<1>4. /\ lib.rows \in Table /\ Filed(rows) /\ Covered(rows, lib.rows, w.albums, w.dirs)
      /\ lib.albums = AlbumRows(rows, AlbumsOf(rows))
      /\ lib.artists = ArtistsOf(lib.albums)
  BY <1>1, <1>3 DEF Write, Sound, Summed, rows
<1>5. Fields \subseteq DOMAIN lib
  BY <1>3
<1>6. /\ Summed(to) /\ Filed(to.rows) /\ to.rows \in Table
      /\ to.nextTrack = lib.nextTrack /\ DOMAIN to = DOMAIN lib
  <2>1. PICK T, ids, dirs : T = rows /\ ids = w.albums /\ dirs = w.dirs
    OBVIOUS
  <2>2. /\ Filed(T) /\ Covered(T, lib.rows, ids, dirs)
        /\ lib.albums = AlbumRows(T, AlbumsOf(T))
    BY <1>4, <2>1
  <2>3. /\ Summed(Settled(lib, ids, dirs)) /\ Filed(Settled(lib, ids, dirs).rows)
        /\ Settled(lib, ids, dirs).rows \in Table
        /\ Settled(lib, ids, dirs).nextTrack = lib.nextTrack
        /\ DOMAIN Settled(lib, ids, dirs) = DOMAIN lib
    BY ONLY <1>4, <1>5, <2>2, SettledIsTrue
  <2>4. QED
    BY <2>1, <2>3
<1>7. Sound(to)
  BY <1>1, <1>3, <1>6 DEF Sound, Write
<1>8. to.rows = SettledCompilation(w.rows, w.dirs)
  <2> DEFINE filed == SettledCompilation(lib.rows, w.dirs)
             with == [lib EXCEPT !.rows = filed]
  <2>1. Fields \subseteq DOMAIN with /\ with.rows = filed
    BY <1>3 DEF Fields
  <2>2. PICK ids : to = Refreshed(with, ids)
    BY DEF Settled
  <2> HIDE DEF with
  <2>3. Refreshed(with, ids).rows = with.rows
    BY <2>1 DEF Refreshed, Fields
  <2>4. QED
    BY <1>3, <2>1, <2>2, <2>3
<1>9. QED
  BY <1>1, <1>2, <1>7, <1>8 DEF Write, w
-----------------------------------------------------------------------------
(* The invariant.                                                          *)

(* A batch is there only while a folder is walked, and can be carried out. *)
Batched ==
  /\ scan.at # "walk" => scan.planned = <<>>
  /\ PlansAreFeasible

SoundInv == TypeOK /\ Sound(library) /\ Batched

LEMMA FiniteFolders ==
  IsFiniteSet(Dirs) /\ IsFiniteSet(Roots)
<1> DEFINE dir == [p \in Paths |-> DirOf[p]]
           root == [d \in Dirs |-> RootOf[d]]
<1>1. dir \in Surjection(Paths, Dirs)
  <2>1. dir \in [Paths -> Dirs] /\ \A d \in Dirs : \E p \in Paths : dir[p] = d
    BY RowsAssumption DEF Dirs, Range
  <2>2. QED
    BY <2>1 DEF Surjection
<1>2. IsFiniteSet(Dirs)
  BY <1>1, ScannerAssumption, FS_Surjection
<1>3. root \in Surjection(Dirs, Roots)
  <2>1. root \in [Dirs -> Roots] /\ \A r \in Roots : \E d \in Dirs : root[d] = r
    BY ScannerAssumption DEF Roots, Range
  <2>2. QED
    BY <2>1 DEF Surjection
<1>4. QED
  BY <1>2, <1>3, FS_Surjection

LEMMA InitSound == Init => SoundInv
<1> SUFFICES ASSUME Init PROVE SoundInv
  OBVIOUS
<1> DEFINE T == FirstRows
           first == Rebuilt(T)
<1>1. T \in Table
  BY ScannerAssumption DEF Table
<1>2. /\ first.albums = AlbumRows(first.rows, AlbumsOf(first.rows))
      /\ first.artists = ArtistsOf(first.albums)
      /\ Filed(first.rows) /\ first.rows \in Table
  BY <1>1, RebuiltIsTrue
<1>3. Cardinality({p \in Paths : HasTrack(T[p])}) \in Nat
  BY ScannerAssumption, FS_Subset, FS_CardinalityType
<1> HIDE DEF first
<1>4. /\ DOMAIN library = Fields /\ library.rows = first.rows
      /\ library.albums = first.albums /\ library.artists = first.artists
      /\ library.nextTrack \in Nat
  BY <1>3 DEF Init, first, Fields
<1>5. Sound(library)
  BY <1>2, <1>4 DEF Sound, Summed
<1>6. scan = Idle /\ past = NoPast /\ cancel = FALSE /\ told = FALSE /\ disk = FirstFiles
  BY DEF Init
<1>7. scan.planned = <<>> /\ Batched
  BY <1>6 DEF Idle, Batched, PlansAreFeasible
<1>8. TypeOK
  <2>1. <<>> \in Seq(SUBSET Dirs) /\ <<>> \in Seq(Plans) /\ Len(<<>>) <= BatchSize
    BY ScannerAssumption
  <2>2. <<>> \in [{} -> Results]
    OBVIOUS
  <2>3. past \in Pasts
    BY <1>6 DEF NoPast, NoRows, RowOrNone, Pasts
  <2>4. scan \in Scans
    BY <1>6, <2>1, <2>2 DEF Idle, Scans
  <2>5. QED
    BY <1>2, <1>4, <1>6, <1>7, <2>1, <2>3, <2>4, ScannerAssumption DEF TypeOK, Table, Fields, rows
<1>9. QED
  BY <1>5, <1>7, <1>8 DEF SoundInv

(* A step that leaves the library alone.                                   *)
LEMMA LibraryStays ==
  ASSUME SoundInv, UNCHANGED library, TypeOK',
         scan'.at # "walk" => scan'.planned = <<>>,
         \A i \in DOMAIN scan'.planned :
           scan'.planned[i].does # "inspect" => rows[scan'.planned[i].path] # None
  PROVE  SoundInv'
BY DEF SoundInv, Sound, Summed, Batched, PlansAreFeasible, rows

LEMMA EndSound ==
  ASSUME SoundInv, NEW outcome \in {"completed", "cancelled", "failed"}, End(outcome)
  PROVE  scan' \in Scans /\ scan'.planned = <<>>
<1>1. <<>> \in Seq(SUBSET Dirs) /\ <<>> \in Seq(Plans) /\ <<>> \in [{} -> Results]
  OBVIOUS
<1>2. QED
  BY <1>1 DEF End, Idle, Scans

LEMMA IdleSound ==
  Idle \in Scans /\ Idle.planned = <<>> /\ Len(<<>>) <= BatchSize
<1>1. <<>> \in Seq(SUBSET Dirs) /\ <<>> \in Seq(Plans) /\ <<>> \in [{} -> Results]
  OBVIOUS
<1>2. QED
  BY <1>1, ScannerAssumption DEF Idle, Scans

LEMMA StartScanSound ==
  ASSUME SoundInv, NEW targets, StartScan(targets)
  PROVE  SoundInv'
<1> DEFINE roots == {r \in Roots : DirsOf(r) \cap targets # {}}
<1>1. PICK order \in SetToSeqs(roots), scope \in [roots -> SUBSET Dirs] :
        scan' = [Idle EXCEPT !.at = "job", !.jobs = [i \in DOMAIN order |-> scope[order[i]]]]
  BY DEF StartScan
<1>2. Cardinality(roots) \in Nat
  BY FiniteFolders, FS_Subset, FS_CardinalityType
<1> DEFINE jobs == [i \in DOMAIN order |-> scope[order[i]]]
<1>3. jobs \in Seq(SUBSET Dirs)
  <2>1. order \in [1..Cardinality(roots) -> roots]
    BY <1>1 DEF SetToSeqs
  <2>2. jobs \in [1..Cardinality(roots) -> SUBSET Dirs]
    BY <1>1, <2>1
  <2>3. QED
    BY <1>2, <2>2, SeqDef
<1> HIDE DEF jobs
<1>4. scan' \in Scans /\ scan'.planned = <<>>
  BY <1>1, <1>3, IdleSound DEF Scans, Idle, jobs
<1>5. past' \in Pasts
  BY DEF StartScan, Pasts, SoundInv, TypeOK, Table
<1>6. TypeOK'
  BY <1>4, <1>5, IdleSound DEF StartScan, SoundInv, TypeOK, rows
<1>7. QED
  BY <1>4, <1>6, LibraryStays DEF StartScan

LEMMA ScanIsTyped ==
  ASSUME SoundInv
  PROVE  /\ scan \in Scans /\ past \in Pasts
         /\ scan.jobs \in Seq(SUBSET Dirs) /\ scan.planned \in Seq(Plans)
         /\ scan.dirs \subseteq Dirs /\ scan.todo \subseteq Paths
         /\ Len(scan.planned) \in Nat /\ DOMAIN scan.planned = 1..Len(scan.planned)
         /\ \A i \in DOMAIN scan.planned : scan.planned[i] \in Plans
BY DEF SoundInv, TypeOK, Scans

LEMMA DiscoverSound ==
  ASSUME SoundInv, NEW p \in Paths, Discover(p)
  PROVE  SoundInv'
<1> DEFINE planned == IF p \in Files THEN Append(scan.planned, Plan(p)) ELSE scan.planned
<1>1. /\ scan' = [scan EXCEPT !.todo = @ \ {p}, !.planned = planned]
      /\ Walking /\ UNCHANGED <<disk, library, cancel, told, past>>
  BY DEF Discover
<1>2. p \in Files => Plan(p) \in Plans /\ (Plan(p).does # "inspect" => rows[p] # None)
  <2>1. p \in Files => disk[p] \in Contents \cup {Garbage}
    BY DEF Files, SoundInv, TypeOK, FileOrNone
  <2>2. QED
    BY <2>1 DEF Plan, Plans, Unchanged
<1>3. planned \in Seq(Plans) /\ Len(planned) <= BatchSize
  <2>1. Len(scan.planned) < BatchSize /\ BatchSize \in Nat
    BY <1>1, ScanIsTyped, ScannerAssumption DEF Walking, BatchIsFull
  <2>2. CASE p \in Files
    BY <1>2, <2>1, <2>2, ScanIsTyped
  <2>3. CASE p \notin Files
    BY <2>1, <2>3, ScanIsTyped
  <2>4. QED
    BY <2>2, <2>3
<1>4. \A i \in DOMAIN planned : planned[i].does # "inspect" => rows[planned[i].path] # None
  <2>1. \A i \in DOMAIN scan.planned :
          scan.planned[i].does # "inspect" => rows[scan.planned[i].path] # None
    BY DEF SoundInv, Batched, PlansAreFeasible
  <2>2. CASE p \in Files
    <3>1. Plan(p).path = p
      BY DEF Plan
    <3>2. \A i \in DOMAIN planned : IF i \in DOMAIN scan.planned THEN planned[i] = scan.planned[i]
                                    ELSE planned[i] = Plan(p)
      BY <1>2, <2>2, ScanIsTyped
    <3>3. QED
      BY <1>2, <2>1, <2>2, <3>1, <3>2
  <2>3. CASE p \notin Files
    BY <2>1, <2>3
  <2>4. QED
    BY <2>2, <2>3
<1> HIDE DEF planned
<1>5. scan' \in Scans /\ scan'.planned = planned /\ scan'.at = "walk"
  BY <1>1, <1>3, ScanIsTyped DEF Scans, Walking
<1>6. TypeOK'
  BY <1>1, <1>3, <1>5 DEF SoundInv, TypeOK, rows
<1>7. QED
  BY <1>1, <1>4, <1>5, <1>6, LibraryStays

LEMMA UnusableSound ==
  ASSUME SoundInv, NEW p \in Paths, Unusable(p)
  PROVE  SoundInv'
<1>1. /\ scan' = [scan EXCEPT !.todo = @ \ {p}]
      /\ past' = [past EXCEPT !.steady = @ \ {p}, !.quiet = FALSE]
      /\ UNCHANGED <<disk, library, cancel, told>>
  BY DEF Unusable
<1>2. /\ scan' \in Scans /\ scan'.planned = scan.planned /\ scan'.at = scan.at
      /\ past' \in Pasts
  BY <1>1, ScanIsTyped DEF Scans, Pasts
<1>3. TypeOK'
  BY <1>1, <1>2 DEF SoundInv, TypeOK, rows
<1>4. QED
  BY <1>1, <1>2, <1>3, LibraryStays DEF SoundInv, Batched, PlansAreFeasible

LEMMA StopWalkingSound ==
  ASSUME SoundInv, StopWalking
  PROVE  SoundInv'
<1>1. PICK complete \in BOOLEAN :
        scan' = [scan EXCEPT !.exhausted = TRUE, !.complete = complete]
  BY DEF StopWalking
<1>2. scan' \in Scans /\ scan'.planned = scan.planned /\ scan'.at = scan.at
  BY <1>1, ScanIsTyped DEF Scans
<1>3. TypeOK'
  BY <1>2 DEF StopWalking, SoundInv, TypeOK, rows
<1>4. QED
  BY <1>2, <1>3, LibraryStays DEF StopWalking, SoundInv, Batched, PlansAreFeasible

LEMMA ArtworkOutcomesAre ==
  ASSUME NEW file
  PROVE  /\ ArtworkOutcomes(file) \subseteq ArtworkStatus
         /\ Retries(file) \subseteq ArtworkStatus
BY DEF ArtworkOutcomes, Retries, ArtworkStatus

(* What reading a file gives is true of it, and typed.                     *)
LEMMA ReadingsAreTrue ==
  ASSUME NEW file \in FileOrNone, NEW result \in Readings(file)
  PROVE  result \in Results /\ TrueOf(result, file)
<1>1. CASE result = Reading(file, None, None, "notPresent")
  BY <1>1, RowsAssumption DEF Reading, Results, TrueOf, ArtworkStatus
<1>2. CASE result # Reading(file, None, None, "notPresent")
  <2>1. file \in Contents
    BY <1>2 DEF Readings
  <2>2. PICK tags \in {Cleared, file}, hash \in {file, None}, art \in ArtworkStatus :
          result = Reading(file, tags, hash, art)
    BY <1>2, ArtworkOutcomesAre DEF Readings, ArtworkStatus
  <2>3. QED
    BY <2>1, <2>2, RowsAssumption DEF Reading, Results, TrueOf
<1>3. QED
  BY <1>1, <1>2

LEMMA InspectSound ==
  ASSUME SoundInv, NEW p \in Paths, Inspect(p)
  PROVE  SoundInv'
<1>1. PICK result \in Readings(disk[p]) :
        scan' = [scan EXCEPT !.read = Joined(@, [x \in {p} |-> result])]
  BY DEF Inspect
<1>2. result \in Results
  BY <1>1, ReadingsAreTrue DEF SoundInv, TypeOK
<1> DEFINE read == Joined(scan.read, [x \in {p} |-> result])
<1>3. read \in UNION {[S -> Results] : S \in SUBSET Paths}
  <2>1. PICK S \in SUBSET Paths : scan.read \in [S -> Results]
    BY DEF SoundInv, TypeOK, Scans
  <2>2. read \in [S \cup {p} -> Results]
    BY <1>2, <2>1 DEF Joined
  <2>3. S \cup {p} \in SUBSET Paths
    BY <2>1
  <2>4. QED
    BY <2>2, <2>3
<1> HIDE DEF read
<1>4. scan' = [scan EXCEPT !.read = read]
  BY <1>1 DEF read
<1>5. scan' \in Scans /\ scan'.planned = scan.planned /\ scan'.at = scan.at
  BY <1>3, <1>4, ScanIsTyped DEF Scans
<1>6. TypeOK'
  BY <1>5 DEF Inspect, SoundInv, TypeOK, rows
<1>7. QED
  BY <1>5, <1>6, LibraryStays DEF Inspect, SoundInv, Batched, PlansAreFeasible

(* The steps of a scan that do no more than end it, or a folder of it.     *)
LEMMA EndsSound ==
  ASSUME SoundInv, Fail \/ Cancelled \/ TraversalFailed
  PROVE  SoundInv'
<1>1. \E outcome \in {"completed", "cancelled", "failed"} : End(outcome)
  BY DEF Fail, Cancelled, TraversalFailed
<1>2. scan' \in Scans /\ scan'.planned = <<>>
  BY <1>1, EndSound
<1>3. TypeOK'
  BY <1>2, IdleSound DEF Fail, Cancelled, TraversalFailed, SoundInv, TypeOK, rows
<1>4. QED
  BY <1>2, <1>3, LibraryStays DEF Fail, Cancelled, TraversalFailed

LEMMA FinishRootSound ==
  ASSUME SoundInv, FinishRoot
  PROVE  SoundInv'
<1>1. scan' \in Scans /\ scan'.planned = <<>>
  BY IdleSound, ScanIsTyped DEF FinishRoot, Idle, Scans
<1>2. told' \in BOOLEAN
  BY ScanIsTyped DEF FinishRoot, SoundInv, TypeOK, Scans
<1>3. TypeOK'
  BY <1>1, <1>2, IdleSound DEF FinishRoot, SoundInv, TypeOK, rows
<1>4. QED
  BY <1>1, <1>3, LibraryStays DEF FinishRoot

LEMMA ReapSound ==
  ASSUME SoundInv, Reap
  PROVE  SoundInv'
<1>1. scan' = Idle /\ past' = NoPast /\ told' = FALSE /\ UNCHANGED <<disk, library, cancel>>
  BY DEF Reap
<1>2. past' \in Pasts
  BY <1>1 DEF NoPast, NoRows, RowOrNone, Pasts
<1>3. TypeOK'
  BY <1>1, <1>2, IdleSound DEF SoundInv, TypeOK, rows
<1>4. QED
  BY <1>1, <1>3, IdleSound, LibraryStays

LEMMA CancelScanSound ==
  ASSUME SoundInv, CancelScan
  PROVE  SoundInv'
<1>1. cancel' = TRUE /\ UNCHANGED <<disk, library, scan, told, past>>
  BY DEF CancelScan
<1>2. TypeOK'
  BY <1>1 DEF SoundInv, TypeOK, rows
<1>3. QED
  BY <1>1, <1>2, LibraryStays DEF SoundInv, Batched, PlansAreFeasible

LEMMA FilesChangeSound ==
  ASSUME SoundInv, NEW files \in [Paths -> FileOrNone], FilesChange(files)
  PROVE  SoundInv'
<1>1. /\ disk' = files /\ UNCHANGED <<library, scan, cancel, told>>
      /\ past' = [past EXCEPT !.quiet = FALSE, !.steady = {p \in @ : files[p] # None}]
  BY DEF FilesChange
<1>2. past' \in Pasts
  BY <1>1, ScanIsTyped DEF Pasts
<1>3. TypeOK'
  BY <1>1, <1>2 DEF SoundInv, TypeOK, rows
<1>4. QED
  BY <1>1, <1>3, LibraryStays DEF SoundInv, Batched, PlansAreFeasible

LEMMA FilesAreTyped ==
  ASSUME SoundInv, NEW p \in Paths, NEW q \in Paths, Rewrite(p) \/ Move(p, q)
  PROVE  \E files \in [Paths -> FileOrNone] : FilesChange(files)
<1>1. disk \in [Paths -> FileOrNone]
  BY DEF SoundInv, TypeOK
<1>2. CASE Rewrite(p)
  BY <1>1, <1>2 DEF Rewrite
<1>3. CASE Move(p, q)
  <2>1. PICK file \in Contents \cup {disk[p]} :
          FilesChange([disk EXCEPT ![p] = None, ![q] = file])
    BY <1>3 DEF Move
  <2>2. None \in FileOrNone /\ file \in FileOrNone
    BY <1>1, <2>1 DEF FileOrNone
  <2>3. QED
    BY <1>1, <2>1, <2>2
<1>4. QED
  BY <1>2, <1>3

(* A row that is marked is of the same file.                               *)
LEMMA MarkedIsSound ==
  ASSUME SoundInv, NEW T, T = [p \in Paths |-> T[p]],
         \A p \in Paths : \/ T[p] = rows[p]
                          \/ \E b \in BOOLEAN : /\ rows[p] # None
                                                /\ T[p] = [rows[p] EXCEPT !.seen = b]
                          \/ \E b \in BOOLEAN : /\ rows[p] # None
                                                /\ T[p] = [rows[p] EXCEPT !.missing = b]
  PROVE  /\ T \in Table
         /\ \A p \in Paths : (rows[p] = None /\ T[p] = None) \/ SameFile(rows[p], T[p])
         /\ Sound([library EXCEPT !.rows = T]) /\ [library EXCEPT !.rows = T].rows = T
<1>1. ASSUME NEW p \in Paths
      PROVE  /\ T[p] \in RowOrNone
             /\ (rows[p] = None /\ T[p] = None) \/ SameFile(rows[p], T[p])
  <2>1. rows[p] \in RowOrNone
    BY DEF SoundInv, TypeOK
  <2>2. CASE rows[p] = None
    BY <2>2 DEF RowOrNone
  <2>3. CASE rows[p] # None
    <3>1. rows[p] \in AnyRow
      BY <2>1, <2>3 DEF RowOrNone
    <3>2. CASE T[p] = rows[p]
      BY <3>1, <3>2, SameFileIs DEF RowOrNone, ArtworkStatus
    <3>3. ASSUME NEW b \in BOOLEAN, T[p] = [rows[p] EXCEPT !.seen = b]
          PROVE  T[p] \in AnyRow /\ SameFile(rows[p], T[p])
      <4>1. T[p] \in AnyRow
        BY <3>1, <3>3 DEF AnyRow, Row
      <4>2. SameFile(rows[p], [rows[p] EXCEPT !.seen = b])
        BY <3>1, SameFileIs DEF ArtworkStatus
      <4>3. QED
        BY <3>3, <4>1, <4>2
    <3>4. ASSUME NEW b \in BOOLEAN, T[p] = [rows[p] EXCEPT !.missing = b]
          PROVE  T[p] \in AnyRow /\ SameFile(rows[p], T[p])
      <4>1. T[p] \in AnyRow
        BY <3>1, <3>4 DEF AnyRow, Row
      <4>2. SameFile(rows[p], [rows[p] EXCEPT !.missing = b])
        BY <3>1, SameFileIs DEF ArtworkStatus
      <4>3. QED
        BY <3>4, <4>1, <4>2
    <3>5. QED
      BY <3>2, <3>3, <3>4 DEF RowOrNone
  <2>4. QED
    BY <2>2, <2>3
<1>2. T \in Table
  BY <1>1 DEF Table
<1>3. \A p \in Paths : Alike(rows[p], T[p])
  BY <1>1, SameFileAlike, AlikeSelf
<1>4. QED
  BY <1>1, <1>2, <1>3, AlikeIsSound DEF SoundInv

LEMMA BeginRootSound ==
  ASSUME SoundInv, BeginRoot
  PROVE  SoundInv'
<1> DEFINE dirs == Head(scan.jobs)
           folder == In(DirsOf(RootOf[CHOOSE d \in dirs : TRUE]))
           T == [p \in Paths |-> IF p \in folder /\ rows[p] # None
                                 THEN [rows[p] EXCEPT !.seen = FALSE] ELSE rows[p]]
<1>1. /\ library' = [library EXCEPT !.rows = T]
      /\ scan' = [scan EXCEPT !.at = "walk", !.jobs = Tail(@), !.dirs = dirs,
                              !.todo = In(dirs), !.complete = TRUE]
      /\ past' = [past EXCEPT !.steady = (@ \ folder) \cup (Files \cap folder)]
      /\ UNCHANGED <<disk, cancel, told>>
      /\ scan.at = "job" /\ scan.jobs # <<>>
  BY DEF BeginRoot
<1>2. \A p \in Paths : \/ T[p] = rows[p]
                       \/ rows[p] # None /\ T[p] = [rows[p] EXCEPT !.seen = FALSE]
  OBVIOUS
<1>3. T = [p \in Paths |-> T[p]]
  OBVIOUS
<1> HIDE DEF T
<1>4. T \in Table /\ Sound(library') /\ library'.rows = T
  BY <1>1, <1>2, <1>3, MarkedIsSound
<1>5. dirs \in SUBSET Dirs /\ Tail(scan.jobs) \in Seq(SUBSET Dirs)
  BY <1>1, ScanIsTyped
<1>6. scan.planned = <<>>
  BY <1>1 DEF SoundInv, Batched
<1> HIDE DEF dirs
<1>7. In(dirs) \subseteq Paths /\ Files \subseteq Paths
  BY DEF In, Files
<1>8. scan' \in Scans /\ scan'.planned = <<>>
  BY <1>1, <1>5, <1>6, <1>7, ScanIsTyped DEF Scans
<1>9. past' \in Pasts
  BY <1>1, <1>7, ScanIsTyped DEF Pasts
<1>10. TypeOK'
  BY <1>1, <1>4, <1>8, <1>9, IdleSound DEF SoundInv, TypeOK, rows, Sound, Table, Fields
<1>11. QED
  BY <1>4, <1>8, <1>10 DEF SoundInv, Batched, PlansAreFeasible

LEMMA MarkMissingSound ==
  ASSUME SoundInv, MarkMissing
  PROVE  SoundInv'
<1>1. PICK dirs \in {scan.dirs} \cup {{d} : d \in scan.dirs} :
        /\ library' = [library EXCEPT !.rows = [p \in Paths |->
                          IF p \in Vanished(dirs) THEN [rows[p] EXCEPT !.missing = TRUE]
                          ELSE rows[p]]]
        /\ scan' = [scan EXCEPT !.dirs = @ \ dirs, !.gone = @ \/ Vanished(dirs) # {}]
  BY DEF MarkMissing
<1> DEFINE T == [p \in Paths |-> IF p \in Vanished(dirs) THEN [rows[p] EXCEPT !.missing = TRUE]
                                 ELSE rows[p]]
<1>2. \A p \in Paths : \/ T[p] = rows[p]
                       \/ rows[p] # None /\ T[p] = [rows[p] EXCEPT !.missing = TRUE]
  BY DEF Vanished
<1>3. T = [p \in Paths |-> T[p]] /\ library' = [library EXCEPT !.rows = T]
  BY <1>1
<1> HIDE DEF T
<1>4. T \in Table /\ Sound(library') /\ library'.rows = T
  BY <1>2, <1>3, MarkedIsSound
<1>5. scan.at = "finish" /\ scan.planned = <<>> /\ UNCHANGED <<disk, cancel, told, past>>
  BY DEF MarkMissing, SoundInv, Batched
<1>6. scan' \in Scans /\ scan'.planned = <<>>
  <2>1. PICK gone \in BOOLEAN : scan' = [scan EXCEPT !.dirs = @ \ dirs, !.gone = gone]
    BY <1>1, ScanIsTyped DEF Scans
  <2>2. QED
    BY <1>5, <2>1, ScanIsTyped DEF Scans
<1>7. TypeOK'
  BY <1>4, <1>5, <1>6, IdleSound DEF SoundInv, TypeOK, rows, Sound, Table, Fields
<1>8. QED
  BY <1>4, <1>6, <1>7 DEF SoundInv, Batched, PlansAreFeasible

LEMMA DeleteMissingSound ==
  ASSUME SoundInv, DeleteMissing
  PROVE  SoundInv'
<1> DEFINE T == [p \in Paths |->
                   IF rows[p] # None /\ rows[p].missing THEN None ELSE rows[p]]
<1>1. /\ library' = Hold(library, Rebuilt(T)) /\ scan.at = "idle"
      /\ UNCHANGED <<disk, scan, cancel, told, past>>
  BY DEF DeleteMissing
<1>2. T \in Table
  BY DEF SoundInv, TypeOK, Table, RowOrNone
<1> HIDE DEF T
<1>3. Sound(library')
  BY <1>1, <1>2, RebuiltIsSound DEF SoundInv
<1>4. TypeOK'
  BY <1>1, <1>3 DEF SoundInv, TypeOK, rows, Sound, Table, Fields
<1>5. scan'.planned = <<>>
  BY <1>1 DEF SoundInv, Batched
<1>6. QED
  BY <1>3, <1>4, <1>5 DEF SoundInv, Batched, PlansAreFeasible

(* The library is written, whether the batch is the last or not.           *)
LEMMA WriteBatchSound ==
  ASSUME SoundInv, WriteBatch
  PROVE  SoundInv'
<1> DEFINE again == PathsTo("retry")
<1>1. PICK retried \in [again -> UNION {Retries(disk[p]) : p \in again}] :
        /\ \A p \in again : retried[p] \in Retries(disk[p])
        /\ library' = Written(retried)
  BY DEF WriteBatch
<1>2. Sound(library')
  <2>1. \A p \in PathsTo("retry") : retried[p] \in ArtworkStatus
    BY <1>1, ArtworkOutcomesAre
  <2>2. QED
    BY <1>1, <2>1, WrittenIsSound DEF SoundInv, Batched
<1>3. scan' \in Scans /\ scan'.planned = <<>>
  <2>1. CASE ~Inspected
    BY <2>1, EndSound DEF WriteBatch
  <2>2. CASE Inspected
    <3>1. PICK at \in {"finish", "walk"} :
            scan' = [scan EXCEPT !.at = at, !.planned = <<>>, !.read = <<>>]
      BY <2>2 DEF WriteBatch
    <3>2. <<>> \in Seq(Plans) /\ <<>> \in UNION {[S -> Results] : S \in SUBSET Paths}
      <4>1. <<>> \in [{} -> Results]
        OBVIOUS
      <4>2. QED
        BY <4>1
    <3>3. QED
      BY <3>1, <3>2, ScanIsTyped DEF Scans
  <2>3. QED
    BY <2>1, <2>2
<1>4. told' \in BOOLEAN /\ UNCHANGED <<disk, cancel, past>>
  BY DEF WriteBatch, SoundInv, TypeOK
<1>5. TypeOK'
  BY <1>2, <1>3, <1>4, IdleSound DEF SoundInv, TypeOK, rows, Sound, Table, Fields
<1>6. QED
  BY <1>2, <1>3, <1>5 DEF SoundInv, Batched, PlansAreFeasible
-----------------------------------------------------------------------------
(* Moved files.                                                            *)

LEMMA MinIsThere ==
  ASSUME NEW S, S \subseteq Nat, S # {}
  PROVE  Min(S) \in S
<1>1. \E x \in S : \A y \in S : x <= y
  BY Least
<1>2. QED
  BY <1>1 DEF Min

(* The pairs after each of the first n arrivals.                           *)
ByHashUpTo(table, arrived, missing, n, pairs) ==
  pairs = [k \in 0..n |->
             IF k = 0 THEN {}
             ELSE pairs[k - 1] \cup PairByHash(table, pairs[k - 1], arrived[k], missing)]

LEMMA ByHashDefined ==
  ASSUME NEW table, NEW arrived, NEW missing, NEW n \in Nat
  PROVE  \E pairs : ByHashUpTo(table, arrived, missing, n, pairs)
<1> DEFINE S == {m \in Nat : ~ \E pairs : ByHashUpTo(table, arrived, missing, m, pairs)}
           At(pairs, k) == IF k = 0 THEN {}
                           ELSE pairs[k - 1] \cup PairByHash(table, pairs[k - 1], arrived[k], missing)
<1>1. SUFFICES ASSUME S # {} PROVE FALSE
  OBVIOUS
<1>2. PICK m \in S : \A k \in S : m <= k
  BY <1>1, Least
<1>3. m \in Nat /\ ~ \E pairs : ByHashUpTo(table, arrived, missing, m, pairs)
  BY <1>2
<1>4. CASE m = 0
  <2>1. ByHashUpTo(table, arrived, missing, 0, [k \in 0..0 |-> {}])
    BY DEF ByHashUpTo
  <2>2. QED
    BY <1>3, <1>4, <2>1
<1>5. CASE m > 0
  <2>1. m - 1 \in Nat /\ m - 1 \notin S
    BY <1>2, <1>3, <1>5
  <2>2. PICK before : ByHashUpTo(table, arrived, missing, m - 1, before)
    BY <2>1
  <2> DEFINE pairs == [k \in 0..m |-> IF k = m THEN At(before, m) ELSE before[k]]
  <2>3. /\ DOMAIN pairs = 0..m /\ pairs[m] = At(before, m)
        /\ \A k \in 0..(m - 1) : pairs[k] = before[k]
    BY <1>3, <1>5
  <2>4. \A k \in 0..(m - 1) : before[k] = At(before, k)
    BY <2>2 DEF ByHashUpTo
  <2> HIDE DEF pairs
  <2>5. ASSUME NEW k \in 0..m PROVE pairs[k] = At(pairs, k)
    <3>1. k # 0 => k - 1 \in 0..(m - 1) /\ pairs[k - 1] = before[k - 1]
      BY <1>3, <2>3
    <3>2. At(pairs, k) = At(before, k)
      BY <3>1
    <3>3. k = m \/ k \in 0..(m - 1)
      BY <1>3
    <3>4. QED
      BY <2>3, <2>4, <3>2, <3>3
  <2>6. ByHashUpTo(table, arrived, missing, m, pairs)
    <3>1. pairs = [k \in 0..m |-> pairs[k]]
      BY <2>3 DEF pairs
    <3>2. QED
      BY <2>5, <3>1 DEF ByHashUpTo
  <2>7. QED
    BY <1>3, <2>6
<1>6. QED
  BY <1>3, <1>4, <1>5

LEMMA ByHashSteps ==
  ASSUME NEW table, NEW arrived, NEW missing, Len(arrived) \in Nat
  PROVE  LET pairs == PairingByHash(table, arrived, missing)
         IN /\ pairs[0] = {}
            /\ \A k \in 1..Len(arrived) :
                 pairs[k] = pairs[k - 1] \cup PairByHash(table, pairs[k - 1], arrived[k], missing)
<1> DEFINE all == PairingByHash(table, arrived, missing)
<1>1. all = CHOOSE pairs : ByHashUpTo(table, arrived, missing, Len(arrived), pairs)
  BY DEF PairingByHash, ByHashUpTo
<1>2. ByHashUpTo(table, arrived, missing, Len(arrived), all)
  BY <1>1, ByHashDefined
<1>3. PICK pairs : pairs = all
  OBVIOUS
<1>4. \A k \in 0..Len(arrived) :
        pairs[k] = IF k = 0 THEN {}
                   ELSE pairs[k - 1] \cup PairByHash(table, pairs[k - 1], arrived[k], missing)
  BY <1>2, <1>3 DEF ByHashUpTo
<1>5. 0 \in 0..Len(arrived) /\ \A k \in 1..Len(arrived) : k \in 0..Len(arrived) /\ k # 0
  OBVIOUS
<1>6. pairs[0] = {}
  BY <1>4, <1>5
<1>7. \A k \in 1..Len(arrived) :
        pairs[k] = pairs[k - 1] \cup PairByHash(table, pairs[k - 1], arrived[k], missing)
  BY <1>4, <1>5
<1>8. QED
  BY <1>3, <1>6, <1>7

ByTagsUpTo(table, byHash, arrived, missing, n, pairs) ==
  pairs = [k \in 0..n |->
             IF k = 0 THEN byHash
             ELSE IF \E pair \in byHash : pair[1] = arrived[k] THEN pairs[k - 1]
             ELSE pairs[k - 1] \cup PairByTags(table, pairs[k - 1], arrived[k], missing)]

LEMMA ByTagsDefined ==
  ASSUME NEW table, NEW byHash, NEW arrived, NEW missing, NEW n \in Nat
  PROVE  \E pairs : ByTagsUpTo(table, byHash, arrived, missing, n, pairs)
<1> DEFINE S == {m \in Nat : ~ \E pairs : ByTagsUpTo(table, byHash, arrived, missing, m, pairs)}
           At(pairs, k) == IF k = 0 THEN byHash
                           ELSE IF \E pair \in byHash : pair[1] = arrived[k] THEN pairs[k - 1]
                           ELSE pairs[k - 1] \cup PairByTags(table, pairs[k - 1], arrived[k], missing)
<1>1. SUFFICES ASSUME S # {} PROVE FALSE
  OBVIOUS
<1>2. PICK m \in S : \A k \in S : m <= k
  BY <1>1, Least
<1>3. m \in Nat /\ ~ \E pairs : ByTagsUpTo(table, byHash, arrived, missing, m, pairs)
  BY <1>2
<1>4. CASE m = 0
  <2>1. ByTagsUpTo(table, byHash, arrived, missing, 0, [k \in 0..0 |-> byHash])
    BY DEF ByTagsUpTo
  <2>2. QED
    BY <1>3, <1>4, <2>1
<1>5. CASE m > 0
  <2>1. m - 1 \in Nat /\ m - 1 \notin S
    BY <1>2, <1>3, <1>5
  <2>2. PICK before : ByTagsUpTo(table, byHash, arrived, missing, m - 1, before)
    BY <2>1
  <2> DEFINE pairs == [k \in 0..m |-> IF k = m THEN At(before, m) ELSE before[k]]
  <2>3. /\ DOMAIN pairs = 0..m /\ pairs[m] = At(before, m)
        /\ \A k \in 0..(m - 1) : pairs[k] = before[k]
    BY <1>3, <1>5
  <2>4. \A k \in 0..(m - 1) : before[k] = At(before, k)
    BY <2>2 DEF ByTagsUpTo
  <2> HIDE DEF pairs
  <2>5. ASSUME NEW k \in 0..m PROVE pairs[k] = At(pairs, k)
    <3>1. k # 0 => k - 1 \in 0..(m - 1) /\ pairs[k - 1] = before[k - 1]
      BY <1>3, <2>3
    <3>2. At(pairs, k) = At(before, k)
      BY <3>1
    <3>3. k = m \/ k \in 0..(m - 1)
      BY <1>3
    <3>4. QED
      BY <2>3, <2>4, <3>2, <3>3
  <2>6. ByTagsUpTo(table, byHash, arrived, missing, m, pairs)
    <3>1. pairs = [k \in 0..m |-> pairs[k]]
      BY <2>3 DEF pairs
    <3>2. QED
      BY <2>5, <3>1 DEF ByTagsUpTo
  <2>7. QED
    BY <1>3, <2>6
<1>6. QED
  BY <1>3, <1>4, <1>5

TagSteps(table, byHash, arrived, missing, all) ==
  /\ all[0] = byHash
  /\ \A k \in 1..Len(arrived) :
       all[k] = IF \E pair \in byHash : pair[1] = arrived[k] THEN all[k - 1]
                ELSE all[k - 1] \cup PairByTags(table, all[k - 1], arrived[k], missing)

LEMMA ByTagsSteps ==
  ASSUME NEW table, NEW byHash, NEW arrived, NEW missing, Len(arrived) \in Nat
  PROVE  TagSteps(table, byHash, arrived, missing, PairingByTags(table, byHash, arrived, missing))
<1> DEFINE all == PairingByTags(table, byHash, arrived, missing)
<1>1. all = CHOOSE pairs : ByTagsUpTo(table, byHash, arrived, missing, Len(arrived), pairs)
  BY DEF PairingByTags, ByTagsUpTo
<1>2. ByTagsUpTo(table, byHash, arrived, missing, Len(arrived), all)
  BY <1>1, ByTagsDefined
<1>3. PICK pairs : pairs = all
  OBVIOUS
<1>4. \A k \in 0..Len(arrived) :
        pairs[k] = IF k = 0 THEN byHash
                   ELSE IF \E pair \in byHash : pair[1] = arrived[k] THEN pairs[k - 1]
                   ELSE pairs[k - 1] \cup PairByTags(table, pairs[k - 1], arrived[k], missing)
  BY <1>2, <1>3 DEF ByTagsUpTo
<1>5. 0 \in 0..Len(arrived) /\ \A k \in 1..Len(arrived) : k \in 0..Len(arrived) /\ k # 0
  OBVIOUS
<1>6. pairs[0] = byHash
  BY <1>4, <1>5
<1>7. \A k \in 1..Len(arrived) :
        pairs[k] = IF \E pair \in byHash : pair[1] = arrived[k] THEN pairs[k - 1]
                   ELSE pairs[k - 1] \cup PairByTags(table, pairs[k - 1], arrived[k], missing)
  BY <1>4, <1>5
<1>8. QED
  BY <1>3, <1>6, <1>7 DEF TagSteps

(* An arrival takes a missing track that no other has taken.               *)
LEMMA TakenByHash ==
  ASSUME NEW table, NEW pairs, NEW p, NEW missing, NEW m \in Nat, DOMAIN missing = 1..m,
         NEW pair \in PairByHash(table, pairs, p, missing)
  PROVE  \E i \in 1..m : /\ pair = <<p, missing[i]>> /\ missing[i] \notin Claimed(pairs)
                         /\ SameHash(table, p, missing[i])
<1> DEFINE same == {i \in Free(pairs, missing) : SameHash(table, p, missing[i])}
           alike == {i \in same : SameTags(table, p, missing[i])}
           best == IF alike # {} THEN alike ELSE same
<1>1. same # {} /\ pair = <<p, missing[Min(best)]>>
  BY DEF PairByHash
<1>2. best # {} /\ best \subseteq same /\ same \subseteq 1..m
  BY <1>1 DEF Free
<1>3. Min(best) \in best
  BY <1>2, MinIsThere
<1>4. QED
  BY <1>1, <1>2, <1>3 DEF Free

LEMMA TakenByTags ==
  ASSUME NEW table, NEW pairs, NEW p, NEW missing, NEW m \in Nat, DOMAIN missing = 1..m,
         NEW pair \in PairByTags(table, pairs, p, missing)
  PROVE  \E i \in 1..m : pair = <<p, missing[i]>> /\ missing[i] \notin Claimed(pairs)
BY DEF PairByTags, Free

(* What is put in some order.                                              *)
LEMMA InSomeOrder ==
  ASSUME NEW S, IsFiniteSet(S), NEW order \in SetToSeqs(S)
  PROVE  /\ order \in Seq(S) /\ Len(order) \in Nat /\ DOMAIN order = 1..Len(order)
         /\ \A i \in 1..Len(order) : order[i] \in S
         /\ \A i, j \in 1..Len(order) : order[i] = order[j] => i = j
         /\ \A x \in S : \E i \in 1..Len(order) : order[i] = x
<1> DEFINE n == Cardinality(S)
<1>1. n \in Nat
  BY FS_CardinalityType
<1>2. order \in [1..n -> S] /\ \A i, j \in 1..n : i # j => order[i] # order[j]
  BY DEF SetToSeqs
<1>3. order \in Seq(S)
  BY <1>1, <1>2, SeqDef
<1>4. Len(order) = n /\ DOMAIN order = 1..n
  BY <1>1, <1>2, <1>3
<1>5. order \in Injection(1..n, S)
  BY <1>2 DEF Injection, IsInjective
<1>6. IsFiniteSet(1..n) /\ Cardinality(1..n) = n
  BY <1>1, FS_Interval
<1>7. order \in Surjection(1..n, S)
  BY <1>5, <1>6, FS_Injection
<1>8. \A x \in S : \E i \in 1..n : order[i] = x
  BY <1>7 DEF Surjection
<1>9. QED
  BY <1>1, <1>2, <1>3, <1>4, <1>8

(* By the hash, an arrival is paired with a missing track of its content.  *)
LEMMA PairedByHash ==
  ASSUME NEW table, NEW arrived, NEW missing, NEW n \in Nat, NEW m \in Nat,
         Len(arrived) = n, DOMAIN missing = 1..m, NEW k \in 0..n,
         NEW pair \in PairingByHash(table, arrived, missing)[k]
  PROVE  \E i \in 1..k, j \in 1..m :
           pair = <<arrived[i], missing[j]>> /\ SameHash(table, arrived[i], missing[j])
<1> DEFINE pairs(i) == PairingByHash(table, arrived, missing)[i]
           Good(i) == \A x \in pairs(i) : \E a \in 1..i, j \in 1..m :
                        x = <<arrived[a], missing[j]>> /\ SameHash(table, arrived[a], missing[j])
           S == {i \in 0..n : ~Good(i)}
<1>1. /\ pairs(0) = {}
      /\ \A i \in 1..n :
           pairs(i) = pairs(i - 1) \cup PairByHash(table, pairs(i - 1), arrived[i], missing)
  BY ByHashSteps
<1> HIDE DEF pairs
<1>2. Good(0)
  BY <1>1
<1>3. ASSUME NEW i \in 1..n, Good(i - 1) PROVE Good(i)
  <2>1. ASSUME NEW x \in pairs(i)
        PROVE  \E a \in 1..i, j \in 1..m :
                 x = <<arrived[a], missing[j]>> /\ SameHash(table, arrived[a], missing[j])
    <3>1. CASE x \in pairs(i - 1)
      BY <1>3, <3>1
    <3>2. CASE x \in PairByHash(table, pairs(i - 1), arrived[i], missing)
      <4>1. PICK j \in 1..m : x = <<arrived[i], missing[j]>> /\ SameHash(table, arrived[i], missing[j])
        BY <3>2, TakenByHash
      <4>2. QED
        BY <4>1
    <3>3. QED
      BY <1>1, <2>1, <3>1, <3>2
  <2>2. QED
    BY <2>1
<1> HIDE DEF Good
<1>4. S = {}
  <2>1. SUFFICES ASSUME S # {} PROVE FALSE
    OBVIOUS
  <2>2. PICK i \in S : \A j \in S : i <= j
    <3>1. S \subseteq Nat
      OBVIOUS
    <3>2. QED
      BY <2>1, <3>1, Least
  <2>3. i \in 0..n /\ ~Good(i)
    BY <2>2
  <2>4. i # 0 /\ i - 1 \in 0..n /\ i - 1 \notin S /\ i \in 1..n
    BY <1>2, <2>2, <2>3
  <2>5. QED
    BY <1>3, <2>3, <2>4
<1>5. QED
  BY <1>4 DEF Good, pairs

(* By the tags, only what the hash left is paired.                         *)
LEMMA PairedByTags ==
  ASSUME NEW table, NEW arrived, NEW missing, NEW n \in Nat, NEW m \in Nat, NEW byHash,
         Len(arrived) = n, DOMAIN missing = 1..m, NEW k \in 0..n
  PROVE  LET pairs == PairingByTags(table, byHash, arrived, missing)[k]
         IN /\ byHash \subseteq pairs
            /\ \A pair \in pairs \ byHash : \E i \in 1..n, j \in 1..m :
                 /\ pair = <<arrived[i], missing[j]>> /\ missing[j] \notin Claimed(byHash)
                 /\ \A x \in byHash : x[1] # arrived[i]
<1> DEFINE pairs(i) == PairingByTags(table, byHash, arrived, missing)[i]
           Left(x) == \E i \in 1..n, j \in 1..m :
                        /\ x = <<arrived[i], missing[j]>> /\ missing[j] \notin Claimed(byHash)
                        /\ \A y \in byHash : y[1] # arrived[i]
           Good(i) == byHash \subseteq pairs(i) /\ \A x \in pairs(i) \ byHash : Left(x)
           S == {i \in 0..n : ~Good(i)}
<1>1. /\ pairs(0) = byHash
      /\ \A i \in 1..n :
           pairs(i) = IF \E pair \in byHash : pair[1] = arrived[i] THEN pairs(i - 1)
                      ELSE pairs(i - 1) \cup PairByTags(table, pairs(i - 1), arrived[i], missing)
  <2>1. Len(arrived) \in Nat
    OBVIOUS
  <2>2. TagSteps(table, byHash, arrived, missing, PairingByTags(table, byHash, arrived, missing))
    BY <2>1, ByTagsSteps
  <2>3. QED
    BY <2>2 DEF TagSteps
<1> HIDE DEF pairs
<1>2. Good(0)
  BY <1>1
<1>3. ASSUME NEW i \in 1..n, Good(i - 1) PROVE Good(i)
  <2>1. CASE \E pair \in byHash : pair[1] = arrived[i]
    BY <1>1, <1>3, <2>1
  <2>2. CASE ~ \E pair \in byHash : pair[1] = arrived[i]
    <3>1. pairs(i) = pairs(i - 1) \cup PairByTags(table, pairs(i - 1), arrived[i], missing)
      BY <1>1, <2>2
    <3>2. ASSUME NEW x \in PairByTags(table, pairs(i - 1), arrived[i], missing) PROVE Left(x)
      <4>1. PICK j \in 1..m : x = <<arrived[i], missing[j]>> /\ missing[j] \notin Claimed(pairs(i - 1))
        BY <3>2, TakenByTags
      <4>2. Claimed(byHash) \subseteq Claimed(pairs(i - 1))
        BY <1>3 DEF Claimed
      <4>3. QED
        BY <2>2, <4>1, <4>2
    <3> HIDE DEF Left
    <3>3. QED
      BY <1>3, <3>1, <3>2
  <2>3. QED
    BY <2>1, <2>2
<1> HIDE DEF Good
<1>4. S = {}
  <2>1. SUFFICES ASSUME S # {} PROVE FALSE
    OBVIOUS
  <2>2. PICK i \in S : \A j \in S : i <= j
    <3>1. S \subseteq Nat
      OBVIOUS
    <3>2. QED
      BY <2>1, <3>1, Least
  <2>3. i \in 0..n /\ ~Good(i)
    BY <2>2
  <2>4. i # 0 /\ i - 1 \in 0..n /\ i - 1 \notin S /\ i \in 1..n
    BY <1>2, <2>2, <2>3
  <2>5. QED
    BY <1>3, <2>3, <2>4
<1>5. QED
  BY <1>4 DEF Good, pairs

(* Each arrival that is paired takes a missing track.                      *)
LEMMA PairsAreOfMoves ==
  ASSUME NEW table, NEW A, NEW M, IsFiniteSet(A), IsFiniteSet(M),
         NEW arrived \in SetToSeqs(A), NEW missing \in SetToSeqs(M),
         NEW pair \in PairMoves(table, arrived, missing)
  PROVE  pair \in A \X M
<1> DEFINE n == Len(arrived)
           m == Len(missing)
           byHash == PairingByHash(table, arrived, missing)[n]
<1>1. /\ n \in Nat /\ \A i \in 1..n : arrived[i] \in A
      /\ m \in Nat /\ DOMAIN missing = 1..m /\ \A j \in 1..m : missing[j] \in M
  BY InSomeOrder
<1> HIDE DEF n, m, byHash
<1>2. pair \in PairingByTags(table, byHash, arrived, missing)[n]
  BY DEF PairMoves, n, byHash
<1>3. CASE pair \in byHash
  <2>1. PICK i \in 1..n, j \in 1..m : pair = <<arrived[i], missing[j]>>
    <3>1. n \in 0..n
      BY <1>1
    <3>2. QED
      BY <1>1, <1>3, <3>1, PairedByHash DEF n, byHash
  <2>2. QED
    BY <1>1, <2>1
<1>4. CASE pair \notin byHash
  <2>1. PICK i \in 1..n, j \in 1..m : pair = <<arrived[i], missing[j]>>
    <3>1. n \in 0..n
      BY <1>1
    <3>2. QED
      BY <1>1, <1>2, <1>4, <3>1, PairedByTags DEF n
  <2>2. QED
    BY <1>1, <2>1
<1>5. QED
  BY <1>3, <1>4

(* What relinking does of a row.                                           *)
LEMMA RelinkedRows ==
  ASSUME NEW T \in Table, NEW pairs,
         \A pair \in pairs : pair[2] \in Paths /\ HasTrack(T[pair[2]]),
         NEW p \in Paths
  PROVE  LET to == Relinked(T, pairs)[p]
         IN /\ to \in RowOrNone
            /\ p \in Claimed(pairs) \/ T[p] = None => to = None
            /\ p \notin Claimed(pairs) /\ T[p] # None =>
                 /\ to # None /\ SameContent(to, T[p])
                 /\ to.under = T[p].under /\ to.missing = T[p].missing
                 /\ \/ to.track = T[p].track /\ \A pair \in pairs : pair[1] # p
                    \/ \E pair \in pairs : pair[1] = p /\ to.track = T[pair[2]].track
<1> DEFINE taken == {pair \in pairs : pair[1] = p}
           track == IF taken = {} THEN T[p].track ELSE T[(CHOOSE pair \in taken : TRUE)[2]].track
           row == [T[p] EXCEPT !.pending = FALSE, !.track = track]
           to == Relinked(T, pairs)[p]
<1>1. to = IF p \in Claimed(pairs) THEN None ELSE IF T[p] = None THEN None ELSE row
  <2>1. to = IF p \in Claimed(pairs) THEN None
             ELSE IF T[p] = None THEN None
             ELSE [T[p] EXCEPT !.pending = FALSE,
                     !.track = IF taken = {} THEN @
                               ELSE T[(CHOOSE pair \in taken : TRUE)[2]].track]
    BY DEF Relinked
  <2>2. QED
    BY <2>1
<1>2. CASE p \in Claimed(pairs) \/ T[p] = None
  BY <1>1, <1>2 DEF RowOrNone
<1>3. CASE p \notin Claimed(pairs) /\ T[p] # None
  <2>1. T[p] \in AnyRow
    BY <1>3 DEF Table, RowOrNone
  <2>2. /\ track \in Nat
        /\ \/ track = T[p].track /\ \A pair \in pairs : pair[1] # p
           \/ \E pair \in pairs : pair[1] = p /\ track = T[pair[2]].track
    <3>1. CASE taken = {}
      BY <2>1, <3>1, RowFields
    <3>2. CASE taken # {}
      <4>1. PICK pair \in taken : pair = CHOOSE x \in taken : TRUE
        BY <3>2
      <4>2. T[pair[2]] \in AnyRow
        BY <4>1 DEF Table, RowOrNone, HasTrack
      <4>3. track = T[pair[2]].track
        BY <3>2, <4>1
      <4>4. QED
        BY <4>1, <4>2, <4>3, RowFields
    <3>3. QED
      BY <3>1, <3>2
  <2> HIDE DEF track
  <2>3. row \in AnyRow
    BY <2>1, <2>2 DEF AnyRow, Row
  <2>4. /\ SameContent(row, T[p]) /\ row.under = T[p].under
        /\ row.missing = T[p].missing /\ row.track = track
    BY <2>1, <2>2 DEF AnyRow, Row, SameContent
  <2>5. to = row /\ row # None
    <3>1. None \notin AnyRow
      BY ScannerAssumption
    <3>2. QED
      BY <1>1, <1>3, <2>3, <3>1
  <2>6. QED
    BY <1>3, <2>2, <2>3, <2>4, <2>5 DEF RowOrNone
<1>4. QED
  BY <1>2, <1>3

(* The library after a relinking, if its tracks are paired by any means.   *)
RelinkedLibrary(pairs) ==
  LET table == Relinked(rows, pairs)
  IN IF pairs = {} THEN [library EXCEPT !.rows = table] ELSE Hold(library, Rebuilt(table))

LEMMA FiniteMoves ==
  IsFiniteSet(Arrived) /\ IsFiniteSet(Missing)
BY ScannerAssumption, FS_Subset DEF Arrived, Missing

LEMMA RelinkIs ==
  ASSUME Relink
  PROVE  /\ \E arrived \in SetToSeqs(Arrived), missing \in SetToSeqs(Missing) :
              LET pairs == PairMoves(rows, arrived, missing)
              IN library' = RelinkedLibrary(pairs) /\ told' = (told \/ pairs # {})
         /\ scan.at = "job" /\ scan.jobs = <<>> /\ ~scan.traversalFailed
         /\ End("completed") /\ UNCHANGED <<disk, cancel, past>>
BY DEF Relink, RelinkedLibrary

LEMMA RelinkedIsSound ==
  ASSUME SoundInv, NEW pairs, pairs \subseteq Arrived \X Missing
  PROVE  /\ Sound(RelinkedLibrary(pairs))
         /\ Relinked(rows, pairs) \in Table
         /\ \E dirs : RelinkedLibrary(pairs).rows =
                        SettledCompilation(Relinked(rows, pairs), dirs)
<1> DEFINE T == Relinked(rows, pairs)
<1>1. rows \in Table /\ \A pair \in pairs : pair[2] \in Paths /\ HasTrack(rows[pair[2]])
  BY DEF SoundInv, TypeOK, Table, Missing
<1>2. T \in Table
  <2>1. \A p \in Paths : T[p] \in RowOrNone
    BY <1>1, RelinkedRows
  <2>2. T = [p \in Paths |-> T[p]]
    BY DEF Relinked
  <2>3. QED
    BY <2>1, <2>2 DEF Table
<1>3. CASE pairs # {}
  BY <1>2, <1>3, RebuiltIsSound DEF SoundInv, RelinkedLibrary
<1>4. CASE pairs = {}
  <2>1. ASSUME NEW p \in Paths PROVE Alike(rows[p], T[p])
    <3>1. Claimed(pairs) = {}
      BY <1>4 DEF Claimed
    <3>2. /\ rows[p] = None => T[p] = None
          /\ rows[p] # None => T[p] # None /\ T[p].tags = rows[p].tags /\ T[p].under = rows[p].under
      BY <1>1, <3>1, RelinkedRows DEF SameContent
    <3>3. QED
      BY <3>2 DEF Alike
  <2>2. RelinkedLibrary(pairs) = [library EXCEPT !.rows = T]
    BY <1>4 DEF RelinkedLibrary
  <2> HIDE DEF T
  <2>3. Sound(RelinkedLibrary(pairs)) /\ RelinkedLibrary(pairs).rows = T
    BY <1>2, <2>1, <2>2, AlikeIsSound DEF SoundInv
  <2>4. SettledCompilation(T, {}) = T
    BY <1>2 DEF SettledCompilation, Table
  <2>5. QED
    BY <1>2, <2>3, <2>4 DEF T
<1>5. QED
  BY <1>3, <1>4

LEMMA RelinkSound ==
  ASSUME SoundInv, Relink
  PROVE  SoundInv'
<1>1. PICK arrived \in SetToSeqs(Arrived), missing \in SetToSeqs(Missing) :
        /\ library' = RelinkedLibrary(PairMoves(rows, arrived, missing))
        /\ told' = (told \/ PairMoves(rows, arrived, missing) # {})
  BY RelinkIs
<1>2. Sound(library')
  BY <1>1, FiniteMoves, PairsAreOfMoves, RelinkedIsSound
<1>3. scan' \in Scans /\ scan'.planned = <<>>
  BY EndSound DEF Relink
<1>4. TypeOK'
  BY <1>1, <1>2, <1>3, RelinkIs, IdleSound
     DEF SoundInv, TypeOK, rows, Sound, Table, Fields
<1>5. QED
  BY <1>2, <1>3, <1>4 DEF SoundInv, Batched, PlansAreFeasible

LEMMA NextSound == SoundInv /\ [Next]_vars => SoundInv'
<1> SUFFICES ASSUME SoundInv, [Next]_vars PROVE SoundInv'
  OBVIOUS
<1>1. CASE Scan
  <2>1. ASSUME NEW p \in Paths, Discover(p) \/ Unusable(p) \/ Inspect(p) PROVE SoundInv'
    BY <2>1, DiscoverSound, UnusableSound, InspectSound
  <2>2. CASE Cancelled \/ TraversalFailed \/ Fail
    BY <2>2, EndsSound
  <2>3. CASE BeginRoot
    BY <2>3, BeginRootSound
  <2>4. CASE StopWalking
    BY <2>4, StopWalkingSound
  <2>5. CASE WriteBatch
    BY <2>5, WriteBatchSound
  <2>6. CASE MarkMissing
    BY <2>6, MarkMissingSound
  <2>7. CASE FinishRoot
    BY <2>7, FinishRootSound
  <2>8. CASE Relink
    BY <2>8, RelinkSound
  <2>9. QED
    BY <1>1, <2>1, <2>2, <2>3, <2>4, <2>5, <2>6, <2>7, <2>8 DEF Scan
<1>2. CASE World
  <2>1. ASSUME NEW p \in Paths, NEW q \in Paths, Rewrite(p) \/ Move(p, q) PROVE SoundInv'
    BY <2>1, FilesAreTyped, FilesChangeSound
  <2>2. ASSUME NEW targets \in SUBSET Dirs, StartScan(targets) PROVE SoundInv'
    BY <2>2, StartScanSound
  <2>3. CASE CancelScan
    BY <2>3, CancelScanSound
  <2>4. CASE Reap
    BY <2>4, ReapSound
  <2>5. CASE DeleteMissing
    BY <2>5, DeleteMissingSound
  <2>6. QED
    BY <1>2, <2>1, <2>2, <2>3, <2>4, <2>5 DEF World
<1>3. CASE UNCHANGED vars
  <2>1. TypeOK'
    BY <1>3 DEF vars, SoundInv, TypeOK, rows
  <2>2. QED
    BY <1>3, <2>1, LibraryStays DEF vars, SoundInv, Batched, PlansAreFeasible
<1>4. QED
  BY <1>1, <1>2, <1>3 DEF Next

THEOREM SoundAlways == Spec => []SoundInv
BY InitSound, NextSound, PTL DEF Spec

(* The types, for every library and any number of files and batches.       *)
THEOREM TypeCorrect == Spec => []TypeOK
<1>1. SoundInv => TypeOK
  BY DEF SoundInv
<1>2. QED
  BY <1>1, SoundAlways, PTL

(* The summaries are at any time what a rebuild from the tracks would give.*)
THEOREM SummariesFollow == Spec => []SummariesFollowTheTracks
<1>1. SoundInv => SummariesFollowTheTracks
  BY RebuiltIsSame DEF SoundInv, Sound, SummariesFollowTheTracks, rows
<1>2. QED
  BY <1>1, SoundAlways, PTL
-----------------------------------------------------------------------------
(* What a scan has seen.                                                   *)

(* The same row but for who it is filed under.                             *)
SameButUnder(r, s) ==
  /\ r = None <=> s = None
  /\ r # None => /\ r.key = s.key /\ r.tags = s.tags /\ r.track = s.track
                 /\ r.hash = s.hash /\ r.misread = s.misread
                 /\ r.seen = s.seen /\ r.missing = s.missing /\ r.pending = s.pending

LEMMA SettledIsSame ==
  ASSUME NEW T \in Table, NEW dirs, NEW p \in Paths
  PROVE  SameButUnder(T[p], SettledCompilation(T, dirs)[p])
<1> DEFINE F == SettledCompilation(T, dirs)
<1>1. F[p] = IF Readable(T[p]) /\ DirOf[p] \in dirs
             THEN [T[p] EXCEPT !.under = FiledUnder(T, p)] ELSE T[p]
  BY DEF SettledCompilation
<1>2. F[p] \in RowOrNone
  BY SettledRows DEF Table
<1> HIDE DEF F
<1>3. CASE Readable(T[p]) /\ DirOf[p] \in dirs
  <2>1. T[p] \in AnyRow /\ T[p] # None
    BY <1>3 DEF Table, RowOrNone, Readable, HasTrack
  <2>2. FiledUnder(T, p) \in Range(Artist) \cup {Various, ""}
    BY <1>3, FiledUnderName
  <2>3. F[p] = [T[p] EXCEPT !.under = FiledUnder(T, p)]
    BY <1>1, <1>3
  <2>4. F[p] # None
    <3>1. \A u \in Range(Artist) \cup {Various, ""} : [T[p] EXCEPT !.under = u] \in AnyRow
      BY <2>1, RowFields
    <3>2. F[p] \in AnyRow
      BY <2>2, <2>3, <3>1
    <3>3. QED
      BY <3>2, RowFields
  <2>5. QED
    BY <2>1, <2>3, <2>4 DEF SameButUnder, AnyRow, Row, F
<1>4. CASE ~(Readable(T[p]) /\ DirOf[p] \in dirs)
  BY <1>1, <1>4 DEF SameButUnder, F
<1>5. QED
  BY <1>3, <1>4

(* No path is twice in a batch, nor still to come; what has been read was  *)
(* to be read; and a plan is for the row that is there.                    *)
PlansFollowTheRows ==
  /\ \A i, j \in DOMAIN scan.planned :
       scan.planned[i].path = scan.planned[j].path => i = j
  /\ \A i \in DOMAIN scan.planned : scan.planned[i].path \notin scan.todo
  /\ DOMAIN scan.read \subseteq ToInspect
  /\ \A i \in DOMAIN scan.planned :
       LET row == rows[scan.planned[i].path]
       IN scan.planned[i].does # "inspect" <=>
            row # None /\ row.key = scan.planned[i].key

(* What is known of a file under its size and time is what it holds.       *)
WhatIsReadIsTrue ==
  /\ \A p \in Paths : Agrees(rows[p], disk[p])
  /\ \A i \in DOMAIN scan.planned :
       LET plan == scan.planned[i]
       IN plan.key = disk[plan.path] /\ plan.path \in DOMAIN scan.read =>
            TrueOf(scan.read[plan.path], disk[plan.path])

(* What a batch makes of a row it has read.                                *)
Stored(old, plan, result, new) ==
  /\ new # None /\ new.key = plan.key /\ new.seen /\ ~new.missing
  /\ new.hash = result.hash /\ new.misread = result.misread
  /\ new.tags = IF result.tags # None THEN result.tags
                ELSE IF HasTrack(old) THEN Cleared ELSE None
  /\ HasTrack(old) => new.track = old.track
  /\ new.pending <=> IF old # None THEN old.pending ELSE result.tags # None

Effect(plan, old, new) ==
  /\ plan.does # "inspect" => SameFile(old, new) /\ new.seen /\ ~new.missing
  /\ plan.does = "inspect" /\ plan.path \in DOMAIN scan.read =>
       Stored(old, plan, scan.read[plan.path], new)
  /\ plan.does = "inspect" /\ plan.path \notin DOMAIN scan.read => new = old

LEMMA StoredRowIs ==
  ASSUME NEW w, NEW plan, NEW result, StoredRow(w, plan, result) \in AnyRow
  PROVE  Stored(w.rows[plan.path], plan, result, StoredRow(w, plan, result))
<1>1. StoredRow(w, plan, result) # None
  BY RowFields
<1>2. QED
  BY <1>1 DEF StoredRow, Stored

(* Each row is changed by its plan, if it has one, and by no other.        *)
LEMMA BatchEffect ==
  ASSUME TypeOK, PlansAreFeasible, PlansFollowTheRows, NEW retried,
         \A p \in PathsTo("retry") : retried[p] \in ArtworkStatus,
         NEW p \in Paths
  PROVE  LET new == Applied(retried).rows[p]
         IN /\ (\A i \in DOMAIN scan.planned : scan.planned[i].path # p) => new = rows[p]
            /\ \A i \in DOMAIN scan.planned :
                 scan.planned[i].path = p => Effect(scan.planned[i], rows[p], new)
<1> DEFINE n == Len(scan.planned)
           w(i) == Applying(retried)[i]
           plan(i) == scan.planned[i]
           Good(k) ==
             /\ (\A i \in 1..k : plan(i).path # p) => w(k).rows[p] = rows[p]
             /\ \A i \in 1..k : plan(i).path = p => Effect(plan(i), rows[p], w(k).rows[p])
           S == {k \in 0..n : ~Good(k)}
<1>1. n \in Nat /\ DOMAIN scan.planned = 1..n /\ \A i \in 1..n : plan(i) \in Plans
  BY DEF TypeOK, Scans
<1>2. /\ w(0) = FirstWrite
      /\ \A i \in 1..n : w(i) = Apply(w(i - 1), plan(i), retried)
  BY <1>1, ApplyingSteps
<1>3. \A k \in 0..n : /\ Write(w(k))
                      /\ \A x \in Paths : rows[x] # None => w(k).rows[x] # None
  BY BatchIsCovered
<1> HIDE DEF w
<1>4. Good(0)
  BY <1>2 DEF FirstWrite
<1>5. ASSUME NEW k \in 1..n, Good(k - 1) PROVE Good(k)
  <2> DEFINE old == w(k - 1)
             x == plan(k).path
  <2>1. Write(old) /\ plan(k) \in Plans /\ w(k) = Apply(old, plan(k), retried) /\ x \in Paths
    BY <1>1, <1>2, <1>3 DEF Plans
  <2>2. Feasible(plan(k), old, retried)
    <3>1. plan(k).does # "inspect" => old.rows[x] # None
      BY <1>1, <1>3, <2>1 DEF PlansAreFeasible
    <3>2. plan(k).does = "retry" => x \in PathsTo("retry")
      BY <1>1 DEF PathsTo
    <3>3. QED
      BY <3>1, <3>2 DEF Feasible
  <2> HIDE DEF plan
  <2>3. /\ OnlyAt(old, w(k), x)
        /\ plan(k).does # "inspect" =>
             SameFile(old.rows[x], w(k).rows[x]) /\ w(k).rows[x].seen /\ ~w(k).rows[x].missing
        /\ plan(k).does = "inspect" /\ x \in DOMAIN scan.read =>
             w(k).rows[x] = StoredRow(old, plan(k), scan.read[x])
        /\ plan(k).does = "inspect" /\ x \notin DOMAIN scan.read => w(k).rows[x] = old.rows[x]
    BY <2>1, <2>2, ApplyStep
  <2>4. Effect(plan(k), old.rows[x], w(k).rows[x])
    <3>1. CASE plan(k).does = "inspect" /\ x \in DOMAIN scan.read
      <4>1. scan.read[x] \in Results
        <5>1. PICK D \in SUBSET Paths : scan.read \in [D -> Results]
          BY DEF TypeOK, Scans
        <5>2. QED
          BY <3>1, <5>1
      <4>2. Stored(old.rows[x], plan(k), scan.read[x], w(k).rows[x])
        BY <2>1, <2>3, <3>1, <4>1, StoredRowType, StoredRowIs
      <4>3. QED
        BY <3>1, <4>2 DEF Effect
    <3>2. CASE ~(plan(k).does = "inspect" /\ x \in DOMAIN scan.read)
      BY <2>3, <3>2 DEF Effect
    <3>3. QED
      BY <3>1, <3>2
  <2>5. CASE x = p
    <3>1. \A i \in 1..(k - 1) : plan(i).path # p
      BY <1>1, <2>5 DEF PlansFollowTheRows, plan
    <3>2. old.rows[p] = rows[p]
      BY <1>5, <3>1
    <3>3. Effect(plan(k), rows[p], w(k).rows[p])
      BY <2>4, <2>5, <3>2
    <3>4. \A i \in 1..k : i = k \/ i \in 1..(k - 1)
      BY <1>1
    <3> HIDE DEF x, old
    <3>5. QED
      BY <2>5, <3>1, <3>3, <3>4 DEF x
  <2>6. CASE x # p
    <3>1. w(k).rows[p] = old.rows[p]
      BY <2>3, <2>6 DEF OnlyAt
    <3>2. \A i \in 1..k : i = k \/ i \in 1..(k - 1)
      BY <1>1
    <3>3. 1..(k - 1) \subseteq 1..k
      BY <1>1
    <3>4. QED
      BY <1>5, <2>6, <3>1, <3>2, <3>3
  <2>7. QED
    BY <2>5, <2>6
<1> HIDE DEF Good
<1>6. S = {}
  <2>1. SUFFICES ASSUME S # {} PROVE FALSE
    OBVIOUS
  <2>2. PICK i \in S : \A j \in S : i <= j
    <3>1. S \subseteq Nat
      BY <1>1
    <3>2. QED
      BY <2>1, <3>1, Least
  <2>3. i \in 0..n /\ ~Good(i)
    BY <2>2
  <2>4. i # 0 /\ i - 1 \in 0..n /\ i - 1 \notin S /\ i \in 1..n
    BY <1>1, <1>4, <2>2, <2>3
  <2>5. QED
    BY <1>5, <2>3, <2>4
<1>7. Good(n)
  BY <1>1, <1>6
<1>8. QED
  BY <1>1, <1>7 DEF Good, w, plan, Applied

LEMMA AgreesAlike ==
  ASSUME NEW r, NEW s, NEW file, Agrees(r, file),
         s = None \/ (r # None /\ SameContent(r, s))
  PROVE  Agrees(s, file)
BY DEF Agrees, TrueOf, SameContent

(* What has been read is the file: the row agrees with it.                 *)
LEMMA StoredAgrees ==
  ASSUME NEW old, NEW plan, NEW result, NEW new, Stored(old, plan, result, new),
         NEW file \in FileOrNone, plan.key = file => TrueOf(result, file)
  PROVE  Agrees(new, file)
<1> SUFFICES ASSUME new # None, new.key = file PROVE Agrees(new, file)
  BY DEF Agrees
<1>1. TrueOf(result, file)
  BY DEF Stored
<1>2. QED
  BY <1>1, RowsAssumption DEF Stored, Agrees, TrueOf

(* What the stages of a scan rest on.                                      *)
Stages ==
  /\ scan.outcome # "none" => scan.at = "over"
  /\ scan.at = "finish" => scan.exhausted
  /\ scan.at = "job" => ~scan.exhausted
  /\ ~scan.exhausted => scan.complete
  /\ scan.exhausted /\ scan.complete => scan.todo = {}
  /\ \A i \in DOMAIN scan.jobs :
       scan.jobs[i] # {} /\ \E r \in Roots : scan.jobs[i] \subseteq DirsOf(r)

ReadInv == SoundInv /\ PlansFollowTheRows /\ WhatIsReadIsTrue /\ Stages

(* A step that leaves rows and files alone, or ends with no plans.         *)
LEMMA NoPlansLeft ==
  ASSUME scan'.planned = <<>>, scan'.read = <<>>
  PROVE  /\ PlansFollowTheRows'
         /\ (\A p \in Paths : Agrees(rows'[p], disk'[p])) => WhatIsReadIsTrue'
BY DEF PlansFollowTheRows, WhatIsReadIsTrue

LEMMA PlansStay ==
  ASSUME ReadInv, scan'.planned = scan.planned, scan'.read = scan.read,
         scan'.todo \subseteq scan.todo, UNCHANGED <<disk, library>>
  PROVE  PlansFollowTheRows' /\ WhatIsReadIsTrue'
<1>1. rows' = rows /\ ToInspect' = ToInspect
  BY DEF rows, ToInspect, PathsTo
<1>2. PlansFollowTheRows'
  BY <1>1 DEF ReadInv, PlansFollowTheRows
<1>3. WhatIsReadIsTrue'
  BY <1>1 DEF ReadInv, WhatIsReadIsTrue
<1>4. QED
  BY <1>2, <1>3

LEMMA IdleFields ==
  /\ Idle.jobs = <<>> /\ Idle.dirs = {} /\ Idle.todo = {} /\ Idle.planned = <<>>
  /\ Idle.read = <<>> /\ Idle.exhausted = FALSE /\ Idle.complete = TRUE
  /\ Idle.outcome = "none" /\ Idle.at = "idle" /\ Idle.traversalFailed = FALSE
BY DEF Idle

LEMMA EndRead ==
  ASSUME NEW outcome, End(outcome)
  PROVE  /\ scan'.planned = <<>> /\ scan'.read = <<>> /\ Stages'
         /\ scan'.at = "over" /\ scan'.outcome = outcome
BY DEF End, Idle, Stages

LEMMA InitRead == Init => ReadInv
<1> SUFFICES ASSUME Init PROVE ReadInv
  OBVIOUS
<1>1. SoundInv
  BY InitSound
<1>2. scan = Idle /\ disk = FirstFiles
  BY DEF Init
<1>3. \A p \in Paths : Agrees(rows[p], disk[p])
  <2>1. rows = SettledCompilation(FirstRows, {DirOf[p] : p \in Paths})
    <3>1. rows = Rebuilt(FirstRows).rows
      BY DEF Init, rows
    <3>2. QED
      BY <3>1 DEF Rebuilt, SummaryOf
  <2>2. ASSUME NEW p \in Paths PROVE Agrees(rows[p], disk[p])
    <3>1. SameButUnder(FirstRows[p], rows[p])
      BY <2>1, SettledIsSame, ScannerAssumption DEF Table
    <3>2. Agrees(FirstRows[p], disk[p])
      BY <1>2, ScannerAssumption
    <3>3. QED
      BY <3>1, <3>2, AgreesAlike DEF SameButUnder, SameContent
  <2>3. QED
    BY <2>2
<1>4. PlansFollowTheRows /\ WhatIsReadIsTrue /\ Stages
  BY <1>2, <1>3, IdleFields DEF PlansFollowTheRows, WhatIsReadIsTrue, Stages
<1>5. QED
  BY <1>1, <1>4 DEF ReadInv

(* The folders of a scan, each with what is asked of it.                   *)
LEMMA ScopeIs ==
  ASSUME NEW r \in Roots, NEW targets, DirsOf(r) \cap targets # {},
         NEW dirs \in Scope(r, targets \cap DirsOf(r))
  PROVE  /\ dirs # {} /\ dirs \subseteq DirsOf(r)
         /\ targets = Dirs => dirs = DirsOf(r)
<1>1. DirsOf(r) \subseteq Dirs
  BY DEF DirsOf
<1>2. dirs = targets \cap DirsOf(r) \/ dirs = DirsOf(r)
  BY DEF Scope
<1>3. QED
  BY <1>1, <1>2

LEMMA StartScanIs ==
  ASSUME NEW targets, StartScan(targets)
  PROVE  /\ scan'.at = "job" /\ scan'.planned = <<>> /\ scan'.read = <<>>
         /\ scan'.outcome = "none" /\ scan'.todo = {} /\ scan'.complete /\ ~scan'.exhausted
         /\ past' = [rows |-> rows, steady |-> {}, quiet |-> TRUE, whole |-> targets = Dirs]
         /\ UNCHANGED <<disk, library>>
         /\ \A i \in DOMAIN scan'.jobs :
              /\ scan'.jobs[i] # {}
              /\ \E r \in Roots : scan'.jobs[i] \subseteq DirsOf(r)
         /\ targets = Dirs => \A d \in Dirs : \E i \in DOMAIN scan'.jobs : d \in scan'.jobs[i]
<1> DEFINE roots == {r \in Roots : DirsOf(r) \cap targets # {}}
<1>1. PICK order \in SetToSeqs(roots), scope \in [roots -> SUBSET Dirs] :
        /\ \A r \in roots : scope[r] \in Scope(r, targets \cap DirsOf(r))
        /\ scan' = [Idle EXCEPT !.at = "job", !.jobs = [i \in DOMAIN order |-> scope[order[i]]]]
  BY DEF StartScan
<1> DEFINE jobs == [i \in DOMAIN order |-> scope[order[i]]]
<1>2. /\ \A i \in DOMAIN order : order[i] \in roots
      /\ \A r \in roots : \E i \in DOMAIN order : order[i] = r
  <2>1. IsFiniteSet(roots)
    BY FiniteFolders, FS_Subset
  <2>2. QED
    <3>1. /\ DOMAIN order = 1..Len(order)
          /\ \A i \in 1..Len(order) : order[i] \in roots
          /\ \A r \in roots : \E i \in 1..Len(order) : order[i] = r
      BY <2>1, InSomeOrder
    <3> HIDE DEF roots
    <3>2. QED
      BY <3>1
<1>3. \A i \in DOMAIN order : scope[order[i]] \in Scope(order[i], targets \cap DirsOf(order[i]))
  BY <1>1, <1>2
<1> HIDE DEF jobs
<1>4. /\ scan'.jobs = jobs /\ scan'.at = "job" /\ scan'.planned = <<>> /\ scan'.read = <<>>
      /\ scan'.outcome = "none" /\ scan'.todo = {} /\ scan'.complete /\ ~scan'.exhausted
  BY <1>1 DEF Idle, jobs
<1>5. ASSUME NEW i \in DOMAIN order
      PROVE  /\ jobs[i] # {} /\ \E r \in Roots : jobs[i] \subseteq DirsOf(r)
             /\ targets = Dirs => jobs[i] = DirsOf(order[i])
  <2>1. order[i] \in Roots /\ DirsOf(order[i]) \cap targets # {}
    BY <1>2
  <2>2. jobs[i] \in Scope(order[i], targets \cap DirsOf(order[i]))
    BY <1>3 DEF jobs
  <2>3. QED
    BY <2>1, <2>2, ScopeIs
<1>6. ASSUME targets = Dirs, NEW d \in Dirs
      PROVE  \E i \in DOMAIN order : d \in jobs[i]
  <2>1. RootOf[d] \in Roots /\ d \in DirsOf(RootOf[d])
    BY ScannerAssumption DEF Roots, Range, DirsOf
  <2>2. RootOf[d] \in roots
    BY <1>6, <2>1
  <2>3. QED
    BY <1>2, <1>5, <1>6, <2>1, <2>2
<1>7. DOMAIN scan'.jobs = DOMAIN order
  BY <1>4 DEF jobs
<1>8. QED
  BY <1>4, <1>5, <1>6, <1>7 DEF StartScan

LEMMA StartScanRead ==
  ASSUME ReadInv, NEW targets, StartScan(targets)
  PROVE  ReadInv'
<1>1. SoundInv'
  BY StartScanSound DEF ReadInv
<1>2. PlansFollowTheRows' /\ WhatIsReadIsTrue'
  BY StartScanIs, NoPlansLeft DEF ReadInv, WhatIsReadIsTrue, rows
<1>3. Stages'
  BY StartScanIs DEF Stages
<1>4. QED
  BY <1>1, <1>2, <1>3 DEF ReadInv

LEMMA EndsRead ==
  ASSUME ReadInv, Fail \/ Cancelled \/ TraversalFailed
  PROVE  ReadInv' /\ scan'.at = "over" /\ scan'.outcome \in {"failed", "cancelled"}
<1>1. /\ UNCHANGED <<disk, library>>
      /\ \E outcome \in {"failed", "cancelled"} : End(outcome)
  BY DEF Fail, Cancelled, TraversalFailed
<1>2. /\ scan'.planned = <<>> /\ scan'.read = <<>> /\ Stages'
      /\ scan'.at = "over" /\ scan'.outcome \in {"failed", "cancelled"}
  BY <1>1, EndRead
<1>3. SoundInv'
  BY EndsSound DEF ReadInv
<1>4. PlansFollowTheRows' /\ WhatIsReadIsTrue'
  BY <1>1, <1>2, NoPlansLeft DEF ReadInv, WhatIsReadIsTrue, rows
<1>5. QED
  BY <1>2, <1>3, <1>4 DEF ReadInv

LEMMA ReapRead ==
  ASSUME ReadInv, Reap
  PROVE  ReadInv'
<1>1. scan' = Idle /\ UNCHANGED <<disk, library>>
  BY DEF Reap
<1>2. SoundInv'
  BY ReapSound DEF ReadInv
<1>3. PlansFollowTheRows' /\ WhatIsReadIsTrue'
  BY <1>1, IdleFields, NoPlansLeft DEF ReadInv, WhatIsReadIsTrue, rows
<1>4. Stages'
  BY <1>1, IdleFields DEF Stages
<1>5. QED
  BY <1>2, <1>3, <1>4 DEF ReadInv

LEMMA FinishRootIs ==
  ASSUME FinishRoot
  PROVE  /\ scan'.at = "job" /\ scan'.jobs = scan.jobs /\ scan'.planned = <<>>
         /\ scan'.read = <<>> /\ scan'.outcome = "none" /\ scan'.complete /\ ~scan'.exhausted
         /\ scan'.todo = {} /\ scan'.dirs = {}
         /\ scan'.traversalFailed = (scan.traversalFailed \/ ~scan.complete)
         /\ UNCHANGED <<disk, library, past>>
BY DEF FinishRoot, Idle

LEMMA FinishRootRead ==
  ASSUME ReadInv, FinishRoot
  PROVE  ReadInv'
<1>1. SoundInv'
  BY FinishRootSound DEF ReadInv
<1>2. PlansFollowTheRows' /\ WhatIsReadIsTrue'
  BY FinishRootIs, NoPlansLeft DEF ReadInv, WhatIsReadIsTrue, rows
<1>3. Stages'
  BY FinishRootIs DEF ReadInv, Stages
<1>4. QED
  BY <1>1, <1>2, <1>3 DEF ReadInv

LEMMA DiscoverIs ==
  ASSUME SoundInv, NEW p \in Paths, Discover(p)
  PROVE  /\ scan.at = "walk" /\ scan'.at = scan.at /\ scan'.jobs = scan.jobs
         /\ scan'.dirs = scan.dirs /\ scan'.todo = scan.todo \ {p} /\ p \in scan.todo
         /\ scan'.read = scan.read /\ scan'.exhausted = scan.exhausted /\ ~scan.exhausted
         /\ scan'.complete = scan.complete /\ scan'.outcome = scan.outcome
         /\ scan'.traversalFailed = scan.traversalFailed
         /\ UNCHANGED <<disk, library, past>>
         /\ p \notin Files => scan'.planned = scan.planned
         /\ p \in Files =>
              /\ DOMAIN scan'.planned = (DOMAIN scan.planned) \cup {Len(scan.planned) + 1}
              /\ Len(scan.planned) + 1 \notin DOMAIN scan.planned
              /\ scan'.planned[Len(scan.planned) + 1] = Plan(p)
              /\ \A i \in DOMAIN scan.planned : scan'.planned[i] = scan.planned[i]
<1> DEFINE planned == IF p \in Files THEN Append(scan.planned, Plan(p)) ELSE scan.planned
<1>1. scan' = [scan EXCEPT !.todo = @ \ {p}, !.planned = planned]
  BY DEF Discover
<1>2. p \in Files =>
        /\ DOMAIN planned = (DOMAIN scan.planned) \cup {Len(scan.planned) + 1}
        /\ Len(scan.planned) + 1 \notin DOMAIN scan.planned
        /\ planned[Len(scan.planned) + 1] = Plan(p)
        /\ \A i \in DOMAIN scan.planned : planned[i] = scan.planned[i]
  BY ScanIsTyped
<1>3. p \notin Files => planned = scan.planned
  OBVIOUS
<1> HIDE DEF planned
<1>4. /\ scan'.at = scan.at /\ scan'.jobs = scan.jobs /\ scan'.dirs = scan.dirs
      /\ scan'.todo = scan.todo \ {p} /\ scan'.read = scan.read
      /\ scan'.exhausted = scan.exhausted /\ scan'.complete = scan.complete
      /\ scan'.outcome = scan.outcome /\ scan'.traversalFailed = scan.traversalFailed
      /\ scan'.planned = planned
  BY <1>1, ScanIsTyped DEF Scans
<1>5. QED
  BY <1>2, <1>3, <1>4 DEF Discover, Walking

LEMMA PlanIs ==
  ASSUME NEW p
  PROVE  /\ Plan(p).path = p /\ Plan(p).key = disk[p]
         /\ Plan(p).does # "inspect" <=> rows[p] # None /\ rows[p].key = disk[p]
BY DEF Plan, Unchanged

LEMMA DiscoverRead ==
  ASSUME ReadInv, NEW p \in Paths, Discover(p)
  PROVE  ReadInv'
<1>1. SoundInv /\ SoundInv'
  BY DiscoverSound DEF ReadInv
<1>2. /\ \A i \in DOMAIN scan.planned : scan.planned[i].path # p
      /\ p \notin DOMAIN scan.read
  <2>1. \A i \in DOMAIN scan.planned : scan.planned[i].path # p
    BY <1>1, DiscoverIs DEF ReadInv, PlansFollowTheRows
  <2>2. p \notin ToInspect
    BY <2>1 DEF ToInspect, PathsTo
  <2>3. QED
    BY <2>1, <2>2 DEF ReadInv, PlansFollowTheRows
<1>3. rows' = rows /\ disk' = disk /\ scan'.read = scan.read
  BY <1>1, DiscoverIs DEF rows
<1>4. CASE p \in Files
  <2> DEFINE n == Len(scan.planned) + 1
  <2>1. /\ DOMAIN scan'.planned = (DOMAIN scan.planned) \cup {n} /\ n \notin DOMAIN scan.planned
        /\ scan'.planned[n] = Plan(p)
        /\ \A i \in DOMAIN scan.planned : scan'.planned[i] = scan.planned[i]
        /\ scan'.todo = scan.todo \ {p}
    BY <1>1, <1>4, DiscoverIs
  <2> HIDE DEF n
  <2>2. ToInspect \subseteq ToInspect'
    BY <2>1 DEF ToInspect, PathsTo
  <2>3. PlansFollowTheRows'
    <3>1. \A i, j \in DOMAIN scan'.planned :
            scan'.planned[i].path = scan'.planned[j].path => i = j
      BY <1>2, <2>1, PlanIs DEF ReadInv, PlansFollowTheRows
    <3>2. \A i \in DOMAIN scan'.planned : scan'.planned[i].path \notin scan'.todo
      BY <2>1, PlanIs DEF ReadInv, PlansFollowTheRows
    <3>3. DOMAIN scan'.read \subseteq ToInspect'
      BY <1>3, <2>2 DEF ReadInv, PlansFollowTheRows
    <3>4. \A i \in DOMAIN scan'.planned :
            scan'.planned[i].does # "inspect" <=>
              /\ rows[scan'.planned[i].path] # None
              /\ rows[scan'.planned[i].path].key = scan'.planned[i].key
      BY <2>1, PlanIs DEF ReadInv, PlansFollowTheRows
    <3>5. QED
      BY <1>3, <3>1, <3>2, <3>3, <3>4 DEF PlansFollowTheRows
  <2>4. WhatIsReadIsTrue'
    BY <1>2, <1>3, <2>1, PlanIs DEF ReadInv, WhatIsReadIsTrue
  <2>5. QED
    BY <1>1, <2>3, <2>4, DiscoverIs DEF ReadInv, Stages
<1>5. CASE p \notin Files
  <2>1. PlansFollowTheRows' /\ WhatIsReadIsTrue'
    BY <1>1, <1>5, DiscoverIs, PlansStay
  <2>2. QED
    BY <1>1, <2>1, DiscoverIs DEF ReadInv, Stages
<1>6. QED
  BY <1>4, <1>5

LEMMA UnusableRead ==
  ASSUME ReadInv, NEW p \in Paths, Unusable(p)
  PROVE  ReadInv' /\ ~past'.quiet
<1>1. SoundInv /\ SoundInv'
  BY UnusableSound DEF ReadInv
<1>2. /\ scan'.at = scan.at /\ scan'.jobs = scan.jobs /\ scan'.todo = scan.todo \ {p}
      /\ scan'.planned = scan.planned /\ scan'.read = scan.read
      /\ scan'.exhausted = scan.exhausted /\ scan'.complete = scan.complete
      /\ scan'.outcome = scan.outcome
  BY <1>1, ScanIsTyped DEF Unusable, Scans
<1>3. UNCHANGED <<disk, library>> /\ ~past'.quiet
  BY <1>1, ScanIsTyped DEF Unusable, Pasts
<1>4. PlansFollowTheRows' /\ WhatIsReadIsTrue'
  BY <1>2, <1>3, PlansStay
<1>5. QED
  BY <1>1, <1>2, <1>3, <1>4 DEF ReadInv, Stages

LEMMA StopWalkingIs ==
  ASSUME SoundInv, StopWalking
  PROVE  /\ scan.at = "walk" /\ scan'.at = "walk" /\ scan'.jobs = scan.jobs
         /\ scan'.dirs = scan.dirs /\ scan'.todo = scan.todo
         /\ scan'.planned = scan.planned /\ scan'.read = scan.read
         /\ scan'.exhausted /\ (scan'.complete => scan.todo = {})
         /\ scan'.outcome = scan.outcome /\ scan'.traversalFailed = scan.traversalFailed
         /\ UNCHANGED <<disk, library, past>>
<1>1. PICK complete \in {scan.todo = {}, FALSE} :
        scan' = [scan EXCEPT !.exhausted = TRUE, !.complete = complete]
  BY DEF StopWalking
<1>2. complete => scan.todo = {}
  BY <1>1
<1>3. QED
  BY <1>1, <1>2, ScanIsTyped DEF StopWalking, Walking, Scans

LEMMA StopWalkingRead ==
  ASSUME ReadInv, StopWalking
  PROVE  ReadInv'
<1>1. SoundInv /\ SoundInv'
  BY StopWalkingSound DEF ReadInv
<1>2. PlansFollowTheRows' /\ WhatIsReadIsTrue'
  BY <1>1, StopWalkingIs, PlansStay
<1>3. Stages'
  BY <1>1, StopWalkingIs DEF ReadInv, Stages
<1>4. QED
  BY <1>1, <1>2, <1>3 DEF ReadInv

LEMMA InspectIs ==
  ASSUME SoundInv, NEW p \in Paths, Inspect(p)
  PROVE  /\ scan'.at = scan.at /\ scan'.jobs = scan.jobs /\ scan'.dirs = scan.dirs
         /\ scan'.todo = scan.todo /\ scan'.planned = scan.planned
         /\ scan'.exhausted = scan.exhausted /\ scan'.complete = scan.complete
         /\ scan'.outcome = scan.outcome /\ scan'.traversalFailed = scan.traversalFailed
         /\ UNCHANGED <<disk, library, past>>
         /\ p \in ToInspect /\ p \notin DOMAIN scan.read
         /\ DOMAIN scan'.read = (DOMAIN scan.read) \cup {p}
         /\ \A x \in DOMAIN scan.read : scan'.read[x] = scan.read[x]
         /\ TrueOf(scan'.read[p], disk[p])
<1>1. PICK result \in Readings(disk[p]) :
        scan' = [scan EXCEPT !.read = Joined(@, [x \in {p} |-> result])]
  BY DEF Inspect
<1> DEFINE read == Joined(scan.read, [x \in {p} |-> result])
<1>2. p \in ToInspect /\ p \notin DOMAIN scan.read
  BY DEF Inspect
<1>3. /\ DOMAIN read = (DOMAIN scan.read) \cup {p}
      /\ \A x \in DOMAIN scan.read : read[x] = scan.read[x]
      /\ read[p] = result
  BY <1>2 DEF Joined
<1>4. TrueOf(result, disk[p])
  BY ReadingsAreTrue DEF SoundInv, TypeOK
<1> HIDE DEF read
<1>5. scan' = [scan EXCEPT !.read = read]
  BY <1>1 DEF read
<1>6. /\ scan'.at = scan.at /\ scan'.jobs = scan.jobs /\ scan'.dirs = scan.dirs
      /\ scan'.todo = scan.todo /\ scan'.planned = scan.planned
      /\ scan'.exhausted = scan.exhausted /\ scan'.complete = scan.complete
      /\ scan'.outcome = scan.outcome /\ scan'.traversalFailed = scan.traversalFailed
      /\ scan'.read = read
  BY <1>5, ScanIsTyped DEF Scans
<1>7. QED
  BY <1>2, <1>3, <1>4, <1>6 DEF Inspect

LEMMA InspectRead ==
  ASSUME ReadInv, NEW p \in Paths, Inspect(p)
  PROVE  ReadInv'
<1>1. SoundInv /\ SoundInv'
  BY InspectSound DEF ReadInv
<1>2. rows' = rows /\ disk' = disk /\ ToInspect' = ToInspect
  BY <1>1, InspectIs DEF rows, ToInspect, PathsTo
<1>3. PlansFollowTheRows'
  BY <1>1, <1>2, InspectIs DEF ReadInv, PlansFollowTheRows
<1>4. WhatIsReadIsTrue'
  BY <1>1, <1>2, InspectIs DEF ReadInv, WhatIsReadIsTrue
<1>5. Stages'
  BY <1>1, InspectIs DEF ReadInv, Stages
<1>6. QED
  BY <1>1, <1>3, <1>4, <1>5 DEF ReadInv

LEMMA CancelScanRead ==
  ASSUME ReadInv, CancelScan
  PROVE  ReadInv'
<1>1. SoundInv' /\ UNCHANGED <<disk, library, scan, past>>
  BY CancelScanSound DEF ReadInv, CancelScan
<1>2. QED
  BY <1>1, PlansStay DEF ReadInv, Stages

LEMMA FilesChangeRead ==
  ASSUME ReadInv, NEW files \in [Paths -> FileOrNone], FilesChange(files)
  PROVE  ReadInv' /\ ~past'.quiet /\ scan.at # "over" /\ scan' = scan
<1>1. SoundInv /\ SoundInv'
  BY FilesChangeSound DEF ReadInv
<1>2. /\ disk' = files /\ UNCHANGED <<library, scan>> /\ scan.at # "over" /\ ~past'.quiet
      /\ rows' = rows
  BY <1>1, ScanIsTyped DEF FilesChange, Pasts, rows
<1>3. ASSUME NEW p \in Paths
      PROVE  /\ Agrees(rows[p], files[p])
             /\ files[p] # disk[p] => \A i \in DOMAIN scan.planned :
                  scan.planned[i].path = p => scan.planned[i].key # files[p]
  <2>1. None \notin Contents \cup {Garbage}
    BY RowsAssumption, ScannerAssumption
  <2>2. CASE files[p] = disk[p]
    BY <2>2 DEF ReadInv, WhatIsReadIsTrue
  <2>3. CASE files[p] = None
    <3>1. rows[p] # None => rows[p].key # None
      <4>1. rows[p] \in RowOrNone
        BY <1>1 DEF SoundInv, TypeOK
      <4>2. QED
        BY <2>1, <4>1, RowFields DEF RowOrNone
    <3>2. \A i \in DOMAIN scan.planned : scan.planned[i].key # None
      BY <1>1, <2>1, ScanIsTyped DEF Plans
    <3>3. QED
      BY <2>3, <3>1, <3>2 DEF Agrees
  <2>4. CASE files[p] \notin {disk[p], None}
    <3>1. Told(p, files[p])
      BY <2>4 DEF FilesChange
    <3>2. QED
      BY <3>1 DEF Told, ToSet
  <2>5. QED
    BY <2>2, <2>3, <2>4
<1>4. PlansFollowTheRows'
  <2>1. ToInspect' = ToInspect
    BY <1>2 DEF ToInspect, PathsTo
  <2>2. QED
    BY <1>2, <2>1 DEF ReadInv, PlansFollowTheRows
<1>5. WhatIsReadIsTrue'
  <2>1. \A i \in DOMAIN scan.planned : scan.planned[i].path \in Paths
    BY <1>1, ScanIsTyped DEF Plans
  <2>2. QED
    BY <1>2, <1>3, <2>1 DEF ReadInv, WhatIsReadIsTrue
<1>6. QED
  BY <1>1, <1>2, <1>4, <1>5 DEF ReadInv, Stages

(* A folder is begun: it is known what is to be walked, and that nothing   *)
(* of the folder has been seen.                                            *)
LEMMA BeginRootIs ==
  ASSUME ReadInv, BeginRoot
  PROVE  /\ scan.at = "job" /\ scan'.at = "walk" /\ scan.planned = <<>> /\ scan'.planned = <<>>
         /\ scan.jobs # <<>> /\ scan'.dirs = Head(scan.jobs) /\ scan'.jobs = Tail(scan.jobs)
         /\ scan'.todo = In(scan'.dirs) /\ scan'.read = scan.read
         /\ scan'.complete /\ ~scan'.exhausted /\ scan'.outcome = scan.outcome
         /\ scan'.traversalFailed = scan.traversalFailed
         /\ disk' = disk /\ past'.quiet = past.quiet /\ past'.whole = past.whole
         /\ past'.rows = past.rows
         /\ \A p \in Paths : (rows[p] = None /\ rows'[p] = None) \/ SameFile(rows[p], rows'[p])
         /\ \E r \in Roots :
              /\ scan'.dirs # {} /\ scan'.dirs \subseteq DirsOf(r)
              /\ \A p \in Paths :
                   IF p \in In(DirsOf(r)) /\ rows[p] # None
                   THEN ~rows'[p].seen /\ rows'[p].missing = rows[p].missing
                   ELSE rows'[p] = rows[p]
<1> DEFINE dirs == Head(scan.jobs)
           r == RootOf[CHOOSE d \in dirs : TRUE]
           T == [p \in Paths |-> IF p \in In(DirsOf(r)) /\ rows[p] # None
                                 THEN [rows[p] EXCEPT !.seen = FALSE] ELSE rows[p]]
<1>1. SoundInv /\ scan \in Scans
  BY DEF ReadInv, SoundInv, TypeOK
<1>2. /\ library' = [library EXCEPT !.rows = T]
      /\ scan' = [scan EXCEPT !.at = "walk", !.jobs = Tail(@), !.dirs = dirs,
                              !.todo = In(dirs), !.complete = TRUE]
      /\ scan.at = "job" /\ scan.jobs # <<>> /\ disk' = disk
  BY DEF BeginRoot
<1>3. past'.quiet = past.quiet /\ past'.whole = past.whole /\ past'.rows = past.rows
  BY <1>1, ScanIsTyped DEF BeginRoot, Pasts
<1>4. \A p \in Paths : \/ T[p] = rows[p]
                       \/ rows[p] # None /\ T[p] = [rows[p] EXCEPT !.seen = FALSE]
  OBVIOUS
<1>5. T = [p \in Paths |-> T[p]]
  OBVIOUS
<1>6. ASSUME NEW p \in Paths
      PROVE  IF p \in In(DirsOf(r)) /\ rows[p] # None
             THEN ~T[p].seen /\ T[p].missing = rows[p].missing ELSE T[p] = rows[p]
  <2>1. CASE p \in In(DirsOf(r)) /\ rows[p] # None
    <3>1. rows[p] \in AnyRow
      BY <1>1, <2>1 DEF SoundInv, TypeOK, RowOrNone
    <3>2. T[p] = [rows[p] EXCEPT !.seen = FALSE]
      BY <2>1
    <3> HIDE DEF T
    <3>3. ~T[p].seen /\ T[p].missing = rows[p].missing
      BY <3>1, <3>2 DEF AnyRow, Row
    <3>4. QED
      BY <2>1, <3>3
  <2>2. CASE ~(p \in In(DirsOf(r)) /\ rows[p] # None)
    BY <2>2
  <2>3. QED
    BY <2>1, <2>2
<1> HIDE DEF T
<1>7. /\ library'.rows = T
      /\ \A p \in Paths : (rows[p] = None /\ T[p] = None) \/ SameFile(rows[p], T[p])
  BY <1>1, <1>2, <1>4, <1>5, MarkedIsSound
<1>8. /\ dirs # {} /\ \E s \in Roots : dirs \subseteq DirsOf(s)
  BY <1>1, <1>2 DEF ReadInv, Stages, Scans
<1>9. r \in Roots /\ dirs \subseteq DirsOf(r)
  BY <1>8 DEF DirsOf
<1> HIDE DEF dirs, r
<1>10. /\ scan'.at = "walk" /\ scan'.dirs = dirs /\ scan'.jobs = Tail(scan.jobs)
       /\ scan'.todo = In(dirs) /\ scan'.read = scan.read /\ scan'.planned = scan.planned
       /\ scan'.complete /\ scan'.exhausted = scan.exhausted
       /\ scan'.outcome = scan.outcome /\ scan'.traversalFailed = scan.traversalFailed
  BY <1>1, <1>2 DEF Scans
<1>11. scan.planned = <<>> /\ ~scan.exhausted
  BY <1>1, <1>2 DEF ReadInv, SoundInv, Batched, Stages
<1>12. rows' = T
  BY <1>7 DEF rows
<1>13. QED
  BY <1>2, <1>3, <1>6, <1>7, <1>8, <1>9, <1>10, <1>11, <1>12 DEF dirs

(* Nothing has been read when no plan was made.                            *)
LEMMA NothingIsRead ==
  ASSUME ReadInv, scan.at # "walk"
  PROVE  scan.planned = <<>> /\ DOMAIN scan.read = {}
<1>1. scan.planned = <<>>
  BY DEF ReadInv, SoundInv, Batched
<1>2. ToInspect = {}
  BY <1>1 DEF ToInspect, PathsTo
<1>3. QED
  BY <1>1, <1>2 DEF ReadInv, PlansFollowTheRows

LEMMA SameFilesAgree ==
  ASSUME ReadInv, disk' = disk,
         \A p \in Paths : (rows[p] = None /\ rows'[p] = None) \/ SameFile(rows[p], rows'[p])
  PROVE  \A p \in Paths : Agrees(rows'[p], disk'[p])
<1>1. ASSUME NEW p \in Paths PROVE Agrees(rows'[p], disk'[p])
  <2>1. Agrees(rows[p], disk[p])
    BY DEF ReadInv, WhatIsReadIsTrue
  <2>2. rows'[p] = None \/ (rows[p] # None /\ SameContent(rows[p], rows'[p]))
    BY DEF SameFile, SameContent
  <2>3. QED
    BY <2>1, <2>2, AgreesAlike
<1>2. QED
  BY <1>1

LEMMA BeginRootRead ==
  ASSUME ReadInv, BeginRoot
  PROVE  ReadInv'
<1>1. SoundInv'
  BY BeginRootSound DEF ReadInv
<1>2. scan'.planned = <<>> /\ scan'.read = scan.read /\ DOMAIN scan.read = {}
  BY BeginRootIs, NothingIsRead
<1>3. \A p \in Paths : Agrees(rows'[p], disk'[p])
  BY BeginRootIs, SameFilesAgree
<1>4. PlansFollowTheRows' /\ WhatIsReadIsTrue'
  BY <1>2, <1>3 DEF PlansFollowTheRows, WhatIsReadIsTrue
<1>5. Stages'
  <2>1. scan.outcome = "none"
    BY BeginRootIs DEF ReadInv, Stages
  <2>2. \A i \in DOMAIN scan'.jobs : i + 1 \in DOMAIN scan.jobs /\ scan'.jobs[i] = scan.jobs[i + 1]
    <3>1. PICK s \in Seq(SUBSET Dirs) : s = scan.jobs
      BY ScanIsTyped DEF ReadInv, Scans
    <3>2. s # <<>> => \A i \in DOMAIN Tail(s) : i + 1 \in DOMAIN s /\ Tail(s)[i] = s[i + 1]
      OBVIOUS
    <3>3. QED
      BY <3>1, <3>2, BeginRootIs
  <2>3. QED
    BY <2>1, <2>2, BeginRootIs DEF ReadInv, Stages
<1>6. QED
  BY <1>1, <1>4, <1>5 DEF ReadInv

(* What was not seen is missing now.                                       *)
LEMMA MarkMissingIs ==
  ASSUME ReadInv, MarkMissing
  PROVE  /\ scan.at = "finish" /\ scan'.at = "finish" /\ scan.complete /\ scan'.complete
         /\ scan'.jobs = scan.jobs /\ scan'.todo = scan.todo /\ scan'.read = scan.read
         /\ scan.planned = <<>> /\ scan'.planned = <<>> /\ scan'.exhausted = scan.exhausted
         /\ scan'.outcome = scan.outcome /\ scan'.traversalFailed = scan.traversalFailed
         /\ disk' = disk /\ past' = past
         /\ \A p \in Paths : (rows[p] = None /\ rows'[p] = None) \/ SameFile(rows[p], rows'[p])
         /\ \E dirs : /\ dirs \subseteq scan.dirs /\ scan'.dirs = scan.dirs \ dirs
                      /\ \A p \in Paths :
                           IF p \in Vanished(dirs)
                           THEN rows'[p].missing /\ rows'[p].seen = rows[p].seen
                           ELSE rows'[p] = rows[p]
<1>1. PICK dirs \in {scan.dirs} \cup {{d} : d \in scan.dirs} :
        /\ library' = [library EXCEPT !.rows = [p \in Paths |->
                          IF p \in Vanished(dirs) THEN [rows[p] EXCEPT !.missing = TRUE]
                          ELSE rows[p]]]
        /\ scan' = [scan EXCEPT !.dirs = @ \ dirs, !.gone = @ \/ Vanished(dirs) # {}]
  BY DEF MarkMissing
<1> DEFINE T == [p \in Paths |-> IF p \in Vanished(dirs) THEN [rows[p] EXCEPT !.missing = TRUE]
                                 ELSE rows[p]]
<1>2. SoundInv /\ scan \in Scans
  BY DEF ReadInv, SoundInv, TypeOK
<1>3. \A p \in Paths : \/ T[p] = rows[p]
                       \/ rows[p] # None /\ T[p] = [rows[p] EXCEPT !.missing = TRUE]
  BY DEF Vanished
<1>4. T = [p \in Paths |-> T[p]] /\ library' = [library EXCEPT !.rows = T]
  BY <1>1
<1>5. ASSUME NEW p \in Paths
      PROVE  IF p \in Vanished(dirs) THEN T[p].missing /\ T[p].seen = rows[p].seen
             ELSE T[p] = rows[p]
  <2>1. CASE p \in Vanished(dirs)
    <3>1. rows[p] \in AnyRow
      BY <1>2, <2>1 DEF SoundInv, TypeOK, RowOrNone, Vanished
    <3>2. T[p] = [rows[p] EXCEPT !.missing = TRUE]
      BY <2>1
    <3> HIDE DEF T
    <3>3. T[p].missing /\ T[p].seen = rows[p].seen
      BY <3>1, <3>2 DEF AnyRow, Row
    <3>4. QED
      BY <2>1, <3>3
  <2>2. CASE p \notin Vanished(dirs)
    BY <2>2
  <2>3. QED
    BY <2>1, <2>2
<1> HIDE DEF T
<1>6. /\ library'.rows = T
      /\ \A p \in Paths : (rows[p] = None /\ T[p] = None) \/ SameFile(rows[p], T[p])
  BY <1>2, <1>3, <1>4, MarkedIsSound
<1>7. rows' = T
  BY <1>6 DEF rows
<1>8. /\ scan'.at = scan.at /\ scan'.jobs = scan.jobs /\ scan'.dirs = scan.dirs \ dirs
      /\ scan'.todo = scan.todo /\ scan'.planned = scan.planned /\ scan'.read = scan.read
      /\ scan'.exhausted = scan.exhausted /\ scan'.complete = scan.complete
      /\ scan'.outcome = scan.outcome /\ scan'.traversalFailed = scan.traversalFailed
  BY <1>1, <1>2 DEF Scans
<1>9. scan.at = "finish" /\ scan.complete /\ disk' = disk /\ past' = past
  BY DEF MarkMissing
<1>10. scan.planned = <<>>
  BY <1>9, NothingIsRead
<1>11. dirs \subseteq scan.dirs
  OBVIOUS
<1>12. QED
  BY <1>5, <1>6, <1>7, <1>8, <1>9, <1>10, <1>11

LEMMA MarkMissingRead ==
  ASSUME ReadInv, MarkMissing
  PROVE  ReadInv'
<1>1. SoundInv'
  BY MarkMissingSound DEF ReadInv
<1>2. scan'.planned = <<>> /\ scan'.read = scan.read /\ DOMAIN scan.read = {}
  BY MarkMissingIs, NothingIsRead
<1>3. \A p \in Paths : Agrees(rows'[p], disk'[p])
  BY MarkMissingIs, SameFilesAgree
<1>4. PlansFollowTheRows' /\ WhatIsReadIsTrue'
  BY <1>2, <1>3 DEF PlansFollowTheRows, WhatIsReadIsTrue
<1>5. Stages'
  BY MarkMissingIs DEF ReadInv, Stages
<1>6. QED
  BY <1>1, <1>4, <1>5 DEF ReadInv

(* A batch is written: each row by its plan, if it has one.                *)
LEMMA WriteBatchIs ==
  ASSUME ReadInv, WriteBatch
  PROVE  /\ scan.at = "walk" /\ disk' = disk /\ past' = past
         /\ scan'.planned = <<>> /\ scan'.read = <<>>
         /\ \/ ~Inspected /\ End("cancelled")
            \/ /\ Inspected
               /\ scan'.at = IF scan.exhausted THEN "finish" ELSE "walk"
               /\ scan'.jobs = scan.jobs /\ scan'.dirs = scan.dirs /\ scan'.todo = scan.todo
               /\ scan'.exhausted = scan.exhausted /\ scan'.complete = scan.complete
               /\ scan'.outcome = scan.outcome
               /\ scan'.traversalFailed = scan.traversalFailed
         /\ \E T \in Table : \A p \in Paths :
              /\ SameButUnder(T[p], rows'[p])
              /\ (\A i \in DOMAIN scan.planned : scan.planned[i].path # p) => T[p] = rows[p]
              /\ \A i \in DOMAIN scan.planned :
                   scan.planned[i].path = p => Effect(scan.planned[i], rows[p], T[p])
<1> DEFINE again == PathsTo("retry")
<1>1. PICK retried \in [again -> UNION {Retries(disk[p]) : p \in again}] :
        /\ \A p \in again : retried[p] \in Retries(disk[p])
        /\ library' = Written(retried)
  BY DEF WriteBatch
<1>2. \A p \in PathsTo("retry") : retried[p] \in ArtworkStatus
  BY <1>1, ArtworkOutcomesAre
<1>3. /\ TypeOK /\ Sound(library) /\ PlansAreFeasible /\ PlansFollowTheRows
      /\ scan \in Scans
  BY DEF ReadInv, SoundInv, Batched, TypeOK
<1> HIDE DEF again
<1>4. PICK T, dirs : /\ T = Applied(retried).rows /\ T \in Table
                     /\ rows' = SettledCompilation(T, dirs)
  BY <1>1, <1>2, <1>3, WrittenIsSound DEF rows
<1>5. ASSUME NEW p \in Paths
      PROVE  /\ SameButUnder(T[p], rows'[p])
             /\ (\A i \in DOMAIN scan.planned : scan.planned[i].path # p) => T[p] = rows[p]
             /\ \A i \in DOMAIN scan.planned :
                  scan.planned[i].path = p => Effect(scan.planned[i], rows[p], T[p])
  <2>1. SameButUnder(T[p], rows'[p])
    BY <1>4, SettledIsSame
  <2>2. QED
    BY <1>2, <1>3, <1>4, <2>1, BatchEffect
<1>6. CASE ~Inspected
  <2>1. End("cancelled")
    BY <1>6 DEF WriteBatch
  <2>2. scan'.planned = <<>> /\ scan'.read = <<>>
    BY <2>1, EndRead
  <2>3. scan.at = "walk" /\ disk' = disk /\ past' = past
    BY DEF WriteBatch, Flushing
  <2>4. QED
    BY <1>4, <1>5, <1>6, <2>1, <2>2, <2>3
<1>7. CASE Inspected
  <2>1. PICK at : /\ at = IF scan.exhausted THEN "finish" ELSE "walk"
                  /\ scan' = [scan EXCEPT !.at = at, !.planned = <<>>, !.read = <<>>]
    BY <1>7 DEF WriteBatch
  <2>2. /\ scan'.at = at /\ scan'.planned = <<>> /\ scan'.read = <<>>
        /\ scan'.jobs = scan.jobs /\ scan'.dirs = scan.dirs /\ scan'.todo = scan.todo
        /\ scan'.exhausted = scan.exhausted /\ scan'.complete = scan.complete
        /\ scan'.outcome = scan.outcome /\ scan'.traversalFailed = scan.traversalFailed
    BY <1>3, <2>1 DEF Scans
  <2>3. scan.at = "walk" /\ disk' = disk /\ past' = past
    BY DEF WriteBatch, Flushing
  <2>4. QED
    BY <1>4, <1>5, <1>7, <2>1, <2>2, <2>3
<1>8. QED
  BY <1>6, <1>7

(* What a batch has made of a row agrees with the file.                    *)
LEMMA EffectAgrees ==
  ASSUME ReadInv, NEW i \in DOMAIN scan.planned, NEW new,
         Effect(scan.planned[i], rows[scan.planned[i].path], new)
  PROVE  Agrees(new, disk[scan.planned[i].path])
<1> DEFINE plan == scan.planned[i]
           p == plan.path
<1>1. plan \in Plans /\ p \in Paths
  BY ScanIsTyped DEF ReadInv, Plans
<1>2. disk[p] \in FileOrNone /\ Agrees(rows[p], disk[p])
  BY <1>1 DEF ReadInv, SoundInv, TypeOK, WhatIsReadIsTrue
<1>3. CASE plan.does # "inspect"
  BY <1>2, <1>3, AgreesAlike DEF Effect, SameFile, SameContent
<1>4. CASE plan.does = "inspect" /\ p \notin DOMAIN scan.read
  BY <1>2, <1>4 DEF Effect
<1>5. CASE plan.does = "inspect" /\ p \in DOMAIN scan.read
  <2>1. Stored(rows[p], plan, scan.read[p], new)
    BY <1>5 DEF Effect
  <2>2. plan.key = disk[p] => TrueOf(scan.read[p], disk[p])
    BY <1>5 DEF ReadInv, WhatIsReadIsTrue
  <2>3. QED
    BY <1>2, <2>1, <2>2, StoredAgrees
<1>6. QED
  BY <1>3, <1>4, <1>5

LEMMA WriteBatchRead ==
  ASSUME ReadInv, WriteBatch
  PROVE  ReadInv'
<1>1. SoundInv'
  BY WriteBatchSound DEF ReadInv
<1>2. PICK T \in Table : \A p \in Paths :
        /\ SameButUnder(T[p], rows'[p])
        /\ (\A i \in DOMAIN scan.planned : scan.planned[i].path # p) => T[p] = rows[p]
        /\ \A i \in DOMAIN scan.planned :
             scan.planned[i].path = p => Effect(scan.planned[i], rows[p], T[p])
  BY WriteBatchIs
<1>3. ASSUME NEW p \in Paths PROVE Agrees(rows'[p], disk'[p])
  <2>1. Agrees(T[p], disk[p])
    <3>1. CASE \E i \in DOMAIN scan.planned : scan.planned[i].path = p
      BY <1>2, <3>1, EffectAgrees
    <3>2. CASE \A i \in DOMAIN scan.planned : scan.planned[i].path # p
      BY <1>2, <3>2 DEF ReadInv, WhatIsReadIsTrue
    <3>3. QED
      BY <3>1, <3>2
  <2>2. rows'[p] = None \/ (T[p] # None /\ SameContent(T[p], rows'[p]))
    BY <1>2 DEF SameButUnder, SameContent
  <2>3. disk' = disk
    BY WriteBatchIs
  <2>4. QED
    BY <2>1, <2>2, <2>3, AgreesAlike
<1>4. PlansFollowTheRows' /\ WhatIsReadIsTrue'
  BY <1>3, WriteBatchIs, NoPlansLeft
<1>5. Stages'
  <2>1. CASE End("cancelled")
    BY <2>1, EndRead
  <2>2. CASE ~End("cancelled")
    BY <2>2, WriteBatchIs DEF ReadInv, Stages
  <2>3. QED
    BY <2>1, <2>2
<1>6. QED
  BY <1>1, <1>4, <1>5 DEF ReadInv

(* What relinking leaves a row, if it leaves it.                           *)
LEMMA RelinkedRowIs ==
  ASSUME ReadInv, NEW pairs, pairs \subseteq Arrived \X Missing,
         library' = RelinkedLibrary(pairs), NEW p \in Paths
  PROVE  /\ p \in Claimed(pairs) \/ rows[p] = None => rows'[p] = None
         /\ p \notin Claimed(pairs) /\ rows[p] # None =>
              /\ rows'[p] # None /\ SameContent(rows'[p], rows[p])
              /\ rows'[p].missing = rows[p].missing
              /\ \/ rows'[p].track = rows[p].track /\ \A pair \in pairs : pair[1] # p
                 \/ \E pair \in pairs : pair[1] = p /\ rows'[p].track = rows[pair[2]].track
<1>1. rows \in Table /\ \A pair \in pairs : pair[2] \in Paths /\ HasTrack(rows[pair[2]])
  BY DEF ReadInv, SoundInv, TypeOK, Table, Missing
<1>2. PICK T, dirs : /\ T = Relinked(rows, pairs) /\ T \in Table
                     /\ rows' = SettledCompilation(T, dirs)
  BY RelinkedIsSound DEF ReadInv, rows
<1>3. SameButUnder(T[p], rows'[p])
  BY <1>2, SettledIsSame
<1>4. /\ p \in Claimed(pairs) \/ rows[p] = None => T[p] = None
      /\ p \notin Claimed(pairs) /\ rows[p] # None =>
           /\ T[p] # None /\ SameContent(T[p], rows[p])
           /\ T[p].missing = rows[p].missing
           /\ \/ T[p].track = rows[p].track /\ \A pair \in pairs : pair[1] # p
              \/ \E pair \in pairs : pair[1] = p /\ T[p].track = rows[pair[2]].track
  BY <1>1, <1>2, RelinkedRows
<1>5. QED
  BY <1>3, <1>4 DEF SameButUnder, SameContent

LEMMA RelinkRead ==
  ASSUME ReadInv, Relink
  PROVE  ReadInv'
<1>1. SoundInv'
  BY RelinkSound DEF ReadInv
<1>2. PICK arrived \in SetToSeqs(Arrived), missing \in SetToSeqs(Missing) :
        library' = RelinkedLibrary(PairMoves(rows, arrived, missing))
  BY RelinkIs
<1>3. PairMoves(rows, arrived, missing) \subseteq Arrived \X Missing
  BY FiniteMoves, PairsAreOfMoves
<1>4. ASSUME NEW p \in Paths PROVE Agrees(rows'[p], disk'[p])
  <2>1. Agrees(rows[p], disk[p]) /\ disk' = disk
    BY RelinkIs DEF ReadInv, WhatIsReadIsTrue
  <2>2. rows'[p] = None \/ (rows[p] # None /\ SameContent(rows[p], rows'[p]))
    BY <1>2, <1>3, RelinkedRowIs DEF SameContent
  <2>3. QED
    BY <2>1, <2>2, AgreesAlike
<1>5. QED
  BY <1>1, <1>4, RelinkIs, EndRead, NoPlansLeft DEF ReadInv

LEMMA DeleteMissingRead ==
  ASSUME ReadInv, DeleteMissing
  PROVE  ReadInv'
<1>1. SoundInv'
  BY DeleteMissingSound DEF ReadInv
<1> DEFINE T == [p \in Paths |->
                   IF rows[p] # None /\ rows[p].missing THEN None ELSE rows[p]]
<1>2. /\ library' = Hold(library, Rebuilt(T)) /\ scan.at = "idle"
      /\ UNCHANGED <<disk, scan, past>>
  BY DEF DeleteMissing
<1>3. T \in Table
  BY DEF ReadInv, SoundInv, TypeOK, Table, RowOrNone
<1>4. \A p \in Paths : T[p] = None \/ T[p] = rows[p]
  OBVIOUS
<1> HIDE DEF T
<1>5. rows' = SettledCompilation(T, {DirOf[p] : p \in Paths})
  BY <1>2, <1>3, RebuiltIsSound DEF ReadInv, SoundInv, rows
<1>6. ASSUME NEW p \in Paths PROVE Agrees(rows'[p], disk'[p])
  <2>1. SameButUnder(T[p], rows'[p])
    BY <1>3, <1>5, SettledIsSame
  <2>2. Agrees(rows[p], disk[p]) /\ disk' = disk
    BY <1>2 DEF ReadInv, WhatIsReadIsTrue
  <2>3. rows'[p] = None \/ (rows[p] # None /\ SameContent(rows[p], rows'[p]))
    BY <1>4, <2>1 DEF SameButUnder, SameContent
  <2>4. QED
    BY <2>2, <2>3, AgreesAlike
<1>7. scan.planned = <<>> /\ DOMAIN scan.read = {}
  BY <1>2, NothingIsRead
<1>8. PlansFollowTheRows' /\ WhatIsReadIsTrue'
  BY <1>2, <1>6, <1>7 DEF PlansFollowTheRows, WhatIsReadIsTrue
<1>9. QED
  BY <1>1, <1>2, <1>8 DEF ReadInv, Stages

LEMMA NextRead == ReadInv /\ [Next]_vars => ReadInv'
<1> SUFFICES ASSUME ReadInv, [Next]_vars PROVE ReadInv'
  OBVIOUS
<1>1. CASE Scan
  <2>1. ASSUME NEW p \in Paths, Discover(p) \/ Unusable(p) \/ Inspect(p) PROVE ReadInv'
    BY <2>1, DiscoverRead, UnusableRead, InspectRead
  <2>2. CASE Cancelled \/ TraversalFailed \/ Fail
    BY <2>2, EndsRead
  <2>3. CASE BeginRoot \/ StopWalking
    BY <2>3, BeginRootRead, StopWalkingRead
  <2>4. CASE WriteBatch
    BY <2>4, WriteBatchRead
  <2>5. CASE MarkMissing \/ FinishRoot
    BY <2>5, MarkMissingRead, FinishRootRead
  <2>6. CASE Relink
    BY <2>6, RelinkRead
  <2>7. QED
    BY <1>1, <2>1, <2>2, <2>3, <2>4, <2>5, <2>6 DEF Scan
<1>2. CASE World
  <2>1. ASSUME NEW p \in Paths, NEW q \in Paths, Rewrite(p) \/ Move(p, q) PROVE ReadInv'
    BY <2>1, FilesAreTyped, FilesChangeRead DEF ReadInv
  <2>2. ASSUME NEW targets \in SUBSET Dirs, StartScan(targets) PROVE ReadInv'
    BY <2>2, StartScanRead
  <2>3. CASE CancelScan \/ Reap
    BY <2>3, CancelScanRead, ReapRead
  <2>4. CASE DeleteMissing
    BY <2>4, DeleteMissingRead
  <2>5. QED
    BY <1>2, <2>1, <2>2, <2>3, <2>4 DEF World
<1>3. CASE UNCHANGED vars
  <2>1. SoundInv'
    BY <1>3, NextSound DEF ReadInv
  <2>2. QED
    BY <1>3, <2>1, PlansStay DEF vars, ReadInv, Stages
<1>4. QED
  BY <1>1, <1>2, <1>3 DEF Next

THEOREM ReadAlways == Spec => []ReadInv
BY InitRead, NextRead, PTL DEF Spec
-----------------------------------------------------------------------------
(* A scan of everything while no file changes.                             *)

Undisturbed == past.whole /\ past.quiet
OnItsWay == scan.at \in {"job", "walk", "finish"}

(* The row of a file says what is there; so does the row of no file.       *)
Known(p) == rows[p] # None /\ rows[p].key = disk[p] /\ ~rows[p].missing
Done(p) ==
  /\ p \in Files => Known(p)
  /\ p \notin Files => rows[p] = None \/ rows[p].missing

IsPlanned(p) == \E i \in DOMAIN scan.planned : scan.planned[i].path = p
Walked(p) == scan.at \in {"walk", "finish"} /\ DirOf[p] \in scan.dirs

(* Each path is being walked, is still to come, or is done.                *)
Status(p) ==
  IF Walked(p)
  THEN /\ p \notin Files => rows[p] = None \/ ~rows[p].seen
       /\ p \in Files => p \in scan.todo \/ IsPlanned(p) \/ (Known(p) /\ rows[p].seen)
  ELSE (\E i \in DOMAIN scan.jobs : DirOf[p] \in scan.jobs[i]) \/ Done(p)

(* Plans are for the files there are.                                      *)
PlansAreOfFiles ==
  \A i \in DOMAIN scan.planned :
    scan.planned[i].path \in Files /\ scan.planned[i].key = disk[scan.planned[i].path]

(* Where no file is, the row is as when the scan began; where one is, it   *)
(* has arrived if and only if it had before, or has no row from before.    *)
Kept(p) ==
  IF p \notin Files
  THEN /\ rows[p] = None <=> past.rows[p] = None
       /\ rows[p] # None => /\ rows[p].tags = past.rows[p].tags
                            /\ rows[p].hash = past.rows[p].hash
                            /\ rows[p].track = past.rows[p].track
  ELSE IF past.rows[p] = None
  THEN rows[p] # None => /\ rows[p].key = disk[p]
                         /\ rows[p].pending <=> rows[p].tags # None
  ELSE rows[p] # None /\ rows[p].pending = past.rows[p].pending

Underway ==
  /\ PlansAreOfFiles /\ \A p \in Paths : Kept(p)
  /\ ~scan.traversalFailed /\ scan.complete => \A p \in Paths : Status(p)
WayInv == Undisturbed /\ OnItsWay => Underway

LEMMA KeptAlike ==
  ASSUME NEW p, disk' = disk, past'.rows = past.rows, Kept(p),
         (rows[p] = None /\ rows'[p] = None) \/ SameFile(rows[p], rows'[p])
  PROVE  Kept(p)'
<1>1. Files' = Files
  BY DEF Files
<1>2. QED
  BY <1>1 DEF Kept, SameFile

(* A step that changes neither rows, plans, files nor what is to be done,  *)
(* but perhaps that less is still to be found.                             *)
LEMMA WayStays ==
  ASSUME WayInv, rows' = rows, disk' = disk, past' = past,
         scan'.at = scan.at, scan'.jobs = scan.jobs, scan'.dirs = scan.dirs,
         scan'.planned = scan.planned, scan'.todo = scan.todo,
         scan'.traversalFailed = scan.traversalFailed, scan'.complete => scan.complete
  PROVE  WayInv'
<1>1. SUFFICES ASSUME Undisturbed', OnItsWay' PROVE Underway'
  BY DEF WayInv
<1>2. Files' = Files
  BY DEF Files
<1>3. Undisturbed /\ OnItsWay
  BY <1>1 DEF Undisturbed, OnItsWay
<1>4. PlansAreOfFiles'
  BY <1>2, <1>3 DEF WayInv, Underway, PlansAreOfFiles
<1>5. \A p \in Paths : Kept(p)'
  BY <1>2, <1>3 DEF WayInv, Underway, Kept
<1>6. ASSUME ~scan'.traversalFailed, scan'.complete PROVE \A p \in Paths : Status(p)'
  <2>1. \A p \in Paths : Status(p)
    BY <1>3, <1>6 DEF WayInv, Underway
  <2>2. QED
    BY <1>2, <2>1 DEF Status, Walked, IsPlanned, Known, Done
<1>7. QED
  BY <1>4, <1>5, <1>6 DEF Underway

LEMMA StartScanWay ==
  ASSUME ReadInv, NEW targets, StartScan(targets)
  PROVE  WayInv'
<1>1. SUFFICES ASSUME Undisturbed', OnItsWay' PROVE Underway'
  BY DEF WayInv
<1>2. rows' = rows /\ past'.rows = rows /\ targets = Dirs /\ scan'.at = "job"
      /\ scan'.planned = <<>>
  <2>1. past' = [rows |-> rows, steady |-> {}, quiet |-> TRUE, whole |-> targets = Dirs]
    BY StartScanIs
  <2>2. past'.rows = rows /\ (past'.whole <=> targets = Dirs)
    BY <2>1
  <2>3. QED
    BY <1>1, <2>2, StartScanIs DEF rows, Undisturbed
<1>3. PlansAreOfFiles' /\ \A p \in Paths : Kept(p)'
  BY <1>2 DEF PlansAreOfFiles, Kept
<1>4. ASSUME NEW p \in Paths PROVE Status(p)'
  <2>1. DirOf[p] \in Dirs
    BY RowsAssumption DEF Dirs, Range
  <2>2. \E i \in DOMAIN scan'.jobs : DirOf[p] \in scan'.jobs[i]
    BY <1>2, <2>1, StartScanIs
  <2>3. QED
    BY <1>2, <2>2 DEF Status, Walked
<1>5. QED
  BY <1>3, <1>4 DEF Underway

LEMMA BeginRootWay ==
  ASSUME ReadInv, WayInv, BeginRoot
  PROVE  WayInv'
<1>1. SUFFICES ASSUME Undisturbed', OnItsWay' PROVE Underway'
  BY DEF WayInv
<1>2. /\ disk' = disk /\ past'.rows = past.rows /\ scan'.planned = <<>>
      /\ scan.at = "job" /\ scan'.at = "walk" /\ scan.jobs # <<>>
      /\ scan'.dirs = Head(scan.jobs) /\ scan'.jobs = Tail(scan.jobs)
      /\ scan'.todo = In(scan'.dirs) /\ scan'.traversalFailed = scan.traversalFailed
      /\ \A p \in Paths : (rows[p] = None /\ rows'[p] = None) \/ SameFile(rows[p], rows'[p])
  BY BeginRootIs
<1>3. Files' = Files
  BY <1>2 DEF Files
<1>4. Undisturbed /\ OnItsWay /\ scan.complete
  BY <1>1, <1>2, BeginRootIs DEF Undisturbed, OnItsWay, ReadInv, Stages
<1>5. PlansAreOfFiles' /\ \A p \in Paths : Kept(p)'
  <2>1. \A p \in Paths : Kept(p)
    BY <1>4 DEF WayInv, Underway
  <2>2. QED
    BY <1>2, <2>1, KeptAlike DEF PlansAreOfFiles
<1>6. ASSUME ~scan'.traversalFailed, NEW p \in Paths PROVE Status(p)'
  <2>1. (\E i \in DOMAIN scan.jobs : DirOf[p] \in scan.jobs[i]) \/ Done(p)
    BY <1>2, <1>4, <1>6 DEF WayInv, Underway, Status, Walked
  <2>2. PICK r \in Roots :
          /\ scan'.dirs \subseteq DirsOf(r)
          /\ \A x \in Paths : IF x \in In(DirsOf(r)) /\ rows[x] # None
                              THEN ~rows'[x].seen /\ rows'[x].missing = rows[x].missing
                              ELSE rows'[x] = rows[x]
    BY BeginRootIs
  <2>3. CASE DirOf[p] \in scan'.dirs
    <3>1. p \in In(DirsOf(r)) /\ p \in scan'.todo
      BY <1>2, <2>2, <2>3 DEF In
    <3>2. rows'[p] = None \/ ~rows'[p].seen
      BY <2>2, <3>1
    <3>3. QED
      BY <1>2, <2>3, <3>1, <3>2 DEF Status, Walked
  <2>4. CASE DirOf[p] \notin scan'.dirs
    <3>1. CASE Done(p)
      <4>1. Done(p)'
        BY <1>2, <1>3, <2>2, <3>1 DEF Done, Known, SameFile
      <4>2. QED
        BY <2>4, <4>1 DEF Status, Walked
    <3>2. CASE \E i \in DOMAIN scan.jobs : DirOf[p] \in scan.jobs[i]
      <4>1. PICK s \in Seq(SUBSET Dirs) : s = scan.jobs
        BY ScanIsTyped DEF ReadInv, Scans
      <4>2. PICK i \in DOMAIN s : DirOf[p] \in s[i]
        BY <3>2, <4>1
      <4>3. s # <<>> /\ i # 1
        BY <1>2, <2>4, <4>1, <4>2
      <4>4. i - 1 \in DOMAIN Tail(s) /\ Tail(s)[i - 1] = s[i]
        BY <4>3
      <4>5. \E j \in DOMAIN scan'.jobs : DirOf[p] \in scan'.jobs[j]
        BY <1>2, <4>1, <4>2, <4>4
      <4>6. QED
        BY <2>4, <4>5 DEF Status, Walked
    <3>3. QED
      BY <2>1, <3>1, <3>2
  <2>5. QED
    BY <2>3, <2>4
<1>7. QED
  BY <1>5, <1>6 DEF Underway

LEMMA DiscoverWay ==
  ASSUME ReadInv, WayInv, NEW p \in Paths, Discover(p)
  PROVE  WayInv'
<1>1. SUFFICES ASSUME Undisturbed', OnItsWay' PROVE Underway'
  BY DEF WayInv
<1>2. /\ scan.at = "walk" /\ scan'.at = "walk" /\ scan'.jobs = scan.jobs
      /\ scan'.dirs = scan.dirs /\ scan'.todo = scan.todo \ {p}
      /\ scan'.complete = scan.complete /\ scan'.traversalFailed = scan.traversalFailed
      /\ disk' = disk /\ rows' = rows /\ past' = past
      /\ p \notin Files => scan'.planned = scan.planned
  BY DiscoverIs DEF ReadInv, rows
<1>3. Files' = Files
  BY <1>2 DEF Files
<1>4. Undisturbed /\ OnItsWay
  BY <1>1, <1>2 DEF Undisturbed, OnItsWay
<1>5. PICK n : p \in Files =>
        /\ DOMAIN scan'.planned = (DOMAIN scan.planned) \cup {n} /\ n \notin DOMAIN scan.planned
        /\ scan'.planned[n] = Plan(p)
        /\ \A i \in DOMAIN scan.planned : scan'.planned[i] = scan.planned[i]
  BY DiscoverIs DEF ReadInv
<1>6. PlansAreOfFiles'
  <2>1. PlansAreOfFiles
    BY <1>4 DEF WayInv, Underway
  <2>2. CASE p \in Files
    BY <1>2, <1>3, <1>5, <2>1, <2>2, PlanIs DEF PlansAreOfFiles
  <2>3. CASE p \notin Files
    BY <1>2, <1>3, <2>1, <2>3 DEF PlansAreOfFiles
  <2>4. QED
    BY <2>2, <2>3
<1>7. \A x \in Paths : Kept(x)'
  BY <1>2, <1>3, <1>4 DEF WayInv, Underway, Kept
<1>8. ASSUME ~scan'.traversalFailed, scan'.complete, NEW x \in Paths PROVE Status(x)'
  <2>1. Status(x)
    BY <1>2, <1>4, <1>8 DEF WayInv, Underway
  <2>2. Walked(x)' <=> Walked(x)
    BY <1>2 DEF Walked
  <2>3. IsPlanned(x) => IsPlanned(x)'
    BY <1>2, <1>5 DEF IsPlanned
  <2>4. x = p /\ p \in Files => IsPlanned(x)'
    BY <1>5, PlanIs DEF IsPlanned
  <2>5. (Known(x)' <=> Known(x)) /\ (Done(x)' <=> Done(x))
    BY <1>2, <1>3 DEF Known, Done
  <2>6. QED
    BY <1>2, <1>3, <2>1, <2>2, <2>3, <2>4, <2>5 DEF Status
<1>9. QED
  BY <1>6, <1>7, <1>8 DEF Underway

(* A plan that is carried out makes the row that of the file.              *)
LEMMA CarriedOut ==
  ASSUME ReadInv, Inspected, NEW i \in DOMAIN scan.planned, NEW new \in RowOrNone,
         scan.planned[i].key = disk[scan.planned[i].path],
         Effect(scan.planned[i], rows[scan.planned[i].path], new)
  PROVE  LET p == scan.planned[i].path
             old == rows[p]
         IN /\ new # None /\ new.key = disk[p] /\ new.seen /\ ~new.missing
            /\ old = None => (new.pending <=> new.tags # None)
            /\ old # None => new.pending = old.pending
            /\ old # None /\ old.key = disk[p] => new.tags = old.tags
<1> DEFINE plan == scan.planned[i]
           p == plan.path
           old == rows[p]
<1>1. plan.does # "inspect" <=> old # None /\ old.key = plan.key
  BY DEF ReadInv, PlansFollowTheRows
<1>2. CASE plan.does # "inspect"
  BY <1>1, <1>2 DEF Effect, SameFile
<1>3. CASE plan.does = "inspect"
  <2>1. p \in ToInspect
    BY <1>3 DEF ToInspect, PathsTo
  <2>2. p \in DOMAIN scan.read
    BY <2>1 DEF Inspected
  <2>3. Stored(old, plan, scan.read[p], new)
    BY <1>3, <2>2 DEF Effect
  <2>4. /\ new # None /\ new.key = disk[p] /\ new.seen /\ ~new.missing
        /\ old = None => (new.pending <=> new.tags # None)
        /\ old # None => (new.pending <=> old.pending)
    BY <2>3 DEF Stored, HasTrack
  <2>5. old # None => new.pending \in BOOLEAN /\ old.pending \in BOOLEAN
    <3>1. p \in Paths
      BY ScanIsTyped DEF ReadInv, Plans
    <3>2. old \in RowOrNone
      BY <3>1 DEF ReadInv, SoundInv, TypeOK
    <3>3. QED
      BY <2>4, <3>2 DEF RowOrNone, AnyRow, Row
  <2>6. QED
    BY <1>1, <1>3, <2>4, <2>5
<1>4. QED
  BY <1>2, <1>3

LEMMA WriteBatchWay ==
  ASSUME ReadInv, WayInv, WriteBatch
  PROVE  WayInv'
<1>1. SUFFICES ASSUME Undisturbed', OnItsWay' PROVE Underway'
  BY DEF WayInv
<1>2. ~End("cancelled")
  <2>1. End("cancelled") => scan'.at = "over"
    BY EndRead
  <2>2. QED
    BY <1>1, <2>1 DEF OnItsWay
<1>3. /\ scan.at = "walk" /\ disk' = disk /\ past' = past /\ scan'.planned = <<>> /\ Inspected
      /\ scan'.at \in {"walk", "finish"} /\ scan'.jobs = scan.jobs /\ scan'.dirs = scan.dirs
      /\ scan'.todo = scan.todo /\ scan'.complete = scan.complete
      /\ scan'.traversalFailed = scan.traversalFailed
  BY <1>2, WriteBatchIs
<1>4. Files' = Files
  BY <1>3 DEF Files
<1>5. Undisturbed /\ OnItsWay
  BY <1>1, <1>3 DEF Undisturbed, OnItsWay
<1>6. PICK T \in Table : \A p \in Paths :
        /\ SameButUnder(T[p], rows'[p])
        /\ (\A i \in DOMAIN scan.planned : scan.planned[i].path # p) => T[p] = rows[p]
        /\ \A i \in DOMAIN scan.planned :
             scan.planned[i].path = p => Effect(scan.planned[i], rows[p], T[p])
  BY WriteBatchIs
<1>7. ASSUME NEW p \in Paths, IsPlanned(p)
      PROVE  /\ p \in Files /\ rows'[p] # None /\ rows'[p].key = disk[p]
             /\ rows'[p].seen /\ ~rows'[p].missing
             /\ rows[p] = None => (rows'[p].pending <=> rows'[p].tags # None)
             /\ rows[p] # None => rows'[p].pending = rows[p].pending
             /\ rows[p] # None /\ rows[p].key = disk[p] => rows'[p].tags = rows[p].tags
  <2>1. PICK i \in DOMAIN scan.planned : scan.planned[i].path = p
    BY <1>7 DEF IsPlanned
  <2>2. p \in Files /\ scan.planned[i].key = disk[p]
    BY <1>5, <2>1 DEF WayInv, Underway, PlansAreOfFiles
  <2>3. Effect(scan.planned[i], rows[p], T[p])
    BY <1>6, <2>1
  <2>4. /\ T[p] # None /\ T[p].key = disk[p] /\ T[p].seen /\ ~T[p].missing
        /\ rows[p] = None => (T[p].pending <=> T[p].tags # None)
        /\ rows[p] # None => T[p].pending = rows[p].pending
        /\ rows[p] # None /\ rows[p].key = disk[p] => T[p].tags = rows[p].tags
    <3>1. T[p] \in RowOrNone
      BY DEF Table
    <3>2. QED
      BY <1>3, <2>1, <2>2, <2>3, <3>1, CarriedOut
  <2>5. SameButUnder(T[p], rows'[p])
    BY <1>6
  <2>6. QED
    BY <2>2, <2>4, <2>5 DEF SameButUnder
<1>8. ASSUME NEW p \in Paths, ~IsPlanned(p) PROVE SameButUnder(rows[p], rows'[p])
  BY <1>6, <1>8 DEF IsPlanned
<1>9. PlansAreOfFiles'
  BY <1>3 DEF PlansAreOfFiles
<1>10. ASSUME NEW p \in Paths PROVE Kept(p)'
  <2>1. Kept(p)
    BY <1>5 DEF WayInv, Underway
  <2>2. CASE IsPlanned(p)
    <3>1. CASE past.rows[p] = None
      BY <1>3, <1>4, <1>7, <2>1, <2>2, <3>1 DEF Kept
    <3>2. CASE past.rows[p] # None
      BY <1>3, <1>4, <1>7, <2>1, <2>2, <3>2 DEF Kept
    <3>3. QED
      BY <3>1, <3>2
  <2>3. CASE ~IsPlanned(p)
    <3>1. SameButUnder(rows[p], rows'[p])
      BY <1>8, <2>3
    <3>2. QED
      BY <1>3, <1>4, <2>1, <3>1 DEF Kept, SameButUnder
  <2>4. QED
    BY <2>2, <2>3
<1>11. ASSUME ~scan'.traversalFailed, scan'.complete, NEW p \in Paths PROVE Status(p)'
  <2>1. Status(p)
    BY <1>3, <1>5, <1>11 DEF WayInv, Underway
  <2>2. Walked(p)' <=> Walked(p)
    BY <1>3 DEF Walked
  <2>3. CASE IsPlanned(p)
    <3>1. p \in Files' /\ Known(p)' /\ rows'[p].seen
      BY <1>3, <1>4, <1>7, <2>3 DEF Known
    <3>2. QED
      BY <3>1 DEF Status, Done
  <2>4. CASE ~IsPlanned(p)
    <3>1. SameButUnder(rows[p], rows'[p])
      BY <1>8, <2>4
    <3>2. /\ Known(p) => Known(p)' /\ (Known(p) /\ rows[p].seen => rows'[p].seen)
          /\ Done(p) => Done(p)'
          /\ (rows[p] = None \/ ~rows[p].seen) => (rows'[p] = None \/ ~rows'[p].seen)
      BY <1>3, <1>4, <3>1 DEF Known, Done, SameButUnder
    <3>3. QED
      BY <1>3, <1>4, <2>1, <2>2, <2>4, <3>2 DEF Status
  <2>5. QED
    BY <2>3, <2>4
<1>12. QED
  BY <1>9, <1>10, <1>11 DEF Underway

LEMMA MarkMissingWay ==
  ASSUME ReadInv, WayInv, MarkMissing
  PROVE  WayInv'
<1>1. SUFFICES ASSUME Undisturbed', OnItsWay' PROVE Underway'
  BY DEF WayInv
<1>2. /\ scan.at = "finish" /\ scan'.at = "finish" /\ scan.complete
      /\ scan'.jobs = scan.jobs /\ scan.planned = <<>> /\ scan'.planned = <<>>
      /\ scan'.traversalFailed = scan.traversalFailed /\ disk' = disk /\ past' = past
      /\ \A p \in Paths : (rows[p] = None /\ rows'[p] = None) \/ SameFile(rows[p], rows'[p])
  BY MarkMissingIs
<1>3. PICK dirs : /\ dirs \subseteq scan.dirs /\ scan'.dirs = scan.dirs \ dirs
                  /\ \A p \in Paths : IF p \in Vanished(dirs)
                                      THEN rows'[p].missing /\ rows'[p].seen = rows[p].seen
                                      ELSE rows'[p] = rows[p]
  BY MarkMissingIs
<1>4. Files' = Files /\ Undisturbed /\ OnItsWay /\ scan.todo = {}
  BY <1>1, <1>2 DEF Files, Undisturbed, OnItsWay, ReadInv, Stages
<1>5. PlansAreOfFiles' /\ \A p \in Paths : Kept(p)'
  <2>1. \A p \in Paths : Kept(p)
    BY <1>4 DEF WayInv, Underway
  <2>2. QED
    BY <1>2, <2>1, KeptAlike DEF PlansAreOfFiles
<1>6. ASSUME ~scan'.traversalFailed, NEW p \in Paths PROVE Status(p)'
  <2>1. Status(p)
    BY <1>2, <1>4, <1>6 DEF WayInv, Underway
  <2>2. ~IsPlanned(p) /\ p \notin scan.todo
    BY <1>2, <1>4 DEF IsPlanned
  <2>3. /\ (rows[p] = None /\ rows'[p] = None) \/ SameFile(rows[p], rows'[p])
        /\ p \in Vanished(dirs) => rows'[p].missing /\ rows'[p].seen = rows[p].seen
        /\ p \notin Vanished(dirs) => rows'[p] = rows[p]
        /\ p \in Vanished(dirs) =>
             DirOf[p] \in dirs /\ rows[p] # None /\ ~rows[p].seen /\ ~rows[p].missing
        /\ DirOf[p] \in dirs /\ p \notin Vanished(dirs) =>
             rows[p] = None \/ rows[p].seen \/ rows[p].missing
    BY <1>2, <1>3 DEF Vanished, In
  <2>4. CASE ~Walked(p)
    <3>1. p \notin Vanished(dirs) /\ ~Walked(p)'
      BY <1>2, <1>3, <2>3, <2>4 DEF Walked
    <3>2. Done(p) => Done(p)'
      BY <1>2, <1>4, <2>3, <3>1 DEF Done, Known
    <3>3. QED
      BY <1>2, <2>1, <2>4, <3>1, <3>2 DEF Status
  <2>5. CASE Walked(p) /\ DirOf[p] \in dirs
    <3>1. ~Walked(p)'
      BY <1>3, <2>5 DEF Walked
    <3>2. Done(p)'
      BY <1>2, <1>4, <2>1, <2>2, <2>3, <2>5 DEF Status, Done, Known
    <3>3. QED
      BY <3>1, <3>2 DEF Status
  <2>6. CASE Walked(p) /\ DirOf[p] \notin dirs
    <3>1. Walked(p)' /\ rows'[p] = rows[p]
      BY <1>2, <1>3, <2>3, <2>6 DEF Walked
    <3>2. QED
      BY <1>2, <1>4, <2>1, <2>2, <2>6, <3>1 DEF Status, Known
  <2>7. QED
    BY <2>4, <2>5, <2>6
<1>7. QED
  BY <1>5, <1>6 DEF Underway

LEMMA FinishRootWay ==
  ASSUME ReadInv, WayInv, FinishRoot
  PROVE  WayInv'
<1>1. SUFFICES ASSUME Undisturbed', OnItsWay' PROVE Underway'
  BY DEF WayInv
<1>2. /\ scan'.at = "job" /\ scan'.jobs = scan.jobs /\ scan'.planned = <<>>
      /\ scan'.traversalFailed = (scan.traversalFailed \/ ~scan.complete)
      /\ disk' = disk /\ rows' = rows /\ past' = past
  BY FinishRootIs DEF rows
<1>3. scan.at = "finish" /\ (scan.dirs = {} \/ ~scan.complete)
  BY DEF FinishRoot
<1>4. Files' = Files /\ Undisturbed /\ OnItsWay
  BY <1>1, <1>2, <1>3 DEF Files, Undisturbed, OnItsWay
<1>5. PlansAreOfFiles' /\ \A p \in Paths : Kept(p)'
  BY <1>2, <1>4 DEF WayInv, Underway, PlansAreOfFiles, Kept
<1>6. ASSUME ~scan'.traversalFailed, NEW p \in Paths PROVE Status(p)'
  <2>1. ~scan.traversalFailed /\ scan.complete /\ scan.dirs = {}
    BY <1>2, <1>3, <1>6
  <2>2. Status(p) /\ ~Walked(p) /\ ~Walked(p)'
    BY <1>2, <1>4, <2>1 DEF WayInv, Underway, Walked
  <2>3. Done(p) => Done(p)'
    BY <1>2, <1>4 DEF Done, Known
  <2>4. QED
    BY <1>2, <2>2, <2>3 DEF Status
<1>7. QED
  BY <1>5, <1>6 DEF Underway

(* The other steps: nothing is disturbed, or the scan is off its way.      *)
LEMMA OffItsWay ==
  ASSUME ~past'.quiet \/ scan'.at \in {"idle", "over"}
  PROVE  WayInv'
BY DEF WayInv, Undisturbed, OnItsWay

LEMMA NextWay == ReadInv /\ WayInv /\ [Next]_vars => WayInv'
<1> SUFFICES ASSUME ReadInv, WayInv, [Next]_vars PROVE WayInv'
  OBVIOUS
<1>1. CASE Scan
  <2>1. ASSUME NEW p \in Paths, Discover(p) \/ Unusable(p) \/ Inspect(p) PROVE WayInv'
    <3>1. CASE Inspect(p)
      BY <3>1, InspectIs, WayStays DEF ReadInv, rows
    <3>2. QED
      BY <2>1, <3>1, DiscoverWay, UnusableRead, OffItsWay
  <2>2. CASE Cancelled \/ TraversalFailed \/ Fail
    BY <2>2, EndsRead, OffItsWay
  <2>3. CASE BeginRoot
    BY <2>3, BeginRootWay
  <2>4. CASE StopWalking
    <3>1. ~scan.exhausted /\ scan.complete
      BY <2>4 DEF StopWalking, Walking, ReadInv, Stages
    <3>2. QED
      BY <2>4, <3>1, StopWalkingIs, WayStays DEF ReadInv, rows
  <2>5. CASE WriteBatch
    BY <2>5, WriteBatchWay
  <2>6. CASE MarkMissing \/ FinishRoot
    BY <2>6, MarkMissingWay, FinishRootWay
  <2>7. CASE Relink
    BY <2>7, RelinkIs, EndRead, OffItsWay
  <2>8. QED
    BY <1>1, <2>1, <2>2, <2>3, <2>4, <2>5, <2>6, <2>7 DEF Scan
<1>2. CASE World
  <2>1. ASSUME NEW p \in Paths, NEW q \in Paths, Rewrite(p) \/ Move(p, q) PROVE WayInv'
    BY <2>1, FilesAreTyped, FilesChangeRead, OffItsWay DEF ReadInv
  <2>2. ASSUME NEW targets \in SUBSET Dirs, StartScan(targets) PROVE WayInv'
    BY <2>2, StartScanWay
  <2>3. CASE CancelScan
    BY <2>3, WayStays DEF CancelScan, rows
  <2>4. CASE Reap
    BY <2>4, IdleFields, OffItsWay DEF Reap
  <2>5. CASE DeleteMissing
    BY <2>5, OffItsWay DEF DeleteMissing
  <2>6. QED
    BY <1>2, <2>1, <2>2, <2>3, <2>4, <2>5 DEF World
<1>3. CASE UNCHANGED vars
  BY <1>3, WayStays DEF vars, rows
<1>4. QED
  BY <1>1, <1>2, <1>3 DEF Next
-----------------------------------------------------------------------------
(* The end of such a scan.                                                 *)

(* Once every folder is done, so is every path.                            *)
LEMMA AllIsDone ==
  ASSUME ReadInv, WayInv, Relink, Undisturbed
  PROVE  \A p \in Paths : Done(p) /\ Kept(p)
<1>1. scan.at = "job" /\ scan.jobs = <<>> /\ ~scan.traversalFailed
  BY RelinkIs
<1>2. scan.complete /\ OnItsWay
  BY <1>1 DEF ReadInv, Stages, OnItsWay
<1>3. QED
  BY <1>1, <1>2 DEF WayInv, Underway, Status, Walked

LEMMA RelinkLeavesTheTruth ==
  ASSUME ReadInv, WayInv, Relink
  PROVE  CompletedScanIsTrue'
<1>1. SUFFICES ASSUME past'.whole, past'.quiet, NEW p \in Paths
               PROVE  /\ p \in Files' <=> rows'[p] # None /\ ~rows'[p].missing
                      /\ p \in Files' =>
                           rows'[p].key = disk'[p] /\ TrueOf(rows'[p], disk'[p])
  BY DEF CompletedScanIsTrue
<1>2. disk' = disk /\ Files' = Files /\ Undisturbed
  BY <1>1, RelinkIs DEF Files, Undisturbed
<1>3. Done(p)
  BY <1>2, AllIsDone
<1>4. PICK arrived \in SetToSeqs(Arrived), missing \in SetToSeqs(Missing) :
        library' = RelinkedLibrary(PairMoves(rows, arrived, missing))
  BY RelinkIs
<1>5. PICK pairs : /\ pairs \subseteq Arrived \X Missing /\ library' = RelinkedLibrary(pairs)
  BY <1>4, FiniteMoves, PairsAreOfMoves
<1>6. p \in Claimed(pairs) => rows[p].missing
  BY <1>5 DEF Claimed, Missing
<1>7. /\ p \in Claimed(pairs) \/ rows[p] = None => rows'[p] = None
      /\ p \notin Claimed(pairs) /\ rows[p] # None =>
           rows'[p] # None /\ rows'[p].key = rows[p].key /\ rows'[p].missing = rows[p].missing
  BY <1>5, RelinkedRowIs DEF SameContent
<1>8. Agrees(rows'[p], disk'[p])
  BY RelinkRead DEF ReadInv, WhatIsReadIsTrue
<1>9. CASE p \in Files
  <2>1. rows'[p] # None /\ rows'[p].key = disk[p] /\ ~rows'[p].missing
    BY <1>3, <1>6, <1>7, <1>9 DEF Done, Known
  <2>2. QED
    BY <1>2, <1>8, <1>9, <2>1 DEF Agrees
<1>10. CASE p \notin Files
  BY <1>2, <1>3, <1>7, <1>10 DEF Done
<1>11. QED
  BY <1>9, <1>10

(* An arrival and a missing track that have the hash of each other and of  *)
(* no others are paired, with each other.                                  *)
LEMMA PairedAlone ==
  ASSUME NEW table, NEW A, NEW M, IsFiniteSet(A), IsFiniteSet(M),
         NEW arrived \in SetToSeqs(A), NEW missing \in SetToSeqs(M),
         NEW q \in A, NEW p \in M, SameHash(table, q, p),
         \A x \in A : SameHash(table, x, p) => x = q,
         \A y \in M : SameHash(table, q, y) => y = p
  PROVE  LET pairs == PairMoves(table, arrived, missing)
         IN <<q, p>> \in pairs /\ \A pair \in pairs : pair[1] = q => pair[2] = p
<1> DEFINE n == Len(arrived)
           m == Len(missing)
           hashed(k) == PairingByHash(table, arrived, missing)[k]
<1>1. /\ n \in Nat /\ \A i \in 1..n : arrived[i] \in A
      /\ \A i, j \in 1..n : arrived[i] = arrived[j] => i = j
      /\ m \in Nat /\ DOMAIN missing = 1..m /\ \A j \in 1..m : missing[j] \in M
  BY InSomeOrder
<1>2. PICK k \in 1..n, l \in 1..m : arrived[k] = q /\ missing[l] = p
  BY InSomeOrder
<1>3. ASSUME NEW i \in 0..n, NEW pair \in hashed(i)
      PROVE  /\ \E a \in 1..i : a \in 1..n /\ pair[1] = arrived[a]
             /\ pair[1] = q <=> pair[2] = p
  <2>1. PICK a \in 1..i, j \in 1..m :
          pair = <<arrived[a], missing[j]>> /\ SameHash(table, arrived[a], missing[j])
    BY <1>1, <1>3, PairedByHash
  <2>2. a \in 1..n /\ arrived[a] \in A /\ missing[j] \in M
    BY <1>1, <2>1
  <2>3. QED
    BY <2>1, <2>2
<1>4. hashed(k) = hashed(k - 1) \cup PairByHash(table, hashed(k - 1), arrived[k], missing)
  BY <1>1, ByHashSteps
<1> HIDE DEF n, m, hashed
<1>5. p \notin Claimed(hashed(k - 1))
  <2>1. SUFFICES ASSUME NEW pair \in hashed(k - 1), pair[2] = p PROVE FALSE
    BY DEF Claimed
  <2>2. k - 1 \in 0..n
    BY <1>1
  <2>3. PICK a \in 1..(k - 1) : a \in 1..n /\ pair[1] = arrived[a]
    BY <1>3, <2>2
  <2>4. pair[1] = q
    BY <1>3, <2>1, <2>2
  <2>5. a = k
    BY <1>1, <1>2, <2>3, <2>4
  <2>6. QED
    BY <1>1, <2>3, <2>5
<1>6. <<q, p>> \in hashed(k)
  <2> DEFINE same == {i \in Free(hashed(k - 1), missing) : SameHash(table, q, missing[i])}
             alike == {i \in same : SameTags(table, q, missing[i])}
             best == IF alike # {} THEN alike ELSE same
  <2>1. l \in same
    BY <1>1, <1>2, <1>5 DEF Free
  <2>2. best # {} /\ best \subseteq same /\ best \subseteq Nat
    BY <1>1, <2>1 DEF Free
  <2>3. Min(best) \in same
    BY <2>2, MinIsThere
  <2>4. missing[Min(best)] = p
    BY <1>1, <2>3 DEF Free
  <2>5. PairByHash(table, hashed(k - 1), q, missing) = {<<q, missing[Min(best)]>>}
    BY <2>1 DEF PairByHash
  <2>6. QED
    BY <1>2, <1>4, <2>4, <2>5
<1>7. \A i \in k..n : <<q, p>> \in hashed(i)
  <2> DEFINE S == {i \in k..n : <<q, p>> \notin hashed(i)}
  <2>1. SUFFICES ASSUME S # {} PROVE FALSE
    OBVIOUS
  <2>2. PICK i \in S : \A j \in S : i <= j
    <3>1. S \subseteq Nat
      BY <1>1
    <3>2. QED
      BY <2>1, <3>1, Least
  <2>3. i # k /\ i - 1 \in k..n /\ i - 1 \notin S /\ i \in 1..n
    BY <1>1, <1>6, <2>2
  <2>4. hashed(i) = hashed(i - 1) \cup PairByHash(table, hashed(i - 1), arrived[i], missing)
    BY <1>1, <2>3, ByHashSteps DEF n, hashed
  <2>5. QED
    BY <2>2, <2>3, <2>4
<1>8. <<q, p>> \in hashed(n) /\ n \in 0..n
  BY <1>1, <1>2, <1>7
<1>9. ASSUME NEW pair \in PairMoves(table, arrived, missing), pair[1] = q PROVE pair[2] = p
  <2>1. CASE pair \in hashed(n)
    BY <1>3, <1>8, <1>9, <2>1
  <2>2. CASE pair \notin hashed(n)
    <3>1. pair \in PairingByTags(table, hashed(n), arrived, missing)[n]
      BY DEF PairMoves, hashed, n
    <3>2. PICK i \in 1..n, j \in 1..m :
            /\ pair = <<arrived[i], missing[j]>> /\ missing[j] \notin Claimed(hashed(n))
            /\ \A x \in hashed(n) : x[1] # arrived[i]
      <4>1. PICK byHash : byHash = hashed(n)
        OBVIOUS
      <4>2. Len(arrived) = n
        BY DEF n
      <4>3. \A x \in PairingByTags(table, byHash, arrived, missing)[n] \ byHash :
              \E i \in 1..n, j \in 1..m :
                /\ x = <<arrived[i], missing[j]>> /\ missing[j] \notin Claimed(byHash)
                /\ \A y \in byHash : y[1] # arrived[i]
        BY <1>1, <1>8, <4>2, PairedByTags
      <4>4. QED
        BY <2>2, <3>1, <4>1, <4>3
    <3>3. QED
      BY <1>8, <1>9, <3>2
  <2>3. QED
    BY <2>1, <2>2
<1>10. <<q, p>> \in PairMoves(table, arrived, missing)
  <2>1. hashed(n) \subseteq PairingByTags(table, hashed(n), arrived, missing)[n]
    BY <1>1, <1>8, PairedByTags DEF n
  <2>2. QED
    BY <1>8, <2>1 DEF PairMoves, hashed, n
<1>11. QED
  BY <1>9, <1>10

(* The row a moved file had is found missing, and the one it has now is of *)
(* a file that arrived.                                                    *)
LEMMA MovedIsPaired ==
  ASSUME ReadInv, WayInv, Relink, Undisturbed, NEW p \in Paths, NEW q \in Paths,
         Moved(p, q), past.rows[q] = None \/ past.rows[q].pending,
         rows[q].hash # None
  PROVE  /\ p \in Missing /\ q \in Arrived /\ SameHash(rows, q, p)
         /\ rows[p].track = past.rows[p].track
         /\ \A x \in Arrived : SameHash(rows, x, p) => x = q
         /\ \A y \in Missing : SameHash(rows, q, y) => y = p
<1> DEFINE c == disk[q]
<1>1. /\ HasTrack(past.rows[p]) /\ past.rows[p].hash = c /\ disk[p] = None
      /\ \A x \in Paths \ {p, q} :
           disk[x] # c /\ (past.rows[x] # None => past.rows[x].hash # c)
  BY DEF Moved
<1>2. c \in Contents /\ c # None
  BY RowsAssumption DEF Moved
<1>3. p \notin Files /\ q \in Files
  BY <1>1, <1>2 DEF Files
<1>4. \A x \in Paths : Done(x) /\ Kept(x) /\ Agrees(rows[x], disk[x])
  BY AllIsDone DEF ReadInv, WhatIsReadIsTrue
<1>5. /\ HasTrack(rows[p]) /\ rows[p].missing /\ rows[p].hash = c
      /\ rows[p].track = past.rows[p].track
  BY <1>1, <1>3, <1>4 DEF Done, Kept, HasTrack
<1>6. /\ HasTrack(rows[q]) /\ ~rows[q].missing /\ rows[q].hash = c /\ rows[q].pending
  <2>1. rows[q] # None /\ rows[q].key = c /\ ~rows[q].missing
    BY <1>3, <1>4 DEF Done, Known
  <2>2. HasTrack(rows[q]) /\ rows[q].hash = c
    BY <1>4, <2>1 DEF Agrees, TrueOf, HasTrack
  <2>3. rows[q].pending
    BY <1>3, <1>4, <2>1, <2>2 DEF Kept, HasTrack
  <2>4. QED
    BY <2>1, <2>2, <2>3
<1>7. p \in Missing /\ q \in Arrived /\ SameHash(rows, q, p)
  BY <1>2, <1>5, <1>6 DEF Missing, Arrived, SameHash
<1>8. ASSUME NEW x \in Arrived, SameHash(rows, x, p) PROVE x = q
  <2>1. x \in Paths /\ rows[x] # None /\ ~rows[x].missing /\ rows[x].hash = c
    BY <1>5, <1>8 DEF Arrived, SameHash, HasTrack
  <2>2. x \in Files /\ rows[x].key = disk[x]
    BY <1>4, <2>1 DEF Done, Known
  <2>3. disk[x] = c
    BY <1>2, <1>4, <2>1, <2>2 DEF Agrees, TrueOf
  <2>4. QED
    BY <1>1, <1>3, <2>1, <2>2, <2>3
<1>9. ASSUME NEW y \in Missing, SameHash(rows, q, y) PROVE y = p
  <2>1. y \in Paths /\ rows[y] # None /\ rows[y].missing /\ rows[y].hash = c
    BY <1>6, <1>9 DEF Missing, SameHash, HasTrack
  <2>2. y \notin Files
    BY <1>4, <2>1 DEF Done, Known
  <2>3. past.rows[y] # None /\ past.rows[y].hash = c
    BY <1>4, <2>1, <2>2 DEF Kept
  <2>4. QED
    BY <1>1, <1>3, <2>1, <2>2, <2>3
<1>10. QED
  BY <1>5, <1>7, <1>8, <1>9

LEMMA RelinkFollowsMoves ==
  ASSUME ReadInv, WayInv, Relink
  PROVE  MovesAreFollowed'
<1>1. past' = past /\ disk' = disk
  BY RelinkIs
<1>2. SUFFICES ASSUME past.whole, past.quiet, NEW p \in Paths, NEW q \in Paths,
                      Moved(p, q), past.rows[q] = None \/ past.rows[q].pending,
                      rows'[q].hash # None
               PROVE  HasTrack(rows'[q]) /\ rows'[q].track = past.rows[p].track
  BY <1>1 DEF MovesAreFollowed, Moved
<1>0. rows[q].hash # None
  <2>1. PICK arrived \in SetToSeqs(Arrived), missing \in SetToSeqs(Missing) :
          library' = RelinkedLibrary(PairMoves(rows, arrived, missing))
    BY RelinkIs
  <2>2. PICK pairs : pairs \subseteq Arrived \X Missing /\ library' = RelinkedLibrary(pairs)
    BY <2>1, FiniteMoves, PairsAreOfMoves
  <2>3. q \in Files /\ Done(q)
    BY <1>2, AllIsDone, RowsAssumption DEF Files, Moved, Undisturbed
  <2>4. rows[q] # None /\ ~rows[q].missing
    BY <2>3 DEF Done, Known
  <2>5. q \notin Claimed(pairs)
    BY <2>2, <2>4 DEF Claimed, Missing
  <2>6. QED
    BY <1>2, <2>2, <2>4, <2>5, RelinkedRowIs DEF SameContent
<1>3. /\ p \in Missing /\ q \in Arrived /\ SameHash(rows, q, p)
      /\ rows[p].track = past.rows[p].track
      /\ \A x \in Arrived : SameHash(rows, x, p) => x = q
      /\ \A y \in Missing : SameHash(rows, q, y) => y = p
  BY <1>0, <1>2, MovedIsPaired DEF Undisturbed
<1>4. PICK arrived \in SetToSeqs(Arrived), missing \in SetToSeqs(Missing) :
        library' = RelinkedLibrary(PairMoves(rows, arrived, missing))
  BY RelinkIs
<1>5. PICK pairs : pairs = PairMoves(rows, arrived, missing)
  OBVIOUS
<1>6. /\ pairs \subseteq Arrived \X Missing /\ library' = RelinkedLibrary(pairs)
      /\ <<q, p>> \in pairs /\ \A pair \in pairs : pair[1] = q => pair[2] = p
  <2>1. pairs \subseteq Arrived \X Missing
    BY <1>5, FiniteMoves, PairsAreOfMoves
  <2>2. <<q, p>> \in pairs /\ \A pair \in pairs : pair[1] = q => pair[2] = p
    BY <1>3, <1>5, FiniteMoves, PairedAlone
  <2>3. QED
    BY <1>4, <1>5, <2>1, <2>2
<1>7. q \notin Claimed(pairs) /\ rows[q] # None /\ HasTrack(rows[q])
  BY <1>3, <1>6 DEF Claimed, Missing, Arrived, HasTrack
<1>8. /\ rows'[q] # None /\ rows'[q].tags = rows[q].tags
      /\ \/ rows'[q].track = rows[q].track /\ \A pair \in pairs : pair[1] # q
         \/ \E pair \in pairs : pair[1] = q /\ rows'[q].track = rows[pair[2]].track
  BY <1>6, <1>7, RelinkedRowIs DEF SameContent
<1>9. rows'[q].track = rows[p].track
  BY <1>6, <1>8
<1>10. QED
  BY <1>3, <1>7, <1>8, <1>9 DEF HasTrack

(* Between the end of a scan and the actor's hearing of it, nothing of the *)
(* library or the files changes.                                           *)
LEMMA OverIsOver ==
  ASSUME ReadInv, [Next]_vars, scan'.outcome = "completed", ~Relink
  PROVE  UNCHANGED <<disk, library, scan, past>>
<1>1. scan'.at = "over"
  <2>1. Stages'
    BY NextRead DEF ReadInv
  <2>2. QED
    BY <2>1 DEF Stages
<1>2. CASE Scan
  <2>1. ASSUME NEW p \in Paths, Discover(p) \/ Unusable(p) \/ Inspect(p) PROVE FALSE
    <3>1. CASE Unusable(p)
      BY <1>1, <3>1, ScanIsTyped DEF ReadInv, Unusable, Walking, Scans
    <3>2. CASE Inspect(p)
      <4>1. scan'.at = "walk"
        BY <3>2, InspectIs DEF ReadInv, Inspect, Flushing
      <4>2. QED
        BY <1>1, <4>1
    <3>3. QED
      BY <1>1, <2>1, <3>1, <3>2, DiscoverIs DEF ReadInv
  <2>2. CASE Cancelled \/ TraversalFailed \/ Fail
    BY <2>2, EndsRead
  <2>3. CASE WriteBatch
    BY <1>1, <2>3, WriteBatchIs, EndRead
  <2>4. QED
    BY <1>1, <1>2, <2>1, <2>2, <2>3, BeginRootIs, StopWalkingIs, MarkMissingIs, FinishRootIs
       DEF Scan, ReadInv
<1>3. CASE World
  <2>1. ASSUME NEW p \in Paths, NEW q \in Paths, Rewrite(p) \/ Move(p, q) PROVE FALSE
    BY <1>1, <2>1, FilesAreTyped, FilesChangeRead DEF ReadInv
  <2>2. ASSUME NEW targets \in SUBSET Dirs, StartScan(targets) PROVE FALSE
    BY <1>1, <2>2, StartScanIs
  <2>3. CASE CancelScan \/ DeleteMissing
    BY <1>1, <2>3 DEF CancelScan, DeleteMissing
  <2>4. CASE Reap
    BY <1>1, <2>4, IdleFields DEF Reap
  <2>5. QED
    BY <1>3, <2>1, <2>2, <2>3, <2>4 DEF World
<1>4. CASE UNCHANGED vars
  BY <1>4 DEF vars
<1>5. QED
  BY <1>2, <1>3, <1>4 DEF Next

ScanInv == ReadInv /\ WayInv /\ CompletedScanIsTrue /\ MovesAreFollowed

LEMMA InitScan == Init => ScanInv
<1> SUFFICES ASSUME Init PROVE ScanInv
  OBVIOUS
<1>1. scan = Idle
  BY DEF Init
<1>2. WayInv /\ CompletedScanIsTrue /\ MovesAreFollowed
  BY <1>1, IdleFields DEF WayInv, OnItsWay, CompletedScanIsTrue, MovesAreFollowed
<1>3. QED
  BY <1>2, InitRead DEF ScanInv

LEMMA NextScan == ScanInv /\ [Next]_vars => ScanInv'
<1> SUFFICES ASSUME ScanInv, [Next]_vars PROVE ScanInv'
  OBVIOUS
<1>1. ReadInv' /\ WayInv'
  BY NextRead, NextWay DEF ScanInv
<1>2. CASE Relink
  BY <1>1, <1>2, RelinkLeavesTheTruth, RelinkFollowsMoves DEF ScanInv
<1>3. CASE ~Relink /\ scan'.outcome = "completed"
  <2>1. UNCHANGED <<disk, library, scan, past>>
    BY <1>3, OverIsOver DEF ScanInv
  <2>2. rows' = rows /\ Files' = Files
    BY <2>1 DEF rows, Files
  <2>3. CompletedScanIsTrue' /\ MovesAreFollowed'
    BY <2>1, <2>2 DEF ScanInv, CompletedScanIsTrue, MovesAreFollowed, Moved
  <2>4. QED
    BY <1>1, <2>3 DEF ScanInv
<1>4. CASE scan'.outcome # "completed"
  BY <1>1, <1>4 DEF ScanInv, CompletedScanIsTrue, MovesAreFollowed
<1>5. QED
  BY <1>2, <1>3, <1>4

THEOREM ScanAlways == Spec => []ScanInv
BY InitScan, NextScan, PTL DEF Spec

(* When a scan of everything completes and no file changed meanwhile, the  *)
(* Library holds the files there are and no others; what it says of a file *)
(* is true of it, and is all of it unless a read of it failed: for any     *)
(* folders, files, batches and failed reads, whatever was cancelled before.*)
THEOREM CompletedIsTrue == Spec => []CompletedScanIsTrue
<1>1. ScanInv => CompletedScanIsTrue
  BY DEF ScanInv
<1>2. QED
  BY <1>1, ScanAlways, PTL

(* A file that moved is the same track again after such a scan, if its     *)
(* hash was read at both places.                                           *)
THEOREM MovesFollowed == Spec => []MovesAreFollowed
<1>1. ScanInv => MovesAreFollowed
  BY DEF ScanInv
<1>2. QED
  BY <1>1, ScanAlways, PTL
=============================================================================
