------------------------------- MODULE Catalog -------------------------------
(***************************************************************************)
(* A catalog list that is read page by page while the Library is written:  *)
(* library/store/catalog.rs and paging.rs.  A read takes a connection from *)
(* a pool and no transaction: each of its statements sees the rows as they *)
(* are then.                                                               *)
(***************************************************************************)
EXTENDS CatalogLists

CONSTANTS Ids, Row,           \* ids, and what a row may be
          Skips, MaxWrites    \* bounds

VARIABLES
  table,      \* the rows the search matches
  request,    \* sort, direction and skip of the list
  fetch,      \* the page being read: which statement is next, and what it found
  shown,      \* the list so far: items, how many there are in all, and the next cursor
  writes,     \* how many there were
  steady      \* history: rows that stayed as they are since the list was begun

vars == <<table, request, fetch, shown, writes, steady>>

Directions == {"ascending", "descending"}

Page(at, cursor) == [at |-> at, cursor |-> cursor, phase |-> 1, rows |-> <<>>, before |-> 0]
OrderPhases == Phases(request.sort)
Current == OrderPhases[fetch.phase]

Init ==
  /\ table \in UNION {[ids -> Row] : ids \in SUBSET Ids}
  /\ request \in [sort : Sorts, direction : Directions, skip : Skips]
  /\ fetch = Page("counting", None)
  /\ shown = [items |-> <<>>, total |-> None, next |-> None]
  /\ writes = 0
  /\ steady = DOMAIN table

(* The scanner writes, moves or forgets a row; another process could not.  *)
Write(id) ==
  /\ writes < MaxWrites
  /\ \E row \in Row \cup {None} :
       LET kept == DOMAIN table \ {id}
       IN /\ row = None => id \in DOMAIN table
          /\ table' = [i \in kept \cup (IF row = None THEN {} ELSE {id}) |->
                         IF i = id THEN row ELSE table[i]]
  /\ table' # table
  /\ writes' = writes + 1
  /\ steady' = steady \ {id}
  /\ UNCHANGED <<request, fetch, shown>>

(* Mutant: the row after those to skip is skipped as well.                 *)
OffsetWhole(skip) == skip

(* How many rows precede the last of those to skip.                        *)
Offset(skip) == skip - 1

(* The first page says how long the list is; of an album that has none,    *)
(* there is no list.                                                       *)
Count ==
  /\ fetch.at = "counting"
  /\ shown' = [shown EXCEPT !.total = Cardinality(DOMAIN table)]
  /\ fetch' = IF request.sort = "position" /\ DOMAIN table = {} THEN Page("refused", None)
              ELSE IF request.skip > 0
              THEN [fetch EXCEPT !.at = "seeking", !.before = Offset(request.skip)]
              ELSE [fetch EXCEPT !.at = "fetching"]
  /\ UNCHANGED <<table, request, writes, steady>>

Answer(items, next) ==
  /\ shown' = [shown EXCEPT !.items = @ \o items, !.next = next]
  /\ fetch' = Page("idle", None)

(* The phase the last row to skip is in: one count for each.               *)
Seek ==
  /\ fetch.at = "seeking"
  /\ LET count == Cardinality(InPhase(table, Current))
     IN IF fetch.before < count
        THEN fetch' = [fetch EXCEPT !.at = "landing"] /\ UNCHANGED shown
        ELSE IF fetch.phase = Len(OrderPhases) THEN Answer(<<>>, None)
        ELSE /\ fetch' = [fetch EXCEPT !.phase = @ + 1, !.before = @ - count]
             /\ UNCHANGED shown
  /\ UNCHANGED <<table, request, writes, steady>>

(* That row, which may be gone: then the page is refused.                  *)
Land ==
  /\ fetch.at = "landing"
  /\ LET rows == RowsOf(table, Current, request.direction)
     IN fetch' = IF fetch.before >= Len(rows) THEN Page("refused", None)
                 ELSE LET keys == Terms(table, Current, rows[fetch.before + 1])
                      IN [Page("fetching", [phase |-> fetch.phase, after |-> keys])
                            EXCEPT !.phase = fetch.phase]
  /\ UNCHANGED <<table, request, shown, writes, steady>>

(* Mutant: the rows the cursor ended on come again.                        *)
FoundFrom(phase) ==
  IF fetch.cursor # None /\ fetch.cursor.phase = phase
  THEN RowsFrom(table, OrderPhases[phase], request.direction, fetch.cursor.after)
  ELSE RowsOf(table, OrderPhases[phase], request.direction)

Found(phase) ==
  IF fetch.cursor # None /\ fetch.cursor.phase = phase
  THEN RowsAfter(table, OrderPhases[phase], request.direction, fetch.cursor.after)
  ELSE RowsOf(table, OrderPhases[phase], request.direction)

(* One statement for each phase, for one row more than the page shows.     *)
FetchPhase ==
  /\ fetch.at = "fetching"
  /\ LET found == Found(fetch.phase)
         part == SubSeq(found, 1, Min({Len(found), PageSize + 1 - Len(fetch.rows)}))
         rows == fetch.rows \o
                   [i \in DOMAIN part |->
                      [id |-> part[i], phase |-> fetch.phase,
                       after |-> Terms(table, Current, part[i])]]
         shownIds == [i \in 1..Min({Len(rows), PageSize}) |-> rows[i].id]
     IN IF Len(rows) > PageSize
        THEN Answer(shownIds, [phase |-> rows[PageSize].phase, after |-> rows[PageSize].after])
        ELSE IF fetch.phase = Len(OrderPhases) THEN Answer(shownIds, None)
        ELSE /\ fetch' = [fetch EXCEPT !.rows = rows, !.phase = @ + 1]
             /\ UNCHANGED shown
  /\ UNCHANGED <<table, request, writes, steady>>

(* The page after the cursor; later pages do not count again.              *)
More ==
  /\ fetch.at = "idle" /\ shown.next # None
  /\ fetch' = [Page("fetching", shown.next) EXCEPT !.phase = shown.next.phase]
  /\ UNCHANGED <<table, request, shown, writes, steady>>

Next ==
  \/ Count \/ Seek \/ Land \/ FetchPhase \/ More
  \/ \E id \in Ids : Write(id)

Spec == Init /\ [][Next]_vars
-----------------------------------------------------------------------------
(* Properties.                                                             *)

Ended == fetch.at = "idle" /\ shown.next = None

(* Rows that no write touches since a list was begun from its start are    *)
(* never repeated and stand in the list's order, and when the last page is *)
(* read none is missing, whatever other rows were written between pages or *)
(* between the statements of one.                                          *)
SteadyRowsOnce ==
  LET order == SelectSeq(WholeList(table, request.sort, request.direction),
                         LAMBDA id : id \in steady)
      seen == SelectSeq(shown.items, LAMBDA id : id \in steady)
  IN request.skip = 0 => /\ IsPrefix(seen, order)
                         /\ Ended => seen = order

(* Without a write, the pages of a list, from its start or from any number *)
(* of rows on, are the list's rows from there on, and their number is that *)
(* of the whole list.                                                      *)
PagesAreTheList ==
  Ended /\ writes = 0 =>
    LET all == WholeList(table, request.sort, request.direction)
    IN /\ shown.items = SubSeq(all, request.skip + 1, Len(all))
       /\ shown.total = Len(all)

(* Whatever is in the Library, a jump by the scroll index lands on the     *)
(* first row of its label, in either direction.  Titles have no phases: a  *)
(* title with an empty sort key, which only a blank file name can give,    *)
(* would be first in the list and last in the index, and is left out.      *)
JumpsByNameLand ==
  fetch.at = "counting" =>
    \A direction \in Directions, sort \in {"title", "name"} :
      \/ sort = "title" /\ \E id \in DOMAIN table : table[id].name = 0
      \/ LET all == WholeList(table, sort, direction)
         IN JumpsLand(Index(table, sort, direction),
                      [i \in DOMAIN all |-> IndexLabel(table[all[i]].name)])

(* The same of the index by year.                                          *)
JumpsByYearLand ==
  fetch.at = "counting" =>
    \A direction \in Directions :
      LET all == WholeList(table, "year", direction)
          Label(id) == IF table[id].number = 0 THEN Unknown ELSE <<"year", table[id].number>>
      IN JumpsLand(Index(table, "year", direction), [i \in DOMAIN all |-> Label(all[i])])

(* Playing a list, or an album, from one of its tracks plays that track,   *)
(* and around it the tracks of the list that can be played in the order    *)
(* the pages show; each of them is found when it is to be loaded.          *)
SelectionIsTheList ==
  fetch.at = "counting" =>
    \A direction \in Directions, sort \in TrackSorts \cup {"position"}, start \in Ids \cup {None} :
      LET selection == IF sort = "position" THEN PlaybackForAlbum(table, start)
                       ELSE PlaybackForTracks(table, sort, direction, start)
          order == IF sort = "position" THEN "ascending" ELSE direction
          plays == SelectSeq(WholeList(table, sort, order), LAMBDA id : id \in Playable)
      IN /\ start = None \/ start \in DOMAIN table \cap Playable => selection.ids = plays
         /\ PlayableTracks(table, selection.ids) = selection.ids
         /\ start # None =>
              IF start \in DOMAIN table \cap Playable THEN plays[selection.start] = start
              ELSE selection.error # None
=============================================================================
