--------------------------- MODULE PlaybackQueue ---------------------------
(***************************************************************************)
(* The playback queue as a pure data structure                             *)
(* (src/backend/src/audio/playback/queue.rs).  A queue is a record; every  *)
(* method is an operator on it, and a method that shuffles returns the set *)
(* of the queues it may produce.  An entry is its item id: the track it    *)
(* names plays no part in any method.  Positions count from 1.             *)
(***************************************************************************)
EXTENDS Integers, Sequences, SequencesExt

CONSTANT NoOrder    \* `shuffled` is None

ASSUME NoOrderAssumption == NoOrder \notin Seq(Nat)

RepeatModes == {"off", "all", "one"}
Reasons == {"natural", "next", "previous"}

NewQueue(repeat, shuffle) ==
  [arranged |-> <<>>, shuffled |-> NoOrder, current |-> 1,
   repeat |-> repeat, shuffle |-> shuffle, nextId |-> 1]

-----------------------------------------------------------------------------
(* Reading a queue.                                                        *)

IsShuffled(q) == q.shuffled # NoOrder
IsEmpty(q) == q.arranged = <<>>
Length(q) == Len(q.arranged)

PlayOrder(q) == IF IsShuffled(q) THEN q.shuffled ELSE q.arranged

HasCurrent(q) == q.current \in DOMAIN PlayOrder(q)
CurrentId(q) == PlayOrder(q)[q.current]
History(q) == SubSeq(PlayOrder(q), 1, q.current - 1)
Upcoming(q) == SubSeq(PlayOrder(q), q.current + 1, Len(PlayOrder(q)))
UpcomingIds(q) == ToSet(Upcoming(q))
Entries(q) == ToSet(q.arranged) \cup ToSet(PlayOrder(q))

IndexOf(order, id) == CHOOSE i \in DOMAIN order : order[i] = id

Wraps(q) == q.repeat = "all" /\ Length(q) > 1
CanGoNext(q) == q.current < Length(q) \/ Wraps(q)

(* Mutant: a shuffled queue that wraps is taken to start where it did.     *)
PeekNaturalThroughShuffle(q) ==
  LET order == PlayOrder(q)
  IN CASE IsEmpty(q) -> {}
       [] ~IsEmpty(q) /\ q.repeat = "one" ->
            IF HasCurrent(q) THEN {CurrentId(q)} ELSE {}
       [] ~IsEmpty(q) /\ q.repeat # "one" /\ q.current < Length(q) ->
            {order[q.current + 1]}
       [] OTHER -> IF q.repeat = "all" THEN {order[1]} ELSE {}

(* The entry a natural finish moves to, when that is already decided: a    *)
(* singleton, or nothing.                                                  *)
PeekNatural(q) ==
  LET order == PlayOrder(q)
  IN CASE IsEmpty(q) -> {}
       [] ~IsEmpty(q) /\ q.repeat = "one" ->
            IF HasCurrent(q) THEN {CurrentId(q)} ELSE {}
       [] ~IsEmpty(q) /\ q.repeat # "one" /\ q.current < Length(q) ->
            {order[q.current + 1]}
       [] OTHER ->
            IF q.repeat = "all" /\ ~IsShuffled(q) THEN {order[1]} ELSE {}

-----------------------------------------------------------------------------
(* Helpers of the editing methods.                                         *)

NewIds(q, n) == [i \in 1..n |-> q.nextId + i - 1]

(* The entries kept of the first i, for every i.                           *)
Kept(order, gone) ==
  LET kept[i \in 0..Len(order)] ==
        IF i = 0 THEN <<>>
        ELSE IF order[i] \in gone THEN kept[i - 1] ELSE Append(kept[i - 1], order[i])
  IN kept

Retain(order, gone) == Kept(order, gone)[Len(order)]

(* splice: the ids `new` go in at position `at`.                           *)
Splice(order, at, new) ==
  SubSeq(order, 1, at - 1) \o new \o SubSeq(order, at, Len(order))

(* Replaces the order that plays, and leaves the other one alone.          *)
WithPlayOrder(q, order) ==
  IF IsShuffled(q) THEN [q EXCEPT !.shuffled = order]
                   ELSE [q EXCEPT !.arranged = order]

(* The current entry first and the others in any order after it.  Called   *)
(* while no shuffled order exists; with none current, the last leads.      *)
ShuffledAroundCurrent(q) ==
  LET at == IF q.current <= Length(q) THEN q.current ELSE Length(q)
      id == q.arranged[at]
  IN {[q EXCEPT !.shuffled = <<id>> \o rest, !.current = 1] :
        rest \in SetToSeqs(ToSet(q.arranged) \ {id})}

(* Another pass: a shuffled queue is shuffled again, and never starts with *)
(* the entry that was current.                                             *)
WrappedToStart(q) ==
  IF IsShuffled(q) /\ Len(q.shuffled) > 1
  THEN {[q EXCEPT !.shuffled = order, !.current = 1] :
          order \in {o \in SetToSeqs(ToSet(q.shuffled)) :
                       HasCurrent(q) => o[1] # CurrentId(q)}}
  ELSE {[q EXCEPT !.current = 1]}

-----------------------------------------------------------------------------
(* The methods.  A method that fails leaves the queue as it was: its guard *)
(* is the ...Ok operator next to it.                                       *)

ReplaceOk(n, start) == start \in 1..n

Replaced(q, n, start) ==
  LET fresh == [q EXCEPT !.arranged = NewIds(q, n), !.shuffled = NoOrder,
                         !.current = start, !.nextId = q.nextId + n]
  IN IF q.shuffle THEN ShuffledAroundCurrent(fresh) ELSE {fresh}

Cleared(q) == [q EXCEPT !.arranged = <<>>, !.shuffled = NoOrder, !.current = 1]

(* Mutant: turning shuffle off drops the order and keeps the position.     *)
WithShuffleAtSamePosition(q, enabled) ==
  LET switched == [q EXCEPT !.shuffle = enabled]
  IN CASE q.shuffle = enabled -> {q}
       [] q.shuffle # enabled /\ IsEmpty(q) -> {switched}
       [] q.shuffle # enabled /\ ~IsEmpty(q) /\ enabled ->
            ShuffledAroundCurrent(switched)
       [] OTHER -> {[switched EXCEPT !.shuffled = NoOrder]}

WithShuffle(q, enabled) ==
  LET switched == [q EXCEPT !.shuffle = enabled]
      unshuffled ==
        [switched EXCEPT
           !.shuffled = NoOrder,
           !.current = IF HasCurrent(q) THEN IndexOf(q.arranged, CurrentId(q)) ELSE 1]
  IN CASE q.shuffle = enabled -> {q}
       [] q.shuffle # enabled /\ IsEmpty(q) -> {switched}
       [] q.shuffle # enabled /\ ~IsEmpty(q) /\ enabled ->
            ShuffledAroundCurrent(switched)
       [] OTHER -> {IF IsShuffled(q) THEN unshuffled ELSE switched}

(* A replaced queue is put back under the repeat and shuffle settings of   *)
(* now, and item ids go on from the highest ever given.                    *)
Restored(q, before) ==
  LET nextId == IF q.nextId >= before.nextId THEN q.nextId ELSE before.nextId
  IN WithShuffle([before EXCEPT !.repeat = q.repeat, !.nextId = nextId], q.shuffle)

WithoutUpcoming(q) ==
  [WithPlayOrder(q, SubSeq(PlayOrder(q), 1, q.current))
     EXCEPT !.arranged = Retain(q.arranged, UpcomingIds(q))]

(* The position follows the entries before it.  When the current entry     *)
(* goes, the one after it is current, and none is when it was the last.    *)
WithoutEntries(q, gone) ==
  [q EXCEPT
     !.arranged = Retain(q.arranged, gone),
     !.shuffled = IF IsShuffled(q) THEN Retain(q.shuffled, gone) ELSE NoOrder,
     !.current = Len(Retain(History(q), gone)) + 1]

WithoutUpcomingEntry(q, id) ==
  LET played == WithPlayOrder(q, Retain(PlayOrder(q), {id}))
  IN IF IsShuffled(q) THEN [played EXCEPT !.arranged = Retain(q.arranged, {id})]
                      ELSE played

(* `to` counts from the next entry; past the end means the end.            *)
MoveTarget(q, to) ==
  IF q.current + 1 + to <= Length(q) THEN q.current + 1 + to ELSE Length(q)

MoveChanges(q, id, to) == MoveTarget(q, to) # IndexOf(PlayOrder(q), id)

(* While shuffled, the entry also moves in the arranged order: right after *)
(* the one that now plays before it.                                       *)
WithMoved(q, id, to) ==
  LET target == MoveTarget(q, to)
      order == InsertAt(Retain(PlayOrder(q), {id}), target, id)
      moved == WithPlayOrder(q, order)
      rest == Retain(q.arranged, {id})
      after == IndexOf(rest, order[target - 1]) + 1
  IN IF IsShuffled(q)
     THEN [moved EXCEPT !.arranged = Splice(rest, after, <<id>>)]
     ELSE moved

JumpOk(q, id) ==
  id \in ToSet(PlayOrder(q)) /\ IndexOf(PlayOrder(q), id) # q.current

JumpedTo(q, id) == [q EXCEPT !.current = IndexOf(PlayOrder(q), id)]

(* Mutant: in the arranged order the new entries always go last.           *)
EnqueuedLastInArranged(q, n, next) ==
  LET new == NewIds(q, n)
      at == IF next THEN q.current + 1 ELSE Length(q) + 1
      added == WithPlayOrder(q, Splice(PlayOrder(q), at, new))
  IN [added EXCEPT
        !.nextId = q.nextId + n,
        !.arranged = IF IsShuffled(q) THEN q.arranged \o new ELSE added.arranged]

(* New entries right after the current one, or at the end; while shuffled, *)
(* in the same place of both orders.                                       *)
Enqueued(q, n, next) ==
  LET new == NewIds(q, n)
      at == IF next THEN q.current + 1 ELSE Length(q) + 1
      arrangedAt == IF next /\ HasCurrent(q)
                    THEN IndexOf(q.arranged, CurrentId(q)) + 1
                    ELSE Length(q) + 1
      added == WithPlayOrder(q, Splice(PlayOrder(q), at, new))
  IN [added EXCEPT
        !.nextId = q.nextId + n,
        !.arranged = IF IsShuffled(q) THEN Splice(q.arranged, arrangedAt, new)
                     ELSE added.arranged]

(* Moves to another entry: the queues that may result, or none at either   *)
(* end of a queue that does not wrap.  The caller gets an entry only if    *)
(* one is current then.                                                    *)
Advanced(q, reason) ==
  CASE IsEmpty(q) -> {}
    [] ~IsEmpty(q) /\ reason = "natural" /\ q.repeat = "one" -> {q}
    [] ~IsEmpty(q) /\ reason = "previous" ->
         IF q.current > 1 THEN {[q EXCEPT !.current = @ - 1]}
         ELSE IF q.repeat = "all" THEN {[q EXCEPT !.current = Length(q)]} ELSE {}
    [] OTHER ->
         IF q.current < Length(q) THEN {[q EXCEPT !.current = @ + 1]}
         ELSE IF q.repeat = "all" THEN WrappedToStart(q) ELSE {}
=============================================================================
