--------------------------- MODULE QueueCommands ---------------------------
(***************************************************************************)
(* The playback queue under the worker's commands                          *)
(* (src/backend/src/audio/playback/worker.rs and worker/start.rs), with    *)
(* the one queue kept for undo.  Transport is left out: PlaybackWorker.tla *)
(* has it.  Every command is an action, and so are the two things that     *)
(* happen to the queue without one: a track that ends or is left, and      *)
(* entries whose tracks have gone from the library.                        *)
(***************************************************************************)
EXTENDS PlaybackQueue

CONSTANTS NoQueue,   \* nothing is kept for undo
          MaxLength, \* bound: entries in a queue
          MaxId      \* bound: item ids ever given

ASSUME BoundsAssumption == MaxLength \in Nat /\ MaxId \in Nat

VARIABLES queue,     \* the queue
          previous   \* the queue before the last replacement or clearing

vars == <<queue, previous>>

Init ==
  /\ queue \in {NewQueue(r, s) : r \in RepeatModes, s \in BOOLEAN}
  /\ previous = NoQueue

Fits(n) == queue.nextId + n <= MaxId + 1

-----------------------------------------------------------------------------
(* replace_queue: an empty queue is not worth undoing to.                  *)
ReplaceQueue(n, start) ==
  /\ ReplaceOk(n, start) /\ Fits(n)
  /\ queue' \in Replaced(queue, n, start)
  /\ previous' = IF IsEmpty(queue) THEN NoQueue ELSE queue

Start(n, start) == ReplaceQueue(n, start)

(* Enqueuing with nothing current starts the tracks instead.               *)
Enqueue(n, next) ==
  \/ /\ ~HasCurrent(queue)
     /\ ReplaceQueue(n, 1)
  \/ /\ HasCurrent(queue) /\ Fits(n) /\ Length(queue) + n <= MaxLength
     /\ queue' = Enqueued(queue, n, next)
     /\ UNCHANGED previous

ClearQueue ==
  /\ Upcoming(queue) # <<>>
  /\ queue' = WithoutUpcoming(queue)
  /\ previous' = queue

RestorePreviousQueue ==
  /\ previous # NoQueue
  /\ queue' \in Restored(queue, previous)
  /\ previous' = NoQueue

SetRepeatMode(mode) ==
  /\ queue' = [queue EXCEPT !.repeat = mode]
  /\ UNCHANGED previous

SetShuffle(enabled) ==
  /\ queue' \in WithShuffle(queue, enabled)
  /\ UNCHANGED previous

RemoveQueueItem(id) ==
  /\ id \in UpcomingIds(queue)
  /\ queue' = WithoutUpcomingEntry(queue, id)
  /\ UNCHANGED previous

MoveQueueItem(id, to) ==
  /\ id \in UpcomingIds(queue) /\ MoveChanges(queue, id, to)
  /\ queue' = WithMoved(queue, id, to)
  /\ UNCHANGED previous

PlayQueueItem(id) ==
  /\ JumpOk(queue, id)
  /\ queue' = JumpedTo(queue, id)
  /\ UNCHANGED previous

(* Next, Previous, the natural end of a track, and a skip past a failure.  *)
Advance(reason) ==
  /\ queue' \in Advanced(queue, reason)
  /\ UNCHANGED previous

(* resolve_current drops the current entry, prune_unavailable others.      *)
LibraryLoses(gone) ==
  /\ gone \cap ToSet(PlayOrder(queue)) # {}
  /\ queue' = WithoutEntries(queue, gone)
  /\ UNCHANGED previous

(* Nothing is left to play: the end of the queue, or every entry from the  *)
(* current one on has gone.                                                *)
StopAtTheEnd ==
  /\ Advanced(queue, "natural") = {} \/ ~HasCurrent(queue)
  /\ queue' = Cleared(queue)
  /\ UNCHANGED previous

Next ==
  \/ \E n \in 1..MaxLength, start \in 1..MaxLength : Start(n, start)
  \/ \E n \in 1..2, next \in BOOLEAN : Enqueue(n, next)
  \/ ClearQueue \/ RestorePreviousQueue
  \/ \E mode \in RepeatModes : SetRepeatMode(mode)
  \/ \E enabled \in BOOLEAN : SetShuffle(enabled)
  \/ \E id \in UpcomingIds(queue) :
       \/ RemoveQueueItem(id)
       \/ \E to \in 0..MaxLength : MoveQueueItem(id, to)
  \/ \E id \in ToSet(PlayOrder(queue)) : PlayQueueItem(id)
  \/ \E reason \in Reasons : Advance(reason)
  \/ \E gone \in SUBSET ToSet(PlayOrder(queue)) : LibraryLoses(gone)
  \/ StopAtTheEnd

Spec == Init /\ [][Next]_vars

-----------------------------------------------------------------------------
Queues == {queue} \cup (IF previous = NoQueue THEN {} ELSE {previous})

(* Both orders of a queue hold the same entries, each of them once, and    *)
(* the position is at an entry or right after the last, where dropping the *)
(* current entry may leave it.  A shuffled order outlives its setting only *)
(* when dropping entries emptied it.  queue.rs keeps two lists that every  *)
(* edit has to change together.                                            *)
OrdersAgree ==
  \A q \in Queues :
    /\ IsInjective(q.arranged) /\ q.current \in 1..(Length(q) + 1)
    /\ IsShuffled(q) => /\ IsInjective(q.shuffled)
                        /\ ToSet(q.shuffled) = ToSet(q.arranged)
                        /\ q.shuffle \/ IsEmpty(q)

(* The entry the gapless prefetch opens is the one a natural finish moves  *)
(* to, whatever the shuffle would do, and when none is named, a finish     *)
(* moves nowhere or is still open.                                         *)
PeekNamesTheNaturalNext ==
  LET next == Advanced(queue, "natural")
  IN /\ \A id \in PeekNatural(queue) :
          next # {} /\ \A q \in next : HasCurrent(q) /\ CurrentId(q) = id
     /\ PeekNatural(queue) = {} =>
          next = {} \/ ~HasCurrent(queue) \/ IsShuffled(queue)

(* Undo brings back the entry that was current, also when shuffle was      *)
(* turned on or off since.                                                 *)
UndoRestoresTheCurrentEntry ==
  [][RestorePreviousQueue /\ HasCurrent(previous) =>
       HasCurrent(queue') /\ CurrentId(queue') = CurrentId(previous)]_vars

(* What is added to play next plays next, and still follows the current    *)
(* entry after shuffle is turned off.                                      *)
EnqueuedNextPlaysNext ==
  [][\A n \in 1..2 : HasCurrent(queue) /\ Enqueue(n, TRUE) =>
       /\ Upcoming(queue')[1] = queue.nextId
       /\ queue'.arranged[IndexOf(queue'.arranged, CurrentId(queue')) + 1]
            = queue.nextId]_vars
=============================================================================
