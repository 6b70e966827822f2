--------------------------- MODULE PlaybackWorker ---------------------------
(***************************************************************************)
(* The playback worker (src/backend/src/audio/playback/worker.rs and       *)
(* worker/): the one thread that owns the queue and the transport, takes   *)
(* one input at a time, and answers its callers, some of them long after   *)
(* the command.  A handler of the code calls others in a row; here each is *)
(* an operator from a state of the worker to the next, and an action is    *)
(* one input taken to the end.                                             *)
(*                                                                         *)
(* Left out: volume, positions and their deadlines, the stream's own queue *)
(* (Gapless.tla) and shuffling (QueueCommands.tla).  A failure is known by *)
(* its scope.  A read of the library, an open file, a thread or a device   *)
(* may fail at any time: `luck` is what one handler finds.                 *)
(***************************************************************************)
EXTENDS PlaybackQueue

CONSTANTS Callers, NoOne,    \* who waits for an answer
          Devices, Default,  \* what may be selected; Default is SystemDefault
          NoDevice, NoQueue,
          MaxLength, MaxId,  \* bounds: entries in a queue, item ids ever given
          MaxJobs            \* bound: threads whose reports may be outstanding

ASSUME NamesAssumption ==
  /\ NoOne \notin Callers /\ Default \in Devices /\ NoDevice \notin Devices
  /\ \A caller \in Callers \cup {NoOne} : Callers \ {caller} # {}

VARIABLES queue, previous,   \* the queue, and the one kept for undo
          transport,         \* idle, loading, loaded or failed
          skipped,           \* skipped_in_a_row
          selection,         \* output_selection
          jobs,              \* the load and decode threads that may still report
          published,         \* the playback snapshot listeners have
          shown,             \* the queue snapshot they have
          waiting            \* callers who have not been answered

vars == <<queue, previous, transport, skipped, selection, jobs, published,
          shown, waiting>>

Jobs == 1..MaxJobs
NoJob == 0
NoEntry == 0

Idle == [kind |-> "idle"]
Failed(scope, skipping) ==
  [kind |-> "failed", scope |-> scope, skipping |-> skipping]
NoSeek == [job |-> NoJob, responder |-> NoOne]
NoPrefetch == [entry |-> NoEntry, job |-> NoJob]

(* A start as the worker begins it on its own, or for a caller.            *)
NewStart(entry, responder, paused) ==
  [entry |-> entry, responder |-> responder, paused |-> paused,
   resume |-> FALSE, selection |-> NoDevice]

IsLoaded(t) == t.kind = "loaded"
IsLoading(t) == t.kind = "loading"

-----------------------------------------------------------------------------
(* The state of the worker as one value, and back.                         *)

State == [queue |-> queue, previous |-> previous, transport |-> transport,
          skipped |-> skipped, selection |-> selection, jobs |-> jobs,
          published |-> published, shown |-> shown, waiting |-> waiting]

Owned(t) ==
  CASE t.kind = "loading" -> {t.job}
    [] t.kind = "loaded" -> {t.job, t.seek.job, t.prefetch.job} \ {NoJob}
    [] OTHER -> {}

(* The worker cancels a thread it lets go of, which may have reported.     *)
Become(s) ==
  /\ queue' = s.queue /\ previous' = s.previous
  /\ transport' = s.transport /\ skipped' = s.skipped
  /\ selection' = s.selection
  /\ jobs' = [j \in Jobs |-> IF s.jobs[j] # "none" /\ j \notin Owned(s.transport)
                             THEN "cancelled" ELSE s.jobs[j]]
  /\ published' = s.published /\ shown' = s.shown /\ waiting' = s.waiting

(* Ids are never reused in the code; here one is when no thread is left    *)
(* that could report it.                                                   *)
FreeJobs(s) == {j \in Jobs : s.jobs[j] = "none"} \ Owned(s.transport)
FreshJob(s) == CHOOSE j \in FreeJobs(s) : TRUE

(* Who waits for the outcome of what the transport is doing.               *)
Responders(t) ==
  CASE t.kind = "loading" -> {t.request.responder} \ {NoOne}
    [] t.kind = "loaded" -> {t.seek.responder} \ {NoOne}
    [] OTHER -> {}

Answer(s, caller) == [s EXCEPT !.waiting = @ \ {caller}]

-----------------------------------------------------------------------------
(* Publishing.                                                             *)

Render(t, device) ==
  [status |-> CASE t.kind \in {"idle", "loading"} -> "stopped"
                [] t.kind = "loaded" -> IF t.paused THEN "paused" ELSE "playing"
                [] OTHER -> "failed",
   entry |-> IF IsLoaded(t) THEN t.entry ELSE NoEntry,
   skipping |-> t.kind = "failed" /\ t.skipping,
   selection |-> device]

PublishState(s) == [s EXCEPT !.published = Render(s.transport, s.selection)]

Shown(q, undo) ==
  [order |-> PlayOrder(q), current |-> q.current, repeat |-> q.repeat,
   canRestore |-> undo # NoQueue]

(* Listeners are shown no entry the library no longer has.  Queues here    *)
(* are shorter than the part of a queue a snapshot carries.                *)
PublishQueue(s, luck) ==
  LET around == ToSet(History(s.queue)) \cup UpcomingIds(s.queue)
      q == IF luck.readable THEN WithoutEntries(s.queue, around \cap luck.lost)
           ELSE s.queue
  IN [s EXCEPT !.queue = q, !.shown = Shown(q, s.previous)]

QueueChanged(s, luck) == PublishState(PublishQueue(s, luck))

-----------------------------------------------------------------------------
(* Letting go, and starting.                                               *)

(* Mutant: a seek in flight is dropped with its caller.                    *)
DiscardTransportUnanswered(s) ==
  [s EXCEPT !.transport = Idle,
            !.waiting = @ \ (IF IsLoaded(s.transport) THEN {}
                             ELSE Responders(s.transport))]

(* discard_transport and drop_loaded: whoever waits is answered, and the   *)
(* threads are cancelled, but may already have reported.                   *)
DiscardTransport(s) ==
  [s EXCEPT !.transport = Idle, !.waiting = @ \ Responders(s.transport)]

(* The end of a start, or of the loaded track, that nothing is tried after.*)
FailForGood(s, responder) ==
  Answer(PublishState([DiscardTransport(s) EXCEPT
                         !.transport = Failed("output", FALSE)]), responder)

BeginStart(s, request, luck) ==
  LET wasVisible == s.transport.kind \in {"loaded", "failed"}
      gone == DiscardTransport(s)
      seen == IF wasVisible THEN PublishState(gone) ELSE gone
      job == FreshJob(seen)
  IN IF luck.opens
     THEN [seen EXCEPT !.jobs[job] = "load",
                       !.transport = [kind |-> "loading", request |-> request,
                                      stage |-> "source", job |-> job,
                                      device |-> NoDevice]]
     ELSE FailForGood(seen, request.responder)

(* resolve_current: entries from the current one on that the library no    *)
(* longer has are dropped up to the first it still has; a failed read      *)
(* drops nothing.                                                          *)
Resolved(q, luck) ==
  LET left == IF HasCurrent(q) THEN <<CurrentId(q)>> \o Upcoming(q) ELSE <<>>
      gone == {left[i] : i \in {k \in DOMAIN left :
                                  \A e \in 1..k : left[e] \in luck.lost}}
  IN IF luck.readable THEN WithoutEntries(q, gone) ELSE q

Found(q, luck) == HasCurrent(q) /\ CurrentId(q) \notin luck.lost

(* The queue has nothing left to play.                                     *)
StopForGood(s, responder, luck) ==
  LET stopped == [DiscardTransport(s) EXCEPT !.queue = Cleared(s.queue)]
  IN Answer(QueueChanged(stopped, luck), responder)

StartCurrent(s, responder, paused, luck) ==
  LET q == Resolved(s.queue, luck)
      moved == [s EXCEPT !.queue = q]
  IN CASE ~HasCurrent(s.queue) -> Answer(s, responder)
       [] HasCurrent(s.queue) /\ ~HasCurrent(q) ->
            StopForGood(moved, responder, luck)
       [] HasCurrent(q) /\ ~Found(q, luck) ->
            Answer(PublishQueue(moved, luck), responder)
       [] OTHER -> BeginStart(PublishQueue(moved, luck),
                              NewStart(CurrentId(q), responder, paused), luck)

(* Never shuffled, a queue moves in one way at most.                       *)
CanAdvance(q, reason) == Advanced(q, reason) # {}
Advance(q, reason) == CHOOSE moved \in Advanced(q, reason) : TRUE

AdvanceAfterTrack(s, responder, paused, luck) ==
  LET q == Resolved(Advance(s.queue, "natural"), luck)
      moved == [s EXCEPT !.queue = q]
  IN CASE ~CanAdvance(s.queue, "natural") -> StopForGood(s, responder, luck)
       [] CanAdvance(s.queue, "natural") /\ ~HasCurrent(q) ->
            StopForGood(moved, responder, luck)
       [] CanAdvance(s.queue, "natural") /\ HasCurrent(q) /\ ~Found(q, luck) ->
            Answer(QueueChanged(DiscardTransport(moved), luck), responder)
       [] OTHER ->
            BeginStart(PublishQueue([moved EXCEPT !.skipped = 0], luck),
                       NewStart(CurrentId(q), responder, paused), luck)

-----------------------------------------------------------------------------
(* Failing.                                                                *)

WillSkip(s) == s.skipped + 1 < Length(s.queue) /\ CanGoNext(s.queue)

(* Mutant: skips are not counted.                                          *)
SkipPastForever(s, responder, luck) ==
  LET failed == PublishState([DiscardTransport(s) EXCEPT
                                !.transport = Failed("item", WillSkip(s))])
      q == Resolved(Advance(s.queue, "next"), luck)
      moved == [failed EXCEPT !.queue = q]
  IN CASE ~WillSkip(s) -> Answer(failed, responder)
       [] WillSkip(s) /\ ~Found(q, luck) -> Answer(moved, responder)
       [] OTHER -> BeginStart(PublishQueue(moved, luck),
                              NewStart(CurrentId(q), responder, FALSE), luck)

(* An item that cannot be played: listeners see the failure, then the next *)
(* entry is tried for the same caller, one pass over the queue at most.    *)
SkipPast(s, responder, luck) ==
  LET failed == PublishState([DiscardTransport(s) EXCEPT
                                !.transport = Failed("item", WillSkip(s)),
                                !.skipped = s.skipped + 1])
      q == Resolved(Advance(s.queue, "next"), luck)
      moved == [failed EXCEPT !.queue = q]
  IN CASE ~WillSkip(s) -> Answer(failed, responder)
       [] WillSkip(s) /\ ~Found(q, luck) -> Answer(moved, responder)
       [] OTHER -> BeginStart(PublishQueue(moved, luck),
                              NewStart(CurrentId(q), responder, FALSE), luck)

(* fail_start, for the start the transport is in.                          *)
FailStart(s, scope, luck) ==
  LET request == s.transport.request
      failed == [s EXCEPT !.transport = Idle]
  IN IF scope = "item" /\ request.selection = NoDevice
     THEN SkipPast(failed, request.responder, luck)
     ELSE FailForGood(failed, request.responder)

-----------------------------------------------------------------------------
(* Seeking.                                                                *)

CancelSeek(s) ==
  IF IsLoaded(s.transport)
  THEN [s EXCEPT !.transport.seek = NoSeek, !.waiting = @ \ Responders(s.transport)]
  ELSE s

(* A new seek replaces one in flight, and what was opened to come next.    *)
BeginSeek(s, responder, target, luck) ==
  LET free == CancelSeek(s)
      alone == IF IsLoaded(s.transport) THEN [free EXCEPT !.transport.prefetch = NoPrefetch]
               ELSE free
      job == FreshJob(alone)
  IN CASE ~IsLoaded(s.transport) \/ target = "unknown" -> Answer(alone, responder)
       [] IsLoaded(s.transport) /\ target = "end" ->
            AdvanceAfterTrack(alone, responder, s.transport.paused, luck)
       [] OTHER ->
            IF luck.opens
            THEN [alone EXCEPT !.jobs[job] = "filling",
                               !.transport.seek = [job |-> job, responder |-> responder]]
            ELSE Answer(alone, responder)

FinishSeek(s) ==
  LET seek == s.transport.seek
  IN Answer(PublishState([s EXCEPT !.transport.job = seek.job,
                                   !.transport.seek = NoSeek]), seek.responder)

-----------------------------------------------------------------------------
(* What the threads report.  A thread the worker has let go of may still   *)
(* report once; it owns nothing any more, so nothing happens.              *)

(* What a handler may find: entries whose tracks cannot be had (they are   *)
(* gone, or the library cannot be read), and whether a thread starts and a *)
(* pipeline opens.                                                         *)
LucksWith(ids) ==
  {luck \in [lost : SUBSET ids, readable : BOOLEAN, opens : BOOLEAN] :
     luck.lost = {} => luck.readable}
Lucks == LucksWith(Entries(queue))
Pruning == {luck \in Lucks : luck.readable /\ luck.opens}
Opening == LucksWith({})
Fine == [lost |-> {}, readable |-> TRUE, opens |-> TRUE]

Without(job) == [State EXCEPT !.jobs[job] = "none"]

(* begin_prebuffering: the stream and the decode thread of a start.        *)
BeginPrebuffering(s, opened, luck) ==
  LET request == s.transport.request
      job == FreshJob([s EXCEPT !.transport = Idle])
      device == IF request.selection = NoDevice THEN s.selection ELSE request.selection
  IN IF opened = "ok"
     THEN [s EXCEPT !.jobs[job] = "filling",
                    !.transport.stage = "prebuffering", !.transport.job = job,
                    !.transport.device = device]
     ELSE FailStart(s, opened, luck)

(* `opened` is what opening the file and then the pipeline came to.        *)
SourceLoaded(job, opened, luck) ==
  /\ jobs[job] \in {"load", "cancelled"}
  /\ Become(IF IsLoading(transport) /\ transport.job = job
            THEN BeginPrebuffering(Without(job), opened, luck)
            ELSE Without(job))

(* Mutant: the selection of a switch is not committed.                     *)
FinishStartUncommitted(s, starts, target, luck) ==
  LET request == s.transport.request
      loaded == [s EXCEPT
        !.skipped = 0,
        !.transport = [kind |-> "loaded", entry |-> request.entry,
                       device |-> s.transport.device, paused |-> request.paused,
                       job |-> s.transport.job, seek |-> NoSeek,
                       prefetch |-> NoPrefetch]]
  IN IF ~request.paused /\ ~starts THEN FailStart(s, "output", luck)
     ELSE Answer(PublishState(loaded), request.responder)

(* finish_start: unless it starts paused, the stream has to start; then    *)
(* the selection of a device switch holds, and it goes on where it was.    *)
FinishStart(s, starts, target, luck) ==
  LET request == s.transport.request
      loaded == [s EXCEPT
        !.selection = IF request.selection = NoDevice THEN @ ELSE request.selection,
        !.skipped = 0,
        !.transport = [kind |-> "loaded", entry |-> request.entry,
                       device |-> s.transport.device, paused |-> request.paused,
                       job |-> s.transport.job, seek |-> NoSeek,
                       prefetch |-> NoPrefetch]]
      playing == Answer(PublishState(loaded), request.responder)
  IN CASE ~request.paused /\ ~starts -> FailStart(s, "output", luck)
       [] (request.paused \/ starts) /\ request.resume ->
            BeginSeek(playing, NoOne, target, luck)
       [] OTHER -> playing

PrebufferReady(job, starts, target, luck) ==
  /\ jobs[job] \in {"filling", "cancelled"}
  /\ LET s == [State EXCEPT !.jobs[job] = IF @ = "filling" THEN "decoding" ELSE "none"]
     IN CASE IsLoading(transport) /\ transport.job = job ->
               /\ transport.request.resume => FreeJobs(s) # {}
               /\ Become(FinishStart(s, starts, target, luck))
          [] IsLoaded(transport) /\ transport.seek.job = job -> Become(FinishSeek(s))
          [] OTHER -> Become(s)

(* decode_stopped: what fails with a decode is the part it belongs to.     *)
DecodeFailed(job, luck) ==
  /\ jobs[job] \in {"filling", "decoding", "cancelled"}
  /\ LET s == Without(job)
     IN CASE IsLoading(transport) /\ transport.job = job ->
               Become(FailStart(s, "item", luck))
          [] IsLoaded(transport) /\ transport.job = job ->
               Become(SkipPast(DiscardTransport(s), NoOne, luck))
          [] IsLoaded(transport) /\ transport.seek.job = job -> Become(CancelSeek(s))
          [] IsLoaded(transport) /\ transport.prefetch.job = job ->
               Become([s EXCEPT !.transport.prefetch.job = NoJob])
          [] OTHER -> Become(s)

DecodeEnds(job) ==
  /\ jobs[job] = "decoding"
  /\ Become(Without(job))

(* A thread that owns nothing finds nothing.                               *)
LucksOf(job) == IF job \in Owned(transport) THEN Lucks ELSE {Fine}

Targets == {"inside", "end", "unknown"}

(* A phase of a start that fails condemns the file, or the output.         *)
Scopes == {"item", "output"}

Report(job) ==
  \E luck \in LucksOf(job) :
    \/ \E opened \in Scopes \cup {"ok"} : SourceLoaded(job, opened, luck)
    \/ \E starts \in BOOLEAN, target \in Targets : PrebufferReady(job, starts, target, luck)
    \/ DecodeFailed(job, luck)

(* The current stream reports that the default device changed, or fails.   *)
StreamFailed(changed, recovers) ==
  /\ IsLoaded(transport)
  /\ ~(changed /\ selection # Default)
  /\ Become(IF changed /\ recovers THEN PublishState(CancelSeek(State))
            ELSE FailForGood(State, NoOne))

-----------------------------------------------------------------------------
(* The tick, while a track plays.                                          *)

Adoptable ==
  transport.prefetch.job # NoJob /\ transport.prefetch.entry \in PeekNatural(queue)

(* Mutant: the queue does not move with the adoption.                      *)
AdoptPrefetchedInPlace(s, luck) ==
  QueueChanged([s EXCEPT
    !.skipped = 0,
    !.transport = [@ EXCEPT !.entry = s.transport.prefetch.entry,
                            !.job = s.transport.prefetch.job,
                            !.prefetch = NoPrefetch]], luck)

AdoptPrefetched(s, luck) ==
  QueueChanged([s EXCEPT
    !.queue = Advance(s.queue, "natural"),
    !.skipped = 0,
    !.transport = [@ EXCEPT !.entry = s.transport.prefetch.entry,
                            !.job = s.transport.prefetch.job,
                            !.prefetch = NoPrefetch]], luck)

(* finish_if_due: the track has been heard to its end.                     *)
FinishIfDue(luck) ==
  /\ IsLoaded(transport) /\ ~transport.paused /\ jobs[transport.job] = "none"
  /\ FreeJobs(DiscardTransport(State)) # {}
  /\ Become(IF Adoptable THEN AdoptPrefetched(State, luck)
            ELSE AdvanceAfterTrack(State, NoOne, FALSE, luck))

(* maybe_prefetch and the opened file: the pipeline of the next track, or  *)
(* the mark that it cannot be played without a gap.                        *)
Prefetch(usable) ==
  /\ IsLoaded(transport) /\ ~transport.paused
  /\ transport.prefetch = NoPrefetch /\ transport.seek = NoSeek
  /\ \E entry \in PeekNatural(queue) :
       LET job == FreshJob(State)
       IN \/ /\ usable /\ FreeJobs(State) # {}
             /\ Become([State EXCEPT
                  !.jobs[job] = "filling",
                  !.transport.prefetch = [entry |-> entry, job |-> job]])
          \/ /\ ~usable
             /\ Become([State EXCEPT
                  !.transport.prefetch = [entry |-> entry, job |-> NoJob]])

Tick == Prefetch(TRUE) \/ Prefetch(FALSE) \/ \E luck \in Lucks : FinishIfDue(luck)

-----------------------------------------------------------------------------
(* The commands.  After each, a prefetch of something that does not play   *)
(* next any more is thrown away.                                           *)

Revalidated(s) ==
  IF IsLoaded(s.transport) /\ s.transport.prefetch.entry \notin PeekNatural(s.queue)
  THEN [s EXCEPT !.transport.prefetch = NoPrefetch] ELSE s

Asked(caller) == [State EXCEPT !.waiting = @ \cup {caller}]

Command(caller, s) ==
  /\ caller \notin waiting /\ FreeJobs(State) # {}
  /\ Become(Revalidated(s))

Fits(n) == queue.nextId + n <= MaxId + 1

ReplaceQueue(s, n, start) ==
  [s EXCEPT !.queue = CHOOSE q \in Replaced(s.queue, n, start) : TRUE,
            !.previous = IF IsEmpty(s.queue) THEN NoQueue ELSE s.queue,
            !.skipped = 0]

StartQueue(caller, n, start, luck) ==
  /\ ReplaceOk(n, start) /\ Fits(n)
  /\ Command(caller, StartCurrent(ReplaceQueue(Asked(caller), n, start), caller,
                                  FALSE, luck))

Navigate(caller, reason, luck) ==
  LET s == [Asked(caller) EXCEPT !.skipped = 0]
      paused == IsLoaded(transport) /\ transport.paused
  IN Command(caller,
       IF CanAdvance(queue, reason)
       THEN StartCurrent([s EXCEPT !.queue = Advance(queue, reason)], caller, paused, luck)
       ELSE Answer(s, caller))

PlayQueueItem(caller, id, luck) ==
  LET s == [Asked(caller) EXCEPT !.skipped = 0]
  IN Command(caller,
       IF JumpOk(queue, id)
       THEN StartCurrent([s EXCEPT !.queue = JumpedTo(queue, id)], caller, FALSE, luck)
       ELSE Answer(s, caller))

(* A stream that cannot be paused or resumed ends the playback; a track    *)
(* that loads only remembers how to start.                                 *)
SetPaused(caller, paused, works) ==
  LET s == Asked(caller)
  IN CASE IsLoading(transport) ->
            Answer([s EXCEPT !.transport.request.paused = paused], caller)
       [] IsLoaded(transport) /\ transport.paused # paused ->
            IF works
            THEN Answer(PublishState([s EXCEPT !.transport.paused = paused]), caller)
            ELSE FailForGood(s, caller)
       [] OTHER -> Answer(s, caller)

PauseOrResume(caller, paused, works) ==
  /\ paused \/ transport.kind # "failed"
  /\ Command(caller, SetPaused(caller, paused, works))

(* Resume after a failure.                                                 *)
Retry(caller, luck) ==
  /\ transport.kind = "failed"
  /\ Command(caller, StartCurrent([Asked(caller) EXCEPT !.skipped = 0], caller, FALSE, luck))

(* Previous seeks to the start of a track that has played a while.         *)
Seek(caller, target, luck) ==
  Command(caller, BeginSeek(Asked(caller), caller, target, luck))

(* A loaded track starts again on the new device, which holds once it      *)
(* plays; with nothing loaded it holds at once, and while one loads not.   *)
ChangeOutputSelection(caller, device, resolves, luck) ==
  LET s == Asked(caller)
      request == [NewStart(transport.entry, caller, transport.paused) EXCEPT
                    !.resume = TRUE, !.selection = device]
      idle == [s EXCEPT !.selection = device, !.transport = Idle]
  IN Command(caller,
       CASE IsLoaded(transport) ->
              IF transport.seek = NoSeek /\ device # selection /\ resolves
              THEN BeginStart(s, request, luck) ELSE Answer(s, caller)
         [] ~IsLoaded(transport) /\ ~IsLoading(transport) /\
              (resolves \/ device = Default) ->
              Answer(PublishState(idle), caller)
         [] OTHER -> Answer(s, caller))

(* An edit of what comes next, refused while a track loads.                *)
EditQueue(caller, edited, luck) ==
  Command(caller,
    Answer(IF IsLoading(transport) THEN Asked(caller)
           ELSE QueueChanged([Asked(caller) EXCEPT !.queue = edited], luck), caller))

(* Entries enqueued with nothing current start, and the answer does not    *)
(* wait for that.                                                          *)
StartEnqueued(caller, luck) ==
  /\ ~HasCurrent(queue) /\ Fits(1)
  /\ Command(caller,
       Answer(StartCurrent(ReplaceQueue(Asked(caller), 1, 1), NoOne, FALSE, luck), caller))

SetRepeatMode(caller, mode, luck) ==
  /\ mode # queue.repeat
  /\ Command(caller,
       Answer(QueueChanged([Asked(caller) EXCEPT !.queue.repeat = mode], luck), caller))

ClearQueue(caller, luck) ==
  /\ Upcoming(queue) # <<>>
  /\ Command(caller,
       Answer(QueueChanged([Asked(caller) EXCEPT !.queue = WithoutUpcoming(queue),
                                                 !.previous = queue], luck), caller))

(* Undo: the same entry plays on, another one starts.                      *)
RestorePreviousQueue(caller, luck) ==
  LET restored == CHOOSE q \in Restored(queue, previous) : TRUE
      s == [Asked(caller) EXCEPT !.queue = restored, !.previous = NoQueue, !.skipped = 0]
      same == /\ HasCurrent(queue) /\ HasCurrent(previous) /\ IsLoaded(transport)
              /\ CurrentId(queue) = CurrentId(previous)
  IN /\ previous # NoQueue
     /\ Command(caller, IF same THEN Answer(QueueChanged(s, luck), caller)
                        ELSE StartCurrent(s, caller, FALSE, luck))

NewQueues == {n \in 1..MaxLength : Fits(n)}

(* What a command that edits what comes next may make of the queue.        *)
Edits ==
  {WithoutUpcomingEntry(queue, id) : id \in UpcomingIds(queue)} \cup
  {WithMoved(queue, id, 0) : id \in {up \in UpcomingIds(queue) : MoveChanges(queue, up, 0)}} \cup
  {Enqueued(queue, 1, next) :
     next \in {n \in BOOLEAN : HasCurrent(queue) /\ Fits(1) /\ Length(queue) < MaxLength}}

AnyCommand(caller) ==
  \/ \E n \in NewQueues : \E start \in 1..n, luck \in LucksWith(ToSet(NewIds(queue, n))) :
       StartQueue(caller, n, start, luck)
  \/ \E luck \in LucksWith({queue.nextId}) : StartEnqueued(caller, luck)
  \/ \E luck \in Lucks :
       \/ \E reason \in {"next", "previous"} : Navigate(caller, reason, luck)
       \/ \E id \in Entries(queue) : PlayQueueItem(caller, id, luck)
       \/ Retry(caller, luck)
       \/ Seek(caller, "end", luck)
  \/ \E luck \in Opening :
       \/ \E target \in {"inside", "unknown"} : Seek(caller, target, luck)
       \/ \E device \in Devices, resolves \in BOOLEAN :
            ChangeOutputSelection(caller, device, resolves, luck)
  \/ \E paused, works \in BOOLEAN : PauseOrResume(caller, paused, works)
  \/ /\ previous # NoQueue
     /\ \E luck \in LucksWith(Entries(previous)) : RestorePreviousQueue(caller, luck)
  \/ \E luck \in Pruning :
       \/ \E edited \in Edits : EditQueue(caller, edited, luck)
       \/ \E mode \in RepeatModes : SetRepeatMode(caller, mode, luck)
       \/ ClearQueue(caller, luck)

-----------------------------------------------------------------------------
Init ==
  /\ queue = NewQueue("off", FALSE) /\ previous = NoQueue
  /\ transport = Idle /\ skipped = 0 /\ selection = Default
  /\ jobs = [j \in Jobs |-> "none"]
  /\ published = Render(Idle, Default) /\ shown = Shown(queue, NoQueue)
  /\ waiting = {}

Event ==
  \/ \E job \in Jobs : Report(job) \/ DecodeEnds(job)
  \/ \E changed, recovers \in BOOLEAN : StreamFailed(changed, recovers)
  \/ Tick

(* Callers are alike, so the one who asks next is any of those who may.    *)
NextCaller == CHOOSE caller \in Callers : caller \notin waiting

Next == Event \/ AnyCommand(NextCaller)

Spec == Init /\ [][Next]_vars

-----------------------------------------------------------------------------
(* Types; a job is owned in one place, and one that is owned by a start    *)
(* is still to report, so no start waits for nothing.                      *)
TypeOK ==
  /\ transport.kind \in {"idle", "loading", "loaded", "failed"}
  /\ skipped \in 0..MaxLength /\ selection \in Devices
  /\ jobs \in [Jobs -> {"none", "load", "filling", "decoding", "cancelled"}]
  /\ waiting \subseteq Callers
  /\ published \in [status : {"stopped", "playing", "paused", "failed"},
                    entry : 0..MaxId, skipping : BOOLEAN, selection : Devices]
  /\ IsLoading(transport) =>
       jobs[transport.job] = IF transport.stage = "source" THEN "load" ELSE "filling"
  /\ IsLoaded(transport) /\ transport.seek # NoSeek =>
       /\ jobs[transport.seek.job] = "filling"
       /\ transport.prefetch = NoPrefetch /\ transport.seek.job # transport.job

(* Whoever has not been answered is held by the start or the seek the      *)
(* worker is at: no caller waits for good, whatever replaces or fails what *)
(* it asked for.                                                           *)
WaitersAreHeld == waiting = Responders(transport)

Entry(t) ==
  CASE t.kind = "loading" -> t.request.entry
    [] t.kind = "loaded" -> t.entry
    [] OTHER -> NoEntry

(* What starts or is adopted is what the queue says is current, after any  *)
(* number of edits, vanished tracks, skips and failed switches.            *)
TrackFollowsTheQueue ==
  [][Entry(transport') \notin {NoEntry, Entry(transport)} =>
       HasCurrent(queue') /\ CurrentId(queue') = Entry(transport')]_vars

(* The stream plays on the device that is selected, also when a switch is  *)
(* replaced or fails half-way.                                             *)
SelectionIsWhatPlays ==
  /\ IsLoaded(transport) => transport.device = selection
  /\ IsLoading(transport) /\ transport.stage = "prebuffering" =>
       transport.device \in {selection, transport.request.selection}

(* Skipping comes to an end: the start of another entry for the same       *)
(* caller, with nothing new in the queue, has one more skip behind it, and *)
(* skips stay fewer than entries, whichever files fail, also in a queue    *)
(* that repeats or loses entries.                                          *)
SkipsRunOut ==
  [][(/\ IsLoading(transport) /\ IsLoading(transport')
      /\ transport'.request.responder = transport.request.responder
      /\ transport'.request.entry # transport.request.entry
      /\ queue'.nextId = queue.nextId) =>
        skipped' > skipped /\ skipped' < Length(queue)]_vars

(* What the comment on Failed says (session.rs): a failure with `skipping` *)
(* is a skip, so the worker is on to the next item when it rests.          *)
SkippingGoesOn == ~(transport.kind = "failed" /\ transport.skipping)

(* What the comment on resolve_current says: an entry that disappeared     *)
(* never stops the queue; in one that repeats, another is always next.     *)
VanishedTracksDoNotStop ==
  [][\A luck \in Lucks :
       (/\ luck.readable /\ luck.lost # Entries(queue)
        /\ queue.repeat = "all" /\ FinishIfDue(luck)) => ~IsEmpty(queue')]_vars
=============================================================================
