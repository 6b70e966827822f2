------------------------ MODULE PlaybackWorkerProofs ------------------------
(***************************************************************************)
(* Proofs about PlaybackWorker.tla: who waits and what plays, then the     *)
(* track, the queue and the skips.                                         *)
(***************************************************************************)
EXTENDS PlaybackWorker, PlaybackQueueProofs

JobStates == {"none", "load", "filling", "decoding", "cancelled"}
Responsible == Callers \cup {NoOne}

(* What a transport is made of.                                            *)
IsRequest(request) ==
  /\ DOMAIN request = {"entry", "responder", "paused", "resume", "selection"}
  /\ request.responder \in Responsible

Shaped(t) ==
  \/ t.kind \in {"idle", "failed"}
  \/ /\ t.kind = "loading"
     /\ DOMAIN t = {"kind", "request", "stage", "job", "device"}
     /\ IsRequest(t.request) /\ t.stage \in {"source", "prebuffering"}
  \/ /\ t.kind = "loaded"
     /\ DOMAIN t = {"kind", "entry", "device", "paused", "job", "seek", "prefetch"}
     /\ DOMAIN t.seek = {"job", "responder"} /\ t.seek.responder \in Responsible
     /\ DOMAIN t.prefetch = {"entry", "job"}

(* The device a start has opened, or the one that plays.                   *)
OnItsDevice(t, device) ==
  /\ IsLoaded(t) => t.device = device
  /\ IsLoading(t) /\ t.stage = "prebuffering" =>
       t.device = IF t.request.selection = NoDevice THEN device ELSE t.request.selection

(* A start has a thread that is still to report.                           *)
HasThread(t, threads) ==
  IsLoading(t) =>
    /\ t.job \in Jobs
    /\ threads[t.job] = IF t.stage = "source" THEN "load" ELSE "filling"

(* A state of the worker on its way: the handler itself is to answer those *)
(* `owed`, everyone else who waits is held by the transport.               *)
Owes(s, owed) ==
  /\ DOMAIN s = {"queue", "previous", "transport", "skipped", "selection", "jobs",
                 "published", "shown", "waiting"}
  /\ Shaped(s.transport) /\ OnItsDevice(s.transport, s.selection)
  /\ s.jobs \in [Jobs -> JobStates] /\ HasThread(s.transport, s.jobs)
  /\ owed \subseteq Callers \ Responders(s.transport)
  /\ s.waiting = Responders(s.transport) \cup owed

Spare(s) == \E j \in Jobs : s.jobs[j] = "none"

(* `h` differs from `s` in nothing that is promised to a caller.           *)
SameButQueue(h, s) ==
  /\ DOMAIN h = DOMAIN s /\ h.transport = s.transport /\ h.selection = s.selection
  /\ h.jobs = s.jobs /\ h.waiting = s.waiting

-----------------------------------------------------------------------------
(* What of a state the worker's promises are about.                        *)
LEMMA Alike ==
  ASSUME NEW s, NEW h, NEW owed, Owes(s, owed), SameButQueue(h, s)
  PROVE  Owes(h, owed)
BY DEF Owes, SameButQueue

LEMMA NobodyHolds ==
  /\ \A t : t.kind \in {"idle", "failed"} => Responders(t) = {}
  /\ Idle.kind = "idle" /\ \A scope, skipping : Failed(scope, skipping).kind = "failed"
  /\ \A t : t.kind = "loading" => Responders(t) = {t.request.responder} \ {NoOne}
  /\ \A t : t.kind = "loaded" => Responders(t) = {t.seek.responder} \ {NoOne}
<1>1. Idle.kind = "idle" /\ \A scope, skipping : Failed(scope, skipping).kind = "failed"
  BY DEF Idle, Failed
<1>2. \A t : t.kind \in {"idle", "failed"} => Responders(t) = {}
  BY Zenon DEF Responders
<1>3. /\ \A t : t.kind = "loading" => Responders(t) = {t.request.responder} \ {NoOne}
      /\ \A t : t.kind = "loaded" => Responders(t) = {t.seek.responder} \ {NoOne}
  BY Zenon DEF Responders
<1>4. QED
  BY <1>1, <1>2, <1>3

LEMMA NothingHeld ==
  ASSUME NEW t, t.kind \in {"idle", "failed"}, NEW device, NEW threads
  PROVE  /\ Shaped(t) /\ OnItsDevice(t, device) /\ HasThread(t, threads)
         /\ Responders(t) = {}
BY NobodyHolds DEF Shaped, OnItsDevice, HasThread, IsLoaded, IsLoading

LEMMA Answered ==
  ASSUME NEW s, NEW owed, Owes(s, owed), NEW r, r \in owed \cup {NoOne}
  PROVE  /\ Owes(Answer(s, r), owed \ {r})
         /\ Answer(s, r).jobs = s.jobs /\ Answer(s, r).transport = s.transport
<1>1. NoOne \notin Responders(s.transport)
  BY NobodyHolds DEF Owes, Shaped
<1>2. s.waiting \ {r} = Responders(s.transport) \cup (owed \ {r})
  BY <1>1 DEF Owes
<1>3. PICK h : h = Answer(s, r)
  OBVIOUS
<1>4. /\ DOMAIN h = DOMAIN s /\ h.transport = s.transport /\ h.selection = s.selection
      /\ h.jobs = s.jobs /\ h.waiting = s.waiting \ {r}
  BY <1>3 DEF Owes, Answer
<1>5. Owes(h, owed \ {r})
  BY <1>2, <1>4 DEF Owes
<1>6. QED
  BY <1>3, <1>4, <1>5

LEMMA StatePublished ==
  ASSUME NEW s, NEW owed, Owes(s, owed)
  PROVE  Owes(PublishState(s), owed) /\ SameButQueue(PublishState(s), s)
<1>1. SameButQueue(PublishState(s), s)
  BY DEF PublishState, Owes, SameButQueue
<1>2. QED
  BY <1>1, Alike

LEMMA QueueMoved ==
  ASSUME NEW s, NEW owed, Owes(s, owed), NEW q
  PROVE  Owes([s EXCEPT !.queue = q], owed) /\ SameButQueue([s EXCEPT !.queue = q], s)
<1>1. SameButQueue([s EXCEPT !.queue = q], s)
  BY DEF Owes, SameButQueue
<1>2. QED
  BY <1>1, Alike

LEMMA QueuePublished ==
  ASSUME NEW s, NEW owed, Owes(s, owed), NEW luck
  PROVE  Owes(PublishQueue(s, luck), owed) /\ SameButQueue(PublishQueue(s, luck), s)
<1>1. SameButQueue(PublishQueue(s, luck), s)
  BY DEF PublishQueue, Owes, SameButQueue
<1>2. QED
  BY <1>1, Alike

LEMMA BothPublished ==
  ASSUME NEW s, NEW owed, Owes(s, owed), NEW luck
  PROVE  Owes(QueueChanged(s, luck), owed) /\ SameButQueue(QueueChanged(s, luck), s)
BY QueuePublished, StatePublished DEF QueueChanged, SameButQueue

LEMMA SpareKept ==
  ASSUME NEW s, NEW h, SameButQueue(h, s), Spare(s)
  PROVE  Spare(h)
BY DEF Spare, SameButQueue

-----------------------------------------------------------------------------
(* Letting go, and starting.                                               *)
LEMMA Discarded ==
  ASSUME NEW s, NEW owed, Owes(s, owed)
  PROVE  /\ Owes(DiscardTransport(s), owed)
         /\ DiscardTransport(s).transport = Idle /\ DiscardTransport(s).jobs = s.jobs
<1>1. PICK h : h = DiscardTransport(s)
  OBVIOUS
<1>2. /\ DOMAIN h = DOMAIN s /\ h.transport = Idle /\ h.selection = s.selection
      /\ h.waiting = s.waiting \ Responders(s.transport) /\ h.jobs = s.jobs
  BY <1>1 DEF DiscardTransport, Owes
<1>3. s.waiting \ Responders(s.transport) = owed
  BY DEF Owes
<1>4. Shaped(Idle) /\ OnItsDevice(Idle, h.selection) /\ HasThread(Idle, s.jobs)
      /\ Responders(Idle) = {}
  BY NobodyHolds, NothingHeld
<1>5. Owes(h, owed)
  BY <1>2, <1>3, <1>4 DEF Owes
<1>6. QED
  BY <1>1, <1>2, <1>5

LEMMA FailureShown ==
  ASSUME NEW s, NEW owed, Owes(s, owed), NEW scope, NEW skipping
  PROVE  /\ Owes([DiscardTransport(s) EXCEPT !.transport = Failed(scope, skipping)], owed)
         /\ [DiscardTransport(s) EXCEPT !.transport = Failed(scope, skipping)].jobs = s.jobs
<1>1. PICK gone : gone = DiscardTransport(s)
  OBVIOUS
<1>2. Owes(gone, owed) /\ gone.transport = Idle /\ gone.jobs = s.jobs
  BY <1>1, Discarded
<1>3. PICK t : t = Failed(scope, skipping)
  OBVIOUS
<1>4. Shaped(t) /\ OnItsDevice(t, gone.selection) /\ HasThread(t, gone.jobs) /\ Responders(t) = {}
  BY <1>3, NobodyHolds, NothingHeld
<1>5. Responders(gone.transport) = {}
  BY <1>2, NobodyHolds
<1>6. Owes([gone EXCEPT !.transport = t], owed) /\ [gone EXCEPT !.transport = t].jobs = s.jobs
  BY <1>2, <1>4, <1>5 DEF Owes
<1>7. QED
  BY <1>1, <1>3, <1>6

LEMMA FailForGoodAnswers ==
  ASSUME NEW s, NEW owed, Owes(s, owed), NEW r, r \in owed \cup {NoOne}
  PROVE  Owes(FailForGood(s, r), owed \ {r})
BY FailureShown, StatePublished, Answered DEF FailForGood

(* A start holds whoever asked for it.                                     *)
LEMMA StartBegun ==
  ASSUME NEW s, NEW owed, Owes(s, owed), Spare(s), NEW luck,
         NEW request, IsRequest(request), request.responder \in owed \cup {NoOne}
  PROVE  Owes(BeginStart(s, request, luck), owed \ {request.responder})
<1> DEFINE gone == DiscardTransport(s)
           seen == IF s.transport.kind \in {"loaded", "failed"} THEN PublishState(gone) ELSE gone
           job == FreshJob(seen)
           loading == [kind |-> "loading", request |-> request, stage |-> "source", job |-> job,
                       device |-> NoDevice]
           r == request.responder
<1>1. Owes(seen, owed) /\ seen.transport = Idle /\ seen.jobs = s.jobs
  <2>1. Owes(gone, owed) /\ gone.transport = Idle /\ gone.jobs = s.jobs
    BY Discarded
  <2>2. QED
    BY <2>1, StatePublished DEF SameButQueue
<1>2. BeginStart(s, request, luck) =
        IF luck.opens THEN [seen EXCEPT !.jobs[job] = "load", !.transport = loading]
        ELSE FailForGood(seen, r)
  BY DEF BeginStart
<1>3. job \in Jobs
  <2>1. Owned(Idle) = {}
    BY Zenon DEF Owned, Idle
  <2>2. FreeJobs(seen) # {} /\ FreeJobs(seen) \subseteq Jobs
    BY <1>1, <2>1 DEF FreeJobs, Spare
  <2>3. QED
    BY <2>2 DEF FreshJob
<1> HIDE DEF seen, job
<1>4. CASE luck.opens
  <2>1. /\ loading.kind = "loading" /\ loading.request = request /\ loading.stage = "source"
        /\ loading.job = job
        /\ DOMAIN loading = {"kind", "request", "stage", "job", "device"}
    OBVIOUS
  <2> HIDE DEF loading
  <2>2. PICK h : h = [seen EXCEPT !.jobs[job] = "load", !.transport = loading]
    OBVIOUS
  <2>3. /\ DOMAIN h = DOMAIN seen /\ h.transport = loading /\ h.waiting = seen.waiting
        /\ h.jobs = [seen.jobs EXCEPT ![job] = "load"]
    BY <1>1, <2>2 DEF Owes
  <2>4. Responders(loading) = {r} \ {NoOne} /\ Responders(seen.transport) = {}
    BY <1>1, <2>1, NobodyHolds
  <2>5. Shaped(loading) /\ OnItsDevice(loading, h.selection) /\ HasThread(loading, h.jobs)
        /\ h.jobs \in [Jobs -> JobStates]
    BY <1>1, <1>3, <2>1, <2>3
       DEF Shaped, OnItsDevice, HasThread, IsLoaded, IsLoading, Owes, JobStates
  <2>6. owed \ {r} \subseteq Callers \ Responders(loading)
        /\ h.waiting = Responders(loading) \cup (owed \ {r})
    BY <1>1, <2>3, <2>4, NamesAssumption DEF Owes
  <2>7. Owes(h, owed \ {r})
    BY <1>1, <2>3, <2>5, <2>6 DEF Owes
  <2>8. QED
    BY <1>2, <1>4, <2>2, <2>7
<1>5. CASE ~luck.opens
  BY <1>1, <1>2, <1>5, FailForGoodAnswers
<1>6. QED
  BY <1>4, <1>5

(* What a CASE comes to is one of its values.                              *)
LEMMA OneOfThree ==
  ASSUME NEW a, NEW b, NEW u, NEW v, NEW w
  PROVE  (CASE a -> u [] b -> v [] OTHER -> w) \in {u, v, w}
BY Zenon

LEMMA OneOfFour ==
  ASSUME NEW a, NEW b, NEW c, NEW u, NEW v, NEW w, NEW x
  PROVE  (CASE a -> u [] b -> v [] c -> w [] OTHER -> x) \in {u, v, w, x}
BY Zenon

LEMMA PlainStart ==
  ASSUME NEW entry, NEW r, r \in Responsible, NEW paused
  PROVE  IsRequest(NewStart(entry, r, paused)) /\ NewStart(entry, r, paused).responder = r
BY DEF NewStart, IsRequest

(* A start after the queue is published, as all of the worker's own are.   *)
LEMMA StartPublished ==
  ASSUME NEW s, NEW owed, Owes(s, owed), Spare(s), NEW luck, NEW entry, NEW paused,
         NEW r, r \in owed \cup {NoOne}
  PROVE  Owes(BeginStart(PublishQueue(s, luck), NewStart(entry, r, paused), luck), owed \ {r})
<1>1. PICK seen : seen = PublishQueue(s, luck)
  OBVIOUS
<1>2. Owes(seen, owed) /\ Spare(seen)
  BY <1>1, QueuePublished, SpareKept
<1>3. PICK request : request = NewStart(entry, r, paused)
  OBVIOUS
<1>4. IsRequest(request) /\ request.responder = r
  BY <1>3, PlainStart DEF Owes, Responsible
<1>5. Owes(BeginStart(seen, request, luck), owed \ {r})
  BY <1>2, <1>4, StartBegun
<1>6. QED
  BY <1>1, <1>3, <1>5

LEMMA StoppedForGood ==
  ASSUME NEW s, NEW owed, Owes(s, owed), NEW luck, NEW r, r \in owed \cup {NoOne}
  PROVE  Owes(StopForGood(s, r, luck), owed \ {r})
<1>1. PICK gone : gone = DiscardTransport(s)
  OBVIOUS
<1>2. PICK stopped : stopped = [gone EXCEPT !.queue = Cleared(s.queue)]
  OBVIOUS
<1>3. Owes(stopped, owed)
  BY <1>1, <1>2, Discarded, QueueMoved
<1>4. Owes(Answer(QueueChanged(stopped, luck), r), owed \ {r})
  BY <1>3, BothPublished, Answered
<1>5. QED
  BY <1>1, <1>2, <1>4 DEF StopForGood

LEMMA CurrentStarted ==
  ASSUME NEW s, NEW owed, Owes(s, owed), Spare(s), NEW luck, NEW paused,
         NEW r, r \in owed \cup {NoOne}
  PROVE  Owes(StartCurrent(s, r, paused, luck), owed \ {r})
<1> DEFINE q == Resolved(s.queue, luck)
           moved == [s EXCEPT !.queue = q]
           h == StartCurrent(s, r, paused, luck)
<1>1. Owes(moved, owed) /\ Spare(moved)
  BY QueueMoved, SpareKept
<1>2. \/ h = Answer(s, r)
      \/ h = StopForGood(moved, r, luck)
      \/ h = Answer(PublishQueue(moved, luck), r)
      \/ h = BeginStart(PublishQueue(moved, luck), NewStart(CurrentId(q), r, paused), luck)
  <2>1. h \in {Answer(s, r), StopForGood(moved, r, luck),
               Answer(PublishQueue(moved, luck), r),
               BeginStart(PublishQueue(moved, luck), NewStart(CurrentId(q), r, paused), luck)}
    BY OneOfFour, Zenon DEF StartCurrent
  <2>2. QED
    BY <2>1
<1> HIDE DEF moved, q, h
<1>3. Owes(h, owed \ {r})
  BY <1>1, <1>2, Answered, StoppedForGood, QueuePublished, StartPublished
<1>4. QED
  BY <1>3 DEF h

LEMMA AdvancedAfterTrack ==
  ASSUME NEW s, NEW owed, Owes(s, owed), Spare(s), NEW luck, NEW paused,
         NEW r, r \in owed \cup {NoOne}
  PROVE  Owes(AdvanceAfterTrack(s, r, paused, luck), owed \ {r})
<1> DEFINE q == Resolved(Advance(s.queue, "natural"), luck)
           moved == [s EXCEPT !.queue = q]
           counted == [moved EXCEPT !.skipped = 0]
           h == AdvanceAfterTrack(s, r, paused, luck)
<1>1. Owes(moved, owed) /\ Spare(moved)
  BY QueueMoved, SpareKept
<1>2. Owes(counted, owed) /\ Spare(counted)
  <2>1. SameButQueue(counted, moved)
    BY <1>1 DEF Owes, SameButQueue
  <2>2. QED
    BY <1>1, <2>1, Alike, SpareKept
<1>3. \/ h = StopForGood(s, r, luck)
      \/ h = StopForGood(moved, r, luck)
      \/ h = Answer(QueueChanged(DiscardTransport(moved), luck), r)
      \/ h = BeginStart(PublishQueue(counted, luck), NewStart(CurrentId(q), r, paused), luck)
  <2>1. h \in {StopForGood(s, r, luck), StopForGood(moved, r, luck),
               Answer(QueueChanged(DiscardTransport(moved), luck), r),
               BeginStart(PublishQueue(counted, luck), NewStart(CurrentId(q), r, paused), luck)}
    BY OneOfFour, Zenon DEF AdvanceAfterTrack
  <2>2. QED
    BY <2>1
<1> HIDE DEF moved, q, counted, h
<1>4. Owes(h, owed \ {r})
  BY <1>1, <1>2, <1>3, Answered, StoppedForGood, Discarded, BothPublished, StartPublished
<1>5. QED
  BY <1>4 DEF h

-----------------------------------------------------------------------------
(* Failing.                                                                *)
LEMMA SkippedPast ==
  ASSUME NEW s, NEW owed, Owes(s, owed), Spare(s), NEW luck, NEW r, r \in owed \cup {NoOne}
  PROVE  Owes(SkipPast(s, r, luck), owed \ {r})
<1> DEFINE shownFailure == [DiscardTransport(s) EXCEPT
                              !.transport = Failed("item", WillSkip(s))]
           counted == [DiscardTransport(s) EXCEPT
                         !.transport = Failed("item", WillSkip(s)),
                         !.skipped = s.skipped + 1]
           failed == PublishState(counted)
           q == Resolved(Advance(s.queue, "next"), luck)
           moved == [failed EXCEPT !.queue = q]
           h == SkipPast(s, r, luck)
<1>1. Owes(shownFailure, owed) /\ shownFailure.jobs = s.jobs
  BY FailureShown
<1>2. SameButQueue(counted, shownFailure)
  <2>1. PICK gone : gone = DiscardTransport(s)
    OBVIOUS
  <2>2. Owes(gone, owed)
    BY <2>1, Discarded
  <2>3. SameButQueue([gone EXCEPT !.transport = Failed("item", WillSkip(s)),
                                  !.skipped = s.skipped + 1],
                     [gone EXCEPT !.transport = Failed("item", WillSkip(s))])
    BY <2>2 DEF SameButQueue, Owes
  <2>4. QED
    BY <2>1, <2>3
<1>3. h = Answer(failed, r) \/ h = Answer(moved, r)
      \/ h = BeginStart(PublishQueue(moved, luck), NewStart(CurrentId(q), r, FALSE), luck)
  BY Zenon DEF SkipPast
<1>4. Owes(counted, owed) /\ Spare(counted)
  <2> HIDE DEF counted, shownFailure
  <2>1. QED
    BY <1>1, <1>2, Alike, SpareKept DEF Spare
<1> HIDE DEF counted, q, h
<1>5. Owes(failed, owed) /\ Spare(failed)
  BY <1>4, StatePublished, SpareKept
<1> HIDE DEF failed
<1>6. Owes(moved, owed) /\ Spare(moved)
  BY <1>5, QueueMoved, SpareKept
<1> HIDE DEF moved
<1>7. Owes(h, owed \ {r})
  <2>1. Owes(Answer(failed, r), owed \ {r}) /\ Owes(Answer(moved, r), owed \ {r})
    BY <1>5, <1>6, Answered
  <2>2. Owes(BeginStart(PublishQueue(moved, luck), NewStart(CurrentId(q), r, FALSE), luck),
             owed \ {r})
    BY <1>6, StartPublished
  <2>3. QED
    BY <1>3, <2>1, <2>2
<1>8. QED
  BY <1>7 DEF h

(* `s` is the state `before` it once a thread has reported.                *)
Reported(s, before) ==
  /\ DOMAIN s = DOMAIN before /\ s.transport = before.transport
  /\ s.selection = before.selection /\ s.waiting = before.waiting
  /\ s.jobs \in [Jobs -> JobStates]

LEMMA StartFailed ==
  ASSUME NEW before, Owes(before, {}), NEW s, Reported(s, before), IsLoading(s.transport),
         NEW scope, NEW luck, scope = "item" => Spare(s)
  PROVE  Owes(FailStart(s, scope, luck), {})
<1> DEFINE r == s.transport.request.responder
           failed == [s EXCEPT !.transport = Idle]
<1>1. r \in Responsible /\ Responders(s.transport) = {r} \ {NoOne}
  BY NobodyHolds DEF Owes, Reported, IsLoading, Shaped, IsRequest
<1>2. /\ DOMAIN failed = DOMAIN before /\ failed.transport = Idle
      /\ failed.jobs = s.jobs /\ failed.waiting = before.waiting
  BY DEF Owes, Reported
<1>3. Shaped(Idle) /\ OnItsDevice(Idle, failed.selection) /\ HasThread(Idle, failed.jobs)
      /\ Responders(Idle) = {}
  BY NobodyHolds, NothingHeld
<1>4. \/ FailStart(s, scope, luck) = FailForGood(failed, r)
      \/ scope = "item" /\ FailStart(s, scope, luck) = SkipPast(failed, r, luck)
  BY DEF FailStart
<1> HIDE DEF failed, r
<1>5. Owes(failed, {r} \ {NoOne})
  BY <1>1, <1>2, <1>3 DEF Owes, Reported, Responsible
<1>6. r \in ({r} \ {NoOne}) \cup {NoOne} /\ ({r} \ {NoOne}) \ {r} = {}
  OBVIOUS
<1>7. scope = "item" => Spare(failed)
  BY <1>2 DEF Spare
<1> DEFINE owed == {r} \ {NoOne}
<1> HIDE DEF owed
<1>8. Owes(failed, owed) /\ r \in owed \cup {NoOne} /\ owed \ {r} = {}
  BY <1>5, <1>6 DEF owed
<1>9. QED
  BY <1>4, <1>7, <1>8, FailForGoodAnswers, SkippedPast

-----------------------------------------------------------------------------
(* Seeking.                                                                *)

(* A loaded track, however its parts are changed, if its device is not.    *)
LEMMA LoadedKept ==
  ASSUME NEW s, NEW owed, Owes(s, owed), IsLoaded(s.transport),
         NEW h, DOMAIN h = DOMAIN s, h.selection = s.selection,
         h.jobs \in [Jobs -> JobStates],
         h.transport.kind = "loaded", DOMAIN h.transport = DOMAIN s.transport,
         h.transport.device = s.transport.device,
         DOMAIN h.transport.seek = {"job", "responder"},
         h.transport.seek.responder \in Responsible,
         DOMAIN h.transport.prefetch = {"entry", "job"},
         NEW left, left \subseteq Callers \ {h.transport.seek.responder},
         h.waiting = ({h.transport.seek.responder} \ {NoOne}) \cup left
  PROVE  Owes(h, left)
<1>1. Responders(h.transport) = {h.transport.seek.responder} \ {NoOne}
  BY NobodyHolds
<1>2. Shaped(h.transport) /\ OnItsDevice(h.transport, h.selection)
      /\ HasThread(h.transport, h.jobs)
  BY DEF Owes, Shaped, OnItsDevice, HasThread, IsLoaded, IsLoading
<1>3. QED
  BY <1>1, <1>2 DEF Owes

LEMMA SeekCancelled ==
  ASSUME NEW s, NEW owed, Owes(s, owed)
  PROVE  /\ Owes(CancelSeek(s), owed) /\ CancelSeek(s).jobs = s.jobs
         /\ IsLoaded(s.transport) =>
              /\ CancelSeek(s).transport = [s.transport EXCEPT !.seek = NoSeek]
              /\ CancelSeek(s).waiting = owed
         /\ ~IsLoaded(s.transport) => CancelSeek(s) = s
<1>1. CASE ~IsLoaded(s.transport)
  BY <1>1 DEF CancelSeek
<1>2. CASE IsLoaded(s.transport)
  <2>1. PICK h : h = CancelSeek(s)
    OBVIOUS
  <2>2. h = [s EXCEPT !.transport.seek = NoSeek, !.waiting = @ \ Responders(s.transport)]
    BY <1>2, <2>1 DEF CancelSeek
  <2>3. /\ DOMAIN h = DOMAIN s /\ h.selection = s.selection /\ h.jobs = s.jobs
        /\ h.transport = [s.transport EXCEPT !.seek = NoSeek]
        /\ h.waiting = s.waiting \ Responders(s.transport)
    BY <2>2 DEF Owes
  <2>4. h.waiting = owed
    BY <2>3 DEF Owes
  <2>5. /\ h.transport.kind = "loaded" /\ DOMAIN h.transport = DOMAIN s.transport
        /\ h.transport.device = s.transport.device /\ h.transport.seek = NoSeek
        /\ DOMAIN h.transport.prefetch = {"entry", "job"}
    BY <1>2, <2>3 DEF Owes, Shaped, IsLoaded
  <2>6. DOMAIN NoSeek = {"job", "responder"} /\ NoSeek.responder = NoOne
    BY DEF NoSeek
  <2>7. /\ DOMAIN h.transport.seek = {"job", "responder"}
        /\ h.transport.seek.responder \in Responsible
        /\ owed \subseteq Callers \ {h.transport.seek.responder}
        /\ h.waiting = ({h.transport.seek.responder} \ {NoOne}) \cup owed
        /\ h.jobs \in [Jobs -> JobStates]
    BY <2>3, <2>4, <2>5, <2>6, NamesAssumption DEF Owes, Responsible
  <2>8. Owes(h, owed)
    BY <1>2, <2>3, <2>5, <2>7, LoadedKept
  <2>9. QED
    BY <1>2, <2>1, <2>3, <2>4, <2>8
<1>3. QED
  BY <1>1, <1>2

LEMMA PrefetchDropped ==
  ASSUME NEW s, NEW owed, Owes(s, owed), IsLoaded(s.transport), NEW prefetch,
         DOMAIN prefetch = {"entry", "job"}
  PROVE  LET h == [s EXCEPT !.transport.prefetch = prefetch]
         IN /\ Owes(h, owed) /\ h.jobs = s.jobs /\ h.waiting = s.waiting
            /\ h.transport = [s.transport EXCEPT !.prefetch = prefetch]
<1>1. PICK h : h = [s EXCEPT !.transport.prefetch = prefetch]
  OBVIOUS
<1>2. /\ DOMAIN h = DOMAIN s /\ h.selection = s.selection /\ h.jobs = s.jobs
      /\ h.transport = [s.transport EXCEPT !.prefetch = prefetch] /\ h.waiting = s.waiting
  BY <1>1 DEF Owes
<1>3. /\ h.transport.kind = "loaded" /\ DOMAIN h.transport = DOMAIN s.transport
      /\ h.transport.device = s.transport.device /\ h.transport.seek = s.transport.seek
      /\ h.transport.prefetch = prefetch
      /\ DOMAIN h.transport.seek = {"job", "responder"}
      /\ h.transport.seek.responder \in Responsible
  BY <1>2 DEF Owes, Shaped, IsLoaded
<1>4. Responders(s.transport) = {h.transport.seek.responder} \ {NoOne}
  BY <1>3, NobodyHolds DEF IsLoaded
<1>5. /\ owed \subseteq Callers \ {h.transport.seek.responder}
      /\ h.waiting = ({h.transport.seek.responder} \ {NoOne}) \cup owed
      /\ h.jobs \in [Jobs -> JobStates]
  BY <1>2, <1>4, NamesAssumption DEF Owes
<1>6. Owes(h, owed)
  BY <1>2, <1>3, <1>5, LoadedKept
<1>7. QED
  BY <1>1, <1>2, <1>6

LEMMA SeekBegun ==
  ASSUME NEW s, NEW owed, Owes(s, owed), FreeJobs(s) # {}, NEW target, NEW luck,
         NEW r, r \in owed \cup {NoOne}
  PROVE  Owes(BeginSeek(s, r, target, luck), owed \ {r})
<1> DEFINE free == CancelSeek(s)
           alone == IF IsLoaded(s.transport) THEN [free EXCEPT !.transport.prefetch = NoPrefetch]
                    ELSE free
           job == FreshJob(alone)
           sought == [alone EXCEPT !.jobs[job] = "filling",
                                   !.transport.seek = [job |-> job, responder |-> r]]
           h == BeginSeek(s, r, target, luck)
<1>1. Owes(alone, owed) /\ alone.jobs = s.jobs
      /\ (IsLoaded(s.transport) =>
            /\ alone.transport.kind = "loaded" /\ alone.waiting = owed
            /\ alone.transport.job = s.transport.job
            /\ alone.transport.seek = NoSeek /\ alone.transport.prefetch = NoPrefetch)
  <2>1. Owes(free, owed) /\ free.jobs = s.jobs
    BY SeekCancelled
  <2>2. CASE IsLoaded(s.transport)
    <3>1. free.transport = [s.transport EXCEPT !.seek = NoSeek] /\ free.waiting = owed
      BY <2>2, SeekCancelled
    <3>2. DOMAIN s.transport = {"kind", "entry", "device", "paused", "job", "seek", "prefetch"}
          /\ s.transport.kind = "loaded"
      BY <2>2 DEF Owes, Shaped, IsLoaded
    <3>3. IsLoaded(free.transport) /\ DOMAIN NoPrefetch = {"entry", "job"}
      BY <3>1, <3>2 DEF IsLoaded, NoPrefetch
    <3> HIDE DEF free
    <3>4. /\ Owes(alone, owed) /\ alone.jobs = s.jobs /\ alone.waiting = owed
          /\ alone.transport = [free.transport EXCEPT !.prefetch = NoPrefetch]
      BY <2>1, <2>2, <3>1, <3>3, PrefetchDropped
    <3> HIDE DEF alone
    <3>5. QED
      BY <3>1, <3>2, <3>4
  <2>3. CASE ~IsLoaded(s.transport)
    BY <2>1, <2>3
  <2>4. QED
    BY <2>2, <2>3
<1>2. (job \in Jobs /\ Spare(alone)) \/ ~IsLoaded(s.transport)
  <2>1. SUFFICES ASSUME IsLoaded(s.transport) PROVE job \in Jobs /\ Spare(alone)
    OBVIOUS
  <2> HIDE DEF alone
  <2>2. /\ Owned(alone.transport) =
             {alone.transport.job, alone.transport.seek.job, alone.transport.prefetch.job}
               \ {NoJob}
        /\ Owned(s.transport) =
             {s.transport.job, s.transport.seek.job, s.transport.prefetch.job} \ {NoJob}
    <3>1. \A t : t.kind = "loaded" => Owned(t) = {t.job, t.seek.job, t.prefetch.job} \ {NoJob}
      BY Zenon DEF Owned
    <3>2. QED
      BY <1>1, <2>1, <3>1 DEF IsLoaded
  <2>3. NoSeek.job = NoJob /\ NoPrefetch.job = NoJob
    BY DEF NoSeek, NoPrefetch
  <2>4. Owned(alone.transport) \subseteq Owned(s.transport)
    BY <1>1, <2>1, <2>2, <2>3
  <2>5. FreeJobs(alone) # {} /\ FreeJobs(alone) \subseteq Jobs
        /\ \A j \in FreeJobs(alone) : alone.jobs[j] = "none"
    BY <1>1, <2>4 DEF FreeJobs
  <2>6. QED
    BY <2>5 DEF FreshJob, Spare
<1>3. \/ h = Answer(alone, r)
      \/ IsLoaded(s.transport) /\ h = AdvanceAfterTrack(alone, r, s.transport.paused, luck)
      \/ IsLoaded(s.transport) /\ h = sought
  BY Zenon DEF BeginSeek
<1> HIDE DEF alone, h, job
<1>4. ASSUME IsLoaded(s.transport), h = AdvanceAfterTrack(alone, r, s.transport.paused, luck)
      PROVE  Owes(h, owed \ {r})
  BY <1>1, <1>2, <1>4, AdvancedAfterTrack
<1>5. ASSUME IsLoaded(s.transport)
      PROVE  Owes(sought, owed \ {r})
  <2>1. PICK seek : seek = [job |-> job, responder |-> r]
    OBVIOUS
  <2>2. DOMAIN seek = {"job", "responder"} /\ seek.responder = r
    BY <2>1
  <2>3. PICK g : g = [alone EXCEPT !.jobs[job] = "filling", !.transport.seek = seek]
    OBVIOUS
  <2>4. /\ DOMAIN g = DOMAIN alone /\ g.selection = alone.selection /\ g.waiting = alone.waiting
        /\ g.jobs = [alone.jobs EXCEPT ![job] = "filling"]
        /\ g.transport = [alone.transport EXCEPT !.seek = seek]
    BY <1>1, <2>3 DEF Owes
  <2>5. /\ g.transport.kind = "loaded" /\ DOMAIN g.transport = DOMAIN alone.transport
        /\ g.transport.device = alone.transport.device /\ g.transport.seek = seek
        /\ DOMAIN g.transport.prefetch = {"entry", "job"}
    BY <1>1, <1>5, <2>4 DEF Owes, Shaped
  <2>6. g.jobs \in [Jobs -> JobStates]
    BY <1>1, <1>2, <1>5, <2>4 DEF Owes, JobStates
  <2>7. /\ r \in Responsible /\ owed \ {r} \subseteq Callers \ {r}
        /\ owed = ({r} \ {NoOne}) \cup (owed \ {r})
    BY NamesAssumption DEF Owes, Responsible
  <2>8. Owes(g, owed \ {r})
    BY <1>1, <1>5, <2>2, <2>4, <2>5, <2>6, <2>7, LoadedKept DEF IsLoaded
  <2>9. QED
    BY <2>1, <2>3, <2>8
<1>6. Owes(h, owed \ {r})
  BY <1>1, <1>3, <1>4, <1>5, Answered
<1>7. QED
  BY <1>6 DEF h

LEMMA SeekFinished ==
  ASSUME NEW s, Owes(s, {}), IsLoaded(s.transport)
  PROVE  Owes(FinishSeek(s), {})
<1> DEFINE r == s.transport.seek.responder
<1>1. PICK h : h = [s EXCEPT !.transport.job = s.transport.seek.job, !.transport.seek = NoSeek]
  OBVIOUS
<1>2. /\ DOMAIN h = DOMAIN s /\ h.selection = s.selection /\ h.waiting = s.waiting
      /\ h.jobs = s.jobs
      /\ h.transport = [s.transport EXCEPT !.job = s.transport.seek.job, !.seek = NoSeek]
  BY <1>1 DEF Owes, Shaped, IsLoaded
<1>3. /\ h.transport.kind = "loaded" /\ DOMAIN h.transport = DOMAIN s.transport
      /\ h.transport.device = s.transport.device /\ h.transport.seek = NoSeek
      /\ DOMAIN h.transport.prefetch = {"entry", "job"}
  BY <1>2 DEF Owes, Shaped, IsLoaded
<1>4. DOMAIN NoSeek = {"job", "responder"} /\ NoSeek.responder = NoOne
  BY DEF NoSeek
<1>5. h.waiting = {r} \ {NoOne} /\ r \in Responsible
  BY <1>2, NobodyHolds DEF Owes, IsLoaded, Shaped
<1> HIDE DEF r
<1>6. PICK owed : owed = {r} \ {NoOne}
  OBVIOUS
<1>7. Owes(h, owed)
  <2>1. /\ DOMAIN h.transport.seek = {"job", "responder"}
        /\ h.transport.seek.responder \in Responsible
        /\ owed \subseteq Callers \ {h.transport.seek.responder}
        /\ h.waiting = ({h.transport.seek.responder} \ {NoOne}) \cup owed
        /\ h.jobs \in [Jobs -> JobStates]
    BY <1>2, <1>3, <1>4, <1>5, <1>6, NamesAssumption DEF Owes, Responsible
  <2>2. QED
    BY <1>2, <1>3, <2>1, LoadedKept
<1>8. r \in owed \cup {NoOne} /\ owed \ {r} = {}
  BY <1>6
<1>9. Owes(Answer(PublishState(h), r), {})
  BY <1>7, <1>8, StatePublished, Answered
<1>10. QED
  BY <1>1, <1>9 DEF FinishSeek, r

-----------------------------------------------------------------------------
(* What the threads report.                                                *)
LEMMA Prebuffering ==
  ASSUME NEW before, Owes(before, {}), NEW s, Reported(s, before), IsLoading(s.transport),
         Spare(s), NEW opened, NEW luck
  PROVE  Owes(BeginPrebuffering(s, opened, luck), {})
<1> DEFINE request == s.transport.request
           free == [s EXCEPT !.transport = Idle]
           job == FreshJob(free)
           device == IF request.selection = NoDevice THEN s.selection ELSE request.selection
<1>1. CASE opened # "ok"
  <2>1. BeginPrebuffering(s, opened, luck) = FailStart(s, opened, luck)
    BY <1>1 DEF BeginPrebuffering
  <2>2. QED
    BY <2>1, StartFailed
<1>2. CASE opened = "ok"
  <2>1. job \in Jobs
    <3>1. Owned(Idle) = {}
      BY Zenon DEF Owned, Idle
    <3>2. free.transport = Idle /\ free.jobs = s.jobs
      BY DEF Reported, Owes
    <3>3. FreeJobs(free) # {} /\ FreeJobs(free) \subseteq Jobs
      BY <3>1, <3>2 DEF FreeJobs, Spare
    <3>4. QED
      BY <3>3 DEF FreshJob
  <2> HIDE DEF job
  <2>2. PICK h : h = [s EXCEPT !.jobs[job] = "filling", !.transport.stage = "prebuffering",
                              !.transport.job = job, !.transport.device = device]
    OBVIOUS
  <2>3. BeginPrebuffering(s, opened, luck) = h
    BY <1>2, <2>2 DEF BeginPrebuffering, job
  <2>4. /\ DOMAIN h = DOMAIN before /\ h.selection = s.selection /\ h.waiting = s.waiting
        /\ h.jobs = [s.jobs EXCEPT ![job] = "filling"]
        /\ h.transport = [s.transport EXCEPT !.stage = "prebuffering", !.job = job,
                                            !.device = device]
    BY <2>2 DEF Owes, Reported
  <2>5. /\ DOMAIN s.transport = {"kind", "request", "stage", "job", "device"}
        /\ s.transport.kind = "loading" /\ IsRequest(s.transport.request)
    BY DEF Owes, Reported, Shaped, IsLoading
  <2>6. /\ DOMAIN h.transport = DOMAIN s.transport /\ h.transport.kind = "loading"
        /\ h.transport.request = s.transport.request
        /\ h.transport.stage = "prebuffering" /\ h.transport.job = job
        /\ h.transport.device = device
    BY <2>4, <2>5
  <2>7. Responders(h.transport) = Responders(before.transport)
    BY <2>5, <2>6, NobodyHolds DEF Reported
  <2>8. /\ Shaped(h.transport) /\ OnItsDevice(h.transport, h.selection)
        /\ HasThread(h.transport, h.jobs) /\ h.jobs \in [Jobs -> JobStates]
    BY <2>1, <2>4, <2>5, <2>6
       DEF Shaped, OnItsDevice, HasThread, IsLoaded, IsLoading, Reported, JobStates
  <2>9. Owes(h, {})
    BY <2>4, <2>7, <2>8 DEF Owes, Reported
  <2>10. QED
    BY <2>3, <2>9
<1>3. QED
  BY <1>1, <1>2

LEMMA StartFinished ==
  ASSUME NEW before, Owes(before, {}), NEW s, Reported(s, before), IsLoading(s.transport),
         s.transport.stage = "prebuffering",
         s.transport.request.resume => \E j \in Jobs : s.jobs[j] = "none" /\ j # s.transport.job,
         NEW starts, NEW target, NEW luck
  PROVE  Owes(FinishStart(s, starts, target, luck), {})
<1> DEFINE request == s.transport.request
           r == request.responder
           track == [kind |-> "loaded", entry |-> request.entry,
                     device |-> s.transport.device, paused |-> request.paused,
                     job |-> s.transport.job, seek |-> NoSeek,
                     prefetch |-> NoPrefetch]
           loaded == [s EXCEPT
             !.selection = IF request.selection = NoDevice THEN @ ELSE request.selection,
             !.skipped = 0,
             !.transport = track]
           playing == Answer(PublishState(loaded), r)
           h == FinishStart(s, starts, target, luck)
<1>1. h \in {FailStart(s, "output", luck), BeginSeek(playing, NoOne, target, luck), playing}
  BY OneOfThree, Zenon DEF FinishStart
<1>1a. request.resume \/ h \in {FailStart(s, "output", luck), playing}
  <2>1. CASE request.resume
    BY <2>1
  <2>2. CASE ~request.resume
    <3>1. h = CASE ~request.paused /\ ~starts -> FailStart(s, "output", luck)
                [] (request.paused \/ starts) /\ request.resume ->
                     BeginSeek(playing, NoOne, target, luck)
                [] OTHER -> playing
      BY Zenon DEF FinishStart
    <3> HIDE DEF h, playing
    <3>2. h = FailStart(s, "output", luck) \/ h = playing
      BY <2>2, <3>1, Zenon
    <3>3. QED
      BY <3>2
  <2>3. QED
    BY <2>1, <2>2
<1>2. /\ IsRequest(request) /\ r \in Responsible
      /\ s.waiting = {r} \ {NoOne}
      /\ s.transport.device = IF request.selection = NoDevice THEN s.selection
                              ELSE request.selection
  BY NobodyHolds DEF Owes, Reported, Shaped, IsLoading, OnItsDevice, IsRequest
<1>3. /\ track.kind = "loaded" /\ track.device = s.transport.device /\ track.job = s.transport.job
      /\ track.seek = NoSeek /\ track.prefetch = NoPrefetch
      /\ DOMAIN track = {"kind", "entry", "device", "paused", "job", "seek", "prefetch"}
  OBVIOUS
<1>4. /\ DOMAIN loaded = DOMAIN before /\ loaded.waiting = s.waiting
      /\ loaded.jobs = s.jobs /\ loaded.transport = track
      /\ loaded.selection = IF request.selection = NoDevice THEN s.selection
                            ELSE request.selection
  BY DEF Owes, Reported
<1> HIDE DEF track, loaded
<1>5. DOMAIN NoSeek = {"job", "responder"} /\ DOMAIN NoPrefetch = {"entry", "job"}
      /\ NoSeek.responder = NoOne /\ NoSeek.job = NoJob /\ NoPrefetch.job = NoJob
  BY DEF NoSeek, NoPrefetch
<1>6. Responders(track) = {}
  BY <1>3, <1>5, NobodyHolds
<1>7. Shaped(track) /\ OnItsDevice(track, loaded.selection) /\ HasThread(track, loaded.jobs)
  BY <1>2, <1>3, <1>4, <1>5
     DEF Shaped, OnItsDevice, HasThread, IsLoaded, IsLoading, Responsible
<1> HIDE DEF r
<1>8. PICK owed : owed = {r} \ {NoOne}
  OBVIOUS
<1>9. Owes(loaded, owed) /\ r \in owed \cup {NoOne} /\ owed \ {r} = {}
  BY <1>2, <1>4, <1>6, <1>7, <1>8 DEF Owes, Reported, Responsible
<1>10. Owes(playing, {}) /\ playing.jobs = s.jobs /\ playing.transport = track
  BY <1>4, <1>9, StatePublished, Answered DEF SameButQueue
<1> HIDE DEF playing
<1>11. Owes(FailStart(s, "output", luck), {})
  BY StartFailed
<1>12. ASSUME request.resume
       PROVE  Owes(BeginSeek(playing, NoOne, target, luck), {})
  <2>1. Owned(track) = {track.job, track.seek.job, track.prefetch.job} \ {NoJob}
    <3>1. \A t : t.kind = "loaded" => Owned(t) = {t.job, t.seek.job, t.prefetch.job} \ {NoJob}
      BY Zenon DEF Owned
    <3>2. QED
      BY <1>3, <3>1
  <2>2. FreeJobs(playing) # {}
    BY <1>3, <1>5, <1>10, <1>12, <2>1 DEF FreeJobs
  <2>3. NoOne \in {} \cup {NoOne} /\ {} \ {NoOne} = {}
    OBVIOUS
  <2>4. QED
    BY <1>10, <2>2, <2>3, SeekBegun
<1>13. QED
  BY <1>1, <1>1a, <1>10, <1>11, <1>12

-----------------------------------------------------------------------------
(* An input taken to the end.                                              *)
IInv == Owes(State, {})

LEMMA StateFields ==
  /\ DOMAIN State = {"queue", "previous", "transport", "skipped", "selection", "jobs",
                     "published", "shown", "waiting"}
  /\ State.transport = transport /\ State.jobs = jobs /\ State.selection = selection
  /\ State.waiting = waiting /\ State.queue = queue
BY DEF State

LEMMA Became ==
  ASSUME NEW s, Owes(s, {}), Become(s)
  PROVE  IInv'
<1>1. /\ DOMAIN State' = DOMAIN s /\ State'.transport = s.transport
      /\ State'.selection = s.selection /\ State'.waiting = s.waiting
      /\ State'.jobs = [j \in Jobs |-> IF s.jobs[j] # "none" /\ j \notin Owned(s.transport)
                                       THEN "cancelled" ELSE s.jobs[j]]
  BY DEF Become, State, Owes
<1>2. State'.jobs \in [Jobs -> JobStates]
  BY <1>1 DEF Owes, JobStates
<1>3. HasThread(s.transport, State'.jobs)
  <2>1. SUFFICES ASSUME IsLoading(s.transport)
                 PROVE  HasThread(s.transport, State'.jobs)
    BY DEF HasThread
  <2>2. s.transport.job \in Owned(s.transport)
    <3>1. \A t : t.kind = "loading" => Owned(t) = {t.job}
      BY Zenon DEF Owned
    <3>2. QED
      BY <2>1, <3>1 DEF IsLoading
  <2>3. QED
    BY <1>1, <2>2 DEF HasThread, Owes
<1>4. Owes(State', {})
  BY <1>1, <1>2, <1>3 DEF Owes
<1>5. QED
  BY <1>4 DEF IInv

LEMMA ThreadReported ==
  ASSUME IInv, NEW job \in Jobs, NEW state \in JobStates
  PROVE  LET s == [State EXCEPT !.jobs[job] = state]
         IN /\ Reported(s, State) /\ s.jobs = [jobs EXCEPT ![job] = state]
            /\ s.transport = transport
            /\ (IsLoading(transport) => transport.job # job) => Owes(s, {})
<1>1. PICK s : s = [State EXCEPT !.jobs[job] = state]
  OBVIOUS
<1>2. jobs \in [Jobs -> JobStates]
  BY StateFields DEF IInv, Owes
<1>3. Reported(s, State) /\ s.jobs = [jobs EXCEPT ![job] = state] /\ s.transport = transport
  BY <1>1, <1>2, StateFields DEF Reported
<1>4. ASSUME IsLoading(transport) => transport.job # job
      PROVE  Owes(s, {})
  <2>1. HasThread(transport, s.jobs)
    BY <1>2, <1>3, <1>4, StateFields DEF IInv, Owes, HasThread
  <2>2. QED
    BY <1>3, <2>1, StateFields DEF IInv, Owes, Reported
<1>5. QED
  BY <1>1, <1>3, <1>4

(* As the reports put it: the thread has nothing more to say.              *)
LEMMA ThreadGone ==
  ASSUME IInv, NEW job \in Jobs
  PROVE  /\ Reported(Without(job), State) /\ Without(job).transport = transport
         /\ Spare(Without(job))
         /\ (IsLoading(transport) => transport.job # job) => Owes(Without(job), {})
<1>1. "none" \in JobStates
  BY DEF JobStates
<1>2. PICK s : s = Without(job)
  OBVIOUS
<1>3. /\ Reported(s, State) /\ s.jobs = [jobs EXCEPT ![job] = "none"]
      /\ s.transport = transport
      /\ (IsLoading(transport) => transport.job # job) => Owes(s, {})
  BY <1>1, <1>2, ThreadReported DEF Without
<1>4. Spare(s)
  BY <1>3, StateFields DEF Spare, IInv, Owes
<1>5. QED
  BY <1>2, <1>3, <1>4

LEMMA SourceLoadedKeeps ==
  ASSUME IInv, NEW job \in Jobs, NEW opened, NEW luck, SourceLoaded(job, opened, luck)
  PROVE  IInv'
<1>1. CASE IsLoading(transport) /\ transport.job = job
  <2>1. Become(BeginPrebuffering(Without(job), opened, luck))
    BY <1>1 DEF SourceLoaded
  <2>2. Owes(BeginPrebuffering(Without(job), opened, luck), {})
    BY <1>1, ThreadGone, Prebuffering DEF IInv
  <2>3. QED
    BY <2>1, <2>2, Became
<1>2. CASE ~(IsLoading(transport) /\ transport.job = job)
  BY <1>2, ThreadGone, Became DEF SourceLoaded
<1>3. QED
  BY <1>1, <1>2

LEMMA PrebufferReadyKeeps ==
  ASSUME IInv, NEW job \in Jobs, NEW starts, NEW target, NEW luck,
         PrebufferReady(job, starts, target, luck)
  PROVE  IInv'
<1> DEFINE s == [State EXCEPT !.jobs[job] = IF @ = "filling" THEN "decoding" ELSE "none"]
<1>1. \E state \in {"decoding", "none"} : s = [State EXCEPT !.jobs[job] = state]
  BY StateFields
<1>2. \/ /\ IsLoading(transport) /\ transport.job = job
         /\ transport.request.resume => FreeJobs(s) # {}
         /\ Become(FinishStart(s, starts, target, luck))
      \/ /\ ~(IsLoading(transport) /\ transport.job = job)
         /\ \/ IsLoaded(transport) /\ Become(FinishSeek(s))
            \/ Become(s)
  <2>1. ~(IsLoading(transport) /\ IsLoaded(transport))
    BY DEF IsLoading, IsLoaded
  <2>2. (CASE IsLoading(transport) /\ transport.job = job ->
                (/\ transport.request.resume => FreeJobs(s) # {}
                 /\ Become(FinishStart(s, starts, target, luck)))
           [] IsLoaded(transport) /\ transport.seek.job = job -> Become(FinishSeek(s))
           [] OTHER -> Become(s))
    BY Zenon DEF PrebufferReady
  <2> HIDE DEF s
  <2>3. QED
    BY <2>1, <2>2, Zenon
<1>3. jobs[job] \in {"filling", "cancelled"}
  BY DEF PrebufferReady
<1> HIDE DEF s
<1>4. PICK state \in {"decoding", "none"} : s = [State EXCEPT !.jobs[job] = state]
  BY <1>1
<1>5. /\ Reported(s, State) /\ s.jobs = [jobs EXCEPT ![job] = state] /\ s.transport = transport
      /\ (IsLoading(transport) => transport.job # job) => Owes(s, {})
  <2>1. state \in JobStates
    BY DEF JobStates
  <2>2. QED
    BY <1>4, <2>1, ThreadReported
<1>6. CASE IsLoading(transport) /\ transport.job = job
  <2>1. transport.stage = "prebuffering"
    BY <1>3, <1>6, StateFields DEF IInv, Owes, HasThread, Shaped, IsLoading
  <2>2. Owned(transport) = {job}
    <3>1. \A t : t.kind = "loading" => Owned(t) = {t.job}
      BY Zenon DEF Owned
    <3>2. QED
      BY <1>6, <3>1 DEF IsLoading
  <2>3. transport.request.resume => \E j \in Jobs : s.jobs[j] = "none" /\ j # transport.job
    <3>1. SUFFICES ASSUME FreeJobs(s) # {}
                   PROVE  \E j \in Jobs : s.jobs[j] = "none" /\ j # transport.job
      BY <1>2, <1>6
    <3>2. PICK j \in FreeJobs(s) : TRUE
      BY <3>1
    <3>3. QED
      BY <1>5, <1>6, <2>2, <3>2 DEF FreeJobs
  <2>4. Owes(FinishStart(s, starts, target, luck), {})
    BY <1>5, <1>6, <2>1, <2>3, StartFinished DEF IInv
  <2>5. QED
    BY <1>2, <1>6, <2>4, Became
<1>7. CASE ~(IsLoading(transport) /\ transport.job = job)
  <2>1. Owes(s, {})
    BY <1>5, <1>7
  <2>2. IsLoaded(transport) => Owes(FinishSeek(s), {})
    BY <1>5, <2>1, SeekFinished
  <2>3. QED
    BY <1>2, <1>7, <2>1, <2>2, Became
<1>8. QED
  BY <1>6, <1>7

LEMMA DecodeFailedKeeps ==
  ASSUME IInv, NEW job \in Jobs, NEW luck, DecodeFailed(job, luck)
  PROVE  IInv'
<1> DEFINE s == Without(job)
           marked == [s EXCEPT !.transport.prefetch.job = NoJob]
<1>1. \/ /\ IsLoading(transport) /\ transport.job = job
         /\ Become(FailStart(s, "item", luck))
      \/ /\ ~(IsLoading(transport) /\ transport.job = job)
         /\ \/ Become(SkipPast(DiscardTransport(s), NoOne, luck))
            \/ Become(CancelSeek(s))
            \/ IsLoaded(transport) /\ Become(marked)
            \/ Become(s)
  <2>1. ~(IsLoading(transport) /\ IsLoaded(transport))
    BY DEF IsLoading, IsLoaded
  <2>2. (CASE IsLoading(transport) /\ transport.job = job ->
               Become(FailStart(s, "item", luck))
          [] IsLoaded(transport) /\ transport.job = job ->
               Become(SkipPast(DiscardTransport(s), NoOne, luck))
          [] IsLoaded(transport) /\ transport.seek.job = job -> Become(CancelSeek(s))
          [] IsLoaded(transport) /\ transport.prefetch.job = job -> Become(marked)
          [] OTHER -> Become(s))
    BY DEF DecodeFailed
  <2> HIDE DEF s, marked
  <2>3. QED
    BY <2>1, <2>2, Zenon
<1>2. /\ Reported(s, State) /\ s.transport = transport /\ Spare(s)
      /\ (IsLoading(transport) => transport.job # job) => Owes(s, {})
  BY ThreadGone
<1> HIDE DEF s
<1>3. CASE IsLoading(transport) /\ transport.job = job
  <2>1. Owes(FailStart(s, "item", luck), {})
    BY <1>2, <1>3, StartFailed DEF IInv
  <2>2. QED
    BY <1>1, <1>3, <2>1, Became
<1>4. CASE ~(IsLoading(transport) /\ transport.job = job)
  <2>1. Owes(s, {})
    BY <1>2, <1>4
  <2>2. Owes(SkipPast(DiscardTransport(s), NoOne, luck), {})
    <3>1. PICK gone : gone = DiscardTransport(s)
      OBVIOUS
    <3>2. Owes(gone, {}) /\ Spare(gone)
      BY <1>2, <2>1, <3>1, Discarded DEF Spare
    <3>3. NoOne \in {} \cup {NoOne} /\ {} \ {NoOne} = {}
      OBVIOUS
    <3>4. QED
      BY <3>1, <3>2, <3>3, SkippedPast
  <2>3. Owes(CancelSeek(s), {})
    BY <2>1, SeekCancelled
  <2>4. IsLoaded(transport) => Owes(marked, {})
    <3>1. SUFFICES ASSUME IsLoaded(transport) PROVE Owes(marked, {})
      OBVIOUS
    <3>2. PICK prefetch : prefetch = [s.transport.prefetch EXCEPT !.job = NoJob]
      OBVIOUS
    <3>3. DOMAIN prefetch = {"entry", "job"}
      BY <1>2, <2>1, <3>1, <3>2 DEF Owes, Shaped, IsLoaded
    <3>4. marked = [s EXCEPT !.transport.prefetch = prefetch]
      BY <3>2
    <3>5. Owes([s EXCEPT !.transport.prefetch = prefetch], {})
      BY <1>2, <2>1, <3>1, <3>3, PrefetchDropped
    <3>6. QED
      BY <3>4, <3>5
  <2> HIDE DEF marked
  <2>5. QED
    BY <1>1, <1>4, <2>1, <2>2, <2>3, <2>4, Became
<1>5. QED
  BY <1>3, <1>4

LEMMA DecodeEndsKeeps ==
  ASSUME IInv, NEW job \in Jobs, DecodeEnds(job)
  PROVE  IInv'
<1>1. IsLoading(transport) => transport.job # job
  BY StateFields DEF DecodeEnds, IInv, Owes, HasThread
<1>2. QED
  BY <1>1, ThreadGone, Became DEF DecodeEnds

LEMMA StreamFailedKeeps ==
  ASSUME IInv, NEW changed, NEW recovers, StreamFailed(changed, recovers)
  PROVE  IInv'
<1>1. NoOne \in {} \cup {NoOne} /\ {} \ {NoOne} = {}
  OBVIOUS
<1>2. Owes(PublishState(CancelSeek(State)), {})
  BY SeekCancelled, StatePublished DEF IInv
<1>3. Owes(FailForGood(State, NoOne), {})
  BY <1>1, FailForGoodAnswers DEF IInv
<1>4. QED
  BY <1>2, <1>3, Became DEF StreamFailed

-----------------------------------------------------------------------------
(* The tick.                                                               *)

(* The track changes, and the seek in flight with its caller does not.     *)
LEMMA TrackChanged ==
  ASSUME NEW s, NEW owed, Owes(s, owed), IsLoaded(s.transport),
         NEW t, DOMAIN t = DOMAIN s.transport, t.kind = "loaded",
         t.device = s.transport.device, t.seek = s.transport.seek,
         DOMAIN t.prefetch = {"entry", "job"},
         NEW h, DOMAIN h = DOMAIN s, h.transport = t, h.selection = s.selection,
         h.jobs \in [Jobs -> JobStates], h.waiting = s.waiting
  PROVE  Owes(h, owed)
<1>1. DOMAIN t.seek = {"job", "responder"} /\ t.seek.responder \in Responsible
  BY DEF Owes, Shaped, IsLoaded
<1>2. Responders(s.transport) = {t.seek.responder} \ {NoOne}
  BY NobodyHolds DEF IsLoaded
<1>3. /\ owed \subseteq Callers \ {t.seek.responder}
      /\ h.waiting = ({t.seek.responder} \ {NoOne}) \cup owed
  BY <1>2, NamesAssumption DEF Owes
<1>4. QED
  BY <1>1, <1>3, LoadedKept

LEMMA Adopted ==
  ASSUME NEW s, Owes(s, {}), IsLoaded(s.transport), NEW luck
  PROVE  Owes(AdoptPrefetched(s, luck), {})
<1>1. PICK t : t = [s.transport EXCEPT !.entry = s.transport.prefetch.entry,
                                       !.job = s.transport.prefetch.job,
                                       !.prefetch = NoPrefetch]
  OBVIOUS
<1>2. PICK h : h = [s EXCEPT !.queue = Advance(s.queue, "natural"), !.skipped = 0,
                            !.transport = t]
  OBVIOUS
<1>3. DOMAIN NoPrefetch = {"entry", "job"}
  BY DEF NoPrefetch
<1>4. /\ DOMAIN t = DOMAIN s.transport /\ t.kind = "loaded"
      /\ t.device = s.transport.device /\ t.seek = s.transport.seek
      /\ DOMAIN t.prefetch = {"entry", "job"}
  BY <1>1, <1>3 DEF Owes, Shaped, IsLoaded
<1>5. /\ DOMAIN h = DOMAIN s /\ h.transport = t /\ h.selection = s.selection
      /\ h.jobs \in [Jobs -> JobStates] /\ h.waiting = s.waiting
  BY <1>2 DEF Owes
<1>6. Owes(h, {})
  BY <1>4, <1>5, TrackChanged
<1>7. AdoptPrefetched(s, luck) = QueueChanged(h, luck)
  BY <1>1, <1>2 DEF AdoptPrefetched
<1>8. QED
  BY <1>6, <1>7, BothPublished

LEMMA FinishIfDueKeeps ==
  ASSUME IInv, NEW luck, FinishIfDue(luck)
  PROVE  IInv'
<1>1. IsLoaded(State.transport)
  BY StateFields DEF FinishIfDue
<1>2. Spare(State)
  <2>1. DiscardTransport(State).jobs = State.jobs
    BY Discarded DEF IInv
  <2>2. FreeJobs(DiscardTransport(State)) # {}
    BY DEF FinishIfDue
  <2>3. QED
    BY <2>1, <2>2 DEF FreeJobs, Spare
<1>3. Owes(AdoptPrefetched(State, luck), {})
  BY <1>1, Adopted DEF IInv
<1>4. Owes(AdvanceAfterTrack(State, NoOne, FALSE, luck), {})
  <2>1. PICK nobody : nobody = {}
    OBVIOUS
  <2>2. Owes(State, nobody) /\ NoOne \in nobody \cup {NoOne} /\ nobody \ {NoOne} = {}
    BY <2>1 DEF IInv
  <2>3. Owes(AdvanceAfterTrack(State, NoOne, FALSE, luck), nobody \ {NoOne})
    BY <1>2, <2>2, AdvancedAfterTrack
  <2>4. QED
    BY <2>2, <2>3
<1>5. QED
  BY <1>3, <1>4, Became DEF FinishIfDue

LEMMA PrefetchKeeps ==
  ASSUME IInv, NEW usable, Prefetch(usable)
  PROVE  IInv'
<1> DEFINE job == FreshJob(State)
           kept(entry) == [entry |-> entry, job |-> job]
           unusable(entry) == [entry |-> entry, job |-> NoJob]
<1>1. IsLoaded(State.transport)
  BY StateFields DEF Prefetch
<1>2. PICK entry \in PeekNatural(queue) :
        \/ /\ FreeJobs(State) # {}
           /\ Become([State EXCEPT !.jobs[job] = "filling",
                                   !.transport.prefetch = kept(entry)])
        \/ Become([State EXCEPT !.transport.prefetch = unusable(entry)])
  BY DEF Prefetch
<1>3. DOMAIN kept(entry) = {"entry", "job"} /\ DOMAIN unusable(entry) = {"entry", "job"}
  OBVIOUS
<1>4. FreeJobs(State) # {} => job \in Jobs
  <2>1. FreeJobs(State) \subseteq Jobs
    BY DEF FreeJobs
  <2>2. QED
    BY <2>1 DEF FreshJob
<1> HIDE DEF job, kept, unusable
<1>5. ASSUME FreeJobs(State) # {}
      PROVE  Owes([State EXCEPT !.jobs[job] = "filling",
                                !.transport.prefetch = kept(entry)], {})
  <2>1. PICK t : t = [State.transport EXCEPT !.prefetch = kept(entry)]
    OBVIOUS
  <2>2. PICK h : h = [State EXCEPT !.jobs[job] = "filling", !.transport = t]
    OBVIOUS
  <2>3. h = [State EXCEPT !.jobs[job] = "filling", !.transport.prefetch = kept(entry)]
    BY <2>1, <2>2
  <2>4. /\ DOMAIN t = DOMAIN State.transport /\ t.kind = "loaded"
        /\ t.device = State.transport.device /\ t.seek = State.transport.seek
        /\ t.prefetch = kept(entry)
    BY <1>1, <2>1 DEF IInv, Owes, Shaped, IsLoaded
  <2>5. /\ DOMAIN h = DOMAIN State /\ h.transport = t /\ h.selection = State.selection
        /\ h.jobs = [State.jobs EXCEPT ![job] = "filling"] /\ h.waiting = State.waiting
    BY <2>2, StateFields
  <2>6. h.jobs \in [Jobs -> JobStates]
    BY <1>4, <1>5, <2>5 DEF IInv, Owes, JobStates
  <2>7. Owes(h, {})
    BY <1>1, <1>3, <2>4, <2>5, <2>6, TrackChanged DEF IInv
  <2>8. QED
    BY <2>3, <2>7
<1>6. Owes([State EXCEPT !.transport.prefetch = unusable(entry)], {})
  BY <1>1, <1>3, PrefetchDropped DEF IInv
<1>7. QED
  BY <1>2, <1>5, <1>6, Became

-----------------------------------------------------------------------------
(* The commands.                                                           *)
LEMMA CommandAnswers ==
  ASSUME NEW caller, NEW s, Command(caller, s),
         Owes(s, {})
  PROVE  IInv'
<1>1. PICK h : h = Revalidated(s)
  OBVIOUS
<1>2. DOMAIN NoPrefetch = {"entry", "job"}
  BY DEF NoPrefetch
<1>3. Owes(h, {})
  BY <1>1, <1>2, PrefetchDropped DEF Revalidated
<1>4. QED
  BY <1>1, <1>3, Became DEF Command

LEMMA CallerAsks ==
  ASSUME IInv, NEW caller \in Callers, caller \notin waiting, FreeJobs(State) # {}
  PROVE  /\ Owes(Asked(caller), {caller}) /\ Spare(Asked(caller))
         /\ FreeJobs(Asked(caller)) # {}
         /\ Asked(caller).transport = transport /\ Asked(caller).selection = selection
         /\ Asked(caller).jobs = jobs /\ Asked(caller).queue = queue
         /\ caller \in {caller} \cup {NoOne} /\ {caller} \ {caller} = {}
         /\ caller \in Responsible
<1>1. PICK s : s = Asked(caller)
  OBVIOUS
<1>2. /\ DOMAIN s = DOMAIN State /\ s.transport = transport /\ s.selection = selection
      /\ s.jobs = jobs /\ s.queue = queue /\ s.waiting = waiting \cup {caller}
  BY <1>1, StateFields DEF Asked
<1>3. waiting = Responders(transport)
  BY StateFields DEF IInv, Owes
<1>4. Owes(s, {caller})
  BY <1>2, <1>3, StateFields DEF IInv, Owes
<1>5. FreeJobs(s) # {} /\ Spare(s)
  BY <1>2, StateFields DEF FreeJobs, Spare
<1>6. QED
  BY <1>1, <1>2, <1>4, <1>5 DEF Responsible

LEMMA CommandGuard ==
  ASSUME NEW caller, NEW s, Command(caller, s)
  PROVE  caller \notin waiting /\ FreeJobs(State) # {}
BY DEF Command

(* The commands that start what is current, after what they do to the      *)
(* queue.                                                                  *)
LEMMA AskedToStart ==
  ASSUME IInv, NEW caller \in Callers, caller \notin waiting, FreeJobs(State) # {},
         NEW s, SameButQueue(s, Asked(caller)), NEW paused, NEW luck
  PROVE  Owes(StartCurrent(s, caller, paused, luck), {}) /\ Owes(Answer(s, caller), {})
<1>1. PICK owed : owed = {caller}
  OBVIOUS
<1>2. Owes(s, owed) /\ Spare(s) /\ caller \in owed \cup {NoOne} /\ owed \ {caller} = {}
  BY <1>1, CallerAsks, Alike, SpareKept
<1>3. QED
  BY <1>2, CurrentStarted, Answered

LEMMA EditsAlike ==
  ASSUME IInv, NEW caller \in Callers
  PROVE  /\ SameButQueue(Asked(caller), Asked(caller))
         /\ SameButQueue([Asked(caller) EXCEPT !.skipped = 0], Asked(caller))
         /\ \A q : SameButQueue([Asked(caller) EXCEPT !.skipped = 0, !.queue = q], Asked(caller))
         /\ \A q : SameButQueue([[Asked(caller) EXCEPT !.skipped = 0] EXCEPT !.queue = q],
                                Asked(caller))
         /\ \A q : SameButQueue([Asked(caller) EXCEPT !.queue = q], Asked(caller))
         /\ \A q, p : SameButQueue([Asked(caller) EXCEPT !.queue = q, !.previous = p],
                                   Asked(caller))
         /\ \A q, p : SameButQueue([Asked(caller) EXCEPT !.queue = q, !.previous = p,
                                                         !.skipped = 0], Asked(caller))
<1>1. DOMAIN Asked(caller) = DOMAIN State
  BY StateFields DEF Asked
<1>2. QED
  BY <1>1, StateFields DEF SameButQueue

LEMMA StartQueueKeeps ==
  ASSUME IInv, NEW caller \in Callers, NEW n, NEW start, NEW luck,
         StartQueue(caller, n, start, luck)
  PROVE  IInv'
<1>1. Command(caller, StartCurrent(ReplaceQueue(Asked(caller), n, start), caller, FALSE, luck))
  BY DEF StartQueue
<1>2. SameButQueue(ReplaceQueue(Asked(caller), n, start), Asked(caller))
  BY EditsAlike DEF ReplaceQueue
<1>3. Owes(StartCurrent(ReplaceQueue(Asked(caller), n, start), caller, FALSE, luck), {})
  BY <1>1, <1>2, CommandGuard, AskedToStart
<1>4. QED
  BY <1>1, <1>3, CommandAnswers

LEMMA NavigateKeeps ==
  ASSUME IInv, NEW caller \in Callers, NEW reason, NEW luck, Navigate(caller, reason, luck)
  PROVE  IInv'
<1> DEFINE s == [Asked(caller) EXCEPT !.skipped = 0]
           moved == [s EXCEPT !.queue = Advance(queue, reason)]
           paused == IsLoaded(transport) /\ transport.paused
           h == IF CanAdvance(queue, reason) THEN StartCurrent(moved, caller, paused, luck)
                ELSE Answer(s, caller)
<1>1. Command(caller, h)
  BY DEF Navigate
<1>2. SameButQueue(s, Asked(caller)) /\ SameButQueue(moved, Asked(caller))
  BY EditsAlike
<1> HIDE DEF s, moved
<1>3. Owes(h, {})
  BY <1>1, <1>2, CommandGuard, AskedToStart
<1>4. QED
  BY <1>1, <1>3, CommandAnswers

LEMMA PlayQueueItemKeeps ==
  ASSUME IInv, NEW caller \in Callers, NEW id, NEW luck, PlayQueueItem(caller, id, luck)
  PROVE  IInv'
<1> DEFINE s == [Asked(caller) EXCEPT !.skipped = 0]
           moved == [s EXCEPT !.queue = JumpedTo(queue, id)]
           h == IF JumpOk(queue, id) THEN StartCurrent(moved, caller, FALSE, luck)
                ELSE Answer(s, caller)
<1>1. Command(caller, h)
  BY DEF PlayQueueItem
<1>2. SameButQueue(s, Asked(caller)) /\ SameButQueue(moved, Asked(caller))
  BY EditsAlike
<1> HIDE DEF s, moved
<1>3. Owes(h, {})
  BY <1>1, <1>2, CommandGuard, AskedToStart
<1>4. QED
  BY <1>1, <1>3, CommandAnswers

LEMMA RetryKeeps ==
  ASSUME IInv, NEW caller \in Callers, NEW luck, Retry(caller, luck)
  PROVE  IInv'
<1> DEFINE s == [Asked(caller) EXCEPT !.skipped = 0]
<1>1. Command(caller, StartCurrent(s, caller, FALSE, luck))
  BY DEF Retry
<1>2. SameButQueue(s, Asked(caller))
  BY EditsAlike
<1> HIDE DEF s
<1>3. QED
  BY <1>1, <1>2, CommandGuard, AskedToStart, CommandAnswers

LEMMA RestoreKeeps ==
  ASSUME IInv, NEW caller \in Callers, NEW luck, RestorePreviousQueue(caller, luck)
  PROVE  IInv'
<1> DEFINE restored == CHOOSE q \in Restored(queue, previous) : TRUE
           s == [Asked(caller) EXCEPT !.queue = restored, !.previous = NoQueue, !.skipped = 0]
<1>1. PICK h : /\ h = Answer(QueueChanged(s, luck), caller) \/ h = StartCurrent(s, caller, FALSE, luck)
               /\ Command(caller, h)
  BY DEF RestorePreviousQueue
<1>2. SameButQueue(s, Asked(caller))
  BY EditsAlike
<1> HIDE DEF s
<1>3. Owes(StartCurrent(s, caller, FALSE, luck), {})
  BY <1>1, <1>2, CommandGuard, AskedToStart
<1>4. Owes(Answer(QueueChanged(s, luck), caller), {})
  <2>1. PICK owed : owed = {caller}
    OBVIOUS
  <2>2. Owes(s, owed) /\ caller \in owed \cup {NoOne} /\ owed \ {caller} = {}
    BY <1>1, <1>2, <2>1, CommandGuard, CallerAsks, Alike
  <2>3. QED
    BY <2>2, BothPublished, Answered
<1>5. QED
  BY <1>1, <1>3, <1>4, CommandAnswers

(* The caller is answered at once, and not by the start.                   *)
LEMMA StartEnqueuedKeeps ==
  ASSUME IInv, NEW caller \in Callers, NEW luck, StartEnqueued(caller, luck)
  PROVE  IInv'
<1> DEFINE s == ReplaceQueue(Asked(caller), 1, 1)
<1>1. Command(caller, Answer(StartCurrent(s, NoOne, FALSE, luck), caller))
  BY DEF StartEnqueued
<1>2. SameButQueue(s, Asked(caller))
  BY EditsAlike DEF ReplaceQueue
<1> HIDE DEF s
<1>3. PICK owed : owed = {caller}
  OBVIOUS
<1>4. /\ Owes(s, owed) /\ Spare(s) /\ NoOne \in owed \cup {NoOne} /\ owed \ {NoOne} = owed
      /\ caller \in owed \cup {NoOne} /\ owed \ {caller} = {}
  BY <1>1, <1>2, <1>3, CommandGuard, CallerAsks, Alike, SpareKept, NamesAssumption
<1>5. PICK h : h = StartCurrent(s, NoOne, FALSE, luck)
  OBVIOUS
<1>6. Owes(h, owed \ {NoOne})
  BY <1>4, <1>5, CurrentStarted
<1>7. Owes(h, owed)
  BY <1>4, <1>6
<1>8. Owes(Answer(h, caller), owed \ {caller})
  BY <1>4, <1>7, Answered
<1>9. QED
  BY <1>1, <1>4, <1>5, <1>8, CommandAnswers

(* The commands that answer once they have changed the queue.              *)
LEMMA AskedToEdit ==
  ASSUME IInv, NEW caller \in Callers, NEW s, SameButQueue(s, Asked(caller)), NEW luck,
         Command(caller, Answer(QueueChanged(s, luck), caller))
  PROVE  IInv'
<1>1. PICK owed : owed = {caller}
  OBVIOUS
<1>2. Owes(s, owed) /\ caller \in owed \cup {NoOne} /\ owed \ {caller} = {}
  BY <1>1, CommandGuard, CallerAsks, Alike
<1>3. Owes(Answer(QueueChanged(s, luck), caller), {})
  BY <1>2, BothPublished, Answered
<1>4. QED
  BY <1>3, CommandAnswers

LEMMA EditQueueKeeps ==
  ASSUME IInv, NEW caller \in Callers, NEW edited, NEW luck, EditQueue(caller, edited, luck)
  PROVE  IInv'
<1> DEFINE s == [Asked(caller) EXCEPT !.queue = edited]
<1>1. SameButQueue(s, Asked(caller)) /\ SameButQueue(Asked(caller), Asked(caller))
  BY EditsAlike
<1>2. \/ Command(caller, Answer(Asked(caller), caller))
      \/ Command(caller, Answer(QueueChanged(s, luck), caller))
  BY DEF EditQueue
<1> HIDE DEF s
<1>3. QED
  BY <1>1, <1>2, AskedToEdit, CommandGuard, AskedToStart, CommandAnswers

LEMMA SetRepeatModeKeeps ==
  ASSUME IInv, NEW caller \in Callers, NEW mode, NEW luck, SetRepeatMode(caller, mode, luck)
  PROVE  IInv'
<1> DEFINE s == [Asked(caller) EXCEPT !.queue.repeat = mode]
<1>1. Command(caller, Answer(QueueChanged(s, luck), caller))
  BY DEF SetRepeatMode
<1>2. SameButQueue(s, Asked(caller))
  <2>1. PICK q : q = [Asked(caller).queue EXCEPT !.repeat = mode]
    OBVIOUS
  <2>2. s = [Asked(caller) EXCEPT !.queue = q]
    BY <2>1
  <2>3. QED
    BY <2>2, EditsAlike
<1> HIDE DEF s
<1>3. QED
  BY <1>1, <1>2, AskedToEdit

LEMMA ClearQueueKeeps ==
  ASSUME IInv, NEW caller \in Callers, NEW luck, ClearQueue(caller, luck)
  PROVE  IInv'
<1> DEFINE s == [Asked(caller) EXCEPT !.queue = WithoutUpcoming(queue), !.previous = queue]
<1>1. Command(caller, Answer(QueueChanged(s, luck), caller))
  BY DEF ClearQueue
<1>2. SameButQueue(s, Asked(caller))
  BY EditsAlike
<1> HIDE DEF s
<1>3. QED
  BY <1>1, <1>2, AskedToEdit

LEMMA PauseOrResumeKeeps ==
  ASSUME IInv, NEW caller \in Callers, NEW paused, NEW works,
         PauseOrResume(caller, paused, works)
  PROVE  IInv'
<1> DEFINE s == Asked(caller)
           later == [s EXCEPT !.transport.request.paused = paused]
           switched == [s EXCEPT !.transport.paused = paused]
           h == SetPaused(caller, paused, works)
<1>1. PICK owed : owed = {caller}
  OBVIOUS
<1>2. Command(caller, h)
  BY DEF PauseOrResume
<1>3. /\ Owes(s, owed) /\ caller \in owed \cup {NoOne} /\ owed \ {caller} = {}
      /\ s.transport = transport
  BY <1>1, <1>2, CommandGuard, CallerAsks
<1>4. \/ IsLoading(transport) /\ h = Answer(later, caller)
      \/ IsLoaded(transport) /\ h = Answer(PublishState(switched), caller)
      \/ h = FailForGood(s, caller)
      \/ h = Answer(s, caller)
  <2>1. h = CASE IsLoading(transport) -> Answer(later, caller)
              [] IsLoaded(transport) /\ transport.paused # paused ->
                   IF works THEN Answer(PublishState(switched), caller)
                   ELSE FailForGood(s, caller)
              [] OTHER -> Answer(s, caller)
    BY Zenon DEF SetPaused
  <2>2. ~(IsLoading(transport) /\ IsLoaded(transport))
    BY DEF IsLoading, IsLoaded
  <2> HIDE DEF h, s, later, switched
  <2>3. QED
    BY <2>1, <2>2, Zenon
<1> HIDE DEF s, h
<1>5. ASSUME IsLoading(transport)
      PROVE  Owes(later, owed)
  <2>1. /\ DOMAIN transport = {"kind", "request", "stage", "job", "device"}
        /\ transport.kind = "loading" /\ IsRequest(transport.request)
    BY <1>3, <1>5 DEF Owes, Shaped, IsLoading
  <2>2. PICK request : request = [transport.request EXCEPT !.paused = paused]
    OBVIOUS
  <2>3. /\ IsRequest(request) /\ request.responder = transport.request.responder
        /\ request.selection = transport.request.selection
    BY <2>1, <2>2 DEF IsRequest
  <2>4. PICK t : t = [transport EXCEPT !.request = request]
    OBVIOUS
  <2>5. /\ DOMAIN t = {"kind", "request", "stage", "job", "device"}
        /\ t.kind = "loading" /\ t.request = request /\ t.stage = transport.stage
        /\ t.job = transport.job /\ t.device = transport.device
    BY <2>1, <2>4
  <2>6. later = [s EXCEPT !.transport = t]
    BY <1>3, <2>2, <2>4
  <2>7. /\ DOMAIN later = DOMAIN s /\ later.transport = t /\ later.selection = s.selection
        /\ later.jobs = s.jobs /\ later.waiting = s.waiting
    BY <1>3, <2>6 DEF Owes
  <2>8. Responders(t) = Responders(transport)
    BY <2>1, <2>3, <2>5, NobodyHolds
  <2>9. Shaped(t) /\ OnItsDevice(t, s.selection) /\ HasThread(t, s.jobs)
    BY <1>3, <1>5, <2>1, <2>3, <2>5
       DEF Owes, Shaped, OnItsDevice, HasThread, IsLoaded, IsLoading
  <2>10. QED
    BY <1>3, <2>7, <2>8, <2>9 DEF Owes
<1>6. ASSUME IsLoaded(transport)
      PROVE  Owes(switched, owed)
  <2>1. PICK t : t = [transport EXCEPT !.paused = paused]
    OBVIOUS
  <2>2. switched = [s EXCEPT !.transport = t]
    BY <1>3, <2>1
  <2>3. /\ DOMAIN t = DOMAIN s.transport /\ t.kind = "loaded"
        /\ t.device = s.transport.device /\ t.seek = s.transport.seek
        /\ DOMAIN t.prefetch = {"entry", "job"}
    BY <1>3, <1>6, <2>1 DEF Owes, Shaped, IsLoaded
  <2>4. /\ DOMAIN switched = DOMAIN s /\ switched.transport = t
        /\ switched.selection = s.selection
        /\ switched.jobs \in [Jobs -> JobStates] /\ switched.waiting = s.waiting
    BY <1>3, <2>2 DEF Owes
  <2> HIDE DEF switched
  <2>5. QED
    BY <1>3, <1>6, <2>3, <2>4, TrackChanged
<1> HIDE DEF later, switched
<1>7. Owes(h, owed \ {caller})
  BY <1>3, <1>4, <1>5, <1>6, StatePublished, FailForGoodAnswers, Answered
<1>8. QED
  BY <1>2, <1>3, <1>7, CommandAnswers

LEMMA SeekKeeps ==
  ASSUME IInv, NEW caller \in Callers, NEW target, NEW luck, Seek(caller, target, luck)
  PROVE  IInv'
<1>1. PICK owed : owed = {caller}
  OBVIOUS
<1>2. Command(caller, BeginSeek(Asked(caller), caller, target, luck))
  BY DEF Seek
<1>3. PICK s : s = Asked(caller)
  OBVIOUS
<1>4. /\ Owes(s, owed) /\ FreeJobs(s) # {} /\ caller \in owed \cup {NoOne}
      /\ owed \ {caller} = {}
  BY <1>1, <1>2, <1>3, CommandGuard, CallerAsks
<1>5. Owes(BeginSeek(s, caller, target, luck), owed \ {caller})
  BY <1>4, SeekBegun
<1>6. QED
  BY <1>2, <1>3, <1>4, <1>5, CommandAnswers

LEMMA ChangeOutputSelectionKeeps ==
  ASSUME IInv, NEW caller \in Callers, NEW device, NEW resolves, NEW luck,
         ChangeOutputSelection(caller, device, resolves, luck)
  PROVE  IInv'
<1> DEFINE s == Asked(caller)
           start == NewStart(transport.entry, caller, transport.paused)
           request == [start EXCEPT !.resume = TRUE, !.selection = device]
           idle == [s EXCEPT !.selection = device, !.transport = Idle]
           h == CASE IsLoaded(transport) ->
                       IF transport.seek = NoSeek /\ device # selection /\ resolves
                       THEN BeginStart(s, request, luck) ELSE Answer(s, caller)
                  [] ~IsLoaded(transport) /\ ~IsLoading(transport) /\
                       (resolves \/ device = Default) ->
                       Answer(PublishState(idle), caller)
                  [] OTHER -> Answer(s, caller)
<1>1. PICK owed : owed = {caller}
  OBVIOUS
<1>2. Command(caller, h)
  BY Zenon DEF ChangeOutputSelection
<1>3. /\ Owes(s, owed) /\ Spare(s) /\ caller \in owed \cup {NoOne} /\ owed \ {caller} = {}
      /\ s.transport = transport /\ caller \in Responsible
  BY <1>1, <1>2, CommandGuard, CallerAsks
<1>4. IsRequest(request) /\ request.responder = caller
  <2>1. IsRequest(start) /\ start.responder = caller
    BY <1>3, PlainStart
  <2> HIDE DEF start
  <2>2. QED
    BY <2>1 DEF IsRequest
<1> HIDE DEF s, request
<1>5. \/ h = BeginStart(s, request, luck) \/ h = Answer(s, caller)
      \/ /\ ~IsLoaded(transport) /\ ~IsLoading(transport)
         /\ h = Answer(PublishState(idle), caller)
  <2> HIDE DEF idle
  <2>1. QED
    BY Zenon
<1>6. ASSUME ~IsLoaded(transport), ~IsLoading(transport)
      PROVE  Owes(idle, owed)
  <2>1. /\ DOMAIN idle = DOMAIN s /\ idle.transport = Idle /\ idle.jobs = s.jobs
        /\ idle.waiting = s.waiting
    BY <1>3 DEF Owes
  <2>2. Responders(s.transport) = {}
    BY <1>3, <1>6, NobodyHolds DEF Owes, Shaped, IsLoaded, IsLoading
  <2>3. Shaped(Idle) /\ OnItsDevice(Idle, idle.selection) /\ HasThread(Idle, s.jobs)
        /\ Responders(Idle) = {}
    BY NobodyHolds, NothingHeld
  <2> HIDE DEF idle
  <2>4. QED
    BY <1>3, <2>1, <2>2, <2>3 DEF Owes
<1> HIDE DEF idle, h
<1>7. Owes(h, owed \ {caller})
  <2>1. Owes(BeginStart(s, request, luck), owed \ {caller})
    BY <1>3, <1>4, StartBegun
  <2>2. QED
    BY <1>3, <1>5, <1>6, <2>1, StatePublished, Answered
<1>8. QED
  BY <1>2, <1>3, <1>7, CommandAnswers

LEMMA SomeoneAsks ==
  ASSUME IInv
  PROVE  NextCaller \in Callers
<1>1. \E caller \in Callers \cup {NoOne} : waiting \subseteq {caller}
  BY StateFields, NobodyHolds DEF IInv, Owes, Shaped, IsRequest, Responsible
<1>2. \E caller \in Callers : caller \notin waiting
  BY <1>1, NamesAssumption
<1>3. QED
  BY <1>2 DEF NextCaller

-----------------------------------------------------------------------------
(* The invariant.                                                          *)
LEMMA StartsWell == Init => IInv
<1> SUFFICES ASSUME Init PROVE IInv
  OBVIOUS
<1>1. /\ transport = Idle /\ waiting = {} /\ jobs = [j \in Jobs |-> "none"]
  BY DEF Init
<1>2. Shaped(Idle) /\ OnItsDevice(Idle, selection) /\ HasThread(Idle, jobs)
      /\ Responders(Idle) = {}
  BY NobodyHolds, NothingHeld
<1>3. jobs \in [Jobs -> JobStates]
  BY <1>1 DEF JobStates
<1>4. QED
  BY <1>1, <1>2, <1>3, StateFields DEF IInv, Owes

LEMMA EventKeeps ==
  ASSUME IInv, Event
  PROVE  IInv'
<1>1. ASSUME NEW job \in Jobs, Report(job)
      PROVE  IInv'
  BY <1>1, SourceLoadedKeeps, PrebufferReadyKeeps, DecodeFailedKeeps DEF Report
<1>2. ASSUME NEW job \in Jobs, DecodeEnds(job)
      PROVE  IInv'
  BY <1>2, DecodeEndsKeeps
<1>3. ASSUME NEW changed \in BOOLEAN, NEW recovers \in BOOLEAN, StreamFailed(changed, recovers)
      PROVE  IInv'
  BY <1>3, StreamFailedKeeps
<1>4. ASSUME Tick
      PROVE  IInv'
  BY <1>4, PrefetchKeeps, FinishIfDueKeeps DEF Tick
<1>5. QED
  BY <1>1, <1>2, <1>3, <1>4 DEF Event

LEMMA CommandKeeps ==
  ASSUME IInv, NEW caller \in Callers, AnyCommand(caller)
  PROVE  IInv'
BY StartQueueKeeps, StartEnqueuedKeeps, NavigateKeeps, PlayQueueItemKeeps, RetryKeeps, SeekKeeps,
   ChangeOutputSelectionKeeps, PauseOrResumeKeeps, RestoreKeeps, EditQueueKeeps,
   SetRepeatModeKeeps, ClearQueueKeeps DEF AnyCommand

LEMMA StutterKeeps ==
  ASSUME IInv, UNCHANGED vars
  PROVE  IInv'
BY DEF IInv, Owes, State, vars, OnItsDevice, IsLoaded, IsLoading, HasThread

(* No caller waits for good: at rest, whoever has not been answered is     *)
(* held by the start or the seek in flight, and a start in flight has a    *)
(* thread that is still to report (worker.rs, commands.rs, sequencing.rs). *)
THEOREM InvariantHolds == Spec => []IInv
<1>1. IInv /\ [Next]_vars => IInv'
  BY EventKeeps, CommandKeeps, SomeoneAsks, StutterKeeps DEF Next
<1>2. QED
  BY StartsWell, <1>1, PTL DEF Spec

(* Every caller that waits is named by what the transport holds, a start   *)
(* or a seek, so the handler that ends, fails or replaces it answers:      *)
(* nobody waits for good.                                                  *)
THEOREM WaitersHeld == Spec => []WaitersAreHeld
<1>1. IInv => WaitersAreHeld
  BY StateFields DEF IInv, Owes, WaitersAreHeld
<1>2. QED
  BY <1>1, InvariantHolds, PTL

(* The device that is selected is the one a loaded track plays on, also    *)
(* when a switch failed and the worker went back to the device before.     *)
THEOREM SelectionPlays == Spec => []SelectionIsWhatPlays
<1>1. IInv => SelectionIsWhatPlays
  BY StateFields DEF IInv, Owes, OnItsDevice, SelectionIsWhatPlays
<1>2. QED
  BY <1>1, InvariantHolds, PTL

-----------------------------------------------------------------------------
(***************************************************************************)
(* What the steps of the worker do to the track, the queue and the count   *)
(* of skips, for every queue, every number of threads and whatever the     *)
(* library and the files do.  The operators below speak of a state `s` the *)
(* worker is at on its way, and of the variables, which are the state it   *)
(* set out from.                                                           *)
(***************************************************************************)

(* The queues are never shuffled, and only a switch of the device, which   *)
(* some caller asked for, goes on where the track was.                     *)
Proper(s) ==
  /\ DOMAIN s = {"queue", "previous", "transport", "skipped", "selection", "jobs",
                 "published", "shown", "waiting"}
  /\ Shaped(s.transport) /\ Plain(s.queue) /\ s.skipped \in Nat
  /\ s.previous = NoQueue \/ Plain(s.previous)
  /\ IsLoading(s.transport) /\ s.transport.request.resume =>
       s.transport.request.responder # NoOne

(* No other track than before.                                             *)
Still(s) == s.transport.kind \in {"idle", "failed"} \/ Entry(s.transport) = Entry(transport)

OnCurrent(s) == HasCurrent(s.queue) /\ CurrentId(s.queue) = Entry(s.transport)

(* A start for whoever waits for the one in flight has a skip behind it.   *)
CountsFor(s, r) ==
  IsLoading(transport) /\ r = transport.request.responder /\ s.queue.nextId = queue.nextId =>
    s.skipped > skipped /\ s.skipped < Length(queue)

Counted(s) ==
  IsLoading(s.transport) /\ IsLoading(transport)
    /\ s.transport.request.entry # transport.request.entry =>
      CountsFor(s, s.transport.request.responder)

(* A start for `r` is of no concern to whoever waits for the one in flight.*)
Apart(q, r) ==
  IsLoading(transport) => r # transport.request.responder \/ q.nextId # queue.nextId

Settled(s) == Proper(s) /\ Still(s)
Follows(s) == Proper(s) /\ (Still(s) \/ OnCurrent(s)) /\ Counted(s)

(* `h` differs from `s` in nothing this is about.                          *)
SameTrack(h, s) ==
  /\ DOMAIN h = DOMAIN s /\ h.transport = s.transport /\ h.queue = s.queue
  /\ h.previous = s.previous /\ h.skipped = s.skipped

LEMMA EntryOf ==
  /\ \A t : t.kind \in {"idle", "failed"} => Entry(t) = NoEntry
  /\ \A t : t.kind = "loading" => Entry(t) = t.request.entry
  /\ \A t : t.kind = "loaded" => Entry(t) = t.entry
<1>1. \A t : t.kind \in {"idle", "failed"} => Entry(t) = NoEntry
  BY Zenon DEF Entry
<1>2. /\ \A t : t.kind = "loading" => Entry(t) = t.request.entry
      /\ \A t : t.kind = "loaded" => Entry(t) = t.entry
  BY Zenon DEF Entry
<1>3. QED
  BY <1>1, <1>2

LEMMA SettledFollows ==
  ASSUME NEW s, Settled(s)
  PROVE  Follows(s)
BY EntryOf DEF Settled, Follows, Counted, Still, IsLoading

LEMMA TrackAlike ==
  ASSUME NEW s, NEW h, SameTrack(h, s)
  PROVE  /\ Proper(s) => Proper(h)
         /\ Settled(s) => Settled(h)
         /\ Follows(s) => Follows(h)
BY DEF SameTrack, Proper, Settled, Follows, Still, OnCurrent, Counted, CountsFor

LEMMA TrackAnswered ==
  ASSUME NEW s, Proper(s), NEW r
  PROVE  SameTrack(Answer(s, r), s)
BY DEF Answer, Proper, SameTrack

LEMMA TrackPublished ==
  ASSUME NEW s, Proper(s)
  PROVE  SameTrack(PublishState(s), s)
BY DEF PublishState, Proper, SameTrack

(* The current entry is not among those around it.                         *)
LEMMA CurrentIsNotAround ==
  ASSUME NEW q, Plain(q), HasCurrent(q)
  PROVE  CurrentId(q) \notin ToSet(History(q)) \cup UpcomingIds(q)
<1>1. /\ Orderly(q.arranged, q.nextId) /\ q.current \in 1..Len(q.arranged)
      /\ CurrentId(q) = q.arranged[q.current] /\ PlayOrder(q) = q.arranged
      /\ Length(q) = Len(q.arranged) /\ q.arranged \in Seq(Nat \ {0})
  <2>1. /\ Orderly(q.arranged, q.nextId) /\ q.current \in 1..(Len(q.arranged) + 1)
        /\ Length(q) = Len(q.arranged)
    BY DEF Plain, Length
  <2>2. q.arranged \in Seq(Nat \ {0})
    BY <2>1 DEF Orderly
  <2>3. /\ q.current <= Length(q) /\ Length(q) \in Nat /\ PlayOrder(q) = q.arranged
        /\ CurrentId(q) = q.arranged[q.current]
    BY PlainPlays
  <2>4. QED
    BY <2>1, <2>2, <2>3
<1>2. CurrentId(q) \notin UpcomingIds(q)
  <2>1. \A id \in UpcomingIds(q) : \A j \in 1..Length(q) : j <= q.current => q.arranged[j] # id
    BY UpcomingIsAfter
  <2>2. q.current \in 1..Length(q) /\ q.current <= q.current
    BY <1>1
  <2>3. QED
    BY <1>1, <2>1, <2>2
<1>3. CurrentId(q) \notin ToSet(History(q))
  <2>1. PICK p : p = SubSeq(q.arranged, 1, q.current - 1)
    OBVIOUS
  <2>2. Len(p) = q.current - 1 /\ \A i \in 1..Len(p) : p[i] = q.arranged[i]
    BY <1>1, <2>1
  <2>3. p \in Seq(Nat \ {0})
    BY <1>1, <2>1
  <2>4. SUFFICES ASSUME CurrentId(q) \in ToSet(p) PROVE FALSE
    BY <1>1, <2>1 DEF History
  <2>5. PICK i \in 1..Len(p) : p[i] = CurrentId(q)
    BY <2>3, <2>4 DEF ToSet
  <2>6. i \in 1..Len(q.arranged) /\ i # q.current /\ q.arranged[i] = q.arranged[q.current]
    BY <1>1, <2>2, <2>5
  <2>7. QED
    BY <1>1, <2>6 DEF Orderly, IsInjective
<1>4. QED
  BY <1>2, <1>3

(* What listeners may not be shown any more goes, and the current entry    *)
(* stays.                                                                  *)
LEMMA QueueShown ==
  ASSUME NEW s, Proper(s), NEW luck
  PROVE  LET h == PublishQueue(s, luck)
         IN /\ Proper(h) /\ h.transport = s.transport /\ h.skipped = s.skipped
            /\ h.queue.nextId = s.queue.nextId /\ Length(h.queue) <= Length(s.queue)
            /\ HasCurrent(s.queue) => HasCurrent(h.queue) /\ CurrentId(h.queue) = CurrentId(s.queue)
            /\ Settled(s) => Settled(h)
            /\ Follows(s) => Follows(h)
<1> DEFINE around == ToSet(History(s.queue)) \cup UpcomingIds(s.queue)
           q == IF luck.readable THEN WithoutEntries(s.queue, around \cap luck.lost)
                ELSE s.queue
<1>1. PICK h : h = PublishQueue(s, luck)
  OBVIOUS
<1>2. /\ DOMAIN h = DOMAIN s /\ h.transport = s.transport /\ h.previous = s.previous
      /\ h.skipped = s.skipped /\ h.queue = q
  BY <1>1 DEF PublishQueue, Proper
<1>3. Plain(s.queue) /\ Length(s.queue) \in Nat
  BY PlainPlays DEF Proper
<1>4. /\ Plain(q) /\ q.nextId = s.queue.nextId /\ Length(q) <= Length(s.queue)
      /\ HasCurrent(s.queue) => HasCurrent(q) /\ CurrentId(q) = CurrentId(s.queue)
  <2>1. PICK gone : gone = around \cap luck.lost
    OBVIOUS
  <2>2. HasCurrent(s.queue) => CurrentId(s.queue) \notin gone
    BY <1>3, <2>1, CurrentIsNotAround
  <2>3. PICK left : left = WithoutEntries(s.queue, gone)
    OBVIOUS
  <2>4. /\ Plain(left) /\ left.nextId = s.queue.nextId /\ Length(left) <= Length(s.queue)
        /\ HasCurrent(s.queue) /\ CurrentId(s.queue) \notin gone =>
             HasCurrent(left) /\ CurrentId(left) = CurrentId(s.queue)
    BY <1>3, <2>3, PlainWithoutEntries
  <2>5. q = IF luck.readable THEN left ELSE s.queue
    BY <2>1, <2>3
  <2> HIDE DEF q
  <2>6. QED
    BY <1>3, <2>2, <2>4, <2>5
<1> HIDE DEF q
<1>5. Proper(h)
  BY <1>2, <1>4 DEF Proper
<1>6. Settled(s) => Settled(h)
  BY <1>2, <1>5 DEF Settled, Still
<1>7. Follows(s) => Follows(h)
  BY <1>2, <1>4, <1>5 DEF Follows, Still, OnCurrent, Counted, CountsFor
<1>8. QED
  BY <1>1, <1>2, <1>4, <1>5, <1>6, <1>7

LEMMA BothShown ==
  ASSUME NEW s, Proper(s), NEW luck
  PROVE  LET h == QueueChanged(s, luck)
         IN /\ Settled(s) => Settled(h)
            /\ Follows(s) => Follows(h)
<1>1. PICK g : g = PublishQueue(s, luck)
  OBVIOUS
<1>2. /\ Proper(g) /\ (Settled(s) => Settled(g)) /\ (Follows(s) => Follows(g))
  BY <1>1, QueueShown
<1>3. SameTrack(PublishState(g), g)
  BY <1>2, TrackPublished
<1>4. QED
  BY <1>1, <1>2, <1>3, TrackAlike DEF QueueChanged

LEMMA TrackMoved ==
  ASSUME NEW s, Settled(s), NEW q, Plain(q)
  PROVE  LET h == [s EXCEPT !.queue = q]
         IN Settled(h) /\ h.queue = q /\ h.transport = s.transport /\ h.skipped = s.skipped
<1>1. PICK h : h = [s EXCEPT !.queue = q]
  OBVIOUS
<1>2. /\ DOMAIN h = DOMAIN s /\ h.transport = s.transport /\ h.previous = s.previous
      /\ h.skipped = s.skipped /\ h.queue = q
  BY <1>1 DEF Settled, Proper
<1>3. QED
  BY <1>1, <1>2 DEF Settled, Proper, Still

-----------------------------------------------------------------------------
(* Letting go, and starting.                                               *)
LEMMA TrackLetGo ==
  ASSUME NEW s, Proper(s)
  PROVE  LET h == DiscardTransport(s)
         IN /\ Settled(h) /\ h.queue = s.queue /\ h.skipped = s.skipped
            /\ h.transport = Idle
<1>1. PICK h : h = DiscardTransport(s)
  OBVIOUS
<1>2. /\ DOMAIN h = DOMAIN s /\ h.transport = Idle /\ h.previous = s.previous
      /\ h.skipped = s.skipped /\ h.queue = s.queue
  BY <1>1 DEF DiscardTransport, Proper
<1>3. Shaped(Idle) /\ Idle.kind = "idle"
  BY NobodyHolds DEF Shaped
<1>4. Settled(h)
  BY <1>2, <1>3 DEF Settled, Proper, Still, IsLoading
<1>5. QED
  BY <1>1, <1>2, <1>4

LEMMA TrackFailed ==
  ASSUME NEW s, Proper(s), NEW scope, NEW skipping
  PROVE  LET h == [DiscardTransport(s) EXCEPT !.transport = Failed(scope, skipping)]
         IN Settled(h) /\ h.queue = s.queue /\ h.skipped = s.skipped
<1>1. PICK g : g = DiscardTransport(s)
  OBVIOUS
<1>2. Settled(g) /\ g.queue = s.queue /\ g.skipped = s.skipped
  BY <1>1, TrackLetGo
<1>3. PICK t : t = Failed(scope, skipping)
  OBVIOUS
<1>4. Shaped(t) /\ t.kind = "failed"
  BY <1>3, NobodyHolds DEF Shaped
<1>5. PICK h : h = [g EXCEPT !.transport = t]
  OBVIOUS
<1>6. /\ DOMAIN h = DOMAIN g /\ h.transport = t /\ h.previous = g.previous
      /\ h.skipped = g.skipped /\ h.queue = g.queue
  BY <1>2, <1>5 DEF Settled, Proper
<1>7. Settled(h)
  BY <1>2, <1>4, <1>6 DEF Settled, Proper, Still, IsLoading
<1>8. QED
  BY <1>1, <1>2, <1>3, <1>5, <1>6, <1>7

LEMMA TrackFailedForGood ==
  ASSUME NEW s, Proper(s), NEW r
  PROVE  Settled(FailForGood(s, r))
<1>1. PICK h : h = [DiscardTransport(s) EXCEPT !.transport = Failed("output", FALSE)]
  OBVIOUS
<1>2. Settled(h)
  BY <1>1, TrackFailed
<1>3. PICK g : g = PublishState(h)
  OBVIOUS
<1>4. Settled(g) /\ Proper(g)
  BY <1>2, <1>3, TrackPublished, TrackAlike DEF Settled
<1>5. Settled(Answer(g, r))
  BY <1>4, TrackAnswered, TrackAlike
<1>6. QED
  BY <1>1, <1>3, <1>5 DEF FailForGood

(* What starts is the track there was, or what the queue says is current.  *)
LEMMA TrackBegun ==
  ASSUME NEW s, Proper(s), NEW luck, NEW request, IsRequest(request),
         \/ request.entry = Entry(transport)
         \/ HasCurrent(s.queue) /\ CurrentId(s.queue) = request.entry,
         request.resume => request.responder # NoOne,
         CountsFor(s, request.responder)
  PROVE  Follows(BeginStart(s, request, luck))
<1> DEFINE gone == DiscardTransport(s)
           seen == IF s.transport.kind \in {"loaded", "failed"} THEN PublishState(gone) ELSE gone
           job == FreshJob(seen)
           loading == [kind |-> "loading", request |-> request, stage |-> "source", job |-> job,
                       device |-> NoDevice]
<1>1. Settled(seen) /\ seen.queue = s.queue /\ seen.skipped = s.skipped
  <2>1. Settled(gone) /\ gone.queue = s.queue /\ gone.skipped = s.skipped
    BY TrackLetGo
  <2> HIDE DEF gone
  <2>2. SameTrack(PublishState(gone), gone) /\ Settled(PublishState(gone))
    BY <2>1, TrackPublished, TrackAlike DEF Settled
  <2>3. QED
    BY <2>1, <2>2 DEF SameTrack
<1>2. BeginStart(s, request, luck) =
        IF luck.opens THEN [seen EXCEPT !.jobs[job] = "load", !.transport = loading]
        ELSE FailForGood(seen, request.responder)
  BY DEF BeginStart
<1> HIDE DEF seen, job
<1>3. CASE luck.opens
  <2>1. /\ loading.kind = "loading" /\ loading.request = request /\ loading.stage = "source"
        /\ DOMAIN loading = {"kind", "request", "stage", "job", "device"}
    OBVIOUS
  <2> HIDE DEF loading
  <2>2. PICK h : h = [seen EXCEPT !.jobs[job] = "load", !.transport = loading]
    OBVIOUS
  <2>3. /\ DOMAIN h = DOMAIN seen /\ h.transport = loading /\ h.previous = seen.previous
        /\ h.skipped = s.skipped /\ h.queue = s.queue
    BY <1>1, <2>2 DEF Settled, Proper
  <2>4. Proper(h)
    BY <1>1, <2>1, <2>3 DEF Settled, Proper, Shaped, IsLoading
  <2>5. Still(h) \/ OnCurrent(h)
    BY <2>1, <2>3, EntryOf DEF Still, OnCurrent
  <2>6. Counted(h)
    BY <2>1, <2>3 DEF Counted, CountsFor
  <2>7. QED
    BY <1>2, <1>3, <2>2, <2>4, <2>5, <2>6 DEF Follows
<1>4. CASE ~luck.opens
  <2>1. Settled(FailForGood(seen, request.responder))
    BY <1>1, TrackFailedForGood DEF Settled
  <2>2. QED
    BY <1>2, <1>4, <2>1, SettledFollows
<1>5. QED
  BY <1>3, <1>4

(* The start of what is current, after the queue is published.             *)
LEMMA CurrentBegun ==
  ASSUME NEW s, Proper(s), HasCurrent(s.queue), NEW luck, NEW r, r \in Responsible, NEW paused,
         CountsFor(s, r)
  PROVE  Follows(BeginStart(PublishQueue(s, luck), NewStart(CurrentId(s.queue), r, paused), luck))
<1>1. PICK h : h = PublishQueue(s, luck)
  OBVIOUS
<1>2. PICK request : request = NewStart(CurrentId(s.queue), r, paused)
  OBVIOUS
<1>3. /\ IsRequest(request) /\ request.responder = r /\ request.entry = CurrentId(s.queue)
      /\ ~request.resume
  BY <1>2, PlainStart DEF NewStart
<1>4. /\ Proper(h) /\ h.skipped = s.skipped /\ h.queue.nextId = s.queue.nextId
      /\ HasCurrent(h.queue) /\ CurrentId(h.queue) = CurrentId(s.queue)
  BY <1>1, QueueShown
<1>5. CountsFor(h, request.responder)
  BY <1>3, <1>4 DEF CountsFor
<1>6. Follows(BeginStart(h, request, luck))
  BY <1>3, <1>4, <1>5, TrackBegun
<1>7. QED
  BY <1>1, <1>2, <1>6

LEMMA PlainResolved ==
  ASSUME NEW q, Plain(q), NEW luck
  PROVE  LET m == Resolved(q, luck)
         IN Plain(m) /\ m.nextId = q.nextId
BY PlainWithoutEntries DEF Resolved

LEMMA TrackStopped ==
  ASSUME NEW s, Proper(s), NEW luck, NEW r
  PROVE  Settled(StopForGood(s, r, luck))
<1>1. PICK gone : gone = DiscardTransport(s)
  OBVIOUS
<1>2. PICK q : q = Cleared(s.queue)
  OBVIOUS
<1>3. PICK h : h = [gone EXCEPT !.queue = q]
  OBVIOUS
<1>4. Plain(q)
  BY <1>2, PlainCleared DEF Proper
<1>5. Settled(gone)
  BY <1>1, TrackLetGo
<1>6. Settled(h)
  BY <1>3, <1>4, <1>5, TrackMoved
<1>7. PICK g : g = QueueChanged(h, luck)
  OBVIOUS
<1>8. Settled(g)
  BY <1>6, <1>7, BothShown DEF Settled
<1>9. Settled(Answer(g, r))
  BY <1>8, TrackAnswered, TrackAlike DEF Settled
<1>10. QED
  BY <1>1, <1>2, <1>3, <1>7, <1>9 DEF StopForGood

(* What a CASE comes to, and why.                                          *)
LEMMA FirstOfFour ==
  ASSUME NEW a, NEW b, NEW c, NEW u, NEW v, NEW w, NEW x, a, ~b, ~c
  PROVE  (CASE a -> u [] b -> v [] c -> w [] OTHER -> x) = u
BY Zenon

LEMMA LastOfThree ==
  ASSUME NEW a, NEW b, NEW u, NEW v, NEW w
  PROVE  (CASE a -> u [] b -> v [] OTHER -> w) \in {u, v} \/ (~a /\ ~b)
BY Zenon

LEMMA LastOfFour ==
  ASSUME NEW a, NEW b, NEW c, NEW u, NEW v, NEW w, NEW x
  PROVE  (CASE a -> u [] b -> v [] c -> w [] OTHER -> x) \in {u, v, w} \/ (~a /\ ~b /\ ~c)
BY Zenon

LEMMA TrackStarted ==
  ASSUME NEW s, Settled(s), NEW luck, NEW paused, NEW r, r \in Responsible, Apart(s.queue, r)
  PROVE  Follows(StartCurrent(s, r, paused, luck))
<1> DEFINE q == Resolved(s.queue, luck)
           moved == [s EXCEPT !.queue = q]
           h == StartCurrent(s, r, paused, luck)
<1>1. Plain(q) /\ q.nextId = s.queue.nextId
  BY PlainResolved DEF Settled, Proper
<1>2. Settled(moved) /\ moved.queue = q
  BY <1>1, TrackMoved
<1>3. \/ h = Answer(s, r)
      \/ h = StopForGood(moved, r, luck)
      \/ h = Answer(PublishQueue(moved, luck), r)
      \/ /\ HasCurrent(q)
         /\ h = BeginStart(PublishQueue(moved, luck), NewStart(CurrentId(q), r, paused), luck)
  <2> DEFINE begun == BeginStart(PublishQueue(moved, luck), NewStart(CurrentId(q), r, paused),
                                 luck)
             others == {Answer(s, r), StopForGood(moved, r, luck),
                        Answer(PublishQueue(moved, luck), r)}
  <2>1. h \in {Answer(s, r), StopForGood(moved, r, luck),
               Answer(PublishQueue(moved, luck), r), begun}
    BY OneOfFour, Zenon DEF StartCurrent
  <2>2. \/ h \in others
        \/ /\ ~(~HasCurrent(s.queue)) /\ ~(HasCurrent(s.queue) /\ ~HasCurrent(q))
           /\ ~(HasCurrent(q) /\ ~Found(q, luck))
    BY LastOfFour, Zenon DEF StartCurrent
  <2> HIDE DEF h, q, moved, begun
  <2>3. QED
    BY <2>1, <2>2 DEF begun
<1> HIDE DEF moved, q, h
<1>4. Follows(Answer(s, r))
  BY TrackAnswered, TrackAlike, SettledFollows DEF Settled
<1>5. Follows(StopForGood(moved, r, luck))
  BY <1>2, TrackStopped, SettledFollows DEF Settled
<1>6. Follows(Answer(PublishQueue(moved, luck), r))
  <2>1. PICK g : g = PublishQueue(moved, luck)
    OBVIOUS
  <2>2. Settled(g)
    BY <1>2, <2>1, QueueShown DEF Settled
  <2>3. Settled(Answer(g, r))
    BY <2>2, TrackAnswered, TrackAlike DEF Settled
  <2>4. QED
    BY <2>1, <2>3, SettledFollows
<1>7. ASSUME HasCurrent(q)
      PROVE  Follows(BeginStart(PublishQueue(moved, luck), NewStart(CurrentId(q), r, paused), luck))
  <2>1. CountsFor(moved, r)
    BY <1>1, <1>2 DEF CountsFor, Apart
  <2>2. Proper(moved) /\ HasCurrent(moved.queue)
    BY <1>2, <1>7 DEF Settled
  <2>3. Follows(BeginStart(PublishQueue(moved, luck),
                           NewStart(CurrentId(moved.queue), r, paused), luck))
    BY <2>1, <2>2, CurrentBegun
  <2>4. QED
    BY <1>2, <2>3
<1>8. Follows(h)
  BY <1>3, <1>4, <1>5, <1>6, <1>7
<1>9. QED
  BY <1>8 DEF h

LEMMA PlainAdvance ==
  ASSUME NEW q, Plain(q), NEW reason, CanAdvance(q, reason)
  PROVE  LET m == Advance(q, reason)
         IN Plain(m) /\ m.nextId = q.nextId /\ Length(m) = Length(q)
<1>1. Advance(q, reason) \in Advanced(q, reason)
  BY DEF CanAdvance, Advance
<1>2. QED
  BY <1>1, PlainAdvanced

LEMMA TrackAdvanced ==
  ASSUME NEW s, Settled(s), NEW luck, NEW paused, NEW r, r \in Responsible, Apart(s.queue, r)
  PROVE  Follows(AdvanceAfterTrack(s, r, paused, luck))
<1> DEFINE q == Resolved(Advance(s.queue, "natural"), luck)
           moved == [s EXCEPT !.queue = q]
           counted == [moved EXCEPT !.skipped = 0]
           h == AdvanceAfterTrack(s, r, paused, luck)
<1>1. CanAdvance(s.queue, "natural") => Plain(q) /\ q.nextId = s.queue.nextId
  BY PlainAdvance, PlainResolved DEF Settled, Proper
<1>2. CanAdvance(s.queue, "natural") => Settled(moved) /\ moved.queue = q
  BY <1>1, TrackMoved
<1>3. \/ h = StopForGood(s, r, luck)
      \/ /\ CanAdvance(s.queue, "natural")
         /\ \/ h = StopForGood(moved, r, luck)
            \/ h = Answer(QueueChanged(DiscardTransport(moved), luck), r)
            \/ /\ HasCurrent(q)
               /\ h = BeginStart(PublishQueue(counted, luck), NewStart(CurrentId(q), r, paused),
                                 luck)
  <2> DEFINE begun == BeginStart(PublishQueue(counted, luck), NewStart(CurrentId(q), r, paused),
                                 luck)
             can == CanAdvance(s.queue, "natural")
             left == Answer(QueueChanged(DiscardTransport(moved), luck), r)
  <2>1. h \in {StopForGood(s, r, luck), StopForGood(moved, r, luck), left, begun}
    BY OneOfFour, Zenon DEF AdvanceAfterTrack
  <2>2. \/ h \in {StopForGood(s, r, luck), StopForGood(moved, r, luck), left}
        \/ /\ ~(~can) /\ ~(can /\ ~HasCurrent(q)) /\ ~(can /\ HasCurrent(q) /\ ~Found(q, luck))
    BY LastOfFour, Zenon DEF AdvanceAfterTrack
  <2>3. ASSUME ~can PROVE h = StopForGood(s, r, luck)
    <3>1. ~can /\ ~(can /\ ~HasCurrent(q)) /\ ~(can /\ HasCurrent(q) /\ ~Found(q, luck))
      BY <2>3
    <3>2. QED
      BY <3>1, FirstOfFour, Zenon DEF AdvanceAfterTrack
  <2> HIDE DEF h, q, moved, begun, can, left
  <2>4. QED
    BY <2>1, <2>2, <2>3 DEF begun, can, left
<1> HIDE DEF q, h
<1>4. Follows(StopForGood(s, r, luck))
  BY TrackStopped, SettledFollows DEF Settled
<1>5. ASSUME CanAdvance(s.queue, "natural")
      PROVE  /\ Follows(StopForGood(moved, r, luck))
             /\ Follows(Answer(QueueChanged(DiscardTransport(moved), luck), r))
             /\ HasCurrent(q) => Follows(BeginStart(PublishQueue(counted, luck),
                                                    NewStart(CurrentId(q), r, paused), luck))
  <2>1. Settled(counted) /\ counted.queue = q /\ Settled(moved) /\ Proper(moved)
    <3>1. Settled(moved) /\ moved.queue = q
      BY <1>2, <1>5
    <3> HIDE DEF moved
    <3>2. /\ DOMAIN counted = DOMAIN moved /\ counted.transport = moved.transport
          /\ counted.queue = moved.queue /\ counted.previous = moved.previous
          /\ counted.skipped = 0
      BY <3>1 DEF Settled, Proper
    <3> HIDE DEF counted
    <3>3. QED
      BY <3>1, <3>2 DEF Settled, Proper, Still
  <2> HIDE DEF counted, moved
  <2>2. Follows(StopForGood(moved, r, luck))
    BY <2>1, TrackStopped, SettledFollows
  <2>3. Follows(Answer(QueueChanged(DiscardTransport(moved), luck), r))
    <3>1. PICK gone : gone = DiscardTransport(moved)
      OBVIOUS
    <3>2. Settled(gone)
      BY <2>1, <3>1, TrackLetGo
    <3>3. PICK g : g = QueueChanged(gone, luck)
      OBVIOUS
    <3>4. Settled(g)
      BY <3>2, <3>3, BothShown DEF Settled
    <3>5. Settled(Answer(g, r))
      BY <3>4, TrackAnswered, TrackAlike DEF Settled
    <3>6. QED
      BY <3>1, <3>3, <3>5, SettledFollows
  <2>4. ASSUME HasCurrent(q)
        PROVE  Follows(BeginStart(PublishQueue(counted, luck), NewStart(CurrentId(q), r, paused),
                                  luck))
    <3>1. CountsFor(counted, r)
      BY <1>1, <1>5, <2>1 DEF CountsFor, Apart
    <3>2. Proper(counted) /\ HasCurrent(counted.queue)
      BY <2>1, <2>4 DEF Settled
    <3>3. Follows(BeginStart(PublishQueue(counted, luck),
                             NewStart(CurrentId(counted.queue), r, paused), luck))
      BY <3>1, <3>2, CurrentBegun
    <3>4. QED
      BY <2>1, <3>3
  <2>5. QED
    BY <2>2, <2>3, <2>4
<1> HIDE DEF moved, counted
<1>6. Follows(h)
  BY <1>3, <1>4, <1>5
<1>7. QED
  BY <1>6 DEF h

-----------------------------------------------------------------------------
(* Failing.                                                                *)

(* The worker skips only where the queue can go on.                        *)
LEMMA SkipsOnlyOnward ==
  ASSUME NEW s, Plain(s.queue), WillSkip(s)
  PROVE  CanAdvance(s.queue, "next")
<1>1. /\ Length(s.queue) \in Nat /\ s.queue.current \in 1..(Length(s.queue) + 1)
      /\ s.queue.current < Length(s.queue) \/ (s.queue.repeat = "all" /\ Length(s.queue) > 1)
  BY PlainPlays DEF Plain, Length, WillSkip, CanGoNext, Wraps
<1>2. ~IsEmpty(s.queue)
  <2>1. Length(s.queue) > 0
    BY <1>1
  <2>2. Len(<<>>) = 0
    OBVIOUS
  <2>3. QED
    BY <2>1, <2>2 DEF IsEmpty, Length
<1>3. Advanced(s.queue, "next") =
        IF s.queue.current < Length(s.queue) THEN {[s.queue EXCEPT !.current = @ + 1]}
        ELSE IF s.queue.repeat = "all" THEN WrappedToStart(s.queue) ELSE {}
  <2>1. "next" # "natural" /\ "next" # "previous"
    OBVIOUS
  <2>2. Advanced(s.queue, "next") =
          CASE IsEmpty(s.queue) -> {}
            [] ~IsEmpty(s.queue) /\ "next" = "natural" /\ s.queue.repeat = "one" -> {s.queue}
            [] ~IsEmpty(s.queue) /\ "next" = "previous" ->
                 IF s.queue.current > 1 THEN {[s.queue EXCEPT !.current = @ - 1]}
                 ELSE IF s.queue.repeat = "all"
                      THEN {[s.queue EXCEPT !.current = Length(s.queue)]} ELSE {}
            [] OTHER ->
                 IF s.queue.current < Length(s.queue) THEN {[s.queue EXCEPT !.current = @ + 1]}
                 ELSE IF s.queue.repeat = "all" THEN WrappedToStart(s.queue) ELSE {}
    BY DEF Advanced
  <2>3. QED
    BY <1>2, <2>1, <2>2, Zenon
<1>4. WrappedToStart(s.queue) = {[s.queue EXCEPT !.current = 1]}
  BY PlainPlays DEF WrappedToStart
<1>5. QED
  BY <1>1, <1>3, <1>4 DEF CanAdvance

(* A skip counts, and the start after it is for the same caller.           *)
LEMMA TrackSkipped ==
  ASSUME NEW s, Settled(s), NEW luck, NEW r, r \in Responsible,
         IsLoading(transport) =>
           s.skipped = skipped /\ Length(s.queue) = Length(queue)
  PROVE  Follows(SkipPast(s, r, luck))
<1> DEFINE failure == [DiscardTransport(s) EXCEPT !.transport = Failed("item", WillSkip(s))]
           counted == [DiscardTransport(s) EXCEPT
                         !.transport = Failed("item", WillSkip(s)),
                         !.skipped = s.skipped + 1]
           failed == PublishState(counted)
           q == Resolved(Advance(s.queue, "next"), luck)
           moved == [failed EXCEPT !.queue = q]
           h == SkipPast(s, r, luck)
<1>1. Settled(counted) /\ counted.queue = s.queue /\ counted.skipped = s.skipped + 1
  <2>1. Settled(failure) /\ failure.queue = s.queue /\ failure.skipped = s.skipped
    BY TrackFailed DEF Settled
  <2>2. PICK gone : gone = DiscardTransport(s)
    OBVIOUS
  <2>3. Settled(gone)
    BY <2>2, TrackLetGo DEF Settled
  <2>4. PICK t : t = Failed("item", WillSkip(s))
    OBVIOUS
  <2>5. PICK f : f = failure
    OBVIOUS
  <2>6. PICK c : c = counted
    OBVIOUS
  <2>7. /\ DOMAIN c = DOMAIN f /\ c.transport = f.transport /\ c.queue = f.queue
        /\ c.previous = f.previous /\ c.skipped = s.skipped + 1
    <3>1. c = [gone EXCEPT !.transport = t, !.skipped = s.skipped + 1]
          /\ f = [gone EXCEPT !.transport = t]
      BY <2>2, <2>4, <2>5, <2>6
    <3>2. QED
      BY <2>3, <3>1 DEF Settled, Proper
  <2>8. s.skipped + 1 \in Nat
    BY DEF Settled, Proper
  <2> HIDE DEF failure, counted
  <2>9. Settled(c)
    BY <2>1, <2>5, <2>7, <2>8 DEF Settled, Proper, Still
  <2>10. QED
    BY <2>1, <2>5, <2>6, <2>7, <2>9
<1>2. \/ h = Answer(failed, r)
      \/ /\ WillSkip(s)
         /\ \/ h = Answer(moved, r)
            \/ /\ HasCurrent(q)
               /\ h = BeginStart(PublishQueue(moved, luck), NewStart(CurrentId(q), r, FALSE), luck)
  <2> DEFINE begun == BeginStart(PublishQueue(moved, luck), NewStart(CurrentId(q), r, FALSE),
                                 luck)
  <2>1. h \in {Answer(failed, r), Answer(moved, r), begun}
    BY OneOfThree, Zenon DEF SkipPast
  <2>2. \/ h \in {Answer(failed, r), Answer(moved, r)}
        \/ ~(~WillSkip(s)) /\ ~(WillSkip(s) /\ ~Found(q, luck))
    BY LastOfThree, Zenon DEF SkipPast
  <2>3. ASSUME ~WillSkip(s) PROVE h = Answer(failed, r)
    BY <2>3, Zenon DEF SkipPast
  <2> HIDE DEF h, q, moved, failed, begun
  <2>4. Found(q, luck) => HasCurrent(q)
    BY DEF Found
  <2>5. QED
    BY <2>1, <2>2, <2>3, <2>4 DEF begun
<1> HIDE DEF counted, q, h
<1>3. Settled(failed) /\ failed.queue = s.queue /\ failed.skipped = s.skipped + 1
  BY <1>1, TrackPublished, TrackAlike DEF Settled, SameTrack
<1> HIDE DEF failed
<1>4. Follows(Answer(failed, r))
  BY <1>3, TrackAnswered, TrackAlike, SettledFollows DEF Settled
<1>5. ASSUME WillSkip(s)
      PROVE  /\ Follows(Answer(moved, r))
             /\ HasCurrent(q) => Follows(BeginStart(PublishQueue(moved, luck),
                                                    NewStart(CurrentId(q), r, FALSE), luck))
  <2>1. Plain(q)
    BY <1>5, SkipsOnlyOnward, PlainAdvance, PlainResolved DEF Settled, Proper, q
  <2>2. Settled(moved) /\ moved.queue = q /\ moved.skipped = s.skipped + 1
    BY <1>3, <2>1, TrackMoved
  <2> HIDE DEF moved
  <2>3. Follows(Answer(moved, r))
    BY <2>2, TrackAnswered, TrackAlike, SettledFollows DEF Settled
  <2>4. CountsFor(moved, r)
    <3>1. s.skipped \in Nat /\ s.skipped + 1 < Length(s.queue)
      BY <1>5 DEF Settled, Proper, WillSkip
    <3>2. QED
      BY <2>2, <3>1 DEF CountsFor
  <2>5. ASSUME HasCurrent(q)
        PROVE  Follows(BeginStart(PublishQueue(moved, luck), NewStart(CurrentId(q), r, FALSE), luck))
    <3>1. Proper(moved) /\ HasCurrent(moved.queue)
      BY <2>2, <2>5 DEF Settled
    <3>2. Follows(BeginStart(PublishQueue(moved, luck),
                             NewStart(CurrentId(moved.queue), r, FALSE), luck))
      BY <2>4, <3>1, CurrentBegun
    <3>3. QED
      BY <2>2, <3>2
  <2>6. QED
    BY <2>3, <2>5
<1> HIDE DEF moved
<1>6. Follows(h)
  BY <1>2, <1>4, <1>5
<1>7. QED
  BY <1>6 DEF h

(* The worker where it set out from, but for its threads.                  *)
AsBefore(s) ==
  /\ Proper(s) /\ s.transport = transport /\ s.queue = queue /\ s.previous = previous
  /\ s.skipped = skipped

LEMMA BeforeIsSettled ==
  ASSUME NEW s, AsBefore(s)
  PROVE  Settled(s)
BY DEF AsBefore, Settled, Still

LEMMA TrackStartFailed ==
  ASSUME NEW s, AsBefore(s), IsLoading(transport), NEW scope, NEW luck
  PROVE  Follows(FailStart(s, scope, luck))
<1>1. PICK failed : failed = [s EXCEPT !.transport = Idle]
  OBVIOUS
<1>2. PICK r : r = s.transport.request.responder
  OBVIOUS
<1>3. r \in Responsible
  BY <1>2 DEF AsBefore, Proper, Shaped, IsRequest, IsLoading
<1>4. /\ DOMAIN failed = DOMAIN s /\ failed.transport = Idle /\ failed.queue = s.queue
      /\ failed.previous = s.previous /\ failed.skipped = s.skipped
  BY <1>1 DEF AsBefore, Proper
<1>5. Settled(failed)
  <2>1. Shaped(Idle) /\ Idle.kind = "idle"
    BY NobodyHolds DEF Shaped
  <2>2. QED
    BY <1>4, <2>1 DEF AsBefore, Settled, Proper, Still, IsLoading
<1>6. Follows(FailForGood(failed, r))
  BY <1>5, TrackFailedForGood, SettledFollows DEF Settled
<1>7. Follows(SkipPast(failed, r, luck))
  BY <1>3, <1>4, <1>5, TrackSkipped DEF AsBefore
<1>8. FailStart(s, scope, luck) \in {FailForGood(failed, r), SkipPast(failed, r, luck)}
  BY <1>1, <1>2 DEF FailStart
<1>9. QED
  BY <1>6, <1>7, <1>8

-----------------------------------------------------------------------------
(* Seeking.                                                                *)

(* A loaded track, however its parts are changed, if it is the same one.   *)
LEMMA TrackKept ==
  ASSUME NEW s, Settled(s), IsLoaded(s.transport),
         NEW h, DOMAIN h = DOMAIN s, h.queue = s.queue, h.previous = s.previous,
         h.skipped = s.skipped,
         h.transport.kind = "loaded", DOMAIN h.transport = DOMAIN s.transport,
         h.transport.entry = s.transport.entry,
         DOMAIN h.transport.seek = {"job", "responder"},
         h.transport.seek.responder \in Responsible,
         DOMAIN h.transport.prefetch = {"entry", "job"}
  PROVE  Settled(h)
<1>1. Shaped(h.transport)
  BY DEF Settled, Proper, Shaped, IsLoaded
<1>2. Proper(h)
  BY <1>1 DEF Settled, Proper, IsLoading
<1>3. Still(h)
  BY EntryOf DEF Settled, Still, IsLoaded
<1>4. QED
  BY <1>2, <1>3 DEF Settled

LEMMA LoadedParts ==
  ASSUME NEW s, Proper(s), IsLoaded(s.transport)
  PROVE  /\ s.transport.kind = "loaded"
         /\ DOMAIN s.transport =
              {"kind", "entry", "device", "paused", "job", "seek", "prefetch"}
         /\ DOMAIN s.transport.seek = {"job", "responder"}
         /\ s.transport.seek.responder \in Responsible
         /\ DOMAIN s.transport.prefetch = {"entry", "job"}
         /\ DOMAIN NoSeek = {"job", "responder"} /\ NoSeek.responder \in Responsible
         /\ DOMAIN NoPrefetch = {"entry", "job"}
BY DEF Proper, Shaped, IsLoaded, NoSeek, NoPrefetch, Responsible

LEMMA TrackSeekCancelled ==
  ASSUME NEW s, Settled(s)
  PROVE  LET h == CancelSeek(s)
         IN /\ Settled(h) /\ h.queue = s.queue
            /\ IsLoaded(s.transport) => IsLoaded(h.transport)
<1>1. CASE ~IsLoaded(s.transport)
  BY <1>1 DEF CancelSeek
<1>2. CASE IsLoaded(s.transport)
  <2>1. PICK h : h = CancelSeek(s)
    OBVIOUS
  <2>2. h = [s EXCEPT !.transport.seek = NoSeek, !.waiting = @ \ Responders(s.transport)]
    BY <1>2, <2>1 DEF CancelSeek
  <2>3. /\ DOMAIN h = DOMAIN s /\ h.queue = s.queue /\ h.previous = s.previous
        /\ h.skipped = s.skipped /\ h.transport = [s.transport EXCEPT !.seek = NoSeek]
    BY <2>2 DEF Settled, Proper
  <2>4. /\ h.transport.kind = "loaded" /\ DOMAIN h.transport = DOMAIN s.transport
        /\ h.transport.entry = s.transport.entry
        /\ DOMAIN h.transport.seek = {"job", "responder"}
        /\ h.transport.seek.responder \in Responsible
        /\ DOMAIN h.transport.prefetch = {"entry", "job"}
    BY <1>2, <2>3, LoadedParts DEF Settled
  <2>5. Settled(h)
    BY <1>2, <2>3, <2>4, TrackKept
  <2>6. QED
    BY <2>1, <2>3, <2>4, <2>5 DEF IsLoaded
<1>3. QED
  BY <1>1, <1>2

LEMMA TrackPrefetch ==
  ASSUME NEW s, Settled(s), IsLoaded(s.transport), NEW prefetch,
         DOMAIN prefetch = {"entry", "job"}
  PROVE  LET h == [s EXCEPT !.transport.prefetch = prefetch]
         IN Settled(h) /\ h.queue = s.queue /\ IsLoaded(h.transport)
<1>1. PICK h : h = [s EXCEPT !.transport.prefetch = prefetch]
  OBVIOUS
<1>2. /\ DOMAIN h = DOMAIN s /\ h.queue = s.queue /\ h.previous = s.previous
      /\ h.skipped = s.skipped /\ h.transport = [s.transport EXCEPT !.prefetch = prefetch]
  BY <1>1 DEF Settled, Proper
<1>3. /\ h.transport.kind = "loaded" /\ DOMAIN h.transport = DOMAIN s.transport
      /\ h.transport.entry = s.transport.entry
      /\ DOMAIN h.transport.seek = {"job", "responder"}
      /\ h.transport.seek.responder \in Responsible
      /\ DOMAIN h.transport.prefetch = {"entry", "job"}
  BY <1>2, LoadedParts DEF Settled
<1>4. Settled(h)
  BY <1>2, <1>3, TrackKept
<1>5. QED
  BY <1>1, <1>2, <1>3, <1>4 DEF IsLoaded

LEMMA TrackSought ==
  ASSUME NEW s, Settled(s), NEW target, NEW luck, NEW r, r \in Responsible, Apart(s.queue, r)
  PROVE  Follows(BeginSeek(s, r, target, luck))
<1> DEFINE free == CancelSeek(s)
           alone == IF IsLoaded(s.transport) THEN [free EXCEPT !.transport.prefetch = NoPrefetch]
                    ELSE free
           job == FreshJob(alone)
           sought == [alone EXCEPT !.jobs[job] = "filling",
                                   !.transport.seek = [job |-> job, responder |-> r]]
           h == BeginSeek(s, r, target, luck)
<1>1. /\ Settled(alone) /\ alone.queue = s.queue
      /\ IsLoaded(s.transport) => IsLoaded(alone.transport)
  <2>1. /\ Settled(free) /\ free.queue = s.queue
        /\ IsLoaded(s.transport) => IsLoaded(free.transport)
    BY TrackSeekCancelled
  <2> HIDE DEF free
  <2>2. DOMAIN NoPrefetch = {"entry", "job"}
    BY DEF NoPrefetch
  <2>3. QED
    BY <2>1, <2>2, TrackPrefetch
<1>2. \/ h = Answer(alone, r)
      \/ IsLoaded(s.transport) /\ h = AdvanceAfterTrack(alone, r, s.transport.paused, luck)
      \/ IsLoaded(s.transport) /\ h = sought
  BY Zenon DEF BeginSeek
<1> HIDE DEF alone, h, job
<1>3. Follows(Answer(alone, r))
  BY <1>1, TrackAnswered, TrackAlike, SettledFollows DEF Settled
<1>4. Follows(AdvanceAfterTrack(alone, r, s.transport.paused, luck))
  BY <1>1, TrackAdvanced
<1>5. ASSUME IsLoaded(s.transport) PROVE Follows(sought)
  <2>1. PICK seek : seek = [job |-> job, responder |-> r]
    OBVIOUS
  <2>2. DOMAIN seek = {"job", "responder"} /\ seek.responder = r
    BY <2>1
  <2>3. PICK g : g = [alone EXCEPT !.jobs[job] = "filling", !.transport.seek = seek]
    OBVIOUS
  <2>4. /\ DOMAIN g = DOMAIN alone /\ g.queue = alone.queue /\ g.previous = alone.previous
        /\ g.skipped = alone.skipped /\ g.transport = [alone.transport EXCEPT !.seek = seek]
    BY <1>1, <2>3 DEF Settled, Proper
  <2>5. /\ g.transport.kind = "loaded" /\ DOMAIN g.transport = DOMAIN alone.transport
        /\ g.transport.entry = alone.transport.entry /\ g.transport.seek = seek
        /\ DOMAIN g.transport.prefetch = {"entry", "job"}
    BY <1>1, <1>5, <2>4, LoadedParts DEF Settled
  <2>6. Settled(g)
    BY <1>1, <1>5, <2>2, <2>4, <2>5, TrackKept
  <2>7. QED
    BY <2>1, <2>3, <2>6, SettledFollows
<1> HIDE DEF sought
<1>6. Follows(h)
  BY <1>2, <1>3, <1>4, <1>5
<1>7. QED
  BY <1>6 DEF h

LEMMA TrackSeekFinished ==
  ASSUME NEW s, Settled(s), IsLoaded(s.transport)
  PROVE  Settled(FinishSeek(s))
<1>1. PICK h : h = [s EXCEPT !.transport.job = s.transport.seek.job, !.transport.seek = NoSeek]
  OBVIOUS
<1>2. PICK t : t = [s.transport EXCEPT !.job = s.transport.seek.job, !.seek = NoSeek]
  OBVIOUS
<1>3. /\ DOMAIN s.transport = {"kind", "entry", "device", "paused", "job", "seek", "prefetch"}
      /\ "transport" \in DOMAIN s
  BY LoadedParts DEF Settled, Proper
<1>4. h = [s EXCEPT !.transport = t]
  BY <1>1, <1>2, <1>3
<1>5. /\ DOMAIN h = DOMAIN s /\ h.queue = s.queue /\ h.previous = s.previous
      /\ h.skipped = s.skipped /\ h.transport = t
  BY <1>4 DEF Settled, Proper
<1>6. /\ h.transport.kind = "loaded" /\ DOMAIN h.transport = DOMAIN s.transport
      /\ h.transport.entry = s.transport.entry
      /\ DOMAIN h.transport.seek = {"job", "responder"}
      /\ h.transport.seek.responder \in Responsible
      /\ DOMAIN h.transport.prefetch = {"entry", "job"}
  BY <1>2, <1>5, LoadedParts DEF Settled
<1>7. Settled(h)
  BY <1>5, <1>6, TrackKept
<1>8. PICK g : g = PublishState(h)
  OBVIOUS
<1>9. Settled(g)
  BY <1>7, <1>8, TrackPublished, TrackAlike DEF Settled
<1>10. Settled(Answer(g, s.transport.seek.responder))
  BY <1>9, TrackAnswered, TrackAlike DEF Settled
<1>11. QED
  BY <1>1, <1>8, <1>10 DEF FinishSeek

-----------------------------------------------------------------------------
(* What the threads report.                                                *)
LEMMA TrackPrebuffering ==
  ASSUME NEW s, AsBefore(s), IsLoading(transport), NEW opened, NEW luck
  PROVE  Follows(BeginPrebuffering(s, opened, luck))
<1> DEFINE request == s.transport.request
           job == FreshJob([s EXCEPT !.transport = Idle])
           device == IF request.selection = NoDevice THEN s.selection ELSE request.selection
<1>1. CASE opened # "ok"
  <2>1. BeginPrebuffering(s, opened, luck) = FailStart(s, opened, luck)
    BY <1>1 DEF BeginPrebuffering
  <2>2. QED
    BY <2>1, TrackStartFailed
<1>2. CASE opened = "ok"
  <2>1. PICK h : h = [s EXCEPT !.jobs[job] = "filling", !.transport.stage = "prebuffering",
                              !.transport.job = job, !.transport.device = device]
    OBVIOUS
  <2>2. BeginPrebuffering(s, opened, luck) = h
    BY <1>2, <2>1 DEF BeginPrebuffering
  <2> HIDE DEF job, device
  <2>3. /\ DOMAIN h = DOMAIN s /\ h.queue = s.queue /\ h.previous = s.previous
        /\ h.skipped = s.skipped
        /\ h.transport = [s.transport EXCEPT !.stage = "prebuffering", !.job = job,
                                            !.device = device]
    BY <2>1 DEF AsBefore, Proper
  <2>4. /\ DOMAIN s.transport = {"kind", "request", "stage", "job", "device"}
        /\ s.transport.kind = "loading" /\ IsRequest(s.transport.request)
    BY DEF AsBefore, Proper, Shaped, IsLoading
  <2>5. /\ DOMAIN h.transport = DOMAIN s.transport /\ h.transport.kind = "loading"
        /\ h.transport.request = s.transport.request
        /\ h.transport.stage = "prebuffering"
    BY <2>3, <2>4
  <2>6. Proper(h)
    BY <2>3, <2>4, <2>5 DEF AsBefore, Proper, Shaped, IsLoading
  <2>7. Still(h)
    BY <2>4, <2>5, EntryOf DEF AsBefore, Still
  <2>8. QED
    BY <2>2, <2>6, <2>7, SettledFollows DEF Settled
<1>3. QED
  BY <1>1, <1>2

LEMMA TrackFinished ==
  ASSUME NEW s, AsBefore(s), IsLoading(transport), NEW starts, NEW target, NEW luck
  PROVE  Follows(FinishStart(s, starts, target, luck))
<1> DEFINE request == s.transport.request
           r == request.responder
           track == [kind |-> "loaded", entry |-> request.entry,
                     device |-> s.transport.device, paused |-> request.paused,
                     job |-> s.transport.job, seek |-> NoSeek,
                     prefetch |-> NoPrefetch]
           loaded == [s EXCEPT
             !.selection = IF request.selection = NoDevice THEN @ ELSE request.selection,
             !.skipped = 0,
             !.transport = track]
           playing == Answer(PublishState(loaded), r)
           h == FinishStart(s, starts, target, luck)
<1>1. h \in {FailStart(s, "output", luck), BeginSeek(playing, NoOne, target, luck), playing}
  BY OneOfThree, Zenon DEF FinishStart
<1>2. request.resume \/ h \in {FailStart(s, "output", luck), playing}
  <2>1. CASE request.resume
    BY <2>1
  <2>2. CASE ~request.resume
    <3>1. h = CASE ~request.paused /\ ~starts -> FailStart(s, "output", luck)
                [] (request.paused \/ starts) /\ request.resume ->
                     BeginSeek(playing, NoOne, target, luck)
                [] OTHER -> playing
      BY Zenon DEF FinishStart
    <3> HIDE DEF h, playing
    <3>2. h = FailStart(s, "output", luck) \/ h = playing
      BY <2>2, <3>1, Zenon
    <3>3. QED
      BY <3>2
  <2>3. QED
    BY <2>1, <2>2
<1>3. s.transport.kind = "loading" /\ Entry(transport) = request.entry
  BY EntryOf DEF AsBefore, IsLoading
<1>4. /\ track.kind = "loaded" /\ track.entry = request.entry
      /\ track.seek = NoSeek /\ track.prefetch = NoPrefetch
      /\ DOMAIN track = {"kind", "entry", "device", "paused", "job", "seek", "prefetch"}
  OBVIOUS
<1>5. /\ DOMAIN loaded = DOMAIN s /\ loaded.queue = s.queue /\ loaded.previous = s.previous
      /\ loaded.skipped = 0 /\ loaded.transport = track
  BY DEF AsBefore, Proper
<1> HIDE DEF track, loaded
<1>6. DOMAIN NoSeek = {"job", "responder"} /\ DOMAIN NoPrefetch = {"entry", "job"}
      /\ NoSeek.responder = NoOne
  BY DEF NoSeek, NoPrefetch
<1>7. Settled(loaded)
  <2>1. Shaped(track)
    BY <1>4, <1>6 DEF Shaped, Responsible
  <2>2. Entry(track) = request.entry
    BY <1>4, EntryOf
  <2>3. QED
    BY <1>3, <1>4, <1>5, <2>1, <2>2 DEF AsBefore, Settled, Proper, Still, IsLoading
<1>8. Settled(playing) /\ playing.queue = s.queue
  <2>1. PICK seen : seen = PublishState(loaded)
    OBVIOUS
  <2>2. Settled(seen) /\ SameTrack(seen, loaded)
    BY <1>7, <2>1, TrackPublished, TrackAlike DEF Settled
  <2>3. Settled(Answer(seen, r)) /\ SameTrack(Answer(seen, r), seen)
    BY <2>2, TrackAnswered, TrackAlike DEF Settled
  <2>4. QED
    BY <1>5, <2>1, <2>2, <2>3 DEF SameTrack
<1> HIDE DEF playing
<1>9. Follows(FailStart(s, "output", luck))
  BY TrackStartFailed
<1>10. ASSUME request.resume
       PROVE  Follows(BeginSeek(playing, NoOne, target, luck))
  <2>1. Apart(playing.queue, NoOne)
    BY <1>10 DEF AsBefore, Proper, Apart
  <2>2. NoOne \in Responsible
    BY DEF Responsible
  <2>3. QED
    BY <1>8, <2>1, <2>2, TrackSought
<1>11. QED
  BY <1>1, <1>2, <1>8, <1>9, <1>10, SettledFollows

-----------------------------------------------------------------------------
(* An input taken to the end.                                              *)
Queues == Proper(State)

(* What a step does to the track and to the count of skips.                *)
TrackStep ==
  Entry(transport') \notin {NoEntry, Entry(transport)} =>
    HasCurrent(queue') /\ CurrentId(queue') = Entry(transport')

SkipStep ==
  (/\ IsLoading(transport) /\ IsLoading(transport')
   /\ transport'.request.responder = transport.request.responder
   /\ transport'.request.entry # transport.request.entry
   /\ queue'.nextId = queue.nextId) =>
     skipped' > skipped /\ skipped' < Length(queue)

Step == Queues' /\ TrackStep /\ SkipStep

LEMMA TrackBecame ==
  ASSUME NEW s, Follows(s), Become(s)
  PROVE  Step
<1>1. /\ transport' = s.transport /\ queue' = s.queue /\ previous' = s.previous
      /\ skipped' = s.skipped
  BY DEF Become
<1>2. /\ DOMAIN State' = DOMAIN s /\ State'.transport = s.transport /\ State'.queue = s.queue
      /\ State'.previous = s.previous /\ State'.skipped = s.skipped
  BY <1>1 DEF State, Follows, Proper
<1>3. Queues'
  BY <1>2 DEF Follows, Proper, Queues
<1>4. TrackStep
  BY <1>1, EntryOf DEF Follows, Still, OnCurrent, TrackStep
<1>5. SkipStep
  <2>1. SUFFICES ASSUME IsLoading(transport), IsLoading(s.transport),
                        s.transport.request.responder = transport.request.responder,
                        s.transport.request.entry # transport.request.entry,
                        s.queue.nextId = queue.nextId
                 PROVE  s.skipped > skipped /\ s.skipped < Length(queue)
    BY <1>1 DEF SkipStep
  <2>2. CountsFor(s, s.transport.request.responder)
    BY <2>1 DEF Follows, Counted
  <2>3. QED
    BY <2>1, <2>2 DEF CountsFor
<1>6. QED
  BY <1>3, <1>4, <1>5 DEF Step

LEMMA TrackBecameSettled ==
  ASSUME NEW s, Settled(s), Become(s)
  PROVE  Step
BY SettledFollows, TrackBecame

LEMMA ThreadsApart ==
  ASSUME Queues, NEW job, NEW state
  PROVE  AsBefore([State EXCEPT !.jobs[job] = state])
<1>1. PICK s : s = [State EXCEPT !.jobs[job] = state]
  OBVIOUS
<1>2. /\ DOMAIN s = DOMAIN State /\ s.transport = transport /\ s.queue = queue
      /\ s.previous = previous /\ s.skipped = skipped
  BY <1>1 DEF State
<1>3. State.transport = transport /\ State.queue = queue /\ State.previous = previous
      /\ State.skipped = skipped
  BY DEF State
<1>4. QED
  BY <1>1, <1>2, <1>3 DEF Queues, Proper, AsBefore

LEMMA WithoutIsBefore ==
  ASSUME Queues, NEW job
  PROVE  AsBefore(Without(job)) /\ Settled(Without(job))
BY ThreadsApart, BeforeIsSettled DEF Without

LEMMA StateIsBefore ==
  ASSUME Queues
  PROVE  AsBefore(State) /\ Settled(State)
<1>1. AsBefore(State)
  BY DEF AsBefore, Queues, State
<1>2. QED
  BY <1>1, BeforeIsSettled

LEMMA SourceLoadedSteps ==
  ASSUME Queues, NEW job, NEW opened, NEW luck, SourceLoaded(job, opened, luck)
  PROVE  Step
<1>1. AsBefore(Without(job)) /\ Settled(Without(job))
  BY WithoutIsBefore
<1>2. CASE IsLoading(transport) /\ transport.job = job
  <2>1. Become(BeginPrebuffering(Without(job), opened, luck))
    BY <1>2 DEF SourceLoaded
  <2>2. QED
    BY <1>1, <1>2, <2>1, TrackPrebuffering, TrackBecame
<1>3. CASE ~(IsLoading(transport) /\ transport.job = job)
  BY <1>1, <1>3, TrackBecameSettled DEF SourceLoaded
<1>4. QED
  BY <1>2, <1>3

LEMMA PrebufferReadySteps ==
  ASSUME Queues, NEW job, NEW starts, NEW target, NEW luck,
         PrebufferReady(job, starts, target, luck)
  PROVE  Step
<1> DEFINE s == [State EXCEPT !.jobs[job] = IF @ = "filling" THEN "decoding" ELSE "none"]
<1>1. PICK state : s = [State EXCEPT !.jobs[job] = state]
  OBVIOUS
<1>2. AsBefore(s) /\ Settled(s)
  BY <1>1, ThreadsApart, BeforeIsSettled
<1>3. \/ IsLoading(transport) /\ Become(FinishStart(s, starts, target, luck))
      \/ IsLoaded(transport) /\ Become(FinishSeek(s))
      \/ Become(s)
  <2>1. ~(IsLoading(transport) /\ IsLoaded(transport))
    BY DEF IsLoading, IsLoaded
  <2>2. (CASE IsLoading(transport) /\ transport.job = job ->
                (/\ transport.request.resume => FreeJobs(s) # {}
                 /\ Become(FinishStart(s, starts, target, luck)))
           [] IsLoaded(transport) /\ transport.seek.job = job -> Become(FinishSeek(s))
           [] OTHER -> Become(s))
    BY Zenon DEF PrebufferReady
  <2> HIDE DEF s
  <2>3. QED
    BY <2>1, <2>2, Zenon
<1> HIDE DEF s
<1>4. IsLoading(transport) => Follows(FinishStart(s, starts, target, luck))
  BY <1>2, TrackFinished
<1>5. IsLoaded(transport) => Settled(FinishSeek(s))
  BY <1>2, TrackSeekFinished DEF AsBefore
<1>6. QED
  BY <1>2, <1>3, <1>4, <1>5, TrackBecame, TrackBecameSettled

LEMMA DecodeFailedSteps ==
  ASSUME Queues, NEW job, NEW luck, DecodeFailed(job, luck)
  PROVE  Step
<1> DEFINE s == Without(job)
           marked == [s EXCEPT !.transport.prefetch.job = NoJob]
<1>1. \/ IsLoading(transport) /\ Become(FailStart(s, "item", luck))
      \/ IsLoaded(transport) /\ Become(SkipPast(DiscardTransport(s), NoOne, luck))
      \/ Become(CancelSeek(s))
      \/ IsLoaded(transport) /\ Become(marked)
      \/ Become(s)
  <2>1. ~(IsLoading(transport) /\ IsLoaded(transport))
    BY DEF IsLoading, IsLoaded
  <2>2. (CASE IsLoading(transport) /\ transport.job = job ->
               Become(FailStart(s, "item", luck))
          [] IsLoaded(transport) /\ transport.job = job ->
               Become(SkipPast(DiscardTransport(s), NoOne, luck))
          [] IsLoaded(transport) /\ transport.seek.job = job -> Become(CancelSeek(s))
          [] IsLoaded(transport) /\ transport.prefetch.job = job -> Become(marked)
          [] OTHER -> Become(s))
    BY DEF DecodeFailed
  <2> HIDE DEF s, marked
  <2>3. QED
    BY <2>1, <2>2, Zenon
<1>2. AsBefore(s) /\ Settled(s)
  BY WithoutIsBefore
<1> HIDE DEF s
<1>3. IsLoading(transport) => Follows(FailStart(s, "item", luck))
  BY <1>2, TrackStartFailed
<1>4. ASSUME IsLoaded(transport) PROVE Follows(SkipPast(DiscardTransport(s), NoOne, luck))
  <2>1. PICK gone : gone = DiscardTransport(s)
    OBVIOUS
  <2>2. Settled(gone) /\ NoOne \in Responsible /\ ~IsLoading(transport)
    BY <1>2, <1>4, <2>1, TrackLetGo DEF AsBefore, Responsible, IsLoading, IsLoaded
  <2>3. Follows(SkipPast(gone, NoOne, luck))
    BY <2>2, TrackSkipped
  <2>4. QED
    BY <2>1, <2>3
<1>5. Settled(CancelSeek(s))
  BY <1>2, TrackSeekCancelled
<1>6. ASSUME IsLoaded(transport) PROVE Settled(marked)
  <2>1. PICK prefetch : prefetch = [s.transport.prefetch EXCEPT !.job = NoJob]
    OBVIOUS
  <2>2. DOMAIN prefetch = {"entry", "job"} /\ IsLoaded(s.transport)
    BY <1>2, <1>6, <2>1, LoadedParts DEF AsBefore
  <2>3. marked = [s EXCEPT !.transport.prefetch = prefetch]
    BY <2>1
  <2>4. Settled([s EXCEPT !.transport.prefetch = prefetch])
    BY <1>2, <2>2, TrackPrefetch
  <2>5. QED
    BY <2>3, <2>4
<1> HIDE DEF marked
<1>7. QED
  BY <1>1, <1>2, <1>3, <1>4, <1>5, <1>6, TrackBecame, TrackBecameSettled

LEMMA DecodeEndsSteps ==
  ASSUME Queues, NEW job, DecodeEnds(job)
  PROVE  Step
BY WithoutIsBefore, TrackBecameSettled DEF DecodeEnds

LEMMA StreamFailedSteps ==
  ASSUME Queues, NEW changed, NEW recovers, StreamFailed(changed, recovers)
  PROVE  Step
<1>1. Settled(CancelSeek(State)) /\ Proper(State)
  BY StateIsBefore, TrackSeekCancelled DEF AsBefore
<1>2. Settled(PublishState(CancelSeek(State)))
  BY <1>1, TrackPublished, TrackAlike DEF Settled
<1>3. Settled(FailForGood(State, NoOne))
  BY <1>1, TrackFailedForGood
<1>4. QED
  BY <1>2, <1>3, TrackBecameSettled DEF StreamFailed

-----------------------------------------------------------------------------
(* The tick.                                                               *)

(* What is adopted is what the queue moves to.                             *)
LEMMA TrackAdopted ==
  ASSUME NEW s, AsBefore(s), IsLoaded(transport), Adoptable, NEW luck
  PROVE  Follows(AdoptPrefetched(s, luck))
<1>1. PICK q : q = Advance(queue, "natural")
  OBVIOUS
<1>2. PICK t : t = [s.transport EXCEPT !.entry = s.transport.prefetch.entry,
                                       !.job = s.transport.prefetch.job,
                                       !.prefetch = NoPrefetch]
  OBVIOUS
<1>3. PICK h : h = [s EXCEPT !.queue = q, !.skipped = 0, !.transport = t]
  OBVIOUS
<1>4. Plain(queue) /\ transport.prefetch.entry \in PeekNatural(queue)
  BY DEF AsBefore, Proper, Adoptable
<1>5. Plain(q) /\ HasCurrent(q) /\ CurrentId(q) = transport.prefetch.entry
  <2>1. PICK id \in PeekNatural(queue) : id = transport.prefetch.entry
    BY <1>4
  <2>2. Advanced(queue, "natural") # {}
        /\ \A m \in Advanced(queue, "natural") : HasCurrent(m) /\ CurrentId(m) = id
    BY <1>4, <2>1, PlainPeek
  <2>3. q \in Advanced(queue, "natural")
    BY <1>1, <2>2 DEF Advance
  <2>4. QED
    BY <1>4, <2>1, <2>2, <2>3, PlainAdvanced
<1>6. /\ t.kind = "loaded" /\ DOMAIN t = DOMAIN s.transport
      /\ t.entry = transport.prefetch.entry /\ t.seek = s.transport.seek
      /\ t.prefetch = NoPrefetch
  BY <1>2, LoadedParts DEF AsBefore
<1>7. /\ DOMAIN h = DOMAIN s /\ h.queue = q /\ h.previous = s.previous /\ h.skipped = 0
      /\ h.transport = t
  BY <1>3 DEF AsBefore, Proper
<1>8. Shaped(t)
  BY <1>6, LoadedParts DEF AsBefore, Shaped
<1>9. Proper(h)
  BY <1>5, <1>6, <1>7, <1>8 DEF AsBefore, Proper, IsLoading
<1>10. OnCurrent(h)
  BY <1>5, <1>6, <1>7, EntryOf DEF OnCurrent
<1>11. Follows(h)
  BY <1>6, <1>7, <1>9, <1>10 DEF Follows, Counted, IsLoading
<1>12. AdoptPrefetched(s, luck) = QueueChanged(h, luck)
  BY <1>1, <1>2, <1>3 DEF AdoptPrefetched, AsBefore
<1>13. QED
  BY <1>9, <1>11, <1>12, BothShown

LEMMA FinishIfDueSteps ==
  ASSUME Queues, NEW luck, FinishIfDue(luck)
  PROVE  Step
<1>1. IsLoaded(transport) /\ ~IsLoading(transport)
  BY DEF FinishIfDue, IsLoaded, IsLoading
<1>2. AsBefore(State) /\ Settled(State)
  BY StateIsBefore
<1>3. Adoptable => Follows(AdoptPrefetched(State, luck))
  BY <1>1, <1>2, TrackAdopted
<1>4. Follows(AdvanceAfterTrack(State, NoOne, FALSE, luck))
  BY <1>1, <1>2, TrackAdvanced DEF Apart, Responsible
<1>5. QED
  BY <1>3, <1>4, TrackBecame DEF FinishIfDue

LEMMA PrefetchSteps ==
  ASSUME Queues, NEW usable, Prefetch(usable)
  PROVE  Step
<1> DEFINE job == FreshJob(State)
           kept(entry) == [entry |-> entry, job |-> job]
           unusable(entry) == [entry |-> entry, job |-> NoJob]
<1>1. PICK entry \in PeekNatural(queue) :
        \/ Become([State EXCEPT !.jobs[job] = "filling", !.transport.prefetch = kept(entry)])
        \/ Become([State EXCEPT !.transport.prefetch = unusable(entry)])
  BY DEF Prefetch
<1>2. DOMAIN kept(entry) = {"entry", "job"} /\ DOMAIN unusable(entry) = {"entry", "job"}
  OBVIOUS
<1>3. PICK s : s = [State EXCEPT !.jobs[job] = "filling"]
  OBVIOUS
<1> HIDE DEF job, kept, unusable
<1>4. AsBefore(s) /\ Settled(s) /\ IsLoaded(s.transport)
  BY <1>3, ThreadsApart, BeforeIsSettled DEF AsBefore, Prefetch
<1>5. Settled([s EXCEPT !.transport.prefetch = kept(entry)])
  BY <1>2, <1>4, TrackPrefetch
<1>6. [s EXCEPT !.transport.prefetch = kept(entry)] =
        [State EXCEPT !.jobs[job] = "filling", !.transport.prefetch = kept(entry)]
  BY <1>3
<1>7. Settled([State EXCEPT !.transport.prefetch = unusable(entry)])
  <2>1. Settled(State) /\ IsLoaded(State.transport)
    BY StateIsBefore DEF AsBefore, Prefetch
  <2>2. QED
    BY <1>2, <2>1, TrackPrefetch
<1>8. QED
  BY <1>1, <1>5, <1>6, <1>7, TrackBecameSettled

-----------------------------------------------------------------------------
(* The commands.                                                           *)

(* Throwing a prefetch away does not move the track.                       *)
LEMMA TrackRevalidated ==
  ASSUME NEW s, Follows(s)
  PROVE  Follows(Revalidated(s))
<1>1. CASE Revalidated(s) = s
  BY <1>1
<1>2. CASE Revalidated(s) # s
  <2>1. IsLoaded(s.transport) /\ Revalidated(s) = [s EXCEPT !.transport.prefetch = NoPrefetch]
    BY <1>2 DEF Revalidated
  <2>2. PICK h : h = [s EXCEPT !.transport.prefetch = NoPrefetch]
    OBVIOUS
  <2>3. /\ DOMAIN h = DOMAIN s /\ h.queue = s.queue /\ h.previous = s.previous
        /\ h.skipped = s.skipped /\ h.transport = [s.transport EXCEPT !.prefetch = NoPrefetch]
    BY <2>2 DEF Follows, Proper
  <2>4. /\ h.transport.kind = "loaded" /\ h.transport.entry = s.transport.entry
        /\ s.transport.kind = "loaded" /\ Shaped(h.transport)
    <3>1. /\ s.transport.kind = "loaded"
          /\ DOMAIN s.transport =
               {"kind", "entry", "device", "paused", "job", "seek", "prefetch"}
          /\ DOMAIN s.transport.seek = {"job", "responder"}
          /\ s.transport.seek.responder \in Responsible
          /\ DOMAIN NoPrefetch = {"entry", "job"}
      BY <2>1, LoadedParts DEF Follows
    <3>2. QED
      BY <2>3, <3>1 DEF Shaped
  <2>5. Entry(h.transport) = Entry(s.transport)
    BY <2>4, EntryOf
  <2>6. ~IsLoading(h.transport)
    BY <2>4 DEF IsLoading
  <2>7. Follows(h)
    BY <2>3, <2>4, <2>5, <2>6 DEF Follows, Proper, Still, OnCurrent, Counted
  <2>8. QED
    BY <2>1, <2>2, <2>7
<1>3. QED
  BY <1>1, <1>2

LEMMA CommandSteps ==
  ASSUME NEW caller, NEW s, Follows(s), Command(caller, s)
  PROVE  Step
BY TrackRevalidated, TrackBecame DEF Command

(* What a command changes before it starts anything.                       *)
LEMMA AskedIsSettled ==
  ASSUME Queues, NEW h, DOMAIN h = DOMAIN State, h.transport = transport, Plain(h.queue),
         h.previous = NoQueue \/ Plain(h.previous), h.skipped \in Nat
  PROVE  Settled(h)
BY DEF Queues, Proper, Settled, Still, State

LEMMA AskedFields ==
  ASSUME Queues, NEW caller
  PROVE  LET s == Asked(caller)
         IN /\ DOMAIN s = DOMAIN State /\ s.transport = transport /\ s.queue = queue
            /\ s.previous = previous /\ s.skipped = skipped
            /\ DOMAIN State = {"queue", "previous", "transport", "skipped", "selection", "jobs",
                               "published", "shown", "waiting"}
            /\ Plain(queue) /\ (previous = NoQueue \/ Plain(previous)) /\ skipped \in Nat
            /\ Settled(s)
<1>1. PICK s : s = Asked(caller)
  OBVIOUS
<1>2. /\ DOMAIN s = DOMAIN State /\ s.transport = transport /\ s.queue = queue
      /\ s.previous = previous /\ s.skipped = skipped
      /\ DOMAIN State = {"queue", "previous", "transport", "skipped", "selection", "jobs",
                         "published", "shown", "waiting"}
  BY <1>1 DEF Asked, State
<1>3. Plain(queue) /\ (previous = NoQueue \/ Plain(previous)) /\ skipped \in Nat
  BY DEF Queues, Proper, State
<1>4. Settled(s)
  BY <1>2, <1>3, AskedIsSettled
<1>5. QED
  BY <1>1, <1>2, <1>3, <1>4

(* Whoever asks does not wait already.                                     *)
LEMMA CallerApart ==
  ASSUME IInv, NEW caller \in Callers, caller \notin waiting, NEW q
  PROVE  caller \in Responsible /\ Apart(q, caller)
<1>1. waiting = Responders(transport)
  BY StateFields DEF IInv, Owes
<1>2. IsLoading(transport) => caller # transport.request.responder
  <2>1. caller # NoOne
    BY NamesAssumption
  <2>2. QED
    BY <1>1, <2>1, NobodyHolds DEF IsLoading
<1>3. QED
  BY <1>2 DEF Responsible, Apart

(* Starting what is current, for a caller who asks.                        *)
LEMMA AskedToPlay ==
  ASSUME IInv, Queues, NEW caller \in Callers, caller \notin waiting,
         NEW h, DOMAIN h = DOMAIN State, h.transport = transport, Plain(h.queue),
         h.previous = NoQueue \/ Plain(h.previous), h.skipped \in Nat, NEW paused, NEW luck
  PROVE  Follows(StartCurrent(h, caller, paused, luck))
<1>1. Settled(h)
  BY AskedIsSettled
<1>2. caller \in Responsible /\ Apart(h.queue, caller)
  BY CallerApart
<1>3. QED
  BY <1>1, <1>2, TrackStarted

LEMMA QueueReplaced ==
  ASSUME Queues, NEW caller, NEW n \in Nat, NEW start \in 1..n
  PROVE  LET h == ReplaceQueue(Asked(caller), n, start)
         IN /\ DOMAIN h = DOMAIN State /\ h.transport = transport /\ Plain(h.queue)
            /\ (h.previous = NoQueue \/ Plain(h.previous))
            /\ h.skipped \in Nat /\ h.queue.nextId = queue.nextId + n
<1>1. PICK s : s = Asked(caller)
  OBVIOUS
<1>2. PICK q : q = CHOOSE r \in Replaced(queue, n, start) : TRUE
  OBVIOUS
<1>3. PICK p : p = IF IsEmpty(queue) THEN NoQueue ELSE queue
  OBVIOUS
<1>4. /\ DOMAIN s = DOMAIN State /\ s.transport = transport /\ s.queue = queue
      /\ DOMAIN State = {"queue", "previous", "transport", "skipped", "selection", "jobs",
                         "published", "shown", "waiting"}
      /\ Plain(queue)
  BY <1>1, AskedFields
<1>5. PICK h : h = [s EXCEPT !.queue = q, !.previous = p, !.skipped = 0]
  OBVIOUS
<1>6. h = ReplaceQueue(Asked(caller), n, start)
  BY <1>1, <1>2, <1>3, <1>4, <1>5 DEF ReplaceQueue
<1>7. Plain(q) /\ q.nextId = queue.nextId + n
  BY <1>2, <1>4, PlainReplaced
<1>8. /\ DOMAIN h = DOMAIN State /\ h.transport = transport /\ h.queue = q
      /\ h.previous = p /\ h.skipped = 0
  BY <1>4, <1>5
<1>9. QED
  BY <1>3, <1>4, <1>6, <1>7, <1>8

LEMMA StartQueueSteps ==
  ASSUME IInv, Queues, NEW caller \in Callers, NEW n \in Nat, NEW start, NEW luck,
         StartQueue(caller, n, start, luck)
  PROVE  Step
<1>1. start \in 1..n /\ caller \notin waiting
  BY DEF StartQueue, ReplaceOk, Command
<1>2. PICK h : h = ReplaceQueue(Asked(caller), n, start)
  OBVIOUS
<1>3. /\ DOMAIN h = DOMAIN State /\ h.transport = transport /\ Plain(h.queue)
      /\ (h.previous = NoQueue \/ Plain(h.previous))
      /\ h.skipped \in Nat
  BY <1>1, <1>2, QueueReplaced
<1>4. Follows(StartCurrent(h, caller, FALSE, luck))
  BY <1>1, <1>3, AskedToPlay
<1>5. QED
  BY <1>2, <1>4, CommandSteps DEF StartQueue

(* An edit of the queue leaves the track alone.                            *)
LEMMA AskedToChange ==
  ASSUME Queues, NEW caller, NEW luck,
         NEW h, DOMAIN h = DOMAIN State, h.transport = transport, Plain(h.queue),
         h.previous = NoQueue \/ Plain(h.previous), h.skipped \in Nat,
         Command(caller, Answer(QueueChanged(h, luck), caller))
  PROVE  Step
<1>1. Settled(h) /\ Proper(h)
  BY AskedIsSettled DEF Settled
<1>2. PICK g : g = QueueChanged(h, luck)
  OBVIOUS
<1>3. Settled(g) /\ Proper(g)
  BY <1>1, <1>2, BothShown DEF Settled
<1>4. Settled(Answer(g, caller))
  BY <1>3, TrackAnswered, TrackAlike
<1>5. QED
  BY <1>2, <1>4, SettledFollows, CommandSteps

LEMMA NavigateSteps ==
  ASSUME IInv, Queues, NEW caller \in Callers, NEW reason, NEW luck,
         Navigate(caller, reason, luck)
  PROVE  Step
<1> DEFINE paused == IsLoaded(transport) /\ transport.paused
<1>1. PICK a : a = Asked(caller)
  OBVIOUS
<1>2. PICK s : s = [a EXCEPT !.skipped = 0]
  OBVIOUS
<1>3. PICK q : q = Advance(queue, reason)
  OBVIOUS
<1>4. PICK h : h = [s EXCEPT !.queue = q]
  OBVIOUS
<1>5. /\ Command(caller, IF CanAdvance(queue, reason)
                         THEN StartCurrent(h, caller, paused, luck) ELSE Answer(s, caller))
      /\ caller \notin waiting
  BY <1>1, <1>2, <1>3, <1>4 DEF Navigate, Command
<1>6. /\ DOMAIN a = DOMAIN State /\ a.transport = transport /\ a.queue = queue
      /\ a.previous = previous
      /\ DOMAIN State = {"queue", "previous", "transport", "skipped", "selection", "jobs",
                         "published", "shown", "waiting"}
      /\ Plain(queue) /\ (previous = NoQueue \/ Plain(previous))
  BY <1>1, AskedFields
<1>7. /\ DOMAIN s = DOMAIN State /\ s.transport = transport /\ s.queue = queue
      /\ s.previous = previous /\ s.skipped = 0
  BY <1>2, <1>6
<1>8. /\ DOMAIN h = DOMAIN State /\ h.transport = transport /\ h.queue = q
      /\ h.previous = previous /\ h.skipped = 0
  BY <1>4, <1>6, <1>7
<1>9. CASE CanAdvance(queue, reason)
  <2>1. Plain(q)
    BY <1>3, <1>6, <1>9, PlainAdvance
  <2>2. Follows(StartCurrent(h, caller, paused, luck))
    BY <1>5, <1>6, <1>8, <2>1, AskedToPlay
  <2>3. QED
    BY <1>5, <1>9, <2>2, CommandSteps
<1>10. CASE ~CanAdvance(queue, reason)
  <2>1. Settled(s)
    BY <1>6, <1>7, AskedIsSettled
  <2>2. Settled(Answer(s, caller))
    BY <2>1, TrackAnswered, TrackAlike DEF Settled
  <2>3. QED
    BY <1>5, <1>10, <2>2, SettledFollows, CommandSteps
<1>11. QED
  BY <1>9, <1>10

LEMMA PlayQueueItemSteps ==
  ASSUME IInv, Queues, NEW caller \in Callers, NEW id, NEW luck, PlayQueueItem(caller, id, luck)
  PROVE  Step
<1>0. PICK paused : paused = FALSE
  OBVIOUS
<1>1. PICK a : a = Asked(caller)
  OBVIOUS
<1>2. PICK s : s = [a EXCEPT !.skipped = 0]
  OBVIOUS
<1>3. PICK q : q = JumpedTo(queue, id)
  OBVIOUS
<1>4. PICK h : h = [s EXCEPT !.queue = q]
  OBVIOUS
<1>5. /\ Command(caller, IF JumpOk(queue, id)
                         THEN StartCurrent(h, caller, paused, luck) ELSE Answer(s, caller))
      /\ caller \notin waiting
  BY <1>0, <1>1, <1>2, <1>3, <1>4 DEF PlayQueueItem, Command
<1>6. /\ DOMAIN a = DOMAIN State /\ a.transport = transport /\ a.queue = queue
      /\ a.previous = previous
      /\ DOMAIN State = {"queue", "previous", "transport", "skipped", "selection", "jobs",
                         "published", "shown", "waiting"}
      /\ Plain(queue) /\ (previous = NoQueue \/ Plain(previous))
  BY <1>1, AskedFields
<1>7. /\ DOMAIN s = DOMAIN State /\ s.transport = transport /\ s.queue = queue
      /\ s.previous = previous /\ s.skipped = 0
  BY <1>2, <1>6
<1>8. /\ DOMAIN h = DOMAIN State /\ h.transport = transport /\ h.queue = q
      /\ h.previous = previous /\ h.skipped = 0
  BY <1>4, <1>6, <1>7
<1>9. CASE JumpOk(queue, id)
  <2>1. Plain(q)
    BY <1>3, <1>6, <1>9, PlainJumped
  <2>2. Follows(StartCurrent(h, caller, paused, luck))
    BY <1>5, <1>6, <1>8, <2>1, AskedToPlay
  <2>3. QED
    BY <1>5, <1>9, <2>2, CommandSteps
<1>10. CASE ~JumpOk(queue, id)
  <2>1. Settled(s)
    BY <1>6, <1>7, AskedIsSettled
  <2>2. Settled(Answer(s, caller))
    BY <2>1, TrackAnswered, TrackAlike DEF Settled
  <2>3. QED
    BY <1>5, <1>10, <2>2, SettledFollows, CommandSteps
<1>11. QED
  BY <1>9, <1>10

LEMMA RetrySteps ==
  ASSUME IInv, Queues, NEW caller \in Callers, NEW luck, Retry(caller, luck)
  PROVE  Step
<1>0. PICK paused : paused = FALSE
  OBVIOUS
<1>1. PICK a : a = Asked(caller)
  OBVIOUS
<1>2. PICK h : h = [a EXCEPT !.skipped = 0]
  OBVIOUS
<1>3. Command(caller, StartCurrent(h, caller, paused, luck)) /\ caller \notin waiting
  BY <1>0, <1>1, <1>2 DEF Retry, Command
<1>4. /\ DOMAIN a = DOMAIN State /\ a.transport = transport /\ a.queue = queue
      /\ a.previous = previous
      /\ DOMAIN State = {"queue", "previous", "transport", "skipped", "selection", "jobs",
                         "published", "shown", "waiting"}
      /\ Plain(queue) /\ (previous = NoQueue \/ Plain(previous))
  BY <1>1, AskedFields
<1>5. /\ DOMAIN h = DOMAIN State /\ h.transport = transport /\ h.queue = queue
      /\ h.previous = previous /\ h.skipped = 0
  BY <1>2, <1>4
<1>6. Follows(StartCurrent(h, caller, paused, luck))
  BY <1>3, <1>4, <1>5, AskedToPlay
<1>7. QED
  BY <1>3, <1>6, CommandSteps

LEMMA RestoreSteps ==
  ASSUME IInv, Queues, NEW caller \in Callers, NEW luck, RestorePreviousQueue(caller, luck)
  PROVE  Step
<1>0. PICK paused : paused = FALSE
  OBVIOUS
<1>1. PICK a : a = Asked(caller)
  OBVIOUS
<1>2. PICK q : q = CHOOSE r \in Restored(queue, previous) : TRUE
  OBVIOUS
<1>3. PICK h : h = [a EXCEPT !.queue = q, !.previous = NoQueue, !.skipped = 0]
  OBVIOUS
<1>4. /\ \/ Command(caller, Answer(QueueChanged(h, luck), caller))
         \/ Command(caller, StartCurrent(h, caller, paused, luck))
      /\ previous # NoQueue
  BY <1>0, <1>1, <1>2, <1>3 DEF RestorePreviousQueue
<1>5. /\ DOMAIN a = DOMAIN State /\ a.transport = transport
      /\ DOMAIN State = {"queue", "previous", "transport", "skipped", "selection", "jobs",
                         "published", "shown", "waiting"}
      /\ Plain(queue) /\ Plain(previous)
  BY <1>1, <1>4, AskedFields
<1>6. Plain(q)
  BY <1>2, <1>5, PlainRestored
<1>7. /\ DOMAIN h = DOMAIN State /\ h.transport = transport /\ h.queue = q
      /\ h.previous = NoQueue /\ h.skipped = 0
  BY <1>3, <1>5
<1>8. CASE Command(caller, Answer(QueueChanged(h, luck), caller))
  BY <1>6, <1>7, <1>8, AskedToChange
<1>9. CASE Command(caller, StartCurrent(h, caller, paused, luck))
  <2>1. caller \notin waiting
    BY <1>9 DEF Command
  <2>2. Follows(StartCurrent(h, caller, paused, luck))
    BY <1>6, <1>7, <2>1, AskedToPlay
  <2>3. QED
    BY <1>9, <2>2, CommandSteps
<1>10. QED
  BY <1>4, <1>8, <1>9

(* The entries get new ids, so this start cannot be one that was skipped   *)
(* to, although nobody waits for it either.                                *)
LEMMA StartEnqueuedSteps ==
  ASSUME IInv, Queues, NEW caller \in Callers, NEW luck, StartEnqueued(caller, luck)
  PROVE  Step
<1>1. PICK h : h = ReplaceQueue(Asked(caller), 1, 1)
  OBVIOUS
<1>2. /\ DOMAIN h = DOMAIN State /\ h.transport = transport /\ Plain(h.queue)
      /\ (h.previous = NoQueue \/ Plain(h.previous))
      /\ h.skipped \in Nat /\ h.queue.nextId = queue.nextId + 1
  BY <1>1, QueueReplaced
<1>3. queue.nextId \in Nat
  BY DEF Queues, Proper, State, Plain
<1>4. Settled(h) /\ NoOne \in Responsible /\ Apart(h.queue, NoOne)
  BY <1>2, <1>3, AskedIsSettled DEF Responsible, Apart
<1>5. PICK g : g = StartCurrent(h, NoOne, FALSE, luck)
  OBVIOUS
<1>6. Follows(g) /\ Proper(g)
  BY <1>4, <1>5, TrackStarted DEF Follows
<1>7. Follows(Answer(g, caller))
  BY <1>6, TrackAnswered, TrackAlike
<1>8. QED
  BY <1>1, <1>5, <1>7, CommandSteps DEF StartEnqueued

(* Nothing is upcoming once nothing is current.                            *)
LEMMA UpcomingNeedsCurrent ==
  ASSUME NEW q, Plain(q), NEW id \in UpcomingIds(q)
  PROVE  HasCurrent(q)
<1>1. PICK i \in 1..Length(q) : q.current < i
  BY UpcomingIsAfter
<1>2. Length(q) \in Nat /\ q.current \in 1..(Length(q) + 1)
  BY PlainPlays DEF Plain, Length
<1>3. q.current <= Length(q)
  BY <1>1, <1>2
<1>4. QED
  BY <1>3, PlainPlays

LEMMA NothingUpcoming ==
  ASSUME NEW q, Plain(q), Upcoming(q) # <<>>
  PROVE  HasCurrent(q)
<1>1. /\ PlayOrder(q) = q.arranged /\ q.arranged \in Seq(Nat \ {0})
      /\ Length(q) = Len(q.arranged) /\ Length(q) \in Nat /\ q.current \in 1..(Length(q) + 1)
  BY PlainPlays DEF Plain, Orderly, Length
<1>2. CASE q.current <= Length(q)
  BY <1>2, PlainPlays
<1>3. CASE ~(q.current <= Length(q))
  <2>1. /\ Len(q.arranged) < q.current + 1
        /\ q.current + 1 \in Int /\ Len(q.arranged) \in Int
    BY <1>1, <1>3
  <2>2. SubSeq(q.arranged, q.current + 1, Len(q.arranged)) = <<>>
    BY <2>1, SubSeqEmpty
  <2>3. QED
    BY <1>1, <2>2 DEF Upcoming
<1>4. QED
  BY <1>2, <1>3

LEMMA EditsArePlain ==
  ASSUME Plain(queue), NEW edited \in Edits
  PROVE  Plain(edited)
<1>1. CASE edited \in {WithoutUpcomingEntry(queue, id) : id \in UpcomingIds(queue)}
  BY <1>1, UpcomingNeedsCurrent, PlainWithoutUpcomingEntry
<1>2. CASE edited \in {WithMoved(queue, id, 0) :
                         id \in {up \in UpcomingIds(queue) : MoveChanges(queue, up, 0)}}
  BY <1>2, UpcomingNeedsCurrent, PlainPlayedNext
<1>3. CASE edited \in {Enqueued(queue, 1, next) :
                         next \in {n \in BOOLEAN : /\ HasCurrent(queue) /\ Fits(1)
                                                   /\ Length(queue) < MaxLength}}
  BY <1>3, PlainEnqueued
<1>4. QED
  BY <1>1, <1>2, <1>3 DEF Edits

LEMMA EditQueueSteps ==
  ASSUME Queues, NEW caller, NEW edited \in Edits, NEW luck, EditQueue(caller, edited, luck)
  PROVE  Step
<1>1. PICK a : a = Asked(caller)
  OBVIOUS
<1>2. PICK h : h = [a EXCEPT !.queue = edited]
  OBVIOUS
<1>3. \/ Command(caller, Answer(a, caller)) \/ Command(caller, Answer(QueueChanged(h, luck), caller))
  BY <1>1, <1>2 DEF EditQueue
<1>4. /\ DOMAIN a = DOMAIN State /\ a.transport = transport /\ a.previous = previous
      /\ a.skipped = skipped /\ Settled(a)
      /\ DOMAIN State = {"queue", "previous", "transport", "skipped", "selection", "jobs",
                         "published", "shown", "waiting"}
      /\ Plain(queue) /\ (previous = NoQueue \/ Plain(previous)) /\ skipped \in Nat
  BY <1>1, AskedFields
<1>5. Plain(edited)
  BY <1>4, EditsArePlain
<1>6. /\ DOMAIN h = DOMAIN State /\ h.transport = transport /\ h.queue = edited
      /\ h.previous = previous /\ h.skipped = skipped
  BY <1>2, <1>4
<1>7. CASE Command(caller, Answer(a, caller))
  <2>1. Settled(Answer(a, caller))
    BY <1>4, TrackAnswered, TrackAlike DEF Settled
  <2>2. QED
    BY <1>7, <2>1, SettledFollows, CommandSteps
<1>8. CASE Command(caller, Answer(QueueChanged(h, luck), caller))
  BY <1>4, <1>5, <1>6, <1>8, AskedToChange
<1>9. QED
  BY <1>3, <1>7, <1>8

LEMMA SetRepeatModeSteps ==
  ASSUME Queues, NEW caller, NEW mode \in RepeatModes, NEW luck,
         SetRepeatMode(caller, mode, luck)
  PROVE  Step
<1>1. PICK a : a = Asked(caller)
  OBVIOUS
<1>2. PICK q : q = [queue EXCEPT !.repeat = mode]
  OBVIOUS
<1>3. /\ DOMAIN a = DOMAIN State /\ a.transport = transport /\ a.queue = queue
      /\ a.previous = previous /\ a.skipped = skipped
      /\ DOMAIN State = {"queue", "previous", "transport", "skipped", "selection", "jobs",
                         "published", "shown", "waiting"}
      /\ Plain(queue) /\ (previous = NoQueue \/ Plain(previous)) /\ skipped \in Nat
  BY <1>1, AskedFields
<1>4. PICK h : h = [a EXCEPT !.queue = q]
  OBVIOUS
<1>5. h = [Asked(caller) EXCEPT !.queue.repeat = mode]
  BY <1>1, <1>2, <1>3, <1>4
<1>6. Plain(q)
  BY <1>2, <1>3 DEF Plain
<1>7. /\ DOMAIN h = DOMAIN State /\ h.transport = transport /\ h.queue = q
      /\ h.previous = previous /\ h.skipped = skipped
  BY <1>3, <1>4
<1>8. Command(caller, Answer(QueueChanged(h, luck), caller))
  BY <1>5 DEF SetRepeatMode
<1>9. QED
  BY <1>3, <1>6, <1>7, <1>8, AskedToChange

LEMMA ClearQueueSteps ==
  ASSUME Queues, NEW caller, NEW luck, ClearQueue(caller, luck)
  PROVE  Step
<1>1. PICK a : a = Asked(caller)
  OBVIOUS
<1>2. PICK q : q = WithoutUpcoming(queue)
  OBVIOUS
<1>3. PICK h : h = [a EXCEPT !.queue = q, !.previous = queue]
  OBVIOUS
<1>4. Command(caller, Answer(QueueChanged(h, luck), caller)) /\ Upcoming(queue) # <<>>
  BY <1>1, <1>2, <1>3 DEF ClearQueue
<1>5. /\ DOMAIN a = DOMAIN State /\ a.transport = transport /\ a.skipped = skipped
      /\ DOMAIN State = {"queue", "previous", "transport", "skipped", "selection", "jobs",
                         "published", "shown", "waiting"}
      /\ Plain(queue) /\ skipped \in Nat
  BY <1>1, AskedFields
<1>6. HasCurrent(queue)
  BY <1>4, <1>5, NothingUpcoming
<1>7. Plain(q)
  BY <1>2, <1>5, <1>6, PlainWithoutUpcoming
<1>8. /\ DOMAIN h = DOMAIN State /\ h.transport = transport /\ h.queue = q
      /\ h.previous = queue /\ h.skipped = skipped
  BY <1>3, <1>5
<1>9. QED
  BY <1>4, <1>5, <1>7, <1>8, AskedToChange

LEMMA PauseOrResumeSteps ==
  ASSUME IInv, Queues, NEW caller, NEW paused, NEW works, PauseOrResume(caller, paused, works)
  PROVE  Step
<1> DEFINE s == Asked(caller)
           later == [s EXCEPT !.transport.request.paused = paused]
           switched == [s EXCEPT !.transport.paused = paused]
           h == SetPaused(caller, paused, works)
<1>1. Command(caller, h)
  BY DEF PauseOrResume
<1>2. /\ DOMAIN s = DOMAIN State /\ s.transport = transport /\ s.queue = queue
      /\ s.previous = previous /\ s.skipped = skipped /\ Settled(s) /\ Proper(s)
      /\ DOMAIN State = {"queue", "previous", "transport", "skipped", "selection", "jobs",
                         "published", "shown", "waiting"}
      /\ Plain(queue) /\ (previous = NoQueue \/ Plain(previous)) /\ skipped \in Nat
  BY AskedFields DEF Settled
<1>3. \/ IsLoading(transport) /\ h = Answer(later, caller)
      \/ IsLoaded(transport) /\ h = Answer(PublishState(switched), caller)
      \/ h = FailForGood(s, caller)
      \/ h = Answer(s, caller)
  <2>1. h = CASE IsLoading(transport) -> Answer(later, caller)
              [] IsLoaded(transport) /\ transport.paused # paused ->
                   IF works THEN Answer(PublishState(switched), caller)
                   ELSE FailForGood(s, caller)
              [] OTHER -> Answer(s, caller)
    BY Zenon DEF SetPaused
  <2>2. ~(IsLoading(transport) /\ IsLoaded(transport))
    BY DEF IsLoading, IsLoaded
  <2> HIDE DEF h, s, later, switched
  <2>3. QED
    BY <2>1, <2>2, Zenon
<1> HIDE DEF s, h
<1>4. ASSUME IsLoading(transport)
      PROVE  Settled(later)
  <2>1. /\ DOMAIN transport = {"kind", "request", "stage", "job", "device"}
        /\ transport.kind = "loading" /\ IsRequest(transport.request)
        /\ transport.stage \in {"source", "prebuffering"}
        /\ (transport.request.resume => transport.request.responder # NoOne)
    BY <1>2, <1>4 DEF Proper, Shaped, IsLoading
  <2>2. PICK request : request = [transport.request EXCEPT !.paused = paused]
    OBVIOUS
  <2>3. /\ IsRequest(request) /\ request.responder = transport.request.responder
        /\ request.resume = transport.request.resume
        /\ request.entry = transport.request.entry
    BY <2>1, <2>2 DEF IsRequest
  <2>4. PICK t : t = [transport EXCEPT !.request = request]
    OBVIOUS
  <2>5. /\ DOMAIN t = {"kind", "request", "stage", "job", "device"}
        /\ t.kind = "loading" /\ t.request = request /\ t.stage = transport.stage
    BY <2>1, <2>4
  <2>6. later = [s EXCEPT !.transport = t]
    BY <1>2, <2>2, <2>4
  <2>7. /\ DOMAIN later = DOMAIN s /\ later.transport = t /\ later.queue = queue
        /\ later.previous = previous /\ later.skipped = skipped
    BY <1>2, <2>6
  <2>8. Shaped(t) /\ Entry(t) = Entry(transport)
    BY <2>1, <2>3, <2>5, EntryOf DEF Shaped
  <2> HIDE DEF later
  <2>9. Proper(later)
    BY <1>2, <2>1, <2>3, <2>5, <2>7, <2>8 DEF Proper
  <2>10. QED
    BY <2>7, <2>8, <2>9 DEF Settled, Still
<1>5. ASSUME IsLoaded(transport)
      PROVE  Settled(PublishState(switched))
  <2>1. PICK t : t = [transport EXCEPT !.paused = paused]
    OBVIOUS
  <2>2. switched = [s EXCEPT !.transport = t]
    BY <1>2, <2>1
  <2>3. /\ DOMAIN transport =
             {"kind", "entry", "device", "paused", "job", "seek", "prefetch"}
        /\ transport.kind = "loaded" /\ DOMAIN transport.seek = {"job", "responder"}
        /\ transport.seek.responder \in Responsible
        /\ DOMAIN transport.prefetch = {"entry", "job"}
    BY <1>2, <1>5, LoadedParts
  <2>4. /\ DOMAIN switched = DOMAIN s /\ switched.transport = t
        /\ switched.queue = s.queue /\ switched.previous = s.previous
        /\ switched.skipped = s.skipped
    BY <1>2, <2>2
  <2>5. /\ DOMAIN t = DOMAIN transport /\ t.kind = "loaded" /\ t.entry = transport.entry
        /\ t.seek = transport.seek /\ t.prefetch = transport.prefetch
    BY <2>1, <2>3
  <2> HIDE DEF switched
  <2>6. Settled(switched)
    BY <1>2, <1>5, <2>3, <2>4, <2>5, TrackKept
  <2>7. QED
    BY <2>6, TrackPublished, TrackAlike DEF Settled
<1> HIDE DEF later, switched
<1>6. Settled(h)
  <2>1. CASE IsLoading(transport) /\ h = Answer(later, caller)
    BY <1>4, <2>1, TrackAnswered, TrackAlike DEF Settled
  <2>2. CASE IsLoaded(transport) /\ h = Answer(PublishState(switched), caller)
    BY <1>5, <2>2, TrackAnswered, TrackAlike DEF Settled
  <2>3. CASE h = FailForGood(s, caller)
    BY <1>2, <2>3, TrackFailedForGood
  <2>4. CASE h = Answer(s, caller)
    BY <1>2, <2>4, TrackAnswered, TrackAlike
  <2>5. QED
    BY <1>3, <2>1, <2>2, <2>3, <2>4
<1>7. QED
  BY <1>1, <1>6, SettledFollows, CommandSteps

LEMMA SeekSteps ==
  ASSUME IInv, Queues, NEW caller \in Callers, NEW target, NEW luck, Seek(caller, target, luck)
  PROVE  Step
<1>1. PICK s : s = Asked(caller)
  OBVIOUS
<1>2. Command(caller, BeginSeek(s, caller, target, luck)) /\ caller \notin waiting
  BY <1>1 DEF Seek, Command
<1>3. Settled(s)
  BY <1>1, AskedFields
<1>4. caller \in Responsible /\ Apart(s.queue, caller)
  BY <1>2, CallerApart
<1>5. Follows(BeginSeek(s, caller, target, luck))
  BY <1>3, <1>4, TrackSought
<1>6. QED
  BY <1>2, <1>5, CommandSteps

(* A switch starts the same track again, for a caller who waits for it.    *)
LEMMA ChangeOutputSelectionSteps ==
  ASSUME IInv, Queues, NEW caller \in Callers, NEW device, NEW resolves, NEW luck,
         ChangeOutputSelection(caller, device, resolves, luck)
  PROVE  Step
<1> DEFINE s == Asked(caller)
           start == NewStart(transport.entry, caller, transport.paused)
           request == [start EXCEPT !.resume = TRUE, !.selection = device]
           idle == [s EXCEPT !.selection = device, !.transport = Idle]
           h == CASE IsLoaded(transport) ->
                       IF transport.seek = NoSeek /\ device # selection /\ resolves
                       THEN BeginStart(s, request, luck) ELSE Answer(s, caller)
                  [] ~IsLoaded(transport) /\ ~IsLoading(transport) /\
                       (resolves \/ device = Default) ->
                       Answer(PublishState(idle), caller)
                  [] OTHER -> Answer(s, caller)
<1>1. Command(caller, h)
  BY Zenon DEF ChangeOutputSelection
<1>2. /\ DOMAIN s = DOMAIN State /\ s.transport = transport /\ s.queue = queue
      /\ s.previous = previous /\ s.skipped = skipped /\ Settled(s) /\ Proper(s)
      /\ DOMAIN State = {"queue", "previous", "transport", "skipped", "selection", "jobs",
                         "published", "shown", "waiting"}
      /\ Plain(queue) /\ (previous = NoQueue \/ Plain(previous)) /\ skipped \in Nat
  BY AskedFields DEF Settled
<1>3. caller \in Responsible /\ Apart(queue, caller) /\ caller # NoOne
  <2>1. caller \notin waiting
    BY <1>1 DEF Command
  <2>2. QED
    BY <2>1, CallerApart, NamesAssumption
<1>4. IsRequest(request) /\ request.responder = caller /\ request.entry = transport.entry
  <2>1. IsRequest(start) /\ start.responder = caller
    BY <1>3, PlainStart
  <2>2. start.entry = transport.entry
    BY DEF NewStart
  <2> HIDE DEF start
  <2>3. QED
    BY <2>1, <2>2 DEF IsRequest
<1> HIDE DEF s, request
<1>5. \/ IsLoaded(transport) /\ h = BeginStart(s, request, luck)
      \/ h = Answer(s, caller)
      \/ h = Answer(PublishState(idle), caller)
  <2> HIDE DEF idle
  <2>1. QED
    BY Zenon
<1>6. Settled(idle)
  <2>1. /\ DOMAIN idle = DOMAIN s /\ idle.transport = Idle /\ idle.queue = queue
        /\ idle.previous = previous /\ idle.skipped = skipped
    BY <1>2
  <2>2. Shaped(Idle) /\ Idle.kind = "idle"
    BY NobodyHolds DEF Shaped
  <2> HIDE DEF idle
  <2>3. QED
    BY <1>2, <2>1, <2>2 DEF Settled, Proper, Still, IsLoading
<1>7. ASSUME IsLoaded(transport)
      PROVE  Follows(BeginStart(s, request, luck))
  <2>1. request.entry = Entry(transport)
    BY <1>4, <1>7, EntryOf DEF IsLoaded
  <2>2. CountsFor(s, request.responder)
    BY <1>7 DEF CountsFor, IsLoaded, IsLoading
  <2>3. QED
    BY <1>2, <1>3, <1>4, <2>1, <2>2, TrackBegun
<1> HIDE DEF idle, h
<1>8. Follows(h)
  <2>1. CASE IsLoaded(transport) /\ h = BeginStart(s, request, luck)
    BY <1>7, <2>1
  <2>2. CASE h = Answer(s, caller)
    BY <1>2, <2>2, TrackAnswered, TrackAlike, SettledFollows
  <2>3. CASE h = Answer(PublishState(idle), caller)
    <3>1. PICK g : g = PublishState(idle)
      OBVIOUS
    <3>2. Settled(g) /\ Proper(g)
      BY <1>6, <3>1, TrackPublished, TrackAlike DEF Settled
    <3>3. Settled(Answer(g, caller))
      BY <3>2, TrackAnswered, TrackAlike
    <3>4. QED
      BY <2>3, <3>1, <3>3, SettledFollows
  <2>4. QED
    BY <1>5, <2>1, <2>2, <2>3
<1>9. QED
  BY <1>1, <1>8, CommandSteps

-----------------------------------------------------------------------------
(* Every step.                                                             *)
LEMMA QueuesStart == Init => Queues
<1> SUFFICES ASSUME Init PROVE Queues
  OBVIOUS
<1>1. /\ queue = NewQueue("off", FALSE) /\ previous = NoQueue
      /\ transport = Idle /\ skipped = 0
  BY DEF Init
<1>2. PICK q : q = NewQueue("off", FALSE)
  OBVIOUS
<1>3. /\ DOMAIN q = {"arranged", "shuffled", "current", "repeat", "shuffle", "nextId"}
      /\ q.arranged = <<>> /\ q.shuffled = NoOrder /\ q.current = 1 /\ q.repeat = "off"
      /\ q.shuffle = FALSE /\ q.nextId = 1
  BY <1>2 DEF NewQueue
<1>4. Orderly(<<>>, 1) /\ Len(<<>>) = 0
  BY DEF Orderly, IsInjective
<1>5. Plain(q)
  BY <1>3, <1>4 DEF Plain, RepeatModes
<1>6. Shaped(Idle) /\ Idle.kind = "idle"
  BY NobodyHolds DEF Shaped
<1>7. QED
  BY <1>1, <1>2, <1>5, <1>6 DEF Queues, Proper, State, IsLoading

LEMMA EventSteps ==
  ASSUME Queues, Event
  PROVE  Step
<1>1. ASSUME NEW job \in Jobs, Report(job)
      PROVE  Step
  BY <1>1, SourceLoadedSteps, PrebufferReadySteps, DecodeFailedSteps DEF Report
<1>2. ASSUME NEW job \in Jobs, DecodeEnds(job)
      PROVE  Step
  BY <1>2, DecodeEndsSteps
<1>3. ASSUME NEW changed \in BOOLEAN, NEW recovers \in BOOLEAN, StreamFailed(changed, recovers)
      PROVE  Step
  BY <1>3, StreamFailedSteps
<1>4. ASSUME Tick
      PROVE  Step
  BY <1>4, PrefetchSteps, FinishIfDueSteps DEF Tick
<1>5. QED
  BY <1>1, <1>2, <1>3, <1>4 DEF Event

LEMMA AnyCommandSteps ==
  ASSUME IInv, Queues, NEW caller \in Callers, AnyCommand(caller)
  PROVE  Step
<1>1. ASSUME NEW n \in NewQueues, NEW start \in 1..n,
             NEW luck \in LucksWith(ToSet(NewIds(queue, n))), StartQueue(caller, n, start, luck)
      PROVE  Step
  BY <1>1, StartQueueSteps DEF NewQueues
<1>2. ASSUME NEW edited \in Edits, NEW luck \in Pruning, EditQueue(caller, edited, luck)
      PROVE  Step
  BY <1>2, EditQueueSteps
<1>3. QED
  BY <1>1, <1>2, StartEnqueuedSteps, NavigateSteps, PlayQueueItemSteps, RetrySteps, SeekSteps,
     ChangeOutputSelectionSteps, PauseOrResumeSteps, RestoreSteps, SetRepeatModeSteps,
     ClearQueueSteps DEF AnyCommand

LEMMA StutterSteps ==
  ASSUME Queues, UNCHANGED vars
  PROVE  Step
<1>1. State' = State /\ transport' = transport
  BY DEF State, vars
<1>2. Queues'
  BY <1>1 DEF Queues
<1>3. TrackStep /\ SkipStep
  BY <1>1 DEF TrackStep, SkipStep
<1>4. QED
  BY <1>2, <1>3 DEF Step

LEMMA NextSteps ==
  ASSUME IInv, Queues, [Next]_vars
  PROVE  Step
<1>1. CASE Event
  BY <1>1, EventSteps
<1>2. CASE AnyCommand(NextCaller)
  BY <1>2, SomeoneAsks, AnyCommandSteps
<1>3. CASE UNCHANGED vars
  BY <1>3, StutterSteps
<1>4. QED
  BY <1>1, <1>2, <1>3 DEF Next

(* Every queue the worker keeps, also the one for undo, has every item id  *)
(* once, none it has still to give, and a position that is one of its      *)
(* entries or just past them; and a start that goes on where the track was *)
(* is one a caller waits for (queue.rs, sequencing.rs, commands.rs).       *)
THEOREM QueuesHold == Spec => []Queues
<1>1. IInv /\ Queues /\ [Next]_vars => Queues'
  BY NextSteps DEF Step
<1>2. QED
  BY QueuesStart, <1>1, InvariantHolds, PTL DEF Spec

(* Whatever was edited, skipped, vanished or failed before, the track that *)
(* starts or is adopted is the one the queue has as its current entry.     *)
THEOREM TrackFollows == Spec => TrackFollowsTheQueue
<1>1. IInv /\ Queues /\ [Next]_vars =>
        [Entry(transport') \notin {NoEntry, Entry(transport)} =>
           HasCurrent(queue') /\ CurrentId(queue') = Entry(transport')]_vars
  BY NextSteps DEF Step, TrackStep
<1>2. QED
  BY <1>1, InvariantHolds, QueuesHold, PTL DEF Spec, TrackFollowsTheQueue

(* A start that moves on to another entry for the same caller has one more *)
(* skip behind it, and skips stay fewer than the entries of the queue: one *)
(* pass over a queue of files that all fail, and then the caller hears.    *)
THEOREM SkipsEnd == Spec => SkipsRunOut
<1>1. IInv /\ Queues /\ [Next]_vars =>
        [(/\ IsLoading(transport) /\ IsLoading(transport')
          /\ transport'.request.responder = transport.request.responder
          /\ transport'.request.entry # transport.request.entry
          /\ queue'.nextId = queue.nextId) =>
            skipped' > skipped /\ skipped' < Length(queue)]_vars
  BY NextSteps DEF Step, SkipStep
<1>2. QED
  BY <1>1, InvariantHolds, QueuesHold, PTL DEF Spec, SkipsRunOut
=============================================================================
