------------------------------ MODULE Gapless ------------------------------
(***************************************************************************)
(* Gapless playback and seeking: the worker's loaded track, prefetch and   *)
(* seek (src/backend/src/audio/playback/worker) against the output         *)
(* callback (src/backend/src/audio/output.rs), which run on two threads    *)
(* and meet in two one-value slots and one event channel.                  *)
(*                                                                         *)
(* A pipeline is the number of its PipelineId, given in order.  A stream   *)
(* is named by the pipeline it was prepared for.  What the queue would     *)
(* play next is the variable upNext: PlaybackQueue.tla has the queue.  A   *)
(* start opens its pipeline at once: PlaybackWorker.tla has the loading.   *)
(***************************************************************************)
EXTENDS Integers, Sequences

CONSTANTS Entries,      \* queue entries
          NoEntry,      \* the queue names no next entry
          MaxPipelines, \* bound: pipelines ever opened
          MaxCommands   \* bound: commands

ASSUME GaplessAssumption ==
  /\ NoEntry \notin Entries
  /\ MaxPipelines \in Nat \ {0} /\ MaxCommands \in Nat

Pipelines == 1..MaxPipelines
NoPipeline == 0
NoChain == [after |-> NoPipeline, next |-> NoPipeline]
NoPrefetch == [state |-> "none", entry |-> NoEntry, pipeline |-> NoPipeline,
               ending |-> FALSE]

VARIABLES
  upNext,      \* the entry peek_natural names
  loading,     \* the pipeline of a start that prebuffers
  loaded,      \* the pipeline of the loaded track
  ending,      \* its completion_time is known
  paused,      \* the loaded track, or the one that loads, is paused
  seek,        \* the pipeline of the seek in flight
  prefetch,    \* the prefetch of the loaded track
  unchain,     \* switch_queue has handed over and not yet withdrawn the chain
  commands,    \* commands so far
  decode,      \* pipeline -> its decode thread and queue
  inbox,       \* events on the worker's channel
  handoff,     \* queue handed over and not taken yet
  chainSlot,   \* chain written to its slot
  chainWritten,\* ... and not taken yet
  stream,      \* the stream whose callback this is
  step,        \* where the callback is in fill
  playing,     \* the pipeline it plays
  chained,     \* the chain it holds
  timed,       \* last_end_time is known
  completion,  \* whether it reported the end of what it plays
  ended,       \* pipelines with a reported end time
  past         \* ... whose end time the stream clock has reached

workerVars == <<upNext, loading, loaded, ending, paused, seek, prefetch>>
slotVars == <<handoff, chainSlot, chainWritten>>
callbackVars == <<stream, step, playing, chained, timed, completion>>
clockVars == <<ended, past>>
vars == <<workerVars, unchain, commands, decode, inbox, slotVars, callbackVars,
          clockVars>>

Init ==
  /\ upNext \in Entries \cup {NoEntry}
  /\ loading = NoPipeline /\ loaded = NoPipeline /\ seek = NoPipeline
  /\ ending = FALSE /\ paused = FALSE /\ prefetch = NoPrefetch
  /\ unchain = FALSE /\ commands = 0
  /\ decode = [p \in Pipelines |-> "unused"] /\ inbox = <<>>
  /\ handoff = NoPipeline /\ chainSlot = NoChain /\ chainWritten = FALSE
  /\ stream = NoPipeline /\ step = "idle" /\ playing = NoPipeline
  /\ chained = NoChain /\ timed = FALSE /\ completion = "pending"
  /\ ended = {} /\ past = {}

-----------------------------------------------------------------------------
(* Pipelines.                                                              *)

Decoding == {"filling", "buffered"}
Unused == {p \in Pipelines : decode[p] = "unused"}
CanOpen == Unused # {}
Fresh == CHOOSE p \in Unused : \A q \in Unused : p <= q
Owned == {loading, loaded, seek, prefetch.pipeline} \ {NoPipeline}

(* `gone` are cancelled, `opened` gets a decode thread.                    *)
CancelAndOpen(gone, opened) ==
  decode' = [p \in Pipelines |->
               IF p \in opened THEN "filling"
               ELSE IF p \in gone /\ decode[p] \in Decoding THEN "stopped"
               ELSE decode[p]]

(* The decode thread of p, seen from outside.                              *)
Prebuffer(p) ==
  /\ decode[p] = "filling"
  /\ decode' = [decode EXCEPT ![p] = "buffered"]
  /\ inbox' = Append(inbox, [kind |-> "ready", of |-> p])
  /\ UNCHANGED <<workerVars, unchain, commands, slotVars, callbackVars, clockVars>>

FinishDecoding(p) ==
  /\ decode[p] = "buffered"
  /\ decode' = [decode EXCEPT ![p] = "finished"]
  /\ UNCHANGED <<workerVars, unchain, commands, inbox, slotVars, callbackVars,
                 clockVars>>

FailDecoding(p) ==
  /\ decode[p] \in Decoding
  /\ decode' = [decode EXCEPT ![p] = "stopped"]
  /\ inbox' = Append(inbox, [kind |-> "failed", of |-> p])
  /\ UNCHANGED <<workerVars, unchain, commands, slotVars, callbackVars, clockVars>>

-----------------------------------------------------------------------------
(* The output callback.                                                    *)

(* A run of the callback first takes a queue handed over.                  *)
TakeHandoff ==
  /\ loaded # NoPipeline /\ ~paused /\ step = "idle"
  /\ step' = "chain"
  /\ IF handoff = NoPipeline
     THEN UNCHANGED <<handoff, playing, timed, completion>>
     ELSE /\ playing' = handoff /\ handoff' = NoPipeline
          /\ timed' = FALSE /\ completion' = "pending"
  /\ UNCHANGED <<workerVars, unchain, commands, decode, inbox, chainSlot,
                 chainWritten, stream, chained, clockVars>>

(* Mutant: a chain is kept whatever it follows.                            *)
TakeChainUnchecked ==
  /\ step = "chain"
  /\ step' = "play"
  /\ chained' = IF chainWritten THEN chainSlot ELSE chained
  /\ chainSlot' = NoChain /\ chainWritten' = FALSE
  /\ UNCHANGED <<workerVars, unchain, commands, decode, inbox, handoff, stream,
                 playing, timed, completion, clockVars>>

(* Then the chain, which is void unless it follows what plays now.         *)
TakeChain ==
  /\ step = "chain"
  /\ step' = "play"
  /\ LET chain == IF chainWritten THEN chainSlot ELSE chained
     IN chained' = IF chain.after = playing THEN chain ELSE NoChain
  /\ chainSlot' = NoChain /\ chainWritten' = FALSE
  /\ UNCHANGED <<workerVars, unchain, commands, decode, inbox, handoff, stream,
                 playing, timed, completion, clockVars>>

(* report_completion, once, with the end time if anything was played.      *)
Report(hasTime) ==
  IF completion # "pending"
  THEN UNCHANGED <<inbox, ended>>
  ELSE /\ inbox' = Append(inbox, IF hasTime THEN [kind |-> "final", of |-> playing]
                                 ELSE [kind |-> "untimed", of |-> stream])
       /\ ended' = IF hasTime THEN ended \cup {playing} ELSE ended

(* One pass of fill: it plays what the queue has, and moves on to the      *)
(* chained queue when this one is finished and the buffer is not full.     *)
Pass(popped, drains, full) ==
  /\ step = "play"
  /\ full => popped
  /\ drains => decode[playing] = "finished"
  /\ popped => decode[playing] # "drained"
  /\ decode' = IF drains THEN [decode EXCEPT ![playing] = "drained"] ELSE decode
  /\ LET finished == decode'[playing] = "drained"
         known == timed \/ popped
     IN IF finished /\ ~full /\ chained # NoChain
        THEN /\ Report(known)
             /\ playing' = chained.next /\ chained' = NoChain
             /\ timed' = FALSE /\ completion' = "pending"
             /\ UNCHANGED step
        ELSE /\ IF finished
                THEN Report(known) /\ completion' = "reported"
                ELSE UNCHANGED <<inbox, ended, completion>>
             /\ timed' = known
             /\ step' = "idle"
             /\ UNCHANGED <<playing, chained>>
  /\ UNCHANGED <<workerVars, unchain, commands, slotVars, stream, past>>

(* The stream clock reaches the end times in order.                        *)
ClockPasses(p) ==
  /\ p \in ended \ past
  /\ \A q \in ended : q < p => q \in past
  /\ past' = past \cup {p}
  /\ UNCHANGED <<workerVars, unchain, commands, decode, inbox, slotVars,
                 callbackVars, ended>>

-----------------------------------------------------------------------------
(* The worker.  It is one thread, busy only while switch_queue has written *)
(* one of its two slots.                                                   *)

WorkerFree == ~unchain
KeepStream == UNCHANGED <<handoff, callbackVars>>
KeepSlots == UNCHANGED <<chainSlot, chainWritten>>

WriteChain(chain) == chainSlot' = chain /\ chainWritten' = TRUE

(* clear_next belongs to a prefetch the stream knows of.                   *)
Withdraw == IF prefetch.state = "ready" THEN WriteChain(NoChain) ELSE KeepSlots

(* The stream goes with the transport, its callback and slots with it.     *)
DropStream ==
  /\ handoff' = NoPipeline /\ chainSlot' = NoChain /\ chainWritten' = FALSE
  /\ stream' = NoPipeline /\ step' = "idle" /\ playing' = NoPipeline
  /\ chained' = NoChain /\ timed' = FALSE /\ completion' = "pending"

(* begin_start: the transport is discarded and a new stream prepared.      *)
BeginStart ==
  /\ CanOpen
  /\ CancelAndOpen(Owned, {Fresh})
  /\ loading' = Fresh /\ loaded' = NoPipeline /\ seek' = NoPipeline
  /\ prefetch' = NoPrefetch /\ ending' = FALSE /\ paused' \in BOOLEAN
  /\ upNext' \in Entries \cup {NoEntry}
  /\ DropStream

(* Playback stops: the queue is at its end, or the failure is final.       *)
Stop ==
  /\ CancelAndOpen(Owned, {})
  /\ loading' = NoPipeline /\ loaded' = NoPipeline /\ seek' = NoPipeline
  /\ prefetch' = NoPrefetch /\ ending' = FALSE /\ paused' = FALSE
  /\ upNext' \in Entries \cup {NoEntry}
  /\ DropStream

(* A track that cannot go on: the next one, or none.                       *)
AdvanceAfterTrack == BeginStart \/ Stop

FinishStart ==
  /\ loaded' = loading /\ loading' = NoPipeline
  /\ stream' = loading /\ playing' = loading
  /\ UNCHANGED <<upNext, ending, paused, seek, prefetch, unchain, decode, slotVars,
                 step, chained, timed, completion>>

(* finish_seek hands the seek's queue to the callback ...                  *)
SwitchQueue ==
  /\ handoff' = seek
  /\ unchain' = TRUE
  /\ UNCHANGED <<workerVars, decode, chainSlot, chainWritten, callbackVars>>

(* Mutant: the end of the old queue stays known.                           *)
FinishSwitchStillEnding ==
  /\ unchain
  /\ unchain' = FALSE
  /\ WriteChain(NoChain)
  /\ CancelAndOpen({loaded}, {})
  /\ loaded' = seek /\ seek' = NoPipeline
  /\ UNCHANGED <<upNext, loading, ending, paused, prefetch, commands, inbox,
                 handoff, callbackVars, clockVars>>

(* ... withdraws the chain, and lets go of the old pipeline.               *)
FinishSwitch ==
  /\ unchain
  /\ unchain' = FALSE
  /\ WriteChain(NoChain)
  /\ CancelAndOpen({loaded}, {})
  /\ loaded' = seek /\ seek' = NoPipeline /\ ending' = FALSE
  /\ UNCHANGED <<upNext, loading, paused, prefetch, commands, inbox, handoff,
                 callbackVars, clockVars>>

Ignore == UNCHANGED <<workerVars, unchain, decode, slotVars, callbackVars>>

PrebufferReady(p) ==
  \/ p = loading /\ FinishStart
  \/ p = seek /\ p # loading /\ SwitchQueue
  \/ p \notin {loading, seek} /\ Ignore

(* decode_stopped, by the owner of the pipeline.                           *)
DecodeStopped(p) ==
  \/ p \in {loading, loaded} /\ AdvanceAfterTrack /\ UNCHANGED unchain
  \/ /\ p = seek /\ p \notin {loading, loaded}
     /\ seek' = NoPipeline
     /\ UNCHANGED <<upNext, loading, loaded, ending, paused, prefetch, unchain,
                    decode, slotVars, callbackVars>>
  \/ /\ p = prefetch.pipeline /\ p \notin {loading, loaded, seek}
     /\ WriteChain(NoChain)
     /\ prefetch' = [NoPrefetch EXCEPT !.state = "unusable", !.entry = prefetch.entry]
     /\ UNCHANGED <<upNext, loading, loaded, ending, paused, seek, unchain, decode,
                    handoff, callbackVars>>
  \/ p \notin Owned /\ Ignore

(* The end of the loaded track, or already of the prefetched one.          *)
FinalFrames(p) ==
  /\ \/ p = loaded /\ ending' = TRUE /\ UNCHANGED prefetch
     \/ /\ p = prefetch.pipeline /\ p # loaded
        /\ prefetch' = [prefetch EXCEPT !.ending = TRUE] /\ UNCHANGED ending
     \/ p \notin {loaded, prefetch.pipeline} /\ UNCHANGED <<ending, prefetch>>
  /\ UNCHANGED <<upNext, loading, loaded, paused, seek, unchain, decode, slotVars,
                 callbackVars>>

(* CompletionTimingFailed of the current stream fails the output.          *)
StreamFailed(s) ==
  IF loaded # NoPipeline /\ s = stream THEN Stop /\ UNCHANGED unchain ELSE Ignore

HandleEvent ==
  /\ WorkerFree /\ inbox # <<>>
  /\ inbox' = Tail(inbox)
  /\ LET p == Head(inbox).of
     IN \/ Head(inbox).kind = "ready" /\ PrebufferReady(p)
        \/ Head(inbox).kind = "failed" /\ DecodeStopped(p)
        \/ Head(inbox).kind = "final" /\ FinalFrames(p)
        \/ Head(inbox).kind = "untimed" /\ StreamFailed(p)
  /\ UNCHANGED <<commands, clockVars>>

-----------------------------------------------------------------------------
(* The prefetch.                                                           *)

(* maybe_prefetch: near the end it starts opening the next entry.          *)
Opening(entry) ==
  {NoPrefetch} \cup
  (IF entry = NoEntry THEN {}
   ELSE [state : {"source", "unusable"}, entry : {entry}, pipeline : {NoPipeline},
         ending : {FALSE}])

(* prefetch_source_loaded: the file is open, or cannot follow gaplessly.   *)
PrefetchLoaded ==
  /\ WorkerFree /\ prefetch.state = "source"
  /\ \/ /\ CanOpen
        /\ CancelAndOpen({}, {Fresh})
        /\ WriteChain([after |-> loaded, next |-> Fresh])
        /\ prefetch' = [prefetch EXCEPT !.state = "ready", !.pipeline = Fresh]
     \/ /\ prefetch' = [prefetch EXCEPT !.state = "unusable"]
        /\ KeepSlots /\ UNCHANGED decode
  /\ KeepStream
  /\ UNCHANGED <<upNext, loading, loaded, ending, paused, seek, unchain, commands,
                 inbox, clockVars>>

(* Mutant: the end that is waited for is that of the track to come.        *)
DueOfTheNext == ending /\ prefetch.pipeline \in past

Due == ending /\ loaded \in past
Adoptable == prefetch.state = "ready" /\ prefetch.entry = upNext

(* adopt_prefetched, and the prefetch of the track after it.               *)
AdoptPrefetched ==
  /\ loaded' = prefetch.pipeline /\ ending' = prefetch.ending
  /\ CancelAndOpen({loaded}, {})
  /\ upNext' \in Entries \cup {NoEntry}
  /\ prefetch' \in Opening(upNext')
  /\ paused' = FALSE /\ seek' = NoPipeline
  /\ KeepStream /\ KeepSlots
  /\ UNCHANGED <<loading, unchain>>

(* tick: finish_if_due, then maybe_prefetch.                               *)
Tick ==
  /\ WorkerFree /\ loaded # NoPipeline /\ ~paused
  /\ \/ /\ Due /\ Adoptable
        /\ AdoptPrefetched
     \/ /\ Due /\ ~Adoptable
        /\ AdvanceAfterTrack
        /\ UNCHANGED unchain
     \/ /\ ~Due /\ prefetch.state = "none" /\ seek = NoPipeline
        /\ prefetch' \in Opening(upNext)
        /\ UNCHANGED <<upNext, loading, loaded, ending, paused, seek, unchain, decode,
                       slotVars, callbackVars>>
  /\ UNCHANGED <<commands, inbox, clockVars>>

-----------------------------------------------------------------------------
(* The commands that bear on the stream.                                   *)

Command ==
  /\ WorkerFree /\ commands < MaxCommands
  /\ commands' = commands + 1
  /\ UNCHANGED <<unchain, inbox, clockVars>>

(* Any command that changes what plays next, with revalidate_prefetch.     *)
EditQueue(entry) ==
  /\ Command
  /\ upNext' = entry
  /\ IF prefetch.state # "none" /\ prefetch.entry # entry
     THEN /\ CancelAndOpen({prefetch.pipeline}, {})
          /\ Withdraw
          /\ prefetch' = NoPrefetch
     ELSE /\ KeepSlots
          /\ UNCHANGED <<prefetch, decode>>
  /\ KeepStream
  /\ UNCHANGED <<loading, loaded, ending, paused, seek>>

(* begin_seek: an earlier seek and the prefetch go; a pipeline is opened   *)
(* at the target, or the target is the end of the track.                   *)
Seek ==
  /\ Command /\ loaded # NoPipeline
  /\ \/ /\ \/ CanOpen /\ CancelAndOpen({seek, prefetch.pipeline}, {Fresh}) /\ seek' = Fresh
           \/ CancelAndOpen({seek, prefetch.pipeline}, {}) /\ seek' = NoPipeline
        /\ Withdraw
        /\ prefetch' = NoPrefetch
        /\ KeepStream
        /\ UNCHANGED <<upNext, loading, loaded, ending, paused>>
     \/ AdvanceAfterTrack

(* Start, Next, Previous, a jump or a device switch.                       *)
StartOther == Command /\ BeginStart

PauseOrResume ==
  /\ Command /\ (loaded # NoPipeline \/ loading # NoPipeline)
  /\ paused' = ~paused
  /\ KeepSlots /\ KeepStream
  /\ UNCHANGED <<upNext, loading, loaded, ending, seek, prefetch, decode>>

Callback ==
  TakeHandoff \/ TakeChain \/ \E popped, drains, full \in BOOLEAN : Pass(popped, drains, full)

Next ==
  \/ \E p \in Pipelines : Prebuffer(p) \/ FinishDecoding(p) \/ FailDecoding(p)
  \/ Callback
  \/ \E p \in ended : ClockPasses(p)
  \/ HandleEvent \/ FinishSwitch \/ PrefetchLoaded \/ Tick
  \/ \E entry \in Entries \cup {NoEntry} : EditQueue(entry)
  \/ Seek \/ StartOther \/ PauseOrResume

Spec == Init /\ [][Next]_vars

(* The callback runs while the stream does and every queue is drained in   *)
(* the end, the clock goes on, and the worker wakes for inputs and         *)
(* deadlines.                                                              *)
FairSpec ==
  /\ Spec
  /\ WF_vars(Callback)
  /\ SF_vars(\E popped, full \in BOOLEAN : Pass(popped, TRUE, full))
  /\ \A p \in Pipelines : WF_vars(ClockPasses(p))
  /\ WF_vars(HandleEvent) /\ WF_vars(FinishSwitch) /\ WF_vars(Tick)

-----------------------------------------------------------------------------
Chains == [after : Pipelines \cup {NoPipeline}, next : Pipelines \cup {NoPipeline}]

(* Types, with what each part of the transport excludes: a prefetch or a   *)
(* seek belongs to a loaded track, and never both at once, or the caller   *)
(* of the seek would not be answered when the prefetch is adopted.         *)
TypeOK ==
  /\ upNext \in Entries \cup {NoEntry}
  /\ {loading, loaded, seek, handoff, stream, playing} \subseteq
       Pipelines \cup {NoPipeline}
  /\ {ending, paused, unchain, chainWritten, timed} \subseteq BOOLEAN
  /\ prefetch.state \in {"none", "source", "ready", "unusable"}
  /\ prefetch.state = "ready" <=> prefetch.pipeline # NoPipeline
  /\ {chainSlot, chained} \subseteq Chains
  /\ loading # NoPipeline => loaded = NoPipeline
  /\ loaded = NoPipeline => prefetch.state = "none" /\ seek = NoPipeline
  /\ prefetch.state # "none" => seek = NoPipeline
  /\ past \subseteq ended

(* The worker never takes the end of another pipeline for the end of the   *)
(* loaded one, also right after a seek replaced it.                        *)
EndIsOfTheLoaded ==
  /\ ending => loaded \in ended
  /\ prefetch.ending => prefetch.pipeline \in ended

(* Within a stream the callback never goes back to a queue opened before   *)
(* the one it plays: what a seek or an edit withdrew does not come back.   *)
OldQueuesNeverReturn == [][stream' = stream => playing' >= playing]_vars

(* The end of a track that plays is noticed: the worker moves on to        *)
(* another pipeline, stops, or is paused.                                  *)
EndIsNoticed ==
  \A p \in Pipelines :
    (loaded = p /\ playing = p /\ decode[p] = "finished") ~> (loaded # p \/ paused)

(* What the comment on adopt_prefetched says (worker/prefetch.rs): the     *)
(* loaded track has been heard and the prefetched one is playing already,  *)
(* so the stream plays no third one.                                       *)
AdoptsWhatFollows ==
  [][Tick /\ Due /\ Adoptable =>
       playing \in {loaded, prefetch.pipeline} \/ handoff # NoPipeline]_vars

(* What the comment on SeekInFlight says (session.rs): the old pipeline    *)
(* plays until the seek's is ready, then the stream switches.              *)
TickKeepsTheSeek == [][Tick => seek' = seek]_vars
=============================================================================
