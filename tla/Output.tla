------------------------------- MODULE Output -------------------------------
(***************************************************************************)
(* An output stream, its callback and its clock: audio/output.rs.          *)
(*                                                                         *)
(* The unit of time is what one frame lasts.  The device asks for a buffer *)
(* when the one before is heard in less than Lead, and plays it right after*)
(* that one, or now.  Of a run of the callback, what it takes and plays,   *)
(* and what it then reports, are two steps; the worker may be between its  *)
(* own steps meanwhile.  A pipeline's queue is what its decode thread has  *)
(* pushed (PcmQueue has the queue itself, Gapless the worker).             *)
(***************************************************************************)
EXTENDS OutputDevice

CONSTANTS Pipelines, SourceFrames,   \* 1..n, and the frames of each one's file
          SeekTarget,                \* the frame a seek goes to
          Host, Selections, Spec0,   \* what may be opened, and the files' spec
          Buffer, Lead,              \* frames of a run, and how far ahead it is
          Packet,                    \* frames a decode thread pushes at a time
          MaxTime, MaxLate,          \* bounds: the clock, and how late a run may be
          Nothing

(* What may be opened has rates, and a resampler between two that differ:  *)
(* its chunks last as long at either rate (FixedSync::Both).               *)
Openings == {Open(Host, s, Spec0) : s \in Selections}

ASSUME OutputAssumption ==
  /\ Pipelines = 1..Cardinality(Pipelines) /\ 1 \in Pipelines /\ IsFiniteSet(Pipelines)
  /\ \A s \in Openings : s.error = "none" =>
       /\ s.source.rate \in Nat \ {0} /\ s.device.rate \in Nat \ {0}
       /\ s.device.rate # s.source.rate =>
            LET chunks == Resampler[s.source.rate, s.device.rate]
            IN /\ chunks \in [input : Nat \ {0}, output : Nat, delay : Nat]
               /\ chunks.input * s.device.rate = chunks.output * s.source.rate
  /\ SourceFrames \in [Pipelines -> Nat]
  /\ SeekTarget \in Nat /\ \A p \in Pipelines : SeekTarget <= SourceFrames[p]
  /\ Buffer \in Nat \ {0} /\ Packet \in Nat \ {0}
  /\ Lead \in Nat /\ MaxTime \in Nat /\ MaxLate \in Nat

VARIABLES
  opened,      \* the stream's configuration
  frames,      \* the frames each opened pipeline has for the device
  pushed, finished,  \* what its decode thread has put into the queue
  popped,      \* what the callback has taken
  handoff, chainSlot,  \* what the stream has handed over, if not taken yet
  callback,    \* the callback's state
  cell,        \* the latest position report
  stream,      \* the worker's side
  now, due,    \* the clock, and when the next buffer is heard
  heard,       \* history: when each frame of a pipeline is heard
  told,        \* the ends the callback has reported, in order
  sought       \* history: the pipelines opened by a seek

outputVars == <<opened, frames, pushed, finished, popped, handoff, chainSlot,
                callback, cell, stream, now, due, heard, told, sought>>
queues == <<frames, pushed, finished>>
history == <<heard, told, sought>>

Start(p, at) == [pipeline |-> p, chained |-> Nothing, position |-> 0, end |-> Nothing,
                 completion |-> "pending", at |-> at, report |-> Nothing]

OutputInit ==
  /\ opened \in {Open(Host, s, Spec0) : s \in Selections}
  /\ frames = [p \in Pipelines |->
                 IF opened.error # "none" THEN 0
                 ELSE IF p = 1 THEN FramesOf(opened, SourceFrames[1]) ELSE 0]
  /\ pushed = [p \in Pipelines |-> 0] /\ finished = {}
  /\ popped = [p \in Pipelines |-> 0]
  /\ handoff = Nothing /\ chainSlot = Nothing
  /\ callback = Start(1, "between") /\ cell = Nothing
  /\ stream = [pipeline |-> 1, update |-> Nothing, last |-> 0, next |-> 2,
               given |-> Nothing, switching |-> Nothing]
  /\ now = 0 /\ due = 0
  /\ heard = [p \in Pipelines |-> <<>>] /\ told = <<>>
  /\ sought = {}

IsOpen == opened.error = "none"
Drained(p) == p \in finished /\ popped[p] = pushed[p]
-----------------------------------------------------------------------------
(* The decode threads, and the clock.                                      *)

PushPacket(p) ==
  /\ IsOpen /\ p < stream.next /\ pushed[p] < frames[p]
  /\ pushed' = [pushed EXCEPT ![p] = Min({@ + Packet, frames[p]})]
  /\ UNCHANGED <<opened, frames, finished, popped, handoff, chainSlot, callback,
                 cell, stream, now, due, history>>

FinishQueue(p) ==
  /\ IsOpen /\ p < stream.next /\ pushed[p] = frames[p] /\ p \notin finished
  /\ finished' = finished \cup {p}
  /\ UNCHANGED <<opened, frames, pushed, popped, handoff, chainSlot, callback,
                 cell, stream, now, due, history>>

Tick ==
  /\ IsOpen /\ now < MaxTime /\ now <= due + MaxLate
  /\ now' = now + 1
  /\ UNCHANGED <<opened, queues, popped, handoff, chainSlot, callback, cell, stream,
                 due, history>>
-----------------------------------------------------------------------------
(* The callback.                                                           *)

(* A queue that replaces the one playing, then the one that follows; one   *)
(* that follows another pipeline is void.                                  *)
TakeHandoff ==
  LET switched == IF handoff = Nothing THEN callback
                  ELSE [Start(handoff, "between") EXCEPT !.chained = callback.chained]
      chained == IF chainSlot = Nothing THEN switched.chained ELSE chainSlot.value
  IN [switched EXCEPT !.chained =
        IF chained # Nothing /\ chained.after = switched.pipeline THEN chained ELSE Nothing]

(* Mutant: the end is that of an earlier run.                              *)
SegmentEndingLate(cb, n, t) ==
  [cb EXCEPT !.position = @ + n, !.end = IF n > 0 /\ @ = Nothing THEN t + n ELSE @,
             !.report = [pipeline |-> cb.pipeline, start |-> cb.position,
                         end |-> cb.position + n, time |-> t]]

(* A segment of n frames is played from t on.                              *)
Segment(cb, n, t) ==
  [cb EXCEPT !.position = @ + n, !.end = IF n > 0 THEN t + n ELSE @,
             !.report = [pipeline |-> cb.pipeline, start |-> cb.position,
                         end |-> cb.position + n, time |-> t]]

ReportCompletion(cb, ends) ==
  IF cb.completion # "pending" THEN <<cb, ends>>
  ELSE <<[cb EXCEPT !.completion = IF cb.end = Nothing THEN "timingFailed" ELSE "reported"],
         Append(ends, [pipeline |-> cb.pipeline, time |-> cb.end])>>

ChainToNext(cb) == [Start(cb.chained.next, "between") EXCEPT !.report = cb.report]

(* Mutant: the callback moves on at the start of a run only.               *)
ChainsLater(first, n) ==
  n = 0 /\ first.chained # Nothing /\ Drained(first.pipeline)

(* After n frames the queue has run out, and another one follows.          *)
Chains(first, n) ==
  /\ n < Buffer /\ first.chained # Nothing
  /\ first.pipeline \in finished
  /\ popped[first.pipeline] + n = pushed[first.pipeline]

(* Frames are heard one after the other, from a moment on.                 *)
HeardAt(from, count) == [i \in 1..count |-> from + i - 1]

(* One run: the queue is played, and when it runs out within the buffer,   *)
(* the one that follows, if there is one; then silence.                    *)
Fill ==
  /\ IsOpen /\ callback.at = "between" /\ due <= now + Lead
  /\ LET t == Max({due, now})
         first == TakeHandoff
         p == first.pipeline
         n == Min({Buffer, pushed[p] - popped[p]})
         one == Segment(first, n, t)
         chains == Chains(first, n)
         completed == ReportCompletion(one, told)
         next == ChainToNext(completed[1])
         q == next.pipeline
         k == Min({Buffer - n, pushed[q] - popped[q]})
     IN /\ IF chains
           THEN /\ callback' = [Segment(next, k, t + n) EXCEPT !.at = "filled"]
                /\ popped' = [popped EXCEPT ![p] = @ + n, ![q] = @ + k]
                /\ heard' = [heard EXCEPT ![p] = @ \o HeardAt(t, n),
                                          ![q] = @ \o HeardAt(t + n, k)]
                /\ told' = completed[2]
           ELSE /\ callback' = [one EXCEPT !.at = "filled"]
                /\ popped' = [popped EXCEPT ![p] = @ + n]
                /\ heard' = [heard EXCEPT ![p] = @ \o HeardAt(t, n)]
                /\ told' = told
        /\ due' = t + Buffer
  /\ handoff' = Nothing /\ chainSlot' = Nothing
  /\ UNCHANGED <<opened, queues, cell, stream, now, sought>>

(* The position is published unless the worker holds the cell just now.    *)
Report ==
  /\ callback.at = "filled"
  /\ cell' \in {cell, callback.report}
  /\ LET done == IF Drained(callback.pipeline) THEN ReportCompletion(callback, told)
                 ELSE <<callback, told>>
     IN /\ callback' = [done[1] EXCEPT !.at = "between", !.report = Nothing]
        /\ told' = done[2]
  /\ UNCHANGED <<opened, queues, popped, handoff, chainSlot, stream, now, due, heard,
                 sought>>
-----------------------------------------------------------------------------
(* The worker.  A switch writes the two slots one after the other.         *)

Opening(p, n) ==
  /\ p \in Pipelines
  /\ frames' = [frames EXCEPT ![p] = n]
  /\ UNCHANGED <<pushed, finished>>

QueueNext ==
  /\ IsOpen /\ stream.switching = Nothing /\ stream.given = Nothing
  /\ Opening(stream.next, FramesOf(opened, SourceFrames[stream.next]))
  /\ chainSlot' = [value |-> [after |-> stream.pipeline, next |-> stream.next]]
  /\ stream' = [stream EXCEPT !.given = stream.next, !.next = @ + 1]
  /\ UNCHANGED <<opened, popped, handoff, callback, cell, now, due, history>>

ClearNext ==
  /\ stream.switching = Nothing /\ stream.given # Nothing
  /\ chainSlot' = [value |-> Nothing]
  /\ stream' = [stream EXCEPT !.given = Nothing]
  /\ UNCHANGED <<opened, queues, popped, handoff, callback, cell, now, due, history>>

SwitchQueue ==
  /\ IsOpen /\ stream.switching = Nothing
  /\ Opening(stream.next, FramesFrom(opened, SourceFrames[stream.next], SeekTarget))
  /\ handoff' = stream.next /\ sought' = sought \cup {stream.next}
  /\ stream' = [stream EXCEPT !.switching = stream.next, !.next = @ + 1]
  /\ UNCHANGED <<opened, popped, chainSlot, callback, cell, now, due, heard, told>>

(* Mutant: the report of the pipeline before still counts.                 *)
RenewedKeepingReport(p) ==
  [stream EXCEPT !.pipeline = p, !.last = 0, !.given = Nothing, !.switching = Nothing]

(* Reports of the pipeline count from its first frame.                     *)
Renewed(p) == [stream EXCEPT !.pipeline = p, !.update = Nothing, !.last = 0,
                             !.given = Nothing, !.switching = Nothing]

FinishSwitch ==
  /\ stream.switching # Nothing
  /\ chainSlot' = [value |-> Nothing] /\ cell' = Nothing
  /\ stream' = Renewed(stream.switching)
  /\ UNCHANGED <<opened, queues, popped, handoff, callback, now, due, history>>

AdoptNext ==
  /\ stream.switching = Nothing /\ stream.given # Nothing
  /\ \E e \in ToSet(told) :
       e.pipeline = stream.pipeline /\ e.time # Nothing /\ e.time <= now
  /\ cell' = Nothing
  /\ stream' = Renewed(stream.given)
  /\ UNCHANGED <<opened, queues, popped, handoff, chainSlot, callback, now, due, history>>

PlayedFramePosition(update) ==
  LET elapsed == IF update.time <= now THEN now - update.time ELSE 0
  IN Max({stream.last, Min({update.start + elapsed, update.end})})

SamplePosition ==
  /\ IsOpen /\ stream.switching = Nothing
  /\ LET update == IF cell # Nothing /\ cell.pipeline = stream.pipeline THEN cell
                   ELSE stream.update
     IN stream' = [stream EXCEPT !.update = update,
                     !.last = IF update = Nothing THEN @ ELSE PlayedFramePosition(update)]
  /\ cell' = Nothing
  /\ stream' # stream \/ cell # Nothing
  /\ UNCHANGED <<opened, queues, popped, handoff, chainSlot, callback, now, due, history>>

CallbackThread == Fill \/ Report
Worker == QueueNext \/ ClearNext \/ SwitchQueue \/ FinishSwitch \/ AdoptNext
            \/ SamplePosition
Decoders == \E p \in Pipelines : PushPacket(p) \/ FinishQueue(p)

OutputNext == Decoders \/ Tick \/ CallbackThread \/ Worker

OutputSpec == OutputInit /\ [][OutputNext]_outputVars
-----------------------------------------------------------------------------
(* Properties.                                                             *)

(* Types, and that of a pipeline no more is heard than was pushed, and no  *)
(* more pushed than its file has.                                          *)
TypeOK ==
  /\ \A p \in Pipelines : /\ Len(heard[p]) = popped[p] /\ popped[p] <= pushed[p]
                         /\ pushed[p] <= frames[p]
  /\ callback.pipeline \in Pipelines /\ callback.pipeline < stream.next
  /\ callback.at \in {"between", "filled"}
  /\ callback.completion \in {"pending", "reported", "timingFailed"}
  /\ callback.chained # Nothing => callback.chained.after = callback.pipeline
  /\ stream.pipeline \in Pipelines /\ stream.last \in Nat
  /\ now \in 0..MaxTime

HeardBy(p, t) == Cardinality({i \in DOMAIN heard[p] : heard[p][i] + 1 <= t})
EndOf(p) == heard[p][Len(heard[p])] + 1

(* The position the listener is shown is never further ahead of the sound  *)
(* of the track it is of than the device buffers, across switches, queues  *)
(* that follow, and reports that are late, lost or of another pipeline.    *)
PositionIsNear == stream.last <= HeardBy(stream.pipeline, now) + Lead

(* "Frames of the current pipeline heard so far, from the newest position  *)
(* report." (OutputStream::played_frame_position)                          *)
PositionIsHeard == stream.last <= HeardBy(stream.pipeline, now)

(* The end of a pipeline is reported once, at the time its last frame has  *)
(* been heard, and by then its whole file has been played, to the frame,   *)
(* or what is left of it from where a seek went.                           *)
EndsAreExact ==
  \A i \in DOMAIN told :
    LET p == told[i].pipeline
        whole == Expected(opened, SourceFrames[p])
        base == Rescaled(opened, SeekTarget)
    IN /\ \A j \in DOMAIN told : told[j].pipeline = p => j = i
       /\ (IF p \in sought THEN base ELSE 0) + Len(heard[p]) = whole
       /\ told[i].time = IF heard[p] = <<>> THEN Nothing ELSE EndOf(p)

(* A queue that was handed over in time is heard right after the one it    *)
(* follows, within the buffer that plays the last frames of that one.      *)
ChainsAreSeamless ==
  [][LET cb == TakeHandoff
         p == cb.pipeline
     IN /\ callback'.at = "filled" /\ callback.at = "between"
        /\ p \in finished /\ pushed[p] - popped[p] \in 1..(Buffer - 1)
        /\ cb.chained # Nothing /\ popped[cb.chained.next] < pushed[cb.chained.next]
        => LET q == cb.chained.next
           IN heard'[q] # <<>> /\ heard'[q][1] = heard'[p][Len(heard'[p])] + 1]_outputVars
=============================================================================
