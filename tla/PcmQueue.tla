------------------------------ MODULE PcmQueue ------------------------------
(***************************************************************************)
(* The bounded PCM queue between a decode thread and the output callback   *)
(* (src/backend/src/audio/pcm_queue.rs), with the decode thread that fills *)
(* it (playback/decode_worker.rs).  Frames are counted, not carried: the   *)
(* ring itself is the ringbuf crate's.                                     *)
(*                                                                         *)
(* Three threads act on it.  The decode thread blocks in room.recv() when  *)
(* the ring is full.  The callback never blocks: it pops, and sends on the *)
(* one-slot room channel only when its pop takes the occupancy below half. *)
(* The playback worker cancels: a flag, then a send on the same channel.   *)
(***************************************************************************)
EXTENDS Integers

CONSTANTS Capacity,       \* frames the ring can hold
          PrebufferMark,  \* queued frames at which the prebuffer is announced
          MaxFrames,      \* bound: frames in one stream
          MaxPacket,      \* bound: frames in one decoded packet
          MaxPop          \* bound: frames one callback asks for

ASSUME PcmAssumption ==
  /\ Capacity \in Nat \ {0}
  /\ PrebufferMark \in 1..Capacity
  /\ MaxFrames \in Nat
  /\ MaxPacket \in Nat \ {0}
  /\ MaxPop \in Nat \ {0}

VARIABLES
  pc,        \* where the decode thread is
  left,      \* frames of its packet it has still to push
  writable,  \* frames it found room for, between the read and the push
  written,   \* frames pushed so far
  decoded,   \* frames decoded so far
  eos,       \* the packet being written is the last one
  announced, \* PrebufferReady was sent
  occupied,  \* frames in the ring
  room,      \* wakes pending in the one-slot channel
  finished,  \* the producer's finished flag
  cpc,       \* where the callback is
  popped,    \* frames it popped, until it has decided whether to wake
  taken,     \* frames it took so far
  flagSeen,  \* what it read of the finished flag
  early,     \* the stream has the queue before its prebuffer is full
  cancel     \* the worker's cancellation: "no", "flagged" or "woken"

producerVars == <<pc, left, writable, written, decoded, eos, announced, finished>>
consumerVars == <<cpc, popped, taken, flagSeen>>
pcmVars == <<producerVars, consumerVars, occupied, room, early, cancel>>

ProducerStates ==
  {"decode", "check", "push", "commit", "wait", "finished", "stopped", "failed"}
CallbackStates == {"idle", "popped", "flag", "empty", "ended"}

AtMost(n, m) == IF n <= m THEN n ELSE m

(* Occupancy below WAKE_NUMERATOR / WAKE_DENOMINATOR of the capacity.      *)
Below(n) == n * 2 < Capacity * 1

(* try_send on the room channel: a full channel keeps the wake it holds.   *)
Wake == room' = 1

PcmInit ==
  /\ pc = "decode" /\ left = 0 /\ writable = 0 /\ written = 0 /\ decoded = 0
  /\ eos = FALSE /\ announced = FALSE /\ finished = FALSE
  /\ cpc = "idle" /\ popped = 0 /\ taken = 0 /\ flagSeen = FALSE
  /\ occupied = 0 /\ room = 0 /\ cancel = "no"
  /\ early \in BOOLEAN

-----------------------------------------------------------------------------
(* The decode thread.                                                      *)

(* Mutant: the end is declared before the last packet has been written.    *)
DecodeFinishingEarly(n, last) ==
  /\ pc = "decode" /\ cancel = "no" /\ ~eos
  /\ decoded + n <= MaxFrames
  /\ n > 0 \/ last
  /\ decoded' = decoded + n
  /\ left' = n
  /\ eos' = last
  /\ finished' = last
  /\ pc' = "check"
  /\ UNCHANGED <<writable, written, announced, consumerVars, occupied, room,
                 early, cancel>>

(* decode_next yields a packet or the end of the stream; the end flushes   *)
(* what the converter still holds.  A packet the converter or a seek's     *)
(* discarded prefix swallows whole changes nothing and is left out.        *)
Decode(n, last) ==
  /\ pc = "decode" /\ cancel = "no" /\ ~eos
  /\ decoded + n <= MaxFrames
  /\ n > 0 \/ last
  /\ decoded' = decoded + n
  /\ left' = n
  /\ eos' = last
  /\ pc' = "check"
  /\ UNCHANGED <<writable, written, announced, finished, consumerVars, occupied,
                 room, early, cancel>>

(* The packet is written: on to the next one, or the end.  A stream        *)
(* shorter than the prebuffer is as ready as it will get.                  *)
PacketWritten ==
  /\ pc = "check" /\ left = 0
  /\ IF eos
     THEN /\ announced' = TRUE
          /\ finished' = TRUE
          /\ pc' = "finished"
     ELSE /\ pc' = "decode"
          /\ UNCHANGED <<announced, finished>>
  /\ UNCHANGED <<left, writable, written, decoded, eos, consumerVars, occupied,
                 room, early, cancel>>

(* The loop of write_all looks at the cancellation before every push.      *)
CheckCancelled ==
  /\ pc = "check" /\ left > 0
  /\ pc' = IF cancel = "no" THEN "push" ELSE "stopped"
  /\ UNCHANGED <<left, writable, written, decoded, eos, announced, finished,
                 consumerVars, occupied, room, early, cancel>>

(* push_samples reads the vacancy first, and pushes what it saw room for.  *)
ReadVacancy ==
  /\ pc = "push"
  /\ writable' = AtMost(Capacity - occupied, left)
  /\ pc' = "commit"
  /\ UNCHANGED <<left, written, decoded, eos, announced, finished, consumerVars,
                 occupied, room, early, cancel>>

Push ==
  /\ pc = "commit"
  /\ occupied' = occupied + writable
  /\ written' = written + writable
  /\ left' = left - writable
  /\ announced' = (announced \/ occupied + writable >= PrebufferMark)
  /\ writable' = 0
  /\ pc' = IF writable = 0 THEN "wait" ELSE "check"
  /\ UNCHANGED <<decoded, eos, finished, consumerVars, room, early, cancel>>

(* room.recv() takes a wake that is pending, or blocks.                    *)
ReceiveRoom ==
  /\ pc = "wait" /\ room = 1
  /\ room' = 0
  /\ pc' = "check"
  /\ UNCHANGED <<left, writable, written, decoded, eos, announced, finished,
                 consumerVars, occupied, early, cancel>>

(* The thread notices the cancellation between two packets.                *)
StopDecoding ==
  /\ pc = "decode" /\ cancel # "no"
  /\ pc' = "stopped"
  /\ UNCHANGED <<left, writable, written, decoded, eos, announced, finished,
                 consumerVars, occupied, room, early, cancel>>

(* A packet cannot be decoded or converted, or the decoder panics.         *)
FailDecode ==
  /\ pc = "decode" /\ cancel = "no"
  /\ pc' = "failed"
  /\ UNCHANGED <<left, writable, written, decoded, eos, announced, finished,
                 consumerVars, occupied, room, early, cancel>>

Producer ==
  \/ \E n \in 0..MaxPacket, last \in BOOLEAN : Decode(n, last)
  \/ PacketWritten \/ CheckCancelled \/ ReadVacancy \/ Push \/ ReceiveRoom
  \/ StopDecoding

-----------------------------------------------------------------------------
(* The output callback: one round is a pop, its wake decision and the      *)
(* question whether the stream is over.                                    *)

Pop(want) ==
  /\ cpc = "idle"
  /\ early \/ announced
  /\ LET n == AtMost(occupied, want)
     IN /\ occupied' = occupied - n
        /\ taken' = taken + n
        /\ popped' = n
        /\ cpc' = IF n > 0 THEN "popped" ELSE "flag"
  /\ UNCHANGED <<producerVars, flagSeen, room, early, cancel>>

(* Mutant: the wake is sent only by a pop from a full ring.                *)
WakeIfWasFull ==
  /\ cpc = "popped"
  /\ IF Below(occupied) /\ occupied + popped = Capacity THEN Wake ELSE room' = room
  /\ popped' = 0
  /\ cpc' = "flag"
  /\ UNCHANGED <<producerVars, taken, flagSeen, occupied, early, cancel>>

(* The occupancy is read again after the pop, so it may count frames that  *)
(* were pushed meanwhile.                                                  *)
WakeIfCrossed ==
  /\ cpc = "popped"
  /\ IF Below(occupied) /\ ~Below(occupied + popped) THEN Wake ELSE room' = room
  /\ popped' = 0
  /\ cpc' = "flag"
  /\ UNCHANGED <<producerVars, taken, flagSeen, occupied, early, cancel>>

(* is_finished reads the flag first, and the occupancy after it.           *)
ReadFinished ==
  /\ cpc = "flag"
  /\ flagSeen' = finished
  /\ cpc' = "empty"
  /\ UNCHANGED <<producerVars, popped, taken, occupied, room, early, cancel>>

(* Mutant: an empty ring is taken for the end of the stream.               *)
ReadEmptyOnly ==
  /\ cpc = "empty"
  /\ cpc' = IF occupied = 0 THEN "ended" ELSE "idle"
  /\ flagSeen' = FALSE
  /\ UNCHANGED <<producerVars, popped, taken, occupied, room, early, cancel>>

ReadEmpty ==
  /\ cpc = "empty"
  /\ cpc' = IF flagSeen /\ occupied = 0 THEN "ended" ELSE "idle"
  /\ flagSeen' = FALSE
  /\ UNCHANGED <<producerVars, popped, taken, occupied, room, early, cancel>>

Consumer ==
  \/ \E want \in 1..MaxPop : Pop(want)
  \/ WakeIfCrossed \/ ReadFinished \/ ReadEmpty

-----------------------------------------------------------------------------
(* The playback worker lets go of the pipeline: the flag first, so that a  *)
(* thread the wake finds waiting sees it.                                  *)

CancelFlag ==
  /\ cancel = "no"
  /\ cancel' = "flagged"
  /\ UNCHANGED <<producerVars, consumerVars, occupied, room, early>>

(* Mutant: cancelling sets the flag and wakes nobody.                      *)
CancelWithoutWake ==
  /\ cancel = "flagged"
  /\ cancel' = "woken"
  /\ UNCHANGED <<producerVars, consumerVars, occupied, room, early>>

CancelWake ==
  /\ cancel = "flagged"
  /\ cancel' = "woken"
  /\ Wake
  /\ UNCHANGED <<producerVars, consumerVars, occupied, early>>

PcmNext == Producer \/ FailDecode \/ Consumer \/ CancelFlag \/ CancelWake

PcmSpec == PcmInit /\ [][PcmNext]_pcmVars

(* A spawned thread runs, and cancel() always goes on to its wake.         *)
FairThreads == PcmSpec /\ WF_pcmVars(Producer) /\ WF_pcmVars(CancelWake)

-----------------------------------------------------------------------------
(* Types and ranges: nothing is ever pushed into an occupied slot or       *)
(* popped from an empty one, and frames are neither lost nor invented.     *)
PcmTypeOK ==
  /\ pc \in ProducerStates /\ cpc \in CallbackStates
  /\ left \in Nat /\ writable \in Nat /\ written \in Nat /\ decoded \in Nat
  /\ eos \in BOOLEAN /\ announced \in BOOLEAN /\ finished \in BOOLEAN
  /\ occupied \in 0..Capacity /\ room \in 0..1
  /\ popped \in Nat /\ taken \in Nat /\ flagSeen \in BOOLEAN
  /\ early \in BOOLEAN /\ cancel \in {"no", "flagged", "woken"}

(* No wake-up is lost.  The callback wakes only when it crosses the half   *)
(* mark, the channel holds one wake, and a wake may be spent on a push     *)
(* long before: still, a producer that found the ring full and has no wake *)
(* pending always has a crossing ahead of it, or one being reported now.   *)
(* Otherwise the decode thread would sleep through the rest of the track.  *)
NoLostWake ==
  pc = "wait" /\ room = 0 =>
    \/ ~Below(occupied)
    \/ cpc = "popped" /\ ~Below(occupied + popped)

(* A cancelled thread that may block finds the wake cancel() sent: the     *)
(* wake is never spent on a round that did not look at the flag.           *)
CancelReachesTheWait ==
  cancel = "woken" /\ pc \in {"push", "commit", "wait"} => room = 1

(* The callback hears the end (and reports the final frames, upon which    *)
(* the worker moves on) only after every frame that was written, although  *)
(* the flag and the occupancy are read at two different moments.           *)
EndOnlyWhenDrained ==
  cpc = "ended" => pc = "finished" /\ taken = decoded

(* A cancelled decode thread stops, even when nothing pops any more.       *)
CancelStopsTheThread ==
  cancel # "no" ~> pc \in {"finished", "stopped", "failed"}

(* While the callback runs, a stream that is neither cancelled nor failing *)
(* is heard to its end: the two sides never wait on each other.            *)
PlaysToTheEnd ==
  WF_pcmVars(Consumer) => <>(cpc = "ended" \/ cancel # "no" \/ pc = "failed")

(* The queue implements the stream it promises.                            *)
Stream == INSTANCE PcmStream
            WITH produced <- written, heard <- taken,
                 closed <- finished, ended <- (cpc = "ended")
ImplementsStream == Stream!StreamSpec
=============================================================================
