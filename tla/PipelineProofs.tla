--------------------------- MODULE PipelineProofs ---------------------------
(***************************************************************************)
(* Proofs about the threads of a pipeline.                                 *)
(*                                                                         *)
(* PcmQueue.tla, for every capacity, prebuffer mark, packet and pop size.  *)
(* The inductive invariant adds to the types the accounting of frames      *)
(* between the threads, and what each thread may rely on at each of its    *)
(* program points.                                                         *)
(*                                                                         *)
(* Gapless.tla, for any number of entries, pipelines and commands: the     *)
(* types, that an end is taken for the end of its own track, and that the  *)
(* callback never goes back to an older queue.  The heart is the order of  *)
(* the pipelines' numbers along everything the worker and the callback     *)
(* hold, while either is between two of its steps.                         *)
(***************************************************************************)
EXTENDS PcmQueue, Gapless, SequenceTheorems, TLAPS

-----------------------------------------------------------------------------
(* The queue of one stream (PcmQueue).                                     *)


(* Frames are in exactly one place: popped, in the ring, or in the packet. *)
Accounting ==
  /\ written = taken + occupied
  /\ decoded = written + left

(* What the decode thread knows at each of its program points.             *)
ProducerPoints ==
  /\ pc \in {"push", "commit", "wait"} => left > 0
  /\ pc \in {"decode", "finished"} => left = 0
  /\ pc = "commit" => writable <= left /\ occupied + writable <= Capacity
  /\ finished <=> pc = "finished"

(* What the callback knows after reading the finished flag.                *)
CallbackPoints ==
  /\ flagSeen => finished
  /\ cpc = "ended" => finished /\ occupied = 0

(* A producer that found no room has a wake pending or a crossing ahead of *)
(* it, from the moment it read the vacancy.                                *)
WakeAhead ==
  pc = "wait" \/ (pc = "commit" /\ writable = 0) =>
    \/ room = 1
    \/ ~Below(occupied)
    \/ cpc = "popped" /\ ~Below(occupied + popped)

PcmIInv ==
  /\ PcmTypeOK
  /\ Accounting
  /\ ProducerPoints
  /\ CallbackPoints
  /\ WakeAhead
  /\ CancelReachesTheWait

(* The initial states satisfy the inductive invariant.                     *)
LEMMA PcmInitIInv == PcmInit => PcmIInv
<1> SUFFICES ASSUME PcmInit PROVE PcmIInv
  OBVIOUS
<1> USE DEF PcmInit
<1>1. PcmTypeOK
  <2>1. eos \in BOOLEAN /\ announced \in BOOLEAN /\ finished \in BOOLEAN
        /\ flagSeen \in BOOLEAN /\ early \in BOOLEAN
    BY Zenon
  <2>2. pc \in ProducerStates /\ cpc \in CallbackStates
        /\ cancel \in {"no", "flagged", "woken"}
    BY DEF ProducerStates, CallbackStates
  <2>3. /\ left \in Nat /\ writable \in Nat /\ written \in Nat /\ decoded \in Nat
        /\ occupied \in 0..Capacity /\ room \in 0..1 /\ popped \in Nat
        /\ taken \in Nat
    BY PcmAssumption
  <2>4. QED
    BY <2>1, <2>2, <2>3, Zenon DEF PcmTypeOK
<1>2. Accounting
  BY DEF Accounting
<1>3. ProducerPoints
  BY DEF ProducerPoints
<1>4. CallbackPoints /\ WakeAhead /\ CancelReachesTheWait
  BY DEF CallbackPoints, WakeAhead, CancelReachesTheWait
<1>5. QED
  BY <1>1, <1>2, <1>3, <1>4 DEF PcmIInv

(* Every step of the three threads preserves the inductive invariant.      *)
LEMMA PcmNextIInv == PcmIInv /\ [PcmNext]_pcmVars => PcmIInv'
<1> SUFFICES ASSUME PcmIInv, [PcmNext]_pcmVars PROVE PcmIInv'
  OBVIOUS
<1> USE PcmAssumption
    DEF PcmIInv, PcmTypeOK, Accounting, ProducerPoints, CallbackPoints, WakeAhead,
        CancelReachesTheWait, ProducerStates, CallbackStates, Below,
        producerVars, consumerVars
<1>1. ASSUME NEW n \in 0..MaxPacket, NEW last \in BOOLEAN, Decode(n, last)
      PROVE  PcmIInv'
  BY <1>1 DEF Decode
<1>2. CASE PacketWritten
  BY <1>2 DEF PacketWritten
<1>3. CASE CheckCancelled
  BY <1>3 DEF CheckCancelled
<1>4. CASE ReadVacancy
  BY <1>4 DEF ReadVacancy, AtMost
<1>5. CASE Push
  BY <1>5 DEF Push
<1>6. CASE ReceiveRoom
  BY <1>6 DEF ReceiveRoom
<1>7. CASE StopDecoding
  BY <1>7 DEF StopDecoding
<1>8. CASE FailDecode
  BY <1>8 DEF FailDecode
<1>9. ASSUME NEW want \in 1..MaxPop, Pop(want)
      PROVE  PcmIInv'
  BY <1>9 DEF Pop, AtMost
<1>10. CASE WakeIfCrossed
  BY <1>10 DEF WakeIfCrossed, Wake
<1>11. CASE ReadFinished
  BY <1>11 DEF ReadFinished
<1>12. CASE ReadEmpty
  BY <1>12 DEF ReadEmpty
<1>13. CASE CancelFlag
  BY <1>13 DEF CancelFlag
<1>14. CASE CancelWake
  BY <1>14 DEF CancelWake, Wake
<1>15. CASE UNCHANGED pcmVars
  BY <1>15 DEF pcmVars
<1>16. QED
  BY <1>1, <1>2, <1>3, <1>4, <1>5, <1>6, <1>7, <1>8, <1>9, <1>10, <1>11, <1>12,
     <1>13, <1>14, <1>15
     DEF PcmNext, Producer, Consumer

(* The inductive invariant holds in every reachable state.                 *)
LEMMA PcmInductive == PcmSpec => []PcmIInv
BY PcmInitIInv, PcmNextIInv, PTL DEF PcmSpec

-----------------------------------------------------------------------------
(* The ring is never overfilled or overdrawn, and every variable keeps its *)
(* type.                                                                   *)
THEOREM PcmTypeCorrect == PcmSpec => []PcmTypeOK
BY PcmInductive, PTL DEF PcmIInv

(* No wake-up of the decode thread is lost, for any capacity: a blocked    *)
(* producer without a wake pending always has a crossing ahead of it.      *)
THEOREM WakesAreNotLost == PcmSpec => []NoLostWake
<1>1. PcmIInv => NoLostWake
  BY DEF PcmIInv, PcmTypeOK, WakeAhead, NoLostWake
<1>2. QED
  BY <1>1, PcmInductive, PTL

(* A cancelled decode thread never blocks for good.                        *)
THEOREM CancelIsSeen == PcmSpec => []CancelReachesTheWait
BY PcmInductive, PTL DEF PcmIInv

(* The end of a stream is reported only after all its frames were taken.   *)
THEOREM EndIsDrained == PcmSpec => []EndOnlyWhenDrained
<1>1. PcmIInv => EndOnlyWhenDrained
  BY DEF PcmIInv, PcmTypeOK, Accounting, ProducerPoints, CallbackPoints,
         EndOnlyWhenDrained
<1>2. QED
  BY <1>1, PcmInductive, PTL

-----------------------------------------------------------------------------
(* Every step of the queue is a step of the stream it promises.            *)
LEMMA StepImplements ==
  PcmIInv /\ [PcmNext]_pcmVars => [Stream!StreamNext]_<<written, taken, finished, cpc = "ended">>
<1> SUFFICES ASSUME PcmIInv, [PcmNext]_pcmVars
             PROVE  [Stream!StreamNext]_<<written, taken, finished, cpc = "ended">>
  OBVIOUS
<1> USE PcmAssumption
    DEF PcmIInv, PcmTypeOK, Accounting, ProducerPoints, CallbackPoints,
        producerVars, consumerVars
<1>1. CASE PacketWritten
  <2>1. Stream!Close \/ UNCHANGED <<written, taken, finished, cpc>>
    BY <1>1 DEF PacketWritten, Stream!Close
  <2>2. QED
    BY <2>1 DEF Stream!StreamNext
<1>2. CASE Push
  <2>1. CASE writable = 0
    BY <1>2, <2>1 DEF Push
  <2>2. CASE writable # 0
    <3>1. writable \in 1..Capacity /\ Stream!Write(writable)
      BY <1>2, <2>2 DEF Push, Stream!Write
    <3>2. QED
      BY <3>1 DEF Stream!StreamNext
  <2>3. QED
    BY <2>1, <2>2
<1>3. ASSUME NEW want \in 1..MaxPop, Pop(want)
      PROVE  Stream!StreamNext \/ UNCHANGED <<written, taken, finished, cpc = "ended">>
  <2> DEFINE n == AtMost(occupied, want)
  <2>1. n \in 0..Capacity /\ n <= occupied
    BY DEF AtMost
  <2>2. CASE n = 0
    BY <1>3, <2>2 DEF Pop
  <2>3. CASE n # 0
    <3>1. n \in 1..Capacity /\ Stream!Hear(n)
      BY <1>3, <2>1, <2>3 DEF Pop, Stream!Hear
    <3>2. QED
      BY <3>1 DEF Stream!StreamNext
  <2>4. QED
    BY <2>2, <2>3
<1>4. CASE ReadEmpty
  <2>1. Stream!End \/ UNCHANGED <<written, taken, finished, cpc = "ended">>
    BY <1>4 DEF ReadEmpty, Stream!End
  <2>2. QED
    BY <2>1 DEF Stream!StreamNext
<1>5. CASE WakeIfCrossed \/ ReadFinished
  BY <1>5 DEF WakeIfCrossed, ReadFinished
<1>6. CASE \/ CheckCancelled \/ ReadVacancy \/ ReceiveRoom \/ StopDecoding
           \/ FailDecode \/ CancelFlag \/ CancelWake
  BY <1>6 DEF CheckCancelled, ReadVacancy, ReceiveRoom, StopDecoding, FailDecode,
              CancelFlag, CancelWake
<1>7. ASSUME NEW n \in 0..MaxPacket, NEW last \in BOOLEAN, Decode(n, last)
      PROVE  UNCHANGED <<written, taken, finished, cpc>>
  BY <1>7 DEF Decode
<1>8. CASE UNCHANGED pcmVars
  BY <1>8 DEF pcmVars
<1>9. QED
  BY <1>1, <1>2, <1>3, <1>4, <1>5, <1>6, <1>7, <1>8 DEF PcmNext, Producer, Consumer

(* The queue with its three threads implements the promised stream.        *)
THEOREM QueueImplementsStream == PcmSpec => ImplementsStream
<1>1. PcmInit => Stream!StreamInit
  BY DEF PcmInit, Stream!StreamInit
<1>2. PcmIInv /\ [PcmNext]_pcmVars => [Stream!StreamNext]_Stream!streamVars
  BY StepImplements DEF Stream!streamVars
<1>3. QED
  BY <1>1, <1>2, PcmInductive, PTL DEF PcmSpec, ImplementsStream, Stream!StreamSpec

-----------------------------------------------------------------------------
(* The pipelines of one track after another (Gapless).                     *)


Opened == {p \in Pipelines : decode[p] # "unused"}
Held == Opened \cup {NoPipeline}

(* Events name pipelines, and an end on the channel is one the callback    *)
(* has reported.                                                           *)
Events(reported) ==
  [kind : {"ready", "failed", "untimed"}, of : Pipelines]
    \cup [kind : {"final"}, of : reported]

Prefetches(held) ==
  [state : {"none", "source", "ready", "unusable"}, entry : Entries \cup {NoEntry},
   pipeline : held, ending : BOOLEAN]

ChainsOf(held) == [after : held, next : held]

Values ==
  /\ upNext \in Entries \cup {NoEntry}
  /\ ending \in BOOLEAN /\ paused \in BOOLEAN /\ unchain \in BOOLEAN
  /\ chainWritten \in BOOLEAN /\ timed \in BOOLEAN
  /\ step \in {"idle", "chain", "play"}
  /\ ended \subseteq Pipelines /\ past \subseteq ended
  /\ inbox \in Seq(Events(ended))

(* Pipelines are opened in the order of their numbers, and only such are   *)
(* held anywhere.                                                          *)
InOrder ==
  /\ decode \in [Pipelines -> {"unused", "filling", "buffered", "finished",
                               "drained", "stopped"}]
  /\ \E n \in 0..MaxPipelines : \A p \in Pipelines : decode[p] = "unused" <=> p > n

Holders ==
  /\ loading \in Held /\ loaded \in Held /\ seek \in Held
  /\ handoff \in Held /\ stream \in Held /\ playing \in Held
  /\ prefetch \in Prefetches(Held)
  /\ chainSlot \in ChainsOf(Held) /\ chained \in ChainsOf(Held)

(* What the parts of the transport exclude, and that a stream, its         *)
(* callback and its slots are there exactly while a track is loaded.       *)
Transport ==
  /\ loading # NoPipeline => loaded = NoPipeline
  /\ loaded = NoPipeline => prefetch.state = "none" /\ seek = NoPipeline /\ ~ending
  /\ prefetch.state # "none" => seek = NoPipeline
  /\ prefetch.state = "ready" <=> prefetch.pipeline # NoPipeline
  /\ prefetch.state # "ready" => ~prefetch.ending
  /\ loaded = NoPipeline <=> stream = NoPipeline
  /\ stream = NoPipeline <=> playing = NoPipeline
  /\ stream = NoPipeline => /\ step = "idle" /\ handoff = NoPipeline
                            /\ chainSlot = NoChain /\ chained = NoChain
  /\ unchain => seek # NoPipeline

(* A chain the callback meets after it took the queue handed over leads to *)
(* a newer queue; one written before the handover leads to an older one.   *)
Leads(chain) ==
  /\ chain # NoChain => chain.after < chain.next
  /\ handoff # NoPipeline => chain.next < handoff \/ chain.after >= handoff

(* What is opened later comes later: a seek is newer than all the callback *)
(* may have, and a queue handed over is newer than the one that plays.     *)
Order ==
  /\ seek # NoPipeline => loaded < seek
  /\ prefetch.pipeline # NoPipeline => loaded < prefetch.pipeline
  /\ ~unchain => handoff <= loaded
  /\ unchain => handoff \in {NoPipeline, seek}
  /\ ~unchain /\ seek # NoPipeline =>
       playing < seek /\ chained.next < seek /\ chainSlot.next < seek
  /\ handoff # NoPipeline => playing < handoff
  /\ Leads(chained) /\ Leads(chainSlot)
  /\ step = "play" => chained = NoChain \/ chained.after = playing

IInv ==
  /\ Values
  /\ InOrder
  /\ Holders
  /\ Transport
  /\ Order
  /\ EndIsOfTheLoaded

-----------------------------------------------------------------------------
(* The pipelines that are opened.                                          *)

(* A pipeline can be opened while one is unused; it is newer than all.     *)
LEMMA FreshIsNewest ==
  ASSUME InOrder, CanOpen
  PROVE  /\ Fresh \in Pipelines /\ decode[Fresh] = "unused"
         /\ \A p \in Opened : p < Fresh
         /\ \A p \in Pipelines : decode[p] = "unused" => Fresh <= p
<1>1. PICK n \in 0..MaxPipelines : \A p \in Pipelines : decode[p] = "unused" <=> p > n
  BY DEF InOrder
<1>2. n + 1 \in Unused /\ \A q \in Unused : n + 1 <= q
  BY <1>1, GaplessAssumption DEF CanOpen, Unused, Pipelines
<1>3. Fresh \in Unused /\ \A q \in Unused : Fresh <= q
  BY <1>2 DEF Fresh
<1>4. \A p \in Opened : p < Fresh
  BY <1>1, <1>3, GaplessAssumption DEF Opened, Unused, Pipelines
<1>5. QED
  BY <1>3, <1>4 DEF Unused

(* A fresh pipeline is opened: the order is kept.                          *)
LEMMA OpeningKeepsOrder ==
  ASSUME InOrder, CanOpen, NEW gone, CancelAndOpen(gone, {Fresh})
  PROVE  InOrder' /\ Opened' = Opened \cup {Fresh} /\ Fresh \in Pipelines
<1> USE DEF CancelAndOpen, Decoding
<1>1. Fresh \in Pipelines
  BY FreshIsNewest
<1>2. decode' \in [Pipelines -> {"unused", "filling", "buffered", "finished",
                                 "drained", "stopped"}]
  BY DEF InOrder
<1>3. \A p \in Pipelines : decode'[p] = "unused" <=> decode[p] = "unused" /\ p # Fresh
  BY DEF InOrder
<1>4. Opened' = Opened \cup {Fresh}
  BY <1>1, <1>3 DEF Opened
<1>5. \E n \in 0..MaxPipelines : \A p \in Pipelines : decode'[p] = "unused" <=> p > n
  <2>1. /\ Fresh \in 0..MaxPipelines
        /\ \A p \in Pipelines : decode[p] = "unused" => Fresh <= p
        /\ \A p \in Pipelines : decode[p] # "unused" => p < Fresh
    BY FreshIsNewest, GaplessAssumption DEF Opened, Pipelines
  <2>2. \A p \in Pipelines : decode'[p] = "unused" <=> p > Fresh
    BY <1>3, <2>1, GaplessAssumption DEF Pipelines
  <2>3. QED
    BY <2>1, <2>2
<1>6. QED
  BY <1>1, <1>2, <1>4, <1>5 DEF InOrder

(* Nothing is opened: what was opened stays so.                            *)
LEMMA CancellingKeepsOrder ==
  ASSUME InOrder, NEW gone, CancelAndOpen(gone, {})
  PROVE  InOrder' /\ Opened' = Opened
<1> USE DEF CancelAndOpen, Decoding
<1>1. decode' \in [Pipelines -> {"unused", "filling", "buffered", "finished",
                                 "drained", "stopped"}]
  BY DEF InOrder
<1>2. \A p \in Pipelines : decode'[p] = "unused" <=> decode[p] = "unused"
  BY DEF InOrder
<1>3. QED
  BY <1>1, <1>2 DEF InOrder, Opened

(* A thread that decodes, fails or ends, and a queue that drains, open     *)
(* nothing.                                                                *)
LEMMA DecodingKeepsOrder ==
  ASSUME InOrder, NEW p \in Opened, NEW at \in {"buffered", "finished", "drained", "stopped"},
         decode' = [decode EXCEPT ![p] = at]
  PROVE  InOrder' /\ Opened' = Opened
<1>1. decode' \in [Pipelines -> {"unused", "filling", "buffered", "finished",
                                 "drained", "stopped"}]
  BY DEF InOrder, Opened
<1>2. \A q \in Pipelines : decode'[q] = "unused" <=> decode[q] = "unused"
  BY DEF InOrder, Opened
<1>3. QED
  BY <1>1, <1>2 DEF InOrder, Opened

-----------------------------------------------------------------------------
(* The channel.                                                            *)

(* An event that is true may be sent, and the rest stay true.              *)
LEMMA SendingIsTrue ==
  ASSUME NEW reported, NEW more, reported \subseteq more,
         inbox \in Seq(Events(reported)), NEW event \in Events(more)
  PROVE  Append(inbox, event) \in Seq(Events(more)) /\ inbox \in Seq(Events(more))
<1>1. Events(reported) \subseteq Events(more)
  BY DEF Events
<1>2. inbox \in Seq(Events(more))
  BY <1>1, SeqMonotonic
<1>3. QED
  BY <1>2, AppendProperties

(* The event taken is true.                                                *)
LEMMA ReceivingIsTrue ==
  ASSUME NEW reported, reported \subseteq Pipelines, inbox \in Seq(Events(reported)),
         inbox # <<>>
  PROVE  /\ Tail(inbox) \in Seq(Events(reported))
         /\ Head(inbox).of \in Pipelines
         /\ Head(inbox).kind = "final" => Head(inbox).of \in reported
<1>1. Tail(inbox) \in Seq(Events(reported)) /\ Head(inbox) \in Events(reported)
  BY HeadTailProperties
<1>2. QED
  BY <1>1 DEF Events

-----------------------------------------------------------------------------
(* The steps.                                                              *)

(* The initial states satisfy the inductive invariant.                     *)
LEMMA InitIInv == Init => IInv
<1> SUFFICES ASSUME Init PROVE IInv
  OBVIOUS
<1> USE GaplessAssumption DEF Init, NoPrefetch, NoChain
<1>1. Values
  BY EmptySeq DEF Values
<1>2. InOrder
  BY DEF InOrder, Pipelines
<1>3. Holders
  BY DEF Holders, Held, Prefetches, ChainsOf
<1>4. Transport /\ EndIsOfTheLoaded
  BY DEF Transport, EndIsOfTheLoaded
<1>5. Order
  BY DEF Order, Leads, NoPipeline
<1>6. QED
  BY <1>1, <1>2, <1>3, <1>4, <1>5 DEF IInv

(* A step that leaves the worker, the slots and the callback alone keeps   *)
(* what is said of them.                                                   *)
LEMMA Elsewhere ==
  ASSUME IInv, Opened \subseteq Opened', ended \subseteq ended',
         UNCHANGED <<workerVars, unchain, slotVars, callbackVars>>
  PROVE  Holders' /\ Transport' /\ Order' /\ EndIsOfTheLoaded'
<1> USE DEF IInv, workerVars, slotVars, callbackVars
<1>1. Holders'
  BY DEF Holders, Held, Prefetches, ChainsOf
<1>2. Transport' /\ EndIsOfTheLoaded'
  BY DEF Transport, EndIsOfTheLoaded
<1>3. Order'
  BY DEF Order, Leads
<1>4. QED
  BY <1>1, <1>2, <1>3

(* A start discards all that was there.                                    *)
LEMMA StartIsClean ==
  ASSUME IInv, BeginStart, Values', ~unchain'
  PROVE  IInv'
<1> USE DEF IInv, BeginStart, DropStream, NoPrefetch, NoChain
<1>1. /\ InOrder' /\ Opened' = Opened \cup {Fresh} /\ Fresh \in Pipelines
  BY OpeningKeepsOrder
<1>2. Holders'
  BY <1>1, GaplessAssumption DEF Holders, Held, Prefetches, ChainsOf
<1>3. Transport' /\ EndIsOfTheLoaded'
  BY DEF Transport, EndIsOfTheLoaded
<1>4. Order'
  BY DEF Order, Leads, NoPipeline
<1>5. QED
  BY <1>1, <1>2, <1>3, <1>4

(* A stop too.                                                             *)
LEMMA StopIsClean ==
  ASSUME IInv, Stop, Values', ~unchain'
  PROVE  IInv'
<1> USE DEF IInv, Stop, DropStream, NoPrefetch, NoChain
<1>1. InOrder' /\ Opened' = Opened
  BY CancellingKeepsOrder
<1>2. Holders'
  BY <1>1, GaplessAssumption DEF Holders, Held, Prefetches, ChainsOf
<1>3. Transport' /\ EndIsOfTheLoaded'
  BY DEF Transport, EndIsOfTheLoaded
<1>4. Order'
  BY DEF Order, Leads, NoPipeline
<1>5. QED
  BY <1>1, <1>2, <1>3, <1>4

(* The decode threads.                                                     *)
LEMMA DecodeSteps ==
  ASSUME IInv, NEW p \in Pipelines, Prebuffer(p) \/ FinishDecoding(p) \/ FailDecoding(p)
  PROVE  IInv'
<1> USE DEF IInv, Prebuffer, FinishDecoding, FailDecoding, Decoding
<1>1. InOrder' /\ Opened' = Opened
  <2>1. p \in Opened
    BY DEF Opened
  <2>2. QED
    BY <2>1, DecodingKeepsOrder
<1>2. Values'
  <2>1. inbox' \in Seq(Events(ended))
    <3>1. [kind |-> "ready", of |-> p] \in Events(ended)
          /\ [kind |-> "failed", of |-> p] \in Events(ended)
      BY DEF Events
    <3>2. QED
      BY <3>1, SendingIsTrue DEF Values
  <2>2. QED
    BY <2>1 DEF Values, workerVars, slotVars, callbackVars, clockVars
<1>3. Holders' /\ Transport' /\ Order' /\ EndIsOfTheLoaded'
  BY <1>1, Elsewhere DEF clockVars
<1>4. QED
  BY <1>1, <1>2, <1>3

(* The callback takes the queue handed over.                               *)
LEMMA HandoffStep ==
  ASSUME IInv, TakeHandoff
  PROVE  IInv'
<1> USE DEF IInv, TakeHandoff, workerVars, clockVars
<1>1. InOrder' /\ Opened' = Opened
  BY DEF InOrder, Opened
<1>2. Values'
  BY DEF Values
<1>3. Holders'
  BY <1>1 DEF Holders, Held, Prefetches, ChainsOf
<1>4. Transport' /\ EndIsOfTheLoaded'
  BY DEF Transport, EndIsOfTheLoaded
<1>5. Order'
  BY DEF Order, Leads, Holders, Held, Opened, Pipelines, NoPipeline, Transport
<1>6. QED
  BY <1>1, <1>2, <1>3, <1>4, <1>5

(* The callback takes the chain, or voids it.                              *)
LEMMA ChainStep ==
  ASSUME IInv, TakeChain
  PROVE  IInv'
<1> USE DEF IInv, TakeChain, workerVars, clockVars, NoChain
<1>1. InOrder' /\ Opened' = Opened
  BY DEF InOrder, Opened
<1>2. Values'
  BY DEF Values
<1>3. Holders'
  BY <1>1 DEF Holders, Held, Prefetches, ChainsOf
<1>4. Transport' /\ EndIsOfTheLoaded'
  BY DEF Transport, EndIsOfTheLoaded
<1>5. Order'
  <2>1. Leads(NoChain) /\ (handoff # NoPipeline => 0 < handoff)
        /\ (seek # NoPipeline => 0 < seek)
    BY DEF Leads, Holders, Held, Opened, Pipelines, NoPipeline
  <2>2. QED
    BY <2>1 DEF Order, Leads, NoPipeline
<1>6. QED
  BY <1>1, <1>2, <1>3, <1>4, <1>5

(* The callback plays, and moves on to the chained queue, which is newer.  *)
LEMMA PassStep ==
  ASSUME IInv, NEW took \in BOOLEAN, NEW drains \in BOOLEAN, NEW full \in BOOLEAN,
         Pass(took, drains, full)
  PROVE  IInv'
<1> USE DEF IInv, Pass, workerVars, slotVars
<1>1. playing \in Opened /\ stream \in Opened
  BY DEF Transport, Holders, Held
<1>2. InOrder' /\ Opened' = Opened
  <2>1. CASE drains
    BY <2>1, <1>1, DecodingKeepsOrder
  <2>2. CASE ~drains
    BY <2>2 DEF InOrder, Opened
  <2>3. QED
    BY <2>1, <2>2
<1>3. Values'
  <2>1. /\ inbox' = inbox /\ ended' = ended
        \/ Report(timed \/ took)
    BY Zenon
  <2>2. ended' \subseteq Pipelines /\ ended \subseteq ended' /\ inbox' \in Seq(Events(ended'))
    <3>1. CASE inbox' = inbox /\ ended' = ended
      BY <3>1 DEF Values
    <3>2. CASE Report(timed \/ took)
      <4>1. [kind |-> "final", of |-> playing] \in Events(ended \cup {playing})
            /\ [kind |-> "untimed", of |-> stream] \in Events(ended)
        BY <1>1 DEF Events, Opened
      <4>2. QED
        BY <4>1, <3>2, <1>1, SendingIsTrue DEF Report, Values, Opened
    <3>3. QED
      BY <2>1, <3>1, <3>2
  <2>3. step' \in {"idle", "chain", "play"} /\ timed' \in BOOLEAN
    BY DEF Values
  <2>4. QED
    BY <2>2, <2>3 DEF Values
<1>4. \/ playing' = playing /\ chained' = chained
      \/ playing' = chained.next /\ chained' = NoChain /\ chained # NoChain
  BY Zenon
<1>5. Holders'
  BY <1>2, <1>4 DEF Holders, Held, Prefetches, ChainsOf, NoChain
<1>6. Order'
  BY <1>4 DEF Order, Leads, Holders, Held, ChainsOf, Opened, Pipelines, NoPipeline, NoChain
<1>7. Transport' /\ EndIsOfTheLoaded'
  BY <1>4 DEF Transport, EndIsOfTheLoaded, Order, Leads, Holders, Held, ChainsOf,
              Opened, Pipelines, NoPipeline, NoChain, Report
<1>8. QED
  BY <1>2, <1>3, <1>5, <1>6, <1>7

(* A start that has prebuffered.                                           *)
LEMMA FinishStartStep ==
  ASSUME IInv, loading # NoPipeline, FinishStart, Values', ended \subseteq ended'
  PROVE  IInv'
<1> USE DEF IInv, FinishStart, slotVars
<1>1. InOrder' /\ Opened' = Opened
  BY DEF InOrder, Opened
<1>2. Holders'
  BY <1>1 DEF Holders, Held, Prefetches, ChainsOf
<1>3. Transport' /\ EndIsOfTheLoaded'
  BY DEF Transport, EndIsOfTheLoaded
<1>4. Order'
  BY DEF Order, Leads, Transport, Holders, Held, Opened, Pipelines, NoPipeline, NoChain
<1>5. QED
  BY <1>1, <1>2, <1>3, <1>4

(* A seek that has prebuffered: its queue is handed over ...               *)
LEMMA SwitchStep ==
  ASSUME IInv, ~unchain, seek # NoPipeline, SwitchQueue, Values', ended \subseteq ended'
  PROVE  IInv'
<1> USE DEF IInv, SwitchQueue, workerVars, callbackVars
<1>1. InOrder' /\ Opened' = Opened
  BY DEF InOrder, Opened
<1>2. Holders'
  BY <1>1 DEF Holders, Held, Prefetches, ChainsOf
<1>3. Transport' /\ EndIsOfTheLoaded'
  BY DEF Transport, EndIsOfTheLoaded
<1>4. Order'
  BY DEF Order, Leads, Transport
<1>5. QED
  BY <1>1, <1>2, <1>3, <1>4

(* ... and replaces that of the loaded track.                              *)
LEMMA FinishSwitchStep ==
  ASSUME IInv, FinishSwitch
  PROVE  IInv'
<1> USE DEF IInv, FinishSwitch, callbackVars, clockVars, WriteChain, NoChain
<1>1. InOrder' /\ Opened' = Opened
  BY CancellingKeepsOrder
<1>2. Values'
  BY DEF Values
<1>3. Holders'
  BY <1>1 DEF Holders, Held, Prefetches, ChainsOf
<1>4. Transport' /\ EndIsOfTheLoaded'
  BY DEF Transport, EndIsOfTheLoaded
<1>5. Order'
  BY DEF Order, Leads, Transport, Holders, Held, Opened, Pipelines, NoPipeline
<1>6. QED
  BY <1>1, <1>2, <1>3, <1>4, <1>5

(* The worker handles an event.                                            *)
LEMMA EventStep ==
  ASSUME IInv, HandleEvent
  PROVE  IInv'
<1> USE DEF IInv, HandleEvent, WorkerFree, clockVars
<1> DEFINE p == Head(inbox).of
<1>1. /\ p \in Pipelines /\ inbox' \in Seq(Events(ended'))
      /\ Head(inbox).kind = "final" => p \in ended
      /\ ended' = ended /\ past' = past /\ p # NoPipeline
  <2>1. inbox # <<>> /\ inbox' = Tail(inbox) /\ ended' = ended /\ past' = past
    OBVIOUS
  <2>2. ended \subseteq Pipelines /\ inbox \in Seq(Events(ended))
    BY DEF Values
  <2>3. p \in Pipelines /\ Tail(inbox) \in Seq(Events(ended))
        /\ (Head(inbox).kind = "final" => p \in ended)
    BY ONLY <2>1, <2>2, ReceivingIsTrue
  <2>4. QED
    BY ONLY <2>1, <2>3, GaplessAssumption DEF Pipelines, NoPipeline
<1> HIDE DEF p
<1>2. CASE PrebufferReady(p)
  <2>1. CASE p = loading /\ FinishStart
    <3>1. Values'
      BY <1>1, <2>1 DEF Values, FinishStart, slotVars
    <3>2. QED
      BY <1>1, <2>1, <3>1, FinishStartStep
  <2>2. CASE p = seek /\ SwitchQueue
    <3>1. Values'
      BY <1>1, <2>2 DEF Values, SwitchQueue, workerVars, callbackVars
    <3>2. QED
      BY <1>1, <2>2, <3>1, SwitchStep
  <2>3. CASE Ignore
    <3>1. Values' /\ InOrder' /\ Opened' = Opened
      BY <1>1, <2>3 DEF Values, InOrder, Opened, Ignore, workerVars, callbackVars, slotVars
    <3>2. QED
      BY <2>3, <3>1, Elsewhere DEF Ignore
  <2>4. QED
    BY <1>2, <2>1, <2>2, <2>3 DEF PrebufferReady
<1>3. CASE DecodeStopped(p)
  <2>1. CASE AdvanceAfterTrack /\ UNCHANGED unchain
    <3>1. Values'
      BY <1>1, <2>1 DEF Values, AdvanceAfterTrack, BeginStart, Stop, DropStream
    <3>2. QED
      BY <2>1, <3>1, StartIsClean, StopIsClean DEF AdvanceAfterTrack
  <2>2. CASE /\ seek' = NoPipeline
             /\ UNCHANGED <<upNext, loading, loaded, ending, paused, prefetch, unchain,
                            decode, slotVars, callbackVars>>
    <3> USE DEF slotVars, callbackVars
    <3>1. Values' /\ InOrder' /\ Opened' = Opened
      BY <1>1, <2>2 DEF Values, InOrder, Opened
    <3>2. Holders' /\ Transport' /\ EndIsOfTheLoaded'
      BY <2>2, <3>1, <1>1 DEF Holders, Held, Prefetches, ChainsOf, Transport,
                              EndIsOfTheLoaded
    <3>3. Order'
      BY <2>2 DEF Order, Leads
    <3>4. QED
      BY <3>1, <3>2, <3>3
  <2>3. CASE /\ p = prefetch.pipeline
             /\ WriteChain(NoChain)
             /\ prefetch' = [NoPrefetch EXCEPT !.state = "unusable",
                                               !.entry = prefetch.entry]
             /\ UNCHANGED <<upNext, loading, loaded, ending, paused, seek, unchain,
                            decode, handoff, callbackVars>>
    <3> USE DEF callbackVars, WriteChain, NoPrefetch, NoChain
    <3>1. Values' /\ InOrder' /\ Opened' = Opened
      BY <1>1, <2>3 DEF Values, InOrder, Opened
    <3>2. Holders'
      BY <2>3, <3>1 DEF Holders, Held, Prefetches, ChainsOf
    <3>3. Transport' /\ EndIsOfTheLoaded'
      BY <1>1, <2>3 DEF Transport, EndIsOfTheLoaded
    <3>4. Order'
      BY <2>3 DEF Order, Leads, Holders, Held, Opened, Pipelines, NoPipeline
    <3>5. QED
      BY <3>1, <3>2, <3>3, <3>4
  <2>4. CASE Ignore
    <3>1. Values' /\ InOrder' /\ Opened' = Opened
      BY <1>1, <2>4 DEF Values, InOrder, Opened, Ignore, workerVars, callbackVars, slotVars
    <3>2. QED
      BY <2>4, <3>1, Elsewhere DEF Ignore
  <2>5. QED
    BY <1>3, <2>1, <2>2, <2>3, <2>4 DEF DecodeStopped
<1>4. CASE Head(inbox).kind = "final" /\ FinalFrames(p)
  <2> USE DEF FinalFrames, slotVars, callbackVars
  <2>1. Values' /\ InOrder' /\ Opened' = Opened
    BY <1>1, <1>4 DEF Values, InOrder, Opened
  <2>2. Holders'
    BY <1>4, <2>1 DEF Holders, Held, Prefetches, ChainsOf
  <2>3. Transport' /\ EndIsOfTheLoaded'
    BY <1>1, <1>4 DEF Transport, EndIsOfTheLoaded, Holders, Prefetches
  <2>4. Order'
    BY <1>4 DEF Order, Leads, Holders, Prefetches
  <2>5. QED
    BY <2>1, <2>2, <2>3, <2>4
<1>5. CASE StreamFailed(p)
  <2>1. CASE Stop /\ UNCHANGED unchain
    <3>1. Values'
      BY <1>1, <2>1 DEF Values, Stop, DropStream
    <3>2. QED
      BY <2>1, <3>1, StopIsClean
  <2>2. CASE Ignore
    <3>1. Values' /\ InOrder' /\ Opened' = Opened
      BY <1>1, <2>2 DEF Values, InOrder, Opened, Ignore, workerVars, callbackVars, slotVars
    <3>2. QED
      BY <2>2, <3>1, Elsewhere DEF Ignore
  <2>3. QED
    BY <1>5, <2>1, <2>2 DEF StreamFailed
<1>6. QED
  BY <1>2, <1>3, <1>4, <1>5 DEF p

(* The file of the prefetch is open: its queue is chained to the loaded    *)
(* track's.                                                                *)
LEMMA PrefetchStep ==
  ASSUME IInv, PrefetchLoaded
  PROVE  IInv'
<1> USE DEF IInv, PrefetchLoaded, WorkerFree, KeepStream, KeepSlots, callbackVars,
            clockVars, WriteChain
<1>1. CASE /\ CanOpen
           /\ CancelAndOpen({}, {Fresh})
           /\ WriteChain([after |-> loaded, next |-> Fresh])
           /\ prefetch' = [prefetch EXCEPT !.state = "ready", !.pipeline = Fresh]
  <2>1. InOrder' /\ Opened' = Opened \cup {Fresh} /\ Fresh \in Pipelines
    BY <1>1, OpeningKeepsOrder
  <2>2. Fresh # NoPipeline /\ loaded < Fresh /\ loaded # NoPipeline
    BY <1>1, FreshIsNewest DEF Holders, Held, Pipelines, NoPipeline, Transport
  <2>3. Values'
    BY <1>1 DEF Values
  <2>4. /\ prefetch'.state = "ready" /\ prefetch'.pipeline = Fresh
        /\ prefetch'.ending = FALSE /\ prefetch'.entry = prefetch.entry
        /\ prefetch' \in Prefetches(Held')
    BY <1>1, <2>1 DEF Holders, Held, Prefetches, Transport
  <2>5. Holders'
    BY <1>1, <2>1, <2>4 DEF Holders, Held, ChainsOf
  <2>6. Transport' /\ EndIsOfTheLoaded'
    BY <1>1, <2>2, <2>4 DEF Transport, EndIsOfTheLoaded
  <2>7. Order'
    BY <1>1, <2>2, <2>4 DEF Order, Leads, Transport
  <2>8. QED
    BY <2>1, <2>3, <2>5, <2>6, <2>7
<1>2. CASE prefetch' = [prefetch EXCEPT !.state = "unusable"] /\ KeepSlots /\ UNCHANGED decode
  <2>1. Values' /\ InOrder' /\ Opened' = Opened
    BY <1>2 DEF Values, InOrder, Opened
  <2>2. Holders'
    BY <1>2, <2>1 DEF Holders, Held, Prefetches, ChainsOf
  <2>3. Transport' /\ EndIsOfTheLoaded'
    BY <1>2 DEF Transport, EndIsOfTheLoaded, Holders, Prefetches
  <2>4. Order'
    BY <1>2 DEF Order, Leads, Holders, Prefetches
  <2>5. QED
    BY <2>1, <2>2, <2>3, <2>4
<1>3. QED
  BY <1>1, <1>2

(* What a prefetch that is only being opened looks like.                   *)
LEMMA OpeningHoldsNothing ==
  ASSUME NEW entry \in Entries \cup {NoEntry}, NEW new \in Opening(entry), NEW held,
         NoPipeline \in held
  PROVE  /\ new \in Prefetches(held) /\ new.pipeline = NoPipeline
         /\ new.state # "ready" /\ new.ending = FALSE
<1>1. CASE new = NoPrefetch
  BY <1>1 DEF NoPrefetch, Prefetches
<1>2. CASE new \in [state : {"source", "unusable"}, entry : {entry},
                   pipeline : {NoPipeline}, ending : {FALSE}]
  BY <1>2 DEF Prefetches
<1>3. QED
  BY <1>1, <1>2, Zenon DEF Opening

(* The worker's deadline: it adopts the prefetch, starts the next track,   *)
(* stops, or begins to prefetch.                                           *)
LEMMA TickStep ==
  ASSUME IInv, Tick
  PROVE  IInv'
<1> USE DEF IInv, Tick, WorkerFree, clockVars
<1>1. CASE Due /\ Adoptable /\ AdoptPrefetched
  <2> USE DEF AdoptPrefetched, Adoptable, KeepStream, KeepSlots, callbackVars
  <2>1. InOrder' /\ Opened' = Opened
    BY <1>1, CancellingKeepsOrder
  <2>2. /\ prefetch' \in Prefetches(Held') /\ prefetch'.pipeline = NoPipeline
        /\ prefetch'.state # "ready" /\ prefetch'.ending = FALSE
    BY <1>1, OpeningHoldsNothing DEF Held
  <2>3. Values'
    BY <1>1 DEF Values, Holders, Prefetches
  <2>4. Holders'
    BY <1>1, <2>1, <2>2 DEF Holders, Held, Prefetches, ChainsOf
  <2>5. Transport' /\ EndIsOfTheLoaded'
    BY <1>1, <2>2 DEF Transport, EndIsOfTheLoaded
  <2>6. Order'
    BY <1>1, <2>2 DEF Order, Leads, Transport, Holders, Held, Prefetches, Opened,
                      Pipelines, NoPipeline
  <2>7. QED
    BY <2>1, <2>3, <2>4, <2>5, <2>6
<1>2. CASE AdvanceAfterTrack /\ UNCHANGED unchain
  <2>1. Values'
    BY <1>2 DEF Values, AdvanceAfterTrack, BeginStart, Stop, DropStream
  <2>2. QED
    BY <1>2, <2>1, StartIsClean, StopIsClean DEF AdvanceAfterTrack
<1>3. CASE /\ prefetch.state = "none" /\ seek = NoPipeline
           /\ prefetch' \in Opening(upNext)
           /\ UNCHANGED <<upNext, loading, loaded, ending, paused, seek, unchain, decode,
                          slotVars, callbackVars>>
  <2> USE DEF slotVars, callbackVars
  <2>1. Values' /\ InOrder' /\ Opened' = Opened
    BY <1>3 DEF Values, InOrder, Opened
  <2>2. /\ prefetch' \in Prefetches(Held') /\ prefetch'.pipeline = NoPipeline
        /\ prefetch'.state # "ready" /\ prefetch'.ending = FALSE
    BY <1>3, OpeningHoldsNothing DEF Held, Values
  <2>3. Holders'
    BY <1>3, <2>1, <2>2 DEF Holders, Held, ChainsOf
  <2>4. Transport' /\ EndIsOfTheLoaded'
    BY <1>3, <2>2 DEF Transport, EndIsOfTheLoaded
  <2>5. Order'
    BY <1>3, <2>2 DEF Order, Leads
  <2>6. QED
    BY <2>1, <2>3, <2>4, <2>5
<1>4. QED
  BY <1>1, <1>2, <1>3

(* The commands.                                                           *)

(* What plays next changes: a prefetch of something else is withdrawn.     *)
LEMMA EditStep ==
  ASSUME IInv, NEW entry \in Entries \cup {NoEntry}, EditQueue(entry)
  PROVE  IInv'
<1> USE DEF IInv, EditQueue, Command, WorkerFree, KeepStream, callbackVars, clockVars
<1>1. CASE /\ CancelAndOpen({prefetch.pipeline}, {})
           /\ Withdraw /\ prefetch' = NoPrefetch
  <2> USE DEF Withdraw, WriteChain, KeepSlots, NoPrefetch, NoChain
  <2>1. InOrder' /\ Opened' = Opened
    BY <1>1, CancellingKeepsOrder
  <2>2. Values'
    BY <1>1 DEF Values
  <2>3. Holders'
    BY <1>1, <2>1 DEF Holders, Held, Prefetches, ChainsOf
  <2>4. Transport' /\ EndIsOfTheLoaded'
    BY <1>1 DEF Transport, EndIsOfTheLoaded
  <2>5. Order'
    BY <1>1 DEF Order, Leads, Holders, Held, Opened, Pipelines, NoPipeline
  <2>6. QED
    BY <2>1, <2>2, <2>3, <2>4, <2>5
<1>2. CASE KeepSlots /\ UNCHANGED <<prefetch, decode>>
  <2> USE DEF KeepSlots
  <2>1. Values' /\ InOrder' /\ Opened' = Opened
    BY <1>2 DEF Values, InOrder, Opened
  <2>2. Holders'
    BY <1>2, <2>1 DEF Holders, Held, Prefetches, ChainsOf
  <2>3. Transport' /\ EndIsOfTheLoaded'
    BY <1>2 DEF Transport, EndIsOfTheLoaded
  <2>4. Order'
    BY <1>2 DEF Order, Leads
  <2>5. QED
    BY <2>1, <2>2, <2>3, <2>4
<1>3. QED
  BY <1>1, <1>2

(* A seek withdraws what was chained and opens its own pipeline, or goes   *)
(* to the end of the track.                                                *)
LEMMA SeekStep ==
  ASSUME IInv, Seek
  PROVE  IInv'
<1> USE DEF IInv, Seek, Command, WorkerFree, clockVars
<1>1. CASE AdvanceAfterTrack
  <2>1. Values'
    BY <1>1 DEF Values, AdvanceAfterTrack, BeginStart, Stop, DropStream
  <2>2. QED
    BY <1>1, <2>1, StartIsClean, StopIsClean DEF AdvanceAfterTrack
<1>2. CASE /\ \/ CanOpen /\ CancelAndOpen({seek, prefetch.pipeline}, {Fresh}) /\ seek' = Fresh
              \/ CancelAndOpen({seek, prefetch.pipeline}, {}) /\ seek' = NoPipeline
           /\ Withdraw /\ prefetch' = NoPrefetch /\ KeepStream
           /\ UNCHANGED <<upNext, loading, loaded, ending, paused>>
  <2> USE DEF Withdraw, WriteChain, KeepSlots, KeepStream, callbackVars, NoPrefetch, NoChain
  <2>1. /\ InOrder' /\ Opened \subseteq Opened' /\ seek' \in Opened' \cup {NoPipeline}
        /\ seek' # NoPipeline => \A q \in Opened : q < seek'
    <3>1. CASE CanOpen /\ CancelAndOpen({seek, prefetch.pipeline}, {Fresh}) /\ seek' = Fresh
      BY <3>1, FreshIsNewest, OpeningKeepsOrder
    <3>2. CASE CancelAndOpen({seek, prefetch.pipeline}, {}) /\ seek' = NoPipeline
      BY <3>2, CancellingKeepsOrder
    <3>3. QED
      BY <1>2, <3>1, <3>2
  <2>2. seek' # NoPipeline =>
          loaded < seek' /\ playing < seek' /\ chained.next < seek' /\ chainSlot.next < seek'
          /\ 0 < seek'
    BY <2>1 DEF Holders, Held, ChainsOf, InOrder, Opened, Pipelines, NoPipeline
  <2>3. Values'
    BY <1>2 DEF Values
  <2>4. Holders'
    BY <1>2, <2>1 DEF Holders, Held, Prefetches, ChainsOf
  <2>5. Transport' /\ EndIsOfTheLoaded'
    BY <1>2 DEF Transport, EndIsOfTheLoaded
  <2>6. Order'
    BY <1>2, <2>2 DEF Order, Leads, Holders, Held, Opened, Pipelines, NoPipeline
  <2>7. QED
    BY <2>1, <2>3, <2>4, <2>5, <2>6
<1>3. QED
  BY <1>1, <1>2

(* Every step preserves the inductive invariant.                           *)
LEMMA NextIInv == IInv /\ [Next]_vars => IInv'
<1> SUFFICES ASSUME IInv, [Next]_vars PROVE IInv'
  OBVIOUS
<1>1. ASSUME NEW p \in Pipelines, Prebuffer(p) \/ FinishDecoding(p) \/ FailDecoding(p)
      PROVE  IInv'
  BY <1>1, DecodeSteps
<1>2. CASE Callback
  BY <1>2, HandoffStep, ChainStep, PassStep DEF Callback
<1>3. ASSUME NEW p \in ended, ClockPasses(p)
      PROVE  IInv'
  <2> USE DEF IInv, ClockPasses
  <2>1. Values' /\ InOrder' /\ Opened' = Opened /\ ended' = ended
    BY <1>3 DEF Values, InOrder, Opened, workerVars, slotVars, callbackVars
  <2>2. QED
    BY <1>3, <2>1, Elsewhere
<1>4. CASE HandleEvent \/ FinishSwitch \/ PrefetchLoaded \/ Tick
  BY <1>4, EventStep, FinishSwitchStep, PrefetchStep, TickStep
<1>5. ASSUME NEW entry \in Entries \cup {NoEntry}, EditQueue(entry)
      PROVE  IInv'
  BY <1>5, EditStep
<1>6. CASE Seek
  BY <1>6, SeekStep
<1>7. CASE StartOther
  <2>1. Values'
    BY <1>7 DEF IInv, Values, StartOther, Command, WorkerFree, clockVars, BeginStart,
                DropStream
  <2>2. QED
    BY <1>7, <2>1, StartIsClean DEF StartOther, Command, WorkerFree
<1>8. CASE PauseOrResume
  <2> USE DEF IInv, PauseOrResume, Command, WorkerFree, KeepSlots, KeepStream,
              callbackVars, clockVars
  <2>1. Values' /\ InOrder' /\ Opened' = Opened
    BY <1>8 DEF Values, InOrder, Opened
  <2>2. Holders'
    BY <1>8, <2>1 DEF Holders, Held, Prefetches, ChainsOf
  <2>3. Transport' /\ EndIsOfTheLoaded' /\ Order'
    BY <1>8 DEF Transport, EndIsOfTheLoaded, Order, Leads
  <2>4. QED
    BY <2>1, <2>2, <2>3
<1>9. CASE UNCHANGED vars
  <2> USE DEF IInv, vars, clockVars
  <2>1. Values' /\ InOrder' /\ Opened' = Opened
    BY <1>9 DEF Values, InOrder, Opened, workerVars, slotVars, callbackVars
  <2>2. QED
    BY <1>9, <2>1, Elsewhere
<1>10. QED
  BY <1>1, <1>2, <1>3, <1>4, <1>5, <1>6, <1>7, <1>8, <1>9 DEF Next

(* The inductive invariant holds in every reachable state.                 *)
LEMMA Inductive == Spec => []IInv
BY InitIInv, NextIInv, PTL DEF Spec

-----------------------------------------------------------------------------
(* The parts of the transport exclude each other as session.rs says: a     *)
(* prefetch or a seek belongs to a loaded track, and never both at once.   *)
THEOREM TypeCorrect == Spec => []TypeOK
<1>1. IInv => TypeOK
  BY DEF IInv, Values, Holders, Transport, TypeOK, Held, Opened, Prefetches, ChainsOf,
         Chains
<1>2. QED
  BY <1>1, Inductive, PTL

(* However ends, seeks, edits and adoptions follow each other, the worker  *)
(* takes no end for that of the loaded track but its own.                  *)
THEOREM EndsAreTheirOwn == Spec => []EndIsOfTheLoaded
<1>1. IInv => EndIsOfTheLoaded
  BY DEF IInv
<1>2. QED
  BY <1>1, Inductive, PTL

(* Within a stream the callback never returns to an older queue.           *)
LEMMA NewerQueues == IInv /\ [Next]_vars => (stream' = stream => playing' >= playing)
<1> SUFFICES ASSUME IInv, [Next]_vars, stream' = stream PROVE playing' >= playing
  OBVIOUS
<1>1. playing \in Nat
  BY DEF IInv, Holders, Held, Opened, Pipelines, NoPipeline
<1>2. CASE UNCHANGED callbackVars
  BY <1>1, <1>2 DEF callbackVars
<1>3. CASE TakeHandoff
  BY <1>1, <1>3 DEF TakeHandoff, IInv, Order, Holders, Held, Opened, Pipelines, NoPipeline
<1>4. CASE TakeChain
  BY <1>1, <1>4 DEF TakeChain
<1>5. ASSUME NEW took \in BOOLEAN, NEW drains \in BOOLEAN, NEW full \in BOOLEAN,
             Pass(took, drains, full)
      PROVE  playing' >= playing
  <2>1. playing' = playing \/ (playing' = chained.next /\ chained # NoChain)
    BY <1>5, Zenon DEF Pass
  <2>2. QED
    BY <1>1, <1>5, <2>1 DEF Pass, IInv, Order, Leads, Holders, Held, ChainsOf, Opened,
                            Pipelines, NoPipeline
<1>6. CASE DropStream
  BY <1>1, <1>6 DEF DropStream, IInv, Transport
<1>7. CASE FinishStart /\ loading # NoPipeline
  BY <1>7 DEF FinishStart, IInv, Transport
<1>8. CASE HandleEvent
  <2>1. Head(inbox).of # NoPipeline
    <3>1. inbox # <<>> /\ ended \subseteq Pipelines /\ inbox \in Seq(Events(ended))
      BY <1>8 DEF HandleEvent, IInv, Values
    <3>2. Head(inbox).of \in Pipelines
      BY ONLY <3>1, ReceivingIsTrue
    <3>3. QED
      BY <3>2 DEF Pipelines, NoPipeline
  <2>2. UNCHANGED callbackVars \/ DropStream \/ (FinishStart /\ loading # NoPipeline)
    BY <1>8, <2>1, Zenon
       DEF HandleEvent, PrebufferReady, SwitchQueue, Ignore, DecodeStopped,
           AdvanceAfterTrack, BeginStart, Stop, FinalFrames, StreamFailed
  <2>3. QED
    BY <2>2, <1>2, <1>6, <1>7
<1>9. CASE Tick \/ Seek \/ StartOther
  <2>1. UNCHANGED callbackVars \/ DropStream
    BY <1>9, Zenon
       DEF Tick, Seek, StartOther, AdoptPrefetched, AdvanceAfterTrack, BeginStart, Stop,
           KeepStream
  <2>2. QED
    BY <2>1, <1>2, <1>6
<1>10. ASSUME NEW p, Prebuffer(p) \/ FinishDecoding(p) \/ FailDecoding(p) \/ ClockPasses(p)
       PROVE  playing' >= playing
  BY <1>10, <1>2 DEF Prebuffer, FinishDecoding, FailDecoding, ClockPasses
<1>11. CASE FinishSwitch \/ PrefetchLoaded \/ PauseOrResume
  BY <1>11, <1>2 DEF FinishSwitch, PrefetchLoaded, PauseOrResume, KeepStream
<1>12. ASSUME NEW entry, EditQueue(entry)
       PROVE  playing' >= playing
  BY <1>12, <1>2 DEF EditQueue, KeepStream
<1>13. CASE UNCHANGED vars
  BY <1>13, <1>2 DEF vars
<1>14. QED
  BY <1>3, <1>4, <1>5, <1>8, <1>9, <1>10, <1>11, <1>12, <1>13 DEF Next, Callback

(* What a seek or an edit withdrew does not come back: within a stream the *)
(* callback never returns to a queue opened before the one it plays.       *)
THEOREM NothingReturns == Spec => OldQueuesNeverReturn
<1>1. IInv /\ [Next]_vars => [stream' = stream => playing' >= playing]_vars
  BY NewerQueues
<1>2. QED
  BY <1>1, Inductive, PTL DEF Spec, OldQueuesNeverReturn
=============================================================================
