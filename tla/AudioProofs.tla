---------------------------- MODULE AudioProofs ----------------------------
(***************************************************************************)
(* Proofs about what plays and what is shown of it.                        *)
(*                                                                         *)
(* The level meter (Meter.tla), for any streams, channels, sizes of rings  *)
(* and chunks and any number of subscriptions: the newest ring is kept,    *)
(* and what is measured was played, frame by frame.                        *)
(*                                                                         *)
(* The output stream (Output.tla), for any files, rates, buffers and       *)
(* commands of the worker: the position shown is not ahead of the sound by *)
(* more than the device buffers, a queue that follows is heard without a   *)
(* gap, and a file is played to its last frame, at any two rates.          *)
(*                                                                         *)
(* The waveforms (Waveforms.tla), for any files, threads, caches and       *)
(* loads: what is shown is of the playback that is loaded, and what is     *)
(* kept as exact is the whole file.                                        *)
(***************************************************************************)
EXTENDS Meter, Output, Waveforms, FiniteSetTheorems, WellFoundedInduction, SequenceTheorems, TLAPS

(* The thread and the tap are records of these fields, whatever is in      *)
(* those that do not matter here.                                          *)
AnyThread(t) ==
  /\ DOMAIN t = {"id", "run", "pc", "ring", "filled", "pending", "combined", "sent",
                 "shown", "open", "read"}
  /\ t.id \in Nat
AnyTap(t) ==
  /\ DOMAIN t = {"stream", "phase", "left", "next", "skipped", "split", "copying"}
  /\ t.stream \in Nat

(* A subscription is known by its number, and its thread lives as long as  *)
(* the session that joins it; the next one is launched after that.         *)
OneThread ==
  /\ clears \in Nat
  /\ Analysing => AnyThread(thread) /\ session = thread.id
  /\ hub.pc \in {"clearing", "launching"} => ~Analysing
  /\ hub.pc = "launching" => clears > 0

(* A thread that has parked its ring holds none.                           *)
ParkedOnce == Analysing /\ thread.pc \in {"leave", "ended"} => thread.ring = None

IInv ==
  /\ AnyTap(tap)
  /\ OneThread
  /\ ParkedOnce
  /\ NewestRingIsKept

USE DEF Analysing, NoThread

(* The initial states satisfy the inductive invariant.                     *)
LEMMA InitIInv == Init => IInv
BY MeterAssumption
   DEF Init, IInv, OneThread, ParkedOnce, NewestRingIsKept, Tap, AnyTap

(* A step that leaves the rings' places and the threads alone.             *)
LEMMA Elsewhere ==
  ASSUME IInv, AnyTap(tap'), tap'.stream = tap.stream,
         UNCHANGED <<slot, hub, session, thread, clears>>
  PROVE  IInv'
BY DEF IInv, OneThread, ParkedOnce, NewestRingIsKept

(* A new stream: its ring waits at once.                                   *)
LEMMA NewTapStep ==
  ASSUME IInv, NewTap
  PROVE  IInv'
<1>1. AnyTap(tap') /\ tap'.stream = tap.stream + 1 /\ slot' = tap.stream + 1
  BY DEF NewTap, Tap, IInv, AnyTap
<1>2. QED
  BY <1>1 DEF NewTap, IInv, OneThread, ParkedOnce, NewestRingIsKept

(* The callback copies from the stream it is of.                           *)
LEMMA CallbackStep ==
  ASSUME IInv, Callback
  PROVE  IInv'
<1>1. CASE ReadActive
  <2>1. AnyTap(tap') /\ tap'.stream = tap.stream
    BY <1>1 DEF ReadActive, IInv, AnyTap
  <2>2. QED
    BY <1>1, <2>1, Elsewhere DEF ReadActive
<1>2. CASE Push
  <2>1. AnyTap(tap') /\ tap'.stream = tap.stream
    BY <1>2 DEF Push, IInv, AnyTap
  <2>2. QED
    BY <1>2, <2>1, Elsewhere DEF Push
<1>3. QED
  BY <1>1, <1>2 DEF Callback

(* A step of the thread, which the hub waits for: what is left to show is  *)
(* where the newest ring is.                                               *)
LEMMA Turned ==
  ASSUME IInv, UNCHANGED <<tap, hub, session, clears>>,
         ~(hub.pc \in {"clearing", "launching"}),
         AnyThread(thread'), thread'.id = session,
         thread'.pc \in {"leave", "ended"} => thread'.ring = None,
         slot' = tap.stream \/ (slot' = None /\ Analysing' /\ thread'.ring = tap.stream)
  PROVE  IInv'
BY DEF IInv, OneThread, ParkedOnce, NewestRingIsKept, AnyTap

(* The thread takes, reads and parks a ring.                               *)
LEMMA AnalysisStep ==
  ASSUME IInv, Analysis
  PROVE  IInv'
<1>1. PICK t : t = thread /\ Analysing /\ AnyThread(t) /\ session = t.id /\ clears \in Nat
  BY DEF Analysis, Check, TakeSource, Read, Park, Leave, IInv, OneThread
<1>2. ~(hub.pc \in {"clearing", "launching"})
  BY <1>1 DEF IInv, OneThread
<1>3. CASE Check
  <2>1. AnyThread(thread') /\ thread'.id = t.id /\ thread'.ring = t.ring
        /\ thread'.pc \in {"take", "park"}
    BY <1>1, <1>3 DEF Check, AnyThread
  <2>2. QED
    BY <1>1, <1>2, <1>3, <2>1, Turned DEF Check, audio, IInv, NewestRingIsKept
<1>4. CASE TakeSource
  <2>1. /\ AnyThread(thread') /\ thread'.id = t.id /\ thread'.pc \in {"check", "read"}
        /\ slot = None => thread'.ring = t.ring
        /\ slot # None => thread'.ring = slot
    BY <1>1, <1>4 DEF TakeSource, AnyThread
  <2>2. QED
    BY <1>1, <1>2, <1>4, <2>1, Turned DEF TakeSource, audio, IInv, NewestRingIsKept
<1>5. CASE Read
  <2>1. AnyThread(thread') /\ thread'.id = t.id /\ thread'.ring = t.ring
        /\ thread'.pc = "check"
    BY <1>1, <1>5 DEF Read, AnyThread
  <2>2. QED
    BY <1>1, <1>2, <1>5, <2>1, Turned DEF Read, IInv, NewestRingIsKept
<1>6. CASE Park
  <2>1. /\ AnyThread(thread') /\ thread'.id = t.id /\ thread'.ring = None
        /\ slot' = IF t.ring = None \/ slot # None THEN slot ELSE t.ring
    BY <1>1, <1>6 DEF Park, Parked, AnyThread
  <2>2. slot' = tap.stream
    BY <1>1, <2>1, MeterAssumption DEF IInv, NewestRingIsKept, AnyTap
  <2>3. QED
    BY <1>1, <1>2, <1>6, <2>1, <2>2, Turned DEF Park, audio, IInv
<1>7. CASE Leave
  <2>1. /\ AnyThread(thread') /\ thread'.id = t.id /\ thread'.ring = t.ring
        /\ t.ring = None
    BY <1>1, <1>7 DEF Leave, AnyThread, IInv, ParkedOnce
  <2>2. QED
    BY <1>1, <1>2, <1>7, <2>1, Turned DEF Leave, audio, IInv, NewestRingIsKept
<1>8. QED
  BY <1>3, <1>4, <1>5, <1>6, <1>7 DEF Analysis

(* The hub ends one thread before it launches the next.                    *)
LEMMA HubStep ==
  ASSUME IInv, Hub
  PROVE  IInv'
<1>1. ASSUME NEW c \in commands, BeginCommand(c)
      PROVE  IInv'
  <2>1. /\ hub'.pc = "clearing" => session = None
        /\ hub'.pc # "launching"
    BY <1>1 DEF BeginCommand, Names
  <2>2. session = None => ~Analysing
    BY MeterAssumption DEF IInv, OneThread, AnyThread
  <2>3. QED
    BY <1>1, <2>1, <2>2
       DEF BeginCommand, audio, IInv, OneThread, ParkedOnce, NewestRingIsKept
<1>2. CASE Join
  <2>1. slot' = tap'.stream /\ ~Analysing' /\ hub'.pc # "launching"
        /\ AnyTap(tap') /\ clears' \in Nat
    BY <1>2 DEF Join, audio, IInv, OneThread, ParkedOnce, NewestRingIsKept, AnyTap
  <2>2. QED
    BY <2>1 DEF IInv, OneThread, ParkedOnce, NewestRingIsKept
<1>3. CASE Clear
  <2>1. ~Analysing' /\ slot' = tap'.stream /\ AnyTap(tap') /\ clears' \in Nat
        /\ clears' > 0
    BY <1>3 DEF Clear, IInv, OneThread, NewestRingIsKept, AnyTap
  <2>2. QED
    BY <2>1 DEF IInv, OneThread, ParkedOnce, NewestRingIsKept
<1>4. CASE Launch
  <2>1. slot' = tap'.stream /\ AnyTap(tap') /\ clears' \in Nat /\ session' = clears
    BY <1>4 DEF Launch, audio, IInv, OneThread, NewestRingIsKept, AnyTap
  <2>2. AnyThread(thread') /\ thread'.id = clears /\ thread'.pc = "check"
    BY <1>4 DEF Launch, Thread, AnyThread, IInv, OneThread
  <2>3. ~(hub'.pc \in {"clearing", "launching"})
    BY <1>4 DEF Launch
  <2>4. QED
    BY <2>1, <2>2, <2>3 DEF IInv, OneThread, ParkedOnce, NewestRingIsKept
<1>5. QED
  BY <1>1, <1>2, <1>3, <1>4 DEF Hub

(* Every step preserves the inductive invariant.                           *)
LEMMA NextIInv == IInv /\ [Next]_vars => IInv'
<1> SUFFICES ASSUME IInv, [Next]_vars PROVE IInv'
  OBVIOUS
<1>1. CASE NewTap \/ Callback \/ Analysis \/ Hub
  BY <1>1, NewTapStep, CallbackStep, AnalysisStep, HubStep
<1>0. AnyTap(tap)
  BY DEF IInv, AnyTap
<1>2. ASSUME NEW a \in answers, Answer(a)
      PROVE  IInv'
  BY <1>0, <1>2, Elsewhere DEF Answer, audio
<1>3. CASE Activate \/ Deactivate \/ Reload
  BY <1>0, <1>3, Elsewhere DEF Activate, Deactivate, Reload, audio
<1>4. CASE UNCHANGED vars
  BY <1>0, <1>4, Elsewhere DEF vars
<1>5. QED
  BY <1>1, <1>2, <1>3, <1>4 DEF Next, Replies

(* The ring of the newest stream is never lost, however streams are built  *)
(* while subscriptions come and go.                                        *)
THEOREM RingIsKept == Spec => []NewestRingIsKept
<1>1. IInv => NewestRingIsKept
  BY DEF IInv
<1>2. QED
  BY <1>1, InitIInv, NextIInv, PTL DEF Spec

-----------------------------------------------------------------------------
(* What is measured.                                                       *)

(* A sequence, of whatever.                                                *)
IsSeq(q) == \E S : q \in Seq(S)

(* The sample a stream of so many channels has at a place.                 *)
At(place, count) == [frame |-> place \div count, channel |-> place % count]

(* The left and the right of one frame.                                    *)
OneFrame(left, right) ==
  /\ left.frame = right.frame
  /\ left.channel = 0 /\ right.channel \in {0, 1}

(* Samples come in pairs.                                                  *)
Paired(q) ==
  \A i \in DOMAIN q : i % 2 = 1 =>
    /\ i + 1 \in DOMAIN q
    /\ q[i].whole /\ q[i + 1].whole => OneFrame(q[i].sample, q[i + 1].sample)

Since(q, begun) == \A i \in DOMAIN q : q[i].begun >= begun

(* The tap is within the frame where what it has copied ends, and has the  *)
(* sample before, unless others passed by.                                 *)
TapIsKnown ==
  LET count == Channels[tap.stream]
  IN /\ tap.stream \in Streams
     /\ tap.next \in Nat /\ tap.skipped \in Nat /\ tap.skipped <= tap.next
     /\ tap.phase = (tap.next - tap.skipped) % count
     /\ tap.copying # None => tap.next < MaxFrames * count
     /\ tap.split \/ tap.phase = 0 \/ tap.left = At(tap.next - 1, count)

RingsAreTrue ==
  /\ DOMAIN ring = Streams
  /\ \A s \in Streams :
       /\ IsSeq(ring[s]) /\ Len(ring[s]) <= RingSamples /\ Paired(ring[s])
       /\ s > tap.stream => ring[s] = <<>>

(* What waits for a subscription, or for the one about to be launched, is  *)
(* no older.                                                               *)
RingsAreNew ==
  /\ slot \in Streams \cup {None}
  /\ hub.pc = "launching" => Since(ring[tap.stream], clears)
  /\ Analysing =>
       /\ thread.id = clears
       /\ thread.ring \in Streams \cup {None}
       /\ thread.pc = "read" => thread.ring # None
       /\ \A s \in {slot, thread.ring} \ {None} : Since(ring[s], clears)

(* Between two frames the page has the one that was measured.              *)
Rests(t) ==
  /\ AnyThread(t)
  /\ t.combined \in BOOLEAN /\ t.shown = t.combined
  /\ t.pending = <<>> \/ \E loud \in BOOLEAN : t.pending = <<loud>>

ReadIsTrue ==
  Analysing =>
    /\ Rests(thread) /\ thread.filled \in Nat
    /\ IsSeq(thread.read) /\ Paired(thread.read) /\ Since(thread.read, clears)

Measured == IInv /\ TapIsKnown /\ RingsAreTrue /\ RingsAreNew /\ ReadIsTrue

-----------------------------------------------------------------------------
(* Places and frames.                                                      *)

LEMMA Division ==
  ASSUME NEW c \in Nat \ {0}, NEW a \in Nat
  PROVE  a \div c \in Nat /\ a % c \in 0..(c - 1) /\ a = c * (a \div c) + (a % c)
OBVIOUS

LEMMA Smaller ==
  ASSUME NEW c \in Nat \ {0}, NEW p \in Nat, NEW q \in Nat, p < q,
         NEW r \in 0..(c - 1), NEW s \in Nat
  PROVE  c * p + r < c * q + s
<1>1. q = p + (q - p) /\ q - p \in Nat /\ q - p >= 1
  OBVIOUS
<1>2. c * q = c * p + c * (q - p)
  BY <1>1
<1>3. c * (q - p) >= c
  BY <1>1
<1>4. c * p \in Nat /\ c * q \in Nat
  OBVIOUS
<1>5. QED
  BY <1>2, <1>3, <1>4

LEMMA Divided ==
  ASSUME NEW c \in Nat \ {0}, NEW q \in Nat, NEW r \in 0..(c - 1)
  PROVE  (c * q + r) \div c = q /\ (c * q + r) % c = r
<1> DEFINE a == c * q + r
<1>1. a \in Nat
  OBVIOUS
<1>2. PICK p \in Nat, s \in 0..(c - 1) : p = a \div c /\ s = a % c /\ a = c * p + s
  BY <1>1, Division
<1>3. p = q
  BY <1>2, Smaller
<1>4. QED
  BY <1>2, <1>3

(* A place is known by its frame and channel.                              *)
LEMMA AtPlace ==
  ASSUME NEW c \in Nat \ {0}, NEW q \in Nat, NEW r \in 0..(c - 1)
  PROVE  At(c * q + r, c) = [frame |-> q, channel |-> r]
<1>1. (c * q + r) \div c = q /\ (c * q + r) % c = r
  BY Divided
<1>2. QED
  BY <1>1 DEF At

-----------------------------------------------------------------------------
(* What is copied of a chunk.                                              *)

LEMMA Smallest ==
  ASSUME NEW T, T \subseteq Nat, T # {}
  PROVE  \E x \in T : \A y \in T : x <= y
<1>1. IsWellFoundedOn(OpToRel(<, Nat), Nat)
  BY NatLessThanWellFounded
<1>2. PICK x \in T : \A y \in T : <<y, x>> \notin OpToRel(<, Nat)
  BY <1>1, WFMin
<1>3. \A y \in T : ~(y < x)
  BY <1>2 DEF OpToRel
<1>4. QED
  BY <1>3

PairsUpTo(n, pairs) ==
  pairs = [k \in 0..n |-> IF k = 0 THEN <<>> ELSE pairs[k - 1] \o Pair(k - 1)]

LEMMA PairsDefined == \A n \in Nat : \E pairs : PairsUpTo(n, pairs)
<1> DEFINE T == {n \in Nat : ~ \E pairs : PairsUpTo(n, pairs)}
<1>1. SUFFICES ASSUME T # {} PROVE FALSE
  OBVIOUS
<1>2. PICK m \in T : \A k \in T : m <= k
  BY <1>1, Smallest
<1>3. m \in Nat /\ ~ \E pairs : PairsUpTo(m, pairs)
  BY <1>2
<1>4. PairsUpTo(0, [k \in 0..0 |-> <<>>])
  BY DEF PairsUpTo
<1>5. m > 0 /\ m - 1 \in Nat /\ m - 1 \notin T
  BY <1>2, <1>3, <1>4
<1>6. PICK before : PairsUpTo(m - 1, before)
  BY <1>5
<1> DEFINE last == before[m - 1] \o Pair(m - 1)
           pairs == [k \in 0..m |-> IF k = m THEN last ELSE before[k]]
<1>7. DOMAIN pairs = 0..m /\ pairs[m] = last /\ \A k \in 0..(m - 1) : pairs[k] = before[k]
  <2>1. m \in Nat /\ m \in 0..m /\ \A k \in 0..(m - 1) : k \in 0..m /\ k # m
    BY <1>5
  <2> HIDE DEF last, T
  <2>2. QED
    BY <2>1
<1>8. \A k \in 0..(m - 1) : before[k] = IF k = 0 THEN <<>> ELSE before[k - 1] \o Pair(k - 1)
  BY <1>6 DEF PairsUpTo
<1> HIDE DEF pairs
<1>9. \A k \in 0..m : pairs[k] = IF k = 0 THEN <<>> ELSE pairs[k - 1] \o Pair(k - 1)
  <2>1. ASSUME NEW k \in 0..m, k < m
        PROVE  pairs[k] = IF k = 0 THEN <<>> ELSE pairs[k - 1] \o Pair(k - 1)
    <3>1. k \in 0..(m - 1) /\ (k # 0 => k - 1 \in 0..(m - 1))
      BY <1>5, <2>1
    <3>2. QED
      BY <1>7, <1>8, <3>1
  <2>2. pairs[m] = IF m = 0 THEN <<>> ELSE pairs[m - 1] \o Pair(m - 1)
    <3>1. m - 1 \in 0..(m - 1)
      BY <1>5
    <3>2. pairs[m - 1] = before[m - 1]
      BY <1>7, <3>1
    <3>3. m # 0
      BY <1>3, <1>5
    <3>4. QED
      BY <1>7, <3>2, <3>3
  <2>3. QED
    BY <1>3, <2>1, <2>2
<1>10. PairsUpTo(m, pairs)
  BY <1>7, <1>9 DEF PairsUpTo, pairs
<1>11. QED
  BY <1>3, <1>10

LEMMA PairsSteps ==
  ASSUME NEW n \in Nat
  PROVE  \E pairs : /\ PairsUpTo(n, pairs) /\ Pairs(n) = pairs[n]
<1>1. Pairs(n) = (CHOOSE pairs : PairsUpTo(n, pairs))[n]
  BY DEF Pairs, PairsUpTo
<1>2. PICK pairs : pairs = CHOOSE f : PairsUpTo(n, f)
  OBVIOUS
<1>3. PairsUpTo(n, pairs)
  BY <1>2, PairsDefined
<1>4. QED
  BY <1>1, <1>2, <1>3

(* One pair, of one frame if only whole frames passed by.                  *)
Undisturbed == ~tap.split /\ tap.skipped % Channels[tap.stream] = 0

SamplesPaired(q, sound) ==
  \A i \in DOMAIN q : i % 2 = 1 =>
    /\ i + 1 \in DOMAIN q
    /\ sound => OneFrame(q[i], q[i + 1])

LEMMA CountIs ==
  ASSUME TapIsKnown
  PROVE  Channels[tap.stream] \in Nat \ {0} /\ tap.stream \in Nat
BY MeterAssumption DEF TapIsKnown, Streams

LEMMA PairIs ==
  ASSUME TapIsKnown, NEW k \in Nat
  PROVE  \/ Pair(k) = <<>>
         \/ \E left, right : /\ Pair(k) = <<left, right>>
                             /\ Undisturbed => OneFrame(left, right)
<1>1. PICK c \in Nat \ {0} : c = Channels[tap.stream]
  BY CountIs
<1>2. CASE c = 1
  <2>1. Pair(k) = <<Sample(k), Sample(k)>>
    BY <1>1, <1>2 DEF Pair
  <2>2. tap.next + k \in Nat
    BY DEF TapIsKnown
  <2>3. (tap.next + k) % 1 = 0
    BY <2>2
  <2>4. OneFrame(Sample(k), Sample(k))
    BY <1>1, <1>2, <2>3 DEF Sample, OneFrame
  <2>5. QED
    BY <2>1, <2>4
<1>3. CASE c # 1 /\ (tap.phase + k) % c = 1
  <2> DEFINE left == IF k > 0 THEN Sample(k - 1) ELSE tap.left
  <2>1. Pair(k) = <<left, Sample(k)>>
    BY <1>1, <1>3 DEF Pair
  <2>2. ASSUME Undisturbed
        PROVE  OneFrame(left, Sample(k))
    <3>1. PICK m \in Nat : tap.skipped = c * m
      <4>1. tap.skipped \in Nat /\ tap.skipped % c = 0
        BY <1>1, <2>2 DEF TapIsKnown, Undisturbed
      <4>2. tap.skipped \div c \in Nat
            /\ tap.skipped = c * (tap.skipped \div c) + (tap.skipped % c)
        BY <4>1, Division
      <4>3. c * (tap.skipped \div c) \in Nat
        BY <4>2
      <4>4. tap.skipped = c * (tap.skipped \div c)
        BY <4>1, <4>2, <4>3
      <4>5. QED
        BY <4>2, <4>4
    <3>2. PICK q \in Nat : tap.next = c * m + c * q + tap.phase /\ tap.phase \in 0..(c - 1)
      <4>1. tap.next - tap.skipped \in Nat
        BY DEF TapIsKnown
      <4>2. PICK a \in Nat : a = tap.next - tap.skipped
        BY <4>1
      <4>3. a \div c \in Nat /\ a % c \in 0..(c - 1) /\ a = c * (a \div c) + (a % c)
        BY Division
      <4>4. tap.phase = a % c /\ tap.next = tap.skipped + a /\ tap.next \in Nat
        BY <1>1, <4>2 DEF TapIsKnown
      <4>5. c * m \in Nat /\ c * (a \div c) \in Nat
        BY <4>3
      <4>6. tap.next = c * m + c * (a \div c) + tap.phase
        BY <3>1, <4>3, <4>4, <4>5
      <4>7. QED
        BY <4>3, <4>4, <4>6
    <3>3. PICK p \in Nat : tap.phase + k = c * p + 1
      <4>1. tap.phase + k \in Nat
        BY <3>2
      <4>2. QED
        BY <1>3, <4>1, Division
    <3>4. PICK f \in Nat : f = m + q + p
      OBVIOUS
    <3>5. c * f = c * m + c * q + c * p
      BY <3>4
    <3>6. c * m \in Nat /\ c * q \in Nat /\ c * p \in Nat
      OBVIOUS
    <3>7. tap.next + k = c * f + 1 /\ tap.next + k - 1 = c * f + 0
      BY <3>2, <3>3, <3>5, <3>6
    <3>8. 0 \in 0..(c - 1) /\ 1 \in 0..(c - 1)
      BY <1>3
    <3>9. /\ At(tap.next + k, c) = [frame |-> f, channel |-> 1]
          /\ At(tap.next + k - 1, c) = [frame |-> f, channel |-> 0]
      BY <3>7, <3>8, AtPlace
    <3>10. Sample(k) = At(tap.next + k, c)
      BY <1>1 DEF Sample, At
    <3>11. left = At(tap.next + k - 1, c)
      <4>1. CASE k > 0
        <5>1. tap.next \in Nat
          BY DEF TapIsKnown
        <5>2. tap.next + (k - 1) = tap.next + k - 1
          BY <5>1
        <5>3. QED
          BY <1>1, <4>1, <5>2 DEF Sample, At
      <4>2. CASE k = 0
        <5>1. tap.phase # 0
          <6>1. ASSUME tap.phase = 0 PROVE FALSE
            <7>1. 0 = c * p + 1
              BY <3>3, <4>2, <6>1
            <7>2. QED
              BY <3>6, <7>1
          <6>2. QED
            BY <6>1
        <5>2. tap.left = At(tap.next - 1, c)
          BY <1>1, <2>2, <5>1 DEF TapIsKnown, Undisturbed
        <5>3. tap.next + k - 1 = tap.next - 1
          BY <4>2 DEF TapIsKnown
        <5>4. QED
          BY <4>2, <5>2, <5>3
      <4>3. QED
        BY <4>1, <4>2
    <3>12. QED
      BY <3>9, <3>10, <3>11 DEF OneFrame
  <2>3. QED
    BY <2>1, <2>2
<1>4. CASE c # 1 /\ (tap.phase + k) % c # 1
  BY <1>1, <1>4 DEF Pair
<1>5. QED
  BY <1>2, <1>3, <1>4

(* Sequences of pairs put together.                                        *)
LEMMA JoinedAt ==
  ASSUME NEW q, IsSeq(q), NEW r, IsSeq(r)
  PROVE  /\ IsSeq(q \o r) /\ Len(q) \in Nat /\ Len(r) \in Nat
         /\ DOMAIN q = 1..Len(q) /\ DOMAIN r = 1..Len(r)
         /\ DOMAIN (q \o r) = 1..(Len(q) + Len(r)) /\ Len(q \o r) = Len(q) + Len(r)
         /\ \A n \in DOMAIN (q \o r) : (q \o r)[n] = IF n <= Len(q) THEN q[n] ELSE r[n - Len(q)]
<1>1. PICK S : q \in Seq(S)
  BY DEF IsSeq
<1>2. PICK T : r \in Seq(T)
  BY DEF IsSeq
<1>3. q \in Seq(S \cup T) /\ r \in Seq(S \cup T)
  BY <1>1, <1>2, SeqMonotonic
<1>4. QED
  BY <1>3 DEF IsSeq

(* No sample is without the other of its pair.                             *)
InPairs(q) == \A i \in DOMAIN q : i % 2 = 1 => i + 1 \in DOMAIN q

LEMMA EvenLength ==
  ASSUME NEW q, IsSeq(q), InPairs(q)
  PROVE  Len(q) \in Nat /\ Len(q) % 2 = 0 /\ DOMAIN q = 1..Len(q)
<1>1. Len(q) \in Nat /\ DOMAIN q = 1..Len(q)
  BY DEF IsSeq
<1>2. Len(q) % 2 = 1 => Len(q) \in DOMAIN q
  BY <1>1
<1>3. ~(Len(q) % 2 = 1)
  <2>1. Len(q) + 1 \notin DOMAIN q
    BY <1>1
  <2>2. QED
    BY <1>2, <2>1 DEF InPairs
<1>4. Len(q) % 2 \in {0, 1}
  BY <1>1
<1>5. QED
  BY <1>1, <1>3, <1>4

Joins(both, q, r) ==
  \A i \in DOMAIN both : i % 2 = 1 =>
    /\ i + 1 \in DOMAIN both
    /\ \/ i \in DOMAIN q /\ both[i] = q[i] /\ both[i + 1] = q[i + 1]
       \/ \E j \in DOMAIN r : j % 2 = 1 /\ both[i] = r[j] /\ both[i + 1] = r[j + 1]

LEMMA JoinedPlaces ==
  ASSUME NEW q, IsSeq(q), InPairs(q), NEW r, IsSeq(r), InPairs(r)
  PROVE  Joins(q \o r, q, r)
<1> PICK both : both = q \o r
  OBVIOUS
<1> SUFFICES ASSUME NEW i \in DOMAIN both, i % 2 = 1
             PROVE  /\ i + 1 \in DOMAIN both
                    /\ \/ i \in DOMAIN q /\ both[i] = q[i] /\ both[i + 1] = q[i + 1]
                       \/ \E j \in DOMAIN r :
                            j % 2 = 1 /\ both[i] = r[j] /\ both[i + 1] = r[j + 1]
  BY DEF Joins
<1>1. PICK m \in Nat, n \in Nat : m = Len(q) /\ n = Len(r)
  BY JoinedAt
<1>2. /\ DOMAIN q = 1..m /\ DOMAIN r = 1..n /\ DOMAIN both = 1..(m + n)
      /\ \A k \in 1..(m + n) : both[k] = IF k <= m THEN q[k] ELSE r[k - m]
  BY <1>1, JoinedAt
<1>3. m % 2 = 0 /\ i \in 1..(m + n)
  BY <1>1, <1>2, EvenLength
<1>4. CASE i <= m
  <2>1. i \in DOMAIN q /\ i + 1 \in 1..m
    BY <1>2, <1>3, <1>4 DEF InPairs
  <2>2. i + 1 \in 1..(m + n) /\ i + 1 <= m
    BY <2>1
  <2>3. QED
    BY <1>2, <1>3, <1>4, <2>1, <2>2
<1>5. CASE i > m
  <2>1. PICK j : j = i - m
    OBVIOUS
  <2>2. j \in 1..n /\ j % 2 = 1 /\ i = j + m
    BY ONLY m \in Nat, n \in Nat, <1>3, <1>5, <2>1, i % 2 = 1
  <2>3. j + 1 \in 1..n
    BY <1>2, <2>2 DEF InPairs
  <2>4. /\ i + 1 \in 1..(m + n) /\ ~(i + 1 <= m) /\ ~(i <= m)
        /\ i + 1 - m = j + 1 /\ i - m = j
    BY ONLY m \in Nat, n \in Nat, <2>2, <2>3
  <2>5. both[i] = r[j] /\ both[i + 1] = r[j + 1]
    BY ONLY <1>2, <1>3, <2>4
  <2>6. QED
    BY <1>2, <2>2, <2>4, <2>5
<1>6. QED
  BY ONLY <1>1, <1>3, <1>4, <1>5

LEMMA PairsArePaired ==
  ASSUME TapIsKnown, NEW n \in Nat
  PROVE  IsSeq(Pairs(n)) /\ SamplesPaired(Pairs(n), Undisturbed)
<1>1. PICK pairs : PairsUpTo(n, pairs) /\ Pairs(n) = pairs[n]
  BY PairsSteps
<1>2. \A k \in 0..n : pairs[k] = IF k = 0 THEN <<>> ELSE pairs[k - 1] \o Pair(k - 1)
  BY <1>1 DEF PairsUpTo
<1> DEFINE Is(k) == IsSeq(pairs[k]) /\ SamplesPaired(pairs[k], Undisturbed)
           T == {k \in Nat : k <= n /\ ~Is(k)}
<1>3. ASSUME T # {} PROVE FALSE
  <2>1. PICK m \in T : \A k \in T : m <= k
    BY <1>3, Smallest
  <2>2. Is(0)
    <3>1. 0 \in 0..n
      OBVIOUS
    <3>2. pairs[0] = <<>>
      BY <1>2, <3>1
    <3>3. <<>> \in Seq({}) /\ DOMAIN <<>> = {}
      OBVIOUS
    <3>4. QED
      BY <3>2, <3>3 DEF IsSeq, SamplesPaired
  <2>3. m > 0 /\ m \in 1..n /\ m - 1 \in Nat /\ Is(m - 1)
    <3>1. m \in Nat /\ m <= n /\ ~Is(m)
      BY <2>1
    <3>2. m # 0
      BY <2>2, <3>1
    <3>3. m - 1 \in Nat /\ m - 1 <= n /\ m - 1 \notin T
      BY <2>1, <3>1, <3>2
    <3>4. QED
      BY <3>1, <3>2, <3>3
  <2>4. PICK q : q = pairs[m - 1]
    OBVIOUS
  <2>5. PICK r : r = Pair(m - 1)
    OBVIOUS
  <2>6. IsSeq(q) /\ SamplesPaired(q, Undisturbed) /\ pairs[m] = q \o r
    <3>1. m \in 0..n /\ m # 0
      BY <2>3
    <3>2. pairs[m] = pairs[m - 1] \o Pair(m - 1)
      BY <1>2, <3>1
    <3>3. QED
      BY <2>3, <2>4, <2>5, <3>2
  <2>7. IsSeq(r) /\ SamplesPaired(r, Undisturbed)
    <3>1. CASE r = <<>>
      BY <3>1 DEF IsSeq, SamplesPaired
    <3>2. CASE \E left, right : r = <<left, right>> /\ (Undisturbed => OneFrame(left, right))
      <4>1. PICK left, right : r = <<left, right>> /\ (Undisturbed => OneFrame(left, right))
        BY <3>2
      <4>2. r \in Seq({left, right}) /\ DOMAIN r = 1..2 /\ r[1] = left /\ r[2] = right
        BY <4>1
      <4>3. \A i \in DOMAIN r : i % 2 = 1 => i = 1
        BY <4>2
      <4>4. QED
        <5>1. IsSeq(r)
          BY <4>2 DEF IsSeq
        <5>2. 1 + 1 \in DOMAIN r /\ r[1 + 1] = right
          BY <4>2
        <5>3. \A i \in DOMAIN r : i % 2 = 1 =>
                i + 1 \in DOMAIN r /\ (Undisturbed => OneFrame(r[i], r[i + 1]))
          BY <4>1, <4>2, <4>3, <5>2
        <5>4. QED
          BY <5>1, <5>3 DEF SamplesPaired
    <3>3. QED
      BY <2>3, <2>5, <3>1, <3>2, PairIs
  <2>8. SamplesPaired(q \o r, Undisturbed)
    <3>1. InPairs(q) /\ InPairs(r)
      BY <2>6, <2>7 DEF InPairs, SamplesPaired
    <3>2. PICK both : both = q \o r
      OBVIOUS
    <3>3. ASSUME NEW i \in DOMAIN both, i % 2 = 1
          PROVE  i + 1 \in DOMAIN both /\ (Undisturbed => OneFrame(both[i], both[i + 1]))
      <4>1. /\ i + 1 \in DOMAIN both
            /\ \/ i \in DOMAIN q /\ both[i] = q[i] /\ both[i + 1] = q[i + 1]
               \/ \E j \in DOMAIN r : j % 2 = 1 /\ both[i] = r[j] /\ both[i + 1] = r[j + 1]
        <5>1. Joins(both, q, r)
          BY <2>6, <2>7, <3>1, <3>2, JoinedPlaces
        <5>2. QED
          BY <3>3, <5>1 DEF Joins
      <4>2. QED
        BY <2>6, <2>7, <3>3, <4>1 DEF SamplesPaired
    <3>4. QED
      BY <3>2, <3>3 DEF SamplesPaired
  <2>9. Is(m)
    BY <2>6, <2>7, <2>8, JoinedAt
  <2>10. QED
    BY <2>1, <2>9
<1>4. QED
  BY <1>1, <1>3

-----------------------------------------------------------------------------
(* What is sent of the measurements.                                       *)

BatchedUpTo(t, loud, n, batched) ==
  batched = [k \in 0..n |-> IF k = 0 THEN t ELSE Batch(batched[k - 1], loud[k])]

LEMMA BatchRests ==
  ASSUME NEW t, Rests(t), NEW loud \in BOOLEAN
  PROVE  Rests(Batch(t, loud))
<1>1. PICK h : h = Batch(t, loud)
  OBVIOUS
<1>2. CASE t.pending = <<>>
  <2>1. h = [t EXCEPT !.pending = <<loud>>]
    BY <1>1, <1>2 DEF Batch
  <2>2. /\ DOMAIN h = DOMAIN t /\ h.pending = <<loud>> /\ h.id = t.id
        /\ h.combined = t.combined /\ h.shown = t.shown
    BY <2>1 DEF Rests, AnyThread
  <2>3. QED
    BY <1>1, <2>2 DEF Rests, AnyThread
<1>3. CASE t.pending # <<>>
  <2>1. PICK before \in BOOLEAN : t.pending = <<before>>
    BY <1>3 DEF Rests
  <2>2. PICK frame \in BOOLEAN : frame = (before \/ loud)
    OBVIOUS
  <2>3. PICK toSend \in BOOLEAN : toSend = (frame \/ t.combined)
    OBVIOUS
  <2>4. t.pending[1] = before
    BY <2>1
  <2>5. h = [t EXCEPT !.pending = <<>>, !.combined = frame, !.sent = t.sent \/ toSend,
                      !.shown = IF toSend THEN frame ELSE t.shown]
    BY <1>1, <1>3, <2>2, <2>3, <2>4 DEF Batch
  <2>6. /\ DOMAIN h = DOMAIN t /\ h.pending = <<>> /\ h.id = t.id /\ h.combined = frame
        /\ h.shown = IF toSend THEN frame ELSE t.shown
    BY <2>5 DEF Rests, AnyThread
  <2>7. ~toSend => frame = FALSE /\ t.shown = FALSE
    BY <2>2, <2>3 DEF Rests
  <2>8. h.shown = h.combined
    BY <2>6, <2>7
  <2>9. QED
    BY <1>1, <2>2, <2>6, <2>8 DEF Rests, AnyThread
<1>4. QED
  BY <1>2, <1>3

LEMMA BatchedDefined ==
  ASSUME NEW t, NEW loud
  PROVE  \A n \in Nat : \E batched : BatchedUpTo(t, loud, n, batched)
<1> DEFINE T == {n \in Nat : ~ \E batched : BatchedUpTo(t, loud, n, batched)}
<1>1. SUFFICES ASSUME T # {} PROVE FALSE
  OBVIOUS
<1>2. PICK m \in T : \A k \in T : m <= k
  BY <1>1, Smallest
<1>3. m \in Nat /\ ~ \E batched : BatchedUpTo(t, loud, m, batched)
  BY <1>2
<1>4. BatchedUpTo(t, loud, 0, [k \in 0..0 |-> t])
  BY DEF BatchedUpTo
<1>5. m > 0 /\ m - 1 \in Nat /\ m - 1 \notin T
  BY <1>2, <1>3, <1>4
<1>6. PICK before : BatchedUpTo(t, loud, m - 1, before)
  BY <1>5
<1> DEFINE last == Batch(before[m - 1], loud[m])
           batched == [k \in 0..m |-> IF k = m THEN last ELSE before[k]]
<1>7. DOMAIN batched = 0..m /\ batched[m] = last
      /\ \A k \in 0..(m - 1) : batched[k] = before[k]
  <2>1. m \in Nat /\ m \in 0..m /\ \A k \in 0..(m - 1) : k \in 0..m /\ k # m
    BY <1>5
  <2> HIDE DEF last, T
  <2>2. QED
    BY <2>1
<1>8. \A k \in 0..(m - 1) :
        before[k] = IF k = 0 THEN t ELSE Batch(before[k - 1], loud[k])
  BY <1>6 DEF BatchedUpTo
<1> HIDE DEF batched, T
<1>9. \A k \in 0..m : batched[k] = IF k = 0 THEN t ELSE Batch(batched[k - 1], loud[k])
  <2>1. ASSUME NEW k \in 0..m, k < m
        PROVE  batched[k] = IF k = 0 THEN t ELSE Batch(batched[k - 1], loud[k])
    <3>1. k \in 0..(m - 1) /\ (k # 0 => k - 1 \in 0..(m - 1))
      BY <1>3, <2>1
    <3>2. QED
      BY <1>7, <1>8, <3>1
  <2>2. batched[m] = IF m = 0 THEN t ELSE Batch(batched[m - 1], loud[m])
    <3>1. m - 1 \in 0..(m - 1)
      BY <1>5
    <3>2. batched[m - 1] = before[m - 1]
      BY <1>7, <3>1
    <3>3. m # 0
      BY <1>3, <1>5
    <3>4. QED
      BY <1>7, <3>2, <3>3
  <2>3. QED
    BY <1>3, <2>1, <2>2
<1>10. BatchedUpTo(t, loud, m, batched)
  BY <1>7, <1>9 DEF BatchedUpTo, batched
<1>11. QED
  BY <1>3, <1>10

LEMMA BatchedRests ==
  ASSUME NEW t, Rests(t), NEW n \in Nat, NEW loud \in [1..n -> BOOLEAN]
  PROVE  Rests(Batched(t, loud))
<1>1. Len(loud) = n
  OBVIOUS
<1>2. Batched(t, loud) = (CHOOSE f : BatchedUpTo(t, loud, n, f))[n]
  BY <1>1 DEF Batched, BatchedUpTo
<1>3. PICK batched : batched = CHOOSE f : BatchedUpTo(t, loud, n, f)
  OBVIOUS
<1>4. BatchedUpTo(t, loud, n, batched)
  BY <1>3, BatchedDefined
<1>5. \A k \in 0..n : batched[k] = IF k = 0 THEN t ELSE Batch(batched[k - 1], loud[k])
  BY <1>4 DEF BatchedUpTo
<1> DEFINE T == {k \in Nat : k <= n /\ ~Rests(batched[k])}
<1>6. ASSUME T # {} PROVE FALSE
  <2>1. PICK m \in T : \A k \in T : m <= k
    BY <1>6, Smallest
  <2>2. Rests(batched[0])
    <3>1. 0 \in 0..n
      OBVIOUS
    <3>2. QED
      BY <1>5, <3>1
  <2>3. m \in 1..n /\ m # 0 /\ m \in 0..n /\ Rests(batched[m - 1])
    <3>1. m \in Nat /\ m <= n /\ ~Rests(batched[m])
      BY <2>1
    <3>2. m # 0
      BY <2>2, <3>1
    <3>3. m - 1 \in Nat /\ m - 1 <= n /\ m - 1 \notin T
      BY <2>1, <3>1, <3>2
    <3>4. QED
      BY <3>1, <3>2, <3>3
  <2>4. batched[m] = Batch(batched[m - 1], loud[m]) /\ loud[m] \in BOOLEAN
    BY <1>5, <2>3
  <2>5. Rests(batched[m])
    BY <2>3, <2>4, BatchRests
  <2>6. QED
    BY <2>1, <2>5
<1>7. Rests(batched[n])
  BY <1>6
<1>8. QED
  BY <1>2, <1>3, <1>7

-----------------------------------------------------------------------------
(* The steps of the callback.                                              *)

LEMMA StreamsAre == Streams = 1..Len(Channels) /\ Len(Channels) \in Nat
                    /\ 1 \in Streams /\ None \notin Streams
                    /\ \A s \in Streams : s \in Nat /\ Channels[s] \in Nat \ {0}
BY MeterAssumption DEF Streams

LEMMA EmptyQueue == IsSeq(<<>>) /\ Len(<<>>) = 0 /\ Paired(<<>>) /\ \A n : Since(<<>>, n)
<1>1. <<>> \in Seq({}) /\ DOMAIN <<>> = {} /\ Len(<<>>) = 0
  OBVIOUS
<1>2. QED
  BY <1>1 DEF IsSeq, Paired, Since

(* A step that leaves what the threads hold alone.                         *)
LEMMA Undone ==
  ASSUME Measured, IInv', TapIsKnown', tap'.stream = tap.stream,
         UNCHANGED <<slot, ring, thread, clears>>,
         hub'.pc = "launching" => hub.pc = "launching"
  PROVE  Measured'
<1>1. RingsAreTrue'
  BY DEF Measured, RingsAreTrue
<1>2. RingsAreNew'
  BY DEF Measured, RingsAreNew
<1>3. ReadIsTrue'
  BY DEF Measured, ReadIsTrue
<1>4. QED
  BY <1>1, <1>2, <1>3 DEF Measured

LEMMA NewTapMeasured ==
  ASSUME Measured, IInv', NewTap
  PROVE  Measured'
<1>1. PICK n : n = tap.stream + 1
  OBVIOUS
<1>2. n \in Streams /\ n > tap.stream /\ tap.stream \in Streams
  BY <1>1, StreamsAre DEF NewTap, Measured, TapIsKnown
<1>3. /\ tap'.stream = n /\ tap'.next = 0 /\ tap'.skipped = 0 /\ tap'.phase = 0
      /\ tap'.copying = None
  BY <1>1 DEF NewTap, Tap
<1>4. TapIsKnown'
  <2>1. 0 - 0 = 0 /\ 0 % Channels[n] = 0
    BY <1>2, StreamsAre
  <2>2. QED
    BY <1>2, <1>3, <2>1 DEF TapIsKnown
<1>5. RingsAreTrue'
  <2>1. \A s \in Streams : s > n => s > tap.stream
    BY <1>2, StreamsAre
  <2>2. QED
    BY <1>3, <2>1 DEF NewTap, Measured, RingsAreTrue
<1>6. ring'[n] = <<>> /\ slot' = n /\ UNCHANGED <<ring, thread, clears, hub>>
  BY <1>1, <1>2 DEF NewTap, pages, Measured, RingsAreTrue
<1>7. RingsAreNew'
  BY <1>2, <1>3, <1>6, EmptyQueue DEF Measured, RingsAreNew
<1>8. ReadIsTrue'
  BY <1>6 DEF Measured, ReadIsTrue
<1>9. QED
  BY <1>4, <1>5, <1>7, <1>8 DEF Measured

LEMMA ReadActiveMeasured ==
  ASSUME Measured, IInv', ReadActive
  PROVE  Measured'
<1>1. /\ tap'.stream = tap.stream /\ tap'.next = tap.next /\ tap'.skipped = tap.skipped
      /\ tap'.phase = tap.phase /\ tap'.left = tap.left /\ tap'.split = tap.split
      /\ tap.next < MaxFrames * Channels[tap.stream]
  BY DEF ReadActive, Measured, IInv, AnyTap
<1>2. TapIsKnown'
  BY <1>1 DEF Measured, TapIsKnown
<1>3. QED
  BY <1>1, <1>2, Undone DEF ReadActive

(* A chunk has at least one sample.                                        *)
LEMMA ChunkIs ==
  ASSUME TapIsKnown, tap.copying # None
  PROVE  Least(Chunk, MaxFrames * Channels[tap.stream] - tap.next) \in Nat \ {0}
<1>1. PICK c \in Nat \ {0} : c = Channels[tap.stream]
  BY CountIs
<1>2. MaxFrames * c \in Nat /\ tap.next \in Nat /\ tap.next < MaxFrames * c
  BY <1>1, MeterAssumption DEF TapIsKnown
<1>3. PICK whole \in Nat, a \in Nat : whole = MaxFrames * c /\ a = whole - tap.next
  BY <1>2
<1>4. a \in Nat \ {0}
  <2>1. PICK next \in Nat : next = tap.next
    BY <1>2
  <2>2. QED
    BY <1>2, <1>3, <2>1
<1>5. Chunk \in Nat \ {0}
  BY MeterAssumption
<1>6. QED
  BY <1>1, <1>3, <1>4, <1>5 DEF Least

(* Samples that pass by: the tap stays within its frame.                   *)
LEMMA SkippedMeasured ==
  ASSUME Measured, IInv', Push, ~tap.copying
  PROVE  Measured'
<1>1. PICK n : n = Least(Chunk, MaxFrames * Channels[tap.stream] - tap.next)
  OBVIOUS
<1>2. n \in Nat \ {0} /\ TapIsKnown
  BY <1>1, ChunkIs DEF Push, Measured
<1>3. tap' = [tap EXCEPT !.next = tap.next + n, !.skipped = tap.skipped + n,
                         !.split = tap.split \/ tap.phase # 0, !.copying = None]
      /\ ring' = ring
  BY <1>1 DEF Push
<1>4. /\ tap'.stream = tap.stream /\ tap'.next = tap.next + n
      /\ tap'.skipped = tap.skipped + n /\ tap'.phase = tap.phase /\ tap'.copying = None
      /\ tap'.split = (tap.split \/ tap.phase # 0)
  BY <1>3 DEF Measured, IInv, AnyTap
<1>5. TapIsKnown'
  <2>1. /\ tap'.next \in Nat /\ tap'.skipped \in Nat /\ tap'.skipped <= tap'.next
        /\ tap'.next - tap'.skipped = tap.next - tap.skipped
    BY <1>2, <1>4 DEF TapIsKnown
  <2>2. tap'.split \/ tap'.phase = 0
    BY <1>4
  <2>3. QED
    BY <1>2, <1>4, <2>1, <2>2 DEF TapIsKnown
<1>6. QED
  BY <1>3, <1>4, <1>5, Undone DEF Push

(* The tap is as far within its frame as what it has copied.               *)
LEMMA PhaseAdds ==
  ASSUME NEW c \in Nat \ {0}, NEW a \in Nat, NEW n \in Nat
  PROVE  ((a % c) + n) % c = (a + n) % c
<1>1. PICK q \in Nat, r \in 0..(c - 1) : a = c * q + r /\ r = a % c
  BY Division
<1>2. PICK b : b = r + n
  OBVIOUS
<1>3. b \in Nat
  BY <1>1, <1>2
<1>4. PICK p \in Nat, s \in 0..(c - 1) : b = c * p + s /\ s = b % c
  BY <1>3, Division
<1>5. c * (q + p) = c * q + c * p /\ c * q \in Nat /\ c * p \in Nat /\ q + p \in Nat
  OBVIOUS
<1>6. a + n = c * (q + p) + s
  <2>1. PICK x \in Nat, y \in Nat : x = c * q /\ y = c * p
    BY <1>5
  <2>2. a = x + r /\ r + n = y + s /\ c * (q + p) = x + y
    BY <1>1, <1>2, <1>4, <1>5, <2>1
  <2>3. a + n = x + y + s
    BY ONLY <2>2, a \in Nat, n \in Nat, r \in 0..(c - 1), s \in 0..(c - 1), x \in Nat, y \in Nat,
       c \in Nat \ {0}
  <2>4. QED
    BY <2>2, <2>3
<1>7. (a + n) % c = s
  <2>1. PICK w \in Nat : w = q + p
    BY <1>5
  <2>2. (c * w + s) % c = s
    BY Divided
  <2>3. QED
    BY <1>6, <2>1, <2>2
<1>8. QED
  BY <1>1, <1>2, <1>4, <1>7

LEMMA TapCopies ==
  ASSUME TapIsKnown, AnyTap(tap), NEW n \in Nat \ {0},
         tap' = [tap EXCEPT !.next = tap.next + n, !.copying = None, !.left = Sample(n - 1),
                            !.phase = (tap.phase + n) % Channels[tap.stream]]
  PROVE  TapIsKnown' /\ tap'.stream = tap.stream
<1>1. /\ tap'.stream = tap.stream /\ tap'.next = tap.next + n
      /\ tap'.skipped = tap.skipped /\ tap'.copying = None /\ tap'.left = Sample(n - 1)
      /\ tap'.phase = (tap.phase + n) % Channels[tap.stream]
  BY DEF AnyTap
<1>2. PICK c \in Nat \ {0} : c = Channels[tap.stream]
  BY CountIs
<1>3. PICK a \in Nat : a = tap.next - tap.skipped /\ tap.phase = a % c
  BY <1>2 DEF TapIsKnown
<1>4. /\ tap.next \in Nat /\ tap.skipped \in Nat /\ tap.skipped <= tap.next
      /\ tap.next + n - tap.skipped = a + n
  BY <1>3 DEF TapIsKnown
<1>5. tap'.phase = (a + n) % c
  BY <1>1, <1>2, <1>3, PhaseAdds
<1>6. tap.next + (n - 1) = tap'.next - 1
  BY <1>1, <1>4
<1>7. tap'.left = At(tap'.next - 1, c)
  <2>1. tap'.left = At(tap.next + (n - 1), c)
    BY <1>1, <1>2 DEF Sample, At
  <2>2. QED
    BY <1>6, <2>1
<1>8. QED
  BY <1>1, <1>2, <1>4, <1>5, <1>7 DEF TapIsKnown

(* As many pairs as find room are added to the ring.                       *)
LEMMA Shorter ==
  ASSUME NEW q, IsSeq(q), NEW n \in Int, n <= Len(q)
  PROVE  LET cut == IF n >= 0 THEN n ELSE 0
         IN /\ IsSeq(SubSeq(q, 1, n)) /\ Len(SubSeq(q, 1, n)) = cut
            /\ DOMAIN SubSeq(q, 1, n) = 1..cut
            /\ \A i \in 1..cut : SubSeq(q, 1, n)[i] = q[i]
<1>1. PICK S : q \in Seq(S)
  BY DEF IsSeq
<1>2. Len(q) \in Nat /\ DOMAIN q = 1..Len(q)
  BY <1>1
<1>3. CASE n >= 1
  BY <1>1, <1>2, <1>3 DEF IsSeq
<1>4. CASE n < 1
  <2>1. SubSeq(q, 1, n) = <<>>
    BY <1>1, <1>4, SubSeqEmpty
  <2>2. (IF n >= 0 THEN n ELSE 0) = 0
    BY <1>4
  <2>3. DOMAIN <<>> = 1..0 /\ 1..0 = {}
    OBVIOUS
  <2>4. QED
    BY <2>1, <2>2, <2>3, EmptyQueue
<1>5. QED
  BY <1>3, <1>4

LEMMA ShortenedPairs ==
  ASSUME NEW q, IsSeq(q), Paired(q), NEW n \in Nat, n <= Len(q), n % 2 = 0
  PROVE  Paired(SubSeq(q, 1, n))
<1>1. PICK r : r = SubSeq(q, 1, n)
  OBVIOUS
<1>2. /\ DOMAIN r = 1..n /\ DOMAIN q = 1..Len(q) /\ Len(q) \in Nat
      /\ \A i \in 1..n : r[i] = q[i]
  BY <1>1, Shorter DEF IsSeq
<1>3. ASSUME NEW i \in DOMAIN r, i % 2 = 1
      PROVE  i + 1 \in DOMAIN r /\ i \in DOMAIN q
  <2>1. i \in 1..n /\ i # n
    BY <1>2, <1>3
  <2>2. QED
    BY <1>2, <2>1
<1>4. ASSUME NEW i \in DOMAIN r, i % 2 = 1, r[i].whole, r[i + 1].whole
      PROVE  OneFrame(r[i].sample, r[i + 1].sample)
  <2>1. r[i] = q[i] /\ r[i + 1] = q[i + 1] /\ i \in DOMAIN q
    BY <1>2, <1>3, <1>4
  <2>2. QED
    BY <1>4, <2>1 DEF Paired
<1>5. QED
  BY <1>1, <1>3, <1>4 DEF Paired

(* What remains after pairs were taken.                                    *)
LEMMA RemainingPairs ==
  ASSUME NEW q, IsSeq(q), Paired(q), NEW n \in Nat, n <= Len(q), n % 2 = 0
  PROVE  LET r == SubSeq(q, n + 1, Len(q))
         IN /\ IsSeq(r) /\ Paired(r) /\ Len(r) <= Len(q)
            /\ \A m : Since(q, m) => Since(r, m)
<1>1. PICK S : q \in Seq(S)
  BY DEF IsSeq
<1>2. PICK r : r = SubSeq(q, n + 1, Len(q))
  OBVIOUS
<1>3. /\ r \in Seq(S) /\ Len(r) = Len(q) - n /\ Len(q) \in Nat /\ DOMAIN q = 1..Len(q)
      /\ DOMAIN r = 1..(Len(q) - n) /\ \A i \in 1..(Len(q) - n) : r[i] = q[i + n]
  <2>1. CASE n + 1 <= Len(q)
    BY <1>1, <1>2, <2>1
  <2>2. CASE n = Len(q)
    BY <1>1, <1>2, <2>2, SubSeqEmpty
  <2>3. QED
    BY <1>1, <2>1, <2>2
<1>4. Len(q) % 2 = 0
  BY EvenLength DEF Paired, InPairs
<1>5. ASSUME NEW i \in DOMAIN r, i % 2 = 1
      PROVE  i + 1 \in DOMAIN r /\ i + n \in DOMAIN q /\ (i + n) % 2 = 1
  <2>1. i \in 1..(Len(q) - n) /\ Len(q) \in Nat /\ n \in Nat
    BY <1>3
  <2>2. i # Len(q) - n
    BY ONLY <1>4, <1>5, <2>1, n % 2 = 0
  <2>3. (i + n) % 2 = 1
    BY ONLY <1>5, <2>1, n % 2 = 0
  <2>4. QED
    BY <1>3, <2>1, <2>2, <2>3
<1>6. ASSUME NEW i \in DOMAIN r, i % 2 = 1, r[i].whole, r[i + 1].whole
      PROVE  OneFrame(r[i].sample, r[i + 1].sample)
  <2>1. PICK j : j = i + n
    OBVIOUS
  <2>2. r[i] = q[j] /\ r[i + 1] = q[j + 1] /\ j \in DOMAIN q /\ j % 2 = 1
    <3>1. i \in 1..(Len(q) - n) /\ i + 1 \in 1..(Len(q) - n) /\ i + 1 + n = j + 1
      <4>1. i \in 1..(Len(q) - n) /\ i + 1 \in 1..(Len(q) - n)
        BY <1>3, <1>5, <1>6
      <4>2. QED
        BY ONLY n \in Nat, <2>1, <4>1
    <3>2. r[i + 1] = q[i + 1 + n]
      BY ONLY <1>3, <3>1
    <3>3. QED
      BY <1>3, <1>5, <1>6, <2>1, <3>1, <3>2
  <2>3. QED
    BY <1>6, <2>2 DEF Paired
<1>7. \A m : Since(q, m) => Since(r, m)
  <2>1. \A i \in DOMAIN r : i + n \in DOMAIN q /\ r[i] = q[i + n]
    <3>1. ASSUME NEW i \in 1..(Len(q) - n) PROVE i + n \in 1..Len(q)
      BY ONLY <1>3, <3>1, n \in Nat
    <3>2. QED
      BY <1>3, <3>1
  <2>2. QED
    BY <2>1 DEF Since
<1>8. Len(r) <= Len(q)
  BY <1>3
<1>9. QED
  BY <1>2, <1>3, <1>5, <1>6, <1>7, <1>8 DEF IsSeq, Paired

LEMMA JoinedPairs ==
  ASSUME NEW q, IsSeq(q), Paired(q), NEW r, IsSeq(r), Paired(r)
  PROVE  Paired(q \o r)
<1>1. InPairs(q) /\ InPairs(r)
  BY DEF InPairs, Paired
<1>2. PICK both : both = q \o r
  OBVIOUS
<1>3. ASSUME NEW i \in DOMAIN both, i % 2 = 1
      PROVE  /\ i + 1 \in DOMAIN both
             /\ both[i].whole /\ both[i + 1].whole => OneFrame(both[i].sample, both[i + 1].sample)
  <2>1. /\ i + 1 \in DOMAIN both
        /\ \/ i \in DOMAIN q /\ both[i] = q[i] /\ both[i + 1] = q[i + 1]
           \/ \E j \in DOMAIN r : j % 2 = 1 /\ both[i] = r[j] /\ both[i + 1] = r[j + 1]
    <3>1. Joins(both, q, r)
      BY <1>1, <1>2, JoinedPlaces
    <3>2. QED
      BY <1>3, <3>1 DEF Joins
  <2>2. QED
    BY <1>3, <2>1 DEF Paired
<1>4. QED
  BY <1>2, <1>3 DEF Paired

LEMMA JoinedSince ==
  ASSUME NEW q, IsSeq(q), NEW r, IsSeq(r), NEW m, Since(q, m), Since(r, m)
  PROVE  Since(q \o r, m)
<1>1. /\ Len(q) \in Nat /\ Len(r) \in Nat /\ DOMAIN q = 1..Len(q) /\ DOMAIN r = 1..Len(r)
      /\ DOMAIN (q \o r) = 1..(Len(q) + Len(r))
      /\ \A i \in DOMAIN (q \o r) :
           (q \o r)[i] = IF i <= Len(q) THEN q[i] ELSE r[i - Len(q)]
  BY JoinedAt
<1>2. ASSUME NEW i \in DOMAIN (q \o r)
      PROVE  \/ i \in DOMAIN q /\ (q \o r)[i] = q[i]
             \/ i - Len(q) \in DOMAIN r /\ (q \o r)[i] = r[i - Len(q)]
  <2>1. i \in 1..(Len(q) + Len(r))
    BY <1>1, <1>2
  <2>2. CASE i <= Len(q)
    BY <1>1, <2>1, <2>2
  <2>3. CASE ~(i <= Len(q))
    <3>1. i - Len(q) \in 1..Len(r)
      BY ONLY <1>1, <2>1, <2>3
    <3>2. QED
      BY <1>1, <1>2, <2>3, <3>1
  <2>4. QED
    BY <2>2, <2>3
<1>3. QED
  BY <1>2 DEF Since

(* A function on 1..n is a sequence.                                       *)
LEMMA FunctionIsSeq ==
  ASSUME NEW S, NEW n \in Nat, NEW f \in [1..n -> S]
  PROVE  f \in Seq(S)
OBVIOUS

(* A chunk that is copied: as many of its pairs as find room are added to  *)
(* the ring, each sample with what is known of it.                         *)
LEMMA CopiedMeasured ==
  ASSUME Measured, IInv', Push, tap.copying
  PROVE  Measured'
<1> DEFINE s == tap.stream
<1>1. PICK n : n = Least(Chunk, MaxFrames * Channels[s] - tap.next)
  OBVIOUS
<1>2. n \in Nat \ {0} /\ TapIsKnown /\ AnyTap(tap)
  BY <1>1, ChunkIs DEF Push, Measured, IInv
<1>3. PICK pairs : pairs = Pairs(n)
  OBVIOUS
<1>4. PICK room : room = Least(Len(pairs), RingSamples - Len(ring[s]))
  OBVIOUS
<1>5. PICK copied : copied = SubSeq(pairs, 1, room)
  OBVIOUS
<1>6. PICK marked : marked = [i \in DOMAIN copied |->
                                [sample |-> copied[i], begun |-> clears,
                                 whole |-> ~tap.split /\ tap.skipped % Channels[s] = 0]]
  OBVIOUS
<1>7. /\ ring' = [ring EXCEPT ![s] = ring[s] \o marked]
      /\ tap' = [tap EXCEPT !.next = tap.next + n, !.copying = None, !.left = Sample(n - 1),
                            !.phase = (tap.phase + n) % Channels[s]]
  BY <1>1, <1>3, <1>4, <1>5, <1>6 DEF Push
<1>8. TapIsKnown' /\ tap'.stream = s
  BY <1>2, <1>7, TapCopies
<1>9. /\ IsSeq(pairs) /\ SamplesPaired(pairs, Undisturbed) /\ InPairs(pairs)
      /\ Len(pairs) \in Nat /\ Len(pairs) % 2 = 0 /\ DOMAIN pairs = 1..Len(pairs)
  <2>1. IsSeq(pairs) /\ SamplesPaired(pairs, Undisturbed)
    BY <1>2, <1>3, PairsArePaired
  <2>2. InPairs(pairs)
    BY <2>1 DEF SamplesPaired, InPairs
  <2>3. QED
    BY <2>1, <2>2, EvenLength
<1>10. /\ s \in Streams /\ IsSeq(ring[s]) /\ Paired(ring[s]) /\ Len(ring[s]) \in Nat
       /\ Len(ring[s]) <= RingSamples /\ Len(ring[s]) % 2 = 0
  <2>1. s \in Streams /\ IsSeq(ring[s]) /\ Paired(ring[s]) /\ Len(ring[s]) <= RingSamples
    BY DEF Measured, TapIsKnown, RingsAreTrue
  <2>2. InPairs(ring[s])
    BY <2>1 DEF InPairs, Paired
  <2>3. QED
    BY <2>1, <2>2, EvenLength
<1>11. room \in Nat /\ room <= Len(pairs) /\ room + Len(ring[s]) <= RingSamples /\ room % 2 = 0
  <2>1. PICK a \in Nat, b \in Nat, c \in Nat :
          a = Len(pairs) /\ b = Len(ring[s]) /\ c = RingSamples
    BY <1>9, <1>10, MeterAssumption
  <2>2. a % 2 = 0 /\ b % 2 = 0 /\ c % 2 = 0 /\ b <= c
    BY <1>9, <1>10, <2>1, MeterAssumption
  <2>3. room = IF a < c - b THEN a ELSE c - b
    BY <1>4, <2>1 DEF Least
  <2>4. room \in Nat /\ room <= a /\ room + b <= c /\ room % 2 = 0
    BY ONLY <2>2, <2>3, a \in Nat, b \in Nat, c \in Nat
  <2>5. QED
    BY <2>1, <2>4
<1>12. DOMAIN copied = 1..room /\ \A i \in 1..room : copied[i] = pairs[i]
  BY <1>5, <1>9, <1>11, Shorter
<1>13. IsSeq(marked) /\ Paired(marked) /\ Since(marked, clears) /\ Len(marked) = room
  <2>1. DOMAIN marked = 1..room
    BY <1>6, <1>12
  <2>2. \A i \in 1..room : marked[i].sample = pairs[i] /\ marked[i].begun = clears
    BY <1>6, <1>12
  <2>3. \A i \in 1..room : marked[i].whole => Undisturbed
    BY <1>6, <1>12 DEF Undisturbed
  <2>4. IsSeq(marked) /\ Len(marked) = room
    <3>1. marked \in [1..room -> {marked[i] : i \in 1..room}]
      BY <1>6, <2>1
    <3>2. marked \in Seq({marked[i] : i \in 1..room})
      BY <1>11, <3>1, FunctionIsSeq
    <3>3. QED
      BY <1>11, <2>1, <3>2 DEF IsSeq
  <2>5. Since(marked, clears)
    BY <2>1, <2>2 DEF Since, Measured, IInv, OneThread
  <2>6. ASSUME NEW i \in DOMAIN marked, i % 2 = 1
        PROVE  /\ i + 1 \in DOMAIN marked
               /\ marked[i].whole /\ marked[i + 1].whole =>
                    OneFrame(marked[i].sample, marked[i + 1].sample)
    <3>1. i \in 1..room /\ i # room
      BY <1>11, <2>1, <2>6
    <3>2. i + 1 \in 1..room /\ i \in DOMAIN pairs
      BY <1>9, <1>11, <3>1
    <3>3. Undisturbed => OneFrame(pairs[i], pairs[i + 1])
      BY <1>9, <2>6, <3>2 DEF SamplesPaired
    <3>4. QED
      BY <2>1, <2>2, <2>3, <3>1, <3>2, <3>3
  <2>7. QED
    BY <2>4, <2>5, <2>6 DEF Paired
<1>14. PICK new : new = ring[s] \o marked
  OBVIOUS
<1>15. IsSeq(new) /\ Paired(new) /\ Len(new) <= RingSamples
       /\ \A m : m <= clears /\ Since(ring[s], m) /\ m \in Nat => Since(new, m)
  <2>1. IsSeq(new) /\ Len(new) = Len(ring[s]) + Len(marked)
    BY <1>10, <1>13, <1>14, JoinedAt
  <2>2. Paired(new)
    BY <1>10, <1>13, <1>14, JoinedPairs
  <2>3. ASSUME NEW m \in Nat, m <= clears, Since(ring[s], m)
        PROVE  Since(new, m)
    <3>1. Since(marked, m)
      <4>1. clears \in Nat
        BY DEF Measured, IInv, OneThread
      <4>2. \A i \in DOMAIN marked : marked[i].begun = clears
        BY <1>6, <1>12
      <4>3. QED
        BY <2>3, <4>1, <4>2 DEF Since
    <3>2. QED
      BY <1>10, <1>13, <1>14, <2>3, <3>1, JoinedSince
  <2>4. QED
    BY <1>10, <1>11, <1>13, <2>1, <2>2, <2>3
<1>16. DOMAIN ring' = Streams /\ ring'[s] = new
       /\ \A r \in Streams : r # s => ring'[r] = ring[r]
  BY <1>7, <1>10, <1>14 DEF Measured, RingsAreTrue
<1>17. RingsAreTrue'
  <2>1. \A r \in Streams : r > s => r # s
    BY <1>10, StreamsAre
  <2>2. QED
    BY <1>8, <1>15, <1>16, <2>1 DEF Measured, RingsAreTrue
<1>18. UNCHANGED <<slot, thread, clears, hub>> /\ clears \in Nat
  BY DEF Push, Measured, IInv, OneThread
<1>19. \A r \in Streams : Since(ring[r], clears) => Since(ring'[r], clears)
  BY <1>15, <1>16, <1>18
<1>20. RingsAreNew'
  BY <1>8, <1>10, <1>18, <1>19 DEF Measured, RingsAreNew
<1>21. ReadIsTrue'
  BY <1>18 DEF Measured, ReadIsTrue
<1>22. QED
  BY <1>8, <1>17, <1>20, <1>21 DEF Measured

-----------------------------------------------------------------------------
(* The steps of the analysis thread.                                       *)

LEMMA Ready ==
  ASSUME Measured, Analysis
  PROVE  /\ Analysing /\ Rests(thread) /\ AnyThread(thread) /\ thread.id = clears
         /\ ~(hub.pc \in {"clearing", "launching"})
BY DEF Analysis, Check, TakeSource, Read, Park, Leave, Measured, IInv, OneThread,
   RingsAreNew, ReadIsTrue, Rests

(* The thread goes on with what it has, or with less.                      *)
LEMMA Carried ==
  ASSUME Measured, IInv', UNCHANGED <<tap, ring, hub, clears>>,
         ~(hub.pc \in {"clearing", "launching"}), Analysing,
         AnyThread(thread'), thread'.id = thread.id, thread'.filled \in Nat,
         thread'.pending = thread.pending, thread'.combined = thread.combined,
         thread'.shown = thread.shown,
         thread'.read = <<>> \/ thread'.read = thread.read,
         slot' \in {slot, thread.ring, None}, thread'.ring \in {slot, thread.ring, None},
         thread'.pc = "read" => thread'.ring # None
  PROVE  Measured'
<1>1. TapIsKnown' /\ RingsAreTrue'
  BY DEF Measured, TapIsKnown, RingsAreTrue
<1>2. RingsAreNew'
  <2>1. /\ slot \in Streams \cup {None} /\ thread.ring \in Streams \cup {None}
        /\ \A s \in {slot, thread.ring} \ {None} : Since(ring[s], clears)
        /\ thread.id = clears
    BY DEF Measured, RingsAreNew
  <2>2. QED
    BY <2>1 DEF RingsAreNew
<1>3. ReadIsTrue'
  <2>1. Rests(thread')
    BY DEF Measured, ReadIsTrue, Rests
  <2>2. IsSeq(thread'.read) /\ Paired(thread'.read) /\ Since(thread'.read, clears)
    BY EmptyQueue DEF Measured, ReadIsTrue
  <2>3. QED
    BY <2>1, <2>2 DEF ReadIsTrue
<1>4. QED
  BY <1>1, <1>2, <1>3 DEF Measured

LEMMA ThreadMeasured ==
  ASSUME Measured, IInv', Check \/ TakeSource \/ Park \/ Leave
  PROVE  Measured'
<1>1. PICK t : t = thread
  OBVIOUS
<1>2. /\ Analysing /\ AnyThread(t) /\ ~(hub.pc \in {"clearing", "launching"})
  BY <1>1, Ready DEF Analysis
<1>3. t.filled \in Nat /\ t.ring = thread.ring /\ (t.pc = "read" => t.ring # None)
  BY <1>1, <1>2 DEF Measured, RingsAreNew, ReadIsTrue
<1>4. CASE Check
  <2>1. /\ AnyThread(thread') /\ thread'.id = t.id /\ thread'.filled = t.filled
        /\ thread'.pending = t.pending /\ thread'.combined = t.combined
        /\ thread'.shown = t.shown /\ thread'.read = <<>> /\ thread'.ring = t.ring
        /\ thread'.pc \in {"take", "park"}
    BY <1>1, <1>2, <1>4 DEF Check, AnyThread
  <2>2. QED
    BY <1>1, <1>2, <1>3, <1>4, <2>1, Carried DEF Check, audio
<1>5. CASE TakeSource
  <2>1. /\ AnyThread(thread') /\ thread'.id = t.id
        /\ thread'.pending = t.pending /\ thread'.combined = t.combined
        /\ thread'.shown = t.shown /\ thread'.read = t.read
        /\ thread'.filled \in {t.filled, 0} /\ thread'.ring \in {t.ring, slot}
        /\ thread'.pc = "read" => thread'.ring # None
    BY <1>1, <1>2, <1>5 DEF TakeSource, AnyThread
  <2>2. QED
    BY <1>1, <1>2, <1>3, <1>5, <2>1, Carried DEF TakeSource, audio
<1>6. CASE Park
  <2>1. /\ AnyThread(thread') /\ thread'.id = t.id /\ thread'.filled = t.filled
        /\ thread'.pending = t.pending /\ thread'.combined = t.combined
        /\ thread'.shown = t.shown /\ thread'.read = t.read /\ thread'.ring = None
        /\ thread'.pc = "leave"
    BY <1>1, <1>2, <1>6 DEF Park, AnyThread
  <2>2. slot' \in {slot, thread.ring}
    BY <1>6 DEF Park, Parked
  <2>3. QED
    BY <1>1, <1>2, <1>3, <1>6, <2>1, <2>2, Carried DEF Park, audio
<1>7. CASE Leave
  <2>1. /\ AnyThread(thread') /\ thread'.id = t.id /\ thread'.filled = t.filled
        /\ thread'.pending = t.pending /\ thread'.combined = t.combined
        /\ thread'.shown = t.shown /\ thread'.read = t.read /\ thread'.ring = t.ring
        /\ thread'.pc = "ended"
    BY <1>1, <1>2, <1>7 DEF Leave, AnyThread
  <2>2. QED
    BY <1>1, <1>2, <1>3, <1>7, <2>1, Carried DEF Leave, audio
<1>8. QED
  BY <1>4, <1>5, <1>6, <1>7

(* What is read are pairs of the ring the thread has, no older than its    *)
(* subscription.                                                           *)
LEMMA ReadMeasured ==
  ASSUME Measured, IInv', Read
  PROVE  Measured'
<1> DEFINE t == thread
           s == t.ring
           q == ring[s]
           n == Least(Len(q), ReadSamples)
           read == SubSeq(q, 1, n)
           filled == t.filled + Len(read) \div 2
           rest == SubSeq(q, Len(read) + 1, Len(q))
<1>1. /\ ring' = [ring EXCEPT ![s] = rest]
      /\ \E loud \in [1..(filled \div FrameLen) -> BOOLEAN] : \E open :
           thread' = [t EXCEPT
                        !.pc = "check", !.filled = filled % FrameLen, !.open = open,
                        !.pending = Batched(t, loud).pending,
                        !.combined = Batched(t, loud).combined,
                        !.shown = Batched(t, loud).shown, !.read = read]
      /\ UNCHANGED <<slot, tap, hub, session, clears>>
  BY DEF Read
<1>2. /\ Analysing /\ AnyThread(t) /\ Rests(t) /\ t.id = clears /\ t.pc = "read"
      /\ ~(hub.pc \in {"clearing", "launching"})
  BY Ready DEF Analysis, Read
<1>3. s \in Streams /\ t.filled \in Nat /\ Since(ring[s], clears)
  BY <1>2 DEF Measured, RingsAreNew, ReadIsTrue
<1>4. /\ q = ring[s] /\ s = t.ring /\ n = Least(Len(q), ReadSamples)
      /\ read = SubSeq(q, 1, n) /\ filled = t.filled + Len(read) \div 2
      /\ rest = SubSeq(q, Len(read) + 1, Len(q)) /\ t = thread
  OBVIOUS
<1> HIDE DEF t, s, q, n, read, filled, rest
<1>6. /\ IsSeq(q) /\ Paired(q) /\ Len(q) <= RingSamples /\ Since(q, clears)
      /\ Len(q) \in Nat /\ Len(q) % 2 = 0
  <2>1. IsSeq(q) /\ Paired(q) /\ Len(q) <= RingSamples /\ Since(q, clears)
    BY <1>3, <1>4 DEF Measured, RingsAreTrue
  <2>2. InPairs(q)
    BY <2>1 DEF InPairs, Paired
  <2>3. QED
    BY <2>1, <2>2, EvenLength
<1>8. n \in Nat /\ n <= Len(q) /\ n % 2 = 0
  <2>1. PICK a \in Nat, b \in Nat : a = Len(q) /\ b = ReadSamples
    BY <1>6, MeterAssumption
  <2>2. a % 2 = 0 /\ b % 2 = 0
    BY <1>6, <2>1, MeterAssumption
  <2>3. n = IF a < b THEN a ELSE b
    BY <1>4, <2>1 DEF Least
  <2>4. n \in Nat /\ n <= a /\ n % 2 = 0
    BY ONLY <2>2, <2>3, a \in Nat, b \in Nat
  <2>5. QED
    BY <2>1, <2>4
<1>10. IsSeq(read) /\ Paired(read) /\ Len(read) = n /\ Since(read, clears)
  <2>1. IsSeq(read) /\ Len(read) = n /\ DOMAIN read = 1..n /\ \A i \in 1..n : read[i] = q[i]
    <3>1. n \in Int /\ n >= 0 /\ n <= Len(q) /\ IsSeq(q)
      BY <1>6, <1>8
    <3>2. PICK cut : cut = SubSeq(q, 1, n)
      OBVIOUS
    <3>3. IsSeq(cut) /\ Len(cut) = n /\ DOMAIN cut = 1..n /\ \A i \in 1..n : cut[i] = q[i]
      BY <3>1, <3>2, Shorter
    <3>4. QED
      BY <1>4, <3>2, <3>3
  <2>2. Paired(read)
    BY <1>4, <1>6, <1>8, ShortenedPairs
  <2>3. \A i \in 1..n : i \in DOMAIN q
    <3>1. DOMAIN q = 1..Len(q)
      BY <1>6 DEF IsSeq
    <3>2. QED
      BY <1>6, <1>8, <3>1
  <2>4. Since(read, clears)
    BY <1>6, <2>1, <2>3 DEF Since
  <2>5. QED
    BY <2>1, <2>2, <2>4
<1>11. filled \in Nat /\ filled \div FrameLen \in Nat /\ filled % FrameLen \in Nat
  <2>1. filled \in Nat
    BY <1>3, <1>4, <1>8, <1>10
  <2>2. FrameLen \in Nat \ {0} /\ FrameLen - 1 \in Nat
    BY MeterAssumption
  <2>3. filled \div FrameLen \in Nat /\ filled % FrameLen \in 0..(FrameLen - 1)
    BY <2>1, <2>2, Division
  <2>4. QED
    BY <2>1, <2>2, <2>3
<1>12. PICK loud \in [1..(filled \div FrameLen) -> BOOLEAN] :
         \E open :
           thread' = [t EXCEPT
                        !.pc = "check", !.filled = filled % FrameLen, !.open = open,
                        !.pending = Batched(t, loud).pending,
                        !.combined = Batched(t, loud).combined,
                        !.shown = Batched(t, loud).shown, !.read = read]
  BY <1>1
<1>13. PICK sent : sent = Batched(t, loud)
  OBVIOUS
<1>14. Rests(sent)
  BY <1>2, <1>11, <1>13, BatchedRests
<1>15. /\ AnyThread(thread') /\ thread'.pc = "check" /\ thread'.id = t.id
       /\ thread'.filled = filled % FrameLen /\ thread'.ring = s /\ thread'.read = read
       /\ thread'.pending = sent.pending /\ thread'.combined = sent.combined
       /\ thread'.shown = sent.shown
  <2>1. PICK open, left :
          /\ left = filled % FrameLen
          /\ thread' = [t EXCEPT
                          !.pc = "check", !.filled = left, !.open = open,
                          !.pending = sent.pending, !.combined = sent.combined,
                          !.shown = sent.shown, !.read = read]
    BY <1>12, <1>13
  <2>2. /\ DOMAIN t = {"id", "run", "pc", "ring", "filled", "pending", "combined", "sent",
                       "shown", "open", "read"}
        /\ t.id \in Nat
    BY <1>2 DEF AnyThread
  <2>3. DOMAIN thread' = DOMAIN t
    BY <2>1
  <2>4. /\ thread'.id = t.id /\ thread'.ring = t.ring /\ thread'.pc = "check"
        /\ thread'.filled = left /\ thread'.read = read
    BY <2>1, <2>2
  <2>5. /\ thread'.pending = sent.pending /\ thread'.combined = sent.combined
        /\ thread'.shown = sent.shown
    BY <2>1, <2>2
  <2>6. AnyThread(thread')
    BY <2>2, <2>3, <2>4 DEF AnyThread
  <2>7. QED
    BY <1>4, <2>1, <2>4, <2>5, <2>6
<1>16. Rests(thread')
  BY <1>14, <1>15 DEF Rests
<1>17. IsSeq(rest) /\ Paired(rest) /\ Len(rest) <= RingSamples
       /\ (Since(q, clears) => Since(rest, clears)) /\ (q = <<>> => rest = <<>>)
  <2>1. IsSeq(rest) /\ Paired(rest) /\ Len(rest) <= Len(q)
        /\ \A m : Since(q, m) => Since(rest, m)
    BY <1>4, <1>6, <1>8, <1>10, RemainingPairs
  <2>2. Len(rest) \in Nat /\ (Len(rest) = 0 => rest = <<>>)
    BY <2>1 DEF IsSeq
  <2>3. QED
    BY <1>6, <2>1, <2>2, MeterAssumption
<1>18. DOMAIN ring' = Streams /\ ring'[s] = rest
       /\ \A r \in Streams : r # s => ring'[r] = ring[r]
  BY <1>1, <1>3 DEF Measured, RingsAreTrue
<1>19. TapIsKnown'
  BY <1>1 DEF Measured, TapIsKnown
<1>20. RingsAreTrue'
  <2>1. ASSUME NEW r \in Streams
        PROVE  /\ IsSeq(ring'[r]) /\ Len(ring'[r]) <= RingSamples /\ Paired(ring'[r])
               /\ r > tap.stream => ring'[r] = <<>>
    BY <1>4, <1>17, <1>18 DEF Measured, RingsAreTrue
  <2>2. tap'.stream = tap.stream
    BY <1>1
  <2>3. QED
    BY <1>18, <2>1, <2>2 DEF RingsAreTrue
<1>21. RingsAreNew'
  <2>1. \A r \in Streams : Since(ring[r], clears) => Since(ring'[r], clears)
    BY <1>4, <1>17, <1>18
  <2>2. UNCHANGED <<slot, hub, clears>> /\ thread'.ring = thread.ring
    BY <1>1, <1>4, <1>15
  <2>3. /\ slot \in Streams \cup {None} /\ thread.ring \in Streams \cup {None}
        /\ \A r \in {slot, thread.ring} \ {None} : Since(ring[r], clears)
    BY <1>2 DEF Measured, RingsAreNew
  <2>4. thread'.id = clears /\ thread'.pc = "check"
    BY <1>2, <1>15
  <2>5. QED
    BY <1>2, <2>1, <2>2, <2>3, <2>4 DEF RingsAreNew
<1>22. ReadIsTrue'
  BY <1>1, <1>10, <1>11, <1>15, <1>16 DEF ReadIsTrue
<1>23. QED
  BY <1>19, <1>20, <1>21, <1>22 DEF Measured

-----------------------------------------------------------------------------
(* The steps of the hub, and the whole.                                    *)

LEMMA InitMeasured == Init => Measured
<1> SUFFICES ASSUME Init PROVE Measured
  OBVIOUS
<1>1. TapIsKnown
  <2>1. 0 - 0 = 0 /\ 0 % Channels[1] = 0
    BY StreamsAre
  <2>2. QED
    BY <2>1, StreamsAre DEF Init, Tap, TapIsKnown
<1>2. RingsAreTrue
  BY EmptyQueue, MeterAssumption DEF Init, RingsAreTrue
<1>3. RingsAreNew /\ ReadIsTrue
  BY StreamsAre DEF Init, RingsAreNew, ReadIsTrue
<1>4. QED
  BY <1>1, <1>2, <1>3, InitIInv DEF Measured

LEMMA HubMeasured ==
  ASSUME Measured, IInv', Hub
  PROVE  Measured'
<1>1. ASSUME NEW c \in commands, BeginCommand(c)
      PROVE  Measured'
  <2>1. TapIsKnown' /\ tap' = tap /\ UNCHANGED <<slot, ring, thread, clears>>
        /\ hub'.pc # "launching"
    BY <1>1 DEF BeginCommand, audio, Measured, TapIsKnown
  <2>2. QED
    BY <2>1, Undone
<1>2. CASE Join
  <2>1. /\ UNCHANGED <<tap, ring, slot, clears>> /\ ~Analysing' /\ hub'.pc # "launching"
    BY <1>2 DEF Join, audio
  <2>2. TapIsKnown' /\ RingsAreTrue'
    BY <2>1 DEF Measured, TapIsKnown, RingsAreTrue
  <2>3. RingsAreNew' /\ ReadIsTrue'
    BY <2>1 DEF Measured, RingsAreNew, ReadIsTrue
  <2>4. QED
    BY <2>2, <2>3 DEF Measured
<1>3. CASE Clear
  <2>1. ~Analysing /\ slot = tap.stream /\ slot \in Streams /\ slot # None
    BY <1>3, StreamsAre DEF Clear, Measured, IInv, OneThread, NewestRingIsKept, TapIsKnown
  <2>2. ring' = [ring EXCEPT ![slot] = <<>>] /\ UNCHANGED <<tap, slot, thread>>
    BY <1>3, <2>1 DEF Clear, Cleared
  <2>3. DOMAIN ring' = Streams /\ ring'[slot] = <<>>
        /\ \A r \in Streams : r # slot => ring'[r] = ring[r]
    BY <2>1, <2>2 DEF Measured, RingsAreTrue
  <2>4. TapIsKnown'
    BY <2>2 DEF Measured, TapIsKnown
  <2>5. RingsAreTrue'
    <3>1. ASSUME NEW r \in Streams
          PROVE  /\ IsSeq(ring'[r]) /\ Len(ring'[r]) <= RingSamples /\ Paired(ring'[r])
                 /\ r > tap.stream => ring'[r] = <<>>
      BY <2>3, EmptyQueue, MeterAssumption DEF Measured, RingsAreTrue
    <3>2. QED
      BY <2>2, <2>3, <3>1 DEF RingsAreTrue
  <2>6. RingsAreNew' /\ ReadIsTrue'
    BY <2>1, <2>2, <2>3, EmptyQueue DEF RingsAreNew, ReadIsTrue
  <2>7. QED
    BY <2>4, <2>5, <2>6 DEF Measured
<1>4. CASE Launch
  <2>1. ~Analysing /\ slot = tap.stream /\ slot \in Streams /\ Since(ring[slot], clears)
    BY <1>4, StreamsAre
       DEF Launch, Measured, IInv, OneThread, NewestRingIsKept, TapIsKnown, RingsAreNew
  <2>2. /\ UNCHANGED <<tap, ring, slot, clears>> /\ hub'.pc # "launching"
        /\ thread' = Thread(clears, hub.command.run)
    BY <1>4 DEF Launch, audio
  <2>3. TapIsKnown' /\ RingsAreTrue'
    BY <2>2 DEF Measured, TapIsKnown, RingsAreTrue
  <2>4. /\ thread'.id = clears /\ thread'.ring = None /\ thread'.pc = "check"
        /\ thread'.read = <<>> /\ thread'.filled = 0
    BY <2>2 DEF Thread
  <2>5. Rests(thread')
    BY <2>2 DEF Thread, Rests, AnyThread, Measured, IInv, OneThread
  <2>6. RingsAreNew'
    BY <2>1, <2>2, <2>4 DEF RingsAreNew
  <2>7. ReadIsTrue'
    BY <2>2, <2>4, <2>5, EmptyQueue DEF ReadIsTrue
  <2>8. QED
    BY <2>3, <2>6, <2>7 DEF Measured
<1>5. QED
  BY <1>1, <1>2, <1>3, <1>4 DEF Hub

LEMMA NextMeasured == Measured /\ [Next]_vars => Measured'
<1> SUFFICES ASSUME Measured, [Next]_vars PROVE Measured'
  OBVIOUS
<1>1. IInv'
  BY NextIInv DEF Measured
<1>2. CASE NewTap
  BY <1>1, <1>2, NewTapMeasured
<1>3. CASE Callback
  <2>1. CASE Push
    BY <1>1, <2>1, CopiedMeasured, SkippedMeasured
  <2>2. QED
    BY <1>1, <1>3, <2>1, ReadActiveMeasured DEF Callback
<1>4. CASE Analysis
  BY <1>1, <1>4, ThreadMeasured, ReadMeasured DEF Analysis
<1>5. CASE Hub
  BY <1>1, <1>5, HubMeasured
<1>6. CASE UNCHANGED <<tap, slot, ring, thread, clears, hub>>
  <2>1. TapIsKnown' /\ tap'.stream = tap.stream
    BY <1>6 DEF Measured, TapIsKnown
  <2>2. QED
    BY <1>1, <1>6, <2>1, Undone
<1>7. ASSUME NEW a \in answers, Answer(a)
      PROVE  Measured'
  BY <1>6, <1>7 DEF Answer, audio
<1>8. CASE Activate \/ Deactivate \/ Reload \/ UNCHANGED vars
  BY <1>6, <1>8 DEF Activate, Deactivate, Reload, vars, audio
<1>9. QED
  BY <1>2, <1>3, <1>4, <1>5, <1>7, <1>8 DEF Next, Replies

(* What a subscription measures was played since it began, pairs are of    *)
(* one frame if only whole frames passed by before, and the page rests     *)
(* after a silent frame.                                                   *)
THEOREM MeasuresTrue == Spec => []FramesAreTrue
<1>1. Measured => FramesAreTrue
  <2> SUFFICES ASSUME Measured, Analysing PROVE FramesAreTrue
    BY DEF FramesAreTrue
  <2>1. /\ thread.shown = thread.combined /\ thread.id = clears
        /\ IsSeq(thread.read) /\ Paired(thread.read) /\ Since(thread.read, clears)
    BY DEF Measured, RingsAreNew, ReadIsTrue, Rests
  <2>2. PICK q : q = thread.read
    OBVIOUS
  <2>3. Len(q) \in Nat /\ DOMAIN q = 1..Len(q)
    BY <2>1, <2>2 DEF IsSeq
  <2>4. ASSUME NEW i \in 1..(Len(q) \div 2), q[2 * i - 1].whole, q[2 * i].whole
        PROVE  OneFrame(q[2 * i - 1].sample, q[2 * i].sample)
    <3>1. PICK j : j = 2 * i - 1
      OBVIOUS
    <3>2. j \in DOMAIN q /\ j % 2 = 1 /\ j + 1 = 2 * i
      <4>1. i \in Nat /\ i >= 1 /\ i <= Len(q) \div 2
        BY <2>3
      <4>2. 2 * i <= Len(q)
        BY ONLY <2>3, <4>1
      <4>3. QED
        BY ONLY <2>3, <3>1, <4>1, <4>2
    <3>3. QED
      BY <2>1, <2>2, <2>4, <3>1, <3>2 DEF Paired
  <2>5. QED
    BY <2>1, <2>2, <2>4 DEF FramesAreTrue, Since, OneFrame
<1>2. QED
  BY <1>1, InitMeasured, NextMeasured, PTL DEF Spec

-----------------------------------------------------------------------------
(* The output stream.                                                      *)

LEMMA LeastNumber ==
  ASSUME NEW S, S \subseteq Nat, S # {}
  PROVE  \E x \in S : \A y \in S : x <= y
<1>1. IsWellFoundedOn(OpToRel(<, Nat), Nat)
  BY NatLessThanWellFounded
<1>2. PICK x \in S : \A y \in S : <<y, x>> \notin OpToRel(<, Nat)
  BY <1>1, WFMin
<1>3. \A y \in S : ~(y < x)
  BY <1>2 DEF OpToRel
<1>4. QED
  BY <1>3

LEMMA MinOfTwo ==
  ASSUME NEW a \in Nat, NEW b \in Nat
  PROVE  Min({a, b}) \in {a, b} /\ Min({a, b}) <= a /\ Min({a, b}) <= b
<1>1. \E x \in {a, b} : \A y \in {a, b} : x <= y
  OBVIOUS
<1>2. QED
  BY <1>1 DEF Min

LEMMA MaxOfTwo ==
  ASSUME NEW a \in Nat, NEW b \in Nat
  PROVE  Max({a, b}) \in {a, b} /\ Max({a, b}) >= a /\ Max({a, b}) >= b
<1>1. \E x \in {a, b} : \A y \in {a, b} : x >= y
  OBVIOUS
<1>2. QED
  BY <1>1 DEF Max

(* A function that is repeated on a set stays in it.                       *)
LEMMA RepeatedStays ==
  ASSUME NEW X, NEW n \in Nat, NEW f, f[0] \in X,
         \A k \in 1..n : f[k - 1] \in X => f[k] \in X
  PROVE  \A k \in 0..n : f[k] \in X
<1> DEFINE S == {k \in 0..n : f[k] \notin X}
<1>1. SUFFICES ASSUME S # {} PROVE FALSE
  OBVIOUS
<1>2. PICK k \in S : \A j \in S : k <= j
  <2>1. S \subseteq Nat
    OBVIOUS
  <2>2. QED
    BY <1>1, <2>1, LeastNumber
<1>3. k \in 0..n /\ f[k] \notin X
  BY <1>2
<1>4. k # 0 /\ k - 1 \in 0..n /\ k - 1 \notin S /\ k \in 1..n
  BY <1>2, <1>3
<1>5. QED
  BY <1>3, <1>4

(* The recursion of a function that is repeated has a solution.            *)
Repetitions(X, first, step, n) ==
  {f \in [0..n -> X] : f[0] = first /\ \A k \in 1..n : f[k] = step[f[k - 1]]}

LEMMA RepeatedDefined ==
  ASSUME NEW X, NEW first \in X, NEW step \in [X -> X], NEW n \in Nat
  PROVE  Repetitions(X, first, step, n) # {}
<1>0. SUFFICES \E f \in [0..n -> X] : f[0] = first /\ \A k \in 1..n : f[k] = step[f[k - 1]]
  BY DEF Repetitions
<1> DEFINE Solved(m, f) == /\ f \in [0..m -> X] /\ f[0] = first
                           /\ \A k \in 1..m : f[k] = step[f[k - 1]]
           S == {m \in Nat : ~ \E f : Solved(m, f)}
<1> HIDE DEF Solved
<1>1. SUFFICES ASSUME S # {} PROVE FALSE
  BY DEF Solved
<1>2. PICK m \in S : \A k \in S : m <= k
  BY <1>1, LeastNumber
<1>3. m \in Nat /\ ~ \E f : Solved(m, f)
  BY <1>2
<1>4. CASE m = 0
  <2>1. Solved(0, [k \in 0..0 |-> first])
    BY DEF Solved
  <2>2. QED
    BY <1>3, <1>4, <2>1
<1>5. CASE m > 0
  <2>1. m - 1 \in Nat /\ m - 1 \notin S
    <3>1. m - 1 \in Nat /\ ~(m <= m - 1)
      BY <1>3, <1>5
    <3>2. QED
      BY <1>2, <3>1
  <2>2. PICK before : Solved(m - 1, before)
    BY <2>1
  <2>3. before[m - 1] \in X /\ step[before[m - 1]] \in X
    BY <2>1, <2>2 DEF Solved
  <2>4. PICK f : f = [k \in 0..m |-> IF k = m THEN step[before[m - 1]] ELSE before[k]]
    OBVIOUS
  <2>5. f \in [0..m -> X]
    <3>1. \A k \in 0..m : k = m \/ k \in 0..(m - 1)
      BY <1>3
    <3>2. QED
      BY <2>2, <2>3, <2>4, <3>1 DEF Solved
  <2>6. f[m] = step[before[m - 1]] /\ \A k \in 0..(m - 1) : f[k] = before[k]
    BY <1>3, <1>5, <2>4
  <2>7. f[0] = first
    BY <1>3, <1>5, <2>2, <2>6 DEF Solved
  <2>8. ASSUME NEW k \in 1..m PROVE f[k] = step[f[k - 1]]
    <3>1. k - 1 \in 0..(m - 1) /\ (k = m \/ (k \in 1..(m - 1) /\ k \in 0..(m - 1)))
      BY <1>3
    <3>2. f[k - 1] = before[k - 1]
      BY <2>6, <3>1
    <3>3. QED
      BY <2>2, <2>6, <3>1, <3>2 DEF Solved
  <2>9. QED
    BY <1>3, <2>5, <2>7, <2>8 DEF Solved
<1>6. QED
  BY <1>3, <1>4, <1>5

(* A property of the numbers up to n, from one to the next.                *)
LEMMA UpToHolds ==
  ASSUME NEW n \in Nat, NEW S, 0 \in S, \A k \in 1..n : k - 1 \in S => k \in S
  PROVE  \A k \in 0..n : k \in S
<1>1. PICK f : f = [k \in 0..n |-> k]
  OBVIOUS
<1>2. \A k \in 0..n : f[k] = k
  BY <1>1
<1>3. \A k \in 1..n : f[k - 1] \in S => f[k] \in S
  <2>1. \A k \in 1..n : f[k] = k /\ f[k - 1] = k - 1
    BY <1>2
  <2>2. QED
    BY <2>1
<1>4. f[0] \in S
  BY <1>2
<1>5. \A k \in 0..n : f[k] \in S
  BY <1>3, <1>4, RepeatedStays
<1>6. QED
  BY <1>2, <1>5

(* The states of a resampler.                                              *)
Resamplings == [input : Nat, delay : Nat, emitted : Nat]
ChunkSizes == [input : Nat \ {0}, output : Nat, delay : Nat]

LEMMA ProcessIs ==
  ASSUME NEW s \in Resamplings, NEW chunks \in ChunkSizes
  PROVE  Process(s, chunks) \in Resamplings
<1>1. PICK skipped : skipped = Min({s.delay, chunks.output})
  OBVIOUS
<1>2. /\ s.delay \in Nat /\ chunks.output \in Nat /\ s.emitted \in Nat
  BY DEF Resamplings, ChunkSizes
<1>3. skipped \in Nat /\ skipped <= s.delay /\ skipped <= chunks.output
  BY <1>1, <1>2, MinOfTwo
<1>4. s.delay - skipped \in Nat /\ s.emitted + chunks.output - skipped \in Nat
  BY <1>2, <1>3
<1>5. QED
  BY <1>1, <1>4 DEF Process, Resamplings

LEMMA PushFrameIs ==
  ASSUME NEW s \in Resamplings, NEW chunks \in ChunkSizes
  PROVE  PushFrame(s, chunks) \in Resamplings
<1>1. PICK filled : filled = [s EXCEPT !.input = @ + 1]
  OBVIOUS
<1>2. filled \in Resamplings
  BY <1>1 DEF Resamplings
<1>3. QED
  BY <1>1, <1>2, ProcessIs DEF PushFrame

CutTo(state, expected, s) ==
  [s EXCEPT !.emitted = Max({state.emitted, Min({@, expected})})]
PadStep(state, chunks, expected, s) ==
  IF s.emitted < expected THEN CutTo(state, expected, Process(s, chunks)) ELSE s

(* What a chunk that leaves the resampler changes.                         *)
LEMMA ProcessMoves ==
  ASSUME NEW s \in Resamplings, NEW chunks \in ChunkSizes, NEW r, r = Process(s, chunks)
  PROVE  /\ r \in Resamplings /\ r.input = 0
         /\ r.delay <= s.delay /\ r.emitted >= s.emitted
         /\ r.emitted + s.delay = s.emitted + chunks.output + r.delay
<1>1. PICK skipped : skipped = Min({s.delay, chunks.output})
  OBVIOUS
<1>2. /\ s.delay \in Nat /\ chunks.output \in Nat /\ s.emitted \in Nat
  BY DEF Resamplings, ChunkSizes
<1>3. skipped \in Nat /\ skipped <= s.delay /\ skipped <= chunks.output
  BY <1>1, <1>2, MinOfTwo
<1>4. /\ r.input = 0 /\ r.delay = s.delay - skipped
      /\ r.emitted = s.emitted + chunks.output - skipped
  BY <1>1 DEF Process
<1>5. QED
  BY <1>2, <1>3, <1>4, ProcessIs

LEMMA CutIs ==
  ASSUME NEW state \in Resamplings, NEW expected \in Nat, NEW s \in Resamplings,
         state.emitted <= expected, state.emitted <= s.emitted,
         NEW r, r = CutTo(state, expected, s)
  PROVE  /\ r \in Resamplings /\ r.delay = s.delay
         /\ state.emitted <= r.emitted /\ r.emitted <= expected
         /\ r.emitted \in {s.emitted, expected}
<1>1. state.emitted \in Nat /\ s.emitted \in Nat
  BY DEF Resamplings
<1>2. PICK low : low = Min({s.emitted, expected})
  OBVIOUS
<1>3. low \in {s.emitted, expected} /\ low <= s.emitted /\ low <= expected /\ low \in Nat
  BY <1>1, <1>2, MinOfTwo
<1>4. PICK high : high = Max({state.emitted, low})
  OBVIOUS
<1>5. high \in {state.emitted, low} /\ high >= state.emitted /\ high >= low
  BY <1>1, <1>3, <1>4, MaxOfTwo
<1>6. high \in Nat /\ high = low
  BY <1>1, <1>3, <1>5
<1>7. r = [s EXCEPT !.emitted = high]
  BY <1>2, <1>4 DEF CutTo
<1>8. r \in Resamplings /\ r.delay = s.delay /\ r.emitted = high
  BY <1>6, <1>7 DEF Resamplings
<1>9. QED
  BY <1>1, <1>3, <1>5, <1>6, <1>8

Padded(first, chunks, state, expected, n, pad) ==
  pad = [k \in 0..n |->
           IF k = 0 THEN first
           ELSE IF pad[k - 1].emitted < expected
           THEN [Process(pad[k - 1], chunks) EXCEPT
                   !.emitted = Max({state.emitted, Min({@, expected})})]
           ELSE pad[k - 1]]

(* The recursion by which a resampler is flushed, as its steps.            *)
LEMMA FlushSteps ==
  ASSUME NEW state \in Resamplings, NEW chunks \in ChunkSizes, NEW expected \in Nat,
         NEW n, n = chunks.delay + expected
  PROVE  \E pad :
           /\ pad[0] = CutTo(state, expected,
                             IF state.input > 0 THEN Process(state, chunks) ELSE state)
           /\ \A k \in 1..n : pad[k] = PadStep(state, chunks, expected, pad[k - 1])
           /\ \A k \in 0..n : pad[k] \in Resamplings
           /\ Flush(state, chunks, expected) = pad[n]
<1> DEFINE Cut(s) == [s EXCEPT !.emitted = Max({state.emitted, Min({@, expected})})]
<1>1. \A s \in Resamplings : Cut(s) \in Resamplings
  <2>1. ASSUME NEW s \in Resamplings PROVE Cut(s) \in Resamplings
    <3>1. s.emitted \in Nat /\ state.emitted \in Nat
      BY DEF Resamplings
    <3>2. Min({s.emitted, expected}) \in Nat
      BY <3>1, MinOfTwo
    <3>3. Max({state.emitted, Min({s.emitted, expected})}) \in Nat
      BY <3>1, <3>2, MaxOfTwo
    <3>4. QED
      BY <3>3 DEF Resamplings
  <2>2. QED
    BY <2>1
<1>2. n \in Nat
  BY DEF ChunkSizes
<1>3. PICK first : first = Cut(IF state.input > 0 THEN Process(state, chunks) ELSE state)
  OBVIOUS
<1>4. first \in Resamplings
  <2>1. (IF state.input > 0 THEN Process(state, chunks) ELSE state) \in Resamplings
    BY ProcessIs
  <2>2. QED
    BY <1>1, <1>3, <2>1
<1> DEFINE Step(s) == IF s.emitted < expected THEN Cut(Process(s, chunks)) ELSE s
<1>5. \A s \in Resamplings : Step(s) \in Resamplings
  BY <1>1, ProcessIs
<1> HIDE DEF Step, Cut
<1>6. PICK step : step = [s \in Resamplings |-> Step(s)]
  OBVIOUS
<1>7. step \in [Resamplings -> Resamplings]
  BY <1>5, <1>6
<1>8. PICK f \in [0..n -> Resamplings] :
          f[0] = first /\ \A k \in 1..n : f[k] = step[f[k - 1]]
  <2>1. PICK h \in Repetitions(Resamplings, first, step, n) : TRUE
    BY <1>2, <1>4, <1>7, RepeatedDefined
  <2>2. /\ h \in [0..n -> Resamplings]
        /\ h[0] = first /\ \A k \in 1..n : h[k] = step[h[k - 1]]
    BY <2>1 DEF Repetitions
  <2>3. QED
    BY <2>2
<1>9. Padded(first, chunks, state, expected, n, f)
  <2>1. ASSUME NEW k \in 0..n
        PROVE  f[k] = IF k = 0 THEN first ELSE Step(f[k - 1])
    <3>1. CASE k = 0
      BY <1>8, <3>1
    <3>2. CASE k # 0
      <4>1. k \in 1..n /\ k - 1 \in 0..n
        BY <1>2, <3>2
      <4>2. f[k - 1] \in Resamplings
        BY <1>8, <4>1
      <4>3. QED
        BY <1>6, <1>8, <3>2, <4>1, <4>2
    <3>3. QED
      BY <3>1, <3>2
  <2>2. f = [k \in 0..n |-> f[k]]
    BY <1>8
  <2>3. QED
    BY <2>1, <2>2 DEF Padded, Step, Cut
<1>10. PICK pad : /\ Padded(first, chunks, state, expected, n, pad)
                  /\ Flush(state, chunks, expected) = pad[n]
  <2>1. Flush(state, chunks, expected) =
          (CHOOSE pad : Padded(first, chunks, state, expected, n, pad))[n]
    BY <1>3 DEF Flush, Padded, Cut
  <2>2. QED
    BY <1>9, <2>1
<1>11. /\ pad[0] = first
       /\ \A k \in 1..n : pad[k] = Step(pad[k - 1])
  <2>1. \A k \in 0..n : pad[k] = IF k = 0 THEN first ELSE Step(pad[k - 1])
    BY <1>10, Zenon DEF Padded, Step, Cut
  <2>2. 0 \in 0..n /\ \A k \in 1..n : k \in 0..n /\ k # 0
    BY <1>2
  <2>3. QED
    BY <2>1, <2>2, Zenon
<1>12. \A k \in 1..n : pad[k - 1] \in Resamplings => pad[k] \in Resamplings
  BY <1>5, <1>11, Zenon
<1>13. \A k \in 0..n : pad[k] \in Resamplings
  BY <1>2, <1>4, <1>11, <1>12, RepeatedStays
<1>14. \A k \in 1..n : pad[k] = PadStep(state, chunks, expected, pad[k - 1])
  BY <1>11, Zenon DEF Step, Cut, PadStep, CutTo
<1>15. pad[0] = CutTo(state, expected,
                      IF state.input > 0 THEN Process(state, chunks) ELSE state)
  BY <1>3, <1>11, Zenon DEF Cut, CutTo
<1>16. QED
  BY <1>10, <1>13, <1>14, <1>15

(* Each chunk of silence takes away from the delay or emits a frame, so    *)
(* that there are enough of them: what comes out is what was expected.     *)
LEMMA FlushIsExact ==
  ASSUME NEW state \in Resamplings, NEW chunks \in ChunkSizes, NEW expected \in Nat,
         chunks.output > 0, state.delay <= chunks.delay, state.emitted <= expected
  PROVE  Flush(state, chunks, expected).emitted = expected
<1>1. PICK n : n = chunks.delay + expected
  OBVIOUS
<1>2. chunks.delay \in Nat /\ n \in Nat /\ chunks.output \in Nat
  BY <1>1 DEF ChunkSizes
<1>3. PICK pad :
        /\ pad[0] = CutTo(state, expected,
                          IF state.input > 0 THEN Process(state, chunks) ELSE state)
        /\ \A k \in 1..n : pad[k] = PadStep(state, chunks, expected, pad[k - 1])
        /\ \A k \in 0..n : pad[k] \in Resamplings
        /\ Flush(state, chunks, expected) = pad[n]
  BY <1>1, FlushSteps
<1> DEFINE Near(k, s) ==
      /\ state.emitted <= s.emitted /\ s.emitted <= expected
      /\ s.emitted = expected \/ s.delay + expected + k <= n + s.emitted
    S == {k \in 0..n : Near(k, pad[k])}
<1>4. 0 \in S
  <2>1. PICK s : s = IF state.input > 0 THEN Process(state, chunks) ELSE state
    OBVIOUS
  <2>2. s \in Resamplings /\ s.delay <= state.delay /\ state.emitted <= s.emitted
    <3>1. CASE state.input > 0
      BY <2>1, <3>1, ProcessMoves
    <3>2. CASE ~(state.input > 0)
      BY <2>1, <3>2 DEF Resamplings
    <3>3. QED
      BY <3>1, <3>2
  <2>3. PICK r : r = CutTo(state, expected, s)
    OBVIOUS
  <2>4. /\ r.delay = s.delay /\ state.emitted <= r.emitted /\ r.emitted <= expected
        /\ r \in Resamplings
    BY <2>2, <2>3, CutIs
  <2>5. /\ r.delay \in Nat /\ r.emitted \in Nat /\ s.delay \in Nat
        /\ state.delay \in Nat
    BY <2>2, <2>4 DEF Resamplings
  <2>6. r.delay + expected + 0 <= n + r.emitted
    BY <1>1, <1>2, <2>2, <2>4, <2>5
  <2>7. Near(0, r) /\ pad[0] = r
    BY <1>3, <2>1, <2>3, <2>4, <2>6
  <2>8. QED
    BY <1>2, <2>7
<1>5. ASSUME NEW k \in 1..n, k - 1 \in S
      PROVE  k \in S
  <2>1. PICK s : s = pad[k - 1]
    OBVIOUS
  <2>2. PICK r : r = pad[k]
    OBVIOUS
  <2>3. s \in Resamplings /\ Near(k - 1, s) /\ r = PadStep(state, chunks, expected, s)
    <3>1. k - 1 \in 0..n
      BY <1>5
    <3>2. QED
      BY <1>3, <1>5, <2>1, <2>2, <3>1
  <2>4. CASE s.emitted = expected
    <3>1. r = s
      BY <2>3, <2>4 DEF PadStep
    <3>2. Near(k, r)
      BY <2>3, <2>4, <3>1
    <3>3. QED
      BY <1>2, <2>2, <3>2
  <2>5. CASE s.emitted # expected
    <3>1. s.emitted \in Nat /\ s.delay \in Nat /\ s.emitted < expected
          /\ s.delay + expected + (k - 1) <= n + s.emitted /\ state.emitted \in Nat
      BY <2>3, <2>5 DEF Resamplings
    <3>2. PICK u : u = Process(s, chunks)
      OBVIOUS
    <3>3. /\ u \in Resamplings /\ u.emitted >= s.emitted
          /\ u.emitted + s.delay = s.emitted + chunks.output + u.delay
      BY <2>3, <3>2, ProcessMoves
    <3>4. r = CutTo(state, expected, u)
      BY <2>3, <3>1, <3>2 DEF PadStep
    <3>5. u.emitted \in Nat /\ u.delay \in Nat /\ state.emitted <= u.emitted
      BY <2>3, <3>1, <3>3 DEF Resamplings
    <3>6. /\ r.delay = u.delay /\ state.emitted <= r.emitted /\ r.emitted <= expected
          /\ r.emitted \in {u.emitted, expected}
      BY <3>3, <3>4, <3>5, CutIs
    <3>7. r.emitted = u.emitted => r.delay + expected + k <= n + r.emitted
      BY <1>2, <3>1, <3>3, <3>5, <3>6
    <3>8. Near(k, r)
      BY <3>6, <3>7
    <3>9. QED
      BY <1>2, <2>2, <3>8
  <2>6. QED
    BY <2>4, <2>5
<1> HIDE DEF S
<1>6. \A k \in 0..n : k \in S
  BY <1>2, <1>4, <1>5, UpToHolds
<1>7. Near(n, pad[n]) /\ pad[n] \in Resamplings
  BY <1>2, <1>3, <1>6 DEF S
<1>8. pad[n].emitted \in Nat /\ pad[n].delay \in Nat
  BY <1>7 DEF Resamplings
<1>9. pad[n].emitted = expected
  BY <1>2, <1>7, <1>8
<1>10. QED
  BY <1>3, <1>9

PushedUpTo(chunks, n, f) ==
  f = [k \in 0..n |-> IF k = 0 THEN [input |-> 0, delay |-> chunks.delay, emitted |-> 0]
                      ELSE PushFrame(f[k - 1], chunks)]

(* The recursion by which frames are resampled, as its steps.              *)
LEMMA ResampledSteps ==
  ASSUME NEW chunks \in ChunkSizes, NEW n \in Nat, NEW expected \in Nat
  PROVE  \E f :
           /\ f[0] = [input |-> 0, delay |-> chunks.delay, emitted |-> 0]
           /\ \A k \in 1..n : f[k] = PushFrame(f[k - 1], chunks)
           /\ \A k \in 0..n : f[k] \in Resamplings
           /\ Resampled(chunks, n, expected) =
                IF n = 0 THEN 0 ELSE Flush(f[n], chunks, expected).emitted
<1>1. PICK first : first = [input |-> 0, delay |-> chunks.delay, emitted |-> 0]
  OBVIOUS
<1>2. first \in Resamplings
  BY <1>1 DEF Resamplings, ChunkSizes
<1>3. PICK step : step = [s \in Resamplings |-> PushFrame(s, chunks)]
  OBVIOUS
<1>4. step \in [Resamplings -> Resamplings]
  BY <1>3, PushFrameIs
<1>5. PICK g \in [0..n -> Resamplings] :
          g[0] = first /\ \A k \in 1..n : g[k] = step[g[k - 1]]
  <2>1. PICK h \in Repetitions(Resamplings, first, step, n) : TRUE
    BY <1>2, <1>4, RepeatedDefined
  <2>2. /\ h \in [0..n -> Resamplings]
        /\ h[0] = first /\ \A k \in 1..n : h[k] = step[h[k - 1]]
    BY <2>1 DEF Repetitions
  <2>3. QED
    BY <2>2
<1>6. PushedUpTo(chunks, n, g)
  <2>1. ASSUME NEW k \in 0..n
        PROVE  g[k] = IF k = 0 THEN first ELSE PushFrame(g[k - 1], chunks)
    <3>1. CASE k = 0
      BY <1>5, <3>1
    <3>2. CASE k # 0
      <4>1. k \in 1..n /\ k - 1 \in 0..n
        BY <3>2
      <4>2. g[k - 1] \in Resamplings
        BY <1>5, <4>1
      <4>3. QED
        BY <1>3, <1>5, <3>2, <4>1, <4>2
    <3>3. QED
      BY <3>1, <3>2
  <2>2. g = [k \in 0..n |-> g[k]]
    BY <1>5
  <2>3. QED
    BY <1>1, <2>1, <2>2 DEF PushedUpTo
<1>7. PICK f : /\ PushedUpTo(chunks, n, f)
               /\ Resampled(chunks, n, expected) =
                    IF n = 0 THEN 0 ELSE Flush(f[n], chunks, expected).emitted
  <2>1. Resampled(chunks, n, expected) =
          IF n = 0 THEN 0
          ELSE Flush((CHOOSE f : PushedUpTo(chunks, n, f))[n], chunks, expected).emitted
    BY DEF Resampled, PushedUpTo
  <2>2. QED
    BY <1>6, <2>1
<1>8. /\ f[0] = first
      /\ \A k \in 1..n : f[k] = PushFrame(f[k - 1], chunks)
  <2>1. \A k \in 0..n : f[k] = IF k = 0 THEN first ELSE PushFrame(f[k - 1], chunks)
    BY <1>1, <1>7, Zenon DEF PushedUpTo
  <2>2. 0 \in 0..n /\ \A k \in 1..n : k \in 0..n /\ k # 0
    OBVIOUS
  <2>3. QED
    BY <2>1, <2>2, Zenon
<1>9. \A k \in 1..n : f[k - 1] \in Resamplings => f[k] \in Resamplings
  BY <1>8, PushFrameIs
<1>10. \A k \in 0..n : f[k] \in Resamplings
  BY <1>2, <1>8, <1>9, RepeatedStays
<1>11. QED
  BY <1>1, <1>7, <1>8, <1>10

(* Products and quotients.                                                 *)
LEMMA ProductIs ==
  ASSUME NEW a \in Nat, NEW b \in Nat
  PROVE  a * b \in Nat
OBVIOUS

LEMMA DividedIs ==
  ASSUME NEW a \in Nat, NEW b \in Nat \ {0}
  PROVE  a \div b \in Nat
OBVIOUS

LEMMA OnceMore ==
  ASSUME NEW b \in Nat, NEW x \in Nat
  PROVE  (b + 1) * x = b * x + x
OBVIOUS

(* After k frames some chunks have left the resampler: what of them is not *)
(* emitted is what the delay has taken, and what is left over is no chunk. *)
Settled(chunks, k, s) ==
  /\ s \in Resamplings /\ s.delay <= chunks.delay /\ s.input < chunks.input
  /\ \E b \in Nat : /\ b * chunks.input + s.input = k
                    /\ s.emitted + chunks.delay = b * chunks.output + s.delay

LEMMA SettledNext ==
  ASSUME NEW chunks \in ChunkSizes, NEW k \in Nat, NEW s, Settled(chunks, k, s)
  PROVE  Settled(chunks, k + 1, PushFrame(s, chunks))
<1>1. /\ s \in Resamplings /\ s.delay <= chunks.delay /\ s.input < chunks.input
      /\ s.input \in Nat /\ s.delay \in Nat /\ s.emitted \in Nat
      /\ chunks.input \in Nat /\ chunks.output \in Nat /\ chunks.delay \in Nat
  BY DEF Settled, Resamplings, ChunkSizes
<1>blocks. PICK b \in Nat : /\ b * chunks.input + s.input = k
                            /\ s.emitted + chunks.delay = b * chunks.output + s.delay
  BY DEF Settled
<1>2. PICK a, c : /\ a = b * chunks.input /\ c = b * chunks.output
                  /\ a + s.input = k
                  /\ s.emitted + chunks.delay = c + s.delay
  BY <1>blocks
<1>0. a \in Nat /\ c \in Nat
  BY <1>1, <1>2, ProductIs
<1>3. PICK filled : filled = [s EXCEPT !.input = @ + 1]
  OBVIOUS
<1>4. /\ filled \in Resamplings /\ filled.input = s.input + 1
      /\ filled.delay = s.delay /\ filled.emitted = s.emitted
  BY <1>1, <1>3 DEF Resamplings
<1>5. PICK r : r = PushFrame(s, chunks)
  OBVIOUS
<1>6. CASE filled.input = chunks.input
  <2>1. r = Process(filled, chunks)
    BY <1>3, <1>5, <1>6 DEF PushFrame
  <2>2. /\ r \in Resamplings /\ r.input = 0 /\ r.delay <= filled.delay
        /\ r.emitted + filled.delay = filled.emitted + chunks.output + r.delay
    BY <1>4, <2>1, ProcessMoves
  <2>3. r.delay \in Nat /\ r.emitted \in Nat
    BY <2>2 DEF Resamplings
  <2>4. /\ (b + 1) * chunks.input = a + chunks.input
        /\ (b + 1) * chunks.output = c + chunks.output
    BY <1>1, <1>2, OnceMore
  <2>5. PICK i, e, m : i = s.input /\ e = s.emitted /\ m = s.delay
    OBVIOUS
  <2>6. /\ i \in Nat /\ e \in Nat /\ m \in Nat
        /\ a + i = k /\ e + chunks.delay = c + m /\ i + 1 = chunks.input
        /\ r.emitted + m = e + chunks.output + r.delay
    BY <1>1, <1>2, <1>4, <1>6, <2>2, <2>5
  <2>7. a + chunks.input + r.input = k + 1
    BY <1>0, <2>2, <2>6
  <2>8. r.emitted + chunks.delay = c + chunks.output + r.delay
    BY <1>0, <1>1, <2>3, <2>6
  <2>9. r.delay <= chunks.delay /\ r.input < chunks.input
    BY <1>1, <1>4, <1>6, <2>2, <2>3
  <2>10. b + 1 \in Nat
    OBVIOUS
  <2>11. QED
    BY <1>5, <2>2, <2>4, <2>7, <2>8, <2>9, <2>10 DEF Settled
<1>7. CASE filled.input # chunks.input
  <2>1. r = filled
    BY <1>3, <1>5, <1>7 DEF PushFrame
  <2>2. filled.input < chunks.input
    BY <1>1, <1>4, <1>7
  <2>3. a + filled.input = k + 1
    <3>1. PICK i : i = s.input
      OBVIOUS
    <3>2. i \in Nat /\ a + i = k /\ filled.input = i + 1
      BY <1>1, <1>2, <1>4, <3>1
    <3>3. QED
      BY <1>0, <3>2
  <2>4. filled.emitted + chunks.delay = b * chunks.output + filled.delay
    BY <1>2, <1>4
  <2>5. b * chunks.input + filled.input = k + 1
    BY <1>2, <2>3
  <2>6. filled.delay <= chunks.delay
    BY <1>1, <1>4
  <2>7. QED
    BY <1>4, <1>5, <2>1, <2>2, <2>4, <2>5, <2>6 DEF Settled
<1>8. QED
  BY <1>6, <1>7

(* A file of n frames becomes as many as are expected.                     *)
LEMMA ResampledIsExact ==
  ASSUME NEW chunks \in ChunkSizes, NEW n \in Nat, NEW expected \in Nat, chunks.output > 0,
         \A b \in Nat : b * chunks.input <= n => b * chunks.output <= expected,
         n = 0 => expected = 0
  PROVE  Resampled(chunks, n, expected) = expected
<1>1. PICK f :
        /\ f[0] = [input |-> 0, delay |-> chunks.delay, emitted |-> 0]
        /\ \A k \in 1..n : f[k] = PushFrame(f[k - 1], chunks)
        /\ \A k \in 0..n : f[k] \in Resamplings
        /\ Resampled(chunks, n, expected) =
             IF n = 0 THEN 0 ELSE Flush(f[n], chunks, expected).emitted
  BY ResampledSteps
<1>2. chunks.delay \in Nat /\ chunks.input \in Nat \ {0} /\ chunks.output \in Nat
  BY DEF ChunkSizes
<1> DEFINE S == {k \in 0..n : Settled(chunks, k, f[k])}
<1>3. 0 \in S
  <2>1. /\ f[0].delay = chunks.delay /\ f[0].input = 0 /\ f[0].emitted = 0
        /\ f[0] \in Resamplings
    BY <1>1
  <2>2. 0 * chunks.input = 0 /\ 0 * chunks.output = 0
    BY <1>2
  <2>3. /\ 0 * chunks.input + f[0].input = 0
        /\ f[0].emitted + chunks.delay = 0 * chunks.output + f[0].delay
    BY <1>2, <2>1, <2>2
  <2>4. f[0].delay <= chunks.delay /\ f[0].input < chunks.input
    BY <1>2, <2>1
  <2>5. Settled(chunks, 0, f[0])
    BY <2>1, <2>3, <2>4 DEF Settled
  <2>6. QED
    BY <2>5
<1>4. ASSUME NEW k \in 1..n, k - 1 \in S
      PROVE  k \in S
  <2>1. Settled(chunks, k - 1, f[k - 1]) /\ k - 1 \in Nat /\ (k - 1) + 1 = k
    BY <1>4
  <2>2. Settled(chunks, (k - 1) + 1, PushFrame(f[k - 1], chunks))
    BY <2>1, SettledNext
  <2>3. Settled(chunks, k, f[k])
    BY <1>1, <2>1, <2>2
  <2>4. QED
    BY <2>3
<1> HIDE DEF S
<1>5. \A k \in 0..n : k \in S
  BY <1>3, <1>4, UpToHolds
<1>6. PICK s : s = f[n]
  OBVIOUS
<1>7. Settled(chunks, n, s)
  BY <1>5, <1>6 DEF S
<1>8. /\ s \in Resamplings /\ s.delay <= chunks.delay
      /\ s.input \in Nat /\ s.delay \in Nat /\ s.emitted \in Nat
  BY <1>7 DEF Settled, Resamplings
<1>blocks. PICK b \in Nat : /\ b * chunks.input + s.input = n
                            /\ s.emitted + chunks.delay = b * chunks.output + s.delay
  BY <1>7 DEF Settled
<1>9. PICK a, c : /\ a = b * chunks.input /\ c = b * chunks.output
                  /\ a + s.input = n
                  /\ s.emitted + chunks.delay = c + s.delay
  BY <1>blocks
<1>10. a \in Nat /\ c \in Nat
  BY <1>2, <1>9, ProductIs
<1>11. PICK i, e, m : i = s.input /\ e = s.emitted /\ m = s.delay
  OBVIOUS
<1>12. i \in Nat /\ e \in Nat /\ m \in Nat /\ m <= chunks.delay
       /\ a + i = n /\ e + chunks.delay = c + m
  BY <1>8, <1>9, <1>11
<1>13. a <= n
  BY <1>10, <1>12
<1>14. s.emitted <= expected
  <2>1. c <= expected
    BY <1>9, <1>13
  <2>2. QED
    BY <1>2, <1>10, <1>11, <1>12, <2>1
<1>15. Flush(s, chunks, expected).emitted = expected
  BY <1>8, <1>14, FlushIsExact
<1>16. QED
  BY <1>1, <1>6, <1>15

LEMMA Associated ==
  ASSUME NEW a \in Nat, NEW b \in Nat, NEW c \in Nat
  PROVE  (a * b) * c = a * (b * c) /\ a * b = b * a /\ a * b \in Nat
OBVIOUS

LEMMA SumTimes ==
  ASSUME NEW a \in Nat, NEW b \in Nat, NEW c \in Nat
  PROVE  (a + b) * c = a * c + b * c
OBVIOUS

LEMMA CeilIs ==
  ASSUME NEW a \in Nat, NEW c \in Nat \ {0}
  PROVE  /\ CeilDiv(a, c) \in Nat
         /\ \A x \in Nat : c * x <= a => x <= CeilDiv(a, c)
<1>1. PICK q \in Nat, r \in 0..(c - 1) : q = (a + c - 1) \div c /\ a + c - 1 = c * q + r
  <2>1. a + c - 1 \in Nat
    OBVIOUS
  <2>2. QED
    BY <2>1, Division
<1>2. ASSUME NEW x \in Nat, c * x <= a
      PROVE  x <= q
  <2>1. SUFFICES ASSUME q < x PROVE FALSE
    OBVIOUS
  <2>2. c * q + r < c * x + c
    BY <2>1, Smaller
  <2>3. PICK y, z : y = c * x /\ z = c * q
    OBVIOUS
  <2>4. y \in Nat /\ z \in Nat
    BY <2>3, ProductIs
  <2>5. z + c <= y
    <3>1. PICK d : d = x - q
      OBVIOUS
    <3>2. d - 1 \in Nat /\ x = (q + 1) + (d - 1)
      BY <2>1, <3>1
    <3>3. x * c = (q + 1) * c + (d - 1) * c /\ (q + 1) * c = q * c + c
      BY <3>2, SumTimes, OnceMore
    <3>4. x * c = y /\ q * c = z /\ (d - 1) * c \in Nat
      BY <2>3, <3>2, Associated
    <3>5. QED
      BY <2>4, <3>3, <3>4
  <2>6. y <= a /\ a + c - 1 = z + r
    BY <1>1, <1>2, <2>3
  <2>7. QED
    BY <2>4, <2>5, <2>6
<1>3. CeilDiv(a, c) = q
  BY <1>1 DEF CeilDiv
<1>4. QED
  BY <1>2, <1>3

(* A whole number more.                                                    *)
LEMMA ShiftedDivided ==
  ASSUME NEW c \in Nat \ {0}, NEW a \in Nat, NEW m \in Nat
  PROVE  (a + m * c) \div c = (a \div c) + m
<1>1. PICK q \in Nat, r \in 0..(c - 1) : q = a \div c /\ a = c * q + r
  BY Division
<1>2. PICK x, y : x = c * q /\ y = m * c
  OBVIOUS
<1>3. x \in Nat /\ y \in Nat
  BY <1>2, ProductIs
<1>4. c * (q + m) = x + y
  <2>1. (q + m) * c = q * c + m * c
    BY SumTimes
  <2>2. q * c = x /\ (q + m) * c = c * (q + m)
    BY <1>2, Associated
  <2>3. QED
    BY <1>2, <2>1, <2>2
<1>5. a + m * c = c * (q + m) + r
  BY <1>1, <1>2, <1>3, <1>4
<1>6. (c * (q + m) + r) \div c = q + m
  BY Divided
<1>7. QED
  BY <1>1, <1>5, <1>6

(* Whole chunks become no more frames than are expected.                   *)
LEMMA ChunksAreExpected ==
  ASSUME NEW i \in Nat, NEW o \in Nat, NEW c \in Nat \ {0}, NEW d \in Nat, i * d = o * c,
         NEW n \in Nat, NEW b \in Nat, b * i <= n
  PROVE  b * o <= CeilDiv(n * d, c)
<1>1. PICK x, y, rest : x = b * i /\ y = b * o /\ rest = n - x
  OBVIOUS
<1>2. x \in Nat /\ y \in Nat /\ rest \in Nat /\ n = x + rest
  BY <1>1, ProductIs
<1>3. x * d = y * c
  <2>1. x * d = b * (i * d)
    BY <1>1, Associated
  <2>2. y * c = b * (o * c)
    BY <1>1, Associated
  <2>3. QED
    BY <2>1, <2>2
<1>4. n * d = x * d + rest * d /\ rest * d \in Nat /\ n * d \in Nat /\ x * d \in Nat
  BY <1>2, SumTimes, ProductIs
<1>5. y * c = c * y
  BY <1>2, Associated
<1>6. PICK big, small : big = n * d /\ small = c * y
  OBVIOUS
<1>7. small <= big /\ big \in Nat
  <2>1. PICK u, v : u = x * d /\ v = rest * d
    OBVIOUS
  <2>2. big = u + v /\ u \in Nat /\ v \in Nat /\ small = u
    BY <1>3, <1>4, <1>5, <1>6, <2>1
  <2>3. QED
    BY <2>2
<1>8. y <= CeilDiv(big, c)
  BY <1>2, <1>6, <1>7, CeilIs
<1>9. QED
  BY <1>1, <1>6, <1>8

LEMMA OutputChunk ==
  ASSUME NEW i \in Nat \ {0}, NEW o \in Nat, NEW c \in Nat \ {0}, NEW d \in Nat \ {0},
         i * d = o * c
  PROVE  o > 0
<1>1. SUFFICES ASSUME o = 0 PROVE FALSE
  OBVIOUS
<1>2. o * c = 0
  BY <1>1
<1>3. i = (i - 1) + 1 /\ i - 1 \in Nat
  OBVIOUS
<1>4. i * d = (i - 1) * d + d
  BY <1>3, OnceMore
<1>5. (i - 1) * d \in Nat
  BY <1>3, ProductIs
<1>6. QED
  BY <1>2, <1>4, <1>5

Opens(s) ==
  /\ s.source.rate \in Nat \ {0} /\ s.device.rate \in Nat \ {0}
  /\ s.device.rate # s.source.rate =>
       LET chunks == Resampler[s.source.rate, s.device.rate]
       IN /\ chunks \in ChunkSizes
          /\ chunks.input * s.device.rate = chunks.output * s.source.rate

LEMMA OpensIs ==
  ASSUME NEW s \in Openings, s.error = "none"
  PROVE  Opens(s)
BY OutputAssumption DEF Opens, ChunkSizes

(* All frames of a file come out, as many as last as long.                 *)
LEMMA FramesAreExpected ==
  ASSUME NEW s, Opens(s), NEW n \in Nat
  PROVE  /\ FramesOf(s, n) = Expected(s, n)
         /\ Expected(s, n) \in Nat
<1>1. PICK c, d : c = s.source.rate /\ d = s.device.rate
  OBVIOUS
<1>2. c \in Nat \ {0} /\ d \in Nat \ {0}
  BY <1>1 DEF Opens
<1>3. Expected(s, n) = CeilDiv(n * d, c)
  BY <1>1 DEF Expected
<1>4. CeilDiv(n * d, c) \in Nat
  BY <1>2, ProductIs, CeilIs
<1>5. CASE d = c
  <2>1. n * d \in Nat /\ n * d = c * n
    BY <1>2, <1>5, Associated
  <2>2. PICK x : x = c * n
    OBVIOUS
  <2>3. x \in Nat /\ x + c - 1 = x + (c - 1)
    BY <1>2, <2>1, <2>2
  <2>4. (c * n + (c - 1)) \div c = n
    BY <1>2, Divided
  <2>5. CeilDiv(n * d, c) = n
    BY <2>1, <2>2, <2>3, <2>4 DEF CeilDiv
  <2>6. FramesOf(s, n) = n
    BY <1>1, <1>5 DEF FramesOf
  <2>7. QED
    BY <1>3, <1>4, <2>5, <2>6, Zenon
<1>6. CASE d # c
  <2>1. PICK chunks : chunks = Resampler[s.source.rate, s.device.rate]
    OBVIOUS
  <2>2. /\ chunks \in ChunkSizes /\ chunks.input \in Nat \ {0} /\ chunks.output \in Nat
        /\ chunks.input * d = chunks.output * c
    BY <1>1, <1>6, <2>1 DEF Opens, ChunkSizes
  <2>3. PICK expected : expected = CeilDiv(n * d, c)
    OBVIOUS
  <2>4. chunks.output > 0
    BY <1>2, <2>2, OutputChunk
  <2>5. \A b \in Nat : b * chunks.input <= n => b * chunks.output <= expected
    BY <1>2, <2>2, <2>3, ChunksAreExpected
  <2>6. n = 0 => expected = 0
    <3>1. SUFFICES ASSUME n = 0 PROVE expected = 0
      OBVIOUS
    <3>2. n * d = 0 /\ 0 + c - 1 = c - 1 /\ c - 1 \in 0..(c - 1)
      BY <1>2, <3>1
    <3>3. c * 0 + (c - 1) = c - 1
      BY <1>2
    <3>4. (c * 0 + (c - 1)) \div c = 0
      BY <1>2, <3>2, Divided
    <3>5. QED
      BY <2>3, <3>2, <3>3, <3>4 DEF CeilDiv
  <2>7. Resampled(chunks, n, expected) = expected
    BY <1>4, <2>2, <2>3, <2>4, <2>5, <2>6, ResampledIsExact
  <2>8. FramesOf(s, n) = Resampled(chunks, n, expected)
    BY <1>1, <1>3, <1>6, <2>1, <2>3 DEF FramesOf
  <2>9. QED
    BY <1>3, <1>4, <2>3, <2>7, <2>8, Zenon
<1>7. QED
  BY <1>5, <1>6

LEMMA FramesOfIs ==
  ASSUME NEW s, Opens(s), NEW n \in Nat
  PROVE  FramesOf(s, n) \in Nat
BY FramesAreExpected

(* A seek decodes from the start of a chunk, which is a frame of the       *)
(* device's.                                                               *)
LEMMA SeekStartIs ==
  ASSUME NEW s, Opens(s), NEW target \in Nat
  PROVE  /\ SeekStart(s, target) \in 0..target
         /\ \E m \in Nat : SeekStart(s, target) * s.device.rate = m * s.source.rate
<1>1. CASE s.device.rate = s.source.rate
  BY <1>1 DEF SeekStart
<1>2. CASE s.device.rate # s.source.rate
  <2>1. PICK chunks : chunks = Resampler[s.source.rate, s.device.rate]
    OBVIOUS
  <2>2. /\ chunks \in ChunkSizes /\ chunks.input \in Nat \ {0} /\ chunks.delay \in Nat
        /\ chunks.output \in Nat
        /\ chunks.input * s.device.rate = chunks.output * s.source.rate
    BY <1>2, <2>1 DEF Opens, ChunkSizes
  <2>3. CeilDiv(chunks.delay * s.source.rate, s.device.rate) \in Nat
    <3>1. s.source.rate \in Nat /\ s.device.rate \in Nat \ {0}
      BY DEF Opens
    <3>2. chunks.delay * s.source.rate \in Nat
      BY <2>2, <3>1, ProductIs
    <3>3. QED
      BY <3>1, <3>2, CeilIs
  <2>4. PICK warmup : warmup = CeilDiv(chunks.delay * s.source.rate, s.device.rate)
                                 + 4 * chunks.input
    OBVIOUS
  <2>5. warmup \in Nat
    BY <2>2, <2>3, <2>4
  <2>6. PICK first : first = IF warmup < target THEN target - warmup ELSE 0
    OBVIOUS
  <2>7. first \in 0..target
    BY <2>5, <2>6
  <2>8. SeekStart(s, target) = first - (first % chunks.input)
    BY <1>2, <2>1, <2>4, <2>6 DEF SeekStart
  <2>9. PICK q \in Nat, r \in 0..(chunks.input - 1) :
          r = first % chunks.input /\ first = chunks.input * q + r
    <3>1. PICK i : i = chunks.input
      OBVIOUS
    <3>2. i \in Nat \ {0} /\ first \in Nat
      BY <2>2, <2>7, <3>1
    <3>3. /\ first \div i \in Nat /\ first % i \in 0..(i - 1)
          /\ first = i * (first \div i) + (first % i)
      BY <3>2, Division
    <3>4. QED
      BY <3>1, <3>3, Zenon
  <2>10. PICK start : start = chunks.input * q
    OBVIOUS
  <2>11. start \in Nat /\ SeekStart(s, target) = start /\ start \in 0..target
    <3>1. start \in Nat
      BY <2>2, <2>10, ProductIs
    <3>2. first = start + r /\ SeekStart(s, target) = first - r
      BY <2>8, <2>9, <2>10
    <3>3. QED
      BY <2>2, <2>7, <3>1, <3>2
  <2>12. start * s.device.rate = (q * chunks.output) * s.source.rate
    <3>1. s.source.rate \in Nat /\ s.device.rate \in Nat
      BY DEF Opens
    <3>2. start = q * chunks.input
      BY <2>2, <2>10, Associated
    <3>3. (q * chunks.input) * s.device.rate = q * (chunks.input * s.device.rate)
      BY <2>2, <3>1, Associated
    <3>4. (q * chunks.output) * s.source.rate = q * (chunks.output * s.source.rate)
      BY <2>2, <3>1, Associated
    <3>5. QED
      BY <2>2, <3>2, <3>3, <3>4
  <2>13. q * chunks.output \in Nat
    BY <2>2, ProductIs
  <2>14. QED
    BY <2>11, <2>12, <2>13, Zenon
<1>3. QED
  BY <1>1, <1>2

(* From where a seek went on, what is left of a file comes out.            *)
LEMMA FramesFromAreExpected ==
  ASSUME NEW s, Opens(s), NEW n \in Nat, NEW target \in 0..n
  PROVE  /\ FramesFrom(s, n, target) \in Nat /\ Rescaled(s, target) \in Nat
         /\ Rescaled(s, target) + FramesFrom(s, n, target) = Expected(s, n)
<1>1. PICK c, d : c = s.source.rate /\ d = s.device.rate
  OBVIOUS
<1>2. c \in Nat \ {0} /\ d \in Nat \ {0}
  BY <1>1 DEF Opens
<1>3. PICK start : start = SeekStart(s, target)
  OBVIOUS
<1>4. PICK m \in Nat : start \in 0..target /\ start * d = m * c
  BY <1>1, <1>3, SeekStartIs
<1>5. /\ n - start \in Nat /\ target - start \in Nat /\ start \in Nat
      /\ n = (n - start) + start /\ target = (target - start) + start
      /\ n - start = (target - start) + (n - target) /\ n - target \in Nat
  BY <1>4
<1>6. PICK a, t, u : a = (n - start) * d /\ t = (target - start) * d /\ u = (n - target) * d
  OBVIOUS
<1>7. a \in Nat /\ t \in Nat /\ u \in Nat /\ m * c \in Nat
  BY <1>2, <1>5, <1>6, ProductIs
<1>8. n * d = a + m * c /\ target * d = t + m * c /\ a = t + u
  <2>1. ((n - start) + start) * d = (n - start) * d + start * d
    BY <1>2, <1>5, SumTimes
  <2>2. ((target - start) + start) * d = (target - start) * d + start * d
    BY <1>2, <1>5, SumTimes
  <2>3. ((target - start) + (n - target)) * d = (target - start) * d + (n - target) * d
    BY <1>2, <1>5, SumTimes
  <2>4. QED
    BY <1>4, <1>5, <1>6, <2>1, <2>2, <2>3, Zenon
<1>9. /\ Expected(s, n) = CeilDiv(n * d, c) /\ Expected(s, n - start) = CeilDiv(a, c)
      /\ Rescaled(s, target) = (target * d) \div c /\ Rescaled(s, target - start) = t \div c
  BY <1>1, <1>6 DEF Expected, Rescaled
<1>10. PICK out, discarded : out = CeilDiv(a, c) /\ discarded = t \div c
  OBVIOUS
<1>11. out \in Nat /\ discarded \in Nat /\ discarded <= out
  <2>1. out \in Nat /\ \A x \in Nat : c * x <= a => x <= out
    BY <1>2, <1>7, <1>10, CeilIs
  <2>2. PICK r \in 0..(c - 1) : discarded \in Nat /\ t = c * discarded + r
    BY <1>2, <1>7, <1>10, Division
  <2>3. c * discarded <= a
    <3>1. PICK v : v = c * discarded
      OBVIOUS
    <3>2. v \in Nat
      BY <1>2, <2>2, <3>1, ProductIs
    <3>3. v <= a
      BY <1>2, <1>7, <1>8, <2>2, <3>1, <3>2
    <3>4. QED
      BY <3>1, <3>3
  <2>4. QED
    BY <2>1, <2>2, <2>3
<1>12. CeilDiv(n * d, c) = out + m
  <2>1. PICK w, v : w = a + c - 1 /\ v = m * c
    OBVIOUS
  <2>2. w \in Nat /\ v \in Nat
    BY <1>2, <1>7, <2>1
  <2>3. (w + m * c) \div c = (w \div c) + m
    BY <1>2, <2>2, ShiftedDivided
  <2>4. (a + v) + c - 1 = w + v
    BY <1>2, <1>7, <2>1, <2>2
  <2>5. CeilDiv(n * d, c) = (w + v) \div c /\ out = w \div c
    BY <1>8, <1>10, <2>1, <2>4 DEF CeilDiv
  <2>6. QED
    BY <2>1, <2>3, <2>5
<1>13. (target * d) \div c = discarded + m
  <2>1. (t + m * c) \div c = (t \div c) + m
    BY <1>2, <1>7, ShiftedDivided
  <2>2. QED
    BY <1>8, <1>10, <2>1, Zenon
<1>14. FramesFrom(s, n, target) = IF discarded < out THEN out - discarded ELSE 0
  <2>1. FramesOf(s, n - start) = out
    BY <1>5, <1>9, <1>10, FramesAreExpected
  <2>2. QED
    BY <1>3, <1>9, <1>10, <2>1 DEF FramesFrom
<1>15. FramesFrom(s, n, target) = out - discarded
  BY <1>11, <1>14
<1>16. PICK e, r, f : /\ e = Expected(s, n) /\ r = Rescaled(s, target)
                      /\ f = FramesFrom(s, n, target)
  OBVIOUS
<1>17. e = out + m /\ r = discarded + m /\ f = out - discarded
  BY <1>9, <1>12, <1>13, <1>15, <1>16
<1>18. f \in Nat /\ r \in Nat /\ r + f = e
  BY <1>11, <1>17
<1>19. QED
  BY <1>16, <1>18

LEMMA FramesFromIs ==
  ASSUME NEW s, Opens(s), NEW n \in Nat, NEW target \in 0..n
  PROVE  FramesFrom(s, n, target) \in Nat
BY FramesFromAreExpected

-----------------------------------------------------------------------------
(* What each part of a stream holds.                                       *)

Reports == [pipeline : Pipelines, start : Nat, end : Nat, time : Nat]
Chainings == [after : Pipelines, next : Pipelines]
Callbacks == [pipeline : Pipelines, chained : Chainings \cup {Nothing}, position : Nat,
              end : Nat \cup {Nothing}, completion : {"pending", "reported", "timingFailed"},
              at : {"between", "filled"}, report : Reports \cup {Nothing}]
WorkerSides == [pipeline : Pipelines, update : Reports \cup {Nothing}, last : Nat,
                next : Nat, given : Pipelines \cup {Nothing},
                switching : Pipelines \cup {Nothing}]

Queued ==
  /\ opened \in Openings
  /\ frames \in [Pipelines -> Nat] /\ pushed \in [Pipelines -> Nat]
  /\ popped \in [Pipelines -> Nat] /\ heard \in [Pipelines -> Seq(Nat)]
  /\ \A p \in Pipelines : /\ Len(heard[p]) = popped[p] /\ popped[p] <= pushed[p]
                          /\ pushed[p] <= frames[p]

Clocks == now \in 0..MaxTime /\ due \in Nat

Held ==
  /\ callback \in Callbacks /\ stream \in WorkerSides
  /\ handoff \in Pipelines \cup {Nothing} /\ cell \in Reports \cup {Nothing}
  /\ chainSlot = Nothing \/ chainSlot \in [value : Chainings \cup {Nothing}]
  /\ callback.pipeline < stream.next /\ stream.pipeline < stream.next
  /\ stream.given # Nothing => stream.given < stream.next
  /\ stream.switching # Nothing => stream.switching < stream.next
  /\ callback.chained # Nothing => callback.chained.after = callback.pipeline

(* What is still to be played has not been heard, and follows what is      *)
(* older.                                                                  *)
Follows(c) == c.after < c.next /\ c.next < stream.next /\ heard[c.next] = <<>>
Unheard ==
  /\ \A p \in Pipelines : p >= stream.next => heard[p] = <<>> /\ pushed[p] = 0
  /\ handoff # Nothing => handoff < stream.next /\ heard[handoff] = <<>>
  /\ callback.chained # Nothing => Follows(callback.chained)
  /\ chainSlot # Nothing /\ chainSlot.value # Nothing => Follows(chainSlot.value)

(* The frames of a pipeline are heard one after the other, before the next *)
(* buffer, and the callback knows how many there were.                     *)
Sounds ==
  /\ callback.position = Len(heard[callback.pipeline])
  /\ \A p \in Pipelines : \A i, j \in DOMAIN heard[p] : i < j => heard[p][i] < heard[p][j]
  /\ \A p \in Pipelines : \A i \in DOMAIN heard[p] : heard[p][i] < due

(* A report tells when the frames from its start to its end are heard; the *)
(* frames before them are about to be heard at the latest.                 *)
NearlyHeard(p, m) ==
  m <= Len(heard[p]) /\ \A i \in 1..m : heard[p][i] < now + Lead
IsTrue(r) ==
  /\ NearlyHeard(r.pipeline, r.start)
  /\ r.start <= r.end /\ r.end <= Len(heard[r.pipeline])
  /\ \A i \in (r.start + 1)..r.end : heard[r.pipeline][i] = r.time + (i - r.start - 1)
Reported ==
  /\ callback.report # Nothing => IsTrue(callback.report)
  /\ cell # Nothing => IsTrue(cell)
  /\ stream.update # Nothing => IsTrue(stream.update) /\ stream.update.pipeline = stream.pipeline
  /\ NearlyHeard(stream.pipeline, stream.last)

StreamInv == Queued /\ Clocks /\ Held /\ Unheard /\ Sounds /\ Reported

LEMMA Numbers ==
  /\ Buffer \in Nat /\ Buffer > 0 /\ Packet \in Nat /\ Packet > 0
  /\ Lead \in Nat /\ MaxTime \in Nat
<1>1. /\ Buffer \in Nat \ {0} /\ Packet \in Nat \ {0}
      /\ Lead \in Nat /\ MaxTime \in Nat
  BY OutputAssumption, Zenon
<1>2. QED
  BY <1>1

LEMMA PipelinesAre ==
  ASSUME NEW p \in Pipelines
  PROVE  p \in Nat
<1>1. Pipelines = 1..Cardinality(Pipelines) /\ IsFiniteSet(Pipelines)
  BY OutputAssumption, Zenon
<1>2. Cardinality(Pipelines) \in Nat
  BY <1>1, FS_CardinalityType
<1>3. QED
  BY <1>1, <1>2

(* The frames a listener is shown have been heard but for what the device  *)
(* buffers: their times differ, so that few are still to come.             *)
LEMMA MostAreHeard ==
  ASSUME Queued, Clocks, Sounds, NEW p \in Pipelines, NEW m \in Nat, NearlyHeard(p, m)
  PROVE  m <= HeardBy(p, now) + Lead
<1>1. PICK s : s = heard[p]
  OBVIOUS
<1>2. s \in Seq(Nat) /\ Len(s) \in Nat /\ DOMAIN s = 1..Len(s)
  BY <1>1 DEF Queued
<1>3. now \in Nat /\ Lead \in Nat
  BY Numbers DEF Clocks
<1>4. /\ m <= Len(s) /\ \A i \in 1..m : s[i] < now + Lead /\ s[i] \in Nat
      /\ \A i, j \in 1..m : i < j => s[i] < s[j]
  <2>1. m <= Len(s) /\ \A i \in 1..m : s[i] < now + Lead
    BY <1>1 DEF NearlyHeard
  <2>2. \A i, j \in DOMAIN s : i < j => s[i] < s[j]
    BY <1>1 DEF Sounds
  <2>3. \A i \in 1..m : i \in DOMAIN s
    BY <1>2, <2>1
  <2>4. \A i \in 1..m : s[i] \in Nat
    BY <1>2, <2>3
  <2>5. QED
    BY <2>1, <2>2, <2>3, <2>4
<1>5. PICK over, coming : /\ over = {i \in 1..m : s[i] + 1 <= now}
                          /\ coming = {i \in 1..m : ~(s[i] + 1 <= now)}
  OBVIOUS
<1>6. PICK all : all = {i \in DOMAIN s : s[i] + 1 <= now}
  OBVIOUS
<1>7. IsFiniteSet(all) /\ Cardinality(all) \in Nat
  <2>1. IsFiniteSet(1..Len(s))
    BY <1>2, FS_Interval
  <2>2. all \in SUBSET (1..Len(s))
    BY <1>2, <1>6
  <2>3. QED
    BY <2>1, <2>2, FS_Subset, FS_CardinalityType
<1>8. IsFiniteSet(over) /\ Cardinality(over) <= Cardinality(all) /\ Cardinality(over) \in Nat
  <2>1. over \in SUBSET all
    BY <1>2, <1>4, <1>5, <1>6
  <2>2. QED
    BY <1>7, <2>1, FS_Subset, FS_CardinalityType
<1>9. IsFiniteSet(coming) /\ Cardinality(coming) <= Lead /\ Cardinality(coming) \in Nat
  <2>1. PICK soon : soon = now..(now + Lead - 1)
    OBVIOUS
  <2>2. IsFiniteSet(soon) /\ Cardinality(soon) = Lead
    BY <1>3, <2>1, FS_Interval
  <2>3. PICK f : f = [i \in coming |-> s[i]]
    OBVIOUS
  <2>4. \A i \in coming : f[i] = s[i] /\ s[i] \in soon
    BY <1>3, <1>4, <1>5, <2>1, <2>3
  <2>5. \A i, j \in coming : f[i] = f[j] => i = j
    <3>1. \A i \in coming : i \in 1..m /\ i \in Nat /\ s[i] \in Nat
      BY <1>4, <1>5
    <3>2. \A i, j \in coming : s[i] = s[j] => i = j
      BY <1>4, <3>1
    <3>3. QED
      BY <2>4, <3>2
  <2>6. f \in Injection(coming, soon)
    <3>1. f \in [coming -> soon]
      BY <2>3, <2>4
    <3>2. QED
      BY <2>5, <3>1 DEF Injection, IsInjective
  <2>7. IsFiniteSet(coming) /\ Cardinality(coming) <= Cardinality(soon)
    BY <2>2, <2>6, FS_Injection
  <2>8. QED
    BY <2>2, <2>7, FS_CardinalityType
<1>10. Cardinality(1..m) = m
  BY FS_Interval
<1>11. /\ over \cup coming = 1..m /\ over \cap coming = {}
  BY <1>5
<1>12. m = Cardinality(over) + Cardinality(coming)
  <2>1. Cardinality({}) = 0
    BY FS_EmptySet
  <2>2. Cardinality(over \cup coming) =
          Cardinality(over) + Cardinality(coming) - Cardinality(over \cap coming)
    BY <1>8, <1>9, FS_Union
  <2>3. Cardinality(over \cap coming) = 0
    BY <1>11, <2>1, Zenon
  <2>4. Cardinality(over \cup coming) = m
    BY <1>10, <1>11, Zenon
  <2>5. QED
    BY <1>8, <1>9, <2>2, <2>3, <2>4
<1>13. m <= Cardinality(all) + Lead
  BY <1>3, <1>7, <1>8, <1>9, <1>12
<1>14. HeardBy(p, now) = Cardinality(all)
  BY <1>1, <1>6 DEF HeardBy
<1>15. QED
  BY <1>13, <1>14

LEMMA InitStream == OutputInit => StreamInv
<1> SUFFICES ASSUME OutputInit PROVE StreamInv
  OBVIOUS
<1>1. 1 \in Pipelines /\ SourceFrames[1] \in Nat /\ MaxTime \in Nat
  BY OutputAssumption
<1>2. opened \in Openings
  BY DEF OutputInit, Openings
<1>3. Queued
  <2>1. opened.error = "none" => FramesOf(opened, SourceFrames[1]) \in Nat
    BY <1>1, <1>2, OpensIs, FramesOfIs
  <2>2. frames \in [Pipelines -> Nat]
    BY <2>1 DEF OutputInit
  <2>3. \A p \in Pipelines : heard[p] = <<>> /\ pushed[p] = 0 /\ popped[p] = 0
    BY DEF OutputInit
  <2>4. heard \in [Pipelines -> Seq(Nat)]
    BY DEF OutputInit
  <2>5. pushed \in [Pipelines -> Nat] /\ popped \in [Pipelines -> Nat]
    BY DEF OutputInit
  <2>6. \A p \in Pipelines : Len(heard[p]) = popped[p] /\ popped[p] <= pushed[p]
                             /\ pushed[p] <= frames[p]
    BY <2>2, <2>3
  <2>7. QED
    BY <1>2, <2>2, <2>4, <2>5, <2>6 DEF Queued
<1>4. Clocks
  BY <1>1 DEF OutputInit, Clocks
<1>5. /\ callback = Start(1, "between") /\ cell = Nothing /\ handoff = Nothing
      /\ chainSlot = Nothing
      /\ stream = [pipeline |-> 1, update |-> Nothing, last |-> 0, next |-> 2,
                   given |-> Nothing, switching |-> Nothing]
      /\ \A p \in Pipelines : heard[p] = <<>> /\ pushed[p] = 0
  BY DEF OutputInit
<1>6. Held
  BY <1>1, <1>5 DEF Held, Start, Callbacks, WorkerSides
<1>7. Unheard
  BY <1>5 DEF Unheard, Start
<1>8. Sounds
  BY <1>1, <1>5 DEF Sounds, Start
<1>9. Reported
  BY <1>1, <1>5 DEF Reported, Start, NearlyHeard
<1>10. QED
  BY <1>3, <1>4, <1>6, <1>7, <1>8, <1>9 DEF StreamInv

(* Steps in which nothing is heard and the clock does not go back.         *)
LEMMA TruthStays ==
  ASSUME StreamInv, heard' = heard, Clocks', now <= now'
  PROVE  /\ \A p \in Pipelines, m \in Nat : NearlyHeard(p, m) => NearlyHeard(p, m)'
         /\ \A r \in Reports : IsTrue(r) => IsTrue(r)'
<1>1. Lead \in Nat /\ now \in Nat /\ now' \in Nat
  BY Numbers DEF StreamInv, Clocks
<1>2. ASSUME NEW p \in Pipelines, NEW m \in Nat, NearlyHeard(p, m)
      PROVE  NearlyHeard(p, m)'
  <2>1. \A i \in 1..m : heard[p][i] \in Nat
    <3>1. heard[p] \in Seq(Nat) /\ m <= Len(heard[p])
      BY <1>2 DEF StreamInv, Queued, NearlyHeard
    <3>2. QED
      BY <3>1
  <2>2. QED
    BY <1>1, <1>2, <2>1 DEF NearlyHeard
<1>3. ASSUME NEW r \in Reports, IsTrue(r)
      PROVE  IsTrue(r)'
  <2>1. r.pipeline \in Pipelines /\ r.start \in Nat
    BY DEF Reports
  <2>2. NearlyHeard(r.pipeline, r.start)'
    BY <1>2, <1>3, <2>1 DEF IsTrue
  <2>3. QED
    BY <1>3, <2>2 DEF IsTrue
<1>4. QED
  BY <1>2, <1>3

LEMMA ReportsStay ==
  ASSUME StreamInv, heard' = heard, Clocks', now <= now', Held',
         callback'.report \in {callback.report, Nothing},
         cell' \in {cell, callback.report, Nothing},
         stream'.pipeline = stream.pipeline /\ stream'.update = stream.update
           /\ stream'.last = stream.last
  PROVE  Reported'
<1>1. /\ callback.report # Nothing => callback.report \in Reports
      /\ cell # Nothing => cell \in Reports
      /\ stream.update # Nothing => stream.update \in Reports
      /\ stream.pipeline \in Pipelines /\ stream.last \in Nat
  BY DEF StreamInv, Held, Callbacks, WorkerSides
<1>2. callback'.report # Nothing => IsTrue(callback.report)'
  BY <1>1, TruthStays DEF StreamInv, Reported
<1>3. cell' # Nothing => IsTrue(cell)'
  BY <1>1, TruthStays DEF StreamInv, Reported
<1>4. stream'.update # Nothing => IsTrue(stream.update)' /\ stream.update.pipeline = stream.pipeline
  BY <1>1, TruthStays DEF StreamInv, Reported
<1>5. NearlyHeard(stream.pipeline, stream.last)'
  BY <1>1, TruthStays DEF StreamInv, Reported
<1>6. QED
  BY <1>2, <1>3, <1>4, <1>5 DEF Reported

(* Steps of the decode threads and of the clock.                           *)
LEMMA PushStream ==
  ASSUME StreamInv, NEW p \in Pipelines, PushPacket(p) \/ FinishQueue(p)
  PROVE  StreamInv'
<1>1. /\ UNCHANGED <<opened, frames, popped, handoff, chainSlot, callback, cell, stream,
                     now, due, heard>>
      /\ p < stream.next
  BY DEF PushPacket, FinishQueue, history
<1>2. /\ pushed' \in [Pipelines -> Nat]
      /\ \A q \in Pipelines : /\ pushed[q] <= pushed'[q] /\ pushed'[q] <= frames[q]
                              /\ q # p => pushed'[q] = pushed[q]
  <2>1. CASE PushPacket(p)
    <3>1. PICK n : n = Min({pushed[p] + Packet, frames[p]})
      OBVIOUS
    <3>2. pushed' = [pushed EXCEPT ![p] = n] /\ pushed[p] < frames[p]
      BY <2>1, <3>1 DEF PushPacket
    <3>3. pushed[p] \in Nat /\ frames[p] \in Nat /\ pushed \in [Pipelines -> Nat]
      BY DEF StreamInv, Queued
    <3>4. n \in Nat /\ pushed[p] <= n /\ n <= frames[p]
      BY <3>1, <3>2, <3>3, Numbers, MinOfTwo
    <3>5. \A q \in Pipelines : pushed[q] <= frames[q] /\ pushed[q] \in Nat
      BY DEF StreamInv, Queued
    <3>6. QED
      BY <3>2, <3>3, <3>4, <3>5
  <2>2. CASE FinishQueue(p)
    BY <2>2 DEF FinishQueue, StreamInv, Queued
  <2>3. QED
    BY <2>1, <2>2
<1>3. Queued'
  <2>1. \A q \in Pipelines : popped[q] <= pushed'[q]
    BY <1>2 DEF StreamInv, Queued
  <2>2. QED
    BY <1>1, <1>2, <2>1 DEF StreamInv, Queued
<1>4. Clocks' /\ Held'
  BY <1>1 DEF StreamInv, Clocks, Held
<1>5. Unheard'
  <2>1. \A q \in Pipelines : q >= stream.next => q # p
    BY <1>1, PipelinesAre DEF StreamInv, Held, WorkerSides
  <2>2. QED
    BY <1>1, <1>2, <2>1 DEF StreamInv, Unheard, Follows
<1>6. Sounds'
  BY <1>1 DEF StreamInv, Sounds
<1>7. Reported'
  <2>1. now <= now'
    BY <1>1 DEF StreamInv, Clocks
  <2>2. QED
    BY <1>1, <1>4, <2>1, ReportsStay
<1>8. QED
  BY <1>3, <1>4, <1>5, <1>6, <1>7 DEF StreamInv

LEMMA TickStream ==
  ASSUME StreamInv, Tick
  PROVE  StreamInv'
<1>1. /\ UNCHANGED <<opened, frames, pushed, popped, handoff, chainSlot, callback, cell, stream,
                     due, heard>>
      /\ now' = now + 1 /\ now < MaxTime
  BY DEF Tick, history, queues
<1>2. Clocks' /\ now <= now'
  BY <1>1, Numbers DEF StreamInv, Clocks
<1>3. Queued' /\ Held' /\ Unheard' /\ Sounds'
  BY <1>1 DEF StreamInv, Queued, Held, Unheard, Follows, Sounds
<1>4. Reported'
  BY <1>1, <1>2, <1>3, ReportsStay
<1>5. QED
  BY <1>2, <1>3, <1>4 DEF StreamInv

(* What the callback reports at the end of a run.                          *)
LEMMA CompletionKeeps ==
  ASSUME NEW cb \in Callbacks, NEW ends
  PROVE  /\ ReportCompletion(cb, ends)[1] \in Callbacks
         /\ ReportCompletion(cb, ends)[1].pipeline = cb.pipeline
         /\ ReportCompletion(cb, ends)[1].chained = cb.chained
         /\ ReportCompletion(cb, ends)[1].position = cb.position
         /\ ReportCompletion(cb, ends)[1].report = cb.report
         /\ ReportCompletion(cb, ends)[1].at = cb.at
BY DEF ReportCompletion, Callbacks

LEMMA ReportStream ==
  ASSUME StreamInv, Report
  PROVE  StreamInv'
<1>1. /\ UNCHANGED <<opened, frames, pushed, popped, handoff, chainSlot, stream, now, due, heard>>
      /\ cell' \in {cell, callback.report}
  BY DEF Report, queues
<1>2. callback \in Callbacks
  BY DEF StreamInv, Held
<1>3. PICK done : /\ done = (IF Drained(callback.pipeline) THEN ReportCompletion(callback, told)[1]
                             ELSE callback)
                  /\ callback' = [done EXCEPT !.at = "between", !.report = Nothing]
  BY DEF Report
<1>4. /\ done \in Callbacks /\ done.pipeline = callback.pipeline
      /\ done.chained = callback.chained /\ done.position = callback.position
  BY <1>2, <1>3, CompletionKeeps
<1>5. /\ callback' \in Callbacks /\ callback'.pipeline = callback.pipeline
      /\ callback'.chained = callback.chained /\ callback'.position = callback.position
      /\ callback'.report = Nothing
  BY <1>3, <1>4 DEF Callbacks
<1>6. cell' \in Reports \cup {Nothing}
  BY <1>1, <1>2 DEF StreamInv, Held, Callbacks
<1>7. Held'
  BY <1>1, <1>5, <1>6 DEF StreamInv, Held
<1>8. Queued' /\ Clocks' /\ Unheard' /\ Sounds'
  BY <1>1, <1>5 DEF StreamInv, Queued, Clocks, Unheard, Follows, Sounds
<1>9. Reported'
  <2>1. now <= now'
    BY <1>1 DEF StreamInv, Clocks
  <2>2. QED
    BY <1>1, <1>5, <1>7, <1>8, <2>1, ReportsStay
<1>10. QED
  BY <1>7, <1>8, <1>9 DEF StreamInv

(* Steps of the worker.                                                    *)
LEMMA OpenedQueue ==
  ASSUME StreamInv, NEW n \in Nat, Opening(stream.next, n),
         UNCHANGED <<opened, popped, heard>>
  PROVE  Queued'
<1>1. /\ stream.next \in Pipelines /\ frames' = [frames EXCEPT ![stream.next] = n]
      /\ pushed' = pushed
  BY DEF Opening
<1>2. stream.next >= stream.next /\ pushed[stream.next] = 0
  BY <1>1, PipelinesAre DEF StreamInv, Unheard
<1>3. /\ frames \in [Pipelines -> Nat]
      /\ \A p \in Pipelines : pushed[p] <= frames[p]
  BY DEF StreamInv, Queued
<1>4. frames' \in [Pipelines -> Nat] /\ \A p \in Pipelines : pushed[p] <= frames'[p]
  BY <1>1, <1>2, <1>3
<1>5. QED
  BY <1>1, <1>4 DEF StreamInv, Queued

LEMMA SourcesAre ==
  ASSUME NEW p \in Pipelines
  PROVE  SourceFrames[p] \in Nat /\ SeekTarget \in 0..SourceFrames[p]
<1>1. /\ SourceFrames \in [Pipelines -> Nat] /\ SeekTarget \in Nat
      /\ SeekTarget <= SourceFrames[p]
  BY OutputAssumption, Zenon
<1>2. QED
  BY <1>1

LEMMA QueueNextStream ==
  ASSUME StreamInv, QueueNext
  PROVE  StreamInv'
<1>1. /\ UNCHANGED <<opened, popped, handoff, callback, cell, now, due, heard>>
      /\ chainSlot' = [value |-> [after |-> stream.pipeline, next |-> stream.next]]
      /\ stream' = [stream EXCEPT !.given = stream.next, !.next = @ + 1]
      /\ stream.next \in Pipelines /\ pushed' = pushed
  BY DEF QueueNext, Opening, history
<1>2. Queued'
  <2>1. opened \in Openings /\ opened.error = "none"
    BY DEF QueueNext, IsOpen, StreamInv, Queued
  <2>2. FramesOf(opened, SourceFrames[stream.next]) \in Nat
    BY <1>1, <2>1, OpensIs, FramesOfIs, SourcesAre
  <2>3. QED
    BY <1>1, <2>2, OpenedQueue DEF QueueNext
<1>3. Clocks'
  BY <1>1 DEF StreamInv, Clocks
<1>4. /\ stream \in WorkerSides /\ stream.pipeline \in Pipelines /\ stream.pipeline \in Nat
      /\ stream.next \in Nat /\ stream.pipeline < stream.next
  BY PipelinesAre DEF StreamInv, Held, WorkerSides
<1>5. /\ stream' \in WorkerSides /\ stream'.next = stream.next + 1
      /\ stream'.pipeline = stream.pipeline /\ stream'.given = stream.next
      /\ stream'.switching = stream.switching /\ stream'.update = stream.update
      /\ stream'.last = stream.last
  <2>1. PICK n : n = stream.next + 1
    OBVIOUS
  <2>2. n \in Nat
    BY <1>4, <2>1
  <2>3. stream' = [stream EXCEPT !.given = stream.next, !.next = n]
    BY <1>1, <2>1
  <2>4. QED
    BY <1>1, <1>4, <2>1, <2>2, <2>3 DEF WorkerSides
<1>6. Held'
  <2>1. chainSlot' \in [value : Chainings \cup {Nothing}]
    BY <1>1, <1>4 DEF Chainings
  <2>2. callback.pipeline < stream.next + 1
    BY <1>4, PipelinesAre DEF StreamInv, Held, Callbacks
  <2>3. stream.switching # Nothing => stream.switching < stream.next + 1
    BY <1>4, PipelinesAre DEF StreamInv, Held, WorkerSides
  <2>4. QED
    BY <1>1, <1>4, <1>5, <2>1, <2>2, <2>3 DEF StreamInv, Held
<1>7. Unheard'
  <2>1. \A p \in Pipelines : p >= stream.next + 1 => p >= stream.next
    BY <1>4, PipelinesAre
  <2>2. handoff # Nothing => handoff < stream.next + 1
    BY <1>4, PipelinesAre DEF StreamInv, Held, Unheard
  <2>3. ASSUME NEW c \in Chainings, Follows(c) PROVE Follows(c)'
    BY <1>1, <1>4, <1>5, <2>3, PipelinesAre DEF Follows, Chainings
  <2>4. callback.chained # Nothing => callback.chained \in Chainings
    BY DEF StreamInv, Held, Callbacks
  <2>5. callback'.chained # Nothing => Follows(callback.chained)'
    BY <1>1, <2>3, <2>4 DEF StreamInv, Unheard
  <2>6. heard[stream.next] = <<>>
    BY <1>1, <1>4 DEF StreamInv, Unheard
  <2>7. Follows(chainSlot.value)'
    BY <1>1, <1>4, <1>5, <2>6 DEF Follows
  <2>8. QED
    BY <1>1, <1>5, <2>1, <2>2, <2>5, <2>7 DEF StreamInv, Unheard
<1>8. Sounds'
  BY <1>1 DEF StreamInv, Sounds
<1>9. Reported'
  <2>1. now <= now'
    BY <1>1 DEF StreamInv, Clocks
  <2>2. QED
    BY <1>1, <1>3, <1>5, <1>6, <2>1, ReportsStay
<1>10. QED
  BY <1>2, <1>3, <1>6, <1>7, <1>8, <1>9 DEF StreamInv

LEMMA ClearNextStream ==
  ASSUME StreamInv, ClearNext
  PROVE  StreamInv'
<1>1. /\ UNCHANGED <<opened, frames, pushed, popped, handoff, callback, cell, now, due, heard>>
      /\ chainSlot' = [value |-> Nothing]
      /\ stream' = [stream EXCEPT !.given = Nothing]
  BY DEF ClearNext, history, queues
<1>2. stream \in WorkerSides
  BY DEF StreamInv, Held
<1>3. /\ stream' \in WorkerSides /\ stream'.next = stream.next
      /\ stream'.pipeline = stream.pipeline /\ stream'.given = Nothing
      /\ stream'.switching = stream.switching /\ stream'.update = stream.update
      /\ stream'.last = stream.last
  BY <1>1, <1>2 DEF WorkerSides
<1>4. Held'
  BY <1>1, <1>3 DEF StreamInv, Held
<1>5. Queued' /\ Clocks' /\ Unheard' /\ Sounds'
  BY <1>1, <1>3 DEF StreamInv, Queued, Clocks, Unheard, Follows, Sounds
<1>6. Reported'
  <2>1. now <= now'
    BY <1>1 DEF StreamInv, Clocks
  <2>2. QED
    BY <1>1, <1>3, <1>4, <1>5, <2>1, ReportsStay
<1>7. QED
  BY <1>4, <1>5, <1>6 DEF StreamInv

LEMMA SwitchQueueStream ==
  ASSUME StreamInv, SwitchQueue
  PROVE  StreamInv'
<1>1. /\ UNCHANGED <<opened, popped, chainSlot, callback, cell, now, due, heard>>
      /\ handoff' = stream.next
      /\ stream' = [stream EXCEPT !.switching = stream.next, !.next = @ + 1]
      /\ stream.next \in Pipelines /\ pushed' = pushed
  BY DEF SwitchQueue, Opening
<1>2. Queued'
  <2>1. opened \in Openings /\ opened.error = "none"
    BY DEF SwitchQueue, IsOpen, StreamInv, Queued
  <2>2. FramesFrom(opened, SourceFrames[stream.next], SeekTarget) \in Nat
    BY <1>1, <2>1, OpensIs, FramesFromIs, SourcesAre
  <2>3. QED
    BY <1>1, <2>2, OpenedQueue DEF SwitchQueue
<1>3. Clocks'
  BY <1>1 DEF StreamInv, Clocks
<1>4. /\ stream \in WorkerSides /\ stream.pipeline \in Pipelines /\ stream.pipeline \in Nat
      /\ stream.next \in Nat /\ stream.pipeline < stream.next
  BY PipelinesAre DEF StreamInv, Held, WorkerSides
<1>5. /\ stream' \in WorkerSides /\ stream'.next = stream.next + 1
      /\ stream'.pipeline = stream.pipeline /\ stream'.given = stream.given
      /\ stream'.switching = stream.next /\ stream'.update = stream.update
      /\ stream'.last = stream.last
  <2>1. PICK n : n = stream.next + 1
    OBVIOUS
  <2>2. n \in Nat
    BY <1>4, <2>1
  <2>3. stream' = [stream EXCEPT !.switching = stream.next, !.next = n]
    BY <1>1, <2>1
  <2>4. QED
    BY <1>1, <1>4, <2>1, <2>2, <2>3 DEF WorkerSides
<1>6. Held'
  <2>1. callback.pipeline < stream.next + 1
    BY <1>4, PipelinesAre DEF StreamInv, Held, Callbacks
  <2>2. stream.given # Nothing => stream.given < stream.next + 1
    BY <1>4, PipelinesAre DEF StreamInv, Held, WorkerSides
  <2>3. QED
    BY <1>1, <1>4, <1>5, <2>1, <2>2 DEF StreamInv, Held
<1>7. Unheard'
  <2>1. \A p \in Pipelines : p >= stream.next + 1 => p >= stream.next
    BY <1>4, PipelinesAre
  <2>2. ASSUME NEW c \in Chainings, Follows(c) PROVE Follows(c)'
    BY <1>1, <1>4, <1>5, <2>2, PipelinesAre DEF Follows, Chainings
  <2>3. /\ callback.chained # Nothing => callback.chained \in Chainings
        /\ chainSlot # Nothing /\ chainSlot.value # Nothing => chainSlot.value \in Chainings
    BY DEF StreamInv, Held, Callbacks
  <2>4. /\ callback'.chained # Nothing => Follows(callback.chained)'
        /\ chainSlot' # Nothing /\ chainSlot'.value # Nothing => Follows(chainSlot.value)'
    BY <1>1, <2>2, <2>3 DEF StreamInv, Unheard
  <2>5. heard[stream.next] = <<>> /\ stream.next < stream.next + 1
    BY <1>1, <1>4 DEF StreamInv, Unheard
  <2>6. QED
    BY <1>1, <1>5, <2>1, <2>4, <2>5 DEF StreamInv, Unheard
<1>8. Sounds'
  BY <1>1 DEF StreamInv, Sounds
<1>9. Reported'
  <2>1. now <= now'
    BY <1>1 DEF StreamInv, Clocks
  <2>2. QED
    BY <1>1, <1>3, <1>5, <1>6, <2>1, ReportsStay
<1>10. QED
  BY <1>2, <1>3, <1>6, <1>7, <1>8, <1>9 DEF StreamInv

LEMMA RenewedStream ==
  ASSUME StreamInv, NEW p \in Pipelines, p < stream.next, stream' = Renewed(p),
         UNCHANGED <<opened, frames, pushed, popped, handoff, callback, now, due, heard>>,
         chainSlot' \in {chainSlot, [value |-> Nothing]}, cell' = Nothing
  PROVE  StreamInv'
<1>1. stream \in WorkerSides
  BY DEF StreamInv, Held
<1>2. /\ stream' \in WorkerSides /\ stream'.next = stream.next /\ stream'.pipeline = p
      /\ stream'.given = Nothing /\ stream'.switching = Nothing
      /\ stream'.update = Nothing /\ stream'.last = 0
  BY <1>1 DEF Renewed, WorkerSides
<1>3. Held'
  BY <1>2 DEF StreamInv, Held
<1>4. Queued' /\ Clocks' /\ Sounds'
  BY DEF StreamInv, Queued, Clocks, Sounds
<1>5. Unheard'
  BY <1>2 DEF StreamInv, Unheard, Follows
<1>6. Reported'
  <2>1. callback.report # Nothing => IsTrue(callback.report)'
    <3>1. callback.report # Nothing => callback.report \in Reports
      BY DEF StreamInv, Held, Callbacks
    <3>2. now <= now'
      BY <1>4 DEF StreamInv, Clocks
    <3>3. QED
      BY <1>4, <3>1, <3>2, TruthStays DEF StreamInv, Reported
  <2>2. NearlyHeard(p, 0)'
    <3>1. heard[p] \in Seq(Nat)
      BY DEF StreamInv, Queued
    <3>2. Len(heard'[p]) \in Nat
      BY <3>1
    <3>3. QED
      BY <3>2 DEF NearlyHeard
  <2>3. QED
    BY <1>2, <2>1, <2>2 DEF Reported, NearlyHeard
<1>7. QED
  BY <1>3, <1>4, <1>5, <1>6 DEF StreamInv

LEMMA FinishSwitchStream ==
  ASSUME StreamInv, FinishSwitch
  PROVE  StreamInv'
<1>1. stream.switching \in Pipelines /\ stream.switching < stream.next
  BY DEF FinishSwitch, StreamInv, Held, WorkerSides
<1>2. QED
  BY <1>1, RenewedStream DEF FinishSwitch, queues, history

LEMMA AdoptNextStream ==
  ASSUME StreamInv, AdoptNext
  PROVE  StreamInv'
<1>1. stream.given \in Pipelines /\ stream.given < stream.next
  BY DEF AdoptNext, StreamInv, Held, WorkerSides
<1>2. QED
  BY <1>1, RenewedStream DEF AdoptNext, queues, history

(* From a true report follows a position that is nearly heard.             *)
LEMMA PositionFromReport ==
  ASSUME StreamInv, NEW r \in Reports, IsTrue(r), NEW elapsed \in Nat,
         elapsed = IF r.time <= now THEN now - r.time ELSE 0,
         NEW m \in Nat, m <= r.start + elapsed, m <= r.end
  PROVE  NearlyHeard(r.pipeline, m)
<1>1. /\ r.start \in Nat /\ r.end \in Nat /\ r.time \in Nat /\ now \in Nat /\ Lead \in Nat
      /\ r.pipeline \in Pipelines
  BY Numbers DEF Reports, StreamInv, Clocks
<1>2. PICK s : s = heard[r.pipeline]
  OBVIOUS
<1>3. s \in Seq(Nat) /\ Len(s) \in Nat
  BY <1>1, <1>2 DEF StreamInv, Queued
<1>4. /\ r.start <= Len(s) /\ \A i \in 1..r.start : s[i] < now + Lead
      /\ r.end <= Len(s)
      /\ \A i \in (r.start + 1)..r.end : s[i] = r.time + (i - r.start - 1)
  BY <1>2 DEF IsTrue, NearlyHeard
<1>5. m <= Len(s)
  BY <1>1, <1>3, <1>4
<1>6. ASSUME NEW i \in 1..m PROVE s[i] < now + Lead
  <2>1. CASE i <= r.start
    BY <1>4, <2>1
  <2>2. CASE ~(i <= r.start)
    <3>1. i \in (r.start + 1)..r.end /\ elapsed > 0 /\ i - r.start <= elapsed
      BY <1>1, <2>2
    <3>2. s[i] = r.time + (i - r.start - 1)
      BY <1>4, <3>1
    <3>3. r.time + elapsed = now
      BY <1>1, <3>1
    <3>4. QED
      BY <1>1, <3>1, <3>2, <3>3
  <2>3. QED
    BY <2>1, <2>2
<1>7. QED
  BY <1>2, <1>5, <1>6 DEF NearlyHeard

LEMMA SampleStream ==
  ASSUME StreamInv, SamplePosition
  PROVE  StreamInv'
<1>1. UNCHANGED <<opened, frames, pushed, popped, handoff, chainSlot, callback, now, due, heard>>
      /\ cell' = Nothing
  BY DEF SamplePosition, queues, history
<1>2. PICK update : update = IF cell # Nothing /\ cell.pipeline = stream.pipeline THEN cell
                             ELSE stream.update
  OBVIOUS
<1>3. PICK last : last = IF update = Nothing THEN stream.last ELSE PlayedFramePosition(update)
  OBVIOUS
<1>4. stream' = [stream EXCEPT !.update = update, !.last = last]
  BY <1>2, <1>3 DEF SamplePosition
<1>5. /\ update \in Reports \cup {Nothing}
      /\ update # Nothing => IsTrue(update) /\ update.pipeline = stream.pipeline
  BY <1>2 DEF StreamInv, Held, WorkerSides, Reported
<1>6. stream \in WorkerSides /\ stream.last \in Nat /\ NearlyHeard(stream.pipeline, stream.last)
  BY DEF StreamInv, Held, WorkerSides, Reported
<1>7. last \in Nat /\ NearlyHeard(stream.pipeline, last)
  <2>1. CASE update = Nothing
    BY <1>3, <1>6, <2>1
  <2>2. CASE update # Nothing
    <3>1. update \in Reports /\ update.start \in Nat /\ update.end \in Nat /\ update.time \in Nat
      BY <1>5, <2>2 DEF Reports
    <3>2. PICK elapsed : elapsed = IF update.time <= now THEN now - update.time ELSE 0
      OBVIOUS
    <3>3. elapsed \in Nat
      BY <3>1, <3>2 DEF StreamInv, Clocks
    <3>4. PICK m : m = Min({update.start + elapsed, update.end})
      OBVIOUS
    <3>5. m \in Nat /\ m <= update.start + elapsed /\ m <= update.end
      BY <3>1, <3>3, <3>4, MinOfTwo
    <3>6. NearlyHeard(stream.pipeline, m)
      BY <1>5, <2>2, <3>1, <3>2, <3>3, <3>5, PositionFromReport
    <3>7. last = Max({stream.last, m})
      BY <1>3, <2>2, <3>2, <3>4 DEF PlayedFramePosition
    <3>8. last \in {stream.last, m}
      BY <1>6, <3>5, <3>7, MaxOfTwo
    <3>9. QED
      BY <1>6, <3>5, <3>6, <3>8
  <2>3. QED
    BY <2>1, <2>2
<1>8. /\ stream' \in WorkerSides /\ stream'.next = stream.next
      /\ stream'.pipeline = stream.pipeline /\ stream'.given = stream.given
      /\ stream'.switching = stream.switching /\ stream'.update = update
      /\ stream'.last = last
  BY <1>4, <1>5, <1>6, <1>7 DEF WorkerSides
<1>9. Held'
  BY <1>1, <1>8 DEF StreamInv, Held
<1>10. Queued' /\ Clocks' /\ Unheard' /\ Sounds'
  BY <1>1, <1>8 DEF StreamInv, Queued, Clocks, Unheard, Follows, Sounds
<1>11. Reported'
  BY <1>1, <1>5, <1>7, <1>8 DEF StreamInv, Reported, IsTrue, NearlyHeard
<1>12. QED
  BY <1>9, <1>10, <1>11 DEF StreamInv

(* What is heard when a pipeline is played on.                             *)
PlayedTo(h, p, t, n) == [h EXCEPT ![p] = @ \o HeardAt(t, n)]
InTime(h) == \A p \in Pipelines : \A i, j \in DOMAIN h[p] : i < j => h[p][i] < h[p][j]
Before(h, time) == \A p \in Pipelines : \A i \in DOMAIN h[p] : h[p][i] < time
GoesOn(h, g) ==
  \A p \in Pipelines : /\ Len(h[p]) <= Len(g[p])
                       /\ \A i \in 1..Len(h[p]) : g[p][i] = h[p][i]
GoesOnWith(h, g, p, t, n) ==
  /\ g \in [Pipelines -> Seq(Nat)]
  /\ InTime(g) /\ Before(g, t + n) /\ GoesOn(h, g)
  /\ Len(g[p]) = Len(h[p]) + n
  /\ \A q \in Pipelines : q # p => g[q] = h[q]
  /\ \A i \in (Len(h[p]) + 1)..(Len(h[p]) + n) : g[p][i] = t + (i - Len(h[p]) - 1)

LEMMA PlayedOn ==
  ASSUME NEW h \in [Pipelines -> Seq(Nat)], NEW t \in Nat, NEW n \in Nat, NEW p \in Pipelines,
         NEW g, g = PlayedTo(h, p, t, n),
         InTime(h), Before(h, t)
  PROVE  GoesOnWith(h, g, p, t, n)
<1>1. PICK s, a : s = h[p] /\ a = HeardAt(t, n)
  OBVIOUS
<1>2. s \in Seq(Nat) /\ Len(s) \in Nat /\ DOMAIN s = 1..Len(s)
  BY <1>1
<1>3. a \in Seq(Nat) /\ Len(a) = n /\ \A i \in 1..n : a[i] = t + i - 1
  <2>1. a = [i \in 1..n |-> t + i - 1]
    BY <1>1 DEF HeardAt
  <2>2. \A i \in 1..n : t + i - 1 \in Nat
    OBVIOUS
  <2>3. QED
    BY <2>1, <2>2
<1>4. PICK u : u = s \o a
  OBVIOUS
<1>5. /\ u \in Seq(Nat) /\ Len(u) = Len(s) + n /\ DOMAIN u = 1..(Len(s) + n)
      /\ \A i \in 1..Len(s) : u[i] = s[i]
      /\ \A i \in (Len(s) + 1)..(Len(s) + n) : u[i] = t + (i - Len(s) - 1)
  <2>1. u \in Seq(Nat) /\ Len(u) = Len(s) + n
    BY <1>2, <1>3, <1>4, ConcatProperties
  <2>2. \A i \in 1..(Len(s) + n) : u[i] = IF i <= Len(s) THEN s[i] ELSE a[i - Len(s)]
    BY <1>2, <1>3, <1>4
  <2>3. ASSUME NEW i \in (Len(s) + 1)..(Len(s) + n)
        PROVE  u[i] = t + (i - Len(s) - 1)
    <3>1. i - Len(s) \in 1..n /\ i \in 1..(Len(s) + n) /\ ~(i <= Len(s))
      BY <1>2
    <3>2. u[i] = a[i - Len(s)]
      BY <2>2, <3>1
    <3>3. a[i - Len(s)] = t + (i - Len(s)) - 1
      BY <1>3, <3>1
    <3>4. QED
      BY <1>2, <3>1, <3>2, <3>3
  <2>4. ASSUME NEW i \in 1..Len(s)
        PROVE  u[i] = s[i]
    <3>1. i \in 1..(Len(s) + n) /\ i <= Len(s)
      BY <1>2
    <3>2. QED
      BY <2>2, <3>1
  <2>5. QED
    BY <2>1, <2>3, <2>4
<1>6. g[p] = u /\ g = [h EXCEPT ![p] = u]
  BY <1>1, <1>4 DEF PlayedTo
<1>7. g \in [Pipelines -> Seq(Nat)] /\ \A q \in Pipelines : q # p => g[q] = h[q]
  BY <1>5, <1>6
<1>8. /\ \A i, j \in DOMAIN s : i < j => s[i] < s[j]
      /\ \A i \in DOMAIN s : s[i] < t /\ s[i] \in Nat
  <2>1. \A i, j \in DOMAIN s : i < j => s[i] < s[j]
    BY <1>1 DEF InTime
  <2>2. \A i \in DOMAIN s : s[i] < t
    BY <1>1 DEF Before
  <2>3. \A i \in DOMAIN s : s[i] \in Nat
    BY <1>2
  <2>4. QED
    BY <2>1, <2>2, <2>3
<1>9. ASSUME NEW i \in DOMAIN u, NEW j \in DOMAIN u, i < j
      PROVE  u[i] < u[j]
  <2>1. i \in 1..(Len(s) + n) /\ j \in 1..(Len(s) + n)
    BY <1>5
  <2>2. CASE j <= Len(s)
    <3>1. i \in 1..Len(s) /\ j \in 1..Len(s)
      BY <1>2, <1>9, <2>1, <2>2
    <3>2. QED
      BY <1>2, <1>5, <1>8, <1>9, <3>1
  <2>3. CASE i <= Len(s) /\ ~(j <= Len(s))
    <3>1. i \in 1..Len(s) /\ j \in (Len(s) + 1)..(Len(s) + n)
      BY <1>2, <2>1, <2>3
    <3>2. u[i] = s[i] /\ u[j] = t + (j - Len(s) - 1) /\ s[i] < t /\ s[i] \in Nat
      BY <1>2, <1>5, <1>8, <3>1
    <3>3. QED
      BY <1>2, <3>1, <3>2
  <2>4. CASE ~(i <= Len(s))
    <3>1. i \in (Len(s) + 1)..(Len(s) + n) /\ j \in (Len(s) + 1)..(Len(s) + n)
      BY <1>2, <1>9, <2>1, <2>4
    <3>2. u[i] = t + (i - Len(s) - 1) /\ u[j] = t + (j - Len(s) - 1)
      BY <1>5, <3>1
    <3>3. QED
      BY <1>2, <1>9, <3>1, <3>2
  <2>5. QED
    BY <1>2, <2>1, <2>2, <2>3, <2>4
<1>10. ASSUME NEW i \in DOMAIN u
       PROVE  u[i] < t + n
  <2>1. i \in 1..(Len(s) + n)
    BY <1>5
  <2>2. CASE i <= Len(s)
    <3>1. i \in 1..Len(s)
      BY <1>2, <2>1, <2>2
    <3>2. u[i] = s[i] /\ s[i] < t /\ s[i] \in Nat
      BY <1>2, <1>5, <1>8, <3>1
    <3>3. QED
      BY <3>2
  <2>3. CASE ~(i <= Len(s))
    <3>1. i \in (Len(s) + 1)..(Len(s) + n)
      BY <1>2, <2>1, <2>3
    <3>2. u[i] = t + (i - Len(s) - 1)
      BY <1>5, <3>1
    <3>3. QED
      BY <1>2, <3>1, <3>2
  <2>4. QED
    BY <2>2, <2>3
<1>11. InTime(g)
  BY <1>6, <1>7, <1>9 DEF InTime
<1>12. Before(g, t + n)
  <2>1. ASSUME NEW q \in Pipelines, q # p, NEW i \in DOMAIN h[q]
        PROVE  h[q][i] < t + n
    <3>1. h[q] \in Seq(Nat)
      OBVIOUS
    <3>2. h[q][i] \in Nat
      BY <3>1
    <3>3. h[q][i] < t
      BY DEF Before
    <3>4. QED
      BY <3>2, <3>3
  <2>2. QED
    BY <1>6, <1>7, <1>10, <2>1 DEF Before
<1>13. GoesOn(h, g)
  <2>1. Len(s) <= Len(u) /\ \A i \in 1..Len(s) : u[i] = s[i]
    BY <1>2, <1>5
  <2>2. ASSUME NEW q \in Pipelines, q # p PROVE Len(h[q]) <= Len(h[q])
    <3>1. h[q] \in Seq(Nat)
      OBVIOUS
    <3>2. QED
      BY <3>1
  <2>3. QED
    BY <1>1, <1>6, <1>7, <2>1, <2>2 DEF GoesOn
<1>14. QED
  BY <1>1, <1>5, <1>6, <1>7, <1>11, <1>12, <1>13 DEF GoesOnWith

LEMMA GoesOnAgain ==
  ASSUME NEW h \in [Pipelines -> Seq(Nat)], NEW g \in [Pipelines -> Seq(Nat)],
         NEW f \in [Pipelines -> Seq(Nat)], GoesOn(h, g), GoesOn(g, f)
  PROVE  GoesOn(h, f)
<1>1. ASSUME NEW p \in Pipelines
      PROVE  Len(h[p]) <= Len(f[p]) /\ \A i \in 1..Len(h[p]) : f[p][i] = h[p][i]
  <2>1. h[p] \in Seq(Nat) /\ g[p] \in Seq(Nat) /\ f[p] \in Seq(Nat)
    OBVIOUS
  <2>2. Len(h[p]) \in Nat /\ Len(g[p]) \in Nat /\ Len(f[p]) \in Nat
    BY <2>1
  <2>3. /\ Len(h[p]) <= Len(g[p]) /\ \A i \in 1..Len(h[p]) : g[p][i] = h[p][i]
        /\ Len(g[p]) <= Len(f[p]) /\ \A i \in 1..Len(g[p]) : f[p][i] = g[p][i]
    BY DEF GoesOn
  <2>4. QED
    BY <2>2, <2>3
<1>2. QED
  BY <1>1 DEF GoesOn

(* What is true of what was heard stays true when more is.                 *)
LEMMA TruthGrows ==
  ASSUME StreamInv, heard' \in [Pipelines -> Seq(Nat)], GoesOn(heard, heard'), now' = now
  PROVE  /\ \A p \in Pipelines, m \in Nat : NearlyHeard(p, m) => NearlyHeard(p, m)'
         /\ \A r \in Reports : IsTrue(r) => IsTrue(r)'
<1>1. \A p \in Pipelines : /\ Len(heard[p]) \in Nat /\ Len(heard'[p]) \in Nat
                           /\ Len(heard[p]) <= Len(heard'[p])
                           /\ \A i \in 1..Len(heard[p]) : heard'[p][i] = heard[p][i]
  <2>1. ASSUME NEW p \in Pipelines PROVE Len(heard[p]) \in Nat /\ Len(heard'[p]) \in Nat
    <3>1. heard[p] \in Seq(Nat) /\ heard'[p] \in Seq(Nat)
      BY DEF StreamInv, Queued
    <3>2. QED
      BY <3>1
  <2>2. QED
    BY <2>1 DEF GoesOn
<1>2. ASSUME NEW p \in Pipelines, NEW m \in Nat, NearlyHeard(p, m)
      PROVE  NearlyHeard(p, m)'
  <2>1. m <= Len(heard[p]) /\ \A i \in 1..m : heard[p][i] < now + Lead
    BY <1>2 DEF NearlyHeard
  <2>2. m <= Len(heard'[p])
    BY <1>1, <2>1
  <2>3. \A i \in 1..m : heard'[p][i] = heard[p][i]
    BY <1>1, <2>1
  <2>4. QED
    BY <2>1, <2>2, <2>3 DEF NearlyHeard
<1>3. ASSUME NEW r \in Reports, IsTrue(r)
      PROVE  IsTrue(r)'
  <2>1. r.pipeline \in Pipelines /\ r.start \in Nat /\ r.end \in Nat
    BY DEF Reports
  <2>2. NearlyHeard(r.pipeline, r.start)'
    BY <1>2, <1>3, <2>1 DEF IsTrue
  <2>3. /\ r.start <= r.end /\ r.end <= Len(heard[r.pipeline])
        /\ \A i \in (r.start + 1)..r.end : heard[r.pipeline][i] = r.time + (i - r.start - 1)
    BY <1>3 DEF IsTrue
  <2>4. ASSUME NEW i \in (r.start + 1)..r.end
        PROVE  heard'[r.pipeline][i] = heard[r.pipeline][i]
    <3>1. Len(heard[r.pipeline]) \in Nat
      BY <1>1, <2>1
    <3>2. i \in 1..Len(heard[r.pipeline])
      BY <2>1, <2>3, <3>1
    <3>3. QED
      BY <1>1, <2>1, <3>2
  <2>5. r.end <= Len(heard'[r.pipeline])
    BY <1>1, <2>1, <2>3
  <2>6. QED
    BY <2>2, <2>3, <2>4, <2>5 DEF IsTrue
<1>4. QED
  BY <1>2, <1>3

(* What the callback goes on with at the start of a run.                   *)
LEMMA TakenHandoff ==
  ASSUME StreamInv, NEW first, first = TakeHandoff
  PROVE  /\ first \in Callbacks /\ first.pipeline < stream.next
         /\ first.position = Len(heard[first.pipeline])
         /\ first.chained # Nothing =>
              /\ first.chained \in Chainings /\ first.chained.after = first.pipeline
              /\ Follows(first.chained)
<1>1. PICK switched : switched = IF handoff = Nothing THEN callback
                                 ELSE [Start(handoff, "between") EXCEPT
                                         !.chained = callback.chained]
  OBVIOUS
<1>2. callback \in Callbacks /\ callback.chained \in Chainings \cup {Nothing}
  BY DEF StreamInv, Held, Callbacks
<1>3. /\ switched \in Callbacks /\ switched.pipeline < stream.next
      /\ switched.position = Len(heard[switched.pipeline])
      /\ switched.chained = callback.chained
  <2>1. CASE handoff = Nothing
    BY <1>1, <1>2, <2>1 DEF StreamInv, Held, Sounds
  <2>2. CASE handoff # Nothing
    <3>1. handoff \in Pipelines /\ handoff < stream.next /\ heard[handoff] = <<>>
      BY <2>2 DEF StreamInv, Held, Unheard
    <3>2. switched = [pipeline |-> handoff, chained |-> callback.chained, position |-> 0,
                      end |-> Nothing, completion |-> "pending", at |-> "between",
                      report |-> Nothing]
      BY <1>1, <2>2 DEF Start
    <3>3. Len(heard[handoff]) = 0
      BY <3>1
    <3>4. QED
      BY <1>2, <3>1, <3>2, <3>3 DEF Callbacks
  <2>3. QED
    BY <2>1, <2>2
<1>4. PICK chained : chained = IF chainSlot = Nothing THEN switched.chained ELSE chainSlot.value
  OBVIOUS
<1>5. chained # Nothing => chained \in Chainings /\ Follows(chained)
  BY <1>2, <1>3, <1>4 DEF StreamInv, Held, Unheard
<1>6. first = [switched EXCEPT !.chained =
                 IF chained # Nothing /\ chained.after = switched.pipeline
                 THEN chained ELSE Nothing]
  BY <1>1, <1>4 DEF TakeHandoff
<1>7. PICK kept : kept = IF chained # Nothing /\ chained.after = switched.pipeline
                         THEN chained ELSE Nothing
  OBVIOUS
<1>8. /\ kept # Nothing => /\ kept \in Chainings /\ Follows(kept)
                           /\ kept.after = switched.pipeline
      /\ kept \in Chainings \cup {Nothing}
  BY <1>5, <1>7
<1>9. first = [switched EXCEPT !.chained = kept]
  BY <1>6, <1>7
<1>10. /\ first \in Callbacks /\ first.pipeline = switched.pipeline
       /\ first.position = switched.position /\ first.chained = kept
  BY <1>3, <1>8, <1>9 DEF Callbacks
<1>11. QED
  BY <1>3, <1>8, <1>10

LEMMA SegmentIs ==
  ASSUME NEW cb \in Callbacks, NEW n \in Nat, NEW t \in Nat, NEW after, after = Segment(cb, n, t)
  PROVE  /\ after \in Callbacks /\ after.pipeline = cb.pipeline /\ after.chained = cb.chained
         /\ after.position = cb.position + n /\ after.report \in Reports
         /\ after.report.pipeline = cb.pipeline /\ after.report.start = cb.position
         /\ after.report.end = cb.position + n /\ after.report.time = t
<1>1. PICK end, report, position :
         /\ end = IF n > 0 THEN t + n ELSE cb.end
         /\ report = [pipeline |-> cb.pipeline, start |-> cb.position,
                      end |-> cb.position + n, time |-> t]
         /\ position = cb.position + n
  OBVIOUS
<1>2. cb.position \in Nat /\ cb.pipeline \in Pipelines /\ cb.end \in Nat \cup {Nothing}
  BY DEF Callbacks
<1>3. end \in Nat \cup {Nothing} /\ position \in Nat /\ report \in Reports
  BY <1>1, <1>2 DEF Reports
<1>4. after = [cb EXCEPT !.position = position, !.end = end, !.report = report]
  BY <1>1 DEF Segment
<1>5. /\ after \in Callbacks /\ after.pipeline = cb.pipeline /\ after.chained = cb.chained
      /\ after.position = position /\ after.report = report
  BY <1>3, <1>4 DEF Callbacks
<1>6. QED
  BY <1>1, <1>3, <1>5

(* A run of the callback, by what it played and where it is then.          *)
LEMMA FilledStream ==
  ASSUME StreamInv, UNCHANGED <<opened, frames, pushed, cell, stream, now>>,
         handoff' = Nothing, chainSlot' = Nothing, due' \in Nat,
         heard' \in [Pipelines -> Seq(Nat)], popped' \in [Pipelines -> Nat],
         GoesOn(heard, heard'), InTime(heard'), Before(heard', due'),
         \A p \in Pipelines : Len(heard'[p]) = popped'[p] /\ popped'[p] <= pushed[p],
         \A p \in Pipelines : p >= stream.next => heard'[p] = <<>>,
         callback' \in Callbacks, callback'.pipeline < stream.next,
         callback'.position = Len(heard'[callback'.pipeline]),
         callback'.chained # Nothing =>
           callback'.chained.after = callback'.pipeline /\ Follows(callback.chained)',
         IsTrue(callback.report)'
  PROVE  StreamInv'
<1>1. Queued'
  BY DEF StreamInv, Queued
<1>2. Clocks'
  BY DEF StreamInv, Clocks
<1>3. Held'
  BY DEF StreamInv, Held
<1>4. Unheard'
  BY DEF StreamInv, Unheard
<1>5. Sounds'
  BY DEF Sounds, InTime, Before
<1>6. Reported'
  <2>1. /\ cell # Nothing => cell \in Reports /\ IsTrue(cell)
        /\ stream.update # Nothing =>
             /\ stream.update \in Reports /\ IsTrue(stream.update)
             /\ stream.update.pipeline = stream.pipeline
        /\ stream.pipeline \in Pipelines /\ stream.last \in Nat
        /\ NearlyHeard(stream.pipeline, stream.last)
    BY DEF StreamInv, Held, WorkerSides, Reported
  <2>2. /\ cell # Nothing => IsTrue(cell)'
        /\ stream.update # Nothing => IsTrue(stream.update)'
        /\ NearlyHeard(stream.pipeline, stream.last)'
    BY <2>1, TruthGrows
  <2>3. QED
    BY <2>1, <2>2 DEF Reported
<1>7. QED
  BY <1>1, <1>2, <1>3, <1>4, <1>5, <1>6 DEF StreamInv

LEMMA ChainedNext ==
  ASSUME NEW cb \in Callbacks, cb.chained \in Chainings, NEW next, next = ChainToNext(cb)
  PROVE  /\ next \in Callbacks /\ next.pipeline = cb.chained.next /\ next.position = 0
         /\ next.chained = Nothing
<1>1. cb.chained.next \in Pipelines /\ cb.report \in Reports \cup {Nothing}
  BY DEF Callbacks, Chainings
<1>2. next = [pipeline |-> cb.chained.next, chained |-> Nothing, position |-> 0, end |-> Nothing,
              completion |-> "pending", at |-> "between", report |-> cb.report]
  BY DEF ChainToNext, Start
<1>3. QED
  BY <1>1, <1>2 DEF Callbacks

(* What a run of the callback plays: from when on, of which pipeline and   *)
(* how much.                                                               *)
Plays(t, first, p, n, h) ==
  /\ t = Max({due, now}) /\ first = TakeHandoff /\ p = first.pipeline
  /\ n = Min({Buffer, pushed[p] - popped[p]})
  /\ h = PlayedTo(heard, p, t, n)

LEMMA FirstSegment ==
  ASSUME StreamInv, due <= now + Lead,
         NEW t, NEW first, NEW p, NEW n, NEW h, Plays(t, first, p, n, h)
  PROVE  /\ t \in Nat /\ t <= now + Lead /\ p \in Pipelines /\ p < stream.next
         /\ n \in Nat /\ n <= Buffer /\ popped[p] + n <= pushed[p]
         /\ n = Buffer \/ popped[p] + n = pushed[p]
         /\ GoesOnWith(heard, h, p, t, n)
<1>1. due \in Nat /\ now \in Nat /\ Lead \in Nat /\ Buffer \in Nat
  BY Numbers DEF StreamInv, Clocks
<1>2. t \in Nat /\ due <= t /\ t <= now + Lead
  <2>1. t \in {due, now} /\ t >= due /\ t >= now
    BY <1>1, MaxOfTwo DEF Plays
  <2>2. QED
    BY <1>1, <2>1
<1>3. first \in Callbacks /\ p \in Pipelines /\ p < stream.next
  BY TakenHandoff DEF Callbacks, Plays
<1>4. popped[p] \in Nat /\ pushed[p] \in Nat /\ popped[p] <= pushed[p]
  BY <1>3 DEF StreamInv, Queued
<1>5. n \in Nat /\ n <= Buffer /\ n <= pushed[p] - popped[p]
      /\ (n = Buffer \/ n = pushed[p] - popped[p])
  <2>1. pushed[p] - popped[p] \in Nat
    BY <1>4
  <2>2. QED
    BY <1>1, <2>1, MinOfTwo DEF Plays
<1>6. heard \in [Pipelines -> Seq(Nat)] /\ InTime(heard) /\ Before(heard, t)
  <2>1. heard \in [Pipelines -> Seq(Nat)]
    BY DEF StreamInv, Queued
  <2>2. ASSUME NEW q \in Pipelines, NEW i \in DOMAIN heard[q] PROVE heard[q][i] < t
    <3>1. heard[q] \in Seq(Nat)
      BY <2>1
    <3>2. heard[q][i] \in Nat
      BY <3>1
    <3>3. heard[q][i] < due
      BY DEF StreamInv, Sounds
    <3>4. QED
      BY <1>1, <1>2, <3>2, <3>3
  <2>3. QED
    BY <2>1, <2>2 DEF StreamInv, Sounds, InTime, Before
<1>7. popped[p] + n <= pushed[p] /\ (n = Buffer \/ popped[p] + n = pushed[p])
  <2>1. PICK a, b : a = pushed[p] /\ b = popped[p]
    OBVIOUS
  <2>2. a \in Nat /\ b \in Nat /\ n \in Nat /\ n <= a - b /\ (n = Buffer \/ n = a - b)
    BY <1>4, <1>5, <2>1
  <2>3. b + n <= a /\ (n = Buffer \/ b + n = a)
    BY <2>2
  <2>4. QED
    BY <2>1, <2>3
<1>8. h = PlayedTo(heard, p, t, n)
  BY DEF Plays
<1>9. GoesOnWith(heard, h, p, t, n)
  <2>1. /\ heard \in [Pipelines -> Seq(Nat)] /\ t \in Nat /\ n \in Nat /\ p \in Pipelines
        /\ InTime(heard) /\ Before(heard, t)
    BY <1>2, <1>3, <1>5, <1>6
  <2>2. QED
    BY <1>8, <2>1, PlayedOn
<1>10. QED
  BY <1>2, <1>3, <1>5, <1>7, <1>9

LEMMA BeforeLater ==
  ASSUME NEW h \in [Pipelines -> Seq(Nat)], NEW time \in Nat, NEW later \in Nat, time <= later,
         Before(h, time)
  PROVE  Before(h, later)
<1>1. ASSUME NEW q \in Pipelines, NEW i \in DOMAIN h[q] PROVE h[q][i] < later
  <2>1. h[q] \in Seq(Nat)
    OBVIOUS
  <2>2. h[q][i] \in Nat
    BY <2>1
  <2>3. h[q][i] < time
    BY DEF Before
  <2>4. QED
    BY <2>2, <2>3
<1>2. QED
  BY <1>1 DEF Before

(* All that was heard up to this run is about to be heard at the latest.   *)
LEMMA StartsNearlyHeard ==
  ASSUME StreamInv, due <= now + Lead, now' = now, NEW p \in Pipelines, GoesOn(heard, heard'),
         NEW m, m = Len(heard[p])
  PROVE  NearlyHeard(p, m)'
<1>1. heard[p] \in Seq(Nat)
  BY DEF StreamInv, Queued
<1>2. due \in Nat /\ now \in Nat /\ Lead \in Nat
  BY Numbers DEF StreamInv, Clocks
<1>3. ASSUME NEW i \in 1..Len(heard[p])
      PROVE  heard'[p][i] < now + Lead
  <2>1. heard[p][i] \in Nat /\ i \in DOMAIN heard[p]
    BY <1>1
  <2>2. heard[p][i] < due
    BY <2>1 DEF StreamInv, Sounds
  <2>3. heard'[p][i] = heard[p][i]
    BY DEF GoesOn
  <2>4. QED
    BY <1>2, <2>1, <2>2, <2>3
<1>4. Len(heard[p]) <= Len(heard'[p])
  BY DEF GoesOn
<1>5. QED
  BY <1>3, <1>4 DEF NearlyHeard

LEMMA FillOnlyFirst ==
  ASSUME StreamInv, Fill, NEW t, NEW first, NEW p, NEW n, NEW h, Plays(t, first, p, n, h),
         ~Chains(first, n)
  PROVE  StreamInv'
<1>1. first = TakeHandoff
  BY DEF Plays
<1>2. PICK one : one = Segment(first, n, t)
  OBVIOUS
<1>3. /\ due <= now + Lead /\ callback' = [one EXCEPT !.at = "filled"]
      /\ popped' = [popped EXCEPT ![p] = @ + n] /\ heard' = h /\ due' = t + Buffer
      /\ handoff' = Nothing /\ chainSlot' = Nothing
      /\ UNCHANGED <<opened, frames, pushed, cell, stream, now>>
  BY <1>2 DEF Fill, queues, HeardAt, PlayedTo, Plays
<1>4. /\ t \in Nat /\ t <= now + Lead /\ p \in Pipelines /\ p < stream.next
      /\ n \in Nat /\ n <= Buffer /\ popped[p] + n <= pushed[p]
      /\ h \in [Pipelines -> Seq(Nat)] /\ InTime(h) /\ Before(h, t + n) /\ GoesOn(heard, h)
      /\ Len(h[p]) = Len(heard[p]) + n
      /\ \A q \in Pipelines : q # p => h[q] = heard[q]
      /\ \A i \in (Len(heard[p]) + 1)..(Len(heard[p]) + n) :
           h[p][i] = t + (i - Len(heard[p]) - 1)
  <2>1. /\ t \in Nat /\ t <= now + Lead /\ p \in Pipelines /\ p < stream.next
        /\ n \in Nat /\ n <= Buffer /\ popped[p] + n <= pushed[p]
        /\ GoesOnWith(heard, h, p, t, n)
    BY <1>3, FirstSegment
  <2>2. QED
    BY <2>1 DEF GoesOnWith
<1>5. /\ first \in Callbacks /\ first.position = Len(heard[p])
      /\ first.chained # Nothing =>
           first.chained \in Chainings /\ first.chained.after = p /\ Follows(first.chained)
  BY TakenHandoff DEF Plays
<1>6. /\ one \in Callbacks /\ one.pipeline = p /\ one.chained = first.chained
      /\ one.position = Len(heard[p]) + n /\ one.report \in Reports
      /\ one.report.pipeline = p /\ one.report.start = Len(heard[p])
      /\ one.report.end = Len(heard[p]) + n /\ one.report.time = t
  <2>1. first.pipeline = p
    BY DEF Plays
  <2>2. /\ one \in Callbacks /\ one.pipeline = first.pipeline /\ one.chained = first.chained
        /\ one.position = first.position + n /\ one.report \in Reports
        /\ one.report.pipeline = first.pipeline /\ one.report.start = first.position
        /\ one.report.end = first.position + n /\ one.report.time = t
    <3>1. first \in Callbacks /\ n \in Nat /\ t \in Nat
      BY <1>4, <1>5
    <3>2. QED
      BY <1>2, <3>1, SegmentIs
  <2>3. QED
    BY <1>5, <2>1, <2>2
<1>7. /\ callback' \in Callbacks /\ callback'.pipeline = p /\ callback'.chained = first.chained
      /\ callback'.position = Len(heard[p]) + n /\ callback'.report = one.report
  BY <1>3, <1>6 DEF Callbacks
<1>8. due' \in Nat /\ Before(heard', due')
  <2>1. t + n \in Nat /\ t + Buffer \in Nat /\ t + n <= t + Buffer
    BY <1>4, Numbers
  <2>2. QED
    BY <1>3, <1>4, <2>1, BeforeLater
<1>9. /\ popped' \in [Pipelines -> Nat]
      /\ \A q \in Pipelines : Len(heard'[q]) = popped'[q] /\ popped'[q] <= pushed[q]
  <2>1. /\ popped \in [Pipelines -> Nat] /\ pushed \in [Pipelines -> Nat]
        /\ \A q \in Pipelines : Len(heard[q]) = popped[q] /\ popped[q] <= pushed[q]
    BY DEF StreamInv, Queued
  <2>2. popped[p] + n \in Nat /\ popped'[p] = popped[p] + n
    BY <1>3, <1>4, <2>1
  <2>3. \A q \in Pipelines : q # p => popped'[q] = popped[q]
    BY <1>3, <2>1
  <2>4. popped' \in [Pipelines -> Nat]
    BY <1>3, <1>4, <2>1
  <2>5. QED
    BY <1>3, <1>4, <2>1, <2>2, <2>3, <2>4
<1>10. \A q \in Pipelines : q >= stream.next => heard'[q] = <<>>
  <2>1. \A q \in Pipelines : q >= stream.next => q # p
    BY <1>4, PipelinesAre DEF StreamInv, Held, WorkerSides
  <2>2. QED
    BY <1>3, <1>4, <2>1 DEF StreamInv, Unheard
<1>11. callback'.chained # Nothing =>
         callback'.chained.after = callback'.pipeline /\ Follows(callback.chained)'
  <2>1. ASSUME first.chained # Nothing
        PROVE  first.chained.after = p /\ Follows(callback.chained)'
    <3>1. first.chained.next \in Pipelines /\ first.chained.after < first.chained.next
          /\ first.chained.next < stream.next /\ heard[first.chained.next] = <<>>
          /\ first.chained.after = p
      BY <1>5, <2>1 DEF Follows, Chainings
    <3>2. first.chained.next # p
      BY <1>4, <3>1, PipelinesAre
    <3>3. QED
      BY <1>3, <1>4, <1>7, <3>1, <3>2 DEF Follows
  <2>2. QED
    BY <1>7, <2>1
<1>12. IsTrue(callback.report)'
  <2>0. PICK m : m = Len(heard[p])
    OBVIOUS
  <2>1. NearlyHeard(p, m)'
    BY <1>3, <1>4, <2>0, StartsNearlyHeard
  <2>2. Len(heard[p]) \in Nat /\ Len(heard[p]) <= Len(heard[p]) + n
    <3>1. heard[p] \in Seq(Nat)
      BY <1>4 DEF StreamInv, Queued
    <3>2. Len(heard[p]) \in Nat
      BY <3>1
    <3>3. QED
      BY <1>4, <3>2
  <2>3. PICK r : r = one.report
    OBVIOUS
  <2>4. r.pipeline = p /\ r.start = Len(heard[p]) /\ r.end = Len(heard[p]) + n /\ r.time = t
    BY <1>6, <2>3
  <2>5. /\ r.start <= r.end /\ r.end <= Len(heard'[r.pipeline])
        /\ \A i \in (r.start + 1)..r.end : heard'[r.pipeline][i] = r.time + (i - r.start - 1)
    BY <1>3, <1>4, <2>2, <2>4
  <2>6. callback'.report = r
    BY <1>7, <2>3
  <2>7. QED
    BY <2>0, <2>1, <2>4, <2>5, <2>6 DEF IsTrue, NearlyHeard
<1>13. callback'.pipeline < stream.next /\ callback'.position = Len(heard'[callback'.pipeline])
  BY <1>3, <1>4, <1>7
<1>14. QED
  BY <1>3, <1>4, <1>7, <1>8, <1>9, <1>10, <1>11, <1>12, <1>13, FilledStream

(* After the first segment the queue that follows is played.               *)
LEMMA FillChained ==
  ASSUME StreamInv, Fill, NEW t, NEW first, NEW p, NEW n, NEW h, Plays(t, first, p, n, h),
         Chains(first, n)
  PROVE  /\ StreamInv'
         /\ \E k \in Nat :
              /\ k = Min({Buffer - n, pushed[first.chained.next] - popped[first.chained.next]})
              /\ GoesOnWith(heard, h, p, t, n)
              /\ GoesOnWith(h, heard', first.chained.next, t + n, k)
              /\ first.chained.next # p
<1>1. first = TakeHandoff /\ first.chained # Nothing /\ n < Buffer
  BY DEF Plays, Chains
<1>2. PICK one, q : one = Segment(first, n, t) /\ q = first.chained.next
  OBVIOUS
<1>3. /\ t \in Nat /\ t <= now + Lead /\ p \in Pipelines /\ p < stream.next
      /\ n \in Nat /\ n <= Buffer /\ popped[p] + n <= pushed[p]
      /\ GoesOnWith(heard, h, p, t, n)
  <2>1. due <= now + Lead
    BY DEF Fill
  <2>2. QED
    BY <2>1, FirstSegment
<1>4. /\ h \in [Pipelines -> Seq(Nat)] /\ InTime(h) /\ Before(h, t + n) /\ GoesOn(heard, h)
      /\ Len(h[p]) = Len(heard[p]) + n
      /\ \A r \in Pipelines : r # p => h[r] = heard[r]
  BY <1>3 DEF GoesOnWith
<1>5. /\ first \in Callbacks /\ first.pipeline = p /\ first.chained \in Chainings
      /\ first.chained.after = p /\ Follows(first.chained)
  BY <1>1, TakenHandoff DEF Plays
<1>6. /\ q \in Pipelines /\ p < q /\ q < stream.next /\ heard[q] = <<>> /\ q # p
  <2>1. q \in Pipelines /\ p < q /\ q < stream.next /\ heard[q] = <<>>
    BY <1>2, <1>5 DEF Follows, Chainings
  <2>2. QED
    BY <1>3, <2>1, PipelinesAre
<1>7. one \in Callbacks /\ one.chained = first.chained
  <2>1. first \in Callbacks /\ n \in Nat /\ t \in Nat
    BY <1>3, <1>5
  <2>2. QED
    BY <1>2, <2>1, SegmentIs
<1>8. PICK done : done = ReportCompletion(one, told)[1]
  OBVIOUS
<1>9. done \in Callbacks /\ done.chained = first.chained
  BY <1>7, <1>8, CompletionKeeps
<1>10. PICK next : next = ChainToNext(done)
  OBVIOUS
<1>11. next \in Callbacks /\ next.pipeline = q /\ next.position = 0 /\ next.chained = Nothing
  BY <1>2, <1>5, <1>9, <1>10, ChainedNext
<1>12. PICK k : k = Min({Buffer - n, pushed[q] - popped[q]})
  OBVIOUS
<1>13. k \in Nat /\ k <= Buffer - n /\ k <= pushed[q] - popped[q] /\ popped[q] + k <= pushed[q]
  <2>1. PICK a, b : a = pushed[q] /\ b = popped[q]
    OBVIOUS
  <2>2. a \in Nat /\ b \in Nat /\ b <= a
    BY <1>6, <2>1 DEF StreamInv, Queued
  <2>3. Buffer - n \in Nat /\ a - b \in Nat
    BY <1>3, <2>2, Numbers
  <2>4. k \in Nat /\ k <= Buffer - n /\ k <= a - b
    BY <1>12, <2>1, <2>3, MinOfTwo
  <2>5. b + k <= a
    BY <2>2, <2>4
  <2>6. QED
    BY <2>1, <2>4, <2>5
<1>14. PICK two, g : two = Segment(next, k, t + n) /\ g = PlayedTo(h, q, t + n, k)
  OBVIOUS
<1>15. /\ callback' = [two EXCEPT !.at = "filled"] /\ heard' = g /\ due' = t + Buffer
       /\ popped' = [popped EXCEPT ![p] = @ + n, ![q] = @ + k]
       /\ handoff' = Nothing /\ chainSlot' = Nothing
       /\ UNCHANGED <<opened, frames, pushed, cell, stream, now>>
  <2>1. /\ callback' = [two EXCEPT !.at = "filled"] /\ due' = t + Buffer
        /\ heard' = [heard EXCEPT ![p] = @ \o HeardAt(t, n), ![q] = @ \o HeardAt(t + n, k)]
        /\ popped' = [popped EXCEPT ![p] = @ + n, ![q] = @ + k]
    <3>1. t = Max({due, now}) /\ first = TakeHandoff /\ p = first.pipeline
          /\ n = Min({Buffer, pushed[p] - popped[p]}) /\ Chains(first, n)
      BY DEF Plays
    <3>2. done = ReportCompletion(Segment(first, n, t), told)[1] /\ next = ChainToNext(done)
          /\ q = next.pipeline /\ k = Min({Buffer - n, pushed[q] - popped[q]})
      BY <1>2, <1>8, <1>10, <1>11, <1>12
    <3>3. callback' = [Segment(next, k, t + n) EXCEPT !.at = "filled"] /\ due' = t + Buffer
      BY <3>1, <3>2, Zenon DEF Fill
    <3>4. popped' = [popped EXCEPT ![p] = @ + n, ![q] = @ + k]
      BY <3>1, <3>2, Zenon DEF Fill
    <3>5. heard' = [heard EXCEPT ![p] = @ \o HeardAt(t, n), ![q] = @ \o HeardAt(t + n, k)]
      BY <3>1, <3>2, Zenon DEF Fill
    <3>6. QED
      BY <1>14, <3>3, <3>4, <3>5
  <2>2. h = [heard EXCEPT ![p] = @ \o HeardAt(t, n)]
    BY DEF Plays, PlayedTo
  <2>3. g = [h EXCEPT ![q] = @ \o HeardAt(t + n, k)]
    BY <1>14 DEF PlayedTo
  <2>4. heard' = g
    <3>1. PICK a, b : a = HeardAt(t, n) /\ b = HeardAt(t + n, k)
      OBVIOUS
    <3>2. /\ heard' = [heard EXCEPT ![p] = @ \o a, ![q] = @ \o b]
          /\ h = [heard EXCEPT ![p] = @ \o a] /\ g = [h EXCEPT ![q] = @ \o b]
      BY <2>1, <2>2, <2>3, <3>1
    <3>3. heard \in [Pipelines -> Seq(Nat)] /\ DOMAIN heard = Pipelines
      BY DEF StreamInv, Queued
    <3>4. /\ heard'[p] = heard[p] \o a /\ heard'[q] = heard[q] \o b
          /\ \A r \in Pipelines : r # p /\ r # q => heard'[r] = heard[r]
          /\ heard' = [r \in Pipelines |-> heard'[r]]
      BY <1>3, <1>6, <3>2, <3>3
    <3>5. h[p] = heard[p] \o a /\ \A r \in Pipelines : r # p => h[r] = heard[r]
      BY <1>3, <3>2, <3>3
    <3>6. DOMAIN h = Pipelines
      BY <3>2, <3>3
    <3>7. /\ g[q] = h[q] \o b /\ \A r \in Pipelines : r # q => g[r] = h[r]
          /\ g = [r \in Pipelines |-> g[r]]
      BY <1>6, <3>2, <3>6
    <3>8. \A r \in Pipelines : heard'[r] = g[r]
      BY <1>6, <3>4, <3>5, <3>7
    <3>9. QED
      BY <3>4, <3>7, <3>8
  <2>5. QED
    BY <2>1, <2>4 DEF Fill, queues
<1>16. GoesOnWith(h, g, q, t + n, k)
  <2>1. t + n \in Nat
    BY <1>3
  <2>2. QED
    BY <1>4, <1>6, <1>13, <1>14, <2>1, PlayedOn
<1>17. /\ g \in [Pipelines -> Seq(Nat)] /\ InTime(g) /\ Before(g, t + n + k) /\ GoesOn(h, g)
       /\ Len(g[q]) = Len(h[q]) + k
       /\ \A r \in Pipelines : r # q => g[r] = h[r]
       /\ \A i \in (Len(h[q]) + 1)..(Len(h[q]) + k) : g[q][i] = (t + n) + (i - Len(h[q]) - 1)
  BY <1>16 DEF GoesOnWith
<1>18. Len(h[q]) = 0
  BY <1>4, <1>6
<1>19. /\ two \in Callbacks /\ two.pipeline = q /\ two.chained = Nothing
       /\ two.position = k /\ two.report \in Reports
       /\ two.report.pipeline = q /\ two.report.start = 0
       /\ two.report.end = k /\ two.report.time = t + n
  <2>1. t + n \in Nat
    BY <1>3
  <2>2. /\ two \in Callbacks /\ two.pipeline = next.pipeline /\ two.chained = next.chained
        /\ two.position = next.position + k /\ two.report \in Reports
        /\ two.report.pipeline = next.pipeline /\ two.report.start = next.position
        /\ two.report.end = next.position + k /\ two.report.time = t + n
    <3>1. next \in Callbacks /\ k \in Nat
      BY <1>11, <1>13
    <3>2. PICK u : u = t + n
      OBVIOUS
    <3>3. u \in Nat /\ two = Segment(next, k, u)
      BY <1>14, <2>1, <3>2
    <3>4. /\ two \in Callbacks /\ two.pipeline = next.pipeline /\ two.chained = next.chained
          /\ two.position = next.position + k /\ two.report \in Reports
          /\ two.report.pipeline = next.pipeline /\ two.report.start = next.position
          /\ two.report.end = next.position + k /\ two.report.time = u
      BY <3>1, <3>3, SegmentIs
    <3>5. QED
      BY <3>2, <3>4
  <2>3. 0 + k = k
    BY <1>13
  <2>4. QED
    BY <1>11, <2>2, <2>3
<1>20. /\ callback' \in Callbacks /\ callback'.pipeline = q /\ callback'.chained = Nothing
       /\ callback'.position = k /\ callback'.report = two.report
  BY <1>15, <1>19 DEF Callbacks
<1>21. due' \in Nat /\ Before(heard', due')
  <2>1. t + n + k \in Nat /\ t + Buffer \in Nat /\ t + n + k <= t + Buffer
    BY <1>3, <1>13, Numbers
  <2>2. QED
    BY <1>15, <1>17, <2>1, BeforeLater
<1>22. /\ popped' \in [Pipelines -> Nat]
       /\ \A r \in Pipelines : Len(heard'[r]) = popped'[r] /\ popped'[r] <= pushed[r]
  <2>1. /\ popped \in [Pipelines -> Nat] /\ pushed \in [Pipelines -> Nat]
        /\ \A r \in Pipelines : Len(heard[r]) = popped[r] /\ popped[r] <= pushed[r]
    BY DEF StreamInv, Queued
  <2>2. /\ popped'[p] = popped[p] + n /\ popped'[q] = popped[q] + k
        /\ \A r \in Pipelines : r # p /\ r # q => popped'[r] = popped[r]
        /\ DOMAIN popped' = Pipelines /\ popped' = [r \in Pipelines |-> popped'[r]]
    BY <1>3, <1>6, <1>15, <2>1
  <2>3. popped[p] + n \in Nat /\ popped[q] + k \in Nat
    BY <1>3, <1>6, <1>13, <2>1
  <2>4. \A r \in Pipelines : popped'[r] \in Nat
    BY <2>1, <2>2, <2>3
  <2>5. popped' \in [Pipelines -> Nat]
    BY <2>2, <2>4
  <2>6. Len(g[p]) = popped[p] + n /\ Len(g[q]) = popped[q] + k
    <3>1. popped[q] = 0
      BY <1>6, <2>1
    <3>2. QED
      BY <1>3, <1>4, <1>6, <1>13, <1>17, <1>18, <2>1, <3>1
  <2>7. \A r \in Pipelines : r # p /\ r # q => Len(g[r]) = popped[r]
    BY <1>4, <1>17, <2>1
  <2>8. QED
    BY <1>3, <1>13, <1>15, <2>1, <2>2, <2>5, <2>6, <2>7
<1>23. \A r \in Pipelines : r >= stream.next => heard'[r] = <<>>
  <2>1. \A r \in Pipelines : r >= stream.next => r # p /\ r # q
    BY <1>3, <1>6, PipelinesAre DEF StreamInv, Held, WorkerSides
  <2>2. QED
    BY <1>4, <1>15, <1>17, <2>1 DEF StreamInv, Unheard
<1>24. IsTrue(callback.report)'
  <2>1. PICK r : r = two.report
    OBVIOUS
  <2>2. r.pipeline = q /\ r.start = 0 /\ r.end = k /\ r.time = t + n /\ callback'.report = r
    BY <1>19, <1>20, <2>1
  <2>3. Len(g[q]) = k /\ \A i \in (0 + 1)..k : g[q][i] = (t + n) + (i - 0 - 1)
    BY <1>13, <1>17, <1>18
  <2>4. /\ r.start <= Len(heard'[r.pipeline])
        /\ \A i \in 1..r.start : heard'[r.pipeline][i] < now' + Lead
    BY <1>13, <1>15, <2>2, <2>3
  <2>5. /\ r.start <= r.end /\ r.end <= Len(heard'[r.pipeline])
        /\ \A i \in (r.start + 1)..r.end : heard'[r.pipeline][i] = r.time + (i - r.start - 1)
    BY <1>13, <1>15, <2>2, <2>3
  <2>6. QED
    BY <2>2, <2>4, <2>5 DEF IsTrue, NearlyHeard
<1>25. GoesOn(heard, heard')
  <2>1. heard \in [Pipelines -> Seq(Nat)]
    BY DEF StreamInv, Queued
  <2>2. QED
    BY <1>4, <1>15, <1>17, <2>1, GoesOnAgain
<1>26. callback'.pipeline < stream.next /\ callback'.position = Len(heard'[callback'.pipeline])
  BY <1>6, <1>13, <1>15, <1>17, <1>18, <1>20
<1>27. StreamInv'
  BY <1>15, <1>17, <1>20, <1>21, <1>22, <1>23, <1>24, <1>25, <1>26, FilledStream
<1>28. QED
  BY <1>2, <1>3, <1>6, <1>12, <1>13, <1>15, <1>16, <1>27

LEMMA FillStream ==
  ASSUME StreamInv, Fill
  PROVE  StreamInv'
<1>1. PICK t, first : t = Max({due, now}) /\ first = TakeHandoff
  OBVIOUS
<1>2. PICK p : p = first.pipeline
  OBVIOUS
<1>3. PICK n : n = Min({Buffer, pushed[p] - popped[p]})
  OBVIOUS
<1>4. PICK h : h = PlayedTo(heard, p, t, n)
  OBVIOUS
<1>5. Plays(t, first, p, n, h)
  BY <1>1, <1>2, <1>3, <1>4 DEF Plays
<1>6. QED
  BY <1>5, FillOnlyFirst, FillChained

LEMMA NextStream ==
  ASSUME StreamInv, [OutputNext]_outputVars
  PROVE  StreamInv'
<1>1. CASE Decoders
  BY <1>1, PushStream DEF Decoders
<1>2. CASE Tick
  BY <1>2, TickStream
<1>3. CASE Fill
  BY <1>3, FillStream
<1>4. CASE Report
  BY <1>4, ReportStream
<1>5. CASE QueueNext
  BY <1>5, QueueNextStream
<1>6. CASE ClearNext
  BY <1>6, ClearNextStream
<1>7. CASE SwitchQueue
  BY <1>7, SwitchQueueStream
<1>8. CASE FinishSwitch
  BY <1>8, FinishSwitchStream
<1>9. CASE AdoptNext
  BY <1>9, AdoptNextStream
<1>10. CASE SamplePosition
  BY <1>10, SampleStream
<1>11. CASE UNCHANGED outputVars
  <2>1. UNCHANGED <<opened, frames, pushed, popped, handoff, chainSlot, callback, cell, stream,
                    now, due, heard>>
    BY <1>11 DEF outputVars
  <2>2. Queued' /\ Clocks' /\ Held'
    BY <2>1 DEF StreamInv, Queued, Clocks, Held
  <2>3. Unheard' /\ Sounds'
    BY <2>1 DEF StreamInv, Unheard, Follows, Sounds
  <2>4. \A r, m : /\ NearlyHeard(r, m)' <=> NearlyHeard(r, m)
                  /\ IsTrue(r)' <=> IsTrue(r)
    BY <2>1 DEF IsTrue, NearlyHeard
  <2>5. Reported'
    BY <2>1, <2>4 DEF StreamInv, Reported
  <2>6. QED
    BY <2>2, <2>3, <2>5 DEF StreamInv
<1>12. QED
  BY <1>1, <1>2, <1>3, <1>4, <1>5, <1>6, <1>7, <1>8, <1>9, <1>10, <1>11
     DEF OutputNext, CallbackThread, Worker

(* The invariant holds in every state of a stream.                         *)
THEOREM StreamAlways == OutputSpec => []StreamInv
<1>1. StreamInv /\ [OutputNext]_outputVars => StreamInv'
  BY NextStream
<1>2. QED
  BY <1>1, InitStream, PTL DEF OutputSpec

(* The state is always of its types, and of a pipeline no more is heard    *)
(* than was pushed, for any files, devices, commands and runs.             *)
THEOREM OutputTyped == OutputSpec => []TypeOK
<1>1. StreamInv => TypeOK
  BY DEF StreamInv, Queued, Clocks, Held, Callbacks, WorkerSides, TypeOK
<1>2. QED
  BY <1>1, StreamAlways, PTL

(* The position shown is not further ahead of the sound than the device    *)
(* buffers, whatever is switched, chained, late or lost.                   *)
THEOREM PositionKeepsNear == OutputSpec => []PositionIsNear
<1>1. StreamInv => PositionIsNear
  <2>1. SUFFICES ASSUME StreamInv PROVE PositionIsNear
    OBVIOUS
  <2>2. /\ stream.pipeline \in Pipelines /\ stream.last \in Nat
        /\ NearlyHeard(stream.pipeline, stream.last) /\ Queued /\ Clocks /\ Sounds
    <3>1. Queued /\ Clocks /\ Held /\ Sounds /\ Reported
      BY <2>1 DEF StreamInv
    <3>2. stream.pipeline \in Pipelines /\ stream.last \in Nat
      BY <3>1 DEF Held, WorkerSides
    <3>3. NearlyHeard(stream.pipeline, stream.last)
      BY <3>1 DEF Reported
    <3>4. QED
      BY <3>1, <3>2, <3>3
  <2>3. QED
    BY <2>2, MostAreHeard DEF PositionIsNear
<1>2. QED
  BY <1>1, StreamAlways, PTL

(* A queue handed over in time is heard right after the one it follows, in *)
(* the buffer that plays the last frames of that one.                      *)
Seamless ==
  LET cb == TakeHandoff
      p == cb.pipeline
  IN /\ callback'.at = "filled" /\ callback.at = "between"
     /\ p \in finished /\ pushed[p] - popped[p] \in 1..(Buffer - 1)
     /\ cb.chained # Nothing /\ popped[cb.chained.next] < pushed[cb.chained.next]
     => LET q == cb.chained.next
        IN heard'[q] # <<>> /\ heard'[q][1] = heard'[p][Len(heard'[p])] + 1

LEMMA OnlyFillFills ==
  ASSUME StreamInv, [OutputNext]_outputVars, callback'.at = "filled", callback.at = "between"
  PROVE  Fill
<1>1. CASE Report
  <2>1. callback \in Callbacks
    BY DEF StreamInv, Held
  <2>2. PICK done : done \in Callbacks
                    /\ callback' = [done EXCEPT !.at = "between", !.report = Nothing]
    BY <1>1, <2>1, CompletionKeeps DEF Report
  <2>3. callback'.at = "between"
    BY <2>2 DEF Callbacks
  <2>4. QED
    BY <2>3
<1>2. CASE UNCHANGED callback
  BY <1>2
<1>3. ASSUME Decoders \/ Tick \/ Worker \/ UNCHANGED outputVars
      PROVE  UNCHANGED callback
  BY <1>3 DEF Decoders, PushPacket, FinishQueue, Tick, Worker, QueueNext, ClearNext, SwitchQueue,
              FinishSwitch, AdoptNext, SamplePosition, outputVars
<1>4. QED
  BY <1>1, <1>2, <1>3 DEF OutputNext, CallbackThread

LEMMA StepIsSeamless ==
  ASSUME StreamInv, [OutputNext]_outputVars
  PROVE  Seamless
<1>1. PICK t, first : t = Max({due, now}) /\ first = TakeHandoff
  OBVIOUS
<1>2. PICK p, q : p = first.pipeline /\ q = first.chained.next
  OBVIOUS
<1>3. SUFFICES ASSUME callback'.at = "filled", callback.at = "between", p \in finished,
                      pushed[p] - popped[p] \in 1..(Buffer - 1), first.chained # Nothing,
                      popped[q] < pushed[q]
               PROVE  heard'[q] # <<>> /\ heard'[q][1] = heard'[p][Len(heard'[p])] + 1
  BY <1>1, <1>2 DEF Seamless
<1>4. Fill /\ due <= now + Lead
  BY <1>3, OnlyFillFills DEF Fill
<1>5. PICK n : n = Min({Buffer, pushed[p] - popped[p]})
  OBVIOUS
<1>6. PICK h : h = PlayedTo(heard, p, t, n)
  OBVIOUS
<1>7. Plays(t, first, p, n, h)
  BY <1>1, <1>2, <1>5, <1>6 DEF Plays
<1>8. /\ t \in Nat /\ p \in Pipelines /\ n \in Nat /\ n <= Buffer
      /\ popped[p] + n <= pushed[p] /\ (n = Buffer \/ popped[p] + n = pushed[p])
  BY <1>4, <1>7, FirstSegment
<1>9. pushed[p] \in Nat /\ popped[p] \in Nat
  BY <1>8 DEF StreamInv, Queued
<1>10. n < Buffer /\ n > 0 /\ popped[p] + n = pushed[p]
  BY <1>3, <1>8, <1>9, Numbers
<1>11. Chains(first, n)
  BY <1>2, <1>3, <1>10 DEF Chains
<1>12. PICK k \in Nat :
         /\ k = Min({Buffer - n, pushed[q] - popped[q]})
         /\ GoesOnWith(heard, h, p, t, n) /\ GoesOnWith(h, heard', q, t + n, k) /\ q # p
  BY <1>2, <1>4, <1>7, <1>11, FillChained
<1>13. q \in Pipelines /\ heard[q] = <<>>
  BY <1>1, <1>2, <1>3, TakenHandoff DEF Follows, Chainings
<1>14. k > 0
  <2>1. pushed[q] \in Nat /\ popped[q] \in Nat
    BY <1>13 DEF StreamInv, Queued
  <2>2. Buffer - n \in Nat /\ Buffer - n > 0 /\ pushed[q] - popped[q] \in Nat
        /\ pushed[q] - popped[q] > 0
    BY <1>3, <1>8, <1>10, <2>1, Numbers
  <2>3. k \in {Buffer - n, pushed[q] - popped[q]}
    BY <1>12, <2>2, MinOfTwo
  <2>4. QED
    BY <2>2, <2>3
<1>15. /\ heard \in [Pipelines -> Seq(Nat)] /\ h \in [Pipelines -> Seq(Nat)]
       /\ heard' \in [Pipelines -> Seq(Nat)]
       /\ h[q] = heard[q] /\ heard'[p] = h[p] /\ Len(h[p]) = Len(heard[p]) + n
       /\ Len(heard'[q]) = Len(h[q]) + k
       /\ \A i \in (Len(heard[p]) + 1)..(Len(heard[p]) + n) : h[p][i] = t + (i - Len(heard[p]) - 1)
       /\ \A i \in (Len(h[q]) + 1)..(Len(h[q]) + k) : heard'[q][i] = (t + n) + (i - Len(h[q]) - 1)
  BY <1>8, <1>12, <1>13 DEF GoesOnWith, StreamInv, Queued
<1>16. Len(heard[p]) \in Nat
  <2>1. heard[p] \in Seq(Nat)
    BY <1>8, <1>15
  <2>2. QED
    BY <2>1
<1>17. Len(h[q]) = 0
  BY <1>13, <1>15
<1>18. heard'[q] # <<>> /\ heard'[q][1] = t + n
  <2>1. Len(heard'[q]) = k /\ 1 \in (0 + 1)..(0 + k)
    BY <1>14, <1>15, <1>17
  <2>2. heard'[q][1] = (t + n) + (1 - 0 - 1)
    BY <1>15, <1>17, <2>1
  <2>3. QED
    BY <1>8, <1>14, <2>1, <2>2
<1>19. heard'[p][Len(heard'[p])] = t + n - 1
  <2>1. PICK m : m = Len(heard[p])
    OBVIOUS
  <2>2. m + n \in (m + 1)..(m + n)
    BY <1>8, <1>10, <1>16, <2>1
  <2>3. h[p][m + n] = t + (m + n - m - 1)
    <3>1. \A i \in (m + 1)..(m + n) : h[p][i] = t + (i - m - 1)
      BY <1>15, <2>1
    <3>2. PICK i : i = m + n
      OBVIOUS
    <3>3. h[p][i] = t + (i - m - 1)
      BY <2>2, <3>1, <3>2
    <3>4. m \in Nat
      BY <1>16, <2>1
    <3>5. QED
      BY <1>8, <3>2, <3>3, <3>4
  <2>4. QED
    BY <1>8, <1>15, <1>16, <2>1, <2>3
<1>20. QED
  BY <1>8, <1>18, <1>19

(* A queue that was handed over before its predecessor ran out follows it  *)
(* without a gap: the callback plays the first frame of the one at the     *)
(* moment after the last frame of the other, in the same buffer.           *)
THEOREM ChainsKeepSeamless == OutputSpec => ChainsAreSeamless
<1>1. StreamInv /\ [OutputNext]_outputVars => [Seamless]_outputVars
  BY StepIsSeamless
<1>2. [][Seamless]_outputVars => ChainsAreSeamless
  BY DEF Seamless, ChainsAreSeamless
<1>3. QED
  BY <1>1, <1>2, StreamAlways, PTL DEF OutputSpec

-----------------------------------------------------------------------------
(* What is reported of the end of a pipeline.                              *)

(* When the last frame of a pipeline has been heard.                       *)
TimeOf(h, p) == IF h[p] = <<>> THEN Nothing ELSE h[p][Len(h[p])] + 1

(* What was reported is of pipelines the callback is done with: the end of *)
(* each, once.                                                             *)
ToldOf(ends, cb, h, taken) ==
  /\ ends \in Seq([pipeline : Pipelines, time : Nat \cup {Nothing}])
  /\ \A i \in DOMAIN ends :
       /\ ends[i].pipeline <= cb.pipeline
       /\ ends[i].pipeline = cb.pipeline => cb.completion # "pending"
       /\ ends[i].pipeline \in finished
       /\ taken[ends[i].pipeline] = pushed[ends[i].pipeline]
       /\ ends[i].time = TimeOf(h, ends[i].pipeline)
       /\ \A j \in DOMAIN ends : ends[j].pipeline = ends[i].pipeline => j = i

(* A queue holds the frames its file has, from where its decoding began.   *)
Source(p) == IF p \in sought THEN FramesFrom(opened, SourceFrames[p], SeekTarget)
             ELSE FramesOf(opened, SourceFrames[p])
FromFiles ==
  /\ IsOpen => \A p \in Pipelines : p < stream.next => frames[p] = Source(p)
  /\ \A p \in sought : p \in Pipelines /\ p < stream.next
  /\ \A p \in finished : p \in Pipelines /\ p < stream.next /\ pushed[p] = frames[p]

EndsInv ==
  /\ FromFiles
  /\ handoff # Nothing => callback.pipeline < handoff
  /\ callback.at = "filled" \/ told # <<>> => IsOpen
  /\ callback.end = TimeOf(heard, callback.pipeline)
  /\ ToldOf(told, callback, heard, popped)

(* What the reports say is what the property says.                         *)
LEMMA EndsFromTold ==
  ASSUME StreamInv, EndsInv
  PROVE  EndsAreExact
<1>1. ASSUME NEW i \in DOMAIN told
      PROVE  /\ \A j \in DOMAIN told : told[j].pipeline = told[i].pipeline => j = i
             /\ (IF told[i].pipeline \in sought THEN Rescaled(opened, SeekTarget) ELSE 0)
                  + Len(heard[told[i].pipeline])
                  = Expected(opened, SourceFrames[told[i].pipeline])
             /\ told[i].time = IF heard[told[i].pipeline] = <<>> THEN Nothing
                               ELSE EndOf(told[i].pipeline)
  <2>1. PICK p : p = told[i].pipeline
    OBVIOUS
  <2>2. /\ \A j \in DOMAIN told : told[j].pipeline = p => j = i
        /\ p \in finished /\ popped[p] = pushed[p] /\ told[i].time = TimeOf(heard, p)
    BY <1>1, <2>1 DEF EndsInv, ToldOf
  <2>3. /\ p \in Pipelines /\ p < stream.next /\ pushed[p] = frames[p]
    BY <2>2 DEF EndsInv, FromFiles
  <2>4. IsOpen
    <3>1. told # <<>>
      BY <1>1
    <3>2. QED
      BY <3>1 DEF EndsInv
  <2>5. opened \in Openings /\ opened.error = "none" /\ Opens(opened)
    BY <2>4, OpensIs DEF IsOpen, StreamInv, Queued
  <2>6. Len(heard[p]) = Source(p)
    BY <2>2, <2>3, <2>4 DEF EndsInv, FromFiles, StreamInv, Queued
  <2>7. SourceFrames[p] \in Nat /\ SeekTarget \in 0..SourceFrames[p]
    BY <2>3, SourcesAre
  <2>8. (IF p \in sought THEN Rescaled(opened, SeekTarget) ELSE 0) + Len(heard[p])
          = Expected(opened, SourceFrames[p])
    <3>1. CASE p \in sought
      <4>1. Len(heard[p]) = FramesFrom(opened, SourceFrames[p], SeekTarget)
        BY <2>6, <3>1 DEF Source
      <4>2. Rescaled(opened, SeekTarget) + FramesFrom(opened, SourceFrames[p], SeekTarget)
              = Expected(opened, SourceFrames[p])
        BY <2>5, <2>7, FramesFromAreExpected
      <4>3. QED
        BY <3>1, <4>1, <4>2
    <3>2. CASE p \notin sought
      <4>1. Len(heard[p]) = FramesOf(opened, SourceFrames[p])
        BY <2>6, <3>2 DEF Source
      <4>2. /\ FramesOf(opened, SourceFrames[p]) = Expected(opened, SourceFrames[p])
            /\ Expected(opened, SourceFrames[p]) \in Nat
        BY <2>5, <2>7, FramesAreExpected
      <4>3. 0 + Len(heard[p]) = Len(heard[p])
        BY <4>1, <4>2
      <4>4. QED
        BY <3>2, <4>1, <4>2, <4>3
    <3>3. QED
      BY <3>1, <3>2
  <2>9. QED
    BY <2>1, <2>2, <2>8 DEF TimeOf, EndOf
<1>2. QED
  BY <1>1 DEF EndsAreExact

LEMMA InitEnds == OutputInit => EndsInv
<1> SUFFICES ASSUME OutputInit PROVE EndsInv
  OBVIOUS
<1>1. /\ callback = Start(1, "between") /\ handoff = Nothing /\ told = <<>>
      /\ finished = {} /\ sought = {} /\ stream.next = 2 /\ 1 \in Pipelines
      /\ heard[1] = <<>>
  BY OutputAssumption DEF OutputInit
<1>2. callback.pipeline = 1 /\ callback.at = "between" /\ callback.end = Nothing
  BY <1>1 DEF Start
<1>3. ASSUME IsOpen, NEW p \in Pipelines, p < 2
      PROVE  frames[p] = Source(p)
  <2>1. p = 1
    <3>1. p \in 1..Cardinality(Pipelines)
      BY OutputAssumption, Zenon
    <3>2. Cardinality(Pipelines) \in Nat
      BY OutputAssumption, FS_CardinalityType
    <3>3. QED
      BY <1>3, <3>1, <3>2
  <2>2. QED
    BY <1>1, <1>3, <2>1 DEF OutputInit, IsOpen, Source
<1>4. FromFiles
  BY <1>1, <1>3 DEF FromFiles
<1>5. ToldOf(told, callback, heard, popped)
  BY <1>1 DEF ToldOf
<1>6. QED
  BY <1>1, <1>2, <1>4, <1>5 DEF EndsInv, TimeOf

(* Steps that leave the callback and what it plays alone.                  *)
LEMMA EndsStay ==
  ASSUME StreamInv, EndsInv,
         UNCHANGED <<opened, frames, pushed, finished, popped, handoff, callback, heard, told,
                     sought>>, stream'.next = stream.next
  PROVE  EndsInv'
<1>1. FromFiles'
  BY DEF EndsInv, FromFiles, Source, IsOpen
<1>2. ToldOf(told, callback, heard, popped)'
  BY DEF EndsInv, ToldOf, TimeOf
<1>3. QED
  BY <1>1, <1>2 DEF EndsInv, TimeOf, IsOpen

LEMMA PushEnds ==
  ASSUME StreamInv, EndsInv, NEW p \in Pipelines, PushPacket(p) \/ FinishQueue(p)
  PROVE  EndsInv'
<1>1. /\ UNCHANGED <<opened, frames, popped, handoff, callback, stream, heard, told, sought>>
      /\ p < stream.next
  BY DEF PushPacket, FinishQueue, history
<1>2. /\ \A q \in finished : q \in finished' /\ pushed'[q] = pushed[q]
      /\ \A q \in finished' : q \in Pipelines /\ q < stream.next /\ pushed'[q] = frames[q]
  <2>1. CASE PushPacket(p)
    <3>1. pushed[p] < frames[p] /\ finished' = finished
          /\ pushed' = [pushed EXCEPT ![p] = Min({@ + Packet, frames[p]})]
      BY <2>1 DEF PushPacket
    <3>2. pushed[p] \in Nat /\ frames[p] \in Nat
      BY DEF StreamInv, Queued
    <3>3. p \notin finished
      BY <3>1, <3>2 DEF EndsInv, FromFiles
    <3>4. QED
      BY <3>1, <3>3 DEF EndsInv, FromFiles, StreamInv, Queued
  <2>2. CASE FinishQueue(p)
    BY <1>1, <2>2 DEF FinishQueue, EndsInv, FromFiles
  <2>3. QED
    BY <2>1, <2>2
<1>3. FromFiles'
  BY <1>1, <1>2 DEF EndsInv, FromFiles, Source, IsOpen
<1>4. ToldOf(told, callback, heard, popped)'
  BY <1>1, <1>2 DEF EndsInv, ToldOf, TimeOf
<1>5. QED
  BY <1>1, <1>3, <1>4 DEF EndsInv, TimeOf, IsOpen

(* Steps that open the next queue.                                         *)
LEMMA OpenEnds ==
  ASSUME StreamInv, EndsInv, QueueNext \/ SwitchQueue
  PROVE  EndsInv'
<1>1. PICK q : q = stream.next
  OBVIOUS
<1>2. q \in Pipelines /\ q \in Nat /\ IsOpen /\ stream'.next = q + 1
  BY <1>1, PipelinesAre DEF QueueNext, SwitchQueue, Opening, StreamInv, Held, WorkerSides
<1>3. UNCHANGED <<opened, pushed, finished, popped, callback, heard, told>>
  BY DEF QueueNext, SwitchQueue, Opening, history
<1>4. callback.pipeline < q /\ q \notin sought
  BY <1>1, <1>2 DEF StreamInv, Held, EndsInv, FromFiles
<1>5. /\ \A p \in Pipelines : p # q => frames'[p] = frames[p] /\ (p \in sought' <=> p \in sought)
      /\ sought' \subseteq sought \cup {q}
      /\ frames'[q] = IF q \in sought' THEN FramesFrom(opened, SourceFrames[q], SeekTarget)
                      ELSE FramesOf(opened, SourceFrames[q])
      /\ handoff' \in {handoff, q}
  <2>0. frames \in [Pipelines -> Nat]
    BY DEF StreamInv, Queued
  <2>1. CASE QueueNext
    BY <1>1, <1>2, <1>4, <2>0, <2>1 DEF QueueNext, Opening, history
  <2>2. CASE SwitchQueue
    BY <1>1, <1>2, <1>4, <2>0, <2>2 DEF SwitchQueue, Opening
  <2>3. QED
    BY <2>1, <2>2
<1>6. ASSUME NEW p \in Pipelines, p < stream'.next
      PROVE  frames'[p] = Source(p)'
  <2>1. p = q \/ (p # q /\ p < stream.next)
    BY <1>1, <1>2, <1>6, PipelinesAre
  <2>2. QED
    BY <1>2, <1>3, <1>5, <2>1 DEF EndsInv, FromFiles, Source
<1>7. \A p \in sought' : p \in Pipelines /\ p < stream'.next
  <2>1. \A p \in sought : p \in Nat /\ p < q
    BY <1>1, PipelinesAre DEF EndsInv, FromFiles
  <2>2. QED
    BY <1>2, <1>5, <2>1 DEF EndsInv, FromFiles
<1>8. \A p \in finished : p \in Pipelines /\ p < stream'.next /\ pushed'[p] = frames'[p]
  <2>1. \A p \in finished : p \in Pipelines /\ p \in Nat /\ p < q /\ pushed[p] = frames[p]
    BY <1>1, PipelinesAre DEF EndsInv, FromFiles
  <2>2. QED
    BY <1>2, <1>3, <1>5, <2>1
<1>9. FromFiles'
  BY <1>3, <1>6, <1>7, <1>8 DEF FromFiles
<1>10. ToldOf(told, callback, heard, popped)'
  BY <1>3 DEF EndsInv, ToldOf, TimeOf
<1>11. QED
  BY <1>2, <1>3, <1>4, <1>5, <1>9, <1>10 DEF EndsInv, TimeOf, IsOpen

LEMMA ToldAre ==
  ASSUME NEW ends, NEW cb, NEW h, NEW taken, ToldOf(ends, cb, h, taken), NEW i \in DOMAIN ends
  PROVE  ends[i].pipeline \in Pipelines /\ ends[i].pipeline <= cb.pipeline
<1>1. PICK R : R = [pipeline : Pipelines, time : Nat \cup {Nothing}]
  OBVIOUS
<1>2. ends \in Seq(R)
  BY <1>1 DEF ToldOf
<1>3. ends[i] \in R
  BY <1>2
<1>4. QED
  BY <1>1, <1>3 DEF ToldOf

(* The end of a pipeline whose queue has run out is reported unless it has *)
(* been.                                                                   *)
LEMMA CompletionTold ==
  ASSUME NEW cb \in Callbacks, NEW ends, NEW h, NEW taken, ToldOf(ends, cb, h, taken),
         cb.end = TimeOf(h, cb.pipeline),
         cb.pipeline \in finished, taken[cb.pipeline] = pushed[cb.pipeline],
         NEW done, done = ReportCompletion(cb, ends)
  PROVE  /\ ToldOf(done[2], done[1], h, taken) /\ done[1].end = cb.end
         /\ done[1].completion # "pending"
<1>1. CASE cb.completion # "pending"
  BY <1>1 DEF ReportCompletion
<1>2. CASE cb.completion = "pending"
  <2>1. PICK p, e, more : /\ p = cb.pipeline /\ e = [pipeline |-> cb.pipeline, time |-> cb.end]
                          /\ more = Append(ends, e)
    OBVIOUS
  <2>2. PICK after : /\ after = [cb EXCEPT !.completion =
                                   IF cb.end = Nothing THEN "timingFailed" ELSE "reported"]
                     /\ done = <<after, more>>
    BY <1>2, <2>1 DEF ReportCompletion
  <2>3. /\ after.pipeline = p /\ after.end = cb.end /\ after.completion # "pending"
    BY <2>1, <2>2 DEF Callbacks
  <2>4. /\ p \in Pipelines /\ e \in [pipeline : Pipelines, time : Nat \cup {Nothing}]
        /\ e.pipeline = p /\ e.time = TimeOf(h, p)
    BY <2>1 DEF Callbacks
  <2>5. ends \in Seq([pipeline : Pipelines, time : Nat \cup {Nothing}])
    BY DEF ToldOf
  <2>6. /\ more \in Seq([pipeline : Pipelines, time : Nat \cup {Nothing}])
        /\ Len(more) = Len(ends) + 1 /\ Len(ends) \in Nat
        /\ DOMAIN more = 1..(Len(ends) + 1) /\ DOMAIN ends = 1..Len(ends)
        /\ \A i \in 1..Len(ends) : more[i] = ends[i]
        /\ more[Len(ends) + 1] = e
    BY <2>1, <2>4, <2>5
  <2>7. ASSUME NEW i \in DOMAIN ends
        PROVE  ends[i].pipeline # p /\ ends[i].pipeline <= p
    BY <1>2, <2>1 DEF ToldOf
  <2>8. ASSUME NEW i \in DOMAIN more
        PROVE  /\ more[i].pipeline <= p
               /\ more[i].pipeline \in finished
               /\ taken[more[i].pipeline] = pushed[more[i].pipeline]
               /\ more[i].time = TimeOf(h, more[i].pipeline)
               /\ \A j \in DOMAIN more : more[j].pipeline = more[i].pipeline => j = i
    <3>1. CASE i \in DOMAIN ends
      <4>1. more[i] = ends[i] /\ ends[i].pipeline # p
        BY <2>6, <2>7, <3>1
      <4>2. \A j \in DOMAIN more : j \in DOMAIN ends \/ more[j].pipeline = p
        BY <2>4, <2>6
      <4>3. ASSUME NEW j \in DOMAIN more, more[j].pipeline = more[i].pipeline
            PROVE  j = i
        <5>1. j \in DOMAIN ends
          BY <4>1, <4>2, <4>3
        <5>2. more[j] = ends[j]
          BY <2>6, <5>1
        <5>3. QED
          BY <3>1, <4>1, <4>3, <5>1, <5>2 DEF ToldOf
      <4>4. QED
        BY <2>7, <3>1, <4>1, <4>3 DEF ToldOf
    <3>2. CASE i \notin DOMAIN ends
      <4>1. i = Len(ends) + 1 /\ more[i] = e
        BY <2>6, <3>2
      <4>2. ASSUME NEW j \in DOMAIN more, more[j].pipeline = p
            PROVE  j = i
        <5>1. j \notin DOMAIN ends
          <6>1. SUFFICES ASSUME j \in DOMAIN ends PROVE FALSE
            OBVIOUS
          <6>2. more[j] = ends[j]
            BY <2>6, <6>1
          <6>3. QED
            BY <2>7, <4>2, <6>1, <6>2
        <5>2. QED
          BY <2>6, <4>1, <5>1
      <4>3. p <= p
        BY <2>4, PipelinesAre
      <4>4. QED
        BY <2>1, <2>4, <4>1, <4>2, <4>3
    <3>3. QED
      BY <3>1, <3>2
  <2>9. ToldOf(more, after, h, taken)
    BY <2>3, <2>6, <2>8 DEF ToldOf
  <2>10. done[1] = after /\ done[2] = more
    BY <2>2
  <2>11. QED
    BY <2>3, <2>9, <2>10
<1>3. QED
  BY <1>1, <1>2

LEMMA ReportEnds ==
  ASSUME StreamInv, EndsInv, Report
  PROVE  EndsInv'
<1>1. /\ UNCHANGED <<opened, frames, pushed, finished, popped, handoff, stream, heard, sought>>
      /\ callback.at = "filled"
  BY DEF Report, queues
<1>2. callback \in Callbacks
  BY DEF StreamInv, Held
<1>3. PICK done : /\ done = (IF Drained(callback.pipeline) THEN ReportCompletion(callback, told)
                             ELSE <<callback, told>>)
                  /\ callback' = [done[1] EXCEPT !.at = "between", !.report = Nothing]
                  /\ told' = done[2]
  BY DEF Report
<1>4. /\ done[1] \in Callbacks /\ done[1].pipeline = callback.pipeline
      /\ done[1].end = callback.end /\ ToldOf(done[2], done[1], heard, popped)
  <2>1. CASE Drained(callback.pipeline)
    <3>1. done = ReportCompletion(callback, told)
      BY <1>3, <2>1
    <3>2. callback.pipeline \in finished /\ popped[callback.pipeline] = pushed[callback.pipeline]
      BY <2>1 DEF Drained
    <3>3. callback.end = TimeOf(heard, callback.pipeline) /\ ToldOf(told, callback, heard, popped)
      BY DEF EndsInv
    <3>4. ToldOf(done[2], done[1], heard, popped) /\ done[1].end = callback.end
      BY <1>2, <3>1, <3>2, <3>3, CompletionTold
    <3>5. QED
      BY <1>2, <3>1, <3>4, CompletionKeeps
  <2>2. CASE ~Drained(callback.pipeline)
    BY <1>2, <1>3, <2>2 DEF EndsInv
  <2>3. QED
    BY <2>1, <2>2
<1>5. /\ callback'.pipeline = callback.pipeline /\ callback'.end = callback.end
      /\ callback'.completion = done[1].completion
  BY <1>3, <1>4 DEF Callbacks
<1>6. ToldOf(told, callback, heard, popped)'
  <2>1. PICK ends : ends = done[2] /\ ToldOf(ends, done[1], heard, popped)
    BY <1>4
  <2>2. ToldOf(ends, callback', heard, popped)
    BY <1>4, <1>5, <2>1 DEF ToldOf
  <2>3. told' = ends
    BY <1>3, <2>1
  <2>4. QED
    BY <1>1, <2>2, <2>3 DEF ToldOf, TimeOf
<1>7. FromFiles'
  BY <1>1 DEF EndsInv, FromFiles, Source, IsOpen
<1>8. IsOpen'
  BY <1>1 DEF EndsInv, IsOpen
<1>9. QED
  BY <1>1, <1>5, <1>6, <1>7, <1>8 DEF EndsInv, TimeOf

(* What was reported still is what it was when a run begins.               *)
LEMMA TakenEnds ==
  ASSUME StreamInv, EndsInv, NEW first, first = TakeHandoff
  PROVE  /\ ToldOf(told, first, heard, popped)
         /\ first.end = TimeOf(heard, first.pipeline)
<1>1. PICK switched : switched = IF handoff = Nothing THEN callback
                                 ELSE [Start(handoff, "between") EXCEPT
                                         !.chained = callback.chained]
  OBVIOUS
<1>2. callback \in Callbacks
  BY DEF StreamInv, Held
<1>3. /\ ToldOf(told, switched, heard, popped)
      /\ switched.end = TimeOf(heard, switched.pipeline)
      /\ DOMAIN switched = DOMAIN callback
  <2>1. CASE handoff = Nothing
    BY <1>1, <2>1 DEF EndsInv
  <2>2. CASE handoff # Nothing
    <3>1. /\ handoff \in Pipelines /\ heard[handoff] = <<>> /\ callback.pipeline < handoff
      BY <2>2 DEF StreamInv, Held, Unheard, EndsInv
    <3>2. switched = [pipeline |-> handoff, chained |-> callback.chained, position |-> 0,
                      end |-> Nothing, completion |-> "pending", at |-> "between",
                      report |-> Nothing]
      BY <1>1, <2>2 DEF Start
    <3>3. callback.pipeline \in Nat /\ handoff \in Nat
      BY <1>2, <3>1, PipelinesAre DEF Callbacks
    <3>4. ASSUME NEW i \in DOMAIN told
          PROVE  told[i].pipeline < handoff
      <4>1. told[i].pipeline <= callback.pipeline /\ told[i].pipeline \in Pipelines
        BY ToldAre DEF EndsInv
      <4>2. told[i].pipeline \in Nat
        BY <4>1, PipelinesAre
      <4>3. QED
        BY <3>1, <3>3, <4>1, <4>2
    <3>5. \A i \in DOMAIN told : told[i].pipeline <= handoff /\ told[i].pipeline # handoff
      <4>1. \A i \in DOMAIN told : told[i].pipeline \in Nat
        BY ToldAre, PipelinesAre DEF EndsInv
      <4>2. QED
        BY <3>3, <3>4, <4>1
    <3>6. ToldOf(told, switched, heard, popped)
      BY <3>2, <3>5 DEF EndsInv, ToldOf
    <3>7. QED
      BY <1>2, <3>1, <3>2, <3>6 DEF TimeOf, Callbacks
  <2>3. QED
    BY <2>1, <2>2
<1>4. PICK kept : first = [switched EXCEPT !.chained = kept]
  BY <1>1 DEF TakeHandoff
<1>5. /\ first.pipeline = switched.pipeline /\ first.end = switched.end
      /\ first.completion = switched.completion
  BY <1>4
<1>6. QED
  BY <1>3, <1>5 DEF ToldOf

(* A segment of n frames of the pipeline p is played, and taken from its   *)
(* queue.                                                                  *)
PlaysSegment(ends, cb, h, g, taken, more, p, t, n, one) ==
  /\ cb \in Callbacks /\ p = cb.pipeline /\ p \in Pipelines /\ t \in Nat /\ n \in Nat
  /\ h \in [Pipelines -> Seq(Nat)] /\ taken \in [Pipelines -> Nat]
  /\ taken[p] + n <= pushed[p]
  /\ more[p] = taken[p] + n /\ \A q \in Pipelines : q # p => more[q] = taken[q]
  /\ GoesOnWith(h, g, p, t, n)
  /\ one = Segment(cb, n, t)
  /\ ToldOf(ends, cb, h, taken) /\ cb.end = TimeOf(h, p)

(* What was reported is not of it, or it has nothing left to play.         *)
LEMMA SegmentEnds ==
  ASSUME NEW ends, NEW cb, NEW h, NEW g, NEW taken, NEW more, NEW p, NEW t, NEW n, NEW one,
         PlaysSegment(ends, cb, h, g, taken, more, p, t, n, one)
  PROVE  ToldOf(ends, one, g, more) /\ one.end = TimeOf(g, p)
<1>0. /\ cb \in Callbacks /\ p = cb.pipeline /\ p \in Pipelines /\ t \in Nat /\ n \in Nat
      /\ h \in [Pipelines -> Seq(Nat)] /\ taken \in [Pipelines -> Nat]
      /\ taken[p] + n <= pushed[p]
      /\ more[p] = taken[p] + n /\ \A q \in Pipelines : q # p => more[q] = taken[q]
      /\ GoesOnWith(h, g, p, t, n)
      /\ one = Segment(cb, n, t)
      /\ ToldOf(ends, cb, h, taken) /\ cb.end = TimeOf(h, p)
  BY DEF PlaysSegment
<1>1. /\ g \in [Pipelines -> Seq(Nat)] /\ Len(g[p]) = Len(h[p]) + n
      /\ \A i \in 1..Len(h[p]) : g[p][i] = h[p][i]
      /\ \A q \in Pipelines : q # p => g[q] = h[q]
      /\ \A i \in (Len(h[p]) + 1)..(Len(h[p]) + n) : g[p][i] = t + (i - Len(h[p]) - 1)
  BY <1>0 DEF GoesOnWith, GoesOn
<1>2. PICK s, u : s = h[p] /\ u = g[p]
  OBVIOUS
<1>3. /\ s \in Seq(Nat) /\ u \in Seq(Nat) /\ Len(s) \in Nat /\ Len(u) = Len(s) + n
      /\ \A i \in 1..Len(s) : u[i] = s[i]
      /\ \A i \in (Len(s) + 1)..(Len(s) + n) : u[i] = t + (i - Len(s) - 1)
  <2>1. s \in Seq(Nat) /\ u \in Seq(Nat)
    BY <1>0, <1>1, <1>2
  <2>2. Len(s) \in Nat
    BY <2>1
  <2>3. QED
    BY <1>1, <1>2, <2>1, <2>2
<1>4. /\ one.pipeline = cb.pipeline /\ one.completion = cb.completion
      /\ one.end = IF n > 0 THEN t + n ELSE cb.end
  BY <1>0 DEF Segment, Callbacks
<1>5. n = 0 => TimeOf(g, p) = TimeOf(h, p)
  <2>1. SUFFICES ASSUME n = 0 PROVE TimeOf(g, p) = TimeOf(h, p)
    OBVIOUS
  <2>2. Len(u) = Len(s)
    BY <1>3, <2>1
  <2>3. CASE Len(s) = 0
    <3>1. s = <<>> /\ u = <<>>
      BY <1>3, <2>2, <2>3
    <3>2. QED
      BY <1>2, <3>1 DEF TimeOf
  <2>4. CASE Len(s) # 0
    <3>1. s # <<>> /\ u # <<>>
      BY <1>3, <2>2, <2>4
    <3>2. Len(s) \in 1..Len(s)
      BY <1>3, <2>4
    <3>3. u[Len(u)] = s[Len(s)]
      BY <1>3, <2>2, <3>2
    <3>4. QED
      BY <1>2, <3>1, <3>3 DEF TimeOf
  <2>5. QED
    BY <2>3, <2>4
<1>6. one.end = TimeOf(g, p)
  <2>1. CASE n = 0
    BY <1>0, <1>4, <1>5, <2>1
  <2>2. CASE n > 0
    <3>1. u # <<>> /\ Len(u) \in (Len(s) + 1)..(Len(s) + n)
      BY <1>0, <1>3, <2>2
    <3>2. u[Len(u)] = t + (Len(u) - Len(s) - 1)
      BY <1>3, <3>1
    <3>3. u[Len(u)] + 1 = t + n
      BY <1>0, <1>3, <3>2
    <3>4. QED
      BY <1>2, <1>4, <2>2, <3>1, <3>3 DEF TimeOf
  <2>3. QED
    BY <1>0, <2>1, <2>2
<1>7. ASSUME NEW i \in DOMAIN ends
      PROVE  /\ more[ends[i].pipeline] = taken[ends[i].pipeline]
             /\ TimeOf(g, ends[i].pipeline) = TimeOf(h, ends[i].pipeline)
  <2>1. ends[i].pipeline \in Pipelines
    BY <1>0, ToldAre
  <2>2. PICK q \in Pipelines : q = ends[i].pipeline
    BY <2>1
  <2>3. CASE q = p
    <3>0. taken[ends[i].pipeline] = pushed[ends[i].pipeline]
      BY <1>0 DEF ToldOf
    <3>1. taken[p] = pushed[p] /\ taken[p] \in Nat
      BY <1>0, <2>2, <2>3, <3>0
    <3>2. n = 0
      BY <1>0, <3>1
    <3>3. more[p] = taken[p]
      BY <1>0, <3>1, <3>2
    <3>4. QED
      BY <1>5, <2>2, <2>3, <3>2, <3>3
  <2>4. CASE q # p
    BY <1>0, <1>1, <2>2, <2>4 DEF TimeOf
  <2>5. QED
    BY <2>3, <2>4
<1>8. ToldOf(ends, one, g, more)
  BY <1>0, <1>4, <1>7 DEF ToldOf
<1>9. QED
  BY <1>6, <1>8

(* A run changes neither the queues nor their files.                       *)
LEMMA FilledEnds ==
  ASSUME EndsInv, UNCHANGED <<opened, frames, pushed, finished, stream, sought>>, IsOpen,
         handoff' = Nothing, NEW cb, callback' = [cb EXCEPT !.at = "filled"],
         cb \in Callbacks, cb.end = TimeOf(heard', cb.pipeline),
         NEW ends, told' = ends, ToldOf(ends, cb, heard', popped')
  PROVE  EndsInv'
<1>1. /\ callback'.pipeline = cb.pipeline /\ callback'.end = cb.end
      /\ callback'.completion = cb.completion
  BY DEF Callbacks
<1>2. FromFiles'
  BY DEF EndsInv, FromFiles, Source, IsOpen
<1>3. ToldOf(told, callback, heard, popped)'
  BY <1>1 DEF ToldOf, TimeOf
<1>4. IsOpen'
  BY DEF IsOpen
<1>5. (callback.end = TimeOf(heard, callback.pipeline))'
  BY <1>1 DEF TimeOf
<1>6. QED
  BY <1>2, <1>3, <1>4, <1>5 DEF EndsInv

LEMMA FillEnds ==
  ASSUME StreamInv, EndsInv, Fill
  PROVE  EndsInv'
<1>1. PICK t, first : t = Max({due, now}) /\ first = TakeHandoff
  OBVIOUS
<1>2. PICK p : p = first.pipeline
  OBVIOUS
<1>3. PICK n : n = Min({Buffer, pushed[p] - popped[p]})
  OBVIOUS
<1>4. PICK h, one : h = PlayedTo(heard, p, t, n) /\ one = Segment(first, n, t)
  OBVIOUS
<1>5. Plays(t, first, p, n, h)
  BY <1>1, <1>2, <1>3, <1>4 DEF Plays
<1>6. /\ due <= now + Lead /\ handoff' = Nothing /\ IsOpen
      /\ UNCHANGED <<opened, frames, pushed, finished, stream, sought>>
  BY DEF Fill, queues
<1>7. /\ t \in Nat /\ p \in Pipelines /\ n \in Nat /\ popped[p] + n <= pushed[p]
      /\ GoesOnWith(heard, h, p, t, n)
  BY <1>5, <1>6, FirstSegment
<1>8. /\ first \in Callbacks /\ ToldOf(told, first, heard, popped)
      /\ first.end = TimeOf(heard, p)
  BY <1>1, <1>2, TakenHandoff, TakenEnds
<1>9. heard \in [Pipelines -> Seq(Nat)] /\ popped \in [Pipelines -> Nat]
  BY DEF StreamInv, Queued
<1>10. PICK taken : taken = [popped EXCEPT ![p] = @ + n]
  OBVIOUS
<1>11. ToldOf(told, one, h, taken) /\ one.end = TimeOf(h, p)
  <2>1. taken[p] = popped[p] + n /\ \A q \in Pipelines : q # p => taken[q] = popped[q]
    BY <1>7, <1>9, <1>10
  <2>2. p = first.pipeline /\ one = Segment(first, n, t)
    BY <1>2, <1>4
  <2>3. QED
    <3>1. PlaysSegment(told, first, heard, h, popped, taken, p, t, n, one)
      BY <1>7, <1>8, <1>9, <2>1, <2>2 DEF PlaysSegment
    <3>2. QED
      BY <3>1, SegmentEnds
<1>12. one \in Callbacks /\ one.pipeline = p /\ one.chained = first.chained
  BY <1>2, <1>4, <1>7, <1>8, SegmentIs
<1>13. CASE ~Chains(first, n)
  <2>1. /\ callback' = [one EXCEPT !.at = "filled"]
        /\ popped' = taken /\ heard' = h /\ told' = told
    <3>1. callback' = [Segment(first, n, t) EXCEPT !.at = "filled"] /\ told' = told
      BY <1>1, <1>2, <1>3, <1>13, Zenon DEF Fill
    <3>2. popped' = [popped EXCEPT ![p] = @ + n]
      BY <1>1, <1>2, <1>3, <1>13, Zenon DEF Fill
    <3>3. heard' = [heard EXCEPT ![p] = @ \o HeardAt(t, n)]
      BY <1>1, <1>2, <1>3, <1>13, Zenon DEF Fill
    <3>4. QED
      BY <1>4, <1>10, <3>1, <3>2, <3>3 DEF PlayedTo
  <2>2. QED
    BY <1>6, <1>11, <1>12, <2>1, FilledEnds
<1>14. CASE Chains(first, n)
  <2>1. PICK completed : completed = ReportCompletion(one, told)
    OBVIOUS
  <2>2. PICK next : next = ChainToNext(completed[1])
    OBVIOUS
  <2>3. PICK q, k : q = first.chained.next
                    /\ k = Min({Buffer - n, pushed[q] - popped[q]})
    OBVIOUS
  <2>4. /\ k \in Nat /\ q # p /\ StreamInv' /\ GoesOnWith(h, heard', q, t + n, k)
    BY <1>5, <1>14, <2>3, FillChained
  <2>5. /\ first.chained # Nothing /\ first.chained \in Chainings
        /\ first.chained.after = p /\ p < q /\ q \in Pipelines /\ heard[q] = <<>>
    BY <1>1, <1>2, <1>14, <2>3, TakenHandoff DEF Chains, Follows, Chainings
  <2>6. p \in finished /\ taken[p] = pushed[p]
    BY <1>2, <1>7, <1>9, <1>10, <1>14 DEF Chains
  <2>7. /\ ToldOf(completed[2], completed[1], h, taken)
        /\ completed[1] \in Callbacks /\ completed[1].pipeline = p
        /\ completed[1].chained = first.chained
    BY <1>11, <1>12, <2>1, <2>6, CompletionTold, CompletionKeeps
  <2>8. /\ next \in Callbacks /\ next.pipeline = q /\ next.end = Nothing
    <3>1. next.end = Nothing
      BY <2>2 DEF ChainToNext, Start
    <3>2. QED
      BY <2>2, <2>3, <2>5, <2>7, <3>1, ChainedNext
  <2>9. h \in [Pipelines -> Seq(Nat)] /\ h[q] = <<>>
    BY <1>7, <2>4, <2>5 DEF GoesOnWith
  <2>10. next.end = TimeOf(h, q)
    BY <2>8, <2>9 DEF TimeOf
  <2>11. ToldOf(completed[2], next, h, taken)
    <3>1. ASSUME NEW i \in DOMAIN completed[2]
          PROVE  completed[2][i].pipeline <= q /\ completed[2][i].pipeline # q
      <4>1. completed[2][i].pipeline \in Pipelines /\ completed[2][i].pipeline <= p
        BY <2>7, ToldAre
      <4>2. completed[2][i].pipeline \in Nat /\ p \in Nat /\ q \in Nat
        BY <1>7, <2>5, <4>1, PipelinesAre
      <4>3. QED
        BY <2>5, <4>1, <4>2
    <3>2. QED
      BY <2>7, <2>8, <3>1 DEF ToldOf
  <2>12. PICK two, more, u : /\ two = Segment(next, k, u) /\ u = t + n
                             /\ more = [taken EXCEPT ![q] = @ + k]
    OBVIOUS
  <2>13. /\ callback' = [two EXCEPT !.at = "filled"] /\ told' = completed[2]
         /\ popped' = more
    <3>1. q = next.pipeline
      BY <2>8
    <3>2. callback' = [Segment(next, k, t + n) EXCEPT !.at = "filled"]
      BY <1>1, <1>2, <1>3, <1>4, <1>14, <2>1, <2>2, <2>3, <3>1, Zenon DEF Fill
    <3>3. popped' = [popped EXCEPT ![p] = @ + n, ![q] = @ + k]
      BY <1>1, <1>2, <1>3, <1>4, <1>14, <2>1, <2>2, <2>3, <3>1, Zenon DEF Fill
    <3>4. told' = completed[2]
      BY <1>1, <1>2, <1>3, <1>4, <1>14, <2>1, <2>2, <2>3, <3>1, Zenon DEF Fill
    <3>5. [popped EXCEPT ![p] = @ + n, ![q] = @ + k] = more
      BY <1>7, <1>9, <1>10, <2>4, <2>5, <2>12
    <3>6. QED
      BY <2>12, <3>2, <3>3, <3>4, <3>5
  <2>14. taken \in [Pipelines -> Nat] /\ taken[q] + k <= pushed[q]
    <3>1. taken \in [Pipelines -> Nat]
      BY <1>7, <1>9, <1>10
    <3>2. more[q] = taken[q] + k
      BY <2>5, <2>12, <3>1
    <3>3. popped'[q] <= pushed'[q]
      BY <2>4, <2>5 DEF StreamInv, Queued
    <3>4. QED
      BY <1>6, <2>13, <3>1, <3>2, <3>3
  <2>15. u \in Nat
    BY <1>7, <2>12
  <2>16. ToldOf(completed[2], two, heard', more) /\ two.end = TimeOf(heard', q)
    <3>1. GoesOnWith(h, heard', q, u, k)
      BY <2>4, <2>12
    <3>2. more[q] = taken[q] + k /\ \A r \in Pipelines : r # q => more[r] = taken[r]
      BY <2>5, <2>12, <2>14
    <3>3. /\ q = next.pipeline /\ q \in Pipelines /\ next \in Callbacks /\ k \in Nat
          /\ two = Segment(next, k, u)
      BY <2>4, <2>5, <2>8, <2>12
    <3>4. QED
      <4>1. PlaysSegment(completed[2], next, h, heard', taken, more, q, u, k, two)
        BY <1>6, <2>9, <2>10, <2>11, <2>14, <2>15, <3>1, <3>2, <3>3 DEF PlaysSegment
      <4>2. QED
        BY <4>1, SegmentEnds
  <2>17. two \in Callbacks /\ two.pipeline = q
    <3>1. next \in Callbacks /\ k \in Nat /\ two = Segment(next, k, u)
      BY <2>4, <2>8, <2>12
    <3>2. two \in Callbacks /\ two.pipeline = next.pipeline
      BY <2>15, <3>1, SegmentIs
    <3>3. QED
      BY <2>8, <3>2
  <2>18. QED
    BY <1>6, <2>13, <2>16, <2>17, FilledEnds
<1>15. QED
  BY <1>13, <1>14

LEMMA NextEnds ==
  ASSUME StreamInv, EndsInv, [OutputNext]_outputVars
  PROVE  EndsInv'
<1>1. CASE Decoders
  BY <1>1, PushEnds DEF Decoders
<1>2. CASE Fill
  BY <1>2, FillEnds
<1>3. CASE Report
  BY <1>3, ReportEnds
<1>4. CASE QueueNext \/ SwitchQueue
  BY <1>4, OpenEnds
<1>5. CASE Tick \/ ClearNext \/ FinishSwitch \/ AdoptNext \/ SamplePosition \/ UNCHANGED outputVars
  <2>1. stream'.next = stream.next
    <3>1. stream \in WorkerSides
      BY DEF StreamInv, Held
    <3>2. QED
      BY <1>5, <3>1 DEF Tick, ClearNext, FinishSwitch, AdoptNext, SamplePosition, Renewed,
                        WorkerSides, outputVars
  <2>2. UNCHANGED <<opened, frames, pushed, finished, popped, handoff, callback, heard, told,
                    sought>>
    BY <1>5 DEF Tick, ClearNext, FinishSwitch, AdoptNext, SamplePosition, queues, history,
                outputVars
  <2>3. QED
    BY <2>1, <2>2, EndsStay
<1>6. QED
  BY <1>1, <1>2, <1>3, <1>4, <1>5 DEF OutputNext, CallbackThread, Worker

(* The end of a pipeline is reported once, when its last frame has been    *)
(* heard, and then all frames have been that its file has, at the rate of  *)
(* the device, from its start or from where a seek went.                   *)
THEOREM EndsKeepExact == OutputSpec => []EndsAreExact
<1>1. StreamInv /\ EndsInv /\ [OutputNext]_outputVars => StreamInv' /\ EndsInv'
  BY NextStream, NextEnds
<1>2. OutputInit => StreamInv /\ EndsInv
  BY InitStream, InitEnds
<1>3. StreamInv /\ EndsInv => EndsAreExact
  BY EndsFromTold
<1>4. QED
  BY <1>1, <1>2, <1>3, PTL DEF OutputSpec

-----------------------------------------------------------------------------
(* Segments and buckets (WaveformAnalysis.tla): what is cut and joined     *)
(* again, or reduced, is the whole.                                        *)

UpTo(n) == [k \in 1..n |-> k]
Piece(from, to) == [k \in 1..(to - from) |-> from + k]

(* Pieces that follow one another from the start.                          *)
Tiles(seqs, n, ends) ==
  /\ ends \in [0..n -> Nat] /\ ends[0] = 0 /\ \A i \in 1..n : ends[i - 1] <= ends[i]
  /\ seqs = [i \in 1..n |-> Piece(ends[i - 1], ends[i])]

LEMMA UpToIs ==
  ASSUME NEW n \in Nat
  PROVE  /\ UpTo(n) \in Seq(Nat) /\ Len(UpTo(n)) = n /\ DOMAIN UpTo(n) = 1..n
         /\ \A k \in 1..n : UpTo(n)[k] = k
BY DEF UpTo

LEMMA PieceIs ==
  ASSUME NEW a \in Nat, NEW b \in Nat, a <= b
  PROVE  /\ Piece(a, b) \in Seq(Nat) /\ Len(Piece(a, b)) = b - a
         /\ \A k \in 1..(b - a) : Piece(a, b)[k] = a + k
<1>1. b - a \in Nat
  OBVIOUS
<1>2. QED
  BY <1>1 DEF Piece

LEMMA JoinedIs ==
  ASSUME NEW a \in Nat, NEW b \in Nat, a <= b
  PROVE  UpTo(a) \o Piece(a, b) = UpTo(b)
<1>1. PICK s, t : s = UpTo(a) /\ t = Piece(a, b)
  OBVIOUS
<1>2. /\ s \in Seq(Nat) /\ Len(s) = a /\ \A k \in 1..a : s[k] = k
      /\ t \in Seq(Nat) /\ Len(t) = b - a /\ \A k \in 1..(b - a) : t[k] = a + k
  BY <1>1, UpToIs, PieceIs
<1>3. PICK both : both = s \o t
  OBVIOUS
<1>4. /\ both \in Seq(Nat) /\ Len(both) = a + (b - a)
      /\ \A k \in 1..(a + (b - a)) : both[k] = IF k <= a THEN s[k] ELSE t[k - a]
  <2>1. /\ both \in Seq(Nat) /\ Len(both) = Len(s) + Len(t)
        /\ \A k \in 1..(Len(s) + Len(t)) :
             both[k] = IF k <= Len(s) THEN s[k] ELSE t[k - Len(s)]
    BY <1>2, <1>3, ConcatProperties
  <2>2. QED
    BY <1>2, <2>1
<1>5. a + (b - a) = b
  OBVIOUS
<1>6. both = [k \in 1..b |-> both[k]]
  BY <1>4, <1>5
<1>7. \A k \in 1..b : both[k] = k
  <2>1. SUFFICES ASSUME NEW k \in 1..b PROVE both[k] = k
    OBVIOUS
  <2>2. CASE k <= a
    BY <1>2, <1>4, <1>5, <2>2
  <2>3. CASE k > a
    <3>1. k - a \in 1..(b - a) /\ a + (k - a) = k
      BY <2>3
    <3>2. t[k - a] = a + (k - a)
      BY <1>2, <3>1
    <3>3. QED
      BY <1>4, <1>5, <2>3, <3>1, <3>2
  <2>4. QED
    BY <2>2, <2>3
<1>8. QED
  BY <1>1, <1>3, <1>6, <1>7 DEF UpTo

(* What FlattenSeq recurs on; the pieces' beginnings solve it, alone.      *)
Flattened(seqs, n, flat) ==
  flat = [i \in 1..n |-> IF i = 1 THEN seqs[i] ELSE flat[i - 1] \o seqs[i]]

LEMMA TilesFlatten ==
  ASSUME NEW n \in Nat \ {0}, NEW seqs, NEW ends, Tiles(seqs, n, ends)
  PROVE  FlattenSeq(seqs) = UpTo(ends[n])
<1>1. /\ \A i \in 1..n : ends[i] \in Nat /\ ends[i - 1] \in Nat /\ ends[i - 1] <= ends[i]
      /\ ends[0] = 0
  BY DEF Tiles
<1>2. \A i \in 1..n : seqs[i] = Piece(ends[i - 1], ends[i])
  BY DEF Tiles
<1>3. Len(seqs) = n
  BY DEF Tiles
<1>4. seqs[1] = UpTo(ends[1])
  <2>1. \A k \in 1..ends[1] : 0 + k = k
    BY <1>1
  <2>2. ends[1] - 0 = ends[1]
    BY <1>1
  <2>3. seqs[1] = Piece(0, ends[1])
    BY <1>1, <1>2
  <2>4. QED
    BY <2>1, <2>2, <2>3 DEF Piece, UpTo
<1>5. \A i \in 2..n : UpTo(ends[i - 1]) \o seqs[i] = UpTo(ends[i])
  <2>1. SUFFICES ASSUME NEW i \in 2..n
                 PROVE  UpTo(ends[i - 1]) \o seqs[i] = UpTo(ends[i])
    OBVIOUS
  <2>2. i \in 1..n
    OBVIOUS
  <2>3. PICK a, b : a = ends[i - 1] /\ b = ends[i]
    OBVIOUS
  <2>4. a \in Nat /\ b \in Nat /\ a <= b /\ seqs[i] = Piece(a, b)
    BY <1>1, <1>2, <2>2, <2>3
  <2>5. QED
    BY <2>3, <2>4, JoinedIs
<1>6. \E flat : Flattened(seqs, n, flat)
  <2>1. PICK flat : flat = [i \in 1..n |-> UpTo(ends[i])]
    OBVIOUS
  <2>2. \A i \in 1..n : flat[i] = IF i = 1 THEN seqs[i] ELSE flat[i - 1] \o seqs[i]
    <3>1. SUFFICES ASSUME NEW i \in 1..n
                   PROVE  flat[i] = IF i = 1 THEN seqs[i] ELSE flat[i - 1] \o seqs[i]
      OBVIOUS
    <3>2. CASE i = 1
      BY <1>4, <2>1, <3>2
    <3>3. CASE i # 1
      <4>1. i \in 2..n /\ i - 1 \in 1..n
        BY <3>3
      <4>2. flat[i - 1] = UpTo(ends[i - 1]) /\ flat[i] = UpTo(ends[i])
        BY <2>1, <4>1
      <4>3. QED
        BY <1>5, <3>3, <4>1, <4>2
    <3>4. QED
      BY <3>2, <3>3
  <2>3. flat = [i \in 1..n |-> IF i = 1 THEN seqs[i] ELSE flat[i - 1] \o seqs[i]]
    BY <2>1, <2>2, Zenon
  <2>4. QED
    BY <2>3 DEF Flattened
<1>7. PICK flat : flat = CHOOSE f : Flattened(seqs, n, f)
  OBVIOUS
<1>8. Flattened(seqs, n, flat)
  BY <1>6, <1>7
<1>9. \A i \in 1..n : flat[i] = UpTo(ends[i])
  <2> DEFINE S == {i \in 1..n : flat[i] # UpTo(ends[i])}
  <2>1. SUFFICES ASSUME S # {} PROVE FALSE
    OBVIOUS
  <2>2. PICK i \in S : \A j \in S : i <= j
    <3>1. S \subseteq Nat
      OBVIOUS
    <3>2. QED
      BY <2>1, <3>1, LeastNumber
  <2>3. i \in 1..n /\ flat[i] # UpTo(ends[i])
    BY <2>2
  <2>4. i # 1
    BY <1>4, <1>8, <2>3 DEF Flattened
  <2>5. i \in 2..n /\ i - 1 \in 1..n /\ i - 1 \notin S
    BY <2>2, <2>3, <2>4
  <2>6. flat[i] = flat[i - 1] \o seqs[i]
    BY <1>8, <2>3, <2>4 DEF Flattened
  <2>7. flat[i - 1] = UpTo(ends[i - 1])
    BY <2>5
  <2>8. QED
    BY <1>5, <2>3, <2>5, <2>6, <2>7
<1>10. FlattenSeq(seqs) = flat[n]
  BY <1>3, <1>7 DEF FlattenSeq, Flattened
<1>11. QED
  BY <1>9, <1>10


(* Of chunks in order.                                                     *)
LEMMA RangeIs ==
  ASSUME NEW counted \in Nat, NEW start \in Nat, start <= counted, NEW limit \in Nat
  PROVE  AnalyzeRange(counted, start, limit) = Piece(start, start + Min({limit, counted - start}))
<1>1. PICK m : m = Min({limit, counted - start})
  OBVIOUS
<1>2. m \in Nat
  <2>1. PICK left \in Nat : left = counted - start
    OBVIOUS
  <2>2. QED
    BY <1>1, <2>1, MinOfTwo
<1>3. (start + m) - start = m /\ ~(counted < start)
  BY <1>2
<1>4. AnalyzeRange(counted, start, limit) = [k \in 1..m |-> start + k]
  BY <1>1, <1>3 DEF AnalyzeRange
<1>5. Piece(start, start + m) = [k \in 1..m |-> start + k]
  <2>1. PICK e : e = start + m
    OBVIOUS
  <2>2. e - start = m
    BY <1>3, <2>1
  <2>3. Piece(start, e) = [k \in 1..m |-> start + k]
    BY <2>2 DEF Piece
  <2>4. QED
    BY <2>1, <2>3
<1>6. QED
  BY <1>1, <1>4, <1>5

(* Segments of even length, and one to the end of the file.                *)
LEMMA SegmentsTile ==
  ASSUME NEW counted \in Nat, NEW stated \in Nat, NEW threads \in Nat,
         Fits(counted, stated, threads)
  PROVE  FlattenSeq(Segments(counted, stated, threads)) = UpTo(counted)
<1>1. PICK count, each, seqs : /\ count = SegmentCount(stated, threads)
                               /\ each = stated \div count
                               /\ seqs = Segments(counted, stated, threads)
  OBVIOUS
<1>2. count \in Nat /\ count > 1 /\ each \in Nat
  <2>1. PICK most : most = stated \div MinSegmentChunks
    OBVIOUS
  <2>2. most \in Nat
    BY <2>1, DividedIs, WaveformsAssumption
  <2>3. count \in Nat
    BY <1>1, <2>1, <2>2, MinOfTwo DEF SegmentCount
  <2>4. count > 1
    BY <1>1 DEF Fits
  <2>5. QED
    BY <1>1, <2>3, <2>4, DividedIs
<1>3. /\ seqs = [i \in 1..count |-> AnalyzeRange(counted, (i - 1) * each,
                                                IF i < count THEN each ELSE counted)]
      /\ \A i \in 1..(count - 1) : Len(seqs[i]) = each
  BY <1>1 DEF Segments, Fits
<1>4. \A i \in 0..count : i * each \in Nat
  BY <1>2, ProductIs
<1>5. \A i \in 1..count : i * each = (i - 1) * each + each
  BY <1>2
<1>6. \A i \in 1..(count - 1) : i * each <= counted
  <2>1. SUFFICES ASSUME NEW i \in 1..(count - 1) PROVE i * each <= counted
    OBVIOUS
  <2>2. PICK start : start = (i - 1) * each
    OBVIOUS
  <2>3. start \in Nat /\ i * each = start + each /\ i \in 1..count
    BY <1>2, <1>4, <1>5, <2>2
  <2>4. PICK left : left = IF counted < start THEN 0 ELSE counted - start
    OBVIOUS
  <2>5. left \in Nat
    BY <2>3, <2>4
  <2>6. Min({each, left}) \in Nat /\ Min({each, left}) <= left
    BY <1>2, <2>5, MinOfTwo
  <2>7. seqs[i] = [k \in 1..Min({each, left}) |-> start + k]
    <3>1. seqs[i] = AnalyzeRange(counted, start, each)
      BY <1>2, <1>3, <2>2, <2>3
    <3>2. QED
      BY <2>4, <3>1 DEF AnalyzeRange
  <2>8. Len(seqs[i]) = Min({each, left})
    BY <2>6, <2>7
  <2>9. each <= left
    BY <1>3, <2>6, <2>8
  <2>10. CASE counted < start
    <3>1. each = 0
      BY <1>2, <2>4, <2>9, <2>10
    <3>2. start = 0
      BY <2>2, <3>1
    <3>3. QED
      BY <2>10, <3>2
  <2>11. CASE ~(counted < start)
    BY <1>2, <2>3, <2>4, <2>9, <2>11
  <2>12. QED
    BY <2>10, <2>11
<1>7. PICK ends : ends = [i \in 0..count |-> IF i < count THEN i * each ELSE counted]
  OBVIOUS
<1>8. /\ \A i \in 0..(count - 1) : ends[i] = i * each
      /\ ends[count] = counted /\ ends \in [0..count -> Nat]
  BY <1>2, <1>4, <1>7
<1>9. \A i \in 1..count : ends[i - 1] <= ends[i] /\ seqs[i] = Piece(ends[i - 1], ends[i])
  <2>1. SUFFICES ASSUME NEW i \in 1..count
                 PROVE  ends[i - 1] <= ends[i] /\ seqs[i] = Piece(ends[i - 1], ends[i])
    OBVIOUS
  <2>2. PICK start : start = (i - 1) * each
    OBVIOUS
  <2>3. /\ start \in Nat /\ i * each = start + each /\ ends[i - 1] = start
        /\ seqs[i] = AnalyzeRange(counted, start, IF i < count THEN each ELSE counted)
    BY <1>2, <1>3, <1>4, <1>5, <1>8, <2>2
  <2>4. CASE i < count
    <3>1. ends[i] = start + each /\ start + each <= counted
      <4>1. i \in 0..(count - 1) /\ i \in 1..(count - 1)
        BY <1>2, <2>4
      <4>2. ends[i] = i * each /\ i * each <= counted
        BY <1>6, <1>8, <4>1
      <4>3. QED
        BY <2>3, <4>2
    <3>2. PICK left \in Nat : left = counted - start /\ each <= left
      BY <1>2, <2>3, <3>1
    <3>3. Min({each, left}) = each
      BY <1>2, <3>2, MinOfTwo
    <3>4. AnalyzeRange(counted, start, each) = Piece(start, start + Min({each, counted - start}))
      <4>1. start <= counted
        BY <1>2, <2>3, <3>1
      <4>2. QED
        BY <1>2, <2>3, <4>1, RangeIs
    <3>5. QED
      BY <1>2, <2>3, <2>4, <3>1, <3>2, <3>3, <3>4
  <2>5. CASE i = count
    <3>1. start <= counted /\ ends[i] = counted
      <4>1. i - 1 \in 1..(count - 1)
        BY <1>2, <2>5
      <4>2. QED
        BY <1>6, <1>8, <2>2, <2>5, <4>1
    <3>2. PICK left \in Nat : left = counted - start
      BY <2>3, <3>1
    <3>3. Min({counted, left}) = left
      <4>1. left <= counted
        BY <2>3, <3>2
      <4>2. QED
        BY <4>1, MinOfTwo
    <3>4. AnalyzeRange(counted, start, counted)
            = Piece(start, start + Min({counted, counted - start}))
      BY <2>3, <3>1, RangeIs
    <3>5. start + left = counted
      BY <2>3, <3>2
    <3>6. QED
      BY <2>3, <2>5, <3>1, <3>2, <3>3, <3>4, <3>5
  <2>6. QED
    BY <1>2, <2>4, <2>5
<1>10. Tiles(seqs, count, ends)
  <2>1. seqs = [i \in 1..count |-> seqs[i]]
    BY <1>3
  <2>2. ends[0] = 0
    BY <1>2, <1>8
  <2>3. seqs = [i \in 1..count |-> Piece(ends[i - 1], ends[i])]
    BY <1>9, <2>1
  <2>4. QED
    BY <1>8, <1>9, <2>2, <2>3 DEF Tiles
<1>11. FlattenSeq(seqs) = UpTo(ends[count])
  BY <1>2, <1>10, TilesFlatten
<1>12. QED
  BY <1>1, <1>8, <1>11

LEMMA ChunksAre ==
  ASSUME NEW counted \in Nat, NEW stated \in Nat, NEW threads \in Nat
  PROVE  Chunks(counted, stated, threads) = UpTo(counted)
<1>1. CASE Fits(counted, stated, threads)
  BY <1>1, SegmentsTile DEF Chunks
<1>2. CASE ~Fits(counted, stated, threads)
  <2>1. AnalyzeRange(counted, 0, counted) = Piece(0, 0 + Min({counted, counted - 0}))
    BY RangeIs
  <2>2. counted - 0 = counted /\ 0 + counted = counted /\ \A k \in 1..counted : 0 + k = k
    OBVIOUS
  <2>3. Min({counted, counted}) = counted
    BY MinOfTwo
  <2>4. AnalyzeRange(counted, 0, counted) = Piece(0, counted)
    BY <2>1, <2>2, <2>3
  <2>5. QED
    BY <1>2, <2>2, <2>4 DEF Chunks, Piece, UpTo
<1>3. QED
  BY <1>1, <1>2

(* Of the quotients of a sum.                                              *)
LEMMA SumDivided ==
  ASSUME NEW c \in Nat \ {0}, NEW x \in Nat, NEW y \in Nat
  PROVE  LET q == (x \div c) + (y \div c) IN (x + y) \div c \in {q, q + 1}
<1>1. PICK p \in Nat, r \in 0..(c - 1) : p = x \div c /\ x = c * p + r
  BY Division
<1>2. PICK q \in Nat, s \in 0..(c - 1) : q = y \div c /\ y = c * q + s
  BY Division
<1>3. PICK a \in Nat, b \in Nat, m \in Nat : a = c * p /\ b = c * q /\ m = p + q
  BY ProductIs
<1>4. c * m = a + b /\ c * (m + 1) = a + b + c
  BY <1>3
<1>5. CASE r + s < c
  <2>1. x + y = c * m + (r + s) /\ r + s \in 0..(c - 1)
    BY <1>1, <1>2, <1>3, <1>4, <1>5
  <2>2. (c * m + (r + s)) \div c = m
    BY <2>1, Divided
  <2>3. QED
    BY <1>1, <1>2, <1>3, <2>1, <2>2
<1>6. CASE r + s >= c
  <2>1. x + y = c * (m + 1) + (r + s - c) /\ r + s - c \in 0..(c - 1)
    BY <1>1, <1>2, <1>3, <1>4, <1>6
  <2>2. (c * (m + 1) + (r + s - c)) \div c = m + 1
    BY <2>1, Divided
  <2>3. QED
    BY <1>1, <1>2, <1>3, <2>1, <2>2
<1>7. QED
  BY <1>5, <1>6

LEMMA SubSeqIs ==
  ASSUME NEW n \in Nat, NEW a \in Nat, NEW b \in Nat, a <= b, b <= n
  PROVE  SubSeq(UpTo(n), a + 1, b) = Piece(a, b)
<1>1. PICK s, cut : s = UpTo(n) /\ cut = SubSeq(s, a + 1, b)
  OBVIOUS
<1>2. s \in Seq(Nat) /\ Len(s) = n /\ \A k \in 1..n : s[k] = k
  BY <1>1, UpToIs
<1>3. cut = [k \in 1..(b - a) |-> s[a + k]]
  <2>1. cut = [k \in 1..(b - (a + 1) + 1) |-> s[k + (a + 1) - 1]]
    BY <1>1, <1>2
  <2>2. b - (a + 1) + 1 = b - a /\ \A k \in 1..(b - a) : k + (a + 1) - 1 = a + k
    OBVIOUS
  <2>3. QED
    BY <2>1, <2>2
<1>4. \A k \in 1..(b - a) : s[a + k] = a + k
  <2>1. \A k \in 1..(b - a) : a + k \in 1..n
    OBVIOUS
  <2>2. QED
    BY <1>2, <2>1
<1>5. QED
  BY <1>1, <1>3, <1>4 DEF Piece

(* Buckets begin where the quotients say: one after the other, none of     *)
(* them empty, and of two lengths at most.                                 *)
LEMMA BucketsTile ==
  ASSUME NEW n \in Nat \ {0}
  PROVE  IsWhole(Reduce(UpTo(n)), n)
<1>1. PICK count, buckets : count = Min({n, WaveformBuckets}) /\ buckets = Reduce(UpTo(n))
  OBVIOUS
<1>2. count \in Nat \ {0} /\ count <= n
  <2>1. WaveformBuckets \in Nat \ {0}
    BY WaveformsAssumption
  <2>2. QED
    BY <1>1, <2>1, MinOfTwo
<1>3. PICK w \in Nat : w = n \div count
  BY <1>2, DividedIs
<1>4. w >= 1
  <2>1. PICK r \in 0..(count - 1) : n = count * w + r
    BY <1>2, <1>3, Division
  <2>2. CASE w = 0
    <3>1. count * w = 0
      BY <1>2, <2>2
    <3>2. n = r
      BY <2>1, <3>1
    <3>3. QED
      BY <1>2, <3>2
  <2>3. QED
    BY <2>2
<1>5. PICK ends : ends = [i \in 0..count |-> (i * n) \div count]
  OBVIOUS
<1>6. /\ \A i \in 0..count : i * n \in Nat /\ ends[i] = (i * n) \div count /\ ends[i] \in Nat
      /\ ends \in [0..count -> Nat]
  <2>1. \A i \in 0..count : i * n \in Nat
    BY <1>2, ProductIs
  <2>2. \A i \in 0..count : (i * n) \div count \in Nat
    BY <1>2, <2>1, DividedIs
  <2>3. QED
    BY <1>5, <2>1, <2>2
<1>7. \A i \in 1..count : ends[i] \in {ends[i - 1] + w, ends[i - 1] + w + 1}
  <2>1. SUFFICES ASSUME NEW i \in 1..count
                 PROVE  ends[i] \in {ends[i - 1] + w, ends[i - 1] + w + 1}
    OBVIOUS
  <2>2. i \in 0..count /\ i - 1 \in 0..count
    BY <1>2
  <2>3. PICK x \in Nat : x = (i - 1) * n
    BY <1>6, <2>2
  <2>4. i * n = x + n
    BY <2>3
  <2>5. ends[i - 1] = x \div count /\ ends[i] = (x + n) \div count
    BY <1>6, <2>2, <2>3, <2>4
  <2>6. (x + n) \div count \in {(x \div count) + (n \div count),
                                (x \div count) + (n \div count) + 1}
    BY <1>2, SumDivided
  <2>7. QED
    BY <1>3, <2>5, <2>6
<1>8. ends[0] = 0
  <2>1. (count * 0 + 0) \div count = 0 /\ count * 0 + 0 = 0
    BY <1>2, Divided
  <2>2. 0 * n = 0 /\ 0 \in 0..count
    BY <1>2
  <2>3. QED
    BY <1>6, <2>1, <2>2
<1>9. ends[count] = n
  <2>1. PICK whole \in Nat : whole = count * n
    BY <1>2, ProductIs
  <2>2. (count * n + 0) \div count = n
    BY <1>2, Divided
  <2>3. count * n + 0 = count * n
    BY <2>1
  <2>4. count \in 0..count
    BY <1>2
  <2>5. QED
    BY <1>6, <2>2, <2>3, <2>4
<1>10. \A i \in 1..count : ends[i] <= n
  <2>1. SUFFICES ASSUME NEW i \in 1..count PROVE ends[i] <= n
    OBVIOUS
  <2>2. PICK x \in Nat, y \in Nat : x = i * n /\ y = (count - i) * n
    BY <1>2, ProductIs
  <2>3. x + y = count * n /\ i \in 0..count /\ count \in 0..count
    BY <1>2, <2>2
  <2>4. ends[i] = x \div count /\ ends[count] = (x + y) \div count
    BY <1>6, <2>2, <2>3
  <2>5. (x + y) \div count \in {(x \div count) + (y \div count),
                                (x \div count) + (y \div count) + 1}
    BY <1>2, SumDivided
  <2>6. x \div count \in Nat /\ y \div count \in Nat
    BY <1>2, DividedIs
  <2>7. QED
    BY <1>9, <2>4, <2>5, <2>6
<1>11. buckets = [i \in 1..count |-> Piece(ends[i - 1], ends[i])]
  <2>1. PICK s : s = UpTo(n)
    OBVIOUS
  <2>2. Len(s) = n
    BY <2>1, UpToIs
  <2>3. buckets = [i \in 1..count |->
                     SubSeq(s, ((i - 1) * n) \div count + 1,
                            Max({(((i - 1) + 1) * n) \div count,
                                 ((i - 1) * n) \div count + 1}))]
    BY <1>1, <2>1, <2>2 DEF Reduce
  <2>4. \A i \in 1..count :
          SubSeq(s, ((i - 1) * n) \div count + 1,
                 Max({(((i - 1) + 1) * n) \div count, ((i - 1) * n) \div count + 1}))
            = Piece(ends[i - 1], ends[i])
    <3>1. SUFFICES ASSUME NEW i \in 1..count
                   PROVE  SubSeq(s, ((i - 1) * n) \div count + 1,
                                 Max({(((i - 1) + 1) * n) \div count,
                                      ((i - 1) * n) \div count + 1}))
                            = Piece(ends[i - 1], ends[i])
      OBVIOUS
    <3>2. i \in 0..count /\ i - 1 \in 0..count /\ (i - 1) + 1 = i
      BY <1>2
    <3>3. PICK a, b : a = ends[i - 1] /\ b = ends[i]
      OBVIOUS
    <3>4. a = ((i - 1) * n) \div count /\ b = (((i - 1) + 1) * n) \div count
      BY <1>6, <3>2, <3>3
    <3>5. a \in Nat /\ b \in Nat /\ b \in {a + w, a + w + 1} /\ b <= n
      BY <1>6, <1>7, <1>10, <3>2, <3>3
    <3>6. b >= a + 1
      BY <1>4, <3>5
    <3>7. Max({b, a + 1}) = b
      BY <3>5, <3>6, MaxOfTwo
    <3>8. SubSeq(s, a + 1, b) = Piece(a, b)
      <4>1. a <= b /\ b <= n /\ a \in Nat /\ b \in Nat /\ n \in Nat
        BY <3>5, <3>6
      <4>2. SubSeq(UpTo(n), a + 1, b) = Piece(a, b)
        BY <4>1, SubSeqIs
      <4>3. QED
        BY <2>1, <4>2
    <3>9. QED
      BY <3>3, <3>4, <3>7, <3>8
  <2>5. QED
    BY <2>3, <2>4
<1>12. FlattenSeq(buckets) = UpTo(n)
  <2>1. \A i \in 1..count : ends[i - 1] <= ends[i]
    <3>1. SUFFICES ASSUME NEW i \in 1..count PROVE ends[i - 1] <= ends[i]
      OBVIOUS
    <3>2. i - 1 \in 0..count
      BY <1>2
    <3>3. PICK a \in Nat : a = ends[i - 1]
      BY <1>6, <3>2
    <3>4. QED
      BY <1>7, <3>3
  <2>2. Tiles(buckets, count, ends)
    BY <1>6, <1>8, <1>11, <2>1 DEF Tiles
  <2>3. FlattenSeq(buckets) = UpTo(ends[count])
    BY <1>2, <2>2, TilesFlatten
  <2>4. QED
    BY <1>9, <2>3
<1>13. DOMAIN buckets = 1..count /\ Len(buckets) = count
  BY <1>2, <1>11
<1>14. \A i \in 1..count : Len(buckets[i]) \in {w, w + 1}
  <2>1. SUFFICES ASSUME NEW i \in 1..count PROVE Len(buckets[i]) \in {w, w + 1}
    OBVIOUS
  <2>2. i \in 0..count /\ i - 1 \in 0..count
    BY <1>2
  <2>3. PICK a \in Nat, b \in Nat : a = ends[i - 1] /\ b = ends[i]
    BY <1>6, <2>2
  <2>4. b \in {a + w, a + w + 1}
    BY <1>7, <2>3
  <2>5. Len(Piece(a, b)) = b - a
    <3>1. a <= b
      BY <2>4
    <3>2. QED
      BY <3>1, PieceIs
  <2>6. buckets[i] = Piece(a, b)
    BY <1>11, <2>3
  <2>7. QED
    BY <2>4, <2>5, <2>6
<1>15. \A i, j \in DOMAIN buckets : Len(buckets[i]) <= Len(buckets[j]) + 1
  BY <1>13, <1>14
<1>16. QED
  BY <1>1, <1>12, <1>13, <1>15 DEF IsWhole, UpTo

(* What is analyzed of a file is the whole file.                           *)
LEMMA AnalyzedIsWhole ==
  ASSUME NEW counted \in Nat \ {0}, NEW stated \in Nat, NEW threads \in Nat
  PROVE  IsWhole(Analyze(counted, stated, threads), counted)
<1>1. Chunks(counted, stated, threads) = UpTo(counted)
  BY ChunksAre
<1>2. QED
  BY <1>1, BucketsTile DEF Analyze


-----------------------------------------------------------------------------
(* The waveforms (Waveforms.tla): what each part of the state holds.       *)

(* Every waveform that is kept is of a content known by its hash or path,  *)
(* and no path is worked on that is not there.                             *)
Files == file \in [Paths -> Nat] /\ \A p \in Paths : file[p] \in DOMAIN Contents[p]

(* On disk and in memory; what may be shown of a path.                     *)
IsKept(hash, wave) == Known(hash, wave.of) /\ wave.exact /\ Whole(wave)
IsShown(wave, path) == IsOf(wave.of, path) /\ Whole(wave)

Cached ==
  /\ cache = [c \in AllContents |-> cache[c]]
  /\ \A c \in AllContents : \/ cache[c] = Absent \/ IsKept(c, cache[c])
                            \/ worker.at = "purging" /\ cache[c] = Stale

Remembered ==
  /\ memory = [p \in DOMAIN memory |-> memory[p]] /\ DOMAIN memory \subseteq Paths
  /\ \A p \in DOMAIN memory : IsShown(memory[p].wave, p)

Asked ==
  /\ jobs = [running |-> jobs.running, pending |-> jobs.pending, closed |-> jobs.closed,
             failed |-> jobs.failed]
  /\ jobs.pending \in Paths \cup {Absent}
  /\ \/ caller = [at |-> caller.at] /\ caller.at = "free"
     \/ caller = [at |-> caller.at, path |-> caller.path] /\ caller.path \in Paths

Topic ==
  /\ current = [playback |-> current.playback, path |-> current.path,
                value |-> current.value, revision |-> current.revision]
  /\ current.value # Absent => current.path \in Paths
  /\ ShownIsOfTheLoaded /\ (current.value # Absent => Whole(current.value.wave))

(* The thread between two jobs, before it has a hash, and with one; what   *)
(* it holds is of the file's own path or of its hash.                      *)
Without == {"purging", "idle", "ended"}
IsMade(wave, path) == wave.of \in ContentsOf(path) /\ wave.exact /\ Whole(wave)
With == {"reading", "sampling", "showing", "telling", "analyzing", "writing", "publishing",
         "told"}
Working ==
  \/ worker.at \in Without /\ worker = [at |-> worker.at]
  \/ /\ worker.at = "hash" /\ worker.path \in Paths
     /\ worker = [at |-> "hash", path |-> worker.path, stamp |-> worker.stamp]
  \/ worker.at = "finished"
  \/ /\ worker.at \in With /\ worker.path \in Paths /\ worker.hash \in Hashes(worker.path)
     /\ worker = [at |-> worker.at, path |-> worker.path, stamp |-> worker.stamp,
                  hash |-> worker.hash, wave |-> worker.wave]
     /\ worker.at \in {"showing", "publishing"} => IsShown(worker.wave, worker.path)
     /\ worker.at = "writing" => IsMade(worker.wave, worker.path)

WaveInv == Files /\ Cached /\ Remembered /\ Asked /\ Topic /\ Working

(* A content is known by the hashes of its own path.                       *)
LEMMA OwnIsKnown ==
  ASSUME NEW p \in Paths, NEW hash \in Hashes(p), NEW content \in ContentsOf(p)
  PROVE  Known(hash, content) /\ IsOf(content, p)
BY DEF Known, IsOf

LEMMA ThereIsOwn ==
  ASSUME Files, NEW p \in Paths
  PROVE  Content(p) \in ContentsOf(p) /\ Content(p) \in AllContents
<1>1. Contents[p] \in Seq(AllContents) /\ file[p] \in DOMAIN Contents[p]
  BY WaveformsAssumption DEF Files
<1>2. PICK s, i : s = Contents[p] /\ i = file[p]
  OBVIOUS
<1>3. s[i] \in AllContents
  BY <1>1, <1>2
<1>4. QED
  BY <1>1, <1>2, <1>3 DEF Content, ContentsOf

LEMMA HashesAre ==
  ASSUME NEW p \in Paths
  PROVE  Hashes(p) \subseteq AllContents
<1>1. \A i \in DOMAIN Contents[p] : Contents[p][i] \in AllContents
  <2>1. PICK s : s = Contents[p]
    OBVIOUS
  <2>2. s \in Seq(AllContents)
    BY <2>1, WaveformsAssumption
  <2>3. \A i \in DOMAIN s : s[i] \in AllContents
    BY <2>2
  <2>4. QED
    BY <2>1, <2>3
<1>2. Stored[p] \in AllContents \cup {Absent}
  BY WaveformsAssumption
<1>3. QED
  BY <1>1, <1>2 DEF Hashes, ContentsOf

LEMMA InitWaveforms == WaveformsInit => WaveInv
<1>1. SUFFICES ASSUME WaveformsInit PROVE WaveInv
  OBVIOUS
<1>2. Files
  <2>1. \A p \in Paths : 1 \in DOMAIN Contents[p]
    <3>1. SUFFICES ASSUME NEW p \in Paths PROVE 1 \in DOMAIN Contents[p]
      OBVIOUS
    <3>2. PICK s : s = Contents[p]
      OBVIOUS
    <3>3. s \in Seq(AllContents) /\ s # <<>>
      BY <3>2, WaveformsAssumption
    <3>4. QED
      BY <3>2, <3>3
  <2>2. QED
    BY <1>1, <2>1 DEF WaveformsInit, Files
<1>3. Cached /\ Remembered
  BY <1>1 DEF WaveformsInit, Cached, Remembered
<1>4. Asked /\ Topic
  BY <1>1 DEF WaveformsInit, Asked, Topic, ShownIsOfTheLoaded, NoJob
<1>5. Working
  BY <1>1 DEF WaveformsInit, Working, Without
<1>6. QED
  BY <1>2, <1>3, <1>4, <1>5 DEF WaveInv

(* Steps of the disk and of the playback worker.                           *)
LEMMA ReplaceWave ==
  ASSUME WaveInv, NEW p \in Paths, Replace(p)
  PROVE  WaveInv'
<1>1. Files'
  <2>1. Len(Contents[p]) \in Nat /\ DOMAIN Contents[p] = 1..Len(Contents[p])
    BY WaveformsAssumption
  <2>2. file[p] + 1 \in DOMAIN Contents[p]
    BY <2>1 DEF WaveInv, Files, Replace
  <2>3. QED
    BY <2>2 DEF WaveInv, Files, Replace
<1>2. UNCHANGED <<cache, memory, jobs, current, worker, caller>>
  BY DEF Replace
<1>3. QED
  BY <1>1, <1>2
     DEF WaveInv, Cached, Remembered, Asked, Topic, Working, ShownIsOfTheLoaded

LEMMA LoadedWave ==
  ASSUME WaveInv, NEW p \in Paths, Loaded(p)
  PROVE  WaveInv'
<1>1. Asked'
  BY DEF WaveInv, Loaded, Asked
<1>2. Topic'
  <2>1. PICK n : n = current.playback + 1
    OBVIOUS
  <2>2. PICK v : v = IF IsReady(p) THEN [playback |-> n, wave |-> memory[p].wave] ELSE Absent
    OBVIOUS
  <2>3. current' = [playback |-> n, path |-> p, value |-> v, revision |-> current.revision + 1]
    BY <2>1, <2>2 DEF Loaded, Updated
  <2>4. v # Absent => v.playback = n /\ IsShown(v.wave, p)
    <3>1. SUFFICES ASSUME v # Absent PROVE v.playback = n /\ IsShown(v.wave, p)
      OBVIOUS
    <3>2. v = [playback |-> n, wave |-> memory[p].wave] /\ p \in DOMAIN memory
      BY <2>2, <3>1 DEF IsReady
    <3>3. IsShown(memory[p].wave, p)
      BY <3>2 DEF WaveInv, Remembered
    <3>4. v.wave = memory[p].wave /\ v.playback = n
      BY <3>2
    <3>5. QED
      BY <3>3, <3>4
  <2>5. QED
    BY <2>3, <2>4 DEF Topic, ShownIsOfTheLoaded, IsShown
<1>3. UNCHANGED <<file, cache, memory, worker>>
  BY DEF Loaded
<1>4. QED
  BY <1>1, <1>2, <1>3 DEF WaveInv, Files, Cached, Remembered, Working

(* What the playback worker asks for leaves the rest alone.                *)
LEMMA CallsWave ==
  ASSUME WaveInv, Asked', UNCHANGED <<file, cache, memory, current, worker>>
  PROVE  WaveInv'
BY DEF WaveInv, Files, Cached, Remembered, Topic, ShownIsOfTheLoaded, Working

LEMMA PlaybackWave ==
  ASSUME WaveInv, Playback \/ Calls
  PROVE  WaveInv'
<1>1. ASSUME Request PROVE WaveInv'
  <2>1. caller.path \in Paths /\ caller = [at |-> caller.at, path |-> caller.path]
    BY <1>1 DEF WaveInv, Asked, Request
  <2>2. caller' = [at |-> "announcing", path |-> caller.path]
    BY <1>1, <2>1 DEF Request
  <2>3. jobs' = [running |-> jobs'.running, pending |-> jobs'.pending, closed |-> jobs'.closed,
                 failed |-> jobs'.failed]
        /\ jobs'.pending \in Paths \cup {Absent}
    BY <1>1, <2>1 DEF WaveInv, Asked, Request, Requested
  <2>4. QED
    BY <1>1, <2>1, <2>2, <2>3, CallsWave DEF Request, Asked
<1>2. ASSUME Announce PROVE WaveInv'
  BY <1>2, CallsWave DEF Announce, WaveInv, Asked
<1>3. ASSUME RequestAhead PROVE WaveInv'
  <2>1. caller.path \in Paths
    BY <1>3 DEF WaveInv, Asked, RequestAhead
  <2>2. Asked'
    BY <1>3, <2>1 DEF WaveInv, Asked, RequestAhead
  <2>3. QED
    BY <1>3, <2>2, CallsWave DEF RequestAhead
<1>4. ASSUME NEW p \in Paths, Upcoming(p) PROVE WaveInv'
  BY <1>4, CallsWave DEF Upcoming, WaveInv, Asked
<1>5. ASSUME Close PROVE WaveInv'
  BY <1>5, CallsWave DEF Close, WaveInv, Asked
<1>6. QED
  BY <1>1, <1>2, <1>3, <1>4, <1>5, LoadedWave DEF Playback, Calls

(* Steps of the thread, by the part each of them may disturb.              *)
LEMMA WorkerWave ==
  ASSUME WaveInv, Working', Cached', UNCHANGED <<file, memory, current, caller>>,
         UNCHANGED jobs \/ Asked'
  PROVE  WaveInv'
<1>1. Asked'
  BY DEF WaveInv, Asked
<1>2. QED
  BY <1>1 DEF WaveInv, Files, Remembered, Topic, ShownIsOfTheLoaded

LEMMA PurgeWave ==
  ASSUME WaveInv, Purge
  PROVE  WaveInv'
<1>1. Working' /\ UNCHANGED <<file, memory, jobs, current, caller>>
  BY DEF Purge, Working, Without
<1>2. Cached'
  <2>1. \A c \in AllContents : cache[c] = Absent \/ IsKept(c, cache[c]) \/ cache[c] = Stale
    BY DEF WaveInv, Cached
  <2>2. \A c \in AllContents : cache'[c] = IF cache[c] = Stale THEN Absent ELSE cache[c]
    BY DEF Purge
  <2>3. QED
    BY <2>1, <2>2 DEF Purge, Cached
<1>3. QED
  BY <1>1, <1>2, WorkerWave

LEMMA NextJobWave ==
  ASSUME WaveInv, NextJob
  PROVE  WaveInv'
<1>1. worker = [at |-> "idle"]
  BY DEF WaveInv, Working, With, NextJob
<1>2. Cached'
  BY <1>1 DEF WaveInv, Cached, NextJob
<1>3. CASE jobs.closed
  BY <1>1, <1>2, <1>3, WorkerWave DEF NextJob, Go, Working, Without
<1>4. CASE ~jobs.closed
  <2>1. jobs.pending \in Paths
    BY <1>4 DEF NextJob, WaveInv, Asked
  <2>2. worker' = [at |-> "hash", path |-> jobs.pending, stamp |-> file[jobs.pending]]
    BY <1>4 DEF NextJob
  <2>3. Working'
    BY <2>1, <2>2 DEF Working
  <2>4. Asked'
    BY <1>4 DEF NextJob, WaveInv, Asked
  <2>5. QED
    BY <1>2, <2>3, <2>4, WorkerWave DEF NextJob
<1>5. QED
  BY <1>3, <1>4

(* With a hash, the thread leaves what is cached as it is.                 *)
LEMMA CachedStays ==
  ASSUME WaveInv, worker.at # "purging", UNCHANGED cache
  PROVE  Cached'
BY DEF WaveInv, Cached

(* A job that is given up leaves what was asked for as it is.              *)
LEMMA GivesUpAsked ==
  ASSUME WaveInv, GiveUp, UNCHANGED caller
  PROVE  Asked'
<1>1. jobs = [running |-> jobs.running, pending |-> jobs.pending, closed |-> jobs.closed,
              failed |-> jobs.failed]
  BY DEF WaveInv, Asked
<1>2. PICK failed : failed = jobs.failed \cup {worker.path}
  OBVIOUS
<1>3. jobs' = [running |-> jobs.running, pending |-> jobs.pending, closed |-> jobs.closed,
               failed |-> failed]
  BY <1>1, <1>2 DEF GiveUp
<1>4. QED
  BY <1>3 DEF WaveInv, Asked

LEMMA FindHashWave ==
  ASSUME WaveInv, FindHash
  PROVE  WaveInv'
<1>1. worker.path \in Paths /\ worker.at = "hash"
  BY DEF WaveInv, Working, Without, With, FindHash
<1>2. PICK p, h : /\ p = worker.path
                  /\ h = IF Stored[p] # Absent THEN Stored[p] ELSE Content(p)
  OBVIOUS
<1>3. h \in Hashes(p)
  BY <1>1, <1>2, ThereIsOwn DEF WaveInv, Hashes
<1>4. Working'
  <2>1. CASE worker' = [at |-> "reading", path |-> p, stamp |-> worker.stamp, hash |-> h,
                        wave |-> Absent]
    BY <1>1, <1>2, <1>3, <2>1 DEF Working, With
  <2>2. CASE GiveUp
    <3>1. worker = [at |-> worker.at, path |-> worker.path, stamp |-> worker.stamp]
      BY <1>1 DEF WaveInv, Working, Without, With
    <3>2. worker' = [at |-> "finished", path |-> p, stamp |-> worker.stamp]
      BY <1>2, <2>2, <3>1 DEF GiveUp, Go
    <3>3. QED
      BY <3>2 DEF Working
  <2>3. QED
    BY <1>2, <2>1, <2>2 DEF FindHash
<1>5. Cached'
  BY <1>1, CachedStays DEF FindHash
<1>6. UNCHANGED jobs \/ Asked'
  <2>1. CASE UNCHANGED jobs
    BY <2>1
  <2>2. CASE GiveUp
    BY <2>2, GivesUpAsked DEF FindHash
  <2>3. QED
    BY <2>1, <2>2 DEF FindHash
<1>7. QED
  BY <1>4, <1>5, <1>6, WorkerWave DEF FindHash

(* The thread with a hash goes on to a place, with a waveform or the one   *)
(* it has.                                                                 *)
LEMMA GoesOnWave ==
  ASSUME WaveInv, worker.at \in With, NEW at \in With, NEW wave,
         worker' = [worker EXCEPT !.at = at, !.wave = wave],
         at \in {"showing", "publishing"} => IsShown(wave, worker.path),
         at = "writing" => IsMade(wave, worker.path)
  PROVE  Working'
<1>1. /\ worker.path \in Paths /\ worker.hash \in Hashes(worker.path)
      /\ worker = [at |-> worker.at, path |-> worker.path, stamp |-> worker.stamp,
                   hash |-> worker.hash, wave |-> worker.wave]
  BY DEF WaveInv, Working, Without, With
<1>2. worker' = [at |-> at, path |-> worker.path, stamp |-> worker.stamp,
                 hash |-> worker.hash, wave |-> wave]
  BY <1>1
<1>3. QED
  BY <1>1, <1>2 DEF Working

LEMMA StaysWave ==
  ASSUME WaveInv, worker.at \in With, NEW at \in With \cup {"finished"},
         worker' = [worker EXCEPT !.at = at],
         at \in {"showing", "publishing"} => IsShown(worker.wave, worker.path),
         at # "writing"
  PROVE  Working'
<1>1. worker = [at |-> worker.at, path |-> worker.path, stamp |-> worker.stamp,
                hash |-> worker.hash, wave |-> worker.wave]
  BY DEF WaveInv, Working, Without, With
<1>2. worker' = [worker EXCEPT !.at = at, !.wave = worker.wave]
  BY <1>1
<1>3. CASE at \in With
  BY <1>2, <1>3, GoesOnWave
<1>4. CASE at = "finished"
  <2>1. worker'.at = "finished"
    BY <1>1, <1>4
  <2>2. QED
    BY <2>1 DEF Working
<1>5. QED
  BY <1>3, <1>4

LEMMA ReadCacheWave ==
  ASSUME WaveInv, ReadCache
  PROVE  WaveInv'
<1>1. worker.at \in With /\ worker.path \in Paths /\ worker.hash \in Hashes(worker.path)
  BY DEF WaveInv, Working, Without, With, ReadCache
<1>2. Working'
  <2>1. CASE cache[worker.hash] = Absent
    BY <1>1, <2>1, StaysWave DEF ReadCache, With
  <2>2. CASE cache[worker.hash] # Absent
    <3>1. worker.hash \in AllContents
      BY <1>1, HashesAre
    <3>2. IsKept(worker.hash, cache[worker.hash])
      BY <2>2, <3>1 DEF WaveInv, Cached, ReadCache
    <3>3. IsShown(cache[worker.hash], worker.path)
      BY <1>1, <3>2 DEF IsOf, IsKept, IsShown
    <3>4. PICK wave : wave = cache[worker.hash]
      OBVIOUS
    <3>5. worker' = [worker EXCEPT !.at = "publishing", !.wave = wave]
      BY <2>2, <3>4 DEF ReadCache
    <3>6. QED
      BY <1>1, <3>3, <3>4, <3>5, GoesOnWave DEF With
  <2>3. QED
    BY <2>1, <2>2
<1>3. QED
  BY <1>2, CachedStays, WorkerWave DEF ReadCache

LEMMA SampleWave ==
  ASSUME WaveInv, SampleFile
  PROVE  WaveInv'
<1>1. worker.at \in With /\ worker.path \in Paths /\ worker.at # "purging"
  BY DEF WaveInv, Working, Without, With, SampleFile
<1>2. PICK content, wave :
        /\ content = Content(worker.path)
        /\ wave = Waveform(content, FALSE, Sampled(Counted[content], Stated[content]))
  OBVIOUS
<1>3. IsShown(wave, worker.path)
  <2>1. content \in ContentsOf(worker.path)
    BY <1>1, <1>2, ThereIsOwn DEF WaveInv
  <2>2. wave.of = content /\ wave.exact = FALSE
    BY <1>2 DEF Waveform
  <2>3. content \in Hashes(worker.path)
    BY <2>1 DEF Hashes
  <2>4. QED
    BY <1>1, <2>1, <2>2, <2>3, OwnIsKnown DEF IsShown, Whole
<1>4. Working'
  <2>1. CASE worker' = [worker EXCEPT !.at = "showing", !.wave = wave]
    BY <1>1, <1>3, <2>1, GoesOnWave DEF With
  <2>2. CASE worker' = [worker EXCEPT !.at = "analyzing"]
    BY <1>1, <2>2, StaysWave DEF With
  <2>3. QED
    BY <1>2, <2>1, <2>2 DEF SampleFile, Go
<1>5. QED
  BY <1>1, <1>4, CachedStays, WorkerWave DEF SampleFile

LEMMA AnalyzeWave ==
  ASSUME WaveInv, AnalyzeFile
  PROVE  WaveInv'
<1>1. worker.at \in With /\ worker.path \in Paths /\ worker.at # "purging"
  BY DEF WaveInv, Working, Without, With, AnalyzeFile
<1>2. PICK content : content = Content(worker.path)
  OBVIOUS
<1>3. content \in ContentsOf(worker.path) /\ content \in AllContents
  BY <1>1, <1>2, ThereIsOwn DEF WaveInv
<1>4. Working'
  <2>1. ASSUME NEW threads \in Threads, NEW wave, Counted[content] > 0,
               wave = Waveform(content, TRUE,
                               Analyze(Counted[content], Stated[content], threads)),
               worker' = [worker EXCEPT !.at = "writing", !.wave = wave]
        PROVE  Working'
    <3>1. /\ wave.of = content /\ wave.exact = TRUE
          /\ wave.buckets = Analyze(Counted[content], Stated[content], threads)
      BY <2>1 DEF Waveform
    <3>2. IsWhole(wave.buckets, Counted[content])
      <4>1. PICK counted, stated : counted = Counted[content] /\ stated = Stated[content]
        OBVIOUS
      <4>2. counted \in Nat \ {0} /\ stated \in Nat /\ threads \in Nat
        BY <1>3, <2>1, <4>1, WaveformsAssumption
      <4>3. IsWhole(Analyze(counted, stated, threads), counted)
        BY <4>2, AnalyzedIsWhole
      <4>4. QED
        BY <3>1, <4>1, <4>3
    <3>3. IsMade(wave, worker.path)
      BY <1>3, <3>1, <3>2 DEF IsMade, Whole
    <3>4. QED
      BY <1>1, <2>1, <3>3, GoesOnWave DEF With
  <2>2. CASE worker' = [worker EXCEPT !.at = "finished"]
    BY <1>1, <2>2, StaysWave DEF With
  <2>3. QED
    BY <1>2, <2>1, <2>2 DEF AnalyzeFile, GiveUp, Go
<1>5. UNCHANGED jobs \/ Asked'
  BY GivesUpAsked DEF AnalyzeFile
<1>6. QED
  BY <1>1, <1>4, <1>5, CachedStays, WorkerWave DEF AnalyzeFile

LEMMA WriteCacheWave ==
  ASSUME WaveInv, WriteCache
  PROVE  WaveInv'
<1>1. /\ worker.at \in With /\ worker.path \in Paths /\ worker.hash \in Hashes(worker.path)
      /\ IsMade(worker.wave, worker.path)
  BY DEF WaveInv, Working, Without, With, WriteCache
<1>2. IsKept(worker.hash, worker.wave) /\ IsShown(worker.wave, worker.path)
  BY <1>1, OwnIsKnown DEF IsMade, IsKept, IsShown
<1>3. Working'
  BY <1>1, <1>2, StaysWave DEF WriteCache, Go, With
<1>4. Cached'
  <2>1. CASE UNCHANGED cache
    BY <2>1, CachedStays DEF WriteCache
  <2>2. CASE cache' = [cache EXCEPT ![worker.hash] = worker.wave]
    BY <1>2, <2>2 DEF WaveInv, Cached, WriteCache
  <2>3. QED
    BY <2>1, <2>2 DEF WriteCache
<1>5. QED
  BY <1>3, <1>4, WorkerWave DEF WriteCache

LEMMA PublishWave ==
  ASSUME WaveInv, Publish
  PROVE  WaveInv'
<1>1. /\ worker.at \in With /\ worker.path \in Paths /\ worker.at # "purging"
      /\ IsShown(worker.wave, worker.path)
  BY DEF WaveInv, Working, Without, With, Publish
<1>2. Working'
  <2>1. PICK at : at = IF Shows(worker.path)
                       THEN IF worker.at = "showing" THEN "telling" ELSE "told"
                       ELSE IF worker.at = "showing" THEN "analyzing" ELSE "finished"
    OBVIOUS
  <2>2. at \in With \cup {"finished"} /\ at \notin {"showing", "publishing", "writing"}
    BY <2>1 DEF With
  <2>3. worker' = [worker EXCEPT !.at = at]
    BY <2>1 DEF Publish, Go
  <2>4. QED
    BY <1>1, <2>2, <2>3, StaysWave
<1>3. Remembered'
  <2>1. PICK entry : entry = [stamp |-> worker.stamp, wave |-> worker.wave]
    OBVIOUS
  <2>2. PICK kept : /\ kept \subseteq DOMAIN memory
                    /\ memory' = [p \in kept \cup {worker.path} |->
                                    IF p = worker.path THEN entry ELSE memory[p]]
    BY <2>1 DEF Publish, Remember
  <2>3. DOMAIN memory \subseteq Paths /\ \A p \in DOMAIN memory : IsShown(memory[p].wave, p)
    BY DEF WaveInv, Remembered
  <2>4. \A p \in DOMAIN memory' : IsShown(memory'[p].wave, p)
    BY <1>1, <2>1, <2>2, <2>3
  <2>5. QED
    BY <1>1, <2>2, <2>3, <2>4 DEF Remembered
<1>4. Topic'
  <2>1. CASE Shows(worker.path)
    <3>1. current.path = worker.path
      BY <2>1 DEF Shows
    <3>2. PICK v : v = [playback |-> current.playback, wave |-> worker.wave]
      OBVIOUS
    <3>3. current' = [playback |-> current.playback, path |-> worker.path, value |-> v,
                      revision |-> current.revision + 1]
      BY <2>1, <3>1, <3>2 DEF Publish, Updated
    <3>4. v.playback = current.playback /\ IsShown(v.wave, worker.path)
      BY <1>1, <3>2
    <3>5. QED
      BY <1>1, <3>3, <3>4 DEF Topic, ShownIsOfTheLoaded, IsShown
  <2>2. CASE ~Shows(worker.path)
    BY <2>2 DEF Publish, WaveInv, Topic, ShownIsOfTheLoaded
  <2>3. QED
    BY <2>1, <2>2
<1>5. Cached' /\ Files' /\ Asked'
  BY <1>1, CachedStays DEF Publish, WaveInv, Files, Asked
<1>6. QED
  BY <1>2, <1>3, <1>4, <1>5 DEF WaveInv

LEMMA TellWave ==
  ASSUME WaveInv, Tell
  PROVE  WaveInv'
<1>1. worker.at \in With /\ worker.at # "purging"
  BY DEF With, Tell
<1>2. Working'
  <2>1. PICK at : at = IF worker.at = "telling" THEN "analyzing" ELSE "finished"
    OBVIOUS
  <2>2. at \in With \cup {"finished"} /\ at \notin {"showing", "publishing", "writing"}
    BY <2>1 DEF With
  <2>3. worker' = [worker EXCEPT !.at = at]
    BY <2>1 DEF Tell, Go
  <2>4. QED
    BY <1>1, <2>2, <2>3, StaysWave
<1>3. QED
  BY <1>1, <1>2, CachedStays, WorkerWave DEF Tell

LEMMA FinishJobWave ==
  ASSUME WaveInv, FinishJob
  PROVE  WaveInv'
<1>1. Working'
  BY DEF FinishJob, Working, Without
<1>2. Asked'
  BY DEF WaveInv, Asked, FinishJob
<1>3. QED
  BY <1>1, <1>2, CachedStays, WorkerWave DEF FinishJob

LEMMA NextWave == WaveInv /\ [WaveformsNext]_waveformsVars => WaveInv'
<1>1. SUFFICES ASSUME WaveInv, [WaveformsNext]_waveformsVars PROVE WaveInv'
  OBVIOUS
<1>2. CASE Playback \/ Calls
  BY <1>1, <1>2, PlaybackWave
<1>3. CASE Background
  BY <1>1, <1>3, PurgeWave, NextJobWave, FindHashWave, ReadCacheWave, SampleWave, AnalyzeWave,
     WriteCacheWave, PublishWave, TellWave, FinishJobWave DEF Background
<1>4. CASE Disk
  BY <1>1, <1>4, ReplaceWave DEF Disk
<1>5. CASE UNCHANGED waveformsVars
  BY <1>1, <1>5 DEF waveformsVars, WaveInv, Files, Cached, Remembered, Asked, Topic, Working,
              ShownIsOfTheLoaded
<1>6. QED
  BY <1>1, <1>2, <1>3, <1>4, <1>5 DEF WaveformsNext

(* The invariant of the thread and the topic holds in every state.         *)
THEOREM WavesAlways == WaveformsSpec => []WaveInv
<1>1. QED
  BY InitWaveforms, NextWave, PTL DEF WaveformsSpec

(* Whatever is loaded, replaced, cached or cancelled while the thread      *)
(* works, the page is shown a waveform of the playback it has, of a file   *)
(* that shares a hash with the one loaded.                                 *)
THEOREM ShownKeeps == WaveformsSpec => []ShownIsOfTheLoaded
<1>1. WaveInv => ShownIsOfTheLoaded
  BY DEF WaveInv, Topic
<1>2. QED
  BY <1>1, WavesAlways, PTL

(* Whatever a file states of its length, on however many threads it is     *)
(* analyzed, what is kept or shown as exact has each of its chunks once    *)
(* and in order, in buckets of even length; the disk holds nothing else.   *)
THEOREM ExactKeepsWhole == WaveformsSpec => []ExactIsWhole
<1>1. WaveInv => ExactIsWhole
  BY DEF WaveInv, Cached, Remembered, Topic, IsKept, IsShown, ExactIsWhole
<1>2. QED
  BY <1>1, WavesAlways, PTL
=============================================================================
