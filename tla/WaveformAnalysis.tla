-------------------------- MODULE WaveformAnalysis --------------------------
(***************************************************************************)
(* How a file is reduced to the buckets of its waveform: the pure part of  *)
(* audio/waveform.rs.  A chunk of the file is its number, a bucket the     *)
(* chunks it was made of; peaks and squares are left out.  What is         *)
(* "counted" of a file are its chunks, what is "stated" those the length   *)
(* in its header promises.                                                 *)
(***************************************************************************)
EXTENDS Naturals, Sequences, SequencesExt, FiniteSetsExt

CONSTANTS WaveformBuckets, MinSegmentChunks, MinSampledChunks

(* Decodes from a chunk on, at most limit chunks, or to the end.           *)
AnalyzeRange(counted, start, limit) ==
  [i \in 1..Min({limit, IF counted < start THEN 0 ELSE counted - start}) |-> start + i]

SegmentCount(stated, threads) == Min({threads, stated \div MinSegmentChunks})

(* Mutant: the last segment ends where the header says.                    *)
SegmentsEven(counted, stated, threads) ==
  LET count == SegmentCount(stated, threads)
      each == stated \div count
  IN [i \in 1..count |-> AnalyzeRange(counted, (i - 1) * each, each)]

(* Each on a thread of its own; only the last runs to the end of the file. *)
Segments(counted, stated, threads) ==
  LET count == SegmentCount(stated, threads)
      each == stated \div count
  IN [i \in 1..count |->
        AnalyzeRange(counted, (i - 1) * each, IF i < count THEN each ELSE counted)]

(* The file can be split, and no segment but the last is short.            *)
Fits(counted, stated, threads) ==
  /\ threads > 1 /\ SegmentCount(stated, threads) > 1
  /\ LET count == SegmentCount(stated, threads)
     IN \A i \in 1..(count - 1) :
          Len(Segments(counted, stated, threads)[i]) = stated \div count

Chunks(counted, stated, threads) ==
  IF Fits(counted, stated, threads) THEN FlattenSeq(Segments(counted, stated, threads))
  ELSE AnalyzeRange(counted, 0, counted)

(* Chunks fall into at most so many buckets.                               *)
Reduce(chunks) ==
  LET count == Min({Len(chunks), WaveformBuckets})
      Begin(bucket) == (bucket * Len(chunks)) \div count
      End(bucket) == Max({((bucket + 1) * Len(chunks)) \div count, Begin(bucket) + 1})
  IN [i \in 1..count |-> SubSeq(chunks, Begin(i - 1) + 1, End(i - 1))]

Analyze(counted, stated, threads) == Reduce(Chunks(counted, stated, threads))

(* The chunk at the middle of each bucket; silence past the end.           *)
CanSample(stated) == stated >= MinSampledChunks

Sampled(counted, stated) ==
  [i \in 1..WaveformBuckets |->
     LET target == ((2 * i - 1) * stated) \div (2 * WaveformBuckets)
     IN AnalyzeRange(counted, target, 1)]

(* What the buckets are to be: every chunk once, in order, and no bucket   *)
(* more than one chunk longer than another.                                *)
IsWhole(buckets, counted) ==
  /\ FlattenSeq(buckets) = [i \in 1..counted |-> i]
  /\ Len(buckets) = Min({counted, WaveformBuckets})
  /\ \A i, j \in DOMAIN buckets : Len(buckets[i]) <= Len(buckets[j]) + 1
=============================================================================
