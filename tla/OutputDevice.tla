---------------------------- MODULE OutputDevice ----------------------------
(***************************************************************************)
(* How a stream is opened on a device and what it does to the frames of a  *)
(* file on their way there: audio/output.rs (prepare_for_spec) and         *)
(* audio/output_processing.rs.                                             *)
(*                                                                         *)
(* A spec is a rate and a number of channels.  Of samples only their number*)
(* is kept.  The resampler is the library's (rubato): it turns a chunk of  *)
(* frames into a chunk of frames, after a delay.                           *)
(***************************************************************************)
EXTENDS Naturals, Sequences, FiniteSets, SequencesExt, FiniteSetsExt

CONSTANT Resampler   \* per source and device rate: its chunks and its delay

RankedFormats == <<"F32", "F64", "I32", "I24", "I16", "I8",
                   "U32", "U24", "U16", "U8", "I64", "U64">>
Playable == ToSet(RankedFormats)
Rank(format) == CHOOSE i \in DOMAIN RankedFormats : RankedFormats[i] = format

(* A range of configurations offers one format at the rates of an interval.*)
Fitting(device, spec) ==
  {r \in device.ranges : /\ r.channels = spec.channels
                         /\ r.format \in Playable
                         /\ spec.rate \in r.rates}

Converts(from, to) ==
  \/ from = to
  \/ to \in {1, 2} /\ from \in {1, 2, 3, 4, 5, 6, 8}

Opened(source, device, format) == [error |-> "none", source |-> source, device |-> device,
                                   format |-> format]
Refused(error) == [error |-> error]

(* The stream a range of the device gives; building it may fail.           *)
Built(source, spec, format, outcome) ==
  IF outcome = "ok" THEN Opened(source, spec, format) ELSE Refused(outcome)

(* The spec of the file itself, in the format that loses least.            *)
Native(device, spec) ==
  LET fitting == Fitting(device, spec)
      best == CHOOSE r \in fitting : \A s \in fitting : Rank(r.format) <= Rank(s.format)
  IN IF fitting = {} THEN Refused("Unsupported")
     ELSE Built(spec, spec, best.format, device.build)

(* What the device mixes in, when the file can be converted to it.         *)
Fallback(device, spec) ==
  LET default == device.default
  IN IF default.format \notin Playable \/ ~Converts(spec.channels, default.channels)
     THEN Refused("Unsupported")
     ELSE Built(spec, [rate |-> default.rate, channels |-> default.channels], default.format,
                IF device.buildDefault = "Unsupported" THEN "BuildFailed"
                ELSE device.buildDefault)

Prepare(device, spec) ==
  LET native == Native(device, spec)
  IN IF device.gone THEN Refused("DeviceUnavailable")
     ELSE IF native.error = "Unsupported" THEN Fallback(device, spec) ELSE native

(* The device a selection names on a host, and the stream it gives.        *)
Resolve(host, selection) ==
  IF selection = "SystemDefault"
  THEN IF host.default = "" THEN "NoOutputDevice" ELSE host.default
  ELSE IF selection \in DOMAIN host.devices THEN selection ELSE "DeviceUnavailable"

Open(host, selection, spec) ==
  LET name == Resolve(host, selection)
  IN IF name \in DOMAIN host.devices /\ host.devices[name].output
     THEN Prepare(host.devices[name], spec)
     ELSE Refused(IF name = "NoOutputDevice" THEN name ELSE "DeviceUnavailable")
-----------------------------------------------------------------------------
(* The frames a file of n frames becomes.                                  *)

CeilDiv(a, b) == (a + b - 1) \div b
Expected(stream, n) == CeilDiv(n * stream.device.rate, stream.source.rate)

(* A chunk leaves the resampler: its first frames are the delay.           *)
Process(state, chunks) ==
  LET skipped == Min({state.delay, chunks.output})
  IN [input |-> 0, delay |-> state.delay - skipped,
      emitted |-> state.emitted + chunks.output - skipped]

PushFrame(state, chunks) ==
  LET filled == [state EXCEPT !.input = @ + 1]
  IN IF filled.input = chunks.input THEN Process(filled, chunks) ELSE filled

(* At the end of the file: what is left over, then silence, until all the  *)
(* frames there should be are out; of these, what is too much is cut off.  *)
Flush(state, chunks, expected) ==
  LET Cut(s) == [s EXCEPT !.emitted = Max({state.emitted, Min({@, expected})})]
      first == Cut(IF state.input > 0 THEN Process(state, chunks) ELSE state)
      Pad[k \in 0..(chunks.delay + expected)] ==
        IF k = 0 THEN first
        ELSE IF Pad[k - 1].emitted < expected THEN Cut(Process(Pad[k - 1], chunks))
        ELSE Pad[k - 1]
  IN Pad[chunks.delay + expected]

Resampled(chunks, n, expected) ==
  LET start == [input |-> 0, delay |-> chunks.delay, emitted |-> 0]
      Pushed[k \in 0..n] == IF k = 0 THEN start ELSE PushFrame(Pushed[k - 1], chunks)
  IN IF n = 0 THEN 0 ELSE Flush(Pushed[n], chunks, expected).emitted

FramesOf(stream, n) ==
  IF stream.device.rate = stream.source.rate THEN n
  ELSE Resampled(Resampler[stream.source.rate, stream.device.rate], n, Expected(stream, n))

(* A seek decodes from some frames before its target, at the start of a    *)
(* chunk, so that the resampler has settled; the frames of these are       *)
(* discarded.  Positions are rounded down.                                 *)
Rescaled(stream, n) == (n * stream.device.rate) \div stream.source.rate

SeekStart(stream, target) ==
  IF stream.device.rate = stream.source.rate THEN target
  ELSE LET chunks == Resampler[stream.source.rate, stream.device.rate]
           warmup == CeilDiv(chunks.delay * stream.source.rate, stream.device.rate)
                     + 4 * chunks.input
           first == IF warmup < target THEN target - warmup ELSE 0
       IN first - (first % chunks.input)

FramesFrom(stream, n, target) ==
  LET start == SeekStart(stream, target)
      out == FramesOf(stream, n - start)
      discarded == Rescaled(stream, target - start)
  IN IF discarded < out THEN out - discarded ELSE 0
=============================================================================
