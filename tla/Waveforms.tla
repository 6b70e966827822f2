------------------------------ MODULE Waveforms ------------------------------
(***************************************************************************)
(* The Waveform topic and the thread behind it: audio/waveform.rs.         *)
(*                                                                         *)
(* The playback worker loads tracks and names the one that plays next; one *)
(* background thread takes the latest request, looks into its cache on     *)
(* disk, shows an approximation of a long file and then what it analyzed.  *)
(* Locks are held for one step; between two steps anything may happen, a   *)
(* file may be replaced by another.  A content stands for its hash; what   *)
(* the library has stored may be the hash of what was there before.        *)
(***************************************************************************)
EXTENDS WaveformAnalysis, FiniteSets

CONSTANTS Paths, Contents,         \* files, and what may be in each, in order
          Counted, Stated,         \* per content
          Undecodable,             \* contents no decoder reads
          Stored,                  \* per path, the hash in the library, or Absent
          Threads,                 \* numbers of threads a machine may allow
          OldCache,                \* hashes cached under an old format
          MemoryEntries,
          MaxLoads,                \* bound
          Stale, Absent

AllContents == DOMAIN Counted

ASSUME WaveformsAssumption ==
  /\ Counted \in [AllContents -> Nat] /\ Stated \in [AllContents -> Nat]
  /\ Contents \in [Paths -> Seq(AllContents)] /\ \A p \in Paths : Contents[p] # <<>>
  /\ Stored \in [Paths -> AllContents \cup {Absent}]
  /\ WaveformBuckets \in Nat \ {0} /\ MinSegmentChunks \in Nat \ {0}
  /\ MemoryEntries \in Nat \ {0} /\ Threads \subseteq Nat \ {0}

VARIABLES
  file,        \* which content is at each path
  cache,       \* on disk: per hash, a waveform, Stale of an old format, or Absent
  memory,      \* ready waveforms by path, each with its stamp
  jobs,        \* the job that runs, a newer request, and whether all is over;
               \* history: the files whose job ended because a read failed
  current,     \* the loaded playback, its file, and the topic
  worker,      \* the thread's progress with its job
  caller,      \* the playback worker's
  announced    \* the revision of the topic that was announced last

waveformsVars == <<file, cache, memory, jobs, current, worker, caller, announced>>

Content(path) == Contents[path][file[path]]
Waveform(content, exact, buckets) == [of |-> content, exact |-> exact, buckets |-> buckets]
NoJob == [path |-> Absent, cancelled |-> FALSE]

WaveformsInit ==
  /\ file = [p \in Paths |-> 1]
  /\ cache = [c \in AllContents |-> IF c \in OldCache THEN Stale ELSE Absent]
  /\ memory = [p \in {} |-> Absent]
  /\ jobs = [running |-> NoJob, pending |-> Absent, closed |-> FALSE, failed |-> {}]
  /\ current = [playback |-> 0, path |-> Absent, value |-> Absent, revision |-> 0]
  /\ worker = [at |-> "purging"]
  /\ caller = [at |-> "free"]
  /\ announced = 0

(* Another file takes the place of one.                                    *)
Replace(path) ==
  /\ file[path] < Len(Contents[path])
  /\ file' = [file EXCEPT ![path] = @ + 1]
  /\ UNCHANGED <<cache, memory, jobs, current, worker, caller, announced>>
-----------------------------------------------------------------------------
(* The playback worker.                                                    *)

IsReady(path) == path \in DOMAIN memory /\ memory[path].stamp = file[path]
Updated(path, value, playback) ==
  [playback |-> playback, path |-> path, value |-> value, revision |-> current.revision + 1]

(* A track is loaded: what is ready of it is shown.                        *)
Loaded(path) ==
  /\ caller.at = "free" /\ ~jobs.closed /\ current.playback < MaxLoads
  /\ LET playback == current.playback + 1
         value == IF IsReady(path) THEN [playback |-> playback, wave |-> memory[path].wave]
                  ELSE Absent
     IN current' = Updated(path, value, playback)
  /\ caller' = [at |-> IF IsReady(path) THEN "announcing" ELSE "requesting", path |-> path]
  /\ UNCHANGED <<file, cache, memory, jobs, worker, announced>>

(* Mutant: a job for the file that was cancelled already will do.          *)
RequestedOfAny(path) ==
  IF jobs.running.path = path
  THEN [jobs EXCEPT !.pending = Absent]
  ELSE [jobs EXCEPT !.pending = path, !.running.cancelled = jobs.running.path # Absent]

(* The latest request wins: the job in flight is cancelled, an older       *)
(* request dropped.                                                        *)
Requested(path) ==
  IF jobs.running.path = path /\ ~jobs.running.cancelled
  THEN [jobs EXCEPT !.pending = Absent]
  ELSE [jobs EXCEPT !.pending = path, !.running.cancelled = jobs.running.path # Absent]

Request ==
  /\ caller.at = "requesting"
  /\ jobs' = Requested(caller.path)
  /\ caller' = [caller EXCEPT !.at = "announcing"]
  /\ UNCHANGED <<file, cache, memory, current, worker, announced>>

Announce ==
  /\ caller.at = "announcing"
  /\ announced' = current.revision
  /\ caller' = [at |-> "free"]
  /\ UNCHANGED <<file, cache, memory, jobs, current, worker>>

(* The track that plays next waits behind everything else.                 *)
Upcoming(path) ==
  /\ caller.at = "free" /\ current.path \notin {Absent, path} /\ ~jobs.closed
  /\ ~IsReady(path)
  /\ caller' = [at |-> "ahead", path |-> path]
  /\ UNCHANGED <<file, cache, memory, jobs, current, worker, announced>>

RequestAhead ==
  /\ caller.at = "ahead"
  /\ LET inFlight == jobs.running.path = caller.path /\ ~jobs.running.cancelled
     IN jobs' = IF inFlight \/ jobs.pending # Absent \/ jobs.closed THEN jobs
                ELSE [jobs EXCEPT !.pending = caller.path]
  /\ caller' = [at |-> "free"]
  /\ UNCHANGED <<file, cache, memory, current, worker, announced>>

(* The application ends: the job is cancelled, and no other is taken.      *)
Close ==
  /\ caller.at = "free" /\ ~jobs.closed
  /\ jobs' = [jobs EXCEPT !.closed = TRUE, !.running.cancelled = jobs.running.path # Absent]
  /\ UNCHANGED <<file, cache, memory, current, worker, caller, announced>>
-----------------------------------------------------------------------------
(* The background thread.                                                  *)

Go(at) == worker' = [worker EXCEPT !.at = at]

(* Files of another format are deleted before anything else.               *)
Purge ==
  /\ worker.at = "purging"
  /\ cache' = [c \in AllContents |-> IF cache[c] = Stale THEN Absent ELSE cache[c]]
  /\ worker' = [at |-> "idle"]
  /\ UNCHANGED <<file, memory, jobs, current, caller, announced>>

NextJob ==
  /\ worker.at = "idle"
  /\ IF jobs.closed THEN Go("ended") /\ UNCHANGED jobs
     ELSE /\ jobs.pending # Absent
          /\ worker' = [at |-> "hash", path |-> jobs.pending, stamp |-> file[jobs.pending]]
          /\ jobs' = [jobs EXCEPT !.pending = Absent,
                                  !.running = [path |-> jobs.pending, cancelled |-> FALSE]]
  /\ UNCHANGED <<file, cache, memory, current, caller, announced>>

(* The file cannot be read now: the job ends, and is not tried again.      *)
GiveUp ==
  /\ jobs' = [jobs EXCEPT !.failed = @ \cup {worker.path}]
  /\ Go("finished")

(* The library's hash, or that of what is there now, if it can be read.    *)
FindHash ==
  /\ worker.at = "hash"
  /\ LET hash == IF Stored[worker.path] # Absent THEN Stored[worker.path]
                 ELSE Content(worker.path)
     IN \/ /\ worker' = [at |-> "reading", path |-> worker.path, stamp |-> worker.stamp,
                         hash |-> hash, wave |-> Absent]
           /\ UNCHANGED jobs
        \/ GiveUp
  /\ UNCHANGED <<file, cache, memory, current, caller, announced>>

ReadCache ==
  /\ worker.at = "reading"
  /\ worker' = IF cache[worker.hash] = Absent THEN [worker EXCEPT !.at = "sampling"]
               ELSE [worker EXCEPT !.at = "publishing", !.wave = cache[worker.hash]]
  /\ UNCHANGED <<file, cache, memory, jobs, current, caller, announced>>

(* An approximation, unless the job is cancelled, the file short, or the   *)
(* time it may take over.                                                  *)
SampleFile ==
  /\ worker.at = "sampling"
  /\ LET content == Content(worker.path)
         wave == Waveform(content, FALSE, Sampled(Counted[content], Stated[content]))
     IN \/ /\ content \notin Undecodable /\ CanSample(Stated[content])
           /\ ~jobs.running.cancelled
           /\ worker' = [worker EXCEPT !.at = "showing", !.wave = wave]
        \/ Go("analyzing")
  /\ UNCHANGED <<file, cache, memory, jobs, current, caller, announced>>

(* The whole file, on one thread or several, if it can be read; a job that *)
(* is cancelled stops unless it was about to end.                          *)
AnalyzeFile ==
  /\ worker.at = "analyzing"
  /\ LET content == Content(worker.path)
     IN \/ /\ content \notin Undecodable /\ Counted[content] > 0
           /\ \E threads \in Threads :
                worker' = [worker EXCEPT !.at = "writing",
                             !.wave = Waveform(content, TRUE,
                                        Analyze(Counted[content], Stated[content], threads))]
           /\ UNCHANGED jobs
        \/ /\ \/ jobs.running.cancelled
              \/ content \in Undecodable
              \/ Counted[content] = 0
           /\ Go("finished") /\ UNCHANGED jobs
        \/ GiveUp
  /\ UNCHANGED <<file, cache, memory, current, caller, announced>>

(* A temporary file is renamed, or nothing is written.                     *)
WriteCache ==
  /\ worker.at = "writing"
  /\ cache' \in {cache, [cache EXCEPT ![worker.hash] = worker.wave]}
  /\ Go("publishing")
  /\ UNCHANGED <<file, memory, jobs, current, caller, announced>>

(* Memory that is full is emptied for a file that is not in it.            *)
Remember(path, entry) ==
  LET kept == IF Cardinality(DOMAIN memory) >= MemoryEntries /\ path \notin DOMAIN memory
              THEN {} ELSE DOMAIN memory
  IN [p \in kept \cup {path} |-> IF p = path THEN entry ELSE memory[p]]

(* Mutant: what is published is shown, whatever is loaded.                 *)
ShowsAny(path) == current.playback # 0

(* Of the loaded file, it is shown at once.                                *)
Shows(path) == current.playback # 0 /\ current.path = path

(* After an approximation the analysis comes, after all else the end.      *)
Publish ==
  /\ worker.at \in {"showing", "publishing"}
  /\ memory' = Remember(worker.path, [stamp |-> worker.stamp, wave |-> worker.wave])
  /\ IF Shows(worker.path)
     THEN /\ current' = Updated(current.path,
                                [playback |-> current.playback, wave |-> worker.wave],
                                current.playback)
          /\ Go(IF worker.at = "showing" THEN "telling" ELSE "told")
     ELSE /\ Go(IF worker.at = "showing" THEN "analyzing" ELSE "finished")
          /\ UNCHANGED current
  /\ UNCHANGED <<file, cache, jobs, caller, announced>>

Tell ==
  /\ worker.at \in {"telling", "told"}
  /\ announced' = current.revision
  /\ Go(IF worker.at = "telling" THEN "analyzing" ELSE "finished")
  /\ UNCHANGED <<file, cache, memory, jobs, current, caller>>

FinishJob ==
  /\ worker.at = "finished"
  /\ jobs' = [jobs EXCEPT !.running = NoJob]
  /\ worker' = [at |-> "idle"]
  /\ UNCHANGED <<file, cache, memory, current, caller, announced>>

Playback ==
  \/ \E p \in Paths : Loaded(p) \/ Upcoming(p)
  \/ Close
Calls == Request \/ Announce \/ RequestAhead
Background ==
  \/ Purge \/ NextJob \/ FindHash \/ ReadCache \/ SampleFile \/ AnalyzeFile
  \/ WriteCache \/ Publish \/ Tell \/ FinishJob
Disk == \E p \in Paths : Replace(p)

WaveformsNext == Playback \/ Calls \/ Background \/ Disk

WaveformsSpec == WaveformsInit /\ [][WaveformsNext]_waveformsVars

(* Both threads run on; nobody has to load a track or replace a file.      *)
FairWaveformsSpec == WaveformsSpec /\ WF_waveformsVars(Calls) /\ WF_waveformsVars(Background)
-----------------------------------------------------------------------------
(* Properties.                                                             *)

(* A waveform that is kept or shown as exact has every chunk of its file   *)
(* once and in order, on however many threads it was made and whatever     *)
(* length the file states, and no approximation is written to the disk.    *)
Whole(wave) == wave.exact => IsWhole(wave.buckets, Counted[wave.of])

ExactIsWhole ==
  /\ \A hash \in AllContents :
       cache[hash] \notin {Absent, Stale} => cache[hash].exact /\ Whole(cache[hash])
  /\ \A path \in DOMAIN memory : Whole(memory[path].wave)
  /\ current.value # Absent => Whole(current.value.wave)

(* What has been at a path, and the hashes a waveform of it is kept under: *)
(* a content may have been at another path that shares one of them.        *)
ContentsOf(path) == {Contents[path][i] : i \in DOMAIN Contents[path]}
Hashes(path) == ContentsOf(path) \cup ({Stored[path]} \ {Absent})
Known(hash, content) ==
  \E path \in Paths : hash \in Hashes(path) /\ content \in ContentsOf(path)
IsOf(content, path) == \E hash \in Hashes(path) : Known(hash, content)

(* The topic never shows the waveform of another playback than the loaded  *)
(* one, or of a file that was never known under a hash of its own.         *)
ShownIsOfTheLoaded ==
  current.value # Absent =>
    /\ current.value.playback = current.playback
    /\ IsOf(current.value.wave.of, current.path)

(* Of a loaded file of which nothing is shown, the exact waveform follows  *)
(* and is announced, unless another file is loaded, this one is replaced,  *)
(* a read of it fails or all ends.  A file that shows an approximation when it is loaded is   *)
(* left out: its analysis may have been cancelled, and is not asked for    *)
(* again.                                                                  *)
ExactFollows ==
  \A p \in Paths :
    current.path = p /\ current.value = Absent ~>
      \/ current.path # p \/ jobs.closed \/ file[p] > 1 \/ p \in jobs.failed
      \/ current.value # Absent /\ current.value.wave.exact /\ announced = current.revision
=============================================================================
