# Verification of nice-audio-player

TLA+ modules that model the player's Backend where it decides, waits, fails or
restarts, and the parts of the Host and the Renderer it talks to; TLC runs that
check them on small instances; and TLAPS proofs about twelve of their components
for every value of their constants. `PROJECT.json` is the index: the
components, the runs and the properties each one checks, for every definition
the lines of code it translates, for every property a change of the code that
it catches, the hazards of the code, the findings and the theorems.

To run a check: `tlc -config <cfg> <module>`, with the names in the table
below; to check the proofs: `tlapm PipelineProofs.tla`, and so for
`PlaybackQueueProofs`, `QueueCommandsProofs`, `PlaybackWorkerProofs` (some three
minutes), `LibrarySyncProofs`, `ScannerProofs` (some four minutes),
`AudioProofs` (some four minutes) and `StateProofs`.

## The system

Three processes of code act together: the Backend (`src/backend`, Rust), the
Host (`src/src-tauri`, a Tauri shell around it) and the Renderer (`src/src`,
Svelte in a webview).

| Component | State it keeps | Operations | What must be right |
| --- | --- | --- | --- |
| PCM queue (`audio/pcm_queue.rs`) | ring of frames, finished flag, one-slot wake channel | push, wait for room, pop, is_finished | no wake is lost, the end is heard after the last frame |
| Decode thread (`playback/decode_worker.rs`) | converter, prebuffer announced or not, cancellation | decode a packet, write it, announce, end, fail, cancel | a cancel reaches it where it blocks |
| Output stream and callback (`audio/output.rs`) | what the callback plays, two slots written by the worker, position reports, the stream clock | prepare, fill, take the handoff, take the chain, report positions and the end | positions are those of the track shown, ends are exact and reported once, what follows is heard without a gap |
| Processing and devices (`output_processing.rs`, `devices.rs`) | the resampler, what a device supports | choose a device and a configuration, convert, resample, flush | a file is played whole, whatever its rate and the device's |
| Playback queue (`playback/queue.rs`) | arranged order, shuffled order, position, repeat, shuffle, next id | replace, enqueue, move, remove, jump, advance, shuffle, restore | both orders hold the same entries, edits do what they say, the prefetch opens what plays next |
| Playback worker (`playback/worker.rs`, `worker/`) | transport (idle, loading, loaded, failed), queue and its undo, selection, skips, who waits | every command, the reports of threads and stream, the tick | every caller is answered, what plays is what the queue and the selection say |
| Gapless prefetch and seek (`worker/prefetch.rs`, `seek.rs`, `progress.rs`) | prefetched pipeline, seek in flight, end of the loaded track | prefetch, adopt, withdraw, seek, advance | no track is skipped, repeated or cut by an end that comes at a bad moment |
| State messages (`messages.rs`) | a revision for each topic | store a value, announce the topic, report an occurrence | stored before announced |
| Host session (`src-tauri/src/session.rs`, `commands/session.rs`) | the channel to the page, the batch of the dispatcher | batch, read, send, connect | nothing is lost while the page joins |
| Renderer session (`native-session.svelte.ts`, `replica.svelte.ts`) | replicas of the topics, early messages | connect, route, accept | replicas never go back, occurrences come in order and once |
| Library sync actor (`library/sync`) | pending work of each folder, deadlines, watchers, scan or no scan | the listener's commands, watcher events, the end of scans and collections | no change is forgotten, the actor comes to rest |
| Library scanner (`library/scanner`) | what is still to be walked, generations, batches, arrivals | walk, plan, inspect, write a batch, mark missing, relink, finish | a completed scan is true, a moved file keeps its track |
| Library summaries (`library/summary.rs`, `keys.rs`) | album and artist rows with their counts | refresh after a change of tracks | they are what a rebuild from the tracks would give |
| Library reads (`library/store`) | nothing of its own; cursors the page holds | pages of lists, the scroll index, selections to play | pages neither repeat nor skip, a jump lands, what is shown is what is played |
| Database and migrations (`library/database.rs`, `migrations.rs`) | the database file, its log, copies, the marker of a reset | reset, copy, migrate, open | nothing is lost by a step that fails or a crash |
| Settings (`settings.rs`, `playback/preferences.rs`) | one value, its revision, a debounced writer, the file | change, write, replace, quarantine, shut down | a program that ends by itself has saved every change |
| Waveforms (`audio/waveform.rs`) | the loaded playback, the latest request, a memory, a cache on disk | load, request ahead, sample, analyze in segments, cancel, publish | what is kept as exact is whole, nothing of another playback is shown, the exact one follows |
| Level meter (`audio/meter.rs`, `commands/meter.rs`, `meter-feed.svelte.ts`) | taps, rings, a session with its thread | push, subscribe, unsubscribe, analyze, park | the newest stream's ring is never lost, commands end, frames are of one moment |
| Application (`app/mod.rs`, `src-tauri/src/lib.rs`) | the services and their order | start, shut down from two callers, crash | shutdown saves, in the right order |
| Lyrics, media, artwork, folders' paths, decoding | files | lookups, parsing, codecs | data without control of its own |
| Renderer playback, library, shell (`src/src/lib`) | optimistic values, a clock, pages of the catalog, notices | commands, reports, refreshes | values settle on what the Backend says |

How they meet. The worker owns the queue and the transport and is the only one
who changes them; it opens pipelines, and each pipeline is a decode thread with
a PCM queue, which the stream's callback drains. The worker tells the callback
what comes next through two one-value slots and hears from it and from the
decode threads on one channel. The callback copies what it plays into the ring
of the level meter. The library actor likewise owns folders, watchers and the
scanner and hears of everything on one channel; the scanner writes the rows
that the catalog reads in other connections. Both publish snapshots: the value
is stored, its topic goes to the Host's dispatcher, which reads the newest
value and sends it on the page's channel; answers to commands are a second way
to the page. Settings are changed by the playback thread and by commands and
written by a thread of their own.

What is hard. The callback may not block, so it wakes, reads and reports
without locks while the others act (PCM queue, output stream, meter). Reports
of threads that were cancelled are on the channel already (worker, gapless). A
caller is answered long after its command, by whichever handler ends what it
started (worker). The callback moves on to the next track one device latency
before it is heard and before the worker does (gapless, output). Values are
read long after the signal that announced them, and the page may join or load
again at any point (messages). Files change while, before and after the
scanner passes them; walks break, scans fail, die and are cancelled (library).
A list is read in several statements without a transaction (catalog). A
request is replaced while it is analyzed, and a file while it is cached
(waveforms). Commands run on a pool of threads, in any order (meter). The
program may die between any two steps of a reset, a migration or a write
(application).

## Modules and how they correspond to the code

**PcmStream, PcmQueue, PipelineProofs**. `PcmQueue` has
three threads: the decode thread with one action between any two accesses to
shared state (check of the cancellation, read of the vacancy, push, wait), the
callback (pop, the wake that depends on the occupancy read after it, the two
reads of is_finished), and the worker that cancels (flag, then wake). Frames
are counted. The producer and the callback of the ring are each used by one
thread, as the types of the code demand. `PcmStream` is what the two ends are
promised: a bounded stream with an end. `PcmQueue` implements it with
produced, heard, closed and ended mapped to the frames written, the frames
taken, the finished flag and the callback's program point.

**PlaybackQueue, QueueCommands, PlaybackQueueProofs, QueueCommandsProofs**.
`PlaybackQueue` has one operator per method of the queue; a method that shuffles
returns the set of the queues it may produce, which is the random number
generator as a choice. `QueueCommands` is the queue under the worker's commands, with the one
queue kept for undo. An entry is its item id: the track it names plays no
part.

**PlaybackWorker, PlaybackWorkerProofs** (EXTENDS PlaybackQueue). A handler of
the code calls others in a row; each is an operator from a state of the worker
to the next, and an action is one input taken to its end, as the worker's thread
takes it. `luck`
is what one handler finds when it reads the library, starts a thread or opens
a device; every outcome is tried. A thread the worker lets go of stays as a
cancelled job until its report has been received, so late reports are met in
every state. The entry of a failure is dropped, only its scope is kept. Opening
a prefetch (load, then pipeline) is one step here, since its stages differ
only in what is cancelled with it. Volume, positions and the restart rule of
Previous are left out, and so are shuffle (QueueCommands) and the stream's
slots (Gapless).

**Gapless, PipelineProofs**. The worker's loaded track, prefetch and seek against
the callback. The callback's fill is three steps (take the
handoff, take the chain, play and report), because the worker may write between
them; switch_queue is two writes for the same reason (FinishSwitch is the
second). The stream clock reaches a reported end some time after it was
reported. The queue is the one entry peek_natural names, which an edit may
change at any time. Starts open their pipeline at once.

**OutputDevice, Output, AudioProofs** (`MCOutput`). `OutputDevice` is the pure part: which
device, rate and channels a stream is opened with and what it falls back to,
which channel counts can be converted, and how many frames the chunked
resampler makes of a file, from its start or from a seek. `Output` is one
stream: the slots for the handoff and the chain, the callback's run in two
steps (what it takes and plays, what it then reports), the bounded queue of
position reports, and the worker's reads of the stream clock. `heard` records
at which moment each frame of each pipeline leaves the device. The worker above
it only switches, chains and adopts as the code allows it; `Gapless` has its
reasons.

**StateMessages, StateProofs** (`MCStateMessages`). From a service's stored value to the
page's replica: sink, dispatcher (wait, merge a batch, read each topic, send),
connect (replace the channel, read the topics one by one, answer), page (early
messages, initial state, routing) and answers of commands. A value is its
revision. The page may load again at any time, which drops what was on its way
to it.

**LibrarySync, ScanFlag, LibrarySyncProofs** (`MCLibrarySync`). The rules of
`sync/step.rs` are operators on the actor's state, as they are pure functions
there: `Handled` is the match on the input, `Advance` what is due after it. The
effects of a step are carried out one at a time (`Execute`), while watchers,
scanner and files go on. A folder is a set of directories; `changed` holds the
places that differ from what the Library has indexed, which no part of the
program knows, and a report names the directory or, when the watcher cannot
say, the whole folder. A deadline is none, to come or reached. `excused` is a
history variable: the changes a cancel or a failure gave up. `ScanFlag` adds
the last verdict of a scan.

**LibraryRows, Scanner, ScannerProofs** (`MCScanner`). `LibraryRows` holds what
the database says of a path (the file row, its track, its metadata) and two
computations: the summaries of albums and artists, kept row by row in the code
and here, with a rebuild beside them as the reference, and the pairing of
arrived files with missing tracks, first by their hash and then, for those
without a pair, by their tags. `Scanner` is a scan: a job per folder, the walk
that plans files one at a time, the batches, the rows not seen that are marked
missing, the relinking at the end, and the cancel flag looked at where the code
looks at it. The files of a batch are read by threads, so in any order; a cancel
leaves any part of them unread. What was read is written in the order of the
plans, in one transaction, which settles compilations and summaries before it is
committed. Files appear, change, are retagged, move and vanish at any moment.
Whether a row was seen by this walk is one bit in place of two generations.
Reading a file may fail where it fails in the code (`Readings`): it cannot be
opened or decoded or the parser panics, which stores it as unsupported; its tags
cannot be read, which leaves a track without any; its hash cannot be read; or,
when only its artwork was to be stored again, that is unavailable (`Retries`).
`misread` is a history field of the row for it. The reads of one file are one
step, so it does not change between them.
Unchanged is what has the same size and time, as in the code. That a file does
not take on the size and time under which the scan has read another one at the
same place is assumed of the files (`Told`): the program cannot tell such a
change from none, and would keep the old tags, or none, for good.

**CatalogLists, Catalog** (`MCCatalog`). `CatalogLists` is the pure part: the
order of a list as its phases (named and unnamed rows, dated and undated), a
page and its cursor, a landing after a number of rows, the buckets of the
scroll index, and what is played when a listener plays a list. `Catalog` reads
a list page by page in the statements of the code (count, then the phases one
by one), with a write between any two.

**WaveformAnalysis, Waveforms, AudioProofs** (`MCWaveforms`). `WaveformAnalysis` reduces a
file to buckets, sampled or in segments on several threads, where the header
may state another length than the file has. `Waveforms` is the topic and its
thread: loads and requests ahead, the latest request that replaces the one
before, the memory, the cache on disk with its stamp and hash, the cancel that
is looked at between chunks, and the publishing that checks the playback again.

**Meter, AudioProofs** (`MCMeter`). The tap of each stream pushes chunks (a
look whether anyone listens, then the copy), the analysis thread takes the
newest ring, reads, measures, batches and parks, the hub's commands take turns
on the session lock (join, clear, launch), and the page's feed activates, ends,
is answered late and is loaded again. A sample is known by its frame and
channel; of a measurement, whether it is loud.

**SettingsFile, LibraryFile, Application, StateProofs**
(`MCApplication`). `SettingsFile` has the values in memory, the debounced
writer with its channel, the replacement of the file, the quarantine of one
that cannot be used. `LibraryFile` has the steps of a reset (database, log,
marker), the copy before a migration and the migrations one version at a time,
each of which may fail. `Application` composes the two: start in the code's
order, playback that restores and records what it was set to, the exit of the
window and the reset that restarts, which may come together as two callers of
the same shutdown, and a crash at any step, after which only the files are left.

The modules are composed where the code's parts share state
(PlaybackWorker with the queue, Application with settings and database, Scanner
with the rows). Where they only exchange messages, each module takes the other
side's messages in any order the other side may send them: the worker meets
every report of a thread (PcmQueue, Gapless and Output have the threads), the
actor meets every end of a scan (Scanner has the scan).

## Runs

| Run | Module, configuration | What it shows |
| --- | --- | --- |
| `pcm_queue` | PcmQueue, PcmQueue.cfg | every interleaving of the three threads: no lost wake (NoLostWake), the end after the last frame (EndOnlyWhenDrained), refinement of PcmStream (ImplementsStream); a cancelled thread stops (CancelStopsTheThread), a stream is heard to its end (PlaysToTheEnd) |
| `queue_commands` | QueueCommands, QueueCommands.cfg | every sequence of commands: the prefetch names what plays next (PeekNamesTheNaturalNext), undo brings the current entry back (UndoRestoresTheCurrentEntry), what is enqueued next plays next, also while shuffled (EnqueuedNextPlaysNext) |
| `worker` | PlaybackWorker, PlaybackWorker.cfg | callers are held or answered (WaitersAreHeld), the selection is what plays (SelectionIsWhatPlays), tracks follow the queue (TrackFollowsTheQueue), skipping runs out (SkipsRunOut) |
| `gapless` | Gapless, Gapless.cfg | ends are not mistaken (EndIsOfTheLoaded), nothing withdrawn comes back (OldQueuesNeverReturn), a track that is played out is left (EndIsNoticed) |
| `output` | MCOutput, Output.cfg | the position shown is of the track shown, at most the device's lead ahead (PositionIsNear), a file is played to the frame and its end is reported once, at its time (EndsAreExact), a queue chained in time follows without a gap (ChainsAreSeamless) |
| `state_messages` | MCStateMessages, StateMessages.cfg | replicas never go back (ReplicaNeverGoesBack), occurrences come in order and once (NoticesInOrderOnce), the page catches up (PageCatchesUp) |
| `library_sync` | MCLibrarySync, LibrarySync.cfg | no change of a file is forgotten (ChangesAreNotForgotten), no artwork is collected beside a scan (GcNeverMeetsAScan), the actor comes to rest (ActorComesToRest) |
| `scanner` | MCScanner, Scanner.cfg | summaries are what a rebuild gives, at every step (SummariesFollowTheTracks), an undisturbed completed scan leaves the files there are in the Library, with nothing said of them that is not so, and all of it but for failed reads (CompletedScanIsTrue), a moved file whose hash was read keeps its track also after scans that were cut off (MovesAreFollowed) |
| `catalog` | MCCatalog, Catalog.cfg | untouched rows come once and in order whatever is written meanwhile (SteadyRowsOnce), an untouched list is complete (PagesAreTheList), jumps by name land (JumpsByNameLand), what is played is what is shown (SelectionIsTheList) |
| `waveforms` | MCWaveforms, Waveforms.cfg | what is kept or shown as exact has every chunk once, and nothing else is on the disk (ExactIsWhole), what is shown is of the loaded playback (ShownIsOfTheLoaded), the exact waveform follows unless a read of the file fails (ExactFollows) |
| `meter` | MCMeter, Meter.cfg | the newest ring is never lost (NewestRingIsKept), what is measured was played during the subscription and pairs are of one frame (FramesAreTrue), every command ends (CommandsAreServed) |
| `restarts` | MCApplication, Application.cfg | a clean end saves (CleanEndSaves), a reset loses nothing (ResetLosesNothing), a migration can be undone (MigrationsCanBeUndone) |

A module's `TypeOK`, where it has one, states the types of its variables. Those
of PcmQueue, Gapless, Scanner, StateMessages and Output are proved; the others
are not repeated in the runs, and are checked with a run's configuration and
`INVARIANT TypeOK` when the module is changed. `QueueCommands` has `OrdersAgree` in its place, which is proved.

### Disagreements

Nine statements of comments and documents that the code does not keep have a
configuration of their own, with which TLC finds a counterexample:

| Configuration, module | Property | What happens |
| --- | --- | --- |
| StateMessagesEarly.cfg, MCStateMessages | EarlyMessagesAreNotOlder | the dispatcher may hold a batch read before connect replaced the channel and send it on the new one, older than the answer. The page is not misled, since replicas take newer revisions only |
| GaplessVoid.cfg, Gapless | AdoptsWhatFollows | an edit withdraws a prefetch the callback has moved on to. The next prefetch is chained to a track the stream has left; it is voided, and still adopted as the loaded track, which then neither plays nor ends |
| GaplessSeek.cfg, Gapless | TickKeepsTheSeek | a seek back made after the last frames went to the device is superseded by the end of the track, because the known end time stays |
| WorkerSkip.cfg, PlaybackWorker | SkippingGoesOn | a failure is published as a skip before the next entry has been read; when none is found the worker rests in a failure that says it is skipping, for which the page offers no Retry |
| WorkerVanished.cfg, PlaybackWorker | VanishedTracksDoNotStop | in a repeating queue, a last entry that has gone from the library stops the queue, although entries before it can be played |
| ScanFlag.cfg, ScanFlag | FailedScanStaysFlagged | the flag of a failed scan is the state of the latest scan, so a scan that is started and cancelled clears it; the requirements keep it until a scan succeeds |
| ScannerArrival.cfg, MCScanner | ArrivalsWaitForEveryFolder | relinking runs after scans of parts, too, and forgets every arrival: a file whose old place has not been walked keeps its new track for good |
| OutputPosition.cfg, MCOutput | PositionIsHeard | the position counts a buffer as heard before the device plays it, by up to what the device buffers |
| CatalogYears.cfg, MCCatalog | JumpsByYearLand | the index by year counts named and unnamed albums of a year together, the list has all unnamed ones after all named ones, so jumps past an unnamed album land too far |

Others were met while modelling and bound what a property of a passing run may
say; each is told in the comment of that property, and with its lines in
`PROJECT.json`:

- a row whose sort value is written between two pages may be shown twice or not
  at all, so SteadyRowsOnce is about rows nobody touches;
- a sampled approximation counts as ready: when its exact analysis is cancelled
  it is never asked for again while it is in memory, so ExactFollows is about
  files of which nothing is shown when they are loaded;
- a file whose read failed is stored so under its own size and time, and later
  scans only touch it: until it changes it stays unsupported, or without tags,
  and if its hash is missing it is not known again where it moved. So
  CompletedScanIsTrue asks for everything only where no read failed, and
  MovesAreFollowed is about files whose hash was read at both places;
- a waveform whose file cannot be read is not tried again until it is asked for
  anew, so ExactFollows leaves out files of which a read has failed;
- a file replaced at its path before the next library scan may show the old
  waveform, so ShownIsOfTheLoaded is about the path;
- the tap of the meter does not count what passes while nobody listens, so with
  channels that do not divide the chunk the left and the right may be confused
  afterwards, or the left that waited for its right is paired with that of a
  later frame; FramesAreTrue is about samples before which whole frames passed,
  none of them within a frame that was being copied (that whole frames passed in
  all is not enough, which the attempt to prove it showed);
- a subscription of a page that was loaded again may begin after the host ended
  everything, and stay;
- a settings file that cannot be read is replaced by the first change, and not
  kept aside;
- a reset of a database without a log leaves an older log beside the newer
  copy; ResetLosesNothing is about the newest database and the log in use;
- a log that can be neither moved aside nor removed (three failures in a row of
  the same step of a reset) stays beside the database made next. That the removal
  fails is not modelled, so ResetLosesNothing, and its theorem, assume that it
  succeeds.

### Bounds, and why they are enough

| Run | Bounds | Why |
| --- | --- | --- |
| `pcm_queue` | ring of 4, prebuffer 4, packets to 5, pops to 3, streams to 9 frames | the prebuffer mark at the capacity is the worst case of the announcement; packets exceed the ring, pops and packets straddle the half mark, a stream fills the ring more than twice, so an old wake can be met later |
| `queue_commands` | 3 entries, 4 ids | entries before, at and after the current one exist; ids suffice for a replacement and an enqueue or for two replacements with an undo |
| `worker` | 2 entries, 2 ids, 3 jobs, 2 callers, 2 devices | a current entry and one to go to; two jobs may be live (track with prefetch or seek), one cancelled; one caller waits while another replaces what it waits for |
| `gapless` | 2 entries, 3 pipelines, 2 commands | the loaded pipeline, the one after it and one that replaces either; one command to withdraw something and one to act on the result |
| `output` | 3 pipelines of files of 1 and 2 frames, buffers of 2, a lead of 1, packets of 2, 5 units of time | a pipeline, one that follows it and one that replaces either; ends that fall within a buffer, at its end and at the very start; devices at the file's rate, at another, and refused |
| `state_messages` | 2 topics with 2 revisions each and 3 changes in all, 2 occurrences, 1 reload | a topic that changes while its own older value is on the way, another topic to be merged with it, two occurrences to come in the wrong order |
| `library_sync` | folders of 2 and 1 directories, 1 of them known at first, 1 change of a file or lost artwork, 2 commands | scans of a part, a whole, both and none; a change at every moment of a scan, a retry, a cancel or a command; commands in pairs such as disable and enable again, or scan and cancel |
| `scanner` | 2 folders with 3 paths, 2 scans, 1 change of a file or failed read, batches of 1 inspection and 2 files | one file known, one new and one missing, so that a move within and between folders can meet a scan that is cut off and a second one that completes; the new file is what is missing, so it is paired, or not, also after a failed read; batches that are full and that are flushed at the end of a folder |
| `catalog` | 3 rows of 2 columns, pages of 1, lookups of 2 ids, 1 write | named and unnamed, dated and undated rows in every mixture, a page that ends at a phase and within it, a landing on and past the end of a phase, a write at every place between two statements |
| `waveforms` | 2 paths, 3 contents, 1 to 3 threads, 3 buckets, memory of 1, 3 loads | segments that divide the chunks and that do not, a header that promises more and one that promises less, a memory that is always full, a track that is left and loaded again |
| `meter` | 2 streams, 2 channels then 1, chunks of 1, rings of 4 samples, 2 runs, 1 reload | a chunk that ends within a frame, a ring that overflows, a stream built at any step of a subscription, a feed that ended and one of a page that is gone |
| `restarts` | 3 schema versions, 3 starts, 2 changes, 1 failing step, 1 crash | two migrations in a row with a failure or a crash before, between and in them; a change before and one during the shutdown; a start after a crash in a start |

Commands, changes, pipelines, ids, scans, starts and reloads are counters that
only grow; bounding them cuts runs short and adds no behaviour. In the temporal
runs this means that the listener and the files leave the system alone in the
end. In `PlaybackWorker` callers are interchangeable, so the one who asks next
is any one that is not waiting.

### Fairness, and deadlock

- `PcmQueue!FairThreads`: the decode thread runs, and cancel goes on from its
  flag to its wake, which are two statements in a row. The callback has no
  fairness of its own: before a stream starts nothing drains the queue. Only
  PlaysToTheEnd assumes that it runs.
- `Gapless!FairSpec`: the device calls the callback while the stream runs, the
  queue of a decode thread that has finished is drained in the end (strong
  fairness of the pass that drains it, since other passes come between), the
  clock goes on, and the worker handles its events and wakes for its deadline,
  which its loop computes before it waits.
- `StateMessages!FairSpec`: a service that stored a value goes on to announce
  it, the dispatcher and the connect command run, the channel delivers and the
  page connects. Answers of commands may be arbitrarily late.
- `LibrarySync!FairSpec`: the actor and the scanner run, and a pending deadline
  is reached. Retries of watchers and commands need not happen. A tick is taken
  only when nothing was sent, as the wait on the channel hands out a message
  before it times out, and a retry comes due only while the actor waits, ten
  seconds being longer than it works.
- `Waveforms!FairWaveformsSpec`: the background thread runs, and a caller that has begun
  a call of the service ends it. Nobody has to load a track or replace a file.
- `Meter!FairSpec`: the analysis thread runs, commands take the lock and go on
  while they hold it, and their answers arrive. The callback need not run, and
  nobody has to subscribe.

Runs with `CHECK_DEADLOCK FALSE`: a stream that has ended and whose thread has
stopped has nothing left to do, a page that has caught up likewise, and so has
a library at rest, a list that has been read, a program after its last start,
or a player when the bound on pipelines, time or commands is reached.
`queue_commands` and `worker` check for deadlock.

## Proofs

Of the queue of frames, `PipelineProofs` proves, for every capacity, prebuffer
mark, packet size, pop size and length of a stream (assumption `PcmAssumption`
of `PcmQueue`: naturals, positive where the code has non-zero types, and a mark
within the capacity):

- `PcmTypeCorrect`: the types, among them that the ring never holds more than its
  capacity or less than nothing;
- `WakesAreNotLost`: a blocked decode thread has a wake pending or a crossing of
  the half mark ahead of it;
- `CancelIsSeen`: a cancelled thread that may block finds a wake;
- `EndIsDrained`: the end is heard after every frame that was written;
- `QueueImplementsStream`: the queue implements `PcmStream`.

None of these is inductive by itself. The inductive invariant `PcmIInv` adds the
accounting of frames (`Accounting`: what was written is taken or in the ring,
what was decoded is written or left), what the decode thread knows where it is
(`ProducerPoints`: at the push, room was found and can only have grown), what
the callback knows after reading the flag (`CallbackPoints`), and the heart of
the argument, `WakeAhead`: from the moment the producer finds no room until it
waits, either a wake is pending, or the occupancy is at or above the half mark,
so that a crossing is still to come, or the callback has just crossed it and
not decided yet. The wait itself would be too late: the crossing may lie
between the read of the vacancy and the wait. The refinement takes `PcmIInv` and
shows one lemma for steps (`StepImplements`), with one step per action that
changes what the stream sees.

`PlaybackQueueProofs` has no theorem of its own: it states what the methods of
the queue do to a queue that is not shuffled, whose order has every id once and
none still to be given (`Orderly`, `Plain`). Dropping entries is a recursive
function (`Kept`), so what it yields is proved by induction: the naturals are
well founded, so a statement that fails for a number fails for a least one
(`Least`), and its predecessor does not. From that come which entries remain
(`RetainKeeps`), how many (`KeptLengths`), and where the position goes, to the
entry it was on or, when that goes, to the next one that stays
(`PositionFollows`).

`QueueCommandsProofs` proves, for queues of any length and however many ids,
shuffled or not (`BoundsAssumption`: the bounds are naturals):

- `OrdersHold`: a shuffled queue has the same entries in both orders, each once,
  and its position is an entry or just past them, in the queue and in the one
  kept for undo;
- `PeekIsNatural`: what the prefetch opens is what the queue moves to when the
  track ends;
- `UndoRestores`: undo brings the current entry back;
- `NextPlaysNext`: what is enqueued next plays next, in the order it was asked
  for, also while shuffled.

The inductive invariant is `Sound`, of the queue and of the one kept for undo,
with a lemma for each method. It has one condition the code does not spell out:
a shuffled order may outlive its setting, when clearing or dropping entries left
nothing in it; then it is as empty as the arranged one. That both orders hold
the same entries is enough for every length to agree (`SameLength`, by counting),
which is what makes the one position valid in both. An enqueue places entries
at one position in the shuffled order and at another in the arranged one;
`Spliced` says where every entry is afterwards, and is the lemma `NextPlaysNext`
rests on. What a shuffle yields is any order of the same entries (`AnyOrder`,
`ShuffledAround`), so the theorems hold for every random number generator.

`PlaybackWorkerProofs` proves, for any number of callers, devices, threads and
entries and whatever the library, the files and the devices do
(`NamesAssumption`: the names that stand for nobody and for no device are not
callers or devices, the default device is one, and there is another caller
beside any one):

- `WaitersHeld`: whoever has not been answered is named by the start or the seek
  in flight, and a start in flight has a thread that is still to report;
- `SelectionPlays`: a loaded track plays on the selected device;
- `TrackFollows`: the track that starts or is adopted is the queue's current
  entry;
- `SkipsEnd`: a start for the same caller on another entry has one more skip
  behind it, and skips are fewer than entries;
- `QueuesHold`: what the last two rest on, that every queue the worker keeps has
  each id once and a valid position.

An input is taken through a row of operators, each from a state of the worker to
the next, so the proof follows them. `Owes(s, owed)` says of a state on its way
that everyone who waits is held by the transport, except the callers in `owed`,
whom the handler at hand is still to answer; each operator has a lemma about
what it owes before and after, each action one about its operators, and the
inductive invariant is that at rest nobody is owed anything. A stale report is
met by the shape of the transport: a job that is not the transport's own changes
nothing but the list of threads. The second half does the same for the track:
`Settled` says that the track is the one there was, `Follows` that it is that
one or the queue's current entry, and `Counted` that whoever waited and is now
behind another entry has a skip counted for it. A caller who asks does not wait
already, which is what keeps the counts of two callers apart (`Apart`).

Of the worker and the callback, `PipelineProofs` proves, for any number of
entries, pipelines and commands (`GaplessAssumption`):

- `TypeCorrect`: the types, and that a prefetch or a seek belongs to a loaded
  track and the two never meet;
- `EndsAreTheirOwn`: the worker takes no end for the loaded track's but its own;
- `NothingReturns`: within a stream the callback never goes back to a queue
  opened before the one it plays.

The last is about one step, and what it rests on is far from that step: the
worker withdraws what it has chained in two writes, and the callback takes the
handoff and the chain in two reads, so any of them may hold something old. The
inductive invariant therefore orders the numbers of the pipelines along
everything both sides hold (`Order`): a seek or a prefetch is newer than the
loaded track, a handoff is newer than what plays, and a chain leads to a newer
queue and, beside a handoff, either begins at it or after it or leads to what is
older than it and is thrown away (`Leads`). `Transport` states what the worker
holds together, `Holders` that everything held has been opened, `InOrder` that
the numbers are given in order, and `Events`, in `Values`, that an end on the
channel has been reported by the callback, which is what `EndsAreTheirOwn`
needs. Each of them has its own lemma per action of the worker or the callback.

Of the meter, `AudioProofs` proves `RingIsKept` for any streams, channels, sizes of rings and
chunks and any number of subscriptions (`MeterAssumption`): the ring of the
newest stream waits in the slot or is held by the one thread that will put it
back. The inductive invariant adds that a thread that has parked holds no ring
(`ParkedOnce`), and that the hub launches a thread only after the one before
has been joined, the session naming whichever there is (`OneThread`).

It proves `MeasuresTrue` likewise, for any number of channels and chunks that end
anywhere within a frame: what a subscription reads was played since it began,
and its samples come in the pairs of one frame. Its inductive invariant,
`Measured`, adds that the tap is as far within a frame as what it has copied
(`TapIsKnown`: the phase is what passed less what was skipped, modulo the
channels, and the left that waits is the sample before), that every ring holds
whole pairs and never more than its size (`RingsAreTrue`; sizes are even, so a
ring that overflows never parts a pair), that whatever a thread has or will take
is no older than its subscription (`RingsAreNew`), and that what was last sent is
what was last measured (`ReadIsTrue`). What a chunk yields, and what a batch of
measurements sends, are recursive functions, so both are proved by induction
(`PairsArePaired`, `BatchedRests`); that a place in the stream has one frame and
one channel is the uniqueness of division (`Divided`).

Of the output stream, `AudioProofs` proves, for any number of pipelines, any
files, buffers, packets and commands of the worker, whatever the device does to
the rate and however late the callback runs (`OutputAssumption`: a configuration
that opens has rates and, where they differ, a resampler whose chunks last as long
at either rate, which is what `FixedSync::Both` asks of the library; a seek is to
within the file, which `begin_seek` sees to):

- `OutputTyped`: the types, and that no more is heard of a pipeline than was
  pushed and no more pushed than it has;
- `PositionKeepsNear`: the position is not ahead of what is heard by more than
  the device buffers;
- `ChainsKeepSeamless`: a queue that follows in time is heard at the moment after
  the last frame of the one before;
- `EndsKeepExact`: an end is reported once, for the moment after the last frame,
  and by then as many frames have been heard as the file lasts at the device's
  rate, to the frame, also where a seek went on in the middle.

The inductive invariant is `StreamInv`. `Unheard` says that whatever is still to
be played, in the handoff slot, the chain slot or the callback's own chain, has
not been heard and is newer than what it follows; without it a pipeline could
be played twice and its frames would not be in order. `Sounds` says that the
frames of a pipeline are heard one after the other, all before the next buffer,
and that the callback's position counts them. `Reported` says that a report tells
the truth wherever it is: with the callback, in the cell, or read by the worker.
Its frames are heard one per unit from its time on, and those before it are about
to be heard at the latest. `PositionFromReport` is the step from a report to the
position the worker computes from it, and `MostAreHeard` the step from moments to
a count of frames, by an injection. What one buffer does to the sound is stated
once (`GoesOn`, `PlayedOn`) and used for each of the two segments a buffer may
have (`FillOnlyFirst`, `FillChained`).

The ends need a second invariant, `EndsInv`: a queue holds what its file becomes
(`FromFiles`), a handoff is newer than what plays, the callback's end is when the
last frame so far is heard (`TimeOf`), and what was reported is of queues that
have run out and that the callback has left or has marked (`ToldOf`). How many
frames a file becomes is a fact about data, proved by induction over the
frames. After k frames the chunks that left the resampler account for what was
emitted and what the delay took (`SettledNext`), so that it never emits more
than is expected, because chunks last as long at either rate
(`ChunksAreExpected`). At the end each chunk of silence emits a frame or takes
one from the delay, so the rest comes out (`FlushIsExact`). A seek decodes from
the start of a chunk, which is a whole frame of the device as well
(`SeekStartIs`), so rounding a position down loses nothing
(`FramesFromAreExpected`).

Of the waveforms, `AudioProofs` proves, for any files, loads, caches and numbers
of threads (`WaveformsAssumption`):

- `ShownKeeps`: the page is shown a waveform of the playback that is loaded, of a
  content that was known under a hash of the loaded file. Two files may have the
  same content, and the library may store the hash of what was at a path before,
  so more than that is not true of the code; where no two files share a hash, as
  in the run, it is a content of the file's own path;
- `ExactKeepsWhole`: what is kept or shown as exact has each chunk of its file once
  and in order, in buckets whose lengths differ by one at most, whatever length
  the header states.

The inductive invariant, `WaveInv`, follows a waveform from the thread
(`Working`) through the disk (`Cached`) and the memory (`Remembered`) to the topic
(`Topic`), and says in each place what is known of it: the thread's own is of the
path it works on, that on the disk of some path with the same hash (`Known`), and
both become `IsOf` of the path they are shown for. That an analysis is whole is a
lemma about data (`AnalyzedIsWhole`). Segments that are not short begin where the
one before ends (`SegmentsTile`), buckets begin where the quotients say, and by
the quotient of a sum (`SumDivided`) none is empty or more than one longer than
another (`BucketsTile`). `TilesFlatten` is the induction both need: pieces that
follow one another join to the whole.

`LibrarySyncProofs` proves `CollectsAlone`, for any finite set of folders, any
changes, failures, losses and commands (`LibraryAssumption`): a collection never
runs beside a scanner. The property looks at the scanner and at the effect that
is carried out next; the inductive invariant looks at everything that still is
to be done. A scan counts as running from the step that asks for it, so a
decision never asks for a collection while one runs or is asked for, and
asks for at most one of the two (`Apart`, over the effects not yet carried
out); a scanner is there only while the actor believes so, since only the
report of its end, received when no effect is left, lets the actor decide again.
Sequences of effects enter only by which kinds they lack (`Lacks`),
with a lemma for each way the rules put effects together.

It proves `ChangesKept` under the same assumption: a change of a file in an
enabled folder is held by work that waits, by a scan, by a report on its way or
by a watcher that is retried. The property is not inductive: between the step
that asks for a watcher and the one that attaches it, a file may change unseen,
and what saves the change is that the scan asked for in the same decision comes
after the attach. The inductive invariant, `Memory`, therefore says of every
enabled folder that it has a watcher, or is to be retried, or has its attach
before the scan of everything in it (`Watched`, `AttachedFirst`). It also says
that a scan is one of asked for, running, or ended and still to be reported, so
that the report is there once (`OneScan`); without this a second report would
let the actor take a scan that runs for one that is over, and drop what it
holds. The rules handle each kind of input differently, so the proof states once
what a rule may do to a folder (`HandlesAt`: what was held stays held, unless
the input lets the folder go or a failure or a cancel gives it up) and has a
lemma for each kind of input; what a decision does next is `AdvanceHolds`, and
what carrying out one effect leaves is `LeftOver`.

`ScannerProofs` proves, for any folders and files, batches of any size, and
however many scans and changes of files (`ScannerAssumption`, `RowsAssumption`:
finitely many paths, and no row of the first library says of its file, under its
size and time, what the file is not; reads may fail any number of times):

- `TypeCorrect`: the types, and that a batch never exceeds its size;
- `SummariesFollow`: the summaries of albums and artists are at any time what a
  rebuild from the tracks would give;
- `CompletedIsTrue`: a scan of everything that completes while no file changes
  leaves the files there are in the Library and no others; what it says of each is
  true of it, and is everything unless a read failed when the file was stored;
- `MovesFollowed`: a file that moved is the same track again after such a scan,
  when its hash was read at both places and is that of no other file or row. That
  its tags could be read is not needed.

The proof has three layers. `SoundInv` is about the tables alone: each track is
filed as its directory demands (`Filed`), and the rows of albums and artists are
those of the tracks (`Summed`). A write refreshes only what it touched, so the
proof has to show that nothing else changed: `AlbumsRefreshed` for albums, the
same for artists, and that a compilation which takes tracks from an album counts
that album as touched. What a batch makes of the tables is a recursive function
over its plans, proved by induction over a number. `ReadInv` adds what the walk
knows while it is under way: no path is twice in a batch, a plan is for the row
that is there (`PlansFollowTheRows`), and what is known of a file under its size
and time is what it holds (`WhatIsReadIsTrue`, which needs the assumption on
files told above: a file that is replaced between the plan and the reading, and
put back afterwards, would be taken for unchanged with the replacement's tags). `ScanInv` adds `WayInv`,
which says what an undisturbed scan of everything has done at each moment: each
path is in a folder still to come, in the one being walked (and there still to be
found, planned, or seen and known), or done (`Status`, as long as no walk broke),
and its row is as it was but for what was read (`Kept`). The last step, the
relinking, is the one both properties are about: that an arrival with a hash of
its own is paired with the one missing track of that hash, before anything is
paired by tags, is `MovesFollowed`. What reading a file gives is true of the file
however much of it failed (`ReadingsAreTrue`), which is all that `ReadInv` needs.

`StateProofs` proves of the database, for any number of schema versions and
however many starts, failures and crashes (`VersionAssumption`):

- `MigrationsAreCopied`: a database that left a schema version behind has been
  copied as it was;
- `ResetsAreSafe`: the newest database is in its place or moved aside, and none
  is opened with the log of another, provided that a log which cannot be moved can
  be removed.

Their inductive invariant, `LibraryInv`, says where the newest database is at
each step of a reset (`NewestIsThere`), that a log which is not the database's
is only there while the marker still asks for the reset that will do away with
it (`LogIsIts`; this is why the marker goes last), and that the copy is made
before the first migration (`CopiedFirst`).

It proves `EndSaves` of the settings, for any number of changes, starts and
crashes and whoever ends the program (`SettingsAssumption`, `FilesAssumption`):
when the program has ended by itself and no step has failed, the file has the
values last set. Their invariant is `SettingsInv`. What was said last to the
writer is in one of three places, the channel, the writer's hands or the file
(`Said`), and every step of the writer leaves it the same; it is what is in
memory until the writer is closed, and what was then in memory afterwards
(`Told`). `Ending` says that playback had ended before, which is why no change
of it comes later, and `Writing` that the file being written is the one the
writer has in its hands.

Of the messages to the Renderer it proves, for any topics and however many
changes, occurrences, answers and loads of the page (`MessagesAssumption`):

- `MessagesTyped`: the types, and that messages are kept back only while connect
  has not answered;
- `NoticesComeInOrder`: a page is told of occurrences in the order they happened
  and of each at most once;
- `ReplicasAdvance`: no topic of a page goes back while it is loaded.

The first property is not inductive, since an occurrence is copied from the sink
through the dispatcher's batch and the channel to the page, and kept back there
before connect has answered. The inductive invariant, `Flow`, says of these five
places that each holds occurrences in their order (`Rising`) and that whatever a
place holds happened before all that the places behind it hold (`Below`). The
dispatcher merges a batch into the occurrences in their order and then one
message per topic; both are recursive functions, so that what they select keeps
its order is proved by induction (`SelectedPicks`). What a page makes of the
messages it kept back is another (`AcceptAllKeeps`), which is what
`ReplicasAdvance` rests on.

A constant that stands for nothing (`None`, `Missing`, `NoOrder`) is assumed to
be outside the set it is put beside; TLC evaluates these assumptions with model
values.

Only model-checked: everything under fairness (CancelStopsTheThread, PlaysToTheEnd,
EndIsNoticed, PageCatchesUp, ActorComesToRest, ExactFollows, CommandsAreServed),
which is beyond the prover, as are statements with ENABLED. What the folds and
filters of the community modules compute is out of reach, since their definitions are
recursive operators or take an operator: the catalog's pages are built from them.
(The sum of an artist's tracks is one too, but its proof needs only that equal counts
have equal sums.) (Induction over a number does work, by `Least`, where the recursion
is a function, as in the queue, the messages, the meter, the resampler and the
waveforms' segments.) SkipsRunOut states termination of skipping as a measure that
decreases, in place of a liveness property; that form is what SkipsEnd proves.

## What is not modelled, and why

- Arithmetic on samples, codecs, the device's own behaviour, SQL as such, tags,
  colours, layout and wording are data. Of samples their number, frame and
  channel are kept, of a query its rows and their order.
- Lyrics, media inspection, artwork files and the folders' paths: one lookup or
  one parse for one request, without control of their own. Their outcomes are
  choices of the modules that call them.
- The Backend's utilities (locks, logging, identifiers, errors) and the Host's
  commands, which pass a call on, have no state.
- The schema, what a migration computes, and the pool of connections; the
  catalog takes from the pool that two statements see different states.
- Position messages, and the values of volume and mute, which are passed
  through.
- The shutdown of the playback worker and of the library actor in the middle of
  their work: Application has the order of the services' ends, and takes each
  of these ends as one step.
- The Renderer's playback store (optimistic values, the clock) and its paged
  collections have control of their own and are in the plan; the rest of the
  Renderer draws.

## Plan

Done, in order of importance: PCM queue, queue and worker with their proofs,
gapless with its proofs, messages with their proofs, library actor with its
proofs, scanner with its rows and proofs, output stream with its proofs, catalog,
waveforms and meter with their proofs, settings and database through restarts with
their proofs.

To come:

1. `RendererPlayback`: optimistic values against answers and pushed snapshots,
   the clock between reports, and the catalog's pages during a refresh.
2. Shutdown in the middle of the worker's and the actor's work.
3. Abstract specifications: a player that plays entries in order, implemented
   by Gapless; a register with a monotonic reader, implemented by StateMessages.
