------------------------------ MODULE Scanner ------------------------------
(***************************************************************************)
(* One scan of the Library after another: library/scanner, against the     *)
(* files and the database.                                                 *)
(*                                                                         *)
(* Whether a row was seen by the latest walk of its folder is one bit, in  *)
(* place of two generations.  What a walk covers is a folder or some of    *)
(* its directories.  Each read or transaction of the database may fail,    *)
(* and the thread may die; each part of a file may fail to be read.        *)
(* Revisions, and all progress but changed_count, are left out.  The actor *)
(* (LibrarySync) sees to it that folders and rows are changed by nobody    *)
(* else during a scan.                                                     *)
(***************************************************************************)
EXTENDS LibraryRows

CONSTANTS RootOf,               \* the folder of each directory
          WithArtwork,          \* the contents that embed an image,
          WithInvalid,          \* and those whose image is of no use
          Garbage,              \* a file that cannot be decoded
          FirstFiles, FirstRows,          \* the files, and the rows, at first
          Inspections, BatchSize,         \* files read, and planned, per batch
          MaxScans, MaxChanges  \* bounds: scans; changes of files and failed reads

Dirs == Range(DirOf)
Roots == Range(RootOf)
FileOrNone == Contents \cup {Garbage, None}
AnyRow == Row(Contents \cup {Garbage})
RowOrNone == AnyRow \cup {None}

(* What a batch is to do with a file, and what reading it gives.           *)
Plans ==
  [path : Paths, key : Contents \cup {Garbage}, does : {"inspect", "retry", "touch"}]
Results == [tags : Contents \cup {None, Cleared}, hash : Contents \cup {None},
            art : ArtworkStatus, misread : BOOLEAN]

(* What a row or a result says of a file is true of it, and it is all      *)
(* there is to say unless a read failed.                                   *)
TrueOf(x, file) ==
  /\ x.tags \in {file, None, Cleared} /\ x.hash \in {file, None}
  /\ x.hash # None => x.tags # None
  /\ file \in Contents /\ ~x.misread => x.tags = file /\ x.hash = file

(* The size and time of a file do not come back to a place where the scan  *)
(* has read another file under them: this is not told from no change.      *)
Agrees(row, file) == row # None /\ row.key = file => TrueOf(row, file)

ASSUME ScannerAssumption ==
  /\ DOMAIN RootOf = Dirs
  /\ WithArtwork \subseteq Contents /\ WithInvalid \subseteq Contents \ WithArtwork
  /\ Garbage \notin Contents \cup {None}
  /\ FirstFiles \in [Paths -> FileOrNone] /\ FirstRows \in [Paths -> RowOrNone]
  /\ \A p \in Paths : Agrees(FirstRows[p], FirstFiles[p])
  /\ None \notin AnyRow /\ IsFiniteSet(Paths)
  /\ Inspections \in Nat \ {0} /\ BatchSize \in Nat \ {0}

VARIABLES
  disk,      \* the file at each path
  library,   \* what the database holds: rows, albums, artists, next track id
  scan,      \* the scanner thread
  cancel,    \* the flag it looks at
  told,      \* changed_count has grown since the scan began
  past,      \* history: the rows when the scan began, and what it can rely on
  scans, changes

vars == <<disk, library, scan, cancel, told, past, scans, changes>>

rows == library.rows
In(dirs) == {p \in Paths : DirOf[p] \in dirs}
DirsOf(root) == {d \in Dirs : RootOf[d] = root}
Files == {p \in Paths : disk[p] # None}

Idle == [at |-> "idle", jobs |-> <<>>, dirs |-> {}, todo |-> {}, planned |-> <<>>,
         read |-> <<>>, exhausted |-> FALSE, complete |-> TRUE, gone |-> FALSE,
         traversalFailed |-> FALSE, outcome |-> "none"]
NoRows == [p \in Paths |-> None]
NoPast == [rows |-> NoRows, steady |-> {}, quiet |-> FALSE, whole |-> FALSE]

(* The files of the batch that have to be read.                            *)
PathsTo(does) ==
  {scan.planned[i].path : i \in {j \in DOMAIN scan.planned : scan.planned[j].does = does}}
ToInspect == PathsTo("inspect")
BatchIsFull == Cardinality(ToInspect) >= Inspections \/ Len(scan.planned) >= BatchSize

(* What becomes of the artwork that was read, and of an attempt to read it *)
(* again and store it.                                                     *)
ArtworkOutcomes(file) ==
  IF file \in WithArtwork THEN {"stored", "storeFailed"}
  ELSE IF file \in WithInvalid THEN {"invalid"} ELSE {"notPresent"}

Retries(file) ==
  {"unavailable"} \cup (IF file \in Contents THEN ArtworkOutcomes(file) ELSE {"notPresent"})

(* What reading a file may give: nothing, when it cannot be opened, probed *)
(* or decoded, or the parser panics; no tags, when these cannot be read;   *)
(* all of it, but for a hash that cannot be read.  The three reads of one  *)
(* file are one step: no change of the file comes between them.            *)
Reading(file, tags, hash, art) ==
  [tags |-> tags, hash |-> hash, art |-> art,
   misread |-> file \in Contents /\ <<tags, hash>> # <<file, file>>]

Readings(file) ==
  {Reading(file, None, None, "notPresent")} \cup
  IF file \notin Contents THEN {}
  ELSE {Reading(file, Cleared, hash, "unavailable") : hash \in {file, None}} \cup
       {Reading(file, file, hash, art) :
          hash \in {file, None}, art \in ArtworkOutcomes(file)}

(* The tables hold these rows, and summaries of them.                      *)
Hold(lib, summary) ==
  [lib EXCEPT !.rows = summary.rows, !.albums = summary.albums, !.artists = summary.artists]

Init ==
  /\ disk = FirstFiles
  /\ LET first == Rebuilt(FirstRows)
     IN library = [rows |-> first.rows, albums |-> first.albums, artists |-> first.artists,
                   nextTrack |-> 1 + Cardinality({p \in Paths : HasTrack(FirstRows[p])})]
  /\ scan = Idle /\ cancel = FALSE /\ told = FALSE /\ past = NoPast
  /\ scans = 0 /\ changes = 0
-----------------------------------------------------------------------------
(* The actor starts a scan of directories of some folders, folder after    *)
(* folder.  Of a directory that is gone the nearest one that is there is   *)
(* walked, which is taken to be the folder.                                *)

Scope(root, asked) ==
  {asked} \cup (IF \E d \in asked : In({d}) \cap Files = {}
                THEN {DirsOf(root)} ELSE {})

StartScan(targets) ==
  /\ scan.at = "idle" /\ scans < MaxScans /\ targets # {}
  /\ scans' = scans + 1
  /\ LET roots == {r \in Roots : DirsOf(r) \cap targets # {}}
     IN /\ \E order \in SetToSeqs(roots) :
             \E scope \in [roots -> SUBSET Dirs] :
               /\ \A r \in roots : scope[r] \in Scope(r, targets \cap DirsOf(r))
               /\ scan' = [Idle EXCEPT !.at = "job",
                             !.jobs = [i \in DOMAIN order |-> scope[order[i]]]]
        /\ past' = [rows |-> rows, steady |-> {}, quiet |-> TRUE,
                    whole |-> targets = Dirs]
  /\ cancel' = FALSE /\ told' = FALSE
  /\ UNCHANGED <<disk, library, changes>>

CancelScan ==
  /\ scan.at \notin {"idle", "over"} /\ ~cancel
  /\ cancel' = TRUE
  /\ UNCHANGED <<disk, library, scan, told, past, scans, changes>>

End(outcome) ==
  scan' = [Idle EXCEPT !.at = "over", !.outcome = outcome]

(* The database fails, or the thread dies.                                 *)
Fail ==
  /\ scan.at \notin {"idle", "over"}
  /\ End("failed")
  /\ UNCHANGED <<disk, library, cancel, told, past, scans, changes>>

(* The flag is looked at before every folder and every file.               *)
Cancelled ==
  /\ cancel
  /\ \/ scan.at = "job" /\ scan.jobs # <<>>
     \/ scan.at = "walk" /\ ~BatchIsFull /\ ~scan.exhausted
  /\ End("cancelled")
  /\ UNCHANGED <<disk, library, cancel, told, past, scans, changes>>

(* begin_scan: no row of the folder has been seen by this generation.      *)
BeginRoot ==
  /\ scan.at = "job" /\ scan.jobs # <<>> /\ ~cancel
  /\ LET dirs == Head(scan.jobs)
         folder == In(DirsOf(RootOf[CHOOSE d \in dirs : TRUE]))
     IN /\ library' = [library EXCEPT !.rows = [p \in Paths |->
                          IF p \in folder /\ rows[p] # None
                          THEN [rows[p] EXCEPT !.seen = FALSE] ELSE rows[p]]]
        /\ scan' = [scan EXCEPT !.at = "walk", !.jobs = Tail(@), !.dirs = dirs,
                                !.todo = In(dirs), !.complete = TRUE]
        /\ past' = [past EXCEPT !.steady = (@ \ folder) \cup (Files \cap folder)]
  /\ UNCHANGED <<disk, cancel, told, scans, changes>>
-----------------------------------------------------------------------------
(* A batch: planned against the database, read, written.                   *)

Unchanged(p) == rows[p] # None /\ rows[p].key = disk[p]

Plan(p) ==
  [path |-> p, key |-> disk[p],
   does |-> IF ~Unchanged(p) THEN "inspect"
            ELSE IF Readable(rows[p]) /\ rows[p].art = "storeFailed" THEN "retry"
            ELSE "touch"]

Walking == scan.at = "walk" /\ ~cancel /\ ~scan.exhausted /\ ~BatchIsFull

(* The walk comes to a path; where there is no file it finds none.         *)
Discover(p) ==
  /\ Walking /\ p \in scan.todo
  /\ scan' = [scan EXCEPT !.todo = @ \ {p},
                !.planned = IF p \in Files THEN Append(@, Plan(p)) ELSE @]
  /\ UNCHANGED <<disk, library, cancel, told, past, scans, changes>>

(* A file that cannot be described: it failed, and the walk goes on.       *)
Unusable(p) ==
  /\ Walking /\ p \in scan.todo \cap Files
  /\ scan' = [scan EXCEPT !.todo = @ \ {p}]
  /\ past' = [past EXCEPT !.steady = @ \ {p}, !.quiet = FALSE]
  /\ UNCHANGED <<disk, library, cancel, told, scans, changes>>

(* The walk is at its end, or breaks.                                      *)
StopWalking ==
  /\ Walking
  /\ \E complete \in {scan.todo = {}, FALSE} :
       scan' = [scan EXCEPT !.exhausted = TRUE, !.complete = complete]
  /\ UNCHANGED <<disk, library, cancel, told, past, scans, changes>>

Flushing == scan.at = "walk" /\ (scan.exhausted \/ BatchIsFull)
Inspected == ToInspect \subseteq DOMAIN scan.read

(* A file is read as it is now, as far as it can be.  Threads share the    *)
(* batch: the order is any, and so is what a cancel leaves.                *)
Inspect(p) ==
  /\ Flushing /\ p \in ToInspect \ DOMAIN scan.read /\ ~cancel
  /\ \E result \in Readings(disk[p]) :
       /\ scan' = [scan EXCEPT !.read = Joined(@, [x \in {p} |-> result])]
       /\ result.misread => changes < MaxChanges
       /\ changes' = IF result.misread THEN changes + 1 ELSE changes
  /\ UNCHANGED <<disk, library, cancel, told, past, scans>>

(* Mutant: a file that is back stays missing.                              *)
TouchSeenOnly(w, p) == [w EXCEPT !.rows[p].seen = TRUE]

(* Mutant: what arrived in a scan that was cut off is forgotten.           *)
TouchForgets(w, p) ==
  [w EXCEPT !.rows[p].seen = TRUE, !.rows[p].missing = FALSE, !.rows[p].pending = FALSE]

(* A write in the making: the library, and the albums and directories that *)
(* are to be settled before it is committed.                               *)
Touch(w, p) == [w EXCEPT !.rows[p].seen = TRUE, !.rows[p].missing = FALSE]

TouchedTrack(w, p) ==
  [w EXCEPT !.albums = @ \cup (IF HasTrack(w.rows[p]) THEN {Album(w.rows, p)} ELSE {}),
            !.dirs = @ \cup (IF Readable(w.rows[p]) THEN {DirOf[p]} ELSE {})]

ApplyArtwork(w, p, art) == [TouchedTrack(w, p) EXCEPT !.rows[p].art = art]

StoreFile(w, plan, result) ==
  LET p == plan.path
      known == w.rows[p] # None
      tracked == HasTrack(w.rows[p])
      ok == result.tags # None
      row == [key |-> plan.key, seen |-> TRUE, missing |-> FALSE, art |-> result.art,
              hash |-> result.hash, misread |-> result.misread,
              pending |-> IF known THEN w.rows[p].pending ELSE ok,
              track |-> IF tracked THEN w.rows[p].track ELSE IF ok THEN w.nextTrack ELSE 0,
              tags |-> IF ok THEN result.tags ELSE IF tracked THEN Cleared ELSE None,
              under |-> IF result.tags \in Contents THEN Artist[result.tags] ELSE ""]
  IN TouchedTrack([TouchedTrack(w, p) EXCEPT
                     !.rows[p] = row,
                     !.nextTrack = IF ok /\ ~tracked THEN @ + 1 ELSE @], p)

(* A file that was to be read has its result, unless the scan was          *)
(* cancelled before; artwork to be stored again is read now.               *)
Apply(w, plan, retried) ==
  IF plan.does = "touch" THEN Touch(w, plan.path)
  ELSE IF plan.does = "retry"
  THEN ApplyArtwork(Touch(w, plan.path), plan.path, retried[plan.path])
  ELSE IF plan.path \in DOMAIN scan.read
  THEN StoreFile(w, plan, scan.read[plan.path])
  ELSE w

(* The write after so many files of the batch.                             *)
Applying(retried) ==
  LET w[k \in 0..Len(scan.planned)] ==
        IF k = 0
        THEN [rows |-> rows, nextTrack |-> library.nextTrack, albums |-> {}, dirs |-> {}]
        ELSE Apply(w[k - 1], scan.planned[k], retried)
  IN w

Applied(retried) == Applying(retried)[Len(scan.planned)]

Written(retried) ==
  LET w == Applied(retried)
  IN Settled([library EXCEPT !.rows = w.rows, !.nextTrack = w.nextTrack],
             w.albums, w.dirs)

Changes(plan) ==
  plan.does = "touch" => rows[plan.path].missing

(* write_batch: one transaction.  A scan that left files unread stops.     *)
WriteBatch ==
  /\ Flushing /\ (Inspected \/ cancel)
  /\ LET again == PathsTo("retry")
     IN \E retried \in [again -> UNION {Retries(disk[p]) : p \in again}] :
          /\ \A p \in again : retried[p] \in Retries(disk[p])
          /\ library' = Written(retried)
  /\ LET left == ToInspect \ DOMAIN scan.read
     IN told' = (told \/ \E plan \in ToSet(scan.planned) :
                           plan.path \notin left /\ Changes(plan))
  /\ IF ~Inspected THEN End("cancelled")
     ELSE scan' = [scan EXCEPT !.at = IF scan.exhausted THEN "finish" ELSE "walk",
                               !.planned = <<>>, !.read = <<>>]
  /\ UNCHANGED <<disk, cancel, past, scans, changes>>
-----------------------------------------------------------------------------
(* The end of a folder, and of the scan.                                   *)

Vanished(dirs) ==
  {p \in In(dirs) : rows[p] # None /\ ~rows[p].seen /\ ~rows[p].missing}

(* finish_root: what was not seen within the scope is missing.  A folder   *)
(* is marked at once, directories of it one by one.                        *)
MarkMissing ==
  /\ scan.at = "finish" /\ scan.complete /\ scan.dirs # {}
  /\ \E dirs \in IF scan.dirs \in {DirsOf(r) : r \in Roots} THEN {scan.dirs}
                 ELSE {{d} : d \in scan.dirs} :
       /\ library' = [library EXCEPT !.rows = [p \in Paths |->
                         IF p \in Vanished(dirs) THEN [rows[p] EXCEPT !.missing = TRUE]
                         ELSE rows[p]]]
       /\ scan' = [scan EXCEPT !.dirs = @ \ dirs,
                               !.gone = @ \/ Vanished(dirs) # {}]
  /\ UNCHANGED <<disk, cancel, told, past, scans, changes>>

FinishRoot ==
  /\ scan.at = "finish" /\ (scan.dirs = {} \/ ~scan.complete)
  /\ told' = (told \/ scan.gone)
  /\ scan' = [Idle EXCEPT !.at = "job", !.jobs = scan.jobs,
                !.traversalFailed = scan.traversalFailed \/ ~scan.complete]
  /\ UNCHANGED <<disk, library, cancel, past, scans, changes>>

Arrived == {p \in Paths : HasTrack(rows[p]) /\ rows[p].pending /\ ~rows[p].missing}
Missing == {p \in Paths : HasTrack(rows[p]) /\ rows[p].missing}

(* Every folder has been walked: moved files are found again.              *)
Relink ==
  /\ scan.at = "job" /\ scan.jobs = <<>> /\ ~scan.traversalFailed
  /\ \E arrived \in SetToSeqs(Arrived), missing \in SetToSeqs(Missing) :
       LET pairs == PairMoves(rows, arrived, missing)
           table == Relinked(rows, pairs)
       IN /\ library' = IF pairs = {} THEN [library EXCEPT !.rows = table]
                        ELSE Hold(library, Rebuilt(table))
          /\ told' = (told \/ pairs # {})
  /\ End("completed")
  /\ UNCHANGED <<disk, cancel, past, scans, changes>>

TraversalFailed ==
  /\ scan.at = "job" /\ scan.jobs = <<>> /\ scan.traversalFailed
  /\ End("failed")
  /\ UNCHANGED <<disk, library, cancel, told, past, scans, changes>>

(* The actor has heard of the end.                                         *)
Reap ==
  /\ scan.at = "over"
  /\ scan' = Idle /\ past' = NoPast /\ told' = FALSE
  /\ UNCHANGED <<disk, library, cancel, scans, changes>>

Scan ==
  \/ \E p \in Paths : Discover(p) \/ Unusable(p) \/ Inspect(p)
  \/ Cancelled \/ BeginRoot \/ StopWalking \/ WriteBatch
  \/ MarkMissing \/ FinishRoot \/ Relink \/ TraversalFailed \/ Fail
-----------------------------------------------------------------------------
(* Files come, go, move and are rewritten; the listener forgets what is    *)
(* missing, between scans.                                                 *)

Told(p, file) ==
  /\ Agrees(rows[p], file)
  /\ \A plan \in ToSet(scan.planned) : plan.path = p => plan.key # file

FilesChange(files) ==
  /\ changes < MaxChanges /\ scan.at # "over" /\ files # disk
  /\ \A p \in Paths : files[p] \notin {disk[p], None} => Told(p, files[p])
  /\ changes' = changes + 1 /\ disk' = files
  /\ past' = [past EXCEPT !.quiet = FALSE,
                          !.steady = {p \in @ : files[p] # None}]
  /\ UNCHANGED <<library, scan, cancel, told, scans>>

Rewrite(p) == \E file \in FileOrNone : FilesChange([disk EXCEPT ![p] = file])
(* A file moves, and may be converted or retagged on the way.              *)
SameRecording(a, b) ==
  a \in Contents /\ b \in Contents /\ Recording[a] # None /\ Recording[a] = Recording[b]
Move(p, q) ==
  /\ p \in Files /\ q \notin Files
  /\ \E file \in Contents \cup {disk[p]} :
       /\ file = disk[p] \/ SameRecording(file, disk[p])
       /\ FilesChange([disk EXCEPT ![p] = None, ![q] = file])

DeleteMissing ==
  /\ scan.at = "idle" /\ \E p \in Paths : rows[p] # None /\ rows[p].missing
  /\ LET left == [p \in Paths |->
                    IF rows[p] # None /\ rows[p].missing THEN None ELSE rows[p]]
     IN library' = Hold(library, Rebuilt(left))
  /\ UNCHANGED <<disk, scan, cancel, told, past, scans, changes>>

World ==
  \/ \E p \in Paths : Rewrite(p) \/ \E q \in Paths : Move(p, q)
  \/ \E targets \in SUBSET Dirs : StartScan(targets)
  \/ CancelScan \/ Reap \/ DeleteMissing

Next == Scan \/ World

Spec == Init /\ [][Next]_vars
-----------------------------------------------------------------------------
(* Properties.                                                             *)

(* Types, and that a batch is never larger than allowed.                   *)
Scans ==
  [at : {"idle", "job", "walk", "finish", "over"}, jobs : Seq(SUBSET Dirs),
   dirs : SUBSET Dirs, todo : SUBSET Paths, planned : Seq(Plans),
   read : UNION {[read -> Results] : read \in SUBSET Paths},
   exhausted : BOOLEAN, complete : BOOLEAN, gone : BOOLEAN, traversalFailed : BOOLEAN,
   outcome : {"none", "completed", "cancelled", "failed"}]
Pasts ==
  [rows : [Paths -> RowOrNone], steady : SUBSET Paths, quiet : BOOLEAN, whole : BOOLEAN]

TypeOK ==
  /\ disk \in [Paths -> FileOrNone]
  /\ DOMAIN library = {"rows", "albums", "artists", "nextTrack"}
  /\ rows \in [Paths -> RowOrNone] /\ library.nextTrack \in Nat
  /\ scan \in Scans
  /\ Len(scan.planned) <= BatchSize
  /\ cancel \in BOOLEAN /\ told \in BOOLEAN
  /\ past \in Pasts

(* Albums and artists are kept row by row, yet they are at any time what a *)
(* rebuild from the tracks would give, compilations included.              *)
SummariesFollowTheTracks ==
  Rebuilt(rows) =
    [rows |-> rows, albums |-> library.albums, artists |-> library.artists]

(* When a scan of everything completes and no file changed meanwhile, the  *)
(* Library holds the files there are and no others.  What it says of a     *)
(* file is true of it as it is now, and is all of it, unless a read failed *)
(* when the file was last stored: that file stays as it is until it        *)
(* changes, since its size and time are kept of a failed read too.         *)
CompletedScanIsTrue ==
  scan.outcome = "completed" /\ past.whole /\ past.quiet =>
    \A p \in Paths :
      /\ p \in Files <=> rows[p] # None /\ ~rows[p].missing
      /\ p \in Files => rows[p].key = disk[p] /\ TrueOf(rows[p], disk[p])

(* A file that moved is the same track again once a scan of everything     *)
(* completes undisturbed, when its hash could be read at both places and   *)
(* is that of no other file or row, also after scans that were cancelled,  *)
(* failed, or saw it arrive before its old place was known to be empty.    *)
Moved(p, q) ==
  /\ HasTrack(past.rows[p]) /\ past.rows[p].hash = disk[q]
  /\ disk[p] = None /\ disk[q] \in Contents
  /\ \A x \in Paths \ {p, q} :
       /\ disk[x] # disk[q]
       /\ past.rows[x] # None => past.rows[x].hash # disk[q]
MovesAreFollowed ==
  scan.outcome = "completed" /\ past.whole /\ past.quiet =>
    \A p, q \in Paths :
      /\ Moved(p, q) /\ (past.rows[q] = None \/ past.rows[q].pending)
      /\ rows[q].hash # None
      => HasTrack(rows[q]) /\ rows[q].track = past.rows[p].track

(* mod.rs, before the relinking: "Only once every folder has been seen in  *)
(* full is a Missing track known to be missing, and so a file that arrived *)
(* known to be that track moved."                                          *)
ArrivalsWaitForEveryFolder ==
  [][\A p, q \in Paths :
       /\ scan.at = "job" /\ scan'.outcome = "completed" /\ past.quiet
       /\ p \in Arrived \cap Files /\ q \notin Files
       /\ rows[q] # None /\ ~rows[q].missing /\ SameHash(rows, p, q)
       => rows'[p].pending]_vars
=============================================================================
