---------------------------- MODULE LibrarySync ----------------------------
(***************************************************************************)
(* The write side of the Library: the sync actor of library/sync, the file *)
(* watchers and the scanner thread that send it inputs, and the listener's *)
(* commands.                                                               *)
(*                                                                         *)
(* A folder is a set of directories, and a place is a directory of a       *)
(* folder; `changed` holds the places that differ from what the Library    *)
(* has indexed, which no part of the program knows.  Everything in a       *)
(* folder is all its directories.  A deadline is a place in time: none, to *)
(* come ("later") or reached ("due").  The rules of one step of the actor  *)
(* are functions on its state, as they are in step.rs; what one step asks  *)
(* for is carried out effect by effect, while watchers, scanner and files  *)
(* go on.  What happens below a folder's directories (files, batches,      *)
(* moved tracks) is left out.                                              *)
(***************************************************************************)
EXTENDS Integers, Sequences, SequencesExt

CONSTANTS Roots,        \* the folders a listener may register
          Dirs,         \* the directories of each folder
          Registered,   \* the folders the database has at first
          MaxChanges,   \* bound: changes of files and losses of artwork
          MaxCommands   \* bound: commands of the listener

ASSUME LibraryAssumption ==
  /\ IsFiniteSet(Roots) /\ DOMAIN Dirs = Roots /\ \A r \in Roots : Dirs[r] # {}
  /\ Registered \subseteq Roots
  /\ MaxChanges \in Nat /\ MaxCommands \in Nat

VARIABLES
  sync,      \* the actor's State, and the effects it has yet to carry out
  inputs,    \* inputs the actor's own effects produced
  channel,   \* inputs the watchers and the scanner sent
  watchers,  \* the folders with a live watcher
  folder,    \* what the database says of each folder
  cancel,    \* the flag the scanner looks at
  scanner,   \* the scanner thread
  shown,     \* the state of the published snapshot
  changed,   \* the places that differ from the Library
  broken,    \* the folders some of whose artwork has lost its file
  excused,   \* history: changes given up by a cancel or a failure
  changes, commands

stepVars == <<sync, inputs>>
threadVars == <<channel, watchers, cancel, scanner, shown>>
vars == <<stepVars, threadVars, folder, changed, broken, excused,
          changes, commands>>

NoWork == [r \in Roots |-> {}]
Whole(ids) == [r \in Roots |-> IF r \in ids THEN Dirs[r] ELSE {}]
Places(work) == UNION {{r} \X work[r] : r \in Roots}
Retrying == {"retryLater", "retryDue", "retrying"}
NoScanner == [at |-> "none", todo |-> NoWork, broke |-> FALSE]
Enabled == {r \in Roots : folder[r] = "enabled"}
-----------------------------------------------------------------------------
(* The decisions: State::step of step.rs, on a state s and one input i.    *)

Push(s, effect) == [s EXCEPT !.out = Append(@, effect)]

(* Every one of these folders is to get a watcher.                         *)
Attaches(roots) ==
  LET order == SetToSeq(roots)
  IN [k \in DOMAIN order |-> [kind |-> "attach", root |-> order[k]]]

(* Work is added and its deadline is set; a later one replaces it.         *)
Dirtied(s, work, when) ==
  [s EXCEPT !.dirty = [r \in Roots |-> @[r] \cup work[r]], !.debounce = when]

Watch(s, r) ==
  Push([s EXCEPT !.watch[r] = "attaching"], [kind |-> "attach", root |-> r])

Release(s, r) ==
  LET dropped == [s EXCEPT !.dirty[r] = {}, !.watch[r] = "none"]
  IN IF s.watch[r] = "none" THEN dropped
     ELSE Push(dropped, [kind |-> "detach", root |-> r])

ScanRequested(s, roots) ==
  IF s.scanning THEN s
  ELSE Push([s EXCEPT !.dirty = NoWork, !.debounce = "none", !.scanning = TRUE],
            [kind |-> "startScan", targets |-> Whole(roots)])

CancelRequested(s) ==
  LET dropped == [s EXCEPT !.dirty = NoWork, !.debounce = "none"]
  IN IF s.scanning THEN Push(dropped, [kind |-> "cancelScan"]) ELSE dropped

AttachedQuietly(s, r) ==
  IF s.watch[r] = "none" THEN Push(s, [kind |-> "detach", root |-> r])
  ELSE [s EXCEPT !.watch[r] = "attached"]

(* A watcher that had to be retried missed whatever changed meanwhile.     *)
Attached(s, r) ==
  IF s.watch[r] = "none" THEN Push(s, [kind |-> "detach", root |-> r])
  ELSE [(IF s.watch[r] \in Retrying THEN Dirtied(s, Whole({r}), "due") ELSE s)
          EXCEPT !.watch[r] = "attached"]

ScanFinished(s, outcome) ==
  LET left == IF outcome = "cancelled" THEN NoWork ELSE s.dirty
      waits == IF outcome = "cancelled" THEN "none" ELSE s.debounce
  IN [s EXCEPT !.scanning = FALSE, !.dirty = left,
               !.gc = @ \/ outcome = "completed",
               !.debounce = IF left # NoWork /\ waits = "none"
                            THEN "due" ELSE waits]

Handled(s, i) ==
  CASE i.kind = "enabled" -> Watch(Dirtied(s, Whole({i.root}), "due"), i.root)
    [] i.kind = "disabled" -> Release(s, i.root)
    [] i.kind = "removed" -> [Release(s, i.root) EXCEPT !.gc = TRUE]
    [] i.kind = "missingDeleted" -> [s EXCEPT !.gc = TRUE]
    [] i.kind = "scanRequested" -> ScanRequested(s, i.roots)
    [] i.kind = "cancelRequested" -> CancelRequested(s)
    [] i.kind = "changed" /\ s.watch[i.root] # "none" ->
         Dirtied(s, [NoWork EXCEPT ![i.root] = i.dirs], "later")
    [] i.kind = "attached" -> Attached(s, i.root)
    [] i.kind = "attachFailed" /\ s.watch[i.root] # "none" ->
         [s EXCEPT !.watch[i.root] = "retryLater"]
    [] i.kind = "scanFinished" -> ScanFinished(s, i.outcome)
    [] i.kind = "gcFinished" /\ i.rescan # {} -> Dirtied(s, Whole(i.rescan), "due")
    [] OTHER -> s

(* What is due: retries of watchers, a scan, the garbage collection.       *)
Retried(s) ==
  LET due == {r \in Roots : s.watch[r] = "retryDue"}
  IN [s EXCEPT !.watch = [r \in Roots |-> IF r \in due THEN "retrying" ELSE @[r]],
               !.out = @ \o Attaches(due)]

AdvanceCollecting(s) ==
  LET now == Retried(s)
      waits == IF s.debounce = "due" THEN "none" ELSE s.debounce
  IN IF ~s.scanning /\ s.debounce = "due" /\ s.dirty # NoWork
     THEN Push([now EXCEPT !.debounce = "none", !.dirty = NoWork, !.scanning = TRUE],
               [kind |-> "startScan", targets |-> s.dirty])
     ELSE IF s.gc /\ waits = "none" /\ s.dirty = NoWork
     THEN Push([now EXCEPT !.debounce = "none", !.gc = FALSE], [kind |-> "runGc"])
     ELSE [now EXCEPT !.debounce = waits]

Advance(s) ==
  LET now == Retried(s)
      waits == IF s.debounce = "due" THEN "none" ELSE s.debounce
  IN IF s.scanning THEN now
     ELSE IF s.debounce = "due" /\ s.dirty # NoWork
     THEN Push([now EXCEPT !.debounce = "none", !.dirty = NoWork, !.scanning = TRUE],
               [kind |-> "startScan", targets |-> s.dirty])
     ELSE IF s.gc /\ waits = "none" /\ s.dirty = NoWork
     THEN Push([now EXCEPT !.debounce = "none", !.gc = FALSE], [kind |-> "runGc"])
     ELSE [now EXCEPT !.debounce = waits]
-----------------------------------------------------------------------------
(* The actor thread of mod.rs.                                             *)

Waiting == sync.out = <<>> /\ inputs = <<>>

(* The actor starts with the folders the database has; all are scanned.    *)
Init ==
  /\ folder = [r \in Roots |-> IF r \in Registered THEN "enabled" ELSE "absent"]
  /\ sync = [dirty |-> Whole(Enabled), debounce |-> "later", gc |-> TRUE,
             scanning |-> FALSE,
             watch |-> [r \in Roots |-> IF r \in Enabled THEN "attaching" ELSE "none"],
             out |-> Attaches(Enabled)]
  /\ inputs = <<>> /\ channel = <<>> /\ watchers = {}
  /\ cancel = FALSE /\ scanner = NoScanner /\ shown = "idle"
  /\ changed = Places(Whole(Enabled)) /\ broken = {}
  /\ excused = {}
  /\ changes = 0 /\ commands = 0

(* One input is stepped.  The end of a scan joins its thread first.  What  *)
(* a cancel drops is given up knowingly.                                   *)
Feed(i) ==
  /\ sync' = Advance(Handled(sync, i))
  /\ scanner' = IF i.kind = "scanFinished" THEN NoScanner ELSE scanner
  /\ LET drops == \/ i.kind = "cancelRequested"
                  \/ i.kind = "scanFinished" /\ i.outcome = "cancelled"
     IN excused' = IF drops THEN excused \cup Places(sync.dirty) ELSE excused

FeedNext ==
  /\ sync.out = <<>> /\ inputs # <<>>
  /\ Feed(Head(inputs)) /\ inputs' = Tail(inputs)
  /\ UNCHANGED <<channel, watchers, cancel, shown, folder, changed, broken,
                 changes, commands>>

Receive ==
  /\ Waiting /\ channel # <<>>
  /\ Feed(Head(channel)) /\ channel' = Tail(channel)
  /\ UNCHANGED <<inputs, watchers, cancel, shown, folder, changed, broken,
                 changes, commands>>

(* The deadline the actor waits for is reached, and nothing was sent; a    *)
(* debounce does not wake it during a scan.                                *)
Tick ==
  /\ Waiting /\ channel = <<>>
  /\ \/ sync.debounce = "due" /\ ~sync.scanning
     \/ \E r \in Roots : sync.watch[r] = "retryDue"
  /\ Feed([kind |-> "tick"])
  /\ UNCHANGED <<inputs, channel, watchers, cancel, shown, folder, changed,
                 broken, changes, commands>>

(* Effects, carried out in order.                                          *)
Attach(r) ==
  \E ok \in {TRUE, FALSE} :
    /\ ok => folder[r] = "enabled"
    /\ watchers' = IF ok THEN watchers \cup {r} ELSE watchers
    /\ inputs' = Append(inputs, [kind |-> IF ok THEN "attached" ELSE "attachFailed",
                                 root |-> r])
    /\ UNCHANGED <<cancel, scanner, shown, broken, excused>>

Detach(r) ==
  /\ watchers' = watchers \ {r}
  /\ UNCHANGED <<inputs, cancel, scanner, shown, broken, excused>>

RunGcKeepingLinks ==
  /\ inputs' = Append(inputs, [kind |-> "gcFinished", rescan |-> broken])
  /\ UNCHANGED <<watchers, cancel, scanner, shown, broken, excused>>

(* Broken artwork is unlinked, and its folders are to be scanned again; a  *)
(* collection that fails finds none.                                       *)
RunGc ==
  \E found \in {broken, {}} :
    /\ broken' = broken \ found
    /\ inputs' = Append(inputs, [kind |-> "gcFinished", rescan |-> found])
    /\ UNCHANGED <<watchers, cancel, scanner, shown, excused>>

(* The folders that are still enabled are scanned; when there are none, or *)
(* they cannot be read, the scan is over at once.                          *)
StartScan(targets) ==
  \E readable \in {TRUE, FALSE} :
    LET jobs == [r \in Roots |-> IF readable /\ r \in Enabled THEN targets[r] ELSE {}]
    IN /\ IF jobs = NoWork
          THEN /\ inputs' = Append(inputs, [kind |-> "scanFinished",
                                            outcome |-> "completed"])
               /\ UNCHANGED <<cancel, shown, scanner>>
          ELSE /\ cancel' = FALSE /\ shown' = "running"
               /\ scanner' = [NoScanner EXCEPT !.at = "walking", !.todo = jobs]
               /\ UNCHANGED inputs
       /\ excused' = IF readable THEN excused ELSE excused \cup Places(targets)
       /\ UNCHANGED <<watchers, broken>>

CancelScan ==
  /\ cancel' = TRUE
  /\ UNCHANGED <<inputs, watchers, scanner, shown, broken, excused>>

Execute ==
  /\ sync.out # <<>>
  /\ sync' = [sync EXCEPT !.out = Tail(@)]
  /\ LET effect == Head(sync.out)
     IN \/ effect.kind = "attach" /\ Attach(effect.root)
        \/ effect.kind = "detach" /\ Detach(effect.root)
        \/ effect.kind = "runGc" /\ RunGc
        \/ effect.kind = "startScan" /\ StartScan(effect.targets)
        \/ effect.kind = "cancelScan" /\ CancelScan
  /\ UNCHANGED <<channel, folder, changed, changes, commands>>

Actor == Execute \/ FeedNext \/ Receive \/ Tick
-----------------------------------------------------------------------------
(* The listener's commands.  Folders cannot change under a running scan.   *)

Command(i) ==
  /\ Waiting /\ commands < MaxCommands
  /\ Feed(i) /\ commands' = commands + 1
  /\ UNCHANGED <<inputs, channel, watchers, cancel, shown, changes>>

RegisterRoot(r) ==
  /\ ~sync.scanning /\ folder[r] = "absent"
  /\ Command([kind |-> "enabled", root |-> r])
  /\ folder' = [folder EXCEPT ![r] = "enabled"]
  /\ changed' = changed \cup ({r} \X Dirs[r])
  /\ UNCHANGED broken

SetRootEnabled(r, enabled) ==
  /\ ~sync.scanning /\ folder[r] # "absent"
  /\ Command([kind |-> IF enabled THEN "enabled" ELSE "disabled", root |-> r])
  /\ folder' = [folder EXCEPT ![r] = IF enabled THEN "enabled" ELSE "disabled"]
  /\ UNCHANGED <<changed, broken>>

RemoveRoot(r) ==
  /\ ~sync.scanning /\ folder[r] # "absent"
  /\ Command([kind |-> "removed", root |-> r])
  /\ folder' = [folder EXCEPT ![r] = "absent"]
  /\ changed' = changed \ ({r} \X Dirs[r]) /\ broken' = broken \ {r}

DeleteMissing ==
  /\ ~sync.scanning
  /\ Command([kind |-> "missingDeleted"])
  /\ UNCHANGED <<folder, changed, broken>>

StartCommand ==
  /\ ~sync.scanning /\ Enabled # {}
  /\ Command([kind |-> "scanRequested", roots |-> Enabled])
  /\ UNCHANGED <<folder, changed, broken>>

CancelCommand ==
  /\ sync.scanning
  /\ Command([kind |-> "cancelRequested"])
  /\ UNCHANGED <<folder, changed, broken>>

Listener ==
  \/ \E r \in Roots : \/ RegisterRoot(r)
                      \/ \E enabled \in {TRUE, FALSE} : SetRootEnabled(r, enabled)
                      \/ RemoveRoot(r)
  \/ DeleteMissing
  \/ StartCommand
  \/ CancelCommand
-----------------------------------------------------------------------------
(* The scanner thread.                                                     *)

(* A directory is walked, and what is in it is written.                    *)
Visit(r, d) ==
  /\ scanner.at = "walking" /\ d \in scanner.todo[r]
  /\ scanner' = [scanner EXCEPT !.todo[r] = @ \ {d}]
  /\ changed' = changed \ {<<r, d>>} /\ excused' = excused \ {<<r, d>>}
  /\ UNCHANGED <<channel, shown>>

(* The walk of a folder breaks: the rest of the folder is left.            *)
WalkFails(r) ==
  /\ scanner.at = "walking" /\ scanner.todo[r] # {}
  /\ scanner' = [scanner EXCEPT !.todo[r] = {}, !.broke = TRUE]
  /\ excused' = excused \cup ({r} \X scanner.todo[r])
  /\ UNCHANGED <<channel, shown, changed>>

(* How the scan ended is published, and the actor is told.  The database   *)
(* may fail and the thread may die at any moment.                          *)
Finish(outcome) ==
  /\ scanner.at = "walking"
  /\ outcome = "completed" => scanner.todo = NoWork /\ ~scanner.broke
  /\ outcome = "cancelled" => cancel
  /\ shown' = outcome
  /\ scanner' = [NoScanner EXCEPT !.at = "ended"]
  /\ channel' = Append(channel, [kind |-> "scanFinished", outcome |-> outcome])
  /\ excused' = excused \cup Places(scanner.todo)
  /\ UNCHANGED changed

Scanner ==
  /\ \/ \E r \in Roots : WalkFails(r) \/ \E d \in Dirs[r] : Visit(r, d)
     \/ \E outcome \in {"completed", "cancelled", "failed"} : Finish(outcome)
  /\ UNCHANGED <<stepVars, watchers, cancel, folder, broken, changes,
                 commands>>
-----------------------------------------------------------------------------
(* The world: files change, and a watcher tells where, or that it cannot;  *)
(* artwork files are lost; time passes.                                    *)

FilesChange(r, d) ==
  /\ folder[r] # "absent" /\ changes < MaxChanges
  /\ changes' = changes + 1
  /\ changed' = changed \cup {<<r, d>>} /\ excused' = excused \ {<<r, d>>}
  /\ \E dirs \in {{d}, Dirs[r]} :
       channel' = IF r \in watchers
                  THEN Append(channel, [kind |-> "changed", root |-> r, dirs |-> dirs])
                  ELSE channel
  /\ UNCHANGED <<stepVars, watchers, folder, cancel, scanner, shown, broken,
                 commands>>

LoseArtwork(r) ==
  /\ folder[r] # "absent" /\ r \notin broken /\ changes < MaxChanges
  /\ changes' = changes + 1
  /\ broken' = broken \cup {r}
  /\ UNCHANGED <<stepVars, threadVars, folder, changed, excused, commands>>

ChangesSettle ==
  /\ sync.debounce = "later"
  /\ sync' = [sync EXCEPT !.debounce = "due"]
  /\ UNCHANGED <<inputs, threadVars, folder, changed, broken, excused, changes,
                 commands>>

(* Ten seconds are longer than the actor works without waiting.            *)
RetryComesDue(r) ==
  /\ Waiting /\ sync.watch[r] = "retryLater"
  /\ sync' = [sync EXCEPT !.watch[r] = "retryDue"]
  /\ UNCHANGED <<inputs, threadVars, folder, changed, broken, excused, changes,
                 commands>>

World ==
  \/ \E r \in Roots : \/ \E d \in Dirs[r] : FilesChange(r, d)
                      \/ LoseArtwork(r)
                      \/ RetryComesDue(r)
  \/ ChangesSettle

Next == Actor \/ Listener \/ Scanner \/ World

Spec == Init /\ [][Next]_vars

(* Both threads run, and time passes.  Nobody has to change a file or give *)
(* a command.                                                              *)
FairSpec ==
  /\ Spec /\ WF_vars(Actor) /\ WF_vars(Scanner) /\ WF_vars(ChangesSettle)
-----------------------------------------------------------------------------
(* Properties.                                                             *)

(* The types, and that a scan is shown as running exactly while there is   *)
(* one, also when its thread dies.                                         *)
TypeOK ==
  /\ \A r \in Roots : sync.dirty[r] \cup scanner.todo[r] \subseteq Dirs[r]
  /\ sync.debounce \in {"none", "later", "due"}
  /\ sync.gc \in BOOLEAN /\ sync.scanning \in BOOLEAN
  /\ sync.watch \in [Roots -> {"none", "attaching", "attached"} \cup Retrying]
  /\ watchers \subseteq Roots
  /\ folder \in [Roots -> {"absent", "enabled", "disabled"}]
  /\ cancel \in BOOLEAN
  /\ scanner.at \in {"none", "walking", "ended"}
  /\ scanner.broke \in BOOLEAN
  /\ scanner.at # "none" => sync.scanning
  /\ shown = "running" <=> scanner.at = "walking"
  /\ shown \in {"idle", "running", "completed", "cancelled", "failed"}
  /\ changed \cup excused \subseteq Places(Dirs)
  /\ broken \subseteq Roots
  /\ changes \in 0..MaxChanges /\ commands \in 0..MaxCommands

(* A change in an enabled folder is never forgotten, whatever the folders, *)
(* watchers and scans go through: it waits for a deadline or for the end   *)
(* of a scan, a scan is about to reach it, its report is on the way, or    *)
(* the watcher is being retried, and all will be scanned once it attaches. *)
(* Only what a cancel or a failed scan left behind is given up.            *)
ChangesAreNotForgotten ==
  \A r \in Roots : \A d \in Dirs[r] :
    <<r, d>> \in changed \ excused /\ folder[r] = "enabled" =>
      \/ d \in sync.dirty[r] /\ (sync.scanning \/ sync.debounce # "none")
      \/ d \in scanner.todo[r]
      \/ \E e \in ToSet(sync.out) : e.kind = "startScan" /\ d \in e.targets[r]
      \/ \E i \in ToSet(channel) : i.kind = "changed" /\ i.root = r /\ d \in i.dirs
      \/ \/ sync.watch[r] \in Retrying
         \/ [kind |-> "attachFailed", root |-> r] \in ToSet(inputs)

(* The garbage collection, which deletes artwork files no track refers to, *)
(* never runs beside a scanner, which writes them before the tracks do.    *)
GcNeverMeetsAScan ==
  sync.out # <<>> /\ Head(sync.out).kind = "runGc" => scanner.at = "none"

(* Left alone, the actor comes to rest: scans, collections and the rescans *)
(* they ask for do not go in circles, and no scan is shown as running.     *)
AtRest ==
  /\ ~sync.scanning /\ sync.dirty = NoWork /\ ~sync.gc /\ channel = <<>>
  /\ shown # "running"

ActorComesToRest == <>[]AtRest
=============================================================================
