----------------------------- MODULE Application -----------------------------
(***************************************************************************)
(* The program from its start to its end, and again: BackendApp            *)
(* (app/mod.rs) with its settings and its Library, the thread of playback  *)
(* that has settings remembered, and the two ways the host ends it         *)
(* (src-tauri/src/lib.rs, commands/library.rs).  It may die at any step.   *)
(***************************************************************************)
EXTENDS SettingsFile, LibraryFile

CONSTANTS FirstFiles,   \* what settings.json may be at first
          MaxChanges, MaxFaults, MaxCrashes, MaxStarts      \* bounds

ASSUME FilesAssumption == FirstFiles \subseteq Files

Callers == {"exit", "reset"}

VARIABLES
  program,      \* what start has come to, "down" or "up"
  playback,     \* "down", "up", or "ending" once told to
  shutdown,     \* by caller: what of BackendApp::shutdown comes next, or "none"
  changes, faults, crashes, starts,     \* counters, see the bounds
  due           \* history: the settings when the writer was closed, or None

programVars == <<program, playback, shutdown>>
counters == <<changes, faults, crashes, starts>>
vars == <<settingsVars, libraryVars, programVars, counters, due>>

Init ==
  /\ InitSettings(FirstFiles) /\ InitLibrary
  /\ program = "down" /\ playback = "down" /\ shutdown = [c \in Callers |-> "none"]
  /\ changes = 0 /\ faults = 0 /\ crashes = 0 /\ starts = 0
  /\ due = None

Fault == faults < MaxFaults /\ faults' = faults + 1
SameCounts == UNCHANGED <<changes, crashes, starts>>
-----------------------------------------------------------------------------
(* Start.                                                                  *)

LoadSettings ==
  /\ program = "down" /\ starts < MaxStarts
  /\ starts' = starts + 1
  /\ \/ Load(TRUE, TRUE, TRUE) /\ UNCHANGED faults
     \/ /\ Fault
        /\ \/ Load(FALSE, TRUE, TRUE)
           \/ Load(TRUE, FALSE, TRUE)
           \/ Load(TRUE, TRUE, FALSE)
  /\ program' = "opening the library"
  /\ due' = None
  /\ UNCHANGED <<libraryVars, playback, shutdown, changes, crashes>>

OpenLibrary ==
  /\ program = "opening the library"
  /\ \/ /\ \/ Open \/ MoveAside \/ MoveLogAside \/ Unmark(TRUE)
           \/ OpenDatabase \/ BackUp \/ BackedUp \/ Migrate
        /\ UNCHANGED faults
     \/ /\ Fault
        /\ MoveAsideFails \/ MoveLogAsideFails \/ Unmark(FALSE) \/ OpenFails
  /\ UNCHANGED <<settingsVars, programVars, due>> /\ SameCounts

StartPlayback ==
  /\ program = "opening the library" /\ library \in {"ready", "unavailable"}
  /\ program' = "up" /\ playback' = "up"
  /\ UNCHANGED <<settingsVars, libraryVars, shutdown, counters, due>>

(* Everything a process has but its files.                                 *)
Die ==
  /\ ForgetSettings /\ ForgetLibrary
  /\ program' = "down" /\ playback' = "down" /\ shutdown' = [c \in Callers |-> "none"]

(* Without playback there is no program; nothing was changed yet.          *)
StartPlaybackFails ==
  /\ program = "opening the library" /\ library \in {"ready", "unavailable"}
  /\ Fault
  /\ Die
  /\ UNCHANGED due /\ SameCounts
-----------------------------------------------------------------------------
(* While it runs.                                                          *)

(* The worker has a preference remembered, also what was sent to it before *)
(* it was told to end.                                                     *)
RecordPlayback ==
  /\ playback \in {"up", "ending"} /\ changes < MaxChanges
  /\ changes' = changes + 1
  /\ Modify("playback", changes')
  /\ UNCHANGED <<libraryVars, programVars, faults, crashes, starts, due>>

(* A command of the renderer; nothing keeps it from coming late.           *)
UpdateAppearance ==
  /\ program = "up" /\ changes < MaxChanges
  /\ changes' = changes + 1
  /\ Modify("appearance", changes')
  /\ UNCHANGED <<libraryVars, programVars, faults, crashes, starts, due>>

WriteSettings ==
  /\ program # "down"
  /\ \/ (Receive \/ Flush \/ Write \/ Rename \/ Ends) /\ UNCHANGED faults
     \/ Fault /\ WriteFails
  /\ UNCHANGED <<libraryVars, programVars, due>> /\ SameCounts

EndPlayback ==
  /\ playback = "ending"
  /\ playback' = "down"
  /\ UNCHANGED <<settingsVars, libraryVars, program, shutdown, counters, due>>
-----------------------------------------------------------------------------
(* The end.                                                                *)

(* The Library is asked to be reset, then the program to start again.      *)
ResetLibrary ==
  /\ program = "up" /\ shutdown["reset"] = "none" /\ starts < MaxStarts
  /\ RequestReset
  /\ shutdown' = [shutdown EXCEPT !["reset"] = "playback"]
  /\ UNCHANGED <<settingsVars, program, playback, counters, due>>

Exit ==
  /\ program = "up" /\ shutdown["exit"] = "none"
  /\ shutdown' = [shutdown EXCEPT !["exit"] = "playback"]
  /\ UNCHANGED <<settingsVars, libraryVars, program, playback, counters, due>>

(* Mutant: the settings are closed before playback has ended.              *)
ShutDownPlaybackLater(caller) ==
  /\ shutdown[caller] = "playback"
  /\ playback' = IF playback = "up" THEN "ending" ELSE playback
  /\ shutdown' = [shutdown EXCEPT ![caller] = "settings"]
  /\ UNCHANGED <<settingsVars, libraryVars, program, counters, due>>

ShutDownPlayback(caller) ==
  /\ \/ /\ shutdown[caller] = "playback"
        /\ playback' = IF playback = "up" THEN "ending" ELSE playback
        /\ shutdown' = [shutdown EXCEPT ![caller] = "joining playback"]
     \/ /\ shutdown[caller] = "joining playback" /\ playback = "down"
        /\ shutdown' = [shutdown EXCEPT ![caller] = "settings"]
        /\ UNCHANGED playback
  /\ UNCHANGED <<settingsVars, libraryVars, program, counters, due>>

(* The Library has been shut down in between, which leaves its file as it  *)
(* is.                                                                     *)
ShutDownSettings(caller) ==
  /\ shutdown[caller] = "settings"
  /\ CloseWriter
  /\ due' = IF due = None THEN settings ELSE due
  /\ shutdown' = [shutdown EXCEPT ![caller] = "joining settings"]
  /\ UNCHANGED <<libraryVars, program, playback, counters>>

CleanEnd(caller) ==
  /\ shutdown[caller] = "joining settings" /\ Joined
  /\ Die
  /\ UNCHANGED <<counters, due>>

Crash ==
  /\ program # "down" /\ crashes < MaxCrashes
  /\ crashes' = crashes + 1
  /\ Die
  /\ UNCHANGED <<changes, faults, starts, due>>

Next ==
  \/ LoadSettings \/ OpenLibrary \/ StartPlayback \/ StartPlaybackFails
  \/ RecordPlayback \/ UpdateAppearance \/ WriteSettings \/ EndPlayback
  \/ ResetLibrary \/ Exit \/ Crash
  \/ \E caller \in Callers :
       ShutDownPlayback(caller) \/ ShutDownSettings(caller) \/ CleanEnd(caller)

Spec == Init /\ [][Next]_vars
-----------------------------------------------------------------------------
(* Properties.                                                             *)

(* What the next start will begin with.                                    *)
Stored == IF file \in {None, Garbled, NotText} THEN Defaults ELSE Sanitized(file)

(* A program that ends by itself, whoever asked it to, leaves in the file  *)
(* every change that was made before the writer was closed, and of         *)
(* playback every change.  (No write failed: one that does is not tried    *)
(* again.)                                                                 *)
CleanEndSaves ==
  [][(\E caller \in Callers : CleanEnd(caller)) /\ faults = 0 =>
       Stored.playback = settings.playback /\ Stored.appearance = due.appearance]_vars

(* However often a migration fails or the program dies in it, a database   *)
(* that left a schema version behind has been copied as it was, whole.     *)
MigrationsCanBeUndone ==
  db # Missing /\ db.was \in DOMAIN backups /\ db.version > db.was =>
    backups[db.was] = db.number

(* Even if a step of a reset fails, the newest database is in its place or *)
(* aside, and never meets the log of another, provided that a log which    *)
(* cannot be moved can be removed.                                         *)
ResetLosesNothing ==
  /\ made > 0 =>
       IF db # Missing THEN db.number = made ELSE bak # Missing /\ bak.number = made
  /\ library \in {"copying", "copied", "migrating", "ready"} => wal \in {0, db.number}
=============================================================================
