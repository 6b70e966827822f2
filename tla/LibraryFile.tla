----------------------------- MODULE LibraryFile -----------------------------
(***************************************************************************)
(* The file of the Library when the program starts: a requested reset, the *)
(* copy before a migration and the migrations (library/database.rs,        *)
(* library/migrations.rs, Library::open).                                  *)
(*                                                                         *)
(* A database is the number of its making and its schema version; `was` is *)
(* the version it had before any migration here.                           *)
(***************************************************************************)
EXTENDS Integers

CONSTANTS
  Missing,          \* no such file
  Half,             \* a copy that was not finished
  CurrentVersion

ASSUME VersionAssumption ==
  /\ CurrentVersion \in Nat \ {0}
  /\ Missing \notin [number : Nat \ {0}, version : Nat, was : Nat, corrupt : BOOLEAN]

VARIABLES
  library,          \* the step of Library::open, or how it ended
  db, wal,          \* library.sqlite3, and whose transactions its log holds
  bak, walBak,      \* both, moved aside by a reset
  backups,          \* library.sqlite3.v<N>.bak by version
  marker,           \* whether a reset is asked for
  made              \* history: how many databases were made

libraryVars == <<library, db, wal, bak, walBak, backups, marker, made>>

Database(number, version) ==
  [number |-> number, version |-> version, was |-> version, corrupt |-> FALSE]

InitLibrary ==
  /\ library = "closed"
  /\ \/ db = Missing /\ made = 0
     \/ /\ made = 1
        /\ \/ \E version \in 0..(CurrentVersion + 1) : db = Database(1, version)
           \/ db = [Database(1, 0) EXCEPT !.corrupt = TRUE]
  /\ wal \in (IF db = Missing THEN {0} ELSE {0, 1})
  /\ bak = Missing /\ walBak = 0 /\ marker = FALSE
  /\ backups = [version \in 1..(CurrentVersion - 1) |-> 0]

RequestReset ==
  /\ marker' = TRUE
  /\ UNCHANGED <<library, db, wal, bak, walBak, backups, made>>

Open ==
  /\ library = "closed"
  /\ library' = IF marker THEN "moving" ELSE "opening"
  /\ UNCHANGED <<db, wal, bak, walBak, backups, marker, made>>

MoveAside ==
  /\ library = "moving"
  /\ IF db = Missing THEN UNCHANGED <<db, bak>> ELSE bak' = db /\ db' = Missing
  /\ library' = "moving log"
  /\ UNCHANGED <<wal, walBak, backups, marker, made>>

(* It cannot be moved, not even after what is in its way was removed: the  *)
(* reset is left for the next start.                                       *)
MoveAsideFails ==
  /\ library = "moving" /\ db # Missing
  /\ bak' = Missing
  /\ library' = "opening"
  /\ UNCHANGED <<db, wal, walBak, backups, marker, made>>

MoveLogAside ==
  /\ library = "moving log"
  /\ IF wal = 0 THEN UNCHANGED <<wal, walBak>> ELSE walBak' = wal /\ wal' = 0
  /\ library' = "unmarking"
  /\ UNCHANGED <<db, bak, backups, marker, made>>

(* Mutant: a log that cannot be moved stays.                               *)
MoveLogAsideFailsLeft ==
  /\ library = "moving log" /\ wal # 0
  /\ walBak' = 0
  /\ library' = "unmarking"
  /\ UNCHANGED <<db, wal, bak, backups, marker, made>>

(* The log of what was moved must not meet what is made next: one that     *)
(* cannot be moved is removed.  That this fails as well is left out; the   *)
(* code then leaves the log where it is.                                   *)
MoveLogAsideFails ==
  /\ library = "moving log" /\ wal # 0
  /\ walBak' = 0 /\ wal' = 0
  /\ library' = "unmarking"
  /\ UNCHANGED <<db, bak, backups, marker, made>>

Unmark(removed) ==
  /\ library = "unmarking"
  /\ marker' = ~removed
  /\ library' = "opening"
  /\ UNCHANGED <<db, wal, bak, walBak, backups, made>>

Unavailable ==
  /\ library' = "unavailable"
  /\ UNCHANGED <<db, wal, bak, walBak, backups, marker, made>>

(* A file that is there is used, and otherwise made.                       *)
OpenDatabase ==
  /\ library = "opening"
  /\ IF db = Missing
     THEN /\ db' = Database(made + 1, 0) /\ made' = made + 1
          /\ library' = "copying"
          /\ UNCHANGED <<wal, bak, walBak, backups, marker>>
     ELSE IF db.corrupt THEN Unavailable
     ELSE /\ library' = "copying"
          /\ UNCHANGED <<db, wal, bak, walBak, backups, marker, made>>

Outdated == db.version # 0 /\ db.version < CurrentVersion

(* Mutant: a copy that is there is taken for one that was finished.        *)
BackUpOnce ==
  /\ library = "copying"
  /\ IF Outdated /\ backups[db.version] = 0
     THEN /\ backups' = [backups EXCEPT ![db.version] = Half]
          /\ library' = "copied"
     ELSE library' = "migrating" /\ UNCHANGED backups
  /\ UNCHANGED <<db, wal, bak, walBak, marker, made>>

(* A copy of what is to be migrated; an older one of that version goes.    *)
BackUp ==
  /\ library = "copying"
  /\ IF Outdated
     THEN /\ backups' = [backups EXCEPT ![db.version] = Half]
          /\ library' = "copied"
     ELSE library' = "migrating" /\ UNCHANGED backups
  /\ UNCHANGED <<db, wal, bak, walBak, marker, made>>

BackedUp ==
  /\ library = "copied"
  /\ backups' = [backups EXCEPT ![db.version] = db.number]
  /\ library' = "migrating"
  /\ UNCHANGED <<db, wal, bak, walBak, marker, made>>

(* One version, in one transaction; when all are done, the connection that *)
(* made them is closed, and those of the program log again.                *)
Migrate ==
  /\ library = "migrating"
  /\ IF db.version > CurrentVersion THEN Unavailable
     ELSE IF db.version < CurrentVersion
     THEN /\ db' = [db EXCEPT !.version = @ + 1]
          /\ UNCHANGED <<library, wal, bak, walBak, backups, marker, made>>
     ELSE /\ library' = "ready" /\ wal' = db.number
          /\ UNCHANGED <<db, bak, walBak, backups, marker, made>>

(* Any statement may fail; what its transaction did is undone.             *)
OpenFails ==
  /\ library \in {"opening", "copied", "migrating"}
  /\ Unavailable

(* The program is gone; its log may have been written back.                *)
ForgetLibrary ==
  /\ library' = "closed"
  /\ wal' \in {0, wal}
  /\ UNCHANGED <<db, bak, walBak, backups, marker, made>>
=============================================================================
