---------------------------- MODULE SettingsFile ----------------------------
(***************************************************************************)
(* The settings, their writer thread and their file (settings.rs).         *)
(*                                                                         *)
(* A setting is the number of the change that made it, so that newer and   *)
(* older values can be told apart; 0 is a default.  In the file a playback *)
(* value may also be one that playback cannot use.                         *)
(***************************************************************************)
EXTENDS Integers, Sequences

CONSTANTS
  None,
  Garbled,      \* text that is not a settings file, or half of one
  NotText,      \* a file whose bytes are no text
  Unusable      \* a value out of its range

(* What settings.json may hold.                                            *)
Files == {None, Garbled, NotText} \cup [playback : Nat \cup {Unusable}, appearance : Nat]

ASSUME SettingsAssumption ==
  /\ Unusable \notin Nat
  /\ \A absent \in {None, Garbled, NotText} :
       absent \notin [playback : Nat \cup {Unusable}, appearance : Nat]

VARIABLES
  settings,     \* the values in memory, None while no program runs
  channel,      \* what the writer has not received yet
  open,         \* whether the writer can still be sent to
  writer,       \* what its thread does, and the newest settings it has received
  file, temporary, bad      \* settings.json, settings.json.tmp, settings.json.bad

settingsVars == <<settings, channel, open, writer, file, temporary, bad>>
settingsFiles == <<file, temporary, bad>>

Defaults == [playback |-> 0, appearance |-> 0]
NoWriter == [at |-> "gone", pending |-> None]

Sanitized(read) ==
  IF read.playback = Unusable THEN [read EXCEPT !.playback = Defaults.playback] ELSE read

InitSettings(files) ==
  /\ settings = None /\ channel = <<>> /\ open = FALSE /\ writer = NoWriter
  /\ file \in files /\ temporary = None /\ bad = None

(* The file as it was read: its values, or defaults; one that is no        *)
(* settings file is moved aside, one that cannot be read stays.            *)
Read(readable, movable) ==
  LET unusable == file \in {None, NotText} \/ ~readable
  IN /\ settings' = IF unusable \/ file = Garbled THEN Defaults ELSE Sanitized(file)
     /\ IF ~unusable /\ file = Garbled /\ movable
        THEN bad' = file /\ file' = None
        ELSE UNCHANGED <<bad, file>>

Load(readable, movable, spawned) ==
  /\ Read(readable, movable)
  /\ channel' = <<>>
  /\ open' = spawned
  /\ writer' = [at |-> IF spawned THEN "waiting" ELSE "gone", pending |-> None]
  /\ UNCHANGED temporary

(* A change and its place in the channel, under one lock.                  *)
Modify(part, value) ==
  /\ settings # None
  /\ settings' = [settings EXCEPT ![part] = value]
  /\ channel' = IF open THEN Append(channel, settings') ELSE channel
  /\ UNCHANGED <<open, writer, settingsFiles>>

Receive ==
  /\ writer.at = "waiting" /\ channel # <<>>
  /\ writer' = [writer EXCEPT !.pending = Head(channel)]
  /\ channel' = Tail(channel)
  /\ UNCHANGED <<settings, open, settingsFiles>>

(* Nothing came for a while, or nothing can come any more.                 *)
Flush ==
  /\ writer.at = "waiting" /\ channel = <<>> /\ writer.pending # None
  /\ writer' = [writer EXCEPT !.at = "creating"]
  /\ UNCHANGED <<settings, channel, open, settingsFiles>>

(* The new file is made beside the old one ...                             *)
Write ==
  /\ \/ /\ writer.at = "creating" /\ temporary' = Garbled
        /\ writer' = [writer EXCEPT !.at = "writing"]
     \/ /\ writer.at = "writing" /\ temporary' = writer.pending
        /\ writer' = [writer EXCEPT !.at = "renaming"]
  /\ UNCHANGED <<settings, channel, open, file, bad>>

Waiting == [at |-> "waiting", pending |-> None]

(* ... and takes its place.                                                *)
Rename ==
  /\ writer.at = "renaming"
  /\ file' = temporary /\ temporary' = None
  /\ writer' = Waiting
  /\ UNCHANGED <<settings, channel, open, bad>>

(* A write that fails is not tried again.                                  *)
WriteFails ==
  /\ writer.at \in {"creating", "writing", "renaming"}
  /\ writer' = Waiting
  /\ UNCHANGED <<settings, channel, open, settingsFiles>>

Ends ==
  /\ writer = Waiting /\ channel = <<>> /\ ~open
  /\ writer' = NoWriter
  /\ UNCHANGED <<settings, channel, open, settingsFiles>>

CloseWriter ==
  /\ open' = FALSE
  /\ UNCHANGED <<settings, channel, writer, settingsFiles>>

(* The lock on the thread is held while it is joined, so whoever else      *)
(* shuts the settings down waits as well.                                  *)
Joined == writer.at = "gone"

(* The program is gone, and of the settings only the files remain.         *)
ForgetSettings ==
  /\ settings' = None /\ channel' = <<>> /\ open' = FALSE /\ writer' = NoWriter
  /\ UNCHANGED settingsFiles
=============================================================================
