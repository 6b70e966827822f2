---------------------------- MODULE StateProofs ----------------------------
(***************************************************************************)
(* Proofs about the state the program keeps and the state it shows.        *)
(*                                                                         *)
(* The two files, through starts, ends and crashes (Application.tla), for  *)
(* every number of schema versions and however many changes, failures,     *)
(* crashes and starts: the settings (SettingsFile.tla), which the next     *)
(* start reads as they were last set, and the file of the Library          *)
(* (LibraryFile.tla), which is not lost.                                   *)
(*                                                                         *)
(* The messages to the Renderer (StateMessages.tla), for any topics and    *)
(* however many changes, occurrences, answers and loads of the page: what  *)
(* happened is told in order and at most once, and no replica goes back.   *)
(***************************************************************************)
EXTENDS Application, StateMessages, SequenceTheorems, WellFoundedInduction, TLAPS

-----------------------------------------------------------------------------
(* The settings.                                                           *)

Settings == [playback : Nat, appearance : Nat]

(* The newest values on their way to the file: sent, received or written.  *)
Said ==
  IF channel # <<>> THEN channel[Len(channel)]
  ELSE IF writer.pending # None THEN writer.pending ELSE Stored

Values ==
  /\ settings \in Settings \cup {None} /\ due \in Settings \cup {None}
  /\ program # "down" => settings # None
  /\ channel \in Seq(Settings) /\ open \in BOOLEAN
  /\ writer \in [at : {"gone", "waiting", "creating", "writing", "renaming"},
                 pending : Settings \cup {None}]
  /\ file \in Files
  /\ changes \in Nat /\ faults \in Nat

(* What the writer has in its hands and beside the file.                   *)
Writing ==
  /\ writer.at \in {"creating", "writing", "renaming"} => writer.pending # None
  /\ writer.at = "renaming" => temporary = writer.pending

(* Playback ends before the settings are closed, whoever does it.          *)
Ending ==
  /\ playback # "down" => program = "up"
  /\ shutdown \in [Callers -> {"none", "playback", "joining playback", "settings",
                               "joining settings"}]
  /\ \A c \in Callers :
       /\ shutdown[c] # "none" => program = "up"
       /\ shutdown[c] \in {"settings", "joining settings"} => playback = "down"
       /\ shutdown[c] = "joining settings" => due # None
  /\ program # "down" /\ due # None =>
       program = "up" /\ playback = "down" /\ ~open /\ settings.playback = due.playback

(* Unless something failed, what was said last is what was set last.       *)
Told ==
  program # "down" /\ faults = 0 =>
    /\ due = None => open /\ Said = settings
    /\ due # None => Said = due
    /\ writer.at = "gone" => ~open /\ channel = <<>> /\ writer.pending = None

SettingsInv == Values /\ Writing /\ Ending /\ Told

-----------------------------------------------------------------------------
(* Settings are stored as they are.                                        *)
LEMMA StoredAsItIs ==
  /\ Settings \subseteq Files
  /\ None \notin Settings
  /\ file \in Settings => Stored = file
  /\ file \in Files => Stored \in Settings
<1> USE SettingsAssumption DEF Settings, Files, Stored, Sanitized, Defaults
<1>1. Settings \subseteq Files /\ None \notin Settings /\ Garbled \notin Settings
      /\ NotText \notin Settings
  OBVIOUS
<1>2. ASSUME file \in Settings
      PROVE  Stored = file
  BY <1>1, <1>2
<1>3. ASSUME file \in Files
      PROVE  Stored \in Settings
  <2>1. CASE file \in {None, Garbled, NotText}
    BY <2>1
  <2>2. CASE file \notin {None, Garbled, NotText}
    BY <1>3, <2>2
  <2>3. QED
    BY <2>1, <2>2
<1>4. QED
  BY <1>1, <1>2, <1>3

(* A writer that is not there, or waits, writes nothing.                   *)
LEMMA NoWriterWrites ==
  /\ <<>> \in Seq(Settings)
  /\ \A at \in {"gone", "waiting"} :
       LET idle == [at |-> at, pending |-> None]
       IN /\ idle \in [at : {"gone", "waiting", "creating", "writing", "renaming"},
                       pending : Settings \cup {None}]
          /\ idle.at = at
OBVIOUS

(* The initial states satisfy the inductive invariant.                     *)
LEMMA InitSettingsInv == Init => SettingsInv
<1> SUFFICES ASSUME Init PROVE SettingsInv
  OBVIOUS
<1>1. /\ settings = None /\ channel = <<>> /\ open = FALSE /\ file \in Files /\ due = None
      /\ writer = [at |-> "gone", pending |-> None] /\ changes = 0 /\ faults = 0
      /\ program = "down" /\ playback = "down" /\ shutdown = [c \in Callers |-> "none"]
  BY FilesAssumption DEF Init, InitSettings, NoWriter
<1>2. Values /\ Writing
  BY <1>1, NoWriterWrites DEF Values, Writing
<1>3. Ending /\ Told
  BY <1>1 DEF Ending, Told
<1>4. QED
  BY <1>2, <1>3 DEF SettingsInv

(* The program is gone; its files stay.                                    *)
LEMMA DieStep ==
  ASSUME SettingsInv, Die, UNCHANGED <<due, changes>>, faults' \in Nat
  PROVE  SettingsInv'
<1>1. /\ settings' = None /\ channel' = <<>> /\ open' = FALSE /\ file' = file
      /\ writer' = [at |-> "gone", pending |-> None]
      /\ program' = "down" /\ playback' = "down" /\ shutdown' = [c \in Callers |-> "none"]
  BY DEF Die, ForgetSettings, settingsFiles, NoWriter
<1>2. Values' /\ Writing'
  BY <1>1, NoWriterWrites DEF SettingsInv, Values, Writing
<1>3. Ending' /\ Told'
  BY <1>1 DEF Ending, Told
<1>4. QED
  BY <1>2, <1>3 DEF SettingsInv

(* A step that leaves the settings alone.                                  *)
LEMMA Elsewhere ==
  ASSUME SettingsInv, UNCHANGED <<settingsVars, due, changes, program>>,
         Ending', faults' \in Nat, faults' = 0 => faults = 0
  PROVE  SettingsInv'
<1>1. Said' = Said
  BY DEF Said, Stored, settingsVars, settingsFiles
<1>2. QED
  BY <1>1 DEF SettingsInv, Values, Writing, Told, settingsVars, settingsFiles

(* The settings are loaded: from the file, or defaults.                    *)
LEMMA LoadStep ==
  ASSUME SettingsInv, LoadSettings
  PROVE  SettingsInv'
<1>1. PICK readable \in BOOLEAN, movable \in BOOLEAN, spawned \in BOOLEAN :
        /\ Load(readable, movable, spawned)
        /\ ~(readable /\ movable /\ spawned) => faults' = faults + 1
        /\ readable /\ movable /\ spawned => faults' = faults
  BY DEF LoadSettings, Fault
<1>2. /\ channel' = <<>> /\ open' = spawned
      /\ writer' = [at |-> IF spawned THEN "waiting" ELSE "gone", pending |-> None]
      /\ due' = None /\ program' = "opening the library" /\ UNCHANGED <<playback, shutdown, changes>>
      /\ program = "down"
  BY <1>1 DEF Load, LoadSettings
<1>3. settings' \in Settings /\ file' \in Files
      /\ (readable /\ movable => settings' = Stored')
  <2> USE SettingsAssumption, StoredAsItIs DEF Read
  <2>1. Read(readable, movable)
    BY <1>1 DEF Load
  <2>2. CASE file \in {None, NotText} \/ ~readable
    BY <2>1, <2>2 DEF Defaults, Settings, SettingsInv, Values, Stored
  <2>3. CASE ~(file \in {None, NotText} \/ ~readable) /\ file = Garbled
    BY <2>1, <2>3 DEF Defaults, Settings, SettingsInv, Values, Stored, Files
  <2>4. CASE ~(file \in {None, NotText} \/ ~readable) /\ file # Garbled
    <3>1. settings' = Sanitized(file) /\ file' = file /\ Stored = Sanitized(file)
      BY <2>1, <2>4 DEF Stored
    <3>2. QED
      BY <3>1 DEF SettingsInv, Values, Stored
  <2>5. QED
    BY <2>2, <2>3, <2>4
<1>4. Values' /\ Writing'
  <2>1. faults' \in Nat
    BY <1>1 DEF SettingsInv, Values
  <2>2. settings' # None /\ due' = None /\ changes' \in Nat
    BY <1>2, <1>3, StoredAsItIs DEF SettingsInv, Values
  <2>3. /\ writer' \in [at : {"gone", "waiting", "creating", "writing", "renaming"},
                        pending : Settings \cup {None}]
        /\ writer'.at \in {"gone", "waiting"}
        /\ channel' \in Seq(Settings)
    BY <1>2, NoWriterWrites
  <2>4. QED
    BY <1>2, <1>3, <2>1, <2>2, <2>3 DEF Values, Writing
<1>5. Ending'
  BY <1>2 DEF SettingsInv, Ending
<1>6. Told'
  <2>1. ASSUME faults' = 0
        PROVE  readable /\ movable /\ spawned
    BY <1>1, <2>1 DEF SettingsInv, Values
  <2>2. ASSUME faults' = 0
        PROVE  open' /\ Said' = settings' /\ writer'.at = "waiting"
    BY <1>2, <1>3, <2>1, <2>2 DEF Said
  <2>3. QED
    BY <1>2, <2>2 DEF Told
<1>7. QED
  BY <1>4, <1>5, <1>6 DEF SettingsInv

(* A setting is changed, and the writer told of it while it can be.        *)
LEMMA ModifyStep ==
  ASSUME SettingsInv, NEW part \in {"playback", "appearance"}, Modify(part, changes + 1),
         program = "up", changes' = changes + 1,
         part = "playback" => due = None,
         UNCHANGED <<program, playback, shutdown, due, faults>>
  PROVE  SettingsInv'
<1>1. settings \in Settings /\ settings' \in Settings
      /\ (part = "appearance" => settings'.playback = settings.playback)
  BY DEF Modify, SettingsInv, Values, Settings
<1>2. /\ channel' \in Seq(Settings)
      /\ open => Len(channel') \in Nat \ {0} /\ channel' # <<>> /\ channel'[Len(channel')] = settings'
      /\ ~open => channel' = channel
  BY <1>1, AppendProperties DEF Modify, SettingsInv, Values
<1>3. UNCHANGED <<open, writer, file, temporary>>
  BY DEF Modify, settingsFiles
<1>4. Values' /\ Writing'
  BY <1>1, <1>2, <1>3, StoredAsItIs DEF SettingsInv, Values, Writing
<1>5. Ending'
  BY <1>1, <1>3 DEF SettingsInv, Ending
<1>6. Stored' = Stored
  BY <1>3 DEF Stored
<1>7. open => Said' = settings'
  BY <1>2 DEF Said
<1>8. ~open => Said' = Said
  BY <1>2, <1>3, <1>6 DEF Said
<1>9. Told'
  BY <1>2, <1>3, <1>7, <1>8 DEF SettingsInv, Told, Ending
<1>10. QED
  BY <1>4, <1>5, <1>9 DEF SettingsInv

(* A step of the writer: what was said last stays so.                      *)
LEMMA WriterStep ==
  ASSUME SettingsInv, WriteSettings
  PROVE  SettingsInv'
<1>1. /\ program # "down" /\ UNCHANGED <<program, playback, shutdown, due, changes>>
      /\ UNCHANGED <<settings, open>> /\ faults \in Nat
      /\ faults' = faults \/ (faults' = faults + 1 /\ WriteFails)
  <2>1. /\ program # "down" /\ UNCHANGED <<program, playback, shutdown, due, changes>>
        /\ faults' = faults \/ (faults' = faults + 1 /\ WriteFails)
        /\ Receive \/ Flush \/ Write \/ Rename \/ Ends \/ WriteFails
    <3>1. program # "down" /\ UNCHANGED <<program, playback, shutdown, due, changes>>
      BY DEF WriteSettings, programVars, SameCounts
    <3>2. \/ (Receive \/ Flush \/ Write \/ Rename \/ Ends) /\ faults' = faults
          \/ faults' = faults + 1 /\ WriteFails
      BY DEF WriteSettings, Fault
    <3>3. QED
      BY <3>1, <3>2
  <2>2. UNCHANGED <<settings, open>>
    BY <2>1 DEF Receive, Flush, Write, Rename, Ends, WriteFails
  <2>3. QED
    BY <2>1, <2>2 DEF SettingsInv, Values
<1>2. Ending'
  BY <1>1 DEF SettingsInv, Ending
<1>3. CASE Receive
  <2>1. /\ Head(channel) \in Settings /\ channel' \in Seq(Settings)
        /\ channel' # <<>> => channel'[Len(channel')] = channel[Len(channel)]
        /\ channel' = <<>> => Head(channel) = channel[Len(channel)]
    <3>1. channel \in Seq(Settings) /\ channel # <<>> /\ channel' = Tail(channel)
      BY <1>3 DEF Receive, SettingsInv, Values
    <3>2. /\ Head(channel) \in Settings /\ Tail(channel) \in Seq(Settings)
          /\ Len(Tail(channel)) = Len(channel) - 1 /\ Len(channel) \in Nat /\ Len(channel) > 0
          /\ \A i \in 1 .. Len(Tail(channel)) : Tail(channel)[i] = channel[i + 1]
          /\ Head(channel) = channel[1]
      BY <3>1, HeadTailProperties
    <3>3. CASE channel' = <<>>
      <4>1. Len(channel) = 1
        <5>1. Len(<<>>) = 0
          OBVIOUS
        <5>2. Len(channel) - 1 = 0
          BY <3>1, <3>2, <3>3, <5>1
        <5>3. \A n \in Nat : n - 1 = 0 => n = 1
          OBVIOUS
        <5>4. Len(channel) \in Nat
          BY <3>2
        <5>5. QED
          BY <5>2, <5>3, <5>4, Zenon
      <4>2. QED
        BY <3>2, <3>3, <4>1
    <3>4. CASE channel' # <<>>
      <4>1. Len(channel) - 1 \in 1 .. Len(channel')
        BY <3>1, <3>2, <3>4, EmptySeq
      <4>2. QED
        BY <3>1, <3>2, <3>4, <4>1
    <3>5. QED
      BY <3>1, <3>2, <3>3, <3>4
  <2>2. writer' \in [at : {"waiting"}, pending : Settings] /\ writer'.pending = Head(channel)
        /\ writer.at = "waiting" /\ channel # <<>> /\ UNCHANGED <<file, temporary>>
    BY <1>3, <2>1 DEF Receive, settingsFiles, SettingsInv, Values
  <2>3. Said' = Said
    BY <2>1, <2>2, StoredAsItIs DEF Said
  <2>4. QED
    BY <1>1, <1>2, <2>1, <2>2, <2>3 DEF SettingsInv, Values, Writing, Told
<1>4. CASE Flush
  <2>1. writer'.at = "creating" /\ writer'.pending = writer.pending /\ writer.pending # None
        /\ writer' \in [at : {"creating"}, pending : Settings] /\ UNCHANGED <<channel, file, temporary>>
    BY <1>4 DEF Flush, settingsFiles, SettingsInv, Values
  <2>2. Said' = Said
    BY <2>1 DEF Said, Stored
  <2>3. QED
    BY <1>1, <1>2, <2>1, <2>2 DEF SettingsInv, Values, Writing, Told
<1>5. CASE Write
  <2>1. writer'.pending = writer.pending /\ writer.pending # None
        /\ writer' \in [at : {"writing", "renaming"}, pending : Settings]
        /\ UNCHANGED <<channel, file>> /\ (writer'.at = "renaming" => temporary' = writer.pending)
    BY <1>5 DEF Write, SettingsInv, Values, Writing
  <2>2. Said' = Said
    BY <2>1 DEF Said, Stored
  <2>3. QED
    BY <1>1, <1>2, <2>1, <2>2 DEF SettingsInv, Values, Writing, Told
<1>6. CASE Rename
  <2>1. /\ writer.pending \in Settings /\ writer.pending # None /\ file' = writer.pending
        /\ writer' \in [at : {"waiting"}, pending : {None}] /\ writer.at = "renaming"
        /\ UNCHANGED channel
    BY <1>6 DEF Rename, Waiting, SettingsInv, Values, Writing
  <2>2. file' \in Files /\ Stored' = file'
    BY <2>1, SettingsAssumption DEF Settings, Files, Stored, Sanitized
  <2>3. Said' = Said
    BY <2>1, <2>2 DEF Said
  <2>4. QED
    BY <1>1, <1>2, <2>1, <2>2, <2>3 DEF SettingsInv, Values, Writing, Told
<1>7. CASE Ends
  <2>1. /\ writer.pending = None /\ writer' \in [at : {"gone"}, pending : {None}]
        /\ ~open /\ channel = <<>> /\ UNCHANGED <<channel, file, temporary>>
    BY <1>7 DEF Ends, Waiting, NoWriter, settingsFiles
  <2>2. Said' = Said
    BY <2>1 DEF Said, Stored
  <2>3. QED
    BY <1>1, <1>2, <2>1, <2>2 DEF SettingsInv, Values, Writing, Told
<1>8. CASE WriteFails /\ faults' = faults + 1
  <2>1. writer' \in [at : {"waiting"}, pending : {None}] /\ UNCHANGED <<channel, file, temporary>>
    BY <1>8 DEF WriteFails, Waiting, settingsFiles
  <2>2. QED
    BY <1>1, <1>2, <1>8, <2>1 DEF SettingsInv, Values, Writing, Told
<1>9. QED
  BY <1>3, <1>4, <1>5, <1>6, <1>7, <1>8 DEF WriteSettings, Fault

(* The end of the program, by either caller.                               *)
LEMMA ShutdownStep ==
  ASSUME SettingsInv, NEW caller \in Callers,
         ShutDownPlayback(caller) \/ ShutDownSettings(caller) \/ CleanEnd(caller)
  PROVE  SettingsInv'
<1>1. CASE ShutDownPlayback(caller)
  <2>1. UNCHANGED <<settingsVars, due, changes, program, faults>>
    BY <1>1 DEF ShutDownPlayback, counters
  <2>2. Ending'
    <3>1. UNCHANGED <<settings, open, due, program>>
      BY <2>1 DEF settingsVars
    <3>2. /\ shutdown[caller] \in {"playback", "joining playback"}
          /\ playback' = "down" <=> playback = "down"
      BY <1>1 DEF ShutDownPlayback
    <3>3. PICK step \in {"joining playback", "settings"} :
            /\ shutdown' = [shutdown EXCEPT ![caller] = step]
            /\ step = "settings" => playback = "down"
      BY <1>1 DEF ShutDownPlayback
    <3>4. /\ shutdown' \in [Callers -> {"none", "playback", "joining playback", "settings",
                                      "joining settings"}]
          /\ \A c \in Callers : shutdown'[c] = IF c = caller THEN step ELSE shutdown[c]
      BY <3>3 DEF SettingsInv, Ending
    <3>5. QED
      BY <3>1, <3>2, <3>3, <3>4 DEF SettingsInv, Ending
  <2>3. QED
    BY <2>1, <2>2, Elsewhere DEF SettingsInv, Values
<1>2. CASE ShutDownSettings(caller)
  <2>1. /\ UNCHANGED <<settings, channel, writer, file, temporary, program, playback, changes, faults>>
        /\ open' = FALSE /\ due' = IF due = None THEN settings ELSE due
        /\ shutdown' = [shutdown EXCEPT ![caller] = "joining settings"]
        /\ shutdown[caller] = "settings"
    BY <1>2 DEF ShutDownSettings, CloseWriter, settingsFiles, counters
  <2>2. program = "up" /\ playback = "down" /\ settings \in Settings /\ settings # None
        /\ due' \in Settings /\ due' # None
    BY <2>1, StoredAsItIs DEF SettingsInv, Values, Ending
  <2>3. Values' /\ Writing'
    BY <2>1, <2>2 DEF SettingsInv, Values, Writing
  <2>4. Ending'
    BY <2>1, <2>2 DEF SettingsInv, Ending
  <2>5. Said' = Said
    BY <2>1 DEF Said, Stored
  <2>6. Told'
    BY <2>1, <2>2, <2>5 DEF SettingsInv, Told
  <2>7. QED
    BY <2>3, <2>4, <2>6 DEF SettingsInv
<1>3. CASE CleanEnd(caller)
  BY <1>3, DieStep DEF CleanEnd, counters, SettingsInv, Values
<1>4. QED
  BY <1>1, <1>2, <1>3

(* Every step preserves the inductive invariant.                           *)
LEMMA NextSettingsInv == SettingsInv /\ [Next]_vars => SettingsInv'
<1> SUFFICES ASSUME SettingsInv, [Next]_vars PROVE SettingsInv'
  OBVIOUS
<1>0. faults \in Nat /\ (SettingsInv => Ending)
  BY DEF SettingsInv, Values
<1>1. CASE LoadSettings
  BY <1>1, LoadStep
<1>2. CASE OpenLibrary \/ EndPlayback \/ ResetLibrary \/ Exit \/ StartPlayback
  <2>1. UNCHANGED <<settingsVars, due, changes>> /\ (faults' = faults \/ faults' = faults + 1)
    BY <1>2 DEF OpenLibrary, EndPlayback, ResetLibrary, Exit, StartPlayback, Fault, SameCounts,
                counters
  <2>2. CASE StartPlayback
    <3>1. due = None /\ settings # None /\ program # "down"
      BY <2>2 DEF StartPlayback, SettingsInv, Ending, Values
    <3>2. Ending'
      BY <2>1, <2>2, <3>1 DEF StartPlayback, SettingsInv, Ending
    <3>3. Said' = Said
      BY <2>1 DEF Said, Stored, settingsVars
    <3>4. program' = "up" /\ UNCHANGED <<faults, settings, channel, open, writer, file, temporary>>
      BY <2>1, <2>2 DEF StartPlayback, counters, settingsVars
    <3>5. Values' /\ Writing'
      BY <2>1, <3>1, <3>4 DEF SettingsInv, Values, Writing
    <3>6. Told'
      BY <2>1, <3>1, <3>3, <3>4 DEF SettingsInv, Told
    <3>7. QED
      BY <3>2, <3>5, <3>6 DEF SettingsInv
  <2>3. CASE OpenLibrary \/ EndPlayback \/ ResetLibrary \/ Exit
    <3>1. program' = program
      BY <2>3 DEF OpenLibrary, EndPlayback, ResetLibrary, Exit, programVars
    <3>2. Ending'
      BY <2>1, <2>3, <3>1
         DEF OpenLibrary, EndPlayback, ResetLibrary, Exit, programVars, settingsVars, SettingsInv, Ending,
             Callers
    <3>3. QED
      BY <1>0, <2>1, <3>1, <3>2, Elsewhere
  <2>4. QED
    BY <1>2, <2>2, <2>3
<1>3. CASE StartPlaybackFails \/ Crash
  <2>1. Die /\ UNCHANGED <<due, changes>> /\ (faults' = faults \/ faults' = faults + 1)
    BY <1>3 DEF StartPlaybackFails, Crash, Fault, SameCounts
  <2>2. faults' \in Nat
    BY <1>0, <2>1
  <2>3. QED
    BY <2>1, <2>2, DieStep
<1>4. CASE RecordPlayback
  <2>1. program = "up" /\ due = None
    BY <1>4 DEF RecordPlayback, SettingsInv, Ending
  <2>2. QED
    BY <1>4, <2>1, ModifyStep DEF RecordPlayback, programVars
<1>5. CASE UpdateAppearance
  BY <1>5, ModifyStep DEF UpdateAppearance, programVars
<1>6. CASE WriteSettings
  BY <1>6, WriterStep
<1>7. ASSUME NEW caller \in Callers,
             ShutDownPlayback(caller) \/ ShutDownSettings(caller) \/ CleanEnd(caller)
      PROVE  SettingsInv'
  BY <1>7, ShutdownStep
<1>8. CASE UNCHANGED vars
  <2>1. Ending'
    BY <1>8 DEF vars, settingsVars, programVars, SettingsInv, Ending
  <2>2. QED
    BY <1>0, <1>8, <2>1, Elsewhere DEF vars, programVars, counters
<1>9. QED
  BY <1>1, <1>2, <1>3, <1>4, <1>5, <1>6, <1>7, <1>8 DEF Next

-----------------------------------------------------------------------------
(* A program that ends by itself has written what was set: the writer was  *)
(* closed after playback had ended, and ends when nothing is left.         *)
THEOREM EndSaves == Spec => CleanEndSaves
<1>1. ASSUME SettingsInv, NEW caller \in Callers, CleanEnd(caller), faults = 0
      PROVE  Stored.playback = settings.playback /\ Stored.appearance = due.appearance
  <2>1. program # "down" /\ due # None /\ writer.at = "gone"
    BY <1>1 DEF CleanEnd, Joined, SettingsInv, Ending
  <2>2. Said = due /\ Said = Stored /\ settings.playback = due.playback
    BY <1>1, <2>1 DEF SettingsInv, Told, Said, Ending
  <2>3. QED
    BY <2>2
<1>2. SettingsInv /\ [Next]_vars =>
        [(\E caller \in Callers : CleanEnd(caller)) /\ faults = 0 =>
           Stored.playback = settings.playback /\ Stored.appearance = due.appearance]_vars
  BY <1>1
<1>3. QED
  BY <1>2, InitSettingsInv, NextSettingsInv, PTL DEF Spec, CleanEndSaves

-----------------------------------------------------------------------------
(* The file of the Library.                                                *)

Databases == [number : Nat \ {0}, version : Nat, was : Nat, corrupt : BOOLEAN]
Opened == {"copying", "copied", "migrating", "ready"}
Versions == 1..(CurrentVersion - 1)

(* The newest database is in its place, or moved aside.                    *)
NewestIsThere ==
  /\ made \in Nat
  /\ db # Missing => db \in Databases /\ db.number = made
  /\ db = Missing /\ made > 0 => bak # Missing /\ bak.number = made
  /\ library \in Opened => db # Missing

(* A log belongs to the database, or a reset that will do away with it has *)
(* still to be done.                                                       *)
LogIsIts ==
  /\ marker \in BOOLEAN
  /\ db # Missing => wal \in {0, db.number}
  /\ db = Missing => wal = 0 \/ marker
  /\ db = Missing /\ library \in {"opening", "unmarking"} => wal = 0
  /\ library = "moving" => marker
  /\ library \in {"moving log", "unmarking"} => db = Missing

(* A database that has been copied was copied as it is.                    *)
CopiedFirst ==
  /\ DOMAIN backups = Versions
  /\ db # Missing => db.was <= db.version
  /\ db # Missing /\ db.was \in Versions /\ (db.version > db.was \/ library = "migrating") =>
       backups[db.was] = db.number

LibraryInv == NewestIsThere /\ LogIsIts /\ CopiedFirst

(* The initial states satisfy the inductive invariant.                     *)
LEMMA InitLibraryInv == Init => LibraryInv
<1> SUFFICES ASSUME Init PROVE LibraryInv
  OBVIOUS
<1> USE VersionAssumption DEF Init, InitLibrary
<1>1. ASSUME NEW version \in Nat
      PROVE  /\ Database(1, version) \in Databases
             /\ Database(1, version).number = 1 /\ Database(1, version).version = version
             /\ Database(1, version).was = version
  BY DEF Database, Databases
<1>2. \/ db = Missing /\ made = 0
      \/ db \in Databases /\ db # Missing /\ made = 1 /\ db.number = 1 /\ db.was = db.version
  <2>1. ASSUME NEW version \in 0..(CurrentVersion + 1), db = Database(1, version)
        PROVE  db \in Databases /\ db # Missing /\ db.number = 1 /\ db.was = db.version
    BY <1>1, <2>1 DEF Databases
  <2>2. ASSUME db = [Database(1, 0) EXCEPT !.corrupt = TRUE]
        PROVE  db \in Databases /\ db # Missing /\ db.number = 1 /\ db.was = db.version
    <3>1. Database(1, 0) \in Databases /\ Database(1, 0).number = 1
          /\ Database(1, 0).version = 0 /\ Database(1, 0).was = 0
      BY DEF Database, Databases
    <3>2. QED
      BY ONLY <2>2, <3>1, VersionAssumption DEF Databases
  <2>3. QED
    BY <2>1, <2>2
<1>3. NewestIsThere
  BY <1>2 DEF NewestIsThere, Opened
<1>4. LogIsIts
  BY <1>2 DEF LogIsIts
<1>5. CopiedFirst
  BY <1>2 DEF CopiedFirst, Versions, Databases
<1>6. QED
  BY <1>3, <1>4, <1>5 DEF LibraryInv

(* What the invariant says stays so while the file is left alone.          *)
LEMMA FileLeftAlone ==
  ASSUME LibraryInv, UNCHANGED libraryVars
  PROVE  LibraryInv'
BY DEF LibraryInv, NewestIsThere, LogIsIts, CopiedFirst, libraryVars

(* A program that is gone leaves its files as they are, at any step.       *)
LEMMA DyingIsSafe ==
  ASSUME LibraryInv, ForgetLibrary
  PROVE  LibraryInv'
BY DEF LibraryInv, NewestIsThere, LogIsIts, CopiedFirst, ForgetLibrary, Opened, Databases

(* The steps of a reset, which moves the database and its log aside.       *)
LEMMA ResetSteps ==
  ASSUME LibraryInv, RequestReset \/ Open \/ MoveAside \/ MoveAsideFails \/ MoveLogAside
               \/ MoveLogAsideFails \/ Unmark(TRUE) \/ Unmark(FALSE)
  PROVE  LibraryInv'
<1> USE DEF LibraryInv, Opened
<1>1. NewestIsThere'
  BY DEF NewestIsThere, Databases, RequestReset, Open, MoveAside, MoveAsideFails,
         MoveLogAside, MoveLogAsideFails, Unmark
<1>2. LogIsIts'
  BY DEF LogIsIts, NewestIsThere, Databases, RequestReset, Open, MoveAside,
         MoveAsideFails, MoveLogAside, MoveLogAsideFails, Unmark
<1>3. CopiedFirst'
  BY DEF CopiedFirst, RequestReset, Open, MoveAside, MoveAsideFails,
         MoveLogAside, MoveLogAsideFails, Unmark
<1>4. QED
  BY <1>1, <1>2, <1>3

(* A database is opened, or made.                                          *)
LEMMA OpenStep ==
  ASSUME LibraryInv, OpenDatabase
  PROVE  LibraryInv'
<1> USE VersionAssumption DEF LibraryInv, OpenDatabase, Opened
<1>1. CASE db = Missing
  <2>1. /\ db' \in Databases /\ db' # Missing /\ db'.number = made + 1
        /\ db'.version = 0 /\ db'.was = 0 /\ made' = made + 1 /\ wal' = 0
    <3>1. made \in Nat /\ db' = Database(made + 1, 0) /\ made' = made + 1 /\ wal' = 0
      BY <1>1 DEF NewestIsThere, LogIsIts
    <3>2. /\ Database(made + 1, 0) \in Databases
          /\ Database(made + 1, 0).number = made + 1
          /\ Database(made + 1, 0).version = 0 /\ Database(made + 1, 0).was = 0
      BY <3>1 DEF Database, Databases
    <3>3. QED
      BY <3>1, <3>2 DEF Databases
  <2>2. NewestIsThere'
    BY <1>1, <2>1 DEF NewestIsThere
  <2>3. LogIsIts' /\ CopiedFirst'
    BY <1>1, <2>1 DEF LogIsIts, CopiedFirst, Versions
  <2>4. QED
    BY <2>2, <2>3
<1>2. CASE db # Missing
  <2>1. NewestIsThere' /\ LogIsIts' /\ CopiedFirst'
    BY <1>2 DEF NewestIsThere, LogIsIts, CopiedFirst, Unavailable
  <2>2. QED
    BY <2>1
<1>3. QED
  BY <1>1, <1>2

(* The copy before a migration.                                            *)
LEMMA BackUpSteps ==
  ASSUME LibraryInv, BackUp \/ BackedUp
  PROVE  LibraryInv'
<1> USE DEF LibraryInv, BackUp, BackedUp, Outdated
<1>1. NewestIsThere' /\ LogIsIts'
  BY DEF NewestIsThere, LogIsIts, Opened
<1>2. CopiedFirst'
  <2>1. db \in Databases /\ db # Missing
    BY DEF NewestIsThere, Opened
  <2>2. DOMAIN backups' = Versions
    BY DEF CopiedFirst
  <2>3. CASE BackUp
    BY <2>1, <2>2, <2>3, VersionAssumption DEF CopiedFirst, Versions, Databases
  <2>4. CASE BackedUp
    BY <2>1, <2>2, <2>4, VersionAssumption DEF CopiedFirst, Versions, Databases
  <2>5. QED
    BY <2>3, <2>4
<1>3. QED
  BY <1>1, <1>2

(* One migration, or the end of all.                                       *)
LEMMA MigrateStep ==
  ASSUME LibraryInv, Migrate
  PROVE  LibraryInv'
<1> USE VersionAssumption DEF LibraryInv, Migrate
<1>1. db \in Databases /\ db # Missing /\ library = "migrating"
  BY DEF NewestIsThere, Opened
<1>2. CASE db' = [db EXCEPT !.version = @ + 1]
           /\ UNCHANGED <<library, wal, bak, walBak, backups, marker, made>>
  <2>1. /\ db' \in Databases /\ db' # Missing /\ db'.number = db.number
        /\ db'.was = db.was /\ db'.version = db.version + 1
    BY <1>1, <1>2 DEF Databases
  <2>2. NewestIsThere' /\ LogIsIts'
    BY <1>1, <1>2, <2>1 DEF NewestIsThere, LogIsIts
  <2>3. CopiedFirst'
    BY <1>1, <1>2, <2>1 DEF CopiedFirst, Databases
  <2>4. QED
    BY <2>2, <2>3
<1>3. CASE UNCHANGED <<db, bak, walBak, backups, marker, made>>
           /\ library' \in {"ready", "unavailable"} /\ wal' \in {wal, db.number}
  BY <1>1, <1>3 DEF NewestIsThere, LogIsIts, CopiedFirst, Opened
<1>4. QED
  BY <1>2, <1>3 DEF Unavailable

(* Every step of the program preserves the inductive invariant.            *)
LEMMA NextLibraryInv == LibraryInv /\ [Next]_vars => LibraryInv'
<1> SUFFICES ASSUME LibraryInv, [Next]_vars PROVE LibraryInv'
  OBVIOUS
<1>1. CASE OpenLibrary
  <2>1. CASE Unavailable
    BY <2>1 DEF Unavailable, LibraryInv, NewestIsThere, LogIsIts, CopiedFirst, Opened
  <2>2. QED
    BY <1>1, <2>1, ResetSteps, OpenStep, BackUpSteps, MigrateStep
       DEF OpenLibrary, OpenFails
<1>2. CASE StartPlaybackFails \/ Crash
  BY <1>2, DyingIsSafe DEF StartPlaybackFails, Crash, Die
<1>3. CASE ResetLibrary
  BY <1>3, ResetSteps DEF ResetLibrary
<1>4. CASE LoadSettings \/ StartPlayback \/ RecordPlayback \/ UpdateAppearance
           \/ WriteSettings \/ EndPlayback \/ Exit
  BY <1>4, FileLeftAlone
     DEF LoadSettings, StartPlayback, RecordPlayback, UpdateAppearance, WriteSettings,
         EndPlayback, Exit
<1>5. ASSUME NEW caller \in Callers,
             ShutDownPlayback(caller) \/ ShutDownSettings(caller)
      PROVE  LibraryInv'
  BY <1>5, FileLeftAlone DEF ShutDownPlayback, ShutDownSettings
<1>6. ASSUME NEW caller \in Callers, CleanEnd(caller)
      PROVE  LibraryInv'
  BY <1>6, DyingIsSafe DEF CleanEnd, Die
<1>7. CASE UNCHANGED vars
  BY <1>7, FileLeftAlone DEF vars
<1>8. QED
  BY <1>1, <1>2, <1>3, <1>4, <1>5, <1>6, <1>7 DEF Next

(* The inductive invariant holds in every reachable state.                 *)
LEMMA Inductive == Spec => []LibraryInv
BY InitLibraryInv, NextLibraryInv, PTL DEF Spec

-----------------------------------------------------------------------------
(* However often a migration fails or the program dies in it, a database   *)
(* that left a schema version behind has been copied as it was.            *)
THEOREM MigrationsAreCopied == Spec => []MigrationsCanBeUndone
<1>1. LibraryInv => MigrationsCanBeUndone
  BY DEF LibraryInv, CopiedFirst, MigrationsCanBeUndone
<1>2. QED
  BY <1>1, Inductive, PTL

(* A reset never loses the newest database, and no database is opened with *)
(* the log of another, if a log that cannot be moved can be removed.       *)
THEOREM ResetsAreSafe == Spec => []ResetLosesNothing
<1>1. LibraryInv => ResetLosesNothing
  BY DEF LibraryInv, NewestIsThere, LogIsIts, Opened, ResetLosesNothing
<1>2. QED
  BY <1>1, Inductive, PTL

-----------------------------------------------------------------------------
(* State messages.                                                         *)

LEMMA LeastOfAll ==
  ASSUME NEW S, S \subseteq Nat, S # {}
  PROVE  \E x \in S : \A y \in S : x <= y
<1>1. IsWellFoundedOn(OpToRel(<, Nat), Nat)
  BY NatLessThanWellFounded
<1>2. PICK x \in S : \A y \in S : <<y, x>> \notin OpToRel(<, Nat)
  BY <1>1, WFMin
<1>3. \A y \in S : ~(y < x)
  BY <1>2 DEF OpToRel
<1>4. QED
  BY <1>3

(* What is selected, step by step: the recursion has a solution.           *)
SelectedUpTo(sequence, these, n, selected) ==
  selected = [k \in 0..n |->
                IF k = 0 THEN <<>>
                ELSE IF sequence[k] \in these THEN Append(selected[k - 1], sequence[k])
                ELSE selected[k - 1]]

LEMMA SelectedDefined ==
  ASSUME NEW sequence, NEW these, NEW n \in Nat
  PROVE  \E selected : SelectedUpTo(sequence, these, n, selected)
<1> DEFINE S == {m \in Nat : ~ \E selected : SelectedUpTo(sequence, these, m, selected)}
           At(selected, k) == IF k = 0 THEN <<>>
                              ELSE IF sequence[k] \in these
                              THEN Append(selected[k - 1], sequence[k])
                              ELSE selected[k - 1]
<1>1. SUFFICES ASSUME S # {} PROVE FALSE
  OBVIOUS
<1>2. PICK m \in S : \A k \in S : m <= k
  BY <1>1, LeastOfAll
<1>3. m \in Nat /\ ~ \E selected : SelectedUpTo(sequence, these, m, selected)
  BY <1>2
<1>4. CASE m = 0
  <2>1. SelectedUpTo(sequence, these, 0, [k \in 0..0 |-> <<>>])
    BY DEF SelectedUpTo
  <2>2. QED
    BY <1>3, <1>4, <2>1
<1>5. CASE m > 0
  <2>1. m - 1 \in Nat /\ m - 1 \notin S
    BY <1>2, <1>3, <1>5
  <2>2. PICK before : SelectedUpTo(sequence, these, m - 1, before)
    BY <2>1
  <2> DEFINE selected == [k \in 0..m |-> IF k = m THEN At(before, m) ELSE before[k]]
  <2>3. /\ DOMAIN selected = 0..m /\ selected[m] = At(before, m)
        /\ \A k \in 0..(m - 1) : selected[k] = before[k]
    BY <1>3, <1>5
  <2>4. \A k \in 0..(m - 1) : before[k] = At(before, k)
    BY <2>2 DEF SelectedUpTo
  <2>5. selected = [k \in 0..m |-> selected[k]]
    BY <2>3
  <2> HIDE DEF selected
  <2>6. ASSUME NEW k \in 0..m PROVE selected[k] = At(selected, k)
    <3>1. k # 0 => k - 1 \in 0..(m - 1) /\ selected[k - 1] = before[k - 1]
      BY <1>3, <2>3
    <3>2. At(selected, k) = At(before, k)
      BY <3>1
    <3>3. k = m \/ k \in 0..(m - 1)
      BY <1>3
    <3>4. QED
      BY <2>3, <2>4, <3>2, <3>3
  <2>7. SelectedUpTo(sequence, these, m, selected)
    BY <2>5, <2>6 DEF SelectedUpTo
  <2>8. QED
    BY <1>3, <2>7
<1>6. QED
  BY <1>3, <1>4, <1>5

(* What is selected of a sequence is of these, and in its order.           *)
Picks(sequence, these, result, at) ==
  /\ at \in [DOMAIN result -> DOMAIN sequence]
  /\ \A i \in DOMAIN result : result[i] = sequence[at[i]] /\ result[i] \in these
  /\ \A i, j \in DOMAIN result : i < j => at[i] < at[j]

LEMMA SelectedPicks ==
  ASSUME NEW M, NEW sequence \in Seq(M), NEW these
  PROVE  /\ Selected(sequence, these) \in Seq(M)
         /\ \E at : Picks(sequence, these, Selected(sequence, these), at)
<1> DEFINE n == Len(sequence)
           result == Selected(sequence, these)
<1>1. n \in Nat /\ DOMAIN sequence = 1..n
  OBVIOUS
<1>2. PICK selected : /\ SelectedUpTo(sequence, these, n, selected)
                      /\ result = selected[n]
  <2>1. result = (CHOOSE selected : SelectedUpTo(sequence, these, n, selected))[n]
    BY DEF Selected, SelectedUpTo
  <2>2. QED
    BY <1>1, <2>1, SelectedDefined
<1>3. /\ selected[0] = <<>>
      /\ \A k \in 1..n :
           selected[k] = IF sequence[k] \in these
                         THEN Append(selected[k - 1], sequence[k]) ELSE selected[k - 1]
  <2>1. \A k \in 0..n :
          selected[k] = IF k = 0 THEN <<>>
                        ELSE IF sequence[k] \in these THEN Append(selected[k - 1], sequence[k])
                        ELSE selected[k - 1]
    BY <1>2, Zenon DEF SelectedUpTo
  <2>2. 0 \in 0..n /\ \A k \in 1..n : k \in 0..n /\ k # 0
    BY <1>1
  <2>3. QED
    BY <2>1, <2>2, Zenon
<1> DEFINE Good(k) ==
             /\ selected[k] \in Seq(M)
             /\ \E at : /\ Picks(sequence, these, selected[k], at)
                        /\ \A i \in DOMAIN selected[k] : at[i] <= k
           Bad == {k \in 0..n : ~Good(k)}
<1>4. Good(0)
  <2>1. Picks(sequence, these, <<>>, [i \in {} |-> 1])
    BY DEF Picks
  <2>2. QED
    BY <1>3, <2>1
<1>5. ASSUME NEW k \in 1..n, Good(k - 1) PROVE Good(k)
  <2>1. PICK at : /\ Picks(sequence, these, selected[k - 1], at)
                  /\ \A i \in DOMAIN selected[k - 1] : at[i] <= k - 1
    BY <1>5
  <2>2. CASE sequence[k] \notin these
    <3>1. selected[k] = selected[k - 1]
      BY <1>3, <2>2
    <3>2. \A i \in DOMAIN selected[k] : at[i] <= k
      BY <1>1, <2>1, <3>1 DEF Picks
    <3>3. QED
      BY <1>5, <2>1, <3>1, <3>2
  <2>3. CASE sequence[k] \in these
    <3>1. PICK old : old = selected[k - 1]
      OBVIOUS
    <3>2. old \in Seq(M) /\ selected[k] = Append(old, sequence[k]) /\ sequence[k] \in M
      <4>1. old \in Seq(M)
        BY <1>5, <3>1
      <4>2. selected[k] = Append(old, sequence[k])
        BY <1>3, <2>3, <3>1, Zenon
      <4>3. k \in DOMAIN sequence
        BY <1>1
      <4>4. QED
        BY <4>1, <4>2, <4>3
    <3>3. PICK last : last = Len(old) + 1
      OBVIOUS
    <3>4. PICK new : new = [i \in 1..last |-> IF i = last THEN k ELSE at[i]]
      OBVIOUS
    <3>5. /\ last \in Nat \ {0} /\ DOMAIN old = 1..(last - 1)
          /\ DOMAIN selected[k] = 1..last /\ selected[k] \in Seq(M)
          /\ selected[k][last] = sequence[k]
          /\ \A i \in 1..(last - 1) : selected[k][i] = old[i]
      BY <3>2, <3>3
    <3>6. /\ \A i \in 1..(last - 1) : /\ at[i] \in 1..n /\ at[i] <= k - 1
                                      /\ old[i] = sequence[at[i]] /\ old[i] \in these
          /\ \A i, j \in 1..(last - 1) : i < j => at[i] < at[j]
      BY <1>1, <2>1, <3>1, <3>5 DEF Picks
    <3>7. /\ new \in [1..last -> 1..n] /\ \A i \in 1..last : new[i] <= k
          /\ new[last] = k /\ \A i \in 1..(last - 1) : new[i] = at[i]
      <4>1. DOMAIN new = 1..last /\ new[last] = k /\ last \in 1..last
        BY <3>4, <3>5
      <4>2. ASSUME NEW i \in 1..(last - 1) PROVE new[i] = at[i] /\ at[i] \in 1..n /\ at[i] <= k
        <5>1. i \in 1..last /\ i # last
          BY <3>5
        <5>2. at[i] \in 1..n /\ at[i] <= k - 1
          BY <3>6
        <5>3. QED
          BY <1>1, <3>4, <5>1, <5>2
      <4>3. \A i \in 1..last : i = last \/ i \in 1..(last - 1)
        BY <3>5
      <4>4. \A i \in 1..last : new[i] \in 1..n /\ new[i] <= k
        BY <1>1, <4>1, <4>2, <4>3
      <4>5. new = [i \in 1..last |-> new[i]]
        BY <3>4
      <4>6. new \in [1..last -> 1..n]
        BY <4>4, <4>5
      <4>7. QED
        BY <4>1, <4>2, <4>4, <4>6
    <3>8. \A i \in 1..last : selected[k][i] = sequence[new[i]] /\ selected[k][i] \in these
      <4>1. ASSUME NEW i \in 1..last
            PROVE  selected[k][i] = sequence[new[i]] /\ selected[k][i] \in these
        <5>1. CASE i = last
          BY <2>3, <3>5, <3>7, <5>1
        <5>2. CASE i # last
          <6>1. i \in 1..(last - 1)
            BY <3>5, <5>2
          <6>2. QED
            BY <3>5, <3>6, <3>7, <6>1
        <5>3. QED
          BY <5>1, <5>2
      <4>2. QED
        BY <4>1
    <3>9. \A i, j \in 1..last : i < j => new[i] < new[j]
      <4>1. ASSUME NEW i \in 1..last, NEW j \in 1..last, i < j PROVE new[i] < new[j]
        <5>1. i \in 1..(last - 1) /\ (j = last \/ j \in 1..(last - 1))
          BY <3>5, <4>1
        <5>2. QED
          BY <4>1, <5>1, <3>6, <3>7
      <4>2. QED
        BY <4>1
    <3>10. Picks(sequence, these, selected[k], new)
      BY <1>1, <3>5, <3>7, <3>8, <3>9 DEF Picks
    <3>11. QED
      BY <3>5, <3>7, <3>10
  <2>4. QED
    BY <2>2, <2>3
<1> HIDE DEF Good
<1>6. Bad = {}
  <2>1. SUFFICES ASSUME Bad # {} PROVE FALSE
    OBVIOUS
  <2>2. PICK k \in Bad : \A j \in Bad : k <= j
    <3>1. Bad \subseteq Nat
      OBVIOUS
    <3>2. QED
      BY <2>1, <3>1, LeastOfAll
  <2>3. k \in 0..n /\ ~Good(k)
    BY <2>2
  <2>4. k # 0 /\ k - 1 \in 0..n /\ k - 1 \notin Bad /\ k \in 1..n
    BY <1>1, <1>4, <2>2, <2>3
  <2>5. QED
    BY <1>5, <2>3, <2>4
<1>7. Good(n)
  BY <1>1, <1>6
<1>8. QED
  BY <1>2, <1>7 DEF Good

(* Messages by what they carry.                                            *)
StateMessage == [topic : Topics, revision : Revisions]
Sent == {m \in AnyMessage : m.topic # Notice => m \in StateMessage}

Replicas == [Topics -> Revisions \cup {Nothing}]

LEMMA SentAre ==
  ASSUME NEW m \in Sent
  PROVE  /\ m \in AnyMessage /\ m.revision \in Nat
         /\ m.topic # Notice => m \in StateMessage
BY DEF Sent, AnyMessage

LEMMA StateMessagesAreSent ==
  StateMessage \subseteq Sent
BY MessagesAssumption DEF StateMessage, Sent, AnyMessage, Revisions

LEMMA AcceptKeeps ==
  ASSUME NEW held \in Replicas, NEW m \in StateMessage
  PROVE  Accept(held, m) \in Replicas /\ \A t \in Topics : Accept(held, m)[t] >= held[t]
<1>1. m.topic \in Topics /\ m.revision \in Revisions
  BY DEF StateMessage
<1>2. \A t \in Topics : held[t] \in Int
  BY MessagesAssumption DEF Replicas, Revisions, Nothing
<1>3. CASE m.revision > held[m.topic]
  <2>1. Accept(held, m) = [held EXCEPT ![m.topic] = m.revision]
    BY <1>3 DEF Accept
  <2>2. Accept(held, m) \in Replicas
    BY <1>1, <2>1 DEF Replicas
  <2>3. \A t \in Topics : Accept(held, m)[t] = IF t = m.topic THEN m.revision ELSE held[t]
    BY <2>1 DEF Replicas
  <2>4. m.revision \in Int
    BY <1>1, MessagesAssumption DEF Revisions
  <2>5. QED
    BY <1>2, <1>3, <2>2, <2>3, <2>4
<1>4. CASE ~(m.revision > held[m.topic])
  <2>1. Accept(held, m) = held
    BY <1>4 DEF Accept
  <2>2. QED
    BY <1>2, <2>1
<1>5. QED
  BY <1>3, <1>4

AcceptedUpTo(held, messages, n, after) ==
  after = [k \in 0..n |->
             IF k = 0 THEN held
             ELSE IF messages[k].topic = Notice THEN after[k - 1]
             ELSE Accept(after[k - 1], messages[k])]

LEMMA AcceptedDefined ==
  ASSUME NEW held, NEW messages, NEW n \in Nat
  PROVE  \E after : AcceptedUpTo(held, messages, n, after)
<1> DEFINE S == {m \in Nat : ~ \E after : AcceptedUpTo(held, messages, m, after)}
           At(after, k) == IF k = 0 THEN held
                           ELSE IF messages[k].topic = Notice THEN after[k - 1]
                           ELSE Accept(after[k - 1], messages[k])
<1>1. SUFFICES ASSUME S # {} PROVE FALSE
  OBVIOUS
<1>2. PICK m \in S : \A k \in S : m <= k
  BY <1>1, LeastOfAll
<1>3. m \in Nat /\ ~ \E after : AcceptedUpTo(held, messages, m, after)
  BY <1>2
<1>4. CASE m = 0
  <2>1. AcceptedUpTo(held, messages, 0, [k \in 0..0 |-> held])
    BY DEF AcceptedUpTo
  <2>2. QED
    BY <1>3, <1>4, <2>1
<1>5. CASE m > 0
  <2>1. m - 1 \in Nat /\ m - 1 \notin S
    BY <1>2, <1>3, <1>5
  <2>2. PICK before : AcceptedUpTo(held, messages, m - 1, before)
    BY <2>1
  <2> DEFINE after == [k \in 0..m |-> IF k = m THEN At(before, m) ELSE before[k]]
  <2>3. /\ DOMAIN after = 0..m /\ after[m] = At(before, m)
        /\ \A k \in 0..(m - 1) : after[k] = before[k]
    BY <1>3, <1>5
  <2>4. \A k \in 0..(m - 1) : before[k] = At(before, k)
    BY <2>2 DEF AcceptedUpTo
  <2>5. after = [k \in 0..m |-> after[k]]
    BY <2>3
  <2> HIDE DEF after
  <2>6. ASSUME NEW k \in 0..m PROVE after[k] = At(after, k)
    <3>1. k # 0 => k - 1 \in 0..(m - 1) /\ after[k - 1] = before[k - 1]
      BY <1>3, <2>3
    <3>2. At(after, k) = At(before, k)
      BY <3>1
    <3>3. k = m \/ k \in 0..(m - 1)
      BY <1>3
    <3>4. QED
      BY <2>3, <2>4, <3>2, <3>3
  <2>7. AcceptedUpTo(held, messages, m, after)
    BY <2>5, <2>6 DEF AcceptedUpTo
  <2>8. QED
    BY <1>3, <2>7
<1>6. QED
  BY <1>3, <1>4, <1>5

(* However many messages a replica takes, no topic of it goes back.        *)
LEMMA AcceptAllKeeps ==
  ASSUME NEW held \in Replicas, NEW messages \in Seq(Sent)
  PROVE  /\ AcceptAll(held, messages) \in Replicas
         /\ \A t \in Topics : AcceptAll(held, messages)[t] >= held[t]
<1> DEFINE n == Len(messages)
<1>1. n \in Nat /\ DOMAIN messages = 1..n /\ \A k \in 1..n : messages[k] \in Sent
  OBVIOUS
<1>2. PICK after : /\ AcceptedUpTo(held, messages, n, after)
                   /\ AcceptAll(held, messages) = after[n]
  <2>1. AcceptAll(held, messages) = (CHOOSE after : AcceptedUpTo(held, messages, n, after))[n]
    BY DEF AcceptAll, AcceptedUpTo
  <2>2. QED
    BY <1>1, <2>1, AcceptedDefined
<1>3. /\ after[0] = held
      /\ \A k \in 1..n :
           after[k] = IF messages[k].topic = Notice THEN after[k - 1]
                      ELSE Accept(after[k - 1], messages[k])
  <2>1. \A k \in 0..n :
          after[k] = IF k = 0 THEN held
                     ELSE IF messages[k].topic = Notice THEN after[k - 1]
                     ELSE Accept(after[k - 1], messages[k])
    BY <1>2, Zenon DEF AcceptedUpTo
  <2>2. 0 \in 0..n /\ \A k \in 1..n : k \in 0..n /\ k # 0
    BY <1>1
  <2>3. QED
    BY <2>1, <2>2, Zenon
<1> DEFINE Good(k) == after[k] \in Replicas /\ \A t \in Topics : after[k][t] >= held[t]
           Bad == {k \in 0..n : ~Good(k)}
<1>4. \A r \in Replicas : \A t \in Topics : r[t] \in Int
  BY MessagesAssumption DEF Replicas, Revisions, Nothing
<1>5. Good(0)
  BY <1>3, <1>4
<1>6. ASSUME NEW k \in 1..n, Good(k - 1) PROVE Good(k)
  <2>1. CASE messages[k].topic = Notice
    BY <1>3, <1>6, <2>1
  <2>2. CASE messages[k].topic # Notice
    <3>1. messages[k] \in StateMessage
      BY <1>1, <2>2, SentAre
    <3>2. after[k] = Accept(after[k - 1], messages[k]) /\ after[k - 1] \in Replicas
      BY <1>3, <1>6, <2>2
    <3>3. after[k] \in Replicas /\ \A t \in Topics : after[k][t] >= after[k - 1][t]
      BY <3>1, <3>2, AcceptKeeps
    <3>4. \A t \in Topics : after[k - 1][t] >= held[t]
      BY <1>6
    <3>5. ASSUME NEW t \in Topics PROVE after[k][t] >= held[t]
      BY <1>4, <3>2, <3>3, <3>4
    <3>6. QED
      BY <3>3, <3>5
  <2>3. QED
    BY <2>1, <2>2
<1> HIDE DEF Good
<1>7. Bad = {}
  <2>1. SUFFICES ASSUME Bad # {} PROVE FALSE
    OBVIOUS
  <2>2. PICK k \in Bad : \A j \in Bad : k <= j
    <3>1. Bad \subseteq Nat
      OBVIOUS
    <3>2. QED
      BY <2>1, <3>1, LeastOfAll
  <2>3. k \in 0..n /\ ~Good(k)
    BY <2>2
  <2>4. k # 0 /\ k - 1 \in 0..n /\ k - 1 \notin Bad /\ k \in 1..n
    BY <1>1, <1>5, <2>2, <2>3
  <2>5. QED
    BY <1>6, <2>3, <2>4
<1>8. Good(n)
  BY <1>1, <1>7
<1>9. QED
  BY <1>2, <1>8 DEF Good

-----------------------------------------------------------------------------
(* Occurrences on their way: what each place holds of them is told before  *)
(* what the places behind it hold.                                         *)

Numbers(s) == {s[i].revision : i \in {j \in DOMAIN s : s[j].topic = Notice}}
Rising(s) ==
  \A i, j \in DOMAIN s :
    i < j /\ s[i].topic = Notice /\ s[j].topic = Notice => s[i].revision < s[j].revision
Below(A, B) == \A a \in A, b \in B : a < b
Shown(told) == {told[i] : i \in DOMAIN told}
Ordered(told) == \A i, j \in DOMAIN told : i < j => told[i] < told[j]

InFlow(told, kept, sent, gathered, said, last) ==
  /\ Ordered(told) /\ Rising(kept) /\ Rising(sent) /\ Rising(gathered) /\ Rising(said)
  /\ Below(Shown(told), Numbers(kept)) /\ Below(Shown(told), Numbers(sent))
  /\ Below(Shown(told), Numbers(gathered)) /\ Below(Shown(told), Numbers(said))
  /\ Below(Numbers(kept), Numbers(sent)) /\ Below(Numbers(kept), Numbers(gathered))
  /\ Below(Numbers(kept), Numbers(said))
  /\ Below(Numbers(sent), Numbers(gathered)) /\ Below(Numbers(sent), Numbers(said))
  /\ Below(Numbers(gathered), Numbers(said))
  /\ Below(Shown(told) \cup Numbers(kept) \cup Numbers(sent) \cup Numbers(gathered)
             \cup Numbers(said), {last + 1})

Flow == InFlow(noticed, early, wire, outbox, signals, notices)

Types ==
  /\ TypeOK
  /\ signals \in Seq(Sent) /\ outbox \in Seq(Sent) /\ wire \in Seq(Sent)
  /\ early \in Seq(Sent) /\ initial \in Seq(StateMessage) /\ reply \in Seq(StateMessage)
  /\ answers \subseteq StateMessage

MessagesInv == Types /\ Flow

LEMMA EmptyNumbers ==
  Numbers(<<>>) = {} /\ Rising(<<>>)
BY DEF Numbers, Rising

LEMMA AppendedNumbers ==
  ASSUME NEW s \in Seq(Sent), NEW m \in Sent, Rising(s),
         m.topic = Notice => Below(Numbers(s), {m.revision})
  PROVE  /\ Append(s, m) \in Seq(Sent) /\ Rising(Append(s, m))
         /\ Numbers(Append(s, m)) =
              Numbers(s) \cup (IF m.topic = Notice THEN {m.revision} ELSE {})
<1> DEFINE n == Len(s)
           t == Append(s, m)
<1>1. /\ n \in Nat /\ DOMAIN s = 1..n /\ t \in Seq(Sent) /\ DOMAIN t = 1..(n + 1)
      /\ t[n + 1] = m /\ \A i \in 1..n : t[i] = s[i]
  OBVIOUS
<1> HIDE DEF n, t
<1>2. Rising(t)
  <2> SUFFICES ASSUME NEW i \in DOMAIN t, NEW j \in DOMAIN t, i < j,
                      t[i].topic = Notice, t[j].topic = Notice
               PROVE  t[i].revision < t[j].revision
    BY DEF Rising
  <2>1. i \in 1..n
    BY <1>1
  <2>2. CASE j = n + 1
    <3>1. t[i].revision \in Numbers(s)
      BY <1>1, <2>1 DEF Numbers
    <3>2. QED
      BY <1>1, <2>2, <3>1 DEF Below
  <2>3. CASE j \in 1..n
    BY <1>1, <2>1, <2>3 DEF Rising
  <2>4. QED
    BY <1>1, <2>2, <2>3
<1>3. Numbers(t) = Numbers(s) \cup (IF m.topic = Notice THEN {m.revision} ELSE {})
  <2>1. ASSUME NEW x \in Numbers(t)
        PROVE  x \in Numbers(s) \cup (IF m.topic = Notice THEN {m.revision} ELSE {})
    <3>1. PICK i \in DOMAIN t : t[i].topic = Notice /\ x = t[i].revision
      BY <2>1 DEF Numbers
    <3>2. i = n + 1 \/ i \in 1..n
      BY <1>1
    <3>3. QED
      BY <1>1, <3>1, <3>2 DEF Numbers
  <2>2. ASSUME NEW x \in Numbers(s) PROVE x \in Numbers(t)
    <3>1. PICK i \in DOMAIN s : s[i].topic = Notice /\ x = s[i].revision
      BY <2>2 DEF Numbers
    <3>2. i \in DOMAIN t /\ t[i] = s[i]
      BY <1>1
    <3>3. QED
      BY <3>1, <3>2 DEF Numbers
  <2>3. ASSUME m.topic = Notice PROVE m.revision \in Numbers(t)
    BY <1>1, <2>3 DEF Numbers
  <2>4. QED
    BY <2>1, <2>2, <2>3
<1>4. QED
  BY <1>1, <1>2, <1>3 DEF t

LEMMA TakenNumbers ==
  ASSUME NEW s \in Seq(Sent), s # <<>>, Rising(s)
  PROVE  /\ Tail(s) \in Seq(Sent) /\ Rising(Tail(s)) /\ Numbers(Tail(s)) \subseteq Numbers(s)
         /\ Head(s) \in Sent
         /\ Head(s).topic = Notice =>
              /\ Head(s).revision \in Numbers(s)
              /\ Below({Head(s).revision}, Numbers(Tail(s)))
<1> DEFINE n == Len(s)
           t == Tail(s)
<1>1. /\ n \in Nat \ {0} /\ DOMAIN s = 1..n /\ t \in Seq(Sent) /\ DOMAIN t = 1..(n - 1)
      /\ \A i \in 1..(n - 1) : t[i] = s[i + 1]
      /\ Head(s) = s[1] /\ Head(s) \in Sent
  OBVIOUS
<1> HIDE DEF n, t
<1>2. \A i \in DOMAIN t : i + 1 \in DOMAIN s /\ t[i] = s[i + 1] /\ i \in Nat /\ 1 < i + 1
  BY <1>1
<1>3. Rising(t)
  <2> SUFFICES ASSUME NEW i \in DOMAIN t, NEW j \in DOMAIN t, i < j,
                      t[i].topic = Notice, t[j].topic = Notice
               PROVE  t[i].revision < t[j].revision
    BY DEF Rising
  <2>1. i + 1 < j + 1
    BY <1>2
  <2>2. QED
    BY <1>2, <2>1 DEF Rising
<1>4. Numbers(t) \subseteq Numbers(s)
  BY <1>2 DEF Numbers
<1>5. ASSUME Head(s).topic = Notice
      PROVE  /\ Head(s).revision \in Numbers(s)
             /\ Below({Head(s).revision}, Numbers(t))
  <2>1. 1 \in DOMAIN s
    BY <1>1
  <2>2. ASSUME NEW b \in Numbers(t) PROVE Head(s).revision < b
    <3>1. PICK i \in DOMAIN t : t[i].topic = Notice /\ b = t[i].revision
      BY <2>2 DEF Numbers
    <3>2. QED
      BY <1>1, <1>2, <1>5, <2>1, <3>1 DEF Rising
  <2>3. QED
    BY <1>1, <1>5, <2>1, <2>2 DEF Numbers, Below
<1>6. QED
  BY <1>1, <1>3, <1>4, <1>5 DEF t

(* The occurrences of a batch are in its order.                            *)
LEMMA OccurredInOrder ==
  ASSUME NEW s \in Seq(Sent), Rising(s)
  PROVE  /\ Occurred(s) \in Seq(Sent) /\ Rising(Occurred(s))
         /\ Numbers(Occurred(s)) \subseteq Numbers(s)
         /\ \A i \in DOMAIN Occurred(s) : Occurred(s)[i].topic = Notice
<1> DEFINE these == {m \in ToSet(s) : m.topic = Notice}
<1>1. PICK r : r = Occurred(s)
  OBVIOUS
<1>2. r \in Seq(Sent) /\ \E at : Picks(s, these, r, at)
  BY <1>1, SelectedPicks DEF Occurred
<1>3. PICK at : Picks(s, these, r, at)
  BY <1>2
<1>4. /\ \A i \in DOMAIN r : at[i] \in DOMAIN s /\ r[i] = s[at[i]] /\ r[i].topic = Notice
      /\ \A i, j \in DOMAIN r : i < j => at[i] < at[j]
  BY <1>3 DEF Picks
<1>5. Rising(r)
  BY <1>4 DEF Rising
<1>6. Numbers(r) \subseteq Numbers(s)
  BY <1>4 DEF Numbers
<1>7. QED
  BY <1>1, <1>2, <1>4, <1>5, <1>6

LEMMA ChangedTopicsAre ==
  ASSUME NEW s
  PROVE  ChangedTopics(s) \in Seq(Topics)
BY SelectedPicks, MessagesAssumption DEF ChangedTopics

LEMMA NoticesOfAre ==
  ASSUME NEW s \in Seq(Sent), Rising(s)
  PROVE  /\ NoticesOf(s) \in Seq(Nat)
         /\ Shown(NoticesOf(s)) \subseteq Numbers(s) /\ Ordered(NoticesOf(s))
<1>1. PICK r : r = Occurred(s)
  OBVIOUS
<1>2. /\ r \in Seq(Sent) /\ Rising(r) /\ Numbers(r) \subseteq Numbers(s)
      /\ \A i \in DOMAIN r : r[i].topic = Notice
  BY <1>1, OccurredInOrder
<1>3. PICK told : told = [i \in DOMAIN r |-> r[i].revision]
  OBVIOUS
<1>4. NoticesOf(s) = told
  BY <1>1, <1>3 DEF NoticesOf
<1>5. Len(r) \in Nat /\ DOMAIN r = 1..Len(r) /\ \A i \in DOMAIN r : r[i].revision \in Nat
  BY <1>2, SentAre
<1>6. told \in Seq(Nat)
  BY <1>3, <1>5
<1>7. \A i \in DOMAIN r : told[i] = r[i].revision /\ told[i] \in Numbers(r)
  BY <1>2, <1>3 DEF Numbers
<1>8. DOMAIN told = DOMAIN r
  BY <1>3
<1>9. Ordered(told)
  BY <1>2, <1>7, <1>8 DEF Rising, Ordered
<1>10. QED
  BY <1>2, <1>4, <1>6, <1>7, <1>8, <1>9 DEF Shown

(* What a page is told next goes after what it was told.                   *)
LEMMA ToldNext ==
  ASSUME NEW before \in Seq(Nat), NEW next \in Seq(Nat),
         Ordered(before), Ordered(next), Below(Shown(before), Shown(next))
  PROVE  /\ before \o next \in Seq(Nat)
         /\ Ordered(before \o next)
         /\ Shown(before \o next) = Shown(before) \cup Shown(next)
<1> DEFINE n == Len(before)
           m == Len(next)
           all == before \o next
<1>1. /\ n \in Nat /\ m \in Nat /\ DOMAIN before = 1..n /\ DOMAIN next = 1..m
      /\ all \in Seq(Nat) /\ DOMAIN all = 1..(n + m)
      /\ \A i \in 1..n : all[i] = before[i]
      /\ \A i \in (n + 1)..(n + m) : i - n \in 1..m /\ all[i] = next[i - n]
  OBVIOUS
<1> HIDE DEF n, m, all
<1>2. ASSUME NEW i \in DOMAIN all, NEW j \in DOMAIN all, i < j PROVE all[i] < all[j]
  <2>1. CASE j \in 1..n
    <3>1. i \in 1..n
      BY <1>1, <1>2, <2>1
    <3>2. QED
      BY <1>1, <1>2, <2>1, <3>1 DEF Ordered
  <2>2. CASE i \in (n + 1)..(n + m)
    <3>1. j \in (n + 1)..(n + m) /\ i - n < j - n
      BY <1>1, <1>2, <2>2
    <3>2. QED
      BY <1>1, <2>2, <3>1 DEF Ordered
  <2>3. CASE i \in 1..n /\ j \in (n + 1)..(n + m)
    BY <1>1, <2>3 DEF Below, Shown
  <2>4. QED
    BY <1>1, <2>1, <2>2, <2>3
<1>3. {all[i] : i \in DOMAIN all} =
        {before[i] : i \in DOMAIN before} \cup {next[i] : i \in DOMAIN next}
  <2>1. ASSUME NEW i \in DOMAIN all
        PROVE  all[i] \in {before[k] : k \in DOMAIN before} \cup {next[k] : k \in DOMAIN next}
    <3>1. i \in 1..n \/ i \in (n + 1)..(n + m)
      BY <1>1
    <3>2. QED
      BY <1>1, <3>1
  <2>2. ASSUME NEW i \in DOMAIN before PROVE before[i] \in {all[k] : k \in DOMAIN all}
    BY <1>1
  <2>3. ASSUME NEW i \in DOMAIN next PROVE next[i] \in {all[k] : k \in DOMAIN all}
    <3>1. i + n \in DOMAIN all /\ all[i + n] = next[i]
      <4>1. i + n \in (n + 1)..(n + m) /\ (i + n) - n = i
        BY <1>1
      <4>2. QED
        BY <1>1, <4>1
    <3>2. QED
      BY <3>1
  <2>4. QED
    BY <2>1, <2>2, <2>3
<1>4. QED
  BY <1>1, <1>2, <1>3 DEF all, Ordered, Shown

LEMMA InitMessages ==
  MessagesInit => MessagesInv
<1> SUFFICES ASSUME MessagesInit PROVE MessagesInv
  OBVIOUS
<1>1. <<>> \in Seq(Sent) /\ <<>> \in Seq(StateMessage) /\ <<>> \in Seq(AnyMessage)
  OBVIOUS
<1>2. TypeOK
  <2>1. /\ 0 \in Revisions /\ 0 \in 0..MaxNotices /\ 0 \in 0..MaxLoads
    BY MessagesAssumption DEF Revisions
  <2>2. replica \in [Topics -> Revisions \cup {Nothing}] /\ stored \in [Topics -> Revisions]
    BY <2>1 DEF MessagesInit
  <2>3. <<>> \in Seq(Nat) /\ <<>> \in Seq(Topics)
    OBVIOUS
  <2>4. QED
    BY <1>1, <2>1, <2>2, <2>3 DEF MessagesInit, TypeOK, NoReply
<1>3. Types
  BY <1>1, <1>2 DEF MessagesInit, Types, NoReply
<1>4. Flow
  <2>1. Shown(<<>>) = {} /\ Ordered(<<>>)
    BY DEF Shown, Ordered
  <2>2. QED
    BY <2>1, EmptyNumbers DEF MessagesInit, Flow, InFlow, Below
<1>5. QED
  BY <1>3, <1>4 DEF MessagesInv

(* Steps that leave the occurrences where they are.                        *)
LEMMA FlowStays ==
  ASSUME Flow, UNCHANGED <<noticed, early, wire, outbox, signals, notices>>
  PROVE  Flow'
BY DEF Flow

LEMMA ChangeMessages ==
  ASSUME MessagesInv, NEW t \in Topics, NEW answered \in BOOLEAN, Change(t, answered)
  PROVE  MessagesInv'
<1>1. /\ stored' = [stored EXCEPT ![t] = @ + 1] /\ stored[t] < MaxRevision
      /\ stored \in [Topics -> Revisions]
      /\ announcing' = announcing \cup {t}
  BY DEF Change, MessagesInv, Types, TypeOK
<1>2. stored[t] + 1 \in Revisions
  BY <1>1, MessagesAssumption DEF Revisions
<1>3. stored' \in [Topics -> Revisions]
  BY <1>1, <1>2
<1>4. Message(t, stored[t] + 1) \in StateMessage
  BY <1>2 DEF Message, StateMessage
<1>5. answers' \subseteq StateMessage
  BY <1>4 DEF Change, MessagesInv, Types
<1>6. StateMessage \subseteq AnyMessage
  BY StateMessagesAreSent DEF Sent
<1>7. Types'
  BY <1>1, <1>3, <1>5, <1>6
  DEF Change, MessagesInv, Types, TypeOK, dispatchVars, hostVars, pageVars
<1>8. Flow'
  BY FlowStays DEF Change, MessagesInv, dispatchVars, pageVars
<1>9. QED
  BY <1>7, <1>8 DEF MessagesInv

LEMMA AnnounceMessages ==
  ASSUME MessagesInv, NEW t \in Topics, Announce(t)
  PROVE  MessagesInv'
<1>1. PICK m : m = Message(t, 0)
  OBVIOUS
<1>2. m \in Sent /\ m.topic # Notice
  BY <1>1, MessagesAssumption DEF Message, Sent, AnyMessage, StateMessage, Revisions
<1>3. signals \in Seq(Sent) /\ Rising(signals) /\ signals' = Append(signals, m)
  BY <1>1 DEF MessagesInv, Types, Flow, InFlow, Announce
<1>4. signals' \in Seq(Sent) /\ Rising(signals') /\ Numbers(signals') = Numbers(signals)
  BY <1>2, <1>3, AppendedNumbers
<1>5. signals' \in Seq(AnyMessage)
  BY <1>4 DEF Sent
<1>6. Types'
  BY <1>4, <1>5 DEF Announce, MessagesInv, Types, TypeOK, hostVars, pageVars
<1>7. UNCHANGED <<noticed, early, wire, outbox, notices>>
  BY DEF Announce, pageVars
<1>8. Flow'
  BY <1>4, <1>7 DEF Flow, InFlow, MessagesInv
<1>9. QED
  BY <1>6, <1>8 DEF MessagesInv

LEMMA OccurMessages ==
  ASSUME MessagesInv, Occur
  PROVE  MessagesInv'
<1>1. PICK m : m = Message(Notice, notices + 1)
  OBVIOUS
<1>2. notices \in Nat /\ notices' = notices + 1 /\ notices' \in 0..MaxNotices
  BY MessagesAssumption DEF Occur, MessagesInv, Types, TypeOK
<1>3. m \in Sent /\ m.topic = Notice /\ m.revision = notices + 1
  BY <1>1, <1>2 DEF Message, Sent, AnyMessage
<1>4. signals \in Seq(Sent) /\ Rising(signals) /\ signals' = Append(signals, m)
  BY <1>1 DEF MessagesInv, Types, Flow, InFlow, Occur
<1>5. PICK all : all = Shown(noticed) \cup Numbers(early) \cup Numbers(wire)
                         \cup Numbers(outbox) \cup Numbers(signals)
  OBVIOUS
<1>6. Below(all, {notices + 1})
  BY <1>5 DEF MessagesInv, Flow, InFlow
<1>7. /\ signals' \in Seq(Sent) /\ Rising(signals')
      /\ Numbers(signals') = Numbers(signals) \cup {notices + 1}
  <2>1. Below(Numbers(signals), {notices + 1})
    BY <1>5, <1>6 DEF Below
  <2>2. QED
    BY <1>3, <1>4, <2>1, AppendedNumbers
<1>8. all \subseteq Nat
  <2>1. ASSUME NEW s \in Seq(Sent) PROVE Numbers(s) \subseteq Nat
    <3>1. \A i \in DOMAIN s : s[i] \in Sent
      OBVIOUS
    <3>2. QED
      BY <3>1, SentAre DEF Numbers
  <2>2. Shown(noticed) \subseteq Nat
    BY DEF Shown, MessagesInv, Types, TypeOK
  <2>3. QED
    BY <1>5, <2>1, <2>2 DEF MessagesInv, Types
<1>9. Below(all \cup {notices + 1}, {notices' + 1})
  BY <1>2, <1>6, <1>8 DEF Below
<1>10. signals' \in Seq(AnyMessage)
  BY <1>7 DEF Sent
<1>11. Types'
  BY <1>2, <1>7, <1>10 DEF Occur, MessagesInv, Types, TypeOK, hostVars, pageVars
<1>12. UNCHANGED <<noticed, early, wire, outbox>>
  BY DEF Occur, pageVars
<1>13. Flow'
  <2>1. /\ Below(Shown(noticed), Numbers(signals'))
        /\ Below(Numbers(early), Numbers(signals'))
        /\ Below(Numbers(wire), Numbers(signals'))
        /\ Below(Numbers(outbox), Numbers(signals'))
    BY <1>5, <1>6, <1>7 DEF Below, MessagesInv, Flow, InFlow
  <2>2. Below(Shown(noticed) \cup Numbers(early) \cup Numbers(wire) \cup Numbers(outbox)
                \cup Numbers(signals'), {notices' + 1})
    BY <1>5, <1>7, <1>9 DEF Below
  <2>3. QED
    BY <1>7, <1>12, <2>1, <2>2 DEF Flow, InFlow, MessagesInv
<1>14. QED
  BY <1>11, <1>13 DEF MessagesInv

LEMMA TakeBatchMessages ==
  ASSUME MessagesInv, TakeBatch
  PROVE  MessagesInv'
<1>1. /\ signals \in Seq(Sent) /\ Rising(signals) /\ outbox = <<>>
      /\ outbox' = Occurred(signals) /\ toRead' = ChangedTopics(signals) /\ signals' = <<>>
  BY DEF MessagesInv, Types, Flow, InFlow, TakeBatch, DispatcherIdle
<1>2. /\ outbox' \in Seq(Sent) /\ Rising(outbox') /\ Numbers(outbox') \subseteq Numbers(signals)
      /\ toRead' \in Seq(Topics)
  BY <1>1, OccurredInOrder, ChangedTopicsAre
<1>3. outbox' \in Seq(AnyMessage) /\ signals' \in Seq(AnyMessage) /\ signals' \in Seq(Sent)
  BY <1>1, <1>2 DEF Sent
<1>4. Types'
  BY <1>2, <1>3 DEF TakeBatch, MessagesInv, Types, TypeOK, backendVars, hostVars, pageVars
<1>5. UNCHANGED <<noticed, early, wire, notices>>
  BY DEF TakeBatch, backendVars, pageVars
<1>6. Numbers(signals') = {} /\ Rising(signals')
  BY <1>1, EmptyNumbers
<1>7. Flow'
  BY <1>2, <1>5, <1>6 DEF Flow, InFlow, Below, MessagesInv
<1>8. QED
  BY <1>4, <1>7 DEF MessagesInv

LEMMA ReadTopicMessages ==
  ASSUME MessagesInv, ReadTopic
  PROVE  MessagesInv'
<1>1. PICK m : m = Message(Head(toRead), stored[Head(toRead)])
  OBVIOUS
<1>2. Head(toRead) \in Topics /\ Tail(toRead) \in Seq(Topics) /\ stored \in [Topics -> Revisions]
  BY DEF MessagesInv, Types, TypeOK, ReadTopic
<1>3. m \in StateMessage /\ m.topic \in Topics
  BY <1>1, <1>2 DEF Message, StateMessage
<1>4. m \in Sent /\ m.topic # Notice
  BY <1>3, StateMessagesAreSent, MessagesAssumption
<1>5. outbox \in Seq(Sent) /\ Rising(outbox) /\ outbox' = Append(outbox, m)
  BY <1>1 DEF MessagesInv, Types, Flow, InFlow, ReadTopic
<1>6. outbox' \in Seq(Sent) /\ Rising(outbox') /\ Numbers(outbox') = Numbers(outbox)
  BY <1>4, <1>5, AppendedNumbers
<1>7. outbox' \in Seq(AnyMessage)
  BY <1>6 DEF Sent
<1>8. Types'
  BY <1>2, <1>6, <1>7 DEF ReadTopic, MessagesInv, Types, TypeOK, backendVars, hostVars, pageVars
<1>9. UNCHANGED <<noticed, early, wire, signals, notices>>
  BY DEF ReadTopic, backendVars, pageVars
<1>10. Flow'
  BY <1>6, <1>9 DEF Flow, InFlow, MessagesInv
<1>11. QED
  BY <1>8, <1>10 DEF MessagesInv

LEMMA SendMessages ==
  ASSUME MessagesInv, SendMessage
  PROVE  MessagesInv'
<1>1. PICK m : m = Head(outbox)
  OBVIOUS
<1>2. /\ outbox \in Seq(Sent) /\ outbox # <<>> /\ Rising(outbox) /\ outbox' = Tail(outbox)
      /\ wire \in Seq(Sent) /\ Rising(wire)
      /\ wire' = IF subscribed THEN Append(wire, m) ELSE wire
  BY <1>1 DEF MessagesInv, Types, Flow, InFlow, SendMessage
<1>3. /\ outbox' \in Seq(Sent) /\ Rising(outbox') /\ Numbers(outbox') \subseteq Numbers(outbox)
      /\ m \in Sent
      /\ m.topic = Notice => /\ m.revision \in Numbers(outbox)
                             /\ Below({m.revision}, Numbers(outbox'))
  BY <1>1, <1>2, TakenNumbers
<1>4. m.topic = Notice => Below(Numbers(wire), {m.revision})
  BY <1>3 DEF MessagesInv, Flow, InFlow, Below
<1>5. PICK X : X = IF m.topic = Notice /\ subscribed THEN {m.revision} ELSE {}
  OBVIOUS
<1>6. /\ wire' \in Seq(Sent) /\ Rising(wire') /\ Numbers(wire') = Numbers(wire) \cup X
  <2>1. CASE subscribed
    BY <1>2, <1>3, <1>4, <1>5, <2>1, AppendedNumbers
  <2>2. CASE ~subscribed
    BY <1>2, <1>5, <2>2
  <2>3. QED
    BY <2>1, <2>2
<1>7. X \subseteq Numbers(outbox) /\ Below(X, Numbers(outbox'))
  BY <1>3, <1>5 DEF Below
<1>8. wire' \in Seq(AnyMessage) /\ outbox' \in Seq(AnyMessage)
  BY <1>3, <1>6 DEF Sent
<1>9. Types'
  BY <1>3, <1>6, <1>8 DEF SendMessage, MessagesInv, Types, TypeOK, backendVars, hostVars, pageVars
<1>10. UNCHANGED <<noticed, early, signals, notices>>
  BY DEF SendMessage, backendVars, pageVars
<1>11. Flow'
  BY <1>3, <1>6, <1>7, <1>10 DEF Flow, InFlow, Below, MessagesInv
<1>12. QED
  BY <1>9, <1>11 DEF MessagesInv

LEMMA HostMessages ==
  ASSUME MessagesInv, Host
  PROVE  MessagesInv'
<1>1. CASE ReplaceChannel
  <2>1. Types'
    BY <1>1 DEF ReplaceChannel, MessagesInv, Types, TypeOK, backendVars, dispatchVars, pageVars
  <2>2. Flow'
    BY <1>1, FlowStays DEF ReplaceChannel, MessagesInv, backendVars, dispatchVars, pageVars
  <2>3. QED
    BY <2>1, <2>2 DEF MessagesInv
<1>2. CASE ReadInitial
  <2>1. PICK t, read : /\ t = TopicOrder[Len(initial) + 1]
                       /\ read = Append(initial, Message(t, stored[t]))
    OBVIOUS
  <2>2. /\ initial \in Seq(StateMessage) /\ stored \in [Topics -> Revisions]
        /\ Len(initial) < Len(TopicOrder)
    BY <1>2 DEF ReadInitial, MessagesInv, Types, TypeOK
  <2>3. t \in Topics
    <3>1. Len(initial) + 1 \in 1..Len(TopicOrder)
      BY <2>2, MessagesAssumption
    <3>2. QED
      BY <2>1, <3>1, MessagesAssumption
  <2>4. Message(t, stored[t]) \in StateMessage
    BY <2>2, <2>3 DEF Message, StateMessage
  <2>5. read \in Seq(StateMessage)
    BY <2>1, <2>2, <2>4
  <2>6. /\ initial' \in Seq(StateMessage) /\ reply' \in Seq(StateMessage)
        /\ initial' # <<>> => subscribed /\ reply' = NoReply
        /\ connection = "connecting" /\ reply = NoReply /\ subscribed
    <3>1. /\ IF Len(read) = Len(TopicOrder) THEN reply' = read /\ initial' = <<>>
             ELSE initial' = read /\ reply' = reply
          /\ connection = "connecting" /\ reply = NoReply /\ subscribed
      BY <1>2, <2>1 DEF ReadInitial
    <3>2. <<>> \in Seq(StateMessage) /\ reply \in Seq(StateMessage)
      BY DEF MessagesInv, Types
    <3>3. QED
      BY <2>5, <3>1, <3>2
  <2>7. initial' \in Seq(AnyMessage) /\ reply' \in Seq(AnyMessage)
    BY <2>6, StateMessagesAreSent DEF Sent
  <2>8. Types'
    BY <1>2, <2>6, <2>7
    DEF ReadInitial, MessagesInv, Types, TypeOK, backendVars, dispatchVars, pageVars
  <2>9. Flow'
    BY <1>2, FlowStays DEF ReadInitial, MessagesInv, backendVars, dispatchVars, pageVars
  <2>10. QED
    BY <2>8, <2>9 DEF MessagesInv
<1>3. QED
  BY <1>1, <1>2 DEF Host

LEMMA ConnectMessages ==
  ASSUME MessagesInv, Connect
  PROVE  MessagesInv'
<1>1. Types'
  BY DEF Connect, MessagesInv, Types, TypeOK, backendVars, dispatchVars, hostVars
<1>2. Flow'
  BY FlowStays DEF Connect, MessagesInv, backendVars, dispatchVars
<1>3. QED
  BY <1>1, <1>2 DEF MessagesInv

LEMMA ReceiveMessages ==
  ASSUME MessagesInv, ReceiveMessage
  PROVE  MessagesInv' /\ \A t \in Topics : replica'[t] >= replica[t]
<1>1. PICK m : m = Head(wire)
  OBVIOUS
<1>2. /\ wire \in Seq(Sent) /\ wire # <<>> /\ Rising(wire) /\ wire' = Tail(wire)
      /\ early \in Seq(Sent) /\ Rising(early) /\ noticed \in Seq(Nat) /\ Ordered(noticed)
      /\ replica \in Replicas
  BY DEF MessagesInv, Types, TypeOK, Flow, InFlow, ReceiveMessage, Replicas
<1>3. /\ wire' \in Seq(Sent) /\ Rising(wire') /\ Numbers(wire') \subseteq Numbers(wire)
      /\ m \in Sent
      /\ m.topic = Notice => /\ m.revision \in Numbers(wire)
                             /\ Below({m.revision}, Numbers(wire'))
  BY <1>1, <1>2, TakenNumbers
<1>4. UNCHANGED <<outbox, signals, notices>>
  BY DEF ReceiveMessage, backendVars, dispatchVars
<1>5. wire' \in Seq(AnyMessage)
  BY <1>3 DEF Sent
<1>6. \A t \in Topics : replica[t] \in Int
  BY <1>2, MessagesAssumption DEF Replicas, Revisions, Nothing
<1>7. PICK X : X = IF m.topic = Notice THEN {m.revision} ELSE {}
  OBVIOUS
<1>8. X \subseteq Numbers(wire) /\ Below(X, Numbers(wire'))
  BY <1>3, <1>7 DEF Below
<1>9. CASE connection = "connecting"
  <2>1. early' = Append(early, m) /\ UNCHANGED <<replica, noticed>>
    BY <1>1, <1>9 DEF ReceiveMessage
  <2>2. m.topic = Notice => Below(Numbers(early), {m.revision})
    BY <1>3 DEF MessagesInv, Flow, InFlow, Below
  <2>3. early' \in Seq(Sent) /\ Rising(early') /\ Numbers(early') = Numbers(early) \cup X
    BY <1>2, <1>3, <1>7, <2>1, <2>2, AppendedNumbers
  <2>4. early' \in Seq(AnyMessage)
    BY <2>3 DEF Sent
  <2>5. Types'
    BY <1>3, <1>5, <1>9, <2>1, <2>3, <2>4
    DEF ReceiveMessage, MessagesInv, Types, TypeOK, backendVars, dispatchVars, hostVars
  <2>6. Flow'
    BY <1>3, <1>4, <1>8, <2>1, <2>3 DEF Flow, InFlow, Below, MessagesInv
  <2>7. QED
    BY <1>6, <2>1, <2>5, <2>6 DEF MessagesInv
<1>10. CASE connection # "connecting"
  <2>1. PICK one : one = <<m>>
    OBVIOUS
  <2>2. one = Append(<<>>, m) /\ <<>> \in Seq(Sent)
    BY <2>1
  <2>3. Below(Numbers(<<>>), {m.revision})
    BY EmptyNumbers DEF Below
  <2>4. one \in Seq(Sent) /\ Rising(one) /\ Numbers(one) = X
    BY <1>3, <1>7, <2>2, <2>3, EmptyNumbers, AppendedNumbers
  <2>5. /\ replica' = AcceptAll(replica, one)
        /\ noticed' = noticed \o NoticesOf(one) /\ UNCHANGED early
    BY <1>1, <1>10, <2>1 DEF ReceiveMessage
  <2>6. replica' \in Replicas /\ \A t \in Topics : replica'[t] >= replica[t]
    BY <1>2, <2>4, <2>5, AcceptAllKeeps
  <2>7. /\ NoticesOf(one) \in Seq(Nat) /\ Shown(NoticesOf(one)) \subseteq X
        /\ Ordered(NoticesOf(one))
    BY <2>4, NoticesOfAre
  <2>8. Below(Shown(noticed), Shown(NoticesOf(one)))
    BY <1>8, <2>7 DEF Below, MessagesInv, Flow, InFlow
  <2>9. /\ noticed' \in Seq(Nat) /\ Ordered(noticed')
        /\ Shown(noticed') = Shown(noticed) \cup Shown(NoticesOf(one))
    BY <1>2, <2>5, <2>7, <2>8, ToldNext
  <2>10. early = <<>> /\ Numbers(early) = {}
    BY <1>10, EmptyNumbers DEF MessagesInv, Types, TypeOK
  <2>11. Types'
    BY <1>3, <1>5, <2>5, <2>6, <2>9
    DEF ReceiveMessage, MessagesInv, Types, TypeOK, Replicas, backendVars, dispatchVars, hostVars
  <2>12. Flow'
    BY <1>3, <1>4, <1>8, <2>5, <2>7, <2>9, <2>10 DEF Flow, InFlow, Below, MessagesInv
  <2>13. QED
    BY <2>6, <2>11, <2>12 DEF MessagesInv
<1>11. QED
  BY <1>9, <1>10

LEMMA ReceiveReplies ==
  ASSUME MessagesInv, ReceiveReply
  PROVE  MessagesInv' /\ \A t \in Topics : replica'[t] >= replica[t]
<1>1. PICK all : all = reply \o early
  OBVIOUS
<1>2. /\ early \in Seq(Sent) /\ Rising(early) /\ noticed \in Seq(Nat) /\ Ordered(noticed)
      /\ replica \in Replicas /\ reply \in Seq(StateMessage)
  BY DEF MessagesInv, Types, TypeOK, Flow, InFlow, Replicas
<1>3. /\ reply' = NoReply /\ replica' = AcceptAll(replica, all)
      /\ noticed' = noticed \o NoticesOf(early) /\ early' = <<>> /\ connection' = "ready"
      /\ reply # NoReply
  BY <1>1 DEF ReceiveReply
<1>4. reply \in Seq(Sent)
  BY <1>2, StateMessagesAreSent
<1>5. all \in Seq(Sent)
  BY <1>1, <1>2, <1>4
<1>6. replica' \in Replicas /\ \A t \in Topics : replica'[t] >= replica[t]
  BY <1>2, <1>3, <1>5, AcceptAllKeeps
<1>7. /\ NoticesOf(early) \in Seq(Nat) /\ Shown(NoticesOf(early)) \subseteq Numbers(early)
      /\ Ordered(NoticesOf(early))
  BY <1>2, NoticesOfAre
<1>8. Below(Shown(noticed), Shown(NoticesOf(early)))
  BY <1>7 DEF Below, MessagesInv, Flow, InFlow
<1>9. /\ noticed' \in Seq(Nat) /\ Ordered(noticed')
      /\ Shown(noticed') = Shown(noticed) \cup Shown(NoticesOf(early))
  BY <1>2, <1>3, <1>7, <1>8, ToldNext
<1>10. /\ early' \in Seq(Sent) /\ early' \in Seq(AnyMessage)
       /\ reply' \in Seq(StateMessage) /\ reply' \in Seq(AnyMessage)
       /\ Numbers(early') = {} /\ Rising(early')
  BY <1>3, EmptyNumbers DEF NoReply
<1>11. initial = <<>>
  BY <1>3 DEF MessagesInv, Types, TypeOK
<1>12. Types'
  BY <1>3, <1>6, <1>9, <1>10, <1>11
  DEF ReceiveReply, MessagesInv, Types, TypeOK, Replicas, backendVars, dispatchVars, hostVars
<1>13. UNCHANGED <<wire, outbox, signals, notices>>
  BY DEF ReceiveReply, backendVars, dispatchVars
<1>14. Flow'
  BY <1>7, <1>9, <1>10, <1>13 DEF Flow, InFlow, Below, MessagesInv
<1>15. QED
  BY <1>6, <1>12, <1>14 DEF MessagesInv

LEMMA ReceiveAnswers ==
  ASSUME MessagesInv, NEW answer \in answers, ReceiveAnswer(answer)
  PROVE  MessagesInv' /\ \A t \in Topics : replica'[t] >= replica[t]
<1>1. /\ answer \in StateMessage /\ replica \in Replicas
      /\ answers' \subseteq answers /\ replica' = Accept(replica, answer)
  BY DEF ReceiveAnswer, MessagesInv, Types, TypeOK, Replicas
<1>2. replica' \in Replicas /\ \A t \in Topics : replica'[t] >= replica[t]
  BY <1>1, AcceptKeeps
<1>3. Types'
  BY <1>1, <1>2
  DEF ReceiveAnswer, MessagesInv, Types, TypeOK, Replicas, backendVars, dispatchVars, hostVars
<1>4. Flow'
  BY FlowStays DEF ReceiveAnswer, MessagesInv, backendVars, dispatchVars
<1>5. QED
  BY <1>2, <1>3, <1>4 DEF MessagesInv

LEMMA ReloadMessages ==
  ASSUME MessagesInv, Reload
  PROVE  MessagesInv'
<1>1. /\ <<>> \in Seq(Sent) /\ <<>> \in Seq(StateMessage) /\ <<>> \in Seq(AnyMessage)
      /\ <<>> \in Seq(Nat)
  OBVIOUS
<1>2. loads' \in 0..MaxLoads
  BY MessagesAssumption DEF Reload, MessagesInv, Types, TypeOK
<1>3. replica' \in [Topics -> Revisions \cup {Nothing}]
  BY DEF Reload
<1>4. Types'
  BY <1>1, <1>2, <1>3
  DEF Reload, MessagesInv, Types, TypeOK, NoReply, backendVars, dispatchVars
<1>5. /\ noticed' = <<>> /\ early' = <<>> /\ wire' = <<>>
      /\ UNCHANGED <<outbox, signals, notices>>
  BY DEF Reload, backendVars, dispatchVars
<1>6. Shown(<<>>) = {} /\ Ordered(<<>>)
  BY DEF Shown, Ordered
<1>7. Flow'
  BY <1>5, <1>6, EmptyNumbers DEF Flow, InFlow, Below, MessagesInv
<1>8. QED
  BY <1>4, <1>7 DEF MessagesInv

LEMMA NextMessages ==
  ASSUME MessagesInv, [MessagesNext]_messageVars
  PROVE  MessagesInv' /\ (loads' = loads => \A t \in Topics : replica'[t] >= replica[t])
<1>1. \A t \in Topics : replica[t] \in Int
  BY MessagesAssumption DEF MessagesInv, Types, TypeOK, Revisions, Nothing
<1>2. replica' = replica => \A t \in Topics : replica'[t] >= replica[t]
  BY <1>1
<1>3. CASE \E t \in Topics, answered \in BOOLEAN : Change(t, answered)
  BY <1>2, <1>3, ChangeMessages DEF Change, pageVars
<1>4. CASE \E t \in Topics : Announce(t)
  BY <1>2, <1>4, AnnounceMessages DEF Announce, pageVars
<1>5. CASE Occur
  BY <1>2, <1>5, OccurMessages DEF Occur, pageVars
<1>6. CASE Dispatcher
  <2>1. replica' = replica
    BY <1>6 DEF Dispatcher, TakeBatch, ReadTopic, SendMessage, pageVars
  <2>2. QED
    BY <1>2, <1>6, <2>1, TakeBatchMessages, ReadTopicMessages, SendMessages DEF Dispatcher
<1>7. CASE Host
  <2>1. replica' = replica
    BY <1>7 DEF Host, ReplaceChannel, ReadInitial, pageVars
  <2>2. QED
    BY <1>2, <1>7, <2>1, HostMessages
<1>8. CASE Page
  <2>1. CASE Connect
    BY <1>2, <2>1, ConnectMessages DEF Connect
  <2>2. CASE ReceiveMessage
    BY <2>2, ReceiveMessages
  <2>3. CASE ReceiveReply
    BY <2>3, ReceiveReplies
  <2>4. QED
    BY <1>8, <2>1, <2>2, <2>3 DEF Page
<1>9. CASE \E answer \in answers : ReceiveAnswer(answer)
  BY <1>9, ReceiveAnswers
<1>10. CASE Reload
  <2>1. loads \in Nat /\ loads' = loads + 1
    BY <1>10, MessagesAssumption DEF Reload, MessagesInv, Types, TypeOK
  <2>2. loads' # loads
    BY <2>1
  <2>3. QED
    BY <1>10, <2>2, ReloadMessages
<1>11. CASE UNCHANGED messageVars
  <2>1. Types'
    BY <1>11 DEF messageVars, MessagesInv, Types, TypeOK, backendVars, dispatchVars, hostVars, pageVars
  <2>2. Flow' /\ replica' = replica
    BY <1>11, FlowStays DEF messageVars, MessagesInv, backendVars, dispatchVars, pageVars
  <2>3. QED
    BY <1>2, <2>1, <2>2 DEF MessagesInv
<1>12. QED
  BY <1>3, <1>4, <1>5, <1>6, <1>7, <1>8, <1>9, <1>10, <1>11 DEF MessagesNext

(* The invariant holds in every state: every message a place holds is of a *)
(* topic or an occurrence, and the occurrences follow each other.          *)
THEOREM MessagesAlways == MessagesSpec => []MessagesInv
<1>1. MessagesInv /\ [MessagesNext]_messageVars => MessagesInv'
  BY NextMessages
<1>2. QED
  BY <1>1, InitMessages, PTL DEF MessagesSpec

(* The state is always of its types; among them, messages are kept back    *)
(* only while connect has not answered.                                    *)
THEOREM MessagesTyped == MessagesSpec => []TypeOK
<1>1. MessagesInv => TypeOK
  BY DEF MessagesInv, Types
<1>2. QED
  BY <1>1, MessagesAlways, PTL

(* Occurrences reach a page in the order they happened and at most once,   *)
(* for any number of them, however they are merged into batches, kept back *)
(* or lost with a page.                                                    *)
THEOREM NoticesComeInOrder == MessagesSpec => []NoticesInOrderOnce
<1>1. MessagesInv => NoticesInOrderOnce
  BY DEF MessagesInv, Flow, InFlow, Ordered, NoticesInOrderOnce
<1>2. QED
  BY <1>1, MessagesAlways, PTL

(* No topic of a page goes back, for any topics, changes and answers.      *)
THEOREM ReplicasAdvance == MessagesSpec => ReplicaNeverGoesBack
<1>1. MessagesInv /\ [MessagesNext]_messageVars =>
        [loads' = loads => \A t \in Topics : replica'[t] >= replica[t]]_messageVars
  BY NextMessages
<1>2. QED
  BY <1>1, MessagesAlways, PTL DEF MessagesSpec, ReplicaNeverGoesBack
=============================================================================
