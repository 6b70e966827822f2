-------------------------------- MODULE Meter --------------------------------
(***************************************************************************)
(* What the meters measure: audio/meter.rs, the commands of the host that  *)
(* start and end a subscription, and the page's MeterFeed.                 *)
(*                                                                         *)
(* The output callback copies what it plays into the ring of its stream    *)
(* through a tap, in chunks; an analysis thread reads the newest stream's  *)
(* ring while there is a subscription.  Commands run on a pool of threads, *)
(* in any order, and take turns on the session lock.  A sample is known by *)
(* its frame and channel; of a measurement, whether it is loud.            *)
(***************************************************************************)
EXTENDS Naturals, Sequences, FiniteSets

CONSTANTS Channels,      \* of each stream, in the order they are built
          Chunk,         \* samples copied at a time
          RingSamples, ReadSamples, FrameLen,
          MaxFrames, MaxRuns, MaxReloads,  \* bounds
          None

ASSUME MeterAssumption ==
  /\ Channels \in Seq(Nat \ {0}) /\ Channels # <<>>
  /\ Chunk \in Nat \ {0} /\ FrameLen \in Nat \ {0}
  /\ RingSamples \in Nat \ {0} /\ RingSamples % 2 = 0
  /\ ReadSamples \in Nat \ {0} /\ ReadSamples % 2 = 0
  /\ MaxFrames \in Nat /\ None \notin Nat

VARIABLES
  active,      \* the live subscription, 0 for none
  slot,        \* the stream whose ring waits for the analysis
  ring,        \* what each stream's ring holds
  tap,         \* of the stream that plays
  hub,         \* the command that holds the session lock
  session,     \* the subscription whose thread is to be joined, or None
  thread,      \* the analysis thread, if there is one
  clears,      \* history: subscriptions that have begun
  commands, answers,   \* on their way to the hub, and to the page
  page         \* the page's feed

vars == <<active, slot, ring, tap, hub, session, thread, clears, commands, answers,
          page>>
pages == <<commands, answers, page>>
audio == <<ring, tap>>

Least(a, b) == IF a < b THEN a ELSE b
Streams == DOMAIN Channels
Tap(s) == [stream |-> s, phase |-> 0, left |-> None, next |-> 0, skipped |-> 0,
           split |-> FALSE, copying |-> None]
NoThread == [pc |-> "none"]
Analysing == thread.pc # "none"

Init ==
  /\ active = 0 /\ slot = 1
  /\ ring = [s \in Streams |-> <<>>] /\ tap = Tap(1)
  /\ hub = [pc |-> "idle"] /\ session = None /\ thread = NoThread /\ clears = 0
  /\ commands = {} /\ answers = {}
  /\ page = [runs |-> 0, first |-> 1, wanted |-> 0, given |-> 0, reloads |-> 0]
-----------------------------------------------------------------------------
(* The stream that plays, and its tap.                                     *)

(* A new stream: its ring replaces the one before.                         *)
NewTap ==
  /\ tap.stream < Len(Channels)
  /\ tap' = Tap(tap.stream + 1) /\ slot' = tap.stream + 1
  /\ UNCHANGED <<active, ring, hub, session, thread, clears, pages>>

(* A chunk is copied if anyone listened a moment ago; if not, the samples  *)
(* pass by.                                                                *)
ReadActive ==
  /\ tap.copying = None /\ tap.next < MaxFrames * Channels[tap.stream]
  /\ tap' = [tap EXCEPT !.copying = active # 0]
  /\ UNCHANGED <<active, slot, ring, hub, session, thread, clears, pages>>

Sample(k) ==
  [frame |-> (tap.next + k) \div Channels[tap.stream],
   channel |-> (tap.next + k) % Channels[tap.stream]]

(* Mono is duplicated; of more channels, the first two are copied.         *)
Pair(k) ==
  LET count == Channels[tap.stream]
      left == IF k > 0 THEN Sample(k - 1) ELSE tap.left
  IN IF count = 1 THEN <<Sample(k), Sample(k)>>
     ELSE IF (tap.phase + k) % count = 1 THEN <<left, Sample(k)>> ELSE <<>>

Pairs(n) ==
  LET pairs[k \in 0..n] == IF k = 0 THEN <<>> ELSE pairs[k - 1] \o Pair(k - 1)
  IN pairs[n]

(* Samples keep how many subscriptions had begun, and whether all that     *)
(* passed by uncopied were whole frames, and none within a frame that was  *)
(* being copied.                                                           *)
Push ==
  LET s == tap.stream
      n == Least(Chunk, MaxFrames * Channels[s] - tap.next)
      pairs == Pairs(n)
      copied == SubSeq(pairs, 1, Least(Len(pairs), RingSamples - Len(ring[s])))
      Marked(sample) == [sample |-> sample, begun |-> clears,
                         whole |-> ~tap.split /\ tap.skipped % Channels[s] = 0]
  IN /\ tap.copying # None
     /\ IF tap.copying
        THEN /\ ring' = [ring EXCEPT ![s] = @ \o [i \in DOMAIN copied |-> Marked(copied[i])]]
             /\ tap' = [tap EXCEPT !.next = @ + n, !.copying = None, !.left = Sample(n - 1),
                                   !.phase = (@ + n) % Channels[s]]
        ELSE ring' = ring /\ tap' = [tap EXCEPT !.next = @ + n, !.skipped = @ + n,
                                                !.split = @ \/ tap.phase # 0, !.copying = None]
     /\ UNCHANGED <<active, slot, hub, session, thread, clears, pages>>
-----------------------------------------------------------------------------
(* The analysis thread.                                                    *)

Thread(id, run) ==
  [id |-> id, run |-> run, pc |-> "check", ring |-> None, filled |-> 0, pending |-> <<>>,
   combined |-> FALSE, sent |-> FALSE, shown |-> FALSE, open |-> TRUE, read |-> <<>>]

(* It goes on while its subscription is the live one and someone listens.  *)
Check ==
  /\ thread.pc = "check"
  /\ thread' = [thread EXCEPT !.read = <<>>,
                  !.pc = IF thread.open /\ active = thread.id THEN "take" ELSE "park"]
  /\ UNCHANGED <<active, slot, hub, session, clears, audio, pages>>

(* A stream built since brings its ring, and measuring starts over.        *)
TakeSource ==
  /\ thread.pc = "take"
  /\ thread' = IF slot = None
               THEN [thread EXCEPT !.pc = IF thread.ring = None THEN "check" ELSE "read"]
               ELSE [thread EXCEPT !.pc = "read", !.ring = slot, !.filled = 0]
  /\ slot' = None
  /\ UNCHANGED <<active, hub, session, clears, audio, pages>>

(* Two measurements make a frame; a silent one after a silent one is not   *)
(* sent.                                                                   *)
Batch(t, loud) ==
  IF t.pending = <<>> THEN [t EXCEPT !.pending = <<loud>>]
  ELSE LET frame == t.pending[1] \/ loud
           due == frame \/ t.combined
       IN [t EXCEPT !.pending = <<>>, !.combined = frame, !.sent = @ \/ due,
                    !.shown = IF due THEN frame ELSE @]

Batched(t, loud) ==
  LET batched[k \in 0..Len(loud)] ==
        IF k = 0 THEN t ELSE Batch(batched[k - 1], loud[k])
  IN batched[Len(loud)]

(* The page that listens is gone, which a frame that is sent may show.     *)
Gone(t) == t.run < page.first

(* What was read is measured, a window of frames at a time.                *)
Read ==
  /\ thread.pc = "read"
  /\ LET available == ring[thread.ring]
         read == SubSeq(available, 1, Least(Len(available), ReadSamples))
         filled == thread.filled + Len(read) \div 2
     IN /\ ring' = [ring EXCEPT ![thread.ring] = SubSeq(@, Len(read) + 1, Len(@))]
        /\ \E loud \in [1..(filled \div FrameLen) -> BOOLEAN] :
             LET sent == Batched(thread, loud)
             IN \E open \in {TRUE} \cup (IF sent.sent /\ Gone(thread) THEN {FALSE} ELSE {}) :
                  thread' = [thread EXCEPT
                               !.pc = "check", !.filled = filled % FrameLen, !.open = open,
                               !.pending = sent.pending, !.combined = sent.combined,
                               !.shown = sent.shown, !.read = read]
  /\ UNCHANGED <<active, slot, tap, hub, session, clears, pages>>

(* Mutant: the ring goes back over a newer stream's.                       *)
ParkAnyway == IF thread.ring = None THEN slot ELSE thread.ring

(* The ring is kept for the next subscription, unless there is a newer one.*)
Parked == IF thread.ring = None \/ slot # None THEN slot ELSE thread.ring

Park ==
  /\ thread.pc = "park"
  /\ slot' = Parked
  /\ thread' = [thread EXCEPT !.pc = "leave", !.ring = None]
  /\ UNCHANGED <<active, hub, session, clears, audio, pages>>

Leave ==
  /\ thread.pc = "leave"
  /\ active' = IF active = thread.id THEN 0 ELSE active
  /\ thread' = [thread EXCEPT !.pc = "ended"]
  /\ UNCHANGED <<slot, hub, session, clears, audio, pages>>
-----------------------------------------------------------------------------
(* The hub: one command at a time.                                         *)

Names(command) == command.kind # "Unsubscribe" \/ session = command.id

(* Mutant: the thread is waited for, and never told to end.                *)
DeactivatedNot == active

(* The subscription is over when its thread sees that it is not the live   *)
(* one any more.                                                           *)
Deactivated == IF active = session THEN 0 ELSE active

BeginCommand(command) ==
  /\ hub.pc = "idle"
  /\ commands' = commands \ {command}
  /\ IF session # None /\ Names(command)
     THEN active' = Deactivated /\ hub' = [pc |-> "joining", command |-> command]
     ELSE /\ active' = active
          /\ hub' = IF command.kind = "Subscribe" THEN [pc |-> "clearing", command |-> command]
                    ELSE [pc |-> "idle"]
  /\ UNCHANGED <<slot, session, thread, clears, audio, answers, page>>

Join ==
  /\ hub.pc = "joining" /\ thread.pc = "ended"
  /\ thread' = NoThread /\ session' = None
  /\ hub' = IF hub.command.kind = "Subscribe" THEN [hub EXCEPT !.pc = "clearing"]
            ELSE [pc |-> "idle"]
  /\ UNCHANGED <<active, slot, clears, audio, pages>>

(* Mutant: what was copied while nobody listened stays.                    *)
ClearedNot == ring

Cleared == IF slot = None THEN ring ELSE [ring EXCEPT ![slot] = <<>>]

Clear ==
  /\ hub.pc = "clearing"
  /\ ring' = Cleared /\ clears' = clears + 1
  /\ hub' = [hub EXCEPT !.pc = "launching"]
  /\ UNCHANGED <<active, slot, tap, session, thread, pages>>

Launch ==
  /\ hub.pc = "launching"
  /\ active' = clears /\ session' = clears /\ thread' = Thread(clears, hub.command.run)
  /\ answers' = answers \cup {[run |-> hub.command.run, id |-> clears]}
  /\ hub' = [pc |-> "idle"]
  /\ UNCHANGED <<slot, clears, audio, commands, page>>
-----------------------------------------------------------------------------
(* The page: a feed that is active or not.                                 *)

Activate ==
  /\ page.wanted = 0 /\ page.runs < MaxRuns
  /\ page' = [page EXCEPT !.runs = @ + 1, !.wanted = page.runs + 1, !.given = 0]
  /\ commands' = commands \cup {[kind |-> "Subscribe", run |-> page.runs + 1]}
  /\ UNCHANGED <<active, slot, hub, session, thread, clears, audio, answers>>

Ending(id) == {[kind |-> "Unsubscribe", id |-> id]}

Deactivate ==
  /\ page.wanted # 0
  /\ page' = [page EXCEPT !.wanted = 0, !.given = 0]
  /\ commands' = commands \cup (IF page.given # 0 THEN Ending(page.given) ELSE {})
  /\ UNCHANGED <<active, slot, hub, session, thread, clears, audio, answers>>

(* A feed that has ended meanwhile ends the subscription it gets.          *)
LateAnswer(answer) == Ending(answer.id)

Answer(answer) ==
  /\ answers' = answers \ {answer}
  /\ IF answer.run < page.first THEN UNCHANGED <<page, commands>>
     ELSE IF answer.run = page.wanted
          THEN page' = [page EXCEPT !.given = answer.id] /\ UNCHANGED commands
          ELSE page' = page /\ commands' = commands \cup LateAnswer(answer)
  /\ UNCHANGED <<active, slot, hub, session, thread, clears, audio>>

(* A page that is loaded again has lost its feed; the host ends what there *)
(* is.                                                                     *)
Reload ==
  /\ page.reloads < MaxReloads
  /\ page' = [page EXCEPT !.reloads = @ + 1, !.first = page.runs + 1, !.wanted = 0,
                          !.given = 0]
  /\ commands' = commands \cup {[kind |-> "All", page |-> page.reloads]}
  /\ UNCHANGED <<active, slot, hub, session, thread, clears, audio, answers>>

Callback == ReadActive \/ Push
Analysis == Check \/ TakeSource \/ Read \/ Park \/ Leave
Hub == (\E c \in commands : BeginCommand(c)) \/ Join \/ Clear \/ Launch
Replies == \E a \in answers : Answer(a)

Next ==
  \/ NewTap \/ Callback \/ Analysis \/ Hub \/ Replies
  \/ Activate \/ Deactivate \/ Reload

Spec == Init /\ [][Next]_vars

(* Threads run, and commands and their answers are delivered.              *)
FairSpec == Spec /\ WF_vars(Analysis) /\ WF_vars(Hub) /\ WF_vars(Replies)
-----------------------------------------------------------------------------
(* Properties.                                                             *)

(* The ring of the newest stream is never lost, however streams are built  *)
(* while subscriptions come and go: it waits, or the thread that reads it  *)
(* will put it back; and only one thread reads.                            *)
NewestRingIsKept ==
  /\ slot = tap.stream \/ (slot = None /\ Analysing /\ thread.ring = tap.stream)
  /\ Analysing => session = thread.id

(* What a subscription measures was played since it began; a pair of       *)
(* samples is the left and the right of one frame, if only whole frames    *)
(* passed by uncopied before, none of them within a frame that was being   *)
(* copied (a chunk may end within a frame, and then the tap confuses the   *)
(* channels or pairs two frames); and the page rests after a silent frame. *)
FramesAreTrue ==
  Analysing =>
    /\ thread.open => thread.shown = thread.combined
    /\ \A i \in DOMAIN thread.read : thread.read[i].begun >= thread.id
    /\ \A i \in 1..(Len(thread.read) \div 2) :
         LET left == thread.read[2 * i - 1]
             right == thread.read[2 * i]
         IN left.whole /\ right.whole =>
              /\ left.sample.frame = right.sample.frame
              /\ left.sample.channel = 0
              /\ right.sample.channel \in {0, 1}

(* Every command is done: the thread it waits for ends.                    *)
CommandsAreServed ==
  \A n \in 1..MaxRuns :
    [kind |-> "Subscribe", run |-> n] \in commands ~>
      (hub.pc = "idle" /\ [kind |-> "Subscribe", run |-> n] \notin commands)

=============================================================================
