------------------------- MODULE LibrarySyncProofs -------------------------
(***************************************************************************)
(* Proofs about LibrarySync.tla for any folders and however many commands, *)
(* changes and losses: artwork is never collected beside a scan, and no    *)
(* change of a file is forgotten.                                          *)
(***************************************************************************)
EXTENDS LibrarySync, SequenceTheorems, FiniteSetTheorems, TLAPS

(* A sequence, of whatever, and what no effect in it is.                   *)
IsSeq(q) == \E S : q \in Seq(S)
Lacks(q, kind) == \A n \in DOMAIN q : q[n].kind # kind

-----------------------------------------------------------------------------
(* Sequences of effects, and the kinds they lack.                          *)

(* No effects.                                                             *)
LEMMA Nothing == IsSeq(<<>>) /\ \A k : Lacks(<<>>, k)
BY DEF IsSeq, Lacks

(* One more effect.                                                        *)
LEMMA Appended ==
  ASSUME NEW q, IsSeq(q), NEW e
  PROVE  /\ IsSeq(Append(q, e))
         /\ \A k : Lacks(q, k) /\ e.kind # k => Lacks(Append(q, e), k)
<1>1. PICK S : q \in Seq(S)
  BY DEF IsSeq
<1>2. q \in Seq(S \cup {e}) /\ e \in S \cup {e}
  BY <1>1, SeqMonotonic
<1>3. Append(q, e) \in Seq(S \cup {e})
  BY <1>2
<1>4. DOMAIN Append(q, e) = 1..(Len(q) + 1) /\ DOMAIN q = 1..Len(q) /\ Len(q) \in Nat
      /\ \A n \in DOMAIN Append(q, e) : Append(q, e)[n] = IF n <= Len(q) THEN q[n] ELSE e
  BY <1>2
<1>5. QED
  BY <1>3, <1>4 DEF IsSeq, Lacks

(* The effects of two sequences.                                           *)
LEMMA Joined ==
  ASSUME NEW q, IsSeq(q), NEW r, IsSeq(r)
  PROVE  /\ IsSeq(q \o r)
         /\ \A k : Lacks(q, k) /\ Lacks(r, k) => Lacks(q \o r, k)
<1>1. PICK S : q \in Seq(S)
  BY DEF IsSeq
<1>2. PICK T : r \in Seq(T)
  BY DEF IsSeq
<1>3. q \in Seq(S \cup T) /\ r \in Seq(S \cup T)
  BY <1>1, <1>2, SeqMonotonic
<1>4. /\ q \o r \in Seq(S \cup T) /\ DOMAIN (q \o r) = 1..(Len(q) + Len(r))
      /\ DOMAIN q = 1..Len(q) /\ DOMAIN r = 1..Len(r) /\ Len(q) \in Nat /\ Len(r) \in Nat
      /\ \A n \in DOMAIN (q \o r) : (q \o r)[n] = IF n <= Len(q) THEN q[n] ELSE r[n - Len(q)]
  BY <1>3
<1>5. QED
  BY <1>4 DEF IsSeq, Lacks

(* The first effect is carried out.                                        *)
LEMMA Shortened ==
  ASSUME NEW q, IsSeq(q), q # <<>>
  PROVE  /\ IsSeq(Tail(q))
         /\ \A k : Lacks(q, k) => Lacks(Tail(q), k) /\ Head(q).kind # k
<1>1. PICK S : q \in Seq(S)
  BY DEF IsSeq
<1>2. /\ Tail(q) \in Seq(S) /\ DOMAIN Tail(q) = 1..(Len(q) - 1) /\ DOMAIN q = 1..Len(q)
      /\ Len(q) \in Nat \ {0} /\ Head(q) = q[1]
      /\ \A n \in DOMAIN Tail(q) : Tail(q)[n] = q[n + 1]
  BY <1>1
<1>3. QED
  BY <1>2 DEF IsSeq, Lacks

(* A function on 1..n is a sequence.                                       *)
LEMMA FunctionIsSeq ==
  ASSUME NEW S, NEW n \in Nat, NEW f \in [1..n -> S]
  PROVE  f \in Seq(S)
OBVIOUS

(* Attaching some folders: each effect of it is an attach.                 *)
LEMMA AttachesOnly ==
  ASSUME NEW roots \in SUBSET Roots
  PROVE  /\ IsSeq(Attaches(roots))
         /\ \A k : k # "attach" => Lacks(Attaches(roots), k)
<1> DEFINE order == SetToSeq(roots)
<1>1. Cardinality(roots) \in Nat /\ ExistsBijection(1..Cardinality(roots), roots)
  BY LibraryAssumption, FS_Subset, FS_CardinalityType
<1>2. \E f \in [1..Cardinality(roots) -> roots] : IsInjective(f)
  BY <1>1 DEF ExistsBijection, Bijection, Injection
<1>3. order \in [1..Cardinality(roots) -> roots]
  BY <1>2 DEF SetToSeq
<1>4. Attaches(roots) \in [1..Cardinality(roots) -> [kind : {"attach"}, root : roots]]
  BY <1>3 DEF Attaches
<1>5. Attaches(roots) \in Seq([kind : {"attach"}, root : roots])
  BY <1>1, <1>4, FunctionIsSeq
<1>6. \A n \in DOMAIN Attaches(roots) : Attaches(roots)[n].kind = "attach"
  BY <1>4
<1>7. QED
  BY <1>5, <1>6 DEF IsSeq, Lacks

-----------------------------------------------------------------------------
(* What one step of the actor asks for.                                    *)

State(s) ==
  /\ DOMAIN s = {"dirty", "debounce", "gc", "scanning", "watch", "out"}
  /\ s.scanning \in BOOLEAN
  /\ IsSeq(s.out)

(* A scan that is asked for counts as running from then on, and nothing is *)
(* collected while one is.                                                 *)
Apart(s) ==
  /\ s.scanning \/ Lacks(s.out, "startScan")
  /\ ~s.scanning \/ Lacks(s.out, "runGc")

(* A decision that starts and ends no scan, and asks for no collection.    *)
Quiet(s, h) ==
  /\ State(h) /\ h.scanning = s.scanning
  /\ Lacks(s.out, "runGc") => Lacks(h.out, "runGc")
  /\ Lacks(s.out, "startScan") => Lacks(h.out, "startScan")

(* Work is added; watchers are attached and released; a scan is cancelled. *)
LEMMA DirtiedIsQuiet ==
  ASSUME NEW s, State(s), NEW work, NEW when
  PROVE  Quiet(s, Dirtied(s, work, when))
BY DEF State, Quiet, Dirtied

LEMMA WatchIsQuiet ==
  ASSUME NEW s, State(s), NEW r
  PROVE  Quiet(s, Watch(s, r))
BY Appended DEF State, Quiet, Watch, Push

LEMMA ReleaseIsQuiet ==
  ASSUME NEW s, State(s), NEW r
  PROVE  Quiet(s, Release(s, r))
BY Appended DEF State, Quiet, Release, Push

LEMMA AttachedIsQuiet ==
  ASSUME NEW s, State(s), NEW r
  PROVE  Quiet(s, Attached(s, r))
BY Appended DEF State, Quiet, Attached, Push, Dirtied

LEMMA CancelIsQuiet ==
  ASSUME NEW s, State(s)
  PROVE  Quiet(s, CancelRequested(s))
BY Appended DEF State, Quiet, CancelRequested, Push

(* One input, when nothing is left to be carried out.                      *)
LEMMA HandledKeepsApart ==
  ASSUME NEW s, State(s), s.out = <<>>, NEW i
  PROVE  LET h == Handled(s, i)
         IN /\ State(h) /\ Lacks(h.out, "runGc")
            /\ h.scanning \/ Lacks(h.out, "startScan")
            /\ s.scanning => h.scanning \/ i.kind = "scanFinished"
<1> DEFINE h == Handled(s, i)
<1>0. Lacks(s.out, "runGc") /\ Lacks(s.out, "startScan")
  BY Nothing
<1>1. CASE i.kind = "scanRequested"
  <2>1. h = ScanRequested(s, i.roots)
    BY <1>1, Zenon DEF Handled
  <2>2. CASE s.scanning
    BY <1>0, <2>1, <2>2 DEF State, ScanRequested
  <2>3. CASE ~s.scanning
    <3>1. /\ DOMAIN h = DOMAIN s /\ h.scanning = TRUE
          /\ h.out = Append(s.out, [kind |-> "startScan", targets |-> Whole(i.roots)])
      BY <2>1, <2>3 DEF State, ScanRequested, Push
    <3>2. IsSeq(h.out) /\ Lacks(h.out, "runGc")
      <4>1. PICK e : e = [kind |-> "startScan", targets |-> Whole(i.roots)]
        OBVIOUS
      <4>2. e.kind # "runGc" /\ h.out = Append(s.out, e)
        BY <3>1, <4>1
      <4>3. IsSeq(s.out)
        BY DEF State
      <4>4. IsSeq(Append(s.out, e)) /\ Lacks(Append(s.out, e), "runGc")
        BY <1>0, <4>2, <4>3, Appended
      <4>5. QED
        BY <4>2, <4>4
    <3>3. QED
      BY <3>1, <3>2 DEF State
  <2>4. QED
    BY <2>2, <2>3
<1>2. CASE i.kind = "scanFinished"
  <2>1. h = ScanFinished(s, i.outcome)
    BY <1>2, Zenon DEF Handled
  <2>2. /\ DOMAIN h = DOMAIN s /\ h.scanning = FALSE /\ h.out = s.out
    BY <2>1 DEF State, ScanFinished
  <2>3. QED
    BY <1>0, <1>2, <2>2 DEF State
<1>3. CASE ~(i.kind \in {"scanRequested", "scanFinished"})
  <2>1. Quiet(s, h)
    <3>1. CASE i.kind = "enabled"
      <4>1. h = Watch(Dirtied(s, Whole({i.root}), "due"), i.root)
        BY <3>1, Zenon DEF Handled
      <4>2. QED
        BY <4>1, DirtiedIsQuiet, WatchIsQuiet DEF Quiet
    <3>2. CASE i.kind = "disabled"
      BY <3>2, Zenon, ReleaseIsQuiet DEF Handled
    <3>3. CASE i.kind = "removed"
      <4>1. h = [Release(s, i.root) EXCEPT !.gc = TRUE]
        BY <3>3, Zenon DEF Handled
      <4>2. QED
        BY <4>1, ReleaseIsQuiet DEF Quiet, State
    <3>4. CASE i.kind = "missingDeleted"
      <4>1. h = [s EXCEPT !.gc = TRUE]
        BY <3>4, Zenon DEF Handled
      <4>2. QED
        BY <4>1 DEF Quiet, State
    <3>5. CASE i.kind = "cancelRequested"
      BY <3>5, Zenon, CancelIsQuiet DEF Handled
    <3>6. CASE i.kind = "changed"
      <4>1. h = s \/ h = Dirtied(s, [NoWork EXCEPT ![i.root] = i.dirs], "later")
        BY <3>6, Zenon DEF Handled
      <4>2. QED
        BY <4>1, DirtiedIsQuiet DEF Quiet
    <3>7. CASE i.kind = "attached"
      BY <3>7, Zenon, AttachedIsQuiet DEF Handled
    <3>8. CASE i.kind = "attachFailed"
      <4>1. h = s \/ h = [s EXCEPT !.watch[i.root] = "retryLater"]
        BY <3>8, Zenon DEF Handled
      <4>2. QED
        BY <4>1 DEF Quiet, State
    <3>9. CASE i.kind = "gcFinished"
      <4>1. h = s \/ h = Dirtied(s, Whole(i.rescan), "due")
        BY <3>9, Zenon DEF Handled
      <4>2. QED
        BY <4>1, DirtiedIsQuiet DEF Quiet
    <3>10. CASE ~(i.kind \in {"enabled", "disabled", "removed", "missingDeleted",
                              "cancelRequested", "changed", "attached", "attachFailed",
                              "gcFinished"})
      <4>1. h = s
        BY <1>3, <3>10, Zenon DEF Handled
      <4>2. QED
        BY <4>1 DEF Quiet
    <3>11. QED
      BY <3>1, <3>2, <3>3, <3>4, <3>5, <3>6, <3>7, <3>8, <3>9, <3>10
  <2>2. QED
    BY <1>0, <2>1 DEF Quiet, State
<1>4. QED
  BY <1>1, <1>2, <1>3

(* What is due after it: a scan or a collection, never both.               *)
LEMMA AdvanceKeepsApart ==
  ASSUME NEW s, State(s), Lacks(s.out, "runGc"), s.scanning \/ Lacks(s.out, "startScan")
  PROVE  State(Advance(s)) /\ Apart(Advance(s)) /\ (s.scanning => Advance(s).scanning)
<1> DEFINE now == Retried(s)
<1>1. State(now) /\ now.scanning = s.scanning /\ now.gc = s.gc
      /\ Lacks(now.out, "runGc") /\ (s.scanning \/ Lacks(now.out, "startScan"))
  <2>1. PICK due \in SUBSET Roots : due = {r \in Roots : s.watch[r] = "retryDue"}
    OBVIOUS
  <2>2. /\ IsSeq(s.out \o Attaches(due)) /\ Lacks(s.out \o Attaches(due), "runGc")
        /\ s.scanning \/ Lacks(s.out \o Attaches(due), "startScan")
    BY Joined, AttachesOnly DEF State
  <2>3. /\ DOMAIN now = {"dirty", "debounce", "gc", "scanning", "watch", "out"}
        /\ now.scanning = s.scanning /\ now.gc = s.gc /\ now.out = s.out \o Attaches(due)
    BY <2>1 DEF Retried, State
  <2>4. QED
    BY <2>2, <2>3 DEF State
<1> HIDE DEF now
<1>2. Advance(s) = IF s.scanning THEN now ELSE Advance(s)
  BY DEF Advance, now
<1>3. CASE s.scanning
  BY <1>1, <1>2, <1>3 DEF Apart, State
<1>4. CASE ~s.scanning
  <2>1. \/ Advance(s) = Push([now EXCEPT !.debounce = "none", !.dirty = NoWork, !.scanning = TRUE],
                             [kind |-> "startScan", targets |-> s.dirty])
        \/ Advance(s) = Push([now EXCEPT !.debounce = "none", !.gc = FALSE], [kind |-> "runGc"])
        \/ \E waits : Advance(s) = [now EXCEPT !.debounce = waits]
    BY <1>4, Zenon DEF Advance, now
  <2>2. ASSUME Advance(s) = Push([now EXCEPT !.debounce = "none", !.dirty = NoWork,
                                            !.scanning = TRUE],
                               [kind |-> "startScan", targets |-> s.dirty])
        PROVE  State(Advance(s)) /\ Apart(Advance(s))
    BY <1>1, <2>2, Appended DEF Push, State, Apart
  <2>3. ASSUME Advance(s) = Push([now EXCEPT !.debounce = "none", !.gc = FALSE],
                               [kind |-> "runGc"])
        PROVE  State(Advance(s)) /\ Apart(Advance(s))
    BY <1>1, <1>4, <2>3, Appended DEF Push, State, Apart
  <2>4. ASSUME NEW waits, Advance(s) = [now EXCEPT !.debounce = waits]
        PROVE  State(Advance(s)) /\ Apart(Advance(s))
    BY <1>1, <1>4, <2>4 DEF State, Apart
  <2>5. QED
    BY <1>4, <2>1, <2>2, <2>3, <2>4
<1>5. QED
  BY <1>3, <1>4

-----------------------------------------------------------------------------
(* The actor and what is around it.                                        *)

IInv ==
  /\ State(sync) /\ Apart(sync)
  /\ scanner.at # "none" => sync.scanning

(* The initial states satisfy the inductive invariant.                     *)
LEMMA InitIInv == Init => IInv
<1> SUFFICES ASSUME Init PROVE IInv
  OBVIOUS
<1>1. Enabled \in SUBSET Roots
  BY DEF Enabled
<1>2. IsSeq(Attaches(Enabled)) /\ Lacks(Attaches(Enabled), "startScan")
      /\ Lacks(Attaches(Enabled), "runGc")
  BY <1>1, AttachesOnly
<1>3. /\ DOMAIN sync = {"dirty", "debounce", "gc", "scanning", "watch", "out"}
      /\ sync.scanning = FALSE /\ sync.out = Attaches(Enabled) /\ scanner.at = "none"
  BY DEF Init, NoScanner
<1>4. QED
  BY <1>2, <1>3 DEF IInv, State, Apart

(* An input is stepped.                                                    *)
LEMMA FeedStep ==
  ASSUME IInv, sync.out = <<>>, NEW i, Feed(i)
  PROVE  IInv'
<1> DEFINE h == Handled(sync, i)
<1>1. /\ State(h) /\ Lacks(h.out, "runGc") /\ (h.scanning \/ Lacks(h.out, "startScan"))
      /\ sync.scanning => h.scanning \/ i.kind = "scanFinished"
  BY HandledKeepsApart DEF IInv
<1>2. sync' = Advance(h)
  BY DEF Feed
<1> HIDE DEF h
<1>3. State(sync') /\ Apart(sync') /\ (h.scanning => sync'.scanning)
  BY <1>1, <1>2, AdvanceKeepsApart
<1>4. scanner'.at # "none" => scanner.at # "none" /\ i.kind # "scanFinished"
  BY DEF Feed, NoScanner
<1>5. QED
  BY <1>1, <1>3, <1>4 DEF IInv

(* An effect is carried out; only the start of a scan makes a scanner.     *)
LEMMA ExecuteStep ==
  ASSUME IInv, Execute
  PROVE  IInv'
<1>1. /\ IsSeq(Tail(sync.out))
      /\ \A k : Lacks(sync.out, k) => Lacks(Tail(sync.out), k) /\ Head(sync.out).kind # k
  BY Shortened DEF Execute, IInv, State
<1>2. /\ DOMAIN sync' = DOMAIN sync /\ sync'.scanning = sync.scanning
      /\ sync'.out = Tail(sync.out)
  BY DEF Execute, IInv, State
<1>3. State(sync') /\ Apart(sync')
  BY <1>1, <1>2 DEF IInv, State, Apart
<1>4. scanner' = scanner \/ Head(sync.out).kind = "startScan"
  BY DEF Execute, Attach, Detach, RunGc, CancelScan
<1>5. QED
  BY <1>1, <1>2, <1>3, <1>4 DEF IInv, Apart, State

(* Every step preserves the inductive invariant.                           *)
LEMMA NextIInv == IInv /\ [Next]_vars => IInv'
<1> SUFFICES ASSUME IInv, [Next]_vars PROVE IInv'
  OBVIOUS
<1>1. CASE Actor
  <2>1. CASE FeedNext \/ Receive \/ Tick
    BY <2>1, FeedStep DEF FeedNext, Receive, Tick, Waiting
  <2>2. QED
    BY <1>1, <2>1, ExecuteStep DEF Actor
<1>2. CASE Listener
  <2>1. ASSUME NEW i, Command(i)
        PROVE  IInv'
    BY <2>1, FeedStep DEF Command, Waiting
  <2>2. QED
    BY <1>2, <2>1 DEF Listener, RegisterRoot, SetRootEnabled, RemoveRoot, DeleteMissing,
                      StartCommand, CancelCommand
<1>3. CASE Scanner
  BY <1>3 DEF Scanner, WalkFails, Visit, Finish, stepVars, IInv
<1>4. CASE World
  <2>1. CASE ChangesSettle \/ \E r \in Roots : RetryComesDue(r)
    <3>1. DOMAIN sync' = DOMAIN sync /\ sync'.scanning = sync.scanning /\ sync'.out = sync.out
          /\ scanner' = scanner
      BY <2>1 DEF ChangesSettle, RetryComesDue, threadVars, IInv, State
    <3>2. QED
      BY <3>1 DEF IInv, State, Apart
  <2>2. CASE \E r \in Roots : LoseArtwork(r) \/ \E d \in Dirs[r] : FilesChange(r, d)
    BY <2>2 DEF LoseArtwork, FilesChange, stepVars, threadVars, IInv
  <2>3. QED
    BY <1>4, <2>1, <2>2 DEF World
<1>5. CASE UNCHANGED vars
  BY <1>5 DEF vars, stepVars, threadVars, IInv
<1>6. QED
  BY <1>1, <1>2, <1>3, <1>4, <1>5 DEF Next

(* The garbage collection, which deletes artwork files no track refers to, *)
(* never runs beside a scanner, which writes them before the tracks do.    *)
THEOREM CollectsAlone == Spec => []GcNeverMeetsAScan
<1>1. IInv => GcNeverMeetsAScan
  BY Shortened DEF IInv, State, Apart, GcNeverMeetsAScan
<1>2. QED
  BY <1>1, InitIInv, NextIInv, PTL DEF Spec

-----------------------------------------------------------------------------
(* Changes are not forgotten.  What the actor holds for a place: work that *)
(* waits for a deadline or the end of a scan, or a scan it has asked for.  *)

Pending(s, r, d) == d \in s.dirty[r] /\ (s.scanning \/ s.debounce # "none")

Asked(s, r, d) ==
  \E n \in DOMAIN s.out : s.out[n].kind = "startScan" /\ d \in s.out[n].targets[r]

Held(s, r, d) == Pending(s, r, d) \/ Asked(s, r, d)

(* An input or an effect about a folder.                                   *)
Has(q, kind, r) == \E n \in DOMAIN q : q[n].kind = kind /\ q[n].root = r

Single(q, kind) == \A m, n \in DOMAIN q : q[m].kind = kind /\ q[n].kind = kind => m = n

(* A watcher is to be attached before whatever is in its folder is scanned.*)
AttachedFirst(s, r) ==
  \E n \in DOMAIN s.out :
    /\ s.out[n].kind = "attach" /\ s.out[n].root = r
    /\ \A d \in Dirs[r] :
         \/ Pending(s, r, d)
         \/ \E m \in DOMAIN s.out :
              n <= m /\ s.out[m].kind = "startScan" /\ d \in s.out[m].targets[r]

Folders(s) == DOMAIN s.watch = Roots /\ DOMAIN s.dirty = Roots

-----------------------------------------------------------------------------
(* Positions in the sequences of effects and inputs.                       *)

LEMMA AppendedAt ==
  ASSUME NEW q, IsSeq(q), NEW e
  PROVE  /\ IsSeq(Append(q, e)) /\ Len(q) \in Nat /\ DOMAIN q = 1..Len(q)
         /\ DOMAIN Append(q, e) = 1..(Len(q) + 1)
         /\ \A n \in DOMAIN q : Append(q, e)[n] = q[n]
         /\ Append(q, e)[Len(q) + 1] = e
<1>1. PICK S : q \in Seq(S)
  BY DEF IsSeq
<1>2. q \in Seq(S \cup {e}) /\ e \in S \cup {e}
  BY <1>1, SeqMonotonic
<1>3. /\ DOMAIN Append(q, e) = 1..(Len(q) + 1) /\ DOMAIN q = 1..Len(q) /\ Len(q) \in Nat
      /\ \A n \in DOMAIN Append(q, e) : Append(q, e)[n] = IF n <= Len(q) THEN q[n] ELSE e
  BY <1>2
<1>4. IsSeq(Append(q, e))
  BY Appended
<1>5. QED
  BY <1>3, <1>4

LEMMA AppendedHas ==
  ASSUME NEW q, IsSeq(q), NEW e, NEW k
  PROVE  /\ \A r : Has(Append(q, e), k, r) <=> Has(q, k, r) \/ (e.kind = k /\ e.root = r)
         /\ Lacks(Append(q, e), k) <=> Lacks(q, k) /\ e.kind # k
         /\ Single(q, k) /\ (Lacks(q, k) \/ e.kind # k) => Single(Append(q, e), k)
<1>1. PICK a : a = Append(q, e)
  OBVIOUS
<1>2. PICK l : l = Len(q)
  OBVIOUS
<1>3. /\ l \in Nat /\ DOMAIN q = 1..l /\ DOMAIN a = 1..(l + 1)
      /\ \A n \in 1..l : a[n] = q[n]
      /\ a[l + 1] = e
  BY <1>1, <1>2, AppendedAt
<1>4. \A n : n \in DOMAIN a <=> n \in DOMAIN q \/ n = l + 1
  BY <1>3
<1>5. \A n \in DOMAIN q : n # l + 1 /\ a[n] = q[n]
  BY <1>3
<1>6. l + 1 \in DOMAIN a
  BY <1>3
<1>7. ASSUME NEW r
      PROVE  Has(a, k, r) <=> Has(q, k, r) \/ (e.kind = k /\ e.root = r)
  <2>1. ASSUME Has(a, k, r)
        PROVE  Has(q, k, r) \/ (e.kind = k /\ e.root = r)
    BY <1>3, <1>4, <1>5, <2>1 DEF Has
  <2>2. ASSUME Has(q, k, r) \/ (e.kind = k /\ e.root = r)
        PROVE  Has(a, k, r)
    BY <1>3, <1>4, <1>5, <1>6, <2>2 DEF Has
  <2>3. QED
    BY <2>1, <2>2
<1>8. Lacks(a, k) <=> Lacks(q, k) /\ e.kind # k
  BY <1>3, <1>4, <1>5, <1>6 DEF Lacks
<1>9. Single(q, k) /\ (Lacks(q, k) \/ e.kind # k) => Single(a, k)
  BY <1>3, <1>4, <1>5 DEF Lacks, Single
<1>10. QED
  BY <1>1, <1>7, <1>8, <1>9

LEMMA ShortenedAt ==
  ASSUME NEW q, IsSeq(q), q # <<>>
  PROVE  /\ IsSeq(Tail(q)) /\ Len(q) \in Nat \ {0} /\ DOMAIN q = 1..Len(q)
         /\ DOMAIN Tail(q) = 1..(Len(q) - 1) /\ Head(q) = q[1]
         /\ \A n \in DOMAIN Tail(q) : Tail(q)[n] = q[n + 1]
<1>1. PICK S : q \in Seq(S)
  BY DEF IsSeq
<1>2. /\ Tail(q) \in Seq(S) /\ DOMAIN Tail(q) = 1..(Len(q) - 1) /\ DOMAIN q = 1..Len(q)
      /\ Len(q) \in Nat \ {0} /\ Head(q) = q[1]
      /\ \A n \in DOMAIN Tail(q) : Tail(q)[n] = q[n + 1]
  BY <1>1
<1>3. QED
  BY <1>2 DEF IsSeq

LEMMA ShortenedHas ==
  ASSUME NEW q, IsSeq(q), q # <<>>, NEW k
  PROVE  /\ \A r : Has(q, k, r) <=> Has(Tail(q), k, r) \/ (Head(q).kind = k /\ Head(q).root = r)
         /\ Lacks(q, k) <=> Lacks(Tail(q), k) /\ Head(q).kind # k
         /\ Single(q, k) => Single(Tail(q), k) /\ (Head(q).kind = k => Lacks(Tail(q), k))
<1>1. PICK t : t = Tail(q)
  OBVIOUS
<1>2. PICK l : l = Len(q)
  OBVIOUS
<1>3. /\ l \in Nat \ {0} /\ DOMAIN q = 1..l /\ DOMAIN t = 1..(l - 1) /\ Head(q) = q[1]
      /\ \A n \in 1..(l - 1) : t[n] = q[n + 1]
  BY <1>1, <1>2, ShortenedAt
<1>4. \A n \in DOMAIN t : n + 1 \in DOMAIN q /\ n + 1 # 1 /\ t[n] = q[n + 1]
  BY <1>3
<1>5. \A n \in DOMAIN q : n # 1 => \E m \in DOMAIN t : n = m + 1
  <2>1. ASSUME NEW n \in DOMAIN q, n # 1
        PROVE  n - 1 \in DOMAIN t /\ n = n - 1 + 1
    BY <1>3, <2>1
  <2>2. QED
    BY <2>1
<1>6. 1 \in DOMAIN q
  BY <1>3
<1>7. \A m, n \in DOMAIN t : m + 1 = n + 1 => m = n
  BY <1>3
<1>8. ASSUME NEW r
      PROVE  Has(q, k, r) <=> Has(t, k, r) \/ (q[1].kind = k /\ q[1].root = r)
  <2>1. ASSUME Has(q, k, r)
        PROVE  Has(t, k, r) \/ (q[1].kind = k /\ q[1].root = r)
    <3>1. PICK n \in DOMAIN q : q[n].kind = k /\ q[n].root = r
      BY <2>1 DEF Has
    <3>2. CASE n = 1
      BY <3>1, <3>2
    <3>3. CASE n # 1
      BY <1>4, <1>5, <3>1, <3>3 DEF Has
    <3>4. QED
      BY <3>2, <3>3
  <2>2. ASSUME Has(t, k, r) \/ (q[1].kind = k /\ q[1].root = r)
        PROVE  Has(q, k, r)
    BY <1>4, <1>6, <2>2 DEF Has
  <2>3. QED
    BY <2>1, <2>2
<1>9. Lacks(q, k) <=> Lacks(t, k) /\ q[1].kind # k
  BY <1>4, <1>5, <1>6 DEF Lacks
<1>10. Single(q, k) => Single(t, k) /\ (q[1].kind = k => Lacks(t, k))
  BY <1>4, <1>6, <1>7 DEF Single, Lacks
<1>11. QED
  BY <1>1, <1>3, <1>8, <1>9, <1>10

LEMMA JoinedAt ==
  ASSUME NEW q, IsSeq(q), NEW p, IsSeq(p)
  PROVE  /\ IsSeq(q \o p) /\ Len(q) \in Nat /\ Len(p) \in Nat /\ DOMAIN q = 1..Len(q)
         /\ DOMAIN p = 1..Len(p) /\ DOMAIN (q \o p) = 1..(Len(q) + Len(p))
         /\ \A n \in 1..Len(q) : (q \o p)[n] = q[n]
         /\ \A n \in 1..Len(p) : (q \o p)[Len(q) + n] = p[n]
<1>1. PICK S : q \in Seq(S)
  BY DEF IsSeq
<1>2. PICK T : p \in Seq(T)
  BY DEF IsSeq
<1>3. q \in Seq(S \cup T) /\ p \in Seq(S \cup T)
  BY <1>1, <1>2, SeqMonotonic
<1>4. /\ q \o p \in Seq(S \cup T) /\ DOMAIN (q \o p) = 1..(Len(q) + Len(p))
      /\ DOMAIN q = 1..Len(q) /\ DOMAIN p = 1..Len(p) /\ Len(q) \in Nat /\ Len(p) \in Nat
      /\ \A n \in DOMAIN (q \o p) : (q \o p)[n] = IF n <= Len(q) THEN q[n] ELSE p[n - Len(q)]
  BY <1>3
<1>5. \A n \in 1..Len(p) : /\ Len(q) + n \in 1..(Len(q) + Len(p)) /\ ~(Len(q) + n <= Len(q))
                           /\ Len(q) + n - Len(q) = n
  BY <1>4
<1>6. \A n \in 1..Len(q) : n \in 1..(Len(q) + Len(p)) /\ n <= Len(q)
  BY <1>4
<1>7. \A n \in 1..Len(p) : (q \o p)[Len(q) + n] = p[n]
  <2>1. ASSUME NEW n \in 1..Len(p)
        PROVE  (q \o p)[Len(q) + n] = p[n]
    <3>1. PICK k : k = Len(q) + n
      OBVIOUS
    <3>2. k \in DOMAIN (q \o p) /\ ~(k <= Len(q)) /\ k - Len(q) = n
      BY <1>4, <1>5, <3>1
    <3>3. (q \o p)[k] = p[k - Len(q)]
      BY <1>4, <3>2
    <3>4. QED
      BY <3>1, <3>2, <3>3
  <2>2. QED
    BY <2>1
<1>8. \A n \in 1..Len(q) : (q \o p)[n] = q[n]
  BY <1>4, <1>6
<1>9. QED
  BY <1>4, <1>7, <1>8 DEF IsSeq

LEMMA AttachesAt ==
  ASSUME NEW roots \in SUBSET Roots
  PROVE  /\ IsSeq(Attaches(roots))
         /\ \A n \in DOMAIN Attaches(roots) :
              Attaches(roots)[n].kind = "attach" /\ Attaches(roots)[n].root \in roots
<1> DEFINE order == SetToSeq(roots)
<1>1. Cardinality(roots) \in Nat /\ ExistsBijection(1..Cardinality(roots), roots)
  BY LibraryAssumption, FS_Subset, FS_CardinalityType
<1>2. \E f \in [1..Cardinality(roots) -> roots] : IsInjective(f)
  BY <1>1 DEF ExistsBijection, Bijection, Injection
<1>3. order \in [1..Cardinality(roots) -> roots]
  BY <1>2 DEF SetToSeq
<1>4. Attaches(roots) \in [1..Cardinality(roots) -> [kind : {"attach"}, root : roots]]
  BY <1>3 DEF Attaches
<1>5. QED
  BY <1>4, AttachesOnly

LEMMA AttachesAll ==
  ASSUME NEW roots \in SUBSET Roots, NEW r \in roots
  PROVE  \E n \in DOMAIN Attaches(roots) :
           Attaches(roots)[n].kind = "attach" /\ Attaches(roots)[n].root = r
<1> DEFINE order == SetToSeq(roots)
<1>1. Cardinality(roots) \in Nat /\ ExistsBijection(1..Cardinality(roots), roots)
  BY LibraryAssumption, FS_Subset, FS_CardinalityType
<1>2. \E f \in [1..Cardinality(roots) -> roots] : IsInjective(f)
  BY <1>1 DEF ExistsBijection, Bijection, Injection
<1>3. order \in [1..Cardinality(roots) -> roots] /\ IsInjective(order)
  BY <1>2 DEF SetToSeq
<1>4. IsFiniteSet(1..Cardinality(roots)) /\ Cardinality(1..Cardinality(roots)) = Cardinality(roots)
  BY <1>1, FS_Interval
<1>5. order \in Injection(1..Cardinality(roots), roots)
  BY <1>3 DEF Injection, IsInjective
<1>6. IsFiniteSet(roots)
  BY LibraryAssumption, FS_Subset
<1>7. order \in Surjection(1..Cardinality(roots), roots)
  BY <1>4, <1>5, <1>6, FS_Injection
<1>8. PICK n \in 1..Cardinality(roots) : order[n] = r
  BY <1>7 DEF Surjection
<1>9. QED
  BY <1>3, <1>8 DEF Attaches

-----------------------------------------------------------------------------
(* What is due is done without letting go of anything.                     *)

LEMMA RetriedHolds ==
  ASSUME NEW s, State(s), Folders(s)
  PROVE  LET now == Retried(s)
         IN /\ DOMAIN now = DOMAIN s /\ now.dirty = s.dirty /\ now.debounce = s.debounce
            /\ now.gc = s.gc /\ now.scanning = s.scanning /\ IsSeq(now.out)
            /\ DOMAIN now.watch = Roots
            /\ \A r \in Roots : now.watch[r] = IF s.watch[r] = "retryDue" THEN "retrying"
                                               ELSE s.watch[r]
            /\ \A n \in DOMAIN s.out : n \in DOMAIN now.out /\ now.out[n] = s.out[n]
            /\ \A n \in DOMAIN now.out : n \in DOMAIN s.out \/ now.out[n].kind = "attach"
<1>1. PICK now : now = Retried(s)
  OBVIOUS
<1>2. PICK due \in SUBSET Roots : due = {r \in Roots : s.watch[r] = "retryDue"}
  OBVIOUS
<1>3. PICK more : more = Attaches(due)
  OBVIOUS
<1>4. /\ DOMAIN now = DOMAIN s /\ now.dirty = s.dirty /\ now.debounce = s.debounce
      /\ now.gc = s.gc /\ now.scanning = s.scanning
      /\ now.watch = [r \in Roots |-> IF r \in due THEN "retrying" ELSE s.watch[r]]
      /\ now.out = s.out \o more
  BY <1>1, <1>2, <1>3 DEF Retried, State
<1>5. IsSeq(more) /\ \A n \in DOMAIN more : more[n].kind = "attach"
  BY <1>3, AttachesAt
<1>6. PICK l : l = Len(s.out)
  OBVIOUS
<1>7. /\ IsSeq(now.out) /\ l \in Nat /\ Len(more) \in Nat /\ DOMAIN s.out = 1..l
      /\ DOMAIN more = 1..Len(more) /\ DOMAIN now.out = 1..(l + Len(more))
      /\ \A n \in 1..l : now.out[n] = s.out[n]
      /\ \A n \in 1..Len(more) : now.out[l + n] = more[n]
  BY <1>4, <1>5, <1>6, JoinedAt DEF State
<1>8. \A n \in DOMAIN s.out : n \in DOMAIN now.out /\ now.out[n] = s.out[n]
  BY <1>7
<1>9. ASSUME NEW n \in DOMAIN now.out, n \notin DOMAIN s.out
      PROVE  now.out[n].kind = "attach"
  <2>1. PICK k : k = n - l
    OBVIOUS
  <2>2. k \in 1..Len(more) /\ n = l + k
    BY <1>7, <1>9, <2>1
  <2>3. QED
    BY <1>5, <1>7, <2>2
<1>10. DOMAIN now.watch = Roots
       /\ \A r \in Roots : now.watch[r] = IF s.watch[r] = "retryDue" THEN "retrying"
                                          ELSE s.watch[r]
  BY <1>2, <1>4
<1>11. QED
  BY <1>1, <1>4, <1>7, <1>8, <1>9, <1>10

(* A watcher is to be attached and everything in its folder waits.         *)
Begun(s, r) ==
  \E n \in DOMAIN s.out : /\ s.out[n].kind = "attach" /\ s.out[n].root = r
                           /\ \A d \in Dirs[r] : Pending(s, r, d)

(* What holds of a step from `s` to `a` that does what is due.             *)
Advances(s, a) ==
  /\ State(a) /\ Folders(a) /\ Single(a.out, "startScan")
  /\ a.scanning \/ Lacks(a.out, "startScan")
  /\ s.scanning => a.scanning /\ (Lacks(s.out, "startScan") => Lacks(a.out, "startScan"))
  /\ \A r \in Roots : a.watch[r] = IF s.watch[r] = "retryDue" THEN "retrying" ELSE s.watch[r]
  /\ \A r : Has(a.out, "detach", r) => Has(s.out, "detach", r)
  /\ \A r \in Roots : \A d : Held(s, r, d) => Held(a, r, d)
  /\ \A r \in Roots : Begun(s, r) => AttachedFirst(a, r)

LEMMA AdvanceHolds ==
  ASSUME NEW s, State(s), Folders(s), Lacks(s.out, "runGc"), Single(s.out, "startScan"),
         s.scanning \/ Lacks(s.out, "startScan")
  PROVE  Advances(s, Advance(s))
<1>1. PICK now : now = Retried(s)
  OBVIOUS
<1>2. PICK a : a = Advance(s)
  OBVIOUS
<1>3. /\ DOMAIN now = DOMAIN s /\ now.dirty = s.dirty /\ now.debounce = s.debounce
      /\ now.gc = s.gc /\ now.scanning = s.scanning /\ IsSeq(now.out)
      /\ DOMAIN now.watch = Roots
      /\ \A r \in Roots : now.watch[r] = IF s.watch[r] = "retryDue" THEN "retrying"
                                         ELSE s.watch[r]
      /\ \A n \in DOMAIN s.out : n \in DOMAIN now.out /\ now.out[n] = s.out[n]
      /\ \A n \in DOMAIN now.out : n \in DOMAIN s.out \/ now.out[n].kind = "attach"
  BY <1>1, RetriedHolds
<1>4. PICK waits : waits = IF s.debounce = "due" THEN "none" ELSE s.debounce
  OBVIOUS
<1>5. PICK scan : scan = [kind |-> "startScan", targets |-> s.dirty]
  OBVIOUS
<1>6. PICK gc : gc = [kind |-> "runGc"]
  OBVIOUS
<1>7. \/ s.scanning /\ a = now
      \/ /\ ~s.scanning
         /\ a = Push([now EXCEPT !.debounce = "none", !.dirty = NoWork, !.scanning = TRUE], scan)
      \/ /\ ~s.scanning /\ s.dirty = NoWork
         /\ a = Push([now EXCEPT !.debounce = "none", !.gc = FALSE], gc)
      \/ /\ ~s.scanning /\ ~(s.debounce = "due" /\ s.dirty # NoWork)
         /\ a = [now EXCEPT !.debounce = waits]
  <2>1. a = IF s.scanning THEN now
            ELSE IF s.debounce = "due" /\ s.dirty # NoWork
            THEN Push([now EXCEPT !.debounce = "none", !.dirty = NoWork, !.scanning = TRUE], scan)
            ELSE IF s.gc /\ waits = "none" /\ s.dirty = NoWork
            THEN Push([now EXCEPT !.debounce = "none", !.gc = FALSE], gc)
            ELSE [now EXCEPT !.debounce = waits]
    BY <1>1, <1>2, <1>4, <1>5, <1>6 DEF Advance
  <2>2. QED
    BY <2>1, Zenon
<1>8. State(a)
  <2>1. State(Advance(s))
    BY AdvanceKeepsApart
  <2>2. QED
    BY <1>2, <2>1
<1>9. a.watch = now.watch /\ DOMAIN a.dirty = Roots
  BY <1>3, <1>7 DEF Push, State, Folders, NoWork
<1>10. \A r : Has(now.out, "detach", r) => Has(s.out, "detach", r)
  <2>1. "attach" # "detach"
    OBVIOUS
  <2>2. QED
    BY <1>3, <2>1 DEF Has
<1>11. (Lacks(s.out, "startScan") => Lacks(now.out, "startScan")) /\ Single(now.out, "startScan")
  <2>1. "attach" # "startScan"
    OBVIOUS
  <2>2. QED
    BY <1>3, <2>1 DEF Lacks, Single
<1>12. /\ Folders(a)
       /\ \A r \in Roots : a.watch[r] = IF s.watch[r] = "retryDue" THEN "retrying" ELSE s.watch[r]
  BY <1>3, <1>9 DEF Folders
<1>13. CASE a.out = now.out /\ a.scanning = now.scanning
            /\ \A r \in Roots : \A d : Pending(s, r, d) => Pending(a, r, d)
  <2>1. \A r : Has(a.out, "detach", r) => Has(s.out, "detach", r)
    BY <1>10, <1>13
  <2>2. \A r \in Roots : \A d : Held(s, r, d) => Held(a, r, d)
    BY <1>3, <1>13 DEF Held, Asked
  <2>3. ASSUME NEW r \in Roots,
               NEW n \in DOMAIN s.out, s.out[n].kind = "attach", s.out[n].root = r,
               \A d \in Dirs[r] : Pending(s, r, d)
        PROVE  AttachedFirst(a, r)
    BY <1>3, <1>13, <2>3 DEF AttachedFirst
  <2>4. /\ Single(a.out, "startScan") /\ (a.scanning \/ Lacks(a.out, "startScan"))
        /\ s.scanning => a.scanning /\ (Lacks(s.out, "startScan") => Lacks(a.out, "startScan"))
    BY <1>3, <1>11, <1>13
  <2>5. \A r \in Roots : Begun(s, r) => AttachedFirst(a, r)
    BY <2>3 DEF Begun
  <2>6. QED
    BY ONLY <1>2, <1>8, <1>12, <2>1, <2>2, <2>4, <2>5 DEF Advances
<1>14. CASE s.scanning /\ a = now
  <2>1. \A r \in Roots : \A d : Pending(s, r, d) => Pending(a, r, d)
    BY <1>3, <1>14 DEF Pending
  <2>2. QED
    BY <1>13, <1>14, <2>1
<1>15. CASE /\ ~s.scanning /\ ~(s.debounce = "due" /\ s.dirty # NoWork)
            /\ a = [now EXCEPT !.debounce = waits]
  <2>1. a.out = now.out /\ a.scanning = now.scanning /\ a.dirty = s.dirty /\ a.debounce = waits
    BY <1>3, <1>15 DEF State
  <2>2. \A r \in Roots : \A d : Pending(s, r, d) => Pending(a, r, d)
    <3>1. ASSUME NEW r \in Roots, NEW d, Pending(s, r, d)
          PROVE  Pending(a, r, d)
      <4>1. d \in s.dirty[r] /\ s.debounce # "none"
        BY <1>15, <3>1 DEF Pending
      <4>2. s.dirty # NoWork
        BY <4>1 DEF NoWork
      <4>3. waits # "none"
        BY <1>4, <1>15, <4>1, <4>2
      <4>4. QED
        BY <2>1, <4>1, <4>3 DEF Pending
    <3>2. QED
      BY <3>1
  <2>3. QED
    BY <1>13, <2>1, <2>2
<1>16. CASE /\ ~s.scanning /\ s.dirty = NoWork
            /\ a = Push([now EXCEPT !.debounce = "none", !.gc = FALSE], gc)
  <2>1. a.out = Append(now.out, gc) /\ a.scanning = now.scanning /\ gc.kind = "runGc"
    BY <1>3, <1>6, <1>16 DEF State, Push
  <2>2. \A r \in Roots : \A d : ~Pending(s, r, d)
    BY <1>16 DEF Pending, NoWork
  <2>3. gc.kind # "startScan" /\ gc.kind # "detach"
    BY <2>1
  <2>4. \A n \in DOMAIN now.out : a.out[n] = now.out[n]
    BY <1>3, <2>1, AppendedAt
  <2>5. /\ Lacks(Append(now.out, gc), "startScan") <=> Lacks(now.out, "startScan")
                                                      /\ gc.kind # "startScan"
        /\ Single(now.out, "startScan") /\ (Lacks(now.out, "startScan") \/ gc.kind # "startScan")
             => Single(Append(now.out, gc), "startScan")
    BY ONLY <1>3, AppendedHas
  <2>6. \A r : Has(Append(now.out, gc), "detach", r) <=>
                Has(now.out, "detach", r) \/ (gc.kind = "detach" /\ gc.root = r)
    BY ONLY <1>3, AppendedHas
  <2>7. /\ \A n \in DOMAIN now.out : a.out[n] = now.out[n]
        /\ Lacks(now.out, "startScan") => Lacks(a.out, "startScan")
        /\ Single(now.out, "startScan") => Single(a.out, "startScan")
        /\ \A r : Has(a.out, "detach", r) => Has(now.out, "detach", r)
    BY ONLY <2>1, <2>3, <2>4, <2>5, <2>6
  <2>8. \A n \in DOMAIN now.out : n \in DOMAIN a.out
    BY <1>3, <2>1, AppendedAt
  <2>9. \A r \in Roots : \A d : Held(s, r, d) => Held(a, r, d)
    BY <1>3, <2>2, <2>7, <2>8 DEF Held, Asked
  <2>10. \A r \in Roots : Dirs[r] # {}
    BY LibraryAssumption
  <2>11. ASSUME NEW r \in Roots, \A d \in Dirs[r] : Pending(s, r, d)
         PROVE  FALSE
    BY <2>2, <2>10, <2>11
  <2>12. \A r : Has(a.out, "detach", r) => Has(s.out, "detach", r)
    BY <1>10, <2>7
  <2>13. /\ Single(a.out, "startScan") /\ (a.scanning \/ Lacks(a.out, "startScan"))
         /\ s.scanning => a.scanning /\ (Lacks(s.out, "startScan") => Lacks(a.out, "startScan"))
    BY <1>3, <1>11, <1>16, <2>1, <2>7
  <2>14. \A r \in Roots : Begun(s, r) => AttachedFirst(a, r)
    BY <2>11 DEF Begun
  <2>15. QED
    BY ONLY <1>2, <1>8, <1>12, <2>9, <2>12, <2>13, <2>14 DEF Advances
<1>17. CASE /\ ~s.scanning
            /\ a = Push([now EXCEPT !.debounce = "none", !.dirty = NoWork, !.scanning = TRUE], scan)
  <2>1. /\ a.out = Append(now.out, scan) /\ a.scanning = TRUE /\ scan.kind = "startScan"
        /\ scan.targets = s.dirty
    BY <1>3, <1>5, <1>17 DEF State, Push
  <2>2. PICK m : m = Len(now.out) + 1
    OBVIOUS
  <2>3. /\ DOMAIN now.out = 1..Len(now.out) /\ Len(now.out) \in Nat
        /\ DOMAIN a.out = 1..(Len(now.out) + 1)
        /\ \A n \in DOMAIN now.out : a.out[n] = now.out[n]
        /\ a.out[m] = scan
    BY <1>3, <2>1, <2>2, AppendedAt
  <2>4. m \in DOMAIN a.out /\ \A n \in DOMAIN now.out : n \in DOMAIN a.out /\ n <= m
    BY <2>2, <2>3
  <2>5. Single(a.out, "startScan") /\ (\A r : Has(a.out, "detach", r) => Has(now.out, "detach", r))
    <3>1. Lacks(now.out, "startScan")
      BY <1>11, <1>17
    <3>2. Single(now.out, "startScan") /\ (Lacks(now.out, "startScan") \/ scan.kind # "startScan")
            => Single(Append(now.out, scan), "startScan")
      BY ONLY <1>3, AppendedHas
    <3>3. \A r : Has(Append(now.out, scan), "detach", r) <=>
                  Has(now.out, "detach", r) \/ (scan.kind = "detach" /\ scan.root = r)
      BY ONLY <1>3, AppendedHas
    <3>4. scan.kind # "detach"
      BY <2>1
    <3>5. QED
      BY ONLY <1>11, <2>1, <3>1, <3>2, <3>3, <3>4
  <2>6. \A r \in Roots : \A d : Pending(s, r, d) =>
          d \in a.out[m].targets[r] /\ a.out[m].kind = "startScan"
    BY <2>1, <2>3 DEF Pending
  <2>7. \A r \in Roots : \A d : Held(s, r, d) => Held(a, r, d)
    BY <1>3, <2>3, <2>4, <2>6 DEF Held, Asked
  <2>8. ASSUME NEW r \in Roots,
               NEW n \in DOMAIN s.out, s.out[n].kind = "attach", s.out[n].root = r,
               \A d \in Dirs[r] : Pending(s, r, d)
        PROVE  AttachedFirst(a, r)
    <3>1. n \in DOMAIN now.out /\ now.out[n] = s.out[n]
      BY <1>3
    <3>2. n \in DOMAIN a.out /\ a.out[n] = s.out[n] /\ n <= m
      BY <2>3, <2>4, <3>1
    <3>3. QED
      BY <2>4, <2>6, <2>8, <3>2 DEF AttachedFirst
  <2>9. \A r : Has(a.out, "detach", r) => Has(s.out, "detach", r)
    BY <1>10, <2>5
  <2>10. \A r \in Roots : Begun(s, r) => AttachedFirst(a, r)
    BY <2>8 DEF Begun
  <2>11. Single(a.out, "startScan") /\ a.scanning /\ ~s.scanning
    BY <1>17, <2>1, <2>5
  <2>12. QED
    BY ONLY <1>2, <1>8, <1>12, <2>7, <2>9, <2>10, <2>11 DEF Advances
<1>18. QED
  BY <1>2, <1>7, <1>14, <1>15, <1>16, <1>17

-----------------------------------------------------------------------------
(* What one input does to what is held for a folder.                       *)

(* The inputs that let go of what waits for a folder.                      *)
LetsGo(i, r) ==
  \/ i.kind \in {"disabled", "removed"} /\ i.root = r
  \/ i.kind = "cancelRequested"
  \/ i.kind = "scanFinished" /\ i.outcome = "cancelled"
  \/ i.kind = "scanRequested" /\ r \notin i.roots

HandlesAt(s, i, h, r) ==
  /\ \A d \in Dirs[r] : Pending(s, r, d) => Held(h, r, d) \/ LetsGo(i, r)
  /\ i.kind = "enabled" /\ i.root = r => Begun(h, r) /\ h.watch[r] # "none"
  /\ i.kind = "changed" /\ i.root = r /\ s.watch[r] # "none" =>
       \A d \in i.dirs : Pending(h, r, d)
  /\ i.kind = "attached" /\ i.root = r /\ s.watch[r] \in Retrying =>
       \A d \in Dirs[r] : Pending(h, r, d)
  /\ i.kind = "attachFailed" /\ i.root = r /\ s.watch[r] # "none" => h.watch[r] \in Retrying
  /\ s.watch[r] # "none" =>
       \/ h.watch[r] # "none"
       \/ i.kind \in {"disabled", "removed"} /\ i.root = r
  /\ s.watch[r] \in Retrying =>
       \/ h.watch[r] \in Retrying
       \/ i.root = r /\ i.kind \in {"enabled", "disabled", "removed", "attached"}
  /\ Has(h.out, "detach", r) =>
       /\ i.root = r
       /\ i.kind = "attached" => s.watch[r] = "none"
       /\ i.kind \in {"disabled", "removed", "attached"}

Handles(s, i, h) ==
  /\ Folders(h) /\ Single(h.out, "startScan")
  /\ s.scanning => Lacks(h.out, "startScan")
  /\ \A r \in Roots : HandlesAt(s, i, h, r)

LEMMA OneEffect ==
  ASSUME NEW e
  PROVE  /\ DOMAIN Append(<<>>, e) = {1} /\ Append(<<>>, e)[1] = e
         /\ \A k : Single(Append(<<>>, e), k)
         /\ \A k : Lacks(Append(<<>>, e), k) <=> e.kind # k
         /\ \A k, r : Has(Append(<<>>, e), k, r) <=> e.kind = k /\ e.root = r
<1>1. DOMAIN Append(<<>>, e) = {1} /\ Append(<<>>, e)[1] = e
  OBVIOUS
<1>2. PICK q : q = Append(<<>>, e)
  OBVIOUS
<1>3. DOMAIN q = {1} /\ q[1] = e
  BY <1>1, <1>2
<1>4. /\ \A k : Single(q, k)
      /\ \A k : Lacks(q, k) <=> e.kind # k
      /\ \A k, r : Has(q, k, r) <=> e.kind = k /\ e.root = r
  BY <1>3 DEF Single, Lacks, Has
<1>5. QED
  BY <1>1, <1>2, <1>4

LEMMA NoEffect == /\ \A k : Single(<<>>, k) /\ Lacks(<<>>, k)
                  /\ \A k, r : ~Has(<<>>, k, r)
BY DEF Single, Lacks, Has

LEMMA WholeOf == \A ids : /\ DOMAIN Whole(ids) = Roots
                          /\ \A r \in Roots : r \in ids => Whole(ids)[r] = Dirs[r]
BY DEF Whole

(* Nothing is said about any folder.                                       *)
LEMMA NothingHandled ==
  ASSUME NEW s, State(s), Folders(s), s.out = <<>>, NEW i, NEW h,
         DOMAIN h = DOMAIN s, h.out = <<>>, h.watch = s.watch, h.dirty = s.dirty,
         h.scanning = s.scanning, h.debounce = s.debounce,
         ~(i.kind \in {"enabled", "attached", "attachFailed"}),
         i.kind = "changed" => s.watch[i.root] = "none"
  PROVE  Handles(s, i, h)
<1>1. Folders(h) /\ Single(h.out, "startScan") /\ Lacks(h.out, "startScan")
  BY NoEffect DEF Folders
<1>2. ASSUME NEW r \in Roots
      PROVE  HandlesAt(s, i, h, r)
  BY NoEffect DEF HandlesAt, Held, Pending
<1>3. QED
  BY <1>1, <1>2 DEF Handles

(* Work is added for some folders.                                         *)
LEMMA WorkHandled ==
  ASSUME NEW s, State(s), Folders(s), s.out = <<>>, NEW i, NEW work, NEW when, when # "none",
         i.kind \in {"changed", "gcFinished"},
         i.kind = "changed" /\ i.root \in Roots => i.dirs \subseteq work[i.root]
  PROVE  Handles(s, i, Dirtied(s, work, when))
<1>1. PICK h : h = Dirtied(s, work, when)
  OBVIOUS
<1>2. /\ DOMAIN h = DOMAIN s /\ h.out = <<>> /\ h.watch = s.watch /\ h.debounce = when
      /\ DOMAIN h.dirty = Roots /\ \A r \in Roots : h.dirty[r] = s.dirty[r] \cup work[r]
  BY <1>1 DEF Dirtied, State
<1>3. Folders(h) /\ Single(h.out, "startScan") /\ Lacks(h.out, "startScan")
  BY <1>2, NoEffect DEF Folders
<1>4. ASSUME NEW r \in Roots
      PROVE  HandlesAt(s, i, h, r)
  BY <1>2, NoEffect DEF HandlesAt, Held, Pending
<1>5. QED
  BY <1>1, <1>3, <1>4 DEF Handles

LEMMA EnabledHandled ==
  ASSUME NEW s, State(s), Folders(s), s.out = <<>>, NEW i, i.kind = "enabled"
  PROVE  Handles(s, i, Handled(s, i))
<1>1. PICK h : h = Handled(s, i)
  OBVIOUS
<1>2. PICK n : n = Dirtied(s, Whole({i.root}), "due")
  OBVIOUS
<1>3. PICK e : e = [kind |-> "attach", root |-> i.root]
  OBVIOUS
<1>4. h = Push([n EXCEPT !.watch[i.root] = "attaching"], e)
  <2>1. h = Watch(n, i.root)
    BY <1>1, <1>2, Zenon DEF Handled
  <2>2. QED
    BY <1>3, <2>1 DEF Watch
<1>5. /\ DOMAIN n = DOMAIN s /\ n.out = <<>> /\ n.watch = s.watch /\ n.debounce = "due"
      /\ DOMAIN n.dirty = Roots /\ \A r \in Roots : n.dirty[r] = s.dirty[r] \cup Whole({i.root})[r]
      /\ n.scanning = s.scanning
  BY <1>2 DEF Dirtied, State
<1>6. /\ h.out = Append(<<>>, e) /\ h.debounce = "due" /\ h.dirty = n.dirty
      /\ DOMAIN h.watch = Roots
      /\ \A r \in Roots : h.watch[r] = IF r = i.root THEN "attaching" ELSE s.watch[r]
  BY <1>4, <1>5 DEF Push, State, Folders
<1>7. /\ DOMAIN h.out = {1} /\ h.out[1] = e
      /\ Single(h.out, "startScan") /\ Lacks(h.out, "startScan")
      /\ \A r : ~Has(h.out, "detach", r)
  BY <1>3, <1>6, OneEffect
<1>8. Folders(h) /\ Single(h.out, "startScan") /\ Lacks(h.out, "startScan")
  BY <1>5, <1>6, <1>7 DEF Folders
<1>9. ASSUME NEW r \in Roots
      PROVE  HandlesAt(s, i, h, r)
  <2>1. \A d \in Dirs[r] : Pending(s, r, d) => Held(h, r, d)
    BY <1>5, <1>6 DEF Held, Pending
  <2>2. ASSUME i.root = r
        PROVE  Begun(h, r)
    <3>1. Whole({i.root})[r] = Dirs[r]
      BY <2>2, WholeOf
    <3>2. \A d \in Dirs[r] : Pending(h, r, d)
      BY <1>5, <1>6, <3>1 DEF Pending
    <3>3. QED
      BY <1>3, <1>7, <2>2, <3>2 DEF Begun
  <2>3. s.watch[r] # "none" => h.watch[r] # "none"
    BY <1>6
  <2>4. i.root = r => h.watch[r] # "none"
    BY <1>6
  <2>5. i.root # r => h.watch[r] = s.watch[r]
    BY <1>6
  <2>6. QED
    BY <1>7, <2>1, <2>2, <2>3, <2>4, <2>5 DEF HandlesAt
<1>10. QED
  BY <1>1, <1>8, <1>9 DEF Handles

LEMMA ReleasedHandled ==
  ASSUME NEW s, State(s), Folders(s), s.out = <<>>, NEW i, i.kind \in {"disabled", "removed"}
  PROVE  Handles(s, i, Handled(s, i))
<1>1. PICK h : h = Handled(s, i)
  OBVIOUS
<1>2. PICK e : e = [kind |-> "detach", root |-> i.root]
  OBVIOUS
<1>3. PICK n : n = Release(s, i.root)
  OBVIOUS
<1>4. h = n \/ h = [n EXCEPT !.gc = TRUE]
  <2>1. CASE i.kind = "disabled"
    BY <1>1, <1>3, <2>1, Zenon DEF Handled
  <2>2. CASE i.kind = "removed"
    BY <1>1, <1>3, <2>2, Zenon DEF Handled
  <2>3. QED
    BY <2>1, <2>2
<1>5. /\ n.out = <<>> \/ n.out = Append(<<>>, e)
      /\ n.scanning = s.scanning /\ n.debounce = s.debounce /\ DOMAIN n = DOMAIN s
      /\ DOMAIN n.watch = Roots /\ DOMAIN n.dirty = Roots
      /\ \A r \in Roots : r # i.root => n.watch[r] = s.watch[r] /\ n.dirty[r] = s.dirty[r]
  BY <1>2, <1>3 DEF Release, Push, State, Folders
<1>6. /\ h.out = n.out /\ h.scanning = s.scanning /\ h.debounce = s.debounce
      /\ h.watch = n.watch /\ h.dirty = n.dirty
  BY <1>4, <1>5 DEF State
<1>7. /\ Single(h.out, "startScan") /\ Lacks(h.out, "startScan")
      /\ \A r : Has(h.out, "detach", r) => i.root = r
  <2>1. e.kind = "detach" /\ e.root = i.root
    BY <1>2
  <2>2. CASE h.out = <<>>
    BY <2>2, NoEffect
  <2>3. CASE h.out = Append(<<>>, e)
    BY <2>1, <2>3, OneEffect
  <2>4. QED
    BY <1>5, <1>6, <2>2, <2>3
<1>8. Folders(h)
  BY <1>5, <1>6 DEF Folders
<1>9. ASSUME NEW r \in Roots
      PROVE  HandlesAt(s, i, h, r)
  <2>1. CASE r = i.root
    BY <1>7, <2>1 DEF HandlesAt, LetsGo
  <2>2. CASE r # i.root
    BY <1>5, <1>6, <1>7, <2>2 DEF HandlesAt, Held, Pending
  <2>3. QED
    BY <2>1, <2>2
<1>10. QED
  BY <1>1, <1>7, <1>8, <1>9 DEF Handles

LEMMA AttachedHandled ==
  ASSUME NEW s, State(s), Folders(s), s.out = <<>>, NEW i, i.kind = "attached"
  PROVE  Handles(s, i, Handled(s, i))
<1>1. PICK h : h = Handled(s, i)
  OBVIOUS
<1>2. PICK e : e = [kind |-> "detach", root |-> i.root]
  OBVIOUS
<1>3. h = Attached(s, i.root)
  BY <1>1, Zenon DEF Handled
<1>4. CASE s.watch[i.root] = "none"
  <2>1. /\ h.out = Append(<<>>, e) /\ h.scanning = s.scanning /\ h.debounce = s.debounce
        /\ h.watch = s.watch /\ h.dirty = s.dirty
    BY <1>2, <1>3, <1>4 DEF Attached, Push, State
  <2>2. /\ Single(h.out, "startScan") /\ Lacks(h.out, "startScan")
        /\ \A r : Has(h.out, "detach", r) => i.root = r
    BY <1>2, <2>1, OneEffect
  <2>3. ASSUME NEW r \in Roots
        PROVE  HandlesAt(s, i, h, r)
    <3>1. "none" \notin Retrying
      BY DEF Retrying
    <3>2. QED
      BY <1>4, <2>1, <2>2, <3>1 DEF HandlesAt, Held, Pending
  <2>4. QED
    BY <1>1, <2>1, <2>2, <2>3 DEF Handles, Folders
<1>5. CASE s.watch[i.root] # "none"
  <2>1. PICK n : n = IF s.watch[i.root] \in Retrying THEN Dirtied(s, Whole({i.root}), "due") ELSE s
    OBVIOUS
  <2>2. h = [n EXCEPT !.watch[i.root] = "attached"]
    BY <1>3, <1>5, <2>1 DEF Attached
  <2>3. PICK m : m = Dirtied(s, Whole({i.root}), "due")
    OBVIOUS
  <2>4. /\ DOMAIN m = DOMAIN s /\ m.out = <<>> /\ m.watch = s.watch /\ m.debounce = "due"
        /\ DOMAIN m.dirty = Roots
        /\ \A r \in Roots : m.dirty[r] = s.dirty[r] \cup Whole({i.root})[r]
        /\ m.scanning = s.scanning
    BY <2>3 DEF Dirtied, State
  <2>5. /\ DOMAIN n = DOMAIN s /\ n.out = <<>> /\ n.watch = s.watch /\ DOMAIN n.dirty = Roots
        /\ n.scanning = s.scanning
        /\ n = m \/ n = s
        /\ s.watch[i.root] \in Retrying => n = m
    BY <2>1, <2>3, <2>4 DEF Folders
  <2>6. /\ h.out = <<>> /\ h.dirty = n.dirty /\ h.debounce = n.debounce /\ h.scanning = s.scanning
        /\ DOMAIN h.watch = Roots
        /\ \A r \in Roots : h.watch[r] = IF r = i.root THEN "attached" ELSE s.watch[r]
    BY <2>2, <2>5 DEF State, Folders
  <2>7. Folders(h) /\ Single(h.out, "startScan") /\ Lacks(h.out, "startScan")
    BY <2>5, <2>6, NoEffect DEF Folders
  <2>8. ASSUME NEW r \in Roots
        PROVE  HandlesAt(s, i, h, r)
    <3>1. \A d \in Dirs[r] : Pending(s, r, d) => Held(h, r, d)
      BY <2>4, <2>5, <2>6 DEF Held, Pending
    <3>2. ASSUME i.root = r, s.watch[r] \in Retrying
          PROVE  \A d \in Dirs[r] : Pending(h, r, d)
      <4>1. Whole({i.root})[r] = Dirs[r]
        BY <3>2, WholeOf
      <4>2. QED
        BY <2>4, <2>5, <2>6, <3>2, <4>1 DEF Pending
    <3>3. s.watch[r] # "none" => h.watch[r] # "none"
      BY <2>6
    <3>4. i.root # r => h.watch[r] = s.watch[r]
      BY <2>6
    <3>5. ~Has(h.out, "detach", r)
      BY <2>6, NoEffect
    <3>6. QED
      BY <3>1, <3>2, <3>3, <3>4, <3>5 DEF HandlesAt
  <2>9. QED
    BY <1>1, <2>7, <2>8 DEF Handles
<1>6. QED
  BY <1>4, <1>5

LEMMA AttachFailedHandled ==
  ASSUME NEW s, State(s), Folders(s), s.out = <<>>, NEW i, i.kind = "attachFailed"
  PROVE  Handles(s, i, Handled(s, i))
<1>1. PICK h : h = Handled(s, i)
  OBVIOUS
<1>2. CASE s.watch[i.root] = "none"
  <2>1. h = s
    BY <1>1, <1>2, Zenon DEF Handled
  <2>2. Folders(h) /\ Single(h.out, "startScan") /\ Lacks(h.out, "startScan")
    BY <2>1, NoEffect
  <2>3. ASSUME NEW r \in Roots
        PROVE  HandlesAt(s, i, h, r)
    BY <1>2, <2>1, NoEffect DEF HandlesAt, Held
  <2>4. QED
    BY <1>1, <2>2, <2>3 DEF Handles
<1>3. CASE s.watch[i.root] # "none"
  <2>1. h = [s EXCEPT !.watch[i.root] = "retryLater"]
    BY <1>1, <1>3, Zenon DEF Handled
  <2>2. /\ h.out = <<>> /\ h.dirty = s.dirty /\ h.debounce = s.debounce /\ h.scanning = s.scanning
        /\ DOMAIN h.watch = Roots
        /\ \A r \in Roots : h.watch[r] = IF r = i.root THEN "retryLater" ELSE s.watch[r]
    BY <2>1 DEF State, Folders
  <2>3. Folders(h) /\ Single(h.out, "startScan") /\ Lacks(h.out, "startScan")
    BY <2>2, NoEffect DEF Folders
  <2>4. ASSUME NEW r \in Roots
        PROVE  HandlesAt(s, i, h, r)
    BY <2>2, NoEffect DEF HandlesAt, Held, Pending, Retrying
  <2>5. QED
    BY <1>1, <2>3, <2>4 DEF Handles
<1>4. QED
  BY <1>2, <1>3

LEMMA ScanRequestHandled ==
  ASSUME NEW s, State(s), Folders(s), s.out = <<>>, NEW i,
         i.kind \in {"scanRequested", "cancelRequested"}
  PROVE  Handles(s, i, Handled(s, i))
<1>1. PICK h : h = Handled(s, i)
  OBVIOUS
<1>2. PICK e : \/ i.kind = "scanRequested" /\ e = [kind |-> "startScan", targets |-> Whole(i.roots)]
               \/ i.kind = "cancelRequested" /\ e = [kind |-> "cancelScan"]
  OBVIOUS
<1>3. \/ i.kind = "scanRequested" /\ s.scanning /\ h = s
      \/ /\ i.kind = "scanRequested" /\ ~s.scanning
         /\ h = Push([s EXCEPT !.dirty = NoWork, !.debounce = "none", !.scanning = TRUE], e)
      \/ /\ i.kind = "cancelRequested"
         /\ \/ h = [s EXCEPT !.dirty = NoWork, !.debounce = "none"]
            \/ h = Push([s EXCEPT !.dirty = NoWork, !.debounce = "none"], e)
  <2>1. CASE i.kind = "scanRequested"
    <3>1. h = ScanRequested(s, i.roots)
      BY <1>1, <2>1, Zenon DEF Handled
    <3>2. e = [kind |-> "startScan", targets |-> Whole(i.roots)]
      BY <1>2, <2>1
    <3>3. QED
      BY <2>1, <3>1, <3>2 DEF ScanRequested, State
  <2>2. CASE i.kind = "cancelRequested"
    <3>1. h = CancelRequested(s)
      BY <1>1, <2>2, Zenon DEF Handled
    <3>2. e = [kind |-> "cancelScan"]
      BY <1>2, <2>2
    <3>3. QED
      BY <2>2, <3>1, <3>2 DEF CancelRequested, State
  <2>3. QED
    BY <2>1, <2>2
<1>4. e.kind \in {"startScan", "cancelScan"}
      /\ (i.kind = "cancelRequested" => e.kind = "cancelScan")
  BY <1>2
<1>5. /\ h.out = <<>> \/ h.out = Append(<<>>, e)
      /\ h.watch = s.watch /\ DOMAIN h.dirty = Roots
  BY <1>3 DEF Push, State, Folders, NoWork
<1>6. Single(h.out, "startScan") /\ \A r : ~Has(h.out, "detach", r)
  <2>1. e.kind # "detach"
    BY <1>4
  <2>2. CASE h.out = <<>>
    BY <2>2, NoEffect
  <2>3. CASE h.out = Append(<<>>, e)
    BY <2>1, <2>3, OneEffect
  <2>4. QED
    BY <1>5, <2>2, <2>3
<1>7. s.scanning => Lacks(h.out, "startScan")
  <2>1. CASE h.out = <<>>
    BY <2>1, NoEffect
  <2>2. CASE h.out = Append(<<>>, e) /\ e.kind = "cancelScan"
    <3>1. e.kind # "startScan"
      BY <2>2
    <3>2. QED
      BY <2>2, <3>1, OneEffect
  <2>3. s.scanning => h.out = <<>> \/ e.kind = "cancelScan"
    BY <1>3, <1>4
  <2>4. QED
    BY <1>5, <2>1, <2>2, <2>3
<1>8. ASSUME NEW r \in Roots
      PROVE  HandlesAt(s, i, h, r)
  <2>1. ASSUME NEW d \in Dirs[r], Pending(s, r, d)
        PROVE  Held(h, r, d) \/ LetsGo(i, r)
    <3>1. CASE i.kind = "cancelRequested"
      BY <3>1 DEF LetsGo
    <3>2. CASE h = s
      BY <2>1, <3>2 DEF Held
    <3>3. CASE /\ i.kind = "scanRequested" /\ ~s.scanning /\ r \in i.roots
               /\ h = Push([s EXCEPT !.dirty = NoWork, !.debounce = "none", !.scanning = TRUE], e)
      <4>1. h.out = Append(<<>>, e)
        BY <3>3 DEF Push, State
      <4>2. e.kind = "startScan" /\ e.targets = Whole(i.roots)
        BY <1>2, <3>3
      <4>3. d \in e.targets[r]
        BY <3>3, <4>2, WholeOf
      <4>4. DOMAIN h.out = {1} /\ h.out[1] = e
        BY <4>1, OneEffect
      <4>5. QED
        BY <4>2, <4>3, <4>4 DEF Held, Asked
    <3>4. QED
      BY <1>3, <3>1, <3>2, <3>3 DEF LetsGo
  <2>2. QED
    BY <1>5, <1>6, <2>1 DEF HandlesAt
<1>9. QED
  BY <1>1, <1>5, <1>6, <1>7, <1>8 DEF Handles, Folders

LEMMA ScanEndHandled ==
  ASSUME NEW s, State(s), Folders(s), s.out = <<>>, NEW i, i.kind = "scanFinished"
  PROVE  Handles(s, i, Handled(s, i))
<1>1. PICK h : h = Handled(s, i)
  OBVIOUS
<1>2. h = ScanFinished(s, i.outcome)
  BY <1>1, Zenon DEF Handled
<1>3. h.out = <<>> /\ h.watch = s.watch /\ DOMAIN h.dirty = Roots
  BY <1>2 DEF ScanFinished, State, Folders, NoWork
<1>4. ASSUME i.outcome # "cancelled", s.dirty # NoWork
      PROVE  h.dirty = s.dirty /\ h.debounce # "none"
  BY <1>2, <1>4 DEF ScanFinished, State
<1>5. ASSUME NEW r \in Roots
      PROVE  HandlesAt(s, i, h, r)
  <2>1. ASSUME NEW d \in Dirs[r], Pending(s, r, d)
        PROVE  Held(h, r, d) \/ LetsGo(i, r)
    <3>1. s.dirty # NoWork /\ d \in s.dirty[r]
      BY <2>1 DEF Pending, NoWork
    <3>2. QED
      BY <1>4, <3>1 DEF Held, Pending, LetsGo
  <2>2. QED
    BY <1>3, <2>1, NoEffect DEF HandlesAt
<1>6. QED
  BY <1>1, <1>3, <1>5, NoEffect DEF Handles, Folders

LEMMA HandledHolds ==
  ASSUME NEW s, State(s), Folders(s), s.out = <<>>, NEW i
  PROVE  Handles(s, i, Handled(s, i))
<1>1. PICK h : h = Handled(s, i)
  OBVIOUS
<1>2. CASE i.kind \in {"enabled", "disabled", "removed", "attached", "attachFailed",
                       "scanRequested", "cancelRequested", "scanFinished"}
  BY <1>2, EnabledHandled, ReleasedHandled, AttachedHandled, AttachFailedHandled,
     ScanRequestHandled, ScanEndHandled
<1>3. CASE i.kind = "missingDeleted"
  <2>1. h = [s EXCEPT !.gc = TRUE]
    BY <1>1, <1>3, Zenon DEF Handled
  <2>2. Handles(s, i, h)
    BY <1>3, <2>1, NothingHandled DEF State
  <2>3. QED
    BY <1>1, <2>2
<1>4. CASE i.kind = "changed" /\ s.watch[i.root] # "none"
  <2>1. PICK work : work = [NoWork EXCEPT ![i.root] = i.dirs]
    OBVIOUS
  <2>2. h = Dirtied(s, work, "later")
    BY <1>1, <1>4, <2>1, Zenon DEF Handled
  <2>3. i.root \in Roots => i.dirs \subseteq work[i.root]
    BY <2>1 DEF NoWork
  <2>4. Handles(s, i, Dirtied(s, work, "later"))
    BY <1>4, <2>3, WorkHandled
  <2>5. QED
    BY <1>1, <2>2, <2>4
<1>5. CASE i.kind = "gcFinished" /\ i.rescan # {}
  <2>1. h = Dirtied(s, Whole(i.rescan), "due")
    BY <1>1, <1>5, Zenon DEF Handled
  <2>2. Handles(s, i, Dirtied(s, Whole(i.rescan), "due"))
    BY <1>5, WorkHandled
  <2>3. QED
    BY <1>1, <2>1, <2>2
<1>6. CASE /\ ~(i.kind \in {"enabled", "disabled", "removed", "attached", "attachFailed",
                            "scanRequested", "cancelRequested", "scanFinished",
                            "missingDeleted"})
           /\ ~(i.kind = "changed" /\ s.watch[i.root] # "none")
           /\ ~(i.kind = "gcFinished" /\ i.rescan # {})
  <2>1. h = s
    BY <1>1, <1>6, Zenon DEF Handled
  <2>2. Handles(s, i, h)
    BY <1>6, <2>1, NothingHandled
  <2>3. QED
    BY <1>1, <2>2
<1>7. QED
  BY <1>2, <1>3, <1>4, <1>5, <1>6

-----------------------------------------------------------------------------
(* The invariant.                                                          *)

(* What is on its way to the actor: its own inputs, the channel's.         *)
Queues ==
  /\ IsSeq(inputs) /\ IsSeq(channel)
  /\ \A n \in DOMAIN inputs :
       /\ inputs[n].kind \in {"attached", "attachFailed", "gcFinished", "scanFinished"}
       /\ inputs[n].kind = "attachFailed" =>
            inputs[n] = [kind |-> "attachFailed", root |-> inputs[n].root]
  /\ \A n \in DOMAIN channel : channel[n].kind \in {"changed", "scanFinished"}

NoEnd == Lacks(inputs, "scanFinished") /\ Lacks(channel, "scanFinished")

(* A scan is one of: asked for, running, or ended and to be reported.      *)
OneScan ==
  /\ ~sync.scanning => Lacks(sync.out, "startScan") /\ scanner.at = "none" /\ NoEnd
  /\ Lacks(sync.out, "startScan") \/ (scanner.at = "none" /\ NoEnd)
  /\ scanner.at = "walking" => NoEnd
  /\ scanner.at # "walking" => scanner.todo = NoWork
  /\ Single(sync.out, "startScan")
  /\ Single(inputs, "scanFinished") /\ Single(channel, "scanFinished")
  /\ Lacks(inputs, "scanFinished") \/ Lacks(channel, "scanFinished")

(* The watcher is tried again, after which everything is scanned.          *)
ToRetry(r) == sync.watch[r] \in Retrying \/ Has(inputs, "attachFailed", r)

(* An enabled folder is watched, or will be before it is scanned.          *)
Watched(r) ==
  folder[r] = "enabled" =>
    /\ sync.watch[r] # "none" /\ ~Has(sync.out, "detach", r)
    /\ Has(inputs, "attached", r) => r \in watchers
    /\ r \in watchers \/ ToRetry(r) \/ AttachedFirst(sync, r)

Told(r, d) ==
  \E n \in DOMAIN channel :
    channel[n].kind = "changed" /\ channel[n].root = r /\ d \in channel[n].dirs

Remembered(r, d) ==
  <<r, d>> \in changed \ excused /\ folder[r] = "enabled" =>
    Held(sync, r, d) \/ d \in scanner.todo[r] \/ Told(r, d) \/ ToRetry(r)

Memory ==
  /\ IInv /\ Folders(sync) /\ Queues /\ OneScan
  /\ DOMAIN folder = Roots
  /\ DOMAIN scanner = {"at", "todo", "broke"} /\ DOMAIN scanner.todo = Roots
  /\ \A r \in Roots : Watched(r)
  /\ \A r \in Roots : \A d \in Dirs[r] : Remembered(r, d)

-----------------------------------------------------------------------------
(* One input is taken from where it waited, or is a command or a tick.     *)

Taken(i) ==
  \/ inputs # <<>> /\ i = Head(inputs) /\ inputs' = Tail(inputs) /\ channel' = channel
  \/ /\ inputs = <<>> /\ channel # <<>> /\ i = Head(channel)
     /\ inputs' = inputs /\ channel' = Tail(channel)
  \/ /\ inputs = <<>> /\ inputs' = inputs /\ channel' = channel
     /\ ~(i.kind \in {"attached", "attachFailed", "gcFinished", "scanFinished", "changed"})

(* What a command changes besides.                                         *)
Commanded(i) ==
  /\ watchers' = watchers /\ DOMAIN folder' = Roots
  /\ i.kind = "scanRequested" => i.roots = Enabled
  /\ \A r \in Roots :
       /\ folder'[r] = "enabled" =>
            \/ folder[r] = "enabled" /\ ~(i.kind \in {"disabled", "removed"} /\ i.root = r)
            \/ i.kind = "enabled" /\ i.root = r
       /\ \A d : <<r, d>> \in changed' => <<r, d>> \in changed \/ (i.kind = "enabled" /\ i.root = r)

LEMMA TakenFrom ==
  ASSUME Queues, NEW i, Taken(i)
  PROVE  /\ Queues'
         /\ \A r : Has(inputs', "attached", r) => Has(inputs, "attached", r)
         /\ \A r : Has(inputs, "attachFailed", r) =>
              Has(inputs', "attachFailed", r) \/ (i.kind = "attachFailed" /\ i.root = r)
         /\ i.kind = "attached" => Has(inputs, "attached", i.root)
         /\ \A r, d : Told(r, d) =>
              Told(r, d)' \/ (i.kind = "changed" /\ i.root = r /\ d \in i.dirs)
<1>1. CASE inputs # <<>> /\ i = Head(inputs) /\ inputs' = Tail(inputs) /\ channel' = channel
  <2>1. PICK t : t = Tail(inputs)
    OBVIOUS
  <2>2. /\ IsSeq(t) /\ 1 \in DOMAIN inputs /\ i = inputs[1]
        /\ \A n \in DOMAIN t : n + 1 \in DOMAIN inputs /\ t[n] = inputs[n + 1]
    <3>1. PICK l : l = Len(inputs)
      OBVIOUS
    <3>2. /\ IsSeq(t) /\ l \in Nat \ {0} /\ DOMAIN inputs = 1..l /\ DOMAIN t = 1..(l - 1)
          /\ Head(inputs) = inputs[1] /\ \A n \in DOMAIN t : t[n] = inputs[n + 1]
      BY <1>1, <2>1, <3>1, ShortenedAt DEF Queues
    <3>3. QED
      BY <1>1, <3>2
  <2>3. Queues'
    BY <1>1, <2>1, <2>2 DEF Queues
  <2>4. /\ \A r : Has(inputs, "attached", r) <=>
                  Has(Tail(inputs), "attached", r)
                  \/ (Head(inputs).kind = "attached" /\ Head(inputs).root = r)
    BY ONLY <1>1, Queues, ShortenedHas DEF Queues
  <2>5. /\ \A r : Has(inputs, "attachFailed", r) <=>
                  Has(Tail(inputs), "attachFailed", r)
                  \/ (Head(inputs).kind = "attachFailed" /\ Head(inputs).root = r)
    BY ONLY <1>1, Queues, ShortenedHas DEF Queues
  <2>6. \A r, d : Told(r, d) => Told(r, d)'
    BY <1>1 DEF Told
  <2>7. i.kind = "attached" => Has(inputs, "attached", i.root)
    BY <2>2 DEF Has
  <2>8. QED
    BY ONLY <1>1, <2>3, <2>4, <2>5, <2>6, <2>7
<1>2. CASE /\ inputs = <<>> /\ channel # <<>> /\ i = Head(channel)
           /\ inputs' = inputs /\ channel' = Tail(channel)
  <2>1. PICK t : t = Tail(channel)
    OBVIOUS
  <2>2. PICK l : l = Len(channel)
    OBVIOUS
  <2>3. /\ IsSeq(t) /\ l \in Nat \ {0} /\ DOMAIN channel = 1..l /\ DOMAIN t = 1..(l - 1)
        /\ Head(channel) = channel[1] /\ \A n \in DOMAIN t : t[n] = channel[n + 1]
    BY <1>2, <2>1, <2>2, ShortenedAt DEF Queues
  <2>4. /\ 1 \in DOMAIN channel /\ i = channel[1]
        /\ \A n \in DOMAIN t : n + 1 \in DOMAIN channel /\ t[n] = channel[n + 1]
    BY <1>2, <2>3
  <2>5. Queues'
    BY <1>2, <2>1, <2>3, <2>4 DEF Queues
  <2>6. i.kind # "attached"
    BY <2>4 DEF Queues
  <2>7. \A n \in DOMAIN channel : n = 1 \/ (n - 1 \in DOMAIN t /\ channel[n] = t[n - 1])
    <3>1. ASSUME NEW n \in DOMAIN channel, n # 1
          PROVE  n - 1 \in DOMAIN t /\ channel[n] = t[n - 1]
      <4>1. n - 1 \in DOMAIN t /\ n - 1 + 1 = n
        BY <2>3, <3>1
      <4>2. t[n - 1] = channel[n - 1 + 1]
        BY <2>3, <4>1
      <4>3. QED
        BY <4>1, <4>2
    <3>2. QED
      BY <3>1
  <2>8. ASSUME NEW r, NEW d, Told(r, d)
        PROVE  Told(r, d)' \/ (i.kind = "changed" /\ i.root = r /\ d \in i.dirs)
    <3>1. PICK n \in DOMAIN channel :
            channel[n].kind = "changed" /\ channel[n].root = r /\ d \in channel[n].dirs
      BY <2>8 DEF Told
    <3>2. CASE n = 1
      BY <2>4, <3>1, <3>2
    <3>3. CASE n - 1 \in DOMAIN t /\ channel[n] = t[n - 1]
      BY <1>2, <2>1, <3>1, <3>3 DEF Told
    <3>4. QED
      BY <2>7, <3>2, <3>3
  <2>9. QED
    BY <1>2, <2>5, <2>6, <2>8
<1>3. CASE /\ inputs = <<>> /\ inputs' = inputs /\ channel' = channel
           /\ ~(i.kind \in {"attached", "attachFailed", "gcFinished", "scanFinished", "changed"})
  BY <1>3 DEF Queues, Told
<1>4. QED
  BY <1>1, <1>2, <1>3 DEF Taken

(* The end of a scan is there once, and then the scanner has nothing left. *)
LEMMA EndTaken ==
  ASSUME Queues, OneScan, NEW i, Taken(i)
  PROVE  /\ NoEnd => NoEnd' /\ i.kind # "scanFinished"
         /\ i.kind = "scanFinished" => NoEnd' /\ scanner.at # "walking"
         /\ Single(inputs', "scanFinished") /\ Single(channel', "scanFinished")
         /\ Lacks(inputs', "scanFinished") \/ Lacks(channel', "scanFinished")
<1>1. CASE inputs # <<>> /\ i = Head(inputs) /\ inputs' = Tail(inputs) /\ channel' = channel
  <2>1. /\ Lacks(inputs, "scanFinished") <=>
             Lacks(Tail(inputs), "scanFinished") /\ Head(inputs).kind # "scanFinished"
        /\ Single(inputs, "scanFinished") =>
             /\ Single(Tail(inputs), "scanFinished")
             /\ Head(inputs).kind = "scanFinished" => Lacks(Tail(inputs), "scanFinished")
    BY ONLY <1>1, Queues, ShortenedHas DEF Queues
  <2>2. QED
    BY <1>1, <2>1 DEF OneScan, NoEnd
<1>2. CASE /\ inputs = <<>> /\ channel # <<>> /\ i = Head(channel)
           /\ inputs' = inputs /\ channel' = Tail(channel)
  <2>1. /\ Lacks(channel, "scanFinished") <=>
             Lacks(Tail(channel), "scanFinished") /\ Head(channel).kind # "scanFinished"
        /\ Single(channel, "scanFinished") =>
             /\ Single(Tail(channel), "scanFinished")
             /\ Head(channel).kind = "scanFinished" => Lacks(Tail(channel), "scanFinished")
    BY ONLY <1>2, Queues, ShortenedHas DEF Queues
  <2>2. QED
    BY <1>2, <2>1 DEF OneScan, NoEnd
<1>3. CASE /\ inputs = <<>> /\ inputs' = inputs /\ channel' = channel
           /\ ~(i.kind \in {"attached", "attachFailed", "gcFinished", "scanFinished", "changed"})
  BY <1>3 DEF OneScan, NoEnd
<1>4. QED
  BY <1>1, <1>2, <1>3 DEF Taken

(* An input is stepped: nothing held is let go of but what is given up.    *)
LEMMA FeedHolds ==
  ASSUME Memory, sync.out = <<>>, NEW i, Feed(i), Taken(i), Commanded(i)
  PROVE  Memory'
<1>1. PICK h : h = Handled(sync, i)
  OBVIOUS
<1>2. PICK a : a = Advance(h)
  OBVIOUS
<1>3. /\ State(h) /\ Lacks(h.out, "runGc") /\ (h.scanning \/ Lacks(h.out, "startScan"))
      /\ sync.scanning => h.scanning \/ i.kind = "scanFinished"
  BY <1>1, HandledKeepsApart DEF Memory, IInv
<1>4. Handles(sync, i, h)
  BY <1>1, HandledHolds DEF Memory, IInv
<1>5. Advances(h, a)
  <2>1. Folders(h) /\ Single(h.out, "startScan")
    BY <1>4 DEF Handles
  <2>2. Advances(h, Advance(h))
    BY ONLY <1>3, <2>1, AdvanceHolds
  <2>3. QED
    BY <1>2, <2>2
<1>6. sync' = a
  BY <1>1, <1>2 DEF Feed
<1>7. /\ scanner' = IF i.kind = "scanFinished" THEN NoScanner ELSE scanner
      /\ \A r \in Roots : \A d : <<r, d>> \in excused => <<r, d>> \in excused'
      /\ i.kind = "cancelRequested" \/ (i.kind = "scanFinished" /\ i.outcome = "cancelled") =>
           \A r \in Roots : \A d \in sync.dirty[r] : <<r, d>> \in excused'
  <2>1. ASSUME NEW r \in Roots, NEW d \in sync.dirty[r]
        PROVE  <<r, d>> \in Places(sync.dirty)
    BY DEF Places
  <2>2. QED
    BY <2>1 DEF Feed
<1>8. IInv'
  BY FeedStep DEF Memory
<1>9. Folders(sync)'
  BY <1>5, <1>6 DEF Advances, Folders
<1>10. Queues'
  BY TakenFrom DEF Memory
<1>11. /\ NoEnd => NoEnd' /\ i.kind # "scanFinished"
       /\ i.kind = "scanFinished" => NoEnd' /\ scanner.at # "walking"
       /\ Single(inputs', "scanFinished") /\ Single(channel', "scanFinished")
       /\ Lacks(inputs', "scanFinished") \/ Lacks(channel', "scanFinished")
  BY EndTaken DEF Memory
<1>12. OneScan'
  <2>1. NoScanner.at = "none" /\ NoScanner.todo = NoWork
    BY DEF NoScanner
  <2>2. ~sync'.scanning => Lacks(sync'.out, "startScan")
    BY <1>5, <1>6 DEF Advances
  <2>3. Lacks(sync'.out, "startScan") \/ ~sync.scanning \/ i.kind = "scanFinished"
    BY <1>3, <1>4, <1>5, <1>6 DEF Advances, Handles
  <2>4. sync'.scanning \/ ~sync.scanning \/ i.kind = "scanFinished"
    BY <1>3, <1>5, <1>6 DEF Advances
  <2>5. ~sync.scanning \/ i.kind = "scanFinished" => scanner'.at = "none" /\ NoEnd'
    BY <1>7, <1>11, <2>1 DEF Memory, OneScan
  <2>6. scanner'.at = "walking" => NoEnd'
    BY <1>7, <1>11, <2>1 DEF Memory, OneScan
  <2>7. scanner'.at # "walking" => scanner'.todo = NoWork
    BY <1>7, <2>1 DEF Memory, OneScan
  <2>8. Single(sync'.out, "startScan")
    BY <1>5, <1>6 DEF Advances
  <2>9. QED
    BY ONLY <1>11, <2>2, <2>3, <2>4, <2>5, <2>6, <2>7, <2>8 DEF OneScan
<1>13. DOMAIN scanner' = {"at", "todo", "broke"} /\ DOMAIN scanner'.todo = Roots
  BY <1>7 DEF Memory, NoScanner, NoWork
<1>14. ASSUME NEW r \in Roots
       PROVE  /\ sync'.watch[r] = IF h.watch[r] = "retryDue" THEN "retrying" ELSE h.watch[r]
              /\ Has(sync'.out, "detach", r) => Has(h.out, "detach", r)
              /\ \A d : Held(h, r, d) => Held(sync, r, d)'
              /\ Begun(h, r) => AttachedFirst(sync, r)'
              /\ HandlesAt(sync, i, h, r)
  BY <1>4, <1>5, <1>6 DEF Advances, Handles, Held, Asked, Pending, AttachedFirst
<1>15. ASSUME NEW r \in Roots, i.kind = "enabled", i.root = r
       PROVE  /\ sync'.watch[r] # "none" /\ ~Has(sync'.out, "detach", r)
              /\ AttachedFirst(sync, r)'
              /\ \A d \in Dirs[r] : Held(sync, r, d)'
  <2>1. Begun(h, r) /\ h.watch[r] # "none" /\ ~Has(h.out, "detach", r)
    BY <1>14, <1>15 DEF HandlesAt
  <2>2. \A d \in Dirs[r] : Held(h, r, d)
    BY <2>1 DEF Begun, Held
  <2>3. QED
    BY <1>14, <2>1, <2>2
<1>16. ASSUME NEW r \in Roots, folder[r] = "enabled", i.kind = "attached", i.root = r
       PROVE  r \in watchers
  BY <1>16, TakenFrom DEF Memory, Watched
<1>17. ASSUME NEW r \in Roots, ToRetry(r), folder[r] = "enabled",
              ~(i.kind \in {"enabled", "disabled", "removed"} /\ i.root = r)
       PROVE  ToRetry(r)' \/ (i.kind = "attached" /\ i.root = r /\ sync.watch[r] \in Retrying)
  <2>1. sync.watch[r] # "none"
    BY <1>17 DEF Memory, Watched
  <2>2. h.watch[r] \in Retrying => sync'.watch[r] \in Retrying
    BY <1>14 DEF Retrying
  <2>3. CASE Has(inputs', "attachFailed", r)
    BY <2>3 DEF ToRetry
  <2>4. CASE i.kind = "attachFailed" /\ i.root = r
    BY <1>14, <2>1, <2>2, <2>4 DEF HandlesAt, ToRetry
  <2>5. CASE sync.watch[r] \in Retrying
    BY <1>14, <1>17, <2>2, <2>5 DEF HandlesAt, ToRetry
  <2>6. QED
    BY <1>17, <2>3, <2>4, <2>5, TakenFrom DEF ToRetry, Memory
<1>18. ASSUME NEW r \in Roots, folder'[r] = "enabled", ~(i.kind = "enabled" /\ i.root = r)
       PROVE  folder[r] = "enabled" /\ ~(i.kind \in {"disabled", "removed"} /\ i.root = r)
  BY <1>18 DEF Commanded
<1>19. ASSUME NEW r \in Roots, folder'[r] = "enabled"
       PROVE  Watched(r)'
  <2>1. CASE i.kind = "enabled" /\ i.root = r
    <3>1. ~Has(inputs', "attached", r)
      <4>1. inputs' = <<>> \/ i.kind \in {"attached", "attachFailed", "gcFinished", "scanFinished"}
        BY DEF Taken, Memory, Queues, IsSeq
      <4>2. QED
        BY <2>1, <4>1 DEF Has
    <3>2. QED
      BY <1>15, <2>1, <3>1 DEF Watched
  <2>2. CASE ~(i.kind = "enabled" /\ i.root = r)
    <3>1. folder[r] = "enabled" /\ ~(i.kind \in {"disabled", "removed"} /\ i.root = r)
      BY <1>18, <1>19, <2>2
    <3>2. /\ sync.watch[r] # "none"
          /\ Has(inputs, "attached", r) => r \in watchers
          /\ r \in watchers \/ ToRetry(r)
      BY <3>1 DEF Memory, Watched, AttachedFirst
    <3>3. sync'.watch[r] # "none"
      BY <1>14, <3>1, <3>2 DEF HandlesAt
    <3>4. ~Has(sync'.out, "detach", r)
      BY <1>14, <3>1, <3>2 DEF HandlesAt
    <3>5. Has(inputs', "attached", r) => r \in watchers'
      BY <3>2, TakenFrom DEF Memory, Commanded
    <3>6. r \in watchers' \/ ToRetry(r)'
      BY <1>16, <1>17, <2>2, <3>1, <3>2 DEF Commanded
    <3>7. QED
      BY <3>3, <3>4, <3>5, <3>6 DEF Watched
  <2>3. QED
    BY <2>1, <2>2
<1>20. ASSUME NEW r \in Roots, NEW d \in Dirs[r],
              <<r, d>> \in changed' \ excused', folder'[r] = "enabled"
       PROVE  Held(sync, r, d)' \/ d \in scanner'.todo[r] \/ Told(r, d)' \/ ToRetry(r)'
  <2>1. CASE i.kind = "enabled" /\ i.root = r
    BY <1>15, <2>1
  <2>2. CASE ~(i.kind = "enabled" /\ i.root = r)
    <3>1. folder[r] = "enabled" /\ ~(i.kind \in {"disabled", "removed"} /\ i.root = r)
      BY <1>18, <1>20, <2>2
    <3>2. <<r, d>> \in changed \ excused
      BY <1>7, <1>20, <2>2 DEF Commanded
    <3>3. Held(sync, r, d) \/ d \in scanner.todo[r] \/ Told(r, d) \/ ToRetry(r)
      BY <3>1, <3>2 DEF Memory, Remembered
    <3>4. CASE Held(sync, r, d)
      <4>1. Pending(sync, r, d) /\ d \in sync.dirty[r]
        BY <3>4 DEF Held, Asked, Pending
      <4>2. ~LetsGo(i, r)
        BY <1>7, <1>20, <3>1, <4>1 DEF LetsGo, Commanded, Enabled
      <4>3. QED
        BY <1>14, <4>1, <4>2 DEF HandlesAt
    <3>5. CASE d \in scanner.todo[r]
      BY <1>7, <1>11, <3>5 DEF Memory, OneScan, NoWork
    <3>6. CASE Told(r, d)
      <4>1. CASE Told(r, d)'
        BY <4>1
      <4>2. CASE i.kind = "changed" /\ i.root = r /\ d \in i.dirs
        <5>1. sync.watch[r] # "none"
          BY <3>1 DEF Memory, Watched
        <5>2. Pending(h, r, d)
          BY <1>14, <4>2, <5>1 DEF HandlesAt
        <5>3. QED
          BY <1>14, <5>2 DEF Held
      <4>3. QED
        BY <3>6, <4>1, <4>2, TakenFrom DEF Memory
    <3>7. CASE ToRetry(r)
      <4>1. CASE i.kind = "attached" /\ i.root = r /\ sync.watch[r] \in Retrying
        <5>1. Pending(h, r, d)
          BY <1>14, <4>1 DEF HandlesAt
        <5>2. QED
          BY <1>14, <5>1 DEF Held
      <4>2. QED
        BY <1>17, <2>2, <3>1, <3>7, <4>1
    <3>8. QED
      BY <3>3, <3>4, <3>5, <3>6, <3>7
  <2>3. QED
    BY <2>1, <2>2
<1>21. \A r \in Roots : Watched(r)'
  BY <1>19 DEF Watched
<1>22. \A r \in Roots : \A d \in Dirs[r] : Remembered(r, d)'
  BY <1>20 DEF Remembered
<1>23. QED
  BY <1>8, <1>9, <1>10, <1>12, <1>13, <1>21, <1>22 DEF Memory, Commanded

-----------------------------------------------------------------------------
(* An effect is carried out.                                               *)

(* The effects that are left, from where they were.                        *)
LEMMA LeftOver ==
  ASSUME State(sync), sync.out # <<>>, sync' = [sync EXCEPT !.out = Tail(@)]
  PROVE  /\ DOMAIN sync' = DOMAIN sync
         /\ sync'.dirty = sync.dirty /\ sync'.debounce = sync.debounce
         /\ sync'.scanning = sync.scanning /\ sync'.watch = sync.watch
         /\ \A r, d : Pending(sync, r, d) => Pending(sync, r, d)'
         /\ \A r, d : Asked(sync, r, d) =>
              \/ Asked(sync, r, d)'
              \/ Head(sync.out).kind = "startScan" /\ d \in Head(sync.out).targets[r]
         /\ \A r : Has(sync'.out, "detach", r) => Has(sync.out, "detach", r)
         /\ \A r : Head(sync.out).kind = "detach" /\ Head(sync.out).root = r =>
              Has(sync.out, "detach", r)
         /\ Lacks(sync.out, "startScan") <=>
              Lacks(sync'.out, "startScan") /\ Head(sync.out).kind # "startScan"
         /\ Single(sync.out, "startScan") =>
              /\ Single(sync'.out, "startScan")
              /\ Head(sync.out).kind = "startScan" => Lacks(sync'.out, "startScan")
         /\ \A r \in Roots : AttachedFirst(sync, r) =>
              \/ AttachedFirst(sync, r)'
              \/ Head(sync.out).kind = "attach" /\ Head(sync.out).root = r
<1>1. PICK q : q = sync.out
  OBVIOUS
<1>2. PICK t : t = Tail(q)
  OBVIOUS
<1>3. PICK l : l = Len(q)
  OBVIOUS
<1>4. /\ DOMAIN sync' = DOMAIN sync
      /\ sync'.dirty = sync.dirty /\ sync'.debounce = sync.debounce
      /\ sync'.scanning = sync.scanning /\ sync'.watch = sync.watch /\ sync'.out = t
  BY <1>1, <1>2 DEF State
<1>5. /\ l \in Nat \ {0} /\ DOMAIN q = 1..l /\ DOMAIN t = 1..(l - 1) /\ Head(q) = q[1]
      /\ \A n \in DOMAIN t : t[n] = q[n + 1]
  BY <1>1, <1>2, <1>3, ShortenedAt DEF State
<1>6. \A n \in DOMAIN q : n = 1 \/ (n - 1 \in DOMAIN t /\ q[n] = t[n - 1])
  <2>1. ASSUME NEW n \in DOMAIN q, n # 1
        PROVE  n - 1 \in DOMAIN t /\ q[n] = t[n - 1]
    <3>1. n - 1 \in DOMAIN t /\ n - 1 + 1 = n
      BY <1>5, <2>1
    <3>2. t[n - 1] = q[n - 1 + 1]
      BY <1>5, <3>1
    <3>3. QED
      BY <3>1, <3>2
  <2>2. QED
    BY <2>1
<1>7. \A r, d : Pending(sync, r, d) => Pending(sync, r, d)'
  BY <1>4 DEF Pending
<1>8. ASSUME NEW r, NEW d, Asked(sync, r, d)
      PROVE  Asked(sync, r, d)' \/ (Head(q).kind = "startScan" /\ d \in Head(q).targets[r])
  <2>1. PICK n \in DOMAIN q : q[n].kind = "startScan" /\ d \in q[n].targets[r]
    BY <1>1, <1>8 DEF Asked
  <2>2. CASE n = 1
    BY <1>5, <2>1, <2>2
  <2>3. CASE n - 1 \in DOMAIN t /\ q[n] = t[n - 1]
    BY <1>4, <2>1, <2>3 DEF Asked
  <2>4. QED
    BY <1>6, <2>2, <2>3
<1>9. \A r : Has(q, "detach", r) <=>
        Has(Tail(q), "detach", r) \/ (Head(q).kind = "detach" /\ Head(q).root = r)
  BY ONLY <1>1, ShortenedHas, State(sync), sync.out # <<>> DEF State
<1>10. /\ Lacks(q, "startScan") <=> Lacks(Tail(q), "startScan") /\ Head(q).kind # "startScan"
       /\ Single(q, "startScan") =>
            Single(Tail(q), "startScan")
            /\ (Head(q).kind = "startScan" => Lacks(Tail(q), "startScan"))
  BY ONLY <1>1, ShortenedHas, State(sync), sync.out # <<>> DEF State
<1>11. ASSUME NEW r \in Roots, AttachedFirst(sync, r)
       PROVE  AttachedFirst(sync, r)' \/ (Head(q).kind = "attach" /\ Head(q).root = r)
  <2>1. PICK n \in DOMAIN q :
          /\ q[n].kind = "attach" /\ q[n].root = r
          /\ \A d \in Dirs[r] :
               \/ Pending(sync, r, d)
               \/ \E m \in DOMAIN q :
                    n <= m /\ q[m].kind = "startScan" /\ d \in q[m].targets[r]
    BY <1>1, <1>11 DEF AttachedFirst
  <2>2. CASE n = 1
    BY <1>5, <2>1, <2>2
  <2>3. CASE n # 1
    <3>1. PICK k : k = n - 1
      OBVIOUS
    <3>2. k \in DOMAIN t /\ t[k] = q[n]
      BY <1>6, <2>3, <3>1
    <3>3. ASSUME NEW d \in Dirs[r], ~Pending(sync, r, d)'
          PROVE  \E m \in DOMAIN t : k <= m /\ t[m].kind = "startScan" /\ d \in t[m].targets[r]
      <4>1. PICK m \in DOMAIN q : n <= m /\ q[m].kind = "startScan" /\ d \in q[m].targets[r]
        BY <1>7, <2>1, <3>3
      <4>2. n \in 1..l /\ m \in 1..l /\ m # 1 /\ n - 1 <= m - 1
        BY <1>5, <2>3, <4>1
      <4>3. PICK j : j = m - 1
        OBVIOUS
      <4>4. j \in DOMAIN t /\ t[j] = q[m] /\ k <= j
        BY <1>6, <3>1, <4>2, <4>3
      <4>5. QED
        BY <4>1, <4>4
    <3>4. /\ k \in DOMAIN sync'.out /\ sync'.out[k].kind = "attach" /\ sync'.out[k].root = r
          /\ \A d \in Dirs[r] :
               \/ Pending(sync, r, d)'
               \/ \E m \in DOMAIN sync'.out :
                    k <= m /\ sync'.out[m].kind = "startScan" /\ d \in sync'.out[m].targets[r]
      BY <1>4, <2>1, <3>2, <3>3
    <3>5. QED
      BY <3>4 DEF AttachedFirst
  <2>4. QED
    BY <2>2, <2>3
<1>12. \A r : Has(sync'.out, "detach", r) => Has(sync.out, "detach", r)
  BY ONLY <1>1, <1>2, <1>4, <1>9
<1>13. \A r : Head(sync.out).kind = "detach" /\ Head(sync.out).root = r =>
         Has(sync.out, "detach", r)
  BY ONLY <1>1, <1>9
<1>14. /\ Lacks(sync.out, "startScan") <=>
            Lacks(sync'.out, "startScan") /\ Head(sync.out).kind # "startScan"
       /\ Single(sync.out, "startScan") =>
            /\ Single(sync'.out, "startScan")
            /\ Head(sync.out).kind = "startScan" => Lacks(sync'.out, "startScan")
  BY ONLY <1>1, <1>2, <1>4, <1>10
<1>15. \A r, d : Asked(sync, r, d) =>
         \/ Asked(sync, r, d)'
         \/ Head(sync.out).kind = "startScan" /\ d \in Head(sync.out).targets[r]
  BY ONLY <1>1, <1>8
<1>16. \A r \in Roots : AttachedFirst(sync, r) =>
         \/ AttachedFirst(sync, r)'
         \/ Head(sync.out).kind = "attach" /\ Head(sync.out).root = r
  BY ONLY <1>1, <1>11
<1>17. QED
  BY <1>4, <1>7, <1>12, <1>13, <1>14, <1>15, <1>16

(* What an effect adds to the inputs.                                      *)
LEMMA InputsGrow ==
  ASSUME Queues, NEW e, inputs' = Append(inputs, e), channel' = channel,
         e.kind \in {"attached", "attachFailed", "gcFinished", "scanFinished"},
         e.kind = "attachFailed" => e = [kind |-> "attachFailed", root |-> e.root]
  PROVE  /\ Queues'
         /\ \A r : Has(inputs', "attached", r) <=>
                   Has(inputs, "attached", r) \/ (e.kind = "attached" /\ e.root = r)
         /\ \A r : Has(inputs', "attachFailed", r) <=>
                   Has(inputs, "attachFailed", r) \/ (e.kind = "attachFailed" /\ e.root = r)
         /\ Lacks(inputs', "scanFinished") <=>
              Lacks(inputs, "scanFinished") /\ e.kind # "scanFinished"
         /\ Single(inputs, "scanFinished")
              /\ (Lacks(inputs, "scanFinished") \/ e.kind # "scanFinished")
              => Single(inputs', "scanFinished")
<1>1. PICK a : a = Append(inputs, e)
  OBVIOUS
<1>2. /\ \A r : Has(Append(inputs, e), "attached", r) <=>
                Has(inputs, "attached", r) \/ (e.kind = "attached" /\ e.root = r)
      /\ Lacks(Append(inputs, e), "scanFinished") <=>
           Lacks(inputs, "scanFinished") /\ e.kind # "scanFinished"
      /\ Single(inputs, "scanFinished")
           /\ (Lacks(inputs, "scanFinished") \/ e.kind # "scanFinished")
           => Single(Append(inputs, e), "scanFinished")
  <2>1. \A r : Has(Append(inputs, e), "attached", r) <=>
                Has(inputs, "attached", r) \/ (e.kind = "attached" /\ e.root = r)
    BY ONLY Queues, AppendedHas DEF Queues
  <2>2. Lacks(Append(inputs, e), "scanFinished") <=>
           Lacks(inputs, "scanFinished") /\ e.kind # "scanFinished"
    BY ONLY Queues, AppendedHas DEF Queues
  <2>3. Single(inputs, "scanFinished") /\ (Lacks(inputs, "scanFinished") \/ e.kind # "scanFinished")
           => Single(Append(inputs, e), "scanFinished")
    BY ONLY Queues, AppendedHas DEF Queues
  <2>4. QED
    BY ONLY <2>1, <2>2, <2>3
<1>3. \A r : Has(Append(inputs, e), "attachFailed", r) <=>
             Has(inputs, "attachFailed", r) \/ (e.kind = "attachFailed" /\ e.root = r)
  BY ONLY Queues, AppendedHas DEF Queues
<1>4. PICK l : l = Len(inputs)
  OBVIOUS
<1>5. /\ IsSeq(a) /\ l \in Nat /\ DOMAIN inputs = 1..l /\ DOMAIN a = 1..(l + 1)
      /\ \A n \in DOMAIN inputs : a[n] = inputs[n]
      /\ a[l + 1] = e
  BY <1>1, <1>4, AppendedAt DEF Queues
<1>6. \A n \in DOMAIN a : n \in DOMAIN inputs \/ n = l + 1
  BY <1>5
<1>7. Queues'
  BY <1>1, <1>5, <1>6 DEF Queues
<1>8. QED
  BY ONLY <1>2, <1>3, <1>7, inputs' = Append(inputs, e)

LEMMA ExecuteHolds ==
  ASSUME Memory, Execute
  PROVE  Memory'
<1>1. PICK e : e = Head(sync.out)
  OBVIOUS
<1>2. State(sync) /\ sync.out # <<>> /\ sync' = [sync EXCEPT !.out = Tail(@)]
  BY DEF Memory, IInv, Execute
<1>3. /\ sync'.scanning = sync.scanning /\ sync'.watch = sync.watch /\ sync'.dirty = sync.dirty
      /\ \A r, d : Held(sync, r, d) =>
           Held(sync, r, d)' \/ (e.kind = "startScan" /\ d \in e.targets[r])
      /\ \A r : Has(sync'.out, "detach", r) => Has(sync.out, "detach", r)
      /\ \A r : e.kind = "detach" /\ e.root = r => Has(sync.out, "detach", r)
      /\ Lacks(sync.out, "startScan") <=> Lacks(sync'.out, "startScan") /\ e.kind # "startScan"
      /\ Single(sync'.out, "startScan")
      /\ e.kind = "startScan" => Lacks(sync'.out, "startScan")
      /\ \A r \in Roots : AttachedFirst(sync, r) =>
           AttachedFirst(sync, r)' \/ (e.kind = "attach" /\ e.root = r)
  BY <1>1, <1>2, LeftOver DEF Held, Memory, OneScan
<1>4. /\ channel' = channel /\ folder' = folder /\ changed' = changed
      /\ \A r, d : Told(r, d) => Told(r, d)'
  BY DEF Execute, Told
<1>5. IInv' /\ Folders(sync)'
  BY <1>3, ExecuteStep DEF Memory, Folders
<1>6. CASE /\ e.kind # "startScan" /\ scanner' = scanner /\ excused' = excused
           /\ Queues' /\ (NoEnd => NoEnd')
           /\ Lacks(inputs, "scanFinished") => Lacks(inputs', "scanFinished")
           /\ Single(inputs', "scanFinished")
           /\ \A r : Has(inputs, "attachFailed", r) => Has(inputs', "attachFailed", r)
           /\ \A r \in Roots : folder[r] = "enabled" =>
                /\ r \in watchers => r \in watchers'
                /\ Has(inputs', "attached", r) => Has(inputs, "attached", r) \/ r \in watchers'
                /\ e.kind = "attach" /\ e.root = r =>
                     r \in watchers' \/ Has(inputs', "attachFailed", r)
  <2>1. OneScan'
    <3>1. ~sync'.scanning => Lacks(sync'.out, "startScan") /\ scanner'.at = "none" /\ NoEnd'
      BY <1>3, <1>6 DEF Memory, OneScan
    <3>2. Lacks(sync'.out, "startScan") \/ (scanner'.at = "none" /\ NoEnd')
      BY <1>3, <1>6 DEF Memory, OneScan
    <3>3. /\ scanner'.at = "walking" => NoEnd'
          /\ scanner'.at # "walking" => scanner'.todo = NoWork
          /\ Single(channel', "scanFinished")
          /\ Lacks(inputs', "scanFinished") \/ Lacks(channel', "scanFinished")
      BY <1>4, <1>6 DEF Memory, OneScan
    <3>4. QED
      BY ONLY <1>3, <1>6, <3>1, <3>2, <3>3 DEF OneScan
  <2>2. ASSUME NEW r \in Roots, folder'[r] = "enabled"
        PROVE  Watched(r)'
    <3>1. /\ sync.watch[r] # "none" /\ ~Has(sync.out, "detach", r)
          /\ Has(inputs, "attached", r) => r \in watchers
          /\ r \in watchers \/ ToRetry(r) \/ AttachedFirst(sync, r)
      BY <1>4, <2>2 DEF Memory, Watched
    <3>2. sync'.watch[r] # "none" /\ ~Has(sync'.out, "detach", r)
      BY <1>3, <3>1
    <3>3. Has(inputs', "attached", r) => r \in watchers'
      BY <1>4, <1>6, <2>2, <3>1
    <3>4. ToRetry(r) => ToRetry(r)'
      BY <1>3, <1>6 DEF ToRetry
    <3>5. r \in watchers' \/ ToRetry(r)' \/ AttachedFirst(sync, r)'
      BY <1>3, <1>4, <1>6, <2>2, <3>1, <3>4 DEF ToRetry
    <3>6. QED
      BY <3>2, <3>3, <3>5 DEF Watched
  <2>3. ASSUME NEW r \in Roots, NEW d \in Dirs[r],
               <<r, d>> \in changed' \ excused', folder'[r] = "enabled"
        PROVE  Held(sync, r, d)' \/ d \in scanner'.todo[r] \/ Told(r, d)' \/ ToRetry(r)'
    <3>1. Held(sync, r, d) \/ d \in scanner.todo[r] \/ Told(r, d) \/ ToRetry(r)
      BY <1>4, <1>6, <2>3 DEF Memory, Remembered
    <3>2. ToRetry(r) => ToRetry(r)'
      BY <1>3, <1>6 DEF ToRetry
    <3>3. Held(sync, r, d) => Held(sync, r, d)'
      BY <1>3, <1>6
    <3>4. QED
      BY <1>4, <1>6, <3>1, <3>2, <3>3
  <2>4. \A r \in Roots : Watched(r)'
    BY <2>2 DEF Watched
  <2>5. \A r \in Roots : \A d \in Dirs[r] : Remembered(r, d)'
    BY <2>3 DEF Remembered
  <2>6. QED
    BY <1>4, <1>5, <1>6, <2>1, <2>4, <2>5 DEF Memory
<1>7. CASE e.kind = "attach" /\ Attach(e.root)
  <2>1. PICK ok \in {TRUE, FALSE} :
          /\ watchers' = IF ok THEN watchers \cup {e.root} ELSE watchers
          /\ inputs' = Append(inputs, [kind |-> IF ok THEN "attached" ELSE "attachFailed",
                                       root |-> e.root])
          /\ scanner' = scanner /\ excused' = excused
    BY <1>7 DEF Attach
  <2>2. PICK i : i = [kind |-> IF ok THEN "attached" ELSE "attachFailed", root |-> e.root]
    OBVIOUS
  <2>3. /\ i.kind = (IF ok THEN "attached" ELSE "attachFailed") /\ i.root = e.root
        /\ i.kind = "attachFailed" => i = [kind |-> "attachFailed", root |-> i.root]
        /\ i.kind \in {"attached", "attachFailed", "gcFinished", "scanFinished"}
        /\ i.kind # "scanFinished"
    BY <2>2
  <2>4. inputs' = Append(inputs, i)
    BY <2>1, <2>2
  <2>5. /\ Queues'
        /\ \A r : Has(inputs', "attached", r) <=>
                  Has(inputs, "attached", r) \/ (i.kind = "attached" /\ i.root = r)
        /\ \A r : Has(inputs', "attachFailed", r) <=>
                  Has(inputs, "attachFailed", r) \/ (i.kind = "attachFailed" /\ i.root = r)
        /\ Lacks(inputs', "scanFinished") <=>
             Lacks(inputs, "scanFinished") /\ i.kind # "scanFinished"
        /\ Single(inputs, "scanFinished")
             /\ (Lacks(inputs, "scanFinished") \/ i.kind # "scanFinished")
              => Single(inputs', "scanFinished")
    BY <1>4, <2>3, <2>4, InputsGrow DEF Memory
  <2>6. QED
    BY <1>4, <1>6, <1>7, <2>1, <2>3, <2>5 DEF NoEnd, Memory, OneScan
<1>8. CASE e.kind = "detach" /\ Detach(e.root)
  <2>1. /\ watchers' = watchers \ {e.root} /\ inputs' = inputs /\ scanner' = scanner
        /\ excused' = excused
    BY <1>8 DEF Detach
  <2>2. \A r \in Roots : folder[r] = "enabled" => r # e.root
    BY <1>3, <1>8 DEF Memory, Watched
  <2>3. Queues'
    BY <1>4, <2>1 DEF Memory, Queues
  <2>4. QED
    BY <1>4, <1>6, <1>8, <2>1, <2>2, <2>3 DEF NoEnd, Memory, OneScan
<1>9. CASE e.kind = "runGc" /\ RunGc
  <2>1. PICK i : /\ i.kind = "gcFinished" /\ inputs' = Append(inputs, i) /\ watchers' = watchers
                 /\ scanner' = scanner /\ excused' = excused
    BY <1>9 DEF RunGc
  <2>2. /\ i.kind = "attachFailed" => i = [kind |-> "attachFailed", root |-> i.root]
        /\ i.kind \in {"attached", "attachFailed", "gcFinished", "scanFinished"}
        /\ i.kind # "scanFinished" /\ i.kind # "attached"
    BY <2>1
  <2>3. inputs' = Append(inputs, i)
    BY <2>1
  <2>4. /\ Queues'
        /\ \A r : Has(inputs', "attached", r) <=>
                  Has(inputs, "attached", r) \/ (i.kind = "attached" /\ i.root = r)
        /\ \A r : Has(inputs', "attachFailed", r) <=>
                  Has(inputs, "attachFailed", r) \/ (i.kind = "attachFailed" /\ i.root = r)
        /\ Lacks(inputs', "scanFinished") <=>
             Lacks(inputs, "scanFinished") /\ i.kind # "scanFinished"
        /\ Single(inputs, "scanFinished")
             /\ (Lacks(inputs, "scanFinished") \/ i.kind # "scanFinished")
              => Single(inputs', "scanFinished")
    BY <1>4, <2>2, <2>3, InputsGrow DEF Memory
  <2>5. QED
    BY <1>4, <1>6, <1>9, <2>1, <2>2, <2>4 DEF NoEnd, Memory, OneScan
<1>10. CASE e.kind = "cancelScan" /\ CancelScan
  <2>1. watchers' = watchers /\ inputs' = inputs /\ scanner' = scanner /\ excused' = excused
    BY <1>10 DEF CancelScan
  <2>2. Queues'
    BY <1>4, <2>1 DEF Memory, Queues
  <2>3. QED
    BY <1>4, <1>6, <1>10, <2>1, <2>2 DEF NoEnd, Memory, OneScan
<1>11. CASE e.kind = "startScan" /\ StartScan(e.targets)
  <2>1. PICK readable \in {TRUE, FALSE} :
         LET jobs == [r \in Roots |-> IF readable /\ r \in Enabled THEN e.targets[r] ELSE {}]
         IN /\ IF jobs = NoWork
               THEN /\ inputs' = Append(inputs, [kind |-> "scanFinished", outcome |-> "completed"])
                    /\ scanner' = scanner
               ELSE /\ inputs' = inputs
                    /\ scanner' = [NoScanner EXCEPT !.at = "walking", !.todo = jobs]
            /\ excused' = IF readable THEN excused ELSE excused \cup Places(e.targets)
            /\ watchers' = watchers
    BY <1>11 DEF StartScan
  <2>2. PICK jobs : jobs = [r \in Roots |-> IF readable /\ r \in Enabled THEN e.targets[r] ELSE {}]
    OBVIOUS
  <2>3. /\ \/ /\ jobs = NoWork /\ scanner' = scanner
              /\ inputs' = Append(inputs, [kind |-> "scanFinished", outcome |-> "completed"])
           \/ /\ jobs # NoWork /\ inputs' = inputs
              /\ scanner' = [NoScanner EXCEPT !.at = "walking", !.todo = jobs]
        /\ excused' = IF readable THEN excused ELSE excused \cup Places(e.targets)
        /\ watchers' = watchers
    BY <2>1, <2>2
  <2>4. scanner.at = "none" /\ NoEnd /\ scanner.todo = NoWork /\ sync.scanning
    BY <1>3, <1>11 DEF Memory, OneScan
  <2>5. /\ Queues' /\ Single(inputs', "scanFinished") /\ Lacks(channel', "scanFinished")
        /\ \A r : Has(inputs', "attached", r) => Has(inputs, "attached", r)
        /\ \A r : Has(inputs, "attachFailed", r) => Has(inputs', "attachFailed", r)
        /\ jobs # NoWork => NoEnd'
    <3>1. CASE jobs # NoWork
      BY <1>4, <2>3, <2>4, <3>1 DEF Memory, Queues, OneScan, NoEnd
    <3>2. CASE jobs = NoWork
      <4>1. PICK i : i = [kind |-> "scanFinished", outcome |-> "completed"]
        OBVIOUS
      <4>2. /\ i.kind = "attachFailed" => i = [kind |-> "attachFailed", root |-> i.root]
            /\ i.kind \in {"attached", "attachFailed", "gcFinished", "scanFinished"}
            /\ i.kind # "attached" /\ i.kind # "attachFailed"
        BY <4>1
      <4>3. inputs' = Append(inputs, i)
        BY <2>3, <3>2, <4>1
      <4>4. /\ Queues'
            /\ \A r : Has(inputs', "attached", r) <=>
                      Has(inputs, "attached", r) \/ (i.kind = "attached" /\ i.root = r)
            /\ \A r : Has(inputs', "attachFailed", r) <=>
                      Has(inputs, "attachFailed", r) \/ (i.kind = "attachFailed" /\ i.root = r)
            /\ Single(inputs, "scanFinished")
                 /\ (Lacks(inputs, "scanFinished") \/ i.kind # "scanFinished")
                  => Single(inputs', "scanFinished")
        BY <1>4, <4>2, <4>3, InputsGrow DEF Memory
      <4>5. QED
        BY <1>4, <2>4, <3>2, <4>2, <4>4 DEF NoEnd, Memory, OneScan
    <3>3. QED
      BY <3>1, <3>2
  <2>6. /\ DOMAIN scanner' = {"at", "todo", "broke"} /\ scanner'.todo = jobs
        /\ jobs # NoWork => scanner'.at = "walking"
        /\ jobs = NoWork => scanner'.at = "none"
    BY <2>3, <2>4 DEF Memory, NoScanner
  <2>7. OneScan'
    <3>1. Single(channel', "scanFinished")
      BY <1>4 DEF Memory, OneScan
    <3>2. Lacks(sync'.out, "startScan") /\ sync'.scanning /\ Single(sync'.out, "startScan")
      BY <1>3, <1>11, <2>4
    <3>3. /\ scanner'.at = "walking" => NoEnd'
          /\ scanner'.at # "walking" => scanner'.todo = NoWork
      BY <2>5, <2>6
    <3>4. QED
      BY ONLY <2>5, <3>1, <3>2, <3>3 DEF OneScan
  <2>8. ASSUME NEW r \in Roots, folder'[r] = "enabled"
        PROVE  Watched(r)'
    <3>1. /\ sync.watch[r] # "none" /\ ~Has(sync.out, "detach", r)
          /\ Has(inputs, "attached", r) => r \in watchers
          /\ r \in watchers \/ ToRetry(r) \/ AttachedFirst(sync, r)
      BY <1>4, <2>8 DEF Memory, Watched
    <3>2. ToRetry(r) => ToRetry(r)'
      BY <1>3, <2>5 DEF ToRetry
    <3>3. QED
      BY <1>3, <1>11, <2>3, <2>5, <3>1, <3>2 DEF Watched
  <2>9. ASSUME NEW r \in Roots, NEW d \in Dirs[r],
               <<r, d>> \in changed' \ excused', folder'[r] = "enabled"
        PROVE  Held(sync, r, d)' \/ d \in scanner'.todo[r] \/ Told(r, d)' \/ ToRetry(r)'
    <3>1. <<r, d>> \in changed \ excused
      BY <1>4, <2>3, <2>9
    <3>2. Held(sync, r, d) \/ Told(r, d) \/ ToRetry(r)
      BY <1>4, <2>4, <2>9, <3>1 DEF Memory, Remembered, NoWork
    <3>3. ToRetry(r) => ToRetry(r)'
      BY <1>3, <2>5 DEF ToRetry
    <3>4. CASE d \in e.targets[r]
      <4>1. <<r, d>> \in Places(e.targets)
        BY <3>4 DEF Places
      <4>2. readable
        BY <2>3, <2>9, <4>1
      <4>3. r \in Enabled
        BY <1>4, <2>9 DEF Enabled
      <4>4. d \in jobs[r]
        BY <2>2, <3>4, <4>2, <4>3
      <4>5. QED
        BY <2>6, <4>4
    <3>5. CASE d \notin e.targets[r]
      BY <1>3, <1>4, <3>2, <3>3, <3>5
    <3>6. QED
      BY <3>4, <3>5
  <2>10. \A r \in Roots : Watched(r)'
    BY <2>8 DEF Watched
  <2>11. \A r \in Roots : \A d \in Dirs[r] : Remembered(r, d)'
    BY <2>9 DEF Remembered
  <2>12. DOMAIN scanner'.todo = Roots
    BY <2>2, <2>6
  <2>13. QED
    BY <1>4, <1>5, <2>5, <2>6, <2>7, <2>10, <2>11, <2>12 DEF Memory
<1>12. QED
  BY <1>1, <1>7, <1>8, <1>9, <1>10, <1>11 DEF Execute

-----------------------------------------------------------------------------
(* The scanner, the listener and the world.                                *)

(* One more message on the channel.                                        *)
LEMMA ChannelGrows ==
  ASSUME Queues, NEW e, channel' = Append(channel, e), inputs' = inputs,
         e.kind \in {"changed", "scanFinished"}
  PROVE  /\ Queues'
         /\ \A r, d : Told(r, d) => Told(r, d)'
         /\ \A r, d : e.kind = "changed" /\ e.root = r /\ d \in e.dirs => Told(r, d)'
         /\ Lacks(channel', "scanFinished") <=>
              Lacks(channel, "scanFinished") /\ e.kind # "scanFinished"
         /\ Single(channel, "scanFinished")
              /\ (Lacks(channel, "scanFinished") \/ e.kind # "scanFinished")
              => Single(channel', "scanFinished")
<1>1. PICK a : a = Append(channel, e)
  OBVIOUS
<1>2. PICK l : l = Len(channel)
  OBVIOUS
<1>3. /\ IsSeq(a) /\ l \in Nat /\ DOMAIN channel = 1..l /\ DOMAIN a = 1..(l + 1)
      /\ \A n \in DOMAIN channel : a[n] = channel[n]
      /\ a[l + 1] = e
  BY <1>1, <1>2, AppendedAt DEF Queues
<1>4. /\ \A n \in DOMAIN a : n \in DOMAIN channel \/ n = l + 1
      /\ \A n \in DOMAIN channel : n \in DOMAIN a
      /\ l + 1 \in DOMAIN a
  BY <1>3
<1>5. Queues'
  BY <1>1, <1>3, <1>4 DEF Queues
<1>6. \A r, d : Told(r, d) => Told(r, d)'
  BY <1>1, <1>3, <1>4 DEF Told
<1>7. \A r, d : e.kind = "changed" /\ e.root = r /\ d \in e.dirs => Told(r, d)'
  BY <1>1, <1>3, <1>4 DEF Told
<1>8. Lacks(Append(channel, e), "scanFinished") <=>
        Lacks(channel, "scanFinished") /\ e.kind # "scanFinished"
  BY ONLY Queues, AppendedHas DEF Queues
<1>9. Single(channel, "scanFinished") /\ (Lacks(channel, "scanFinished") \/ e.kind # "scanFinished")
        => Single(Append(channel, e), "scanFinished")
  BY ONLY Queues, AppendedHas DEF Queues
<1>10. QED
  BY ONLY <1>5, <1>6, <1>7, <1>8, <1>9, channel' = Append(channel, e)

(* What a folder needs, when nothing of the actor's own has changed.       *)
LEMMA StillWatched ==
  ASSUME Memory, UNCHANGED <<sync, inputs, watchers, folder>>
  PROVE  /\ Folders(sync)' /\ DOMAIN folder' = Roots
         /\ \A r \in Roots : Watched(r)'
         /\ \A r, d : Held(sync, r, d) => Held(sync, r, d)'
         /\ \A r : ToRetry(r) => ToRetry(r)'
<1>1. sync' = sync /\ inputs' = inputs /\ watchers' = watchers /\ folder' = folder
  OBVIOUS
<1>2. Folders(sync)' /\ DOMAIN folder' = Roots
  BY <1>1 DEF Memory, Folders
<1>3. /\ \A r, d : Held(sync, r, d) => Held(sync, r, d)'
      /\ \A r : ToRetry(r) => ToRetry(r)'
      /\ \A r : AttachedFirst(sync, r) => AttachedFirst(sync, r)'
  BY <1>1 DEF Held, Pending, Asked, ToRetry, AttachedFirst
<1>4. \A r \in Roots : Watched(r)'
  BY <1>1, <1>3 DEF Memory, Watched
<1>5. QED
  BY <1>2, <1>3, <1>4

LEMMA ScannerHolds ==
  ASSUME Memory, Scanner
  PROVE  Memory'
<1>1. sync' = sync /\ inputs' = inputs /\ watchers' = watchers /\ folder' = folder
  BY DEF Scanner, stepVars
<1>2. IInv'
  BY NextIInv DEF Memory, Next
<1>3. /\ Folders(sync)' /\ DOMAIN folder' = Roots
      /\ \A r \in Roots : Watched(r)'
      /\ \A r, d : Held(sync, r, d) => Held(sync, r, d)'
      /\ \A r : ToRetry(r) => ToRetry(r)'
  BY <1>1, StillWatched
<1>4. scanner.at = "walking" /\ sync.scanning /\ NoEnd /\ Lacks(sync.out, "startScan")
  <2>1. scanner.at = "walking"
    BY DEF Scanner, WalkFails, Visit, Finish
  <2>2. QED
    BY <2>1 DEF Memory, IInv, OneScan
<1>5. CASE /\ channel' = channel /\ DOMAIN scanner' = {"at", "todo", "broke"}
           /\ DOMAIN scanner'.todo = Roots /\ scanner'.at = "walking"
           /\ \A r \in Roots : \A d \in Dirs[r] : <<r, d>> \in changed' \ excused' =>
                /\ <<r, d>> \in changed \ excused
                /\ d \in scanner.todo[r] => d \in scanner'.todo[r]
  <2>1. Queues' /\ OneScan' /\ \A r, d : Told(r, d) => Told(r, d)'
    BY <1>1, <1>4, <1>5 DEF Memory, Queues, OneScan, NoEnd, Told
  <2>2. ASSUME NEW r \in Roots, NEW d \in Dirs[r],
               <<r, d>> \in changed' \ excused', folder'[r] = "enabled"
        PROVE  Held(sync, r, d)' \/ d \in scanner'.todo[r] \/ Told(r, d)' \/ ToRetry(r)'
    <3>1. Held(sync, r, d) \/ d \in scanner.todo[r] \/ Told(r, d) \/ ToRetry(r)
      BY <1>1, <1>5, <2>2 DEF Memory, Remembered
    <3>2. QED
      BY <1>3, <1>5, <2>1, <2>2, <3>1
  <2>3. \A r \in Roots : \A d \in Dirs[r] : Remembered(r, d)'
    BY <2>2 DEF Remembered
  <2>4. QED
    BY <1>2, <1>3, <1>5, <2>1, <2>3 DEF Memory
<1>6. ASSUME NEW r \in Roots, NEW d \in Dirs[r], Visit(r, d)
      PROVE  Memory'
  <2>1. /\ scanner' = [scanner EXCEPT !.todo[r] = @ \ {d}] /\ channel' = channel
        /\ changed' = changed \ {<<r, d>>} /\ excused' = excused \ {<<r, d>>}
    BY <1>6 DEF Visit
  <2>2. /\ DOMAIN scanner' = {"at", "todo", "broke"} /\ DOMAIN scanner'.todo = Roots
        /\ scanner'.at = "walking"
        /\ \A q \in Roots : scanner'.todo[q] = IF q = r THEN scanner.todo[q] \ {d}
                                               ELSE scanner.todo[q]
    BY <1>4, <2>1 DEF Memory
  <2>3. ASSUME NEW q \in Roots, NEW c \in Dirs[q], <<q, c>> \in changed' \ excused'
        PROVE  /\ <<q, c>> \in changed \ excused
               /\ c \in scanner.todo[q] => c \in scanner'.todo[q]
    <3>1. <<q, c>> # <<r, d>>
      BY <2>1, <2>3
    <3>2. q # r \/ c # d
      BY <3>1
    <3>3. <<q, c>> \in changed \ excused
      BY <2>1, <2>3, <3>1
    <3>4. QED
      BY <2>2, <3>2, <3>3
  <2>4. QED
    BY <1>5, <2>1, <2>2, <2>3
<1>7. ASSUME NEW r \in Roots, WalkFails(r)
      PROVE  Memory'
  <2>1. /\ scanner' = [scanner EXCEPT !.todo[r] = {}, !.broke = TRUE] /\ channel' = channel
        /\ changed' = changed /\ excused' = excused \cup ({r} \X scanner.todo[r])
    BY <1>7 DEF WalkFails
  <2>2. /\ DOMAIN scanner' = {"at", "todo", "broke"} /\ DOMAIN scanner'.todo = Roots
        /\ scanner'.at = "walking"
        /\ \A q \in Roots : scanner'.todo[q] = IF q = r THEN {} ELSE scanner.todo[q]
    BY <1>4, <2>1 DEF Memory
  <2>3. ASSUME NEW q \in Roots, NEW c \in Dirs[q], <<q, c>> \in changed' \ excused'
        PROVE  /\ <<q, c>> \in changed \ excused
               /\ c \in scanner.todo[q] => c \in scanner'.todo[q]
    <3>1. q = r => c \notin scanner.todo[q]
      BY <2>1, <2>3
    <3>2. QED
      BY <2>1, <2>2, <2>3, <3>1
  <2>4. QED
    BY <1>5, <2>1, <2>2, <2>3
<1>8. ASSUME NEW outcome, Finish(outcome)
      PROVE  Memory'
  <2>1. PICK e : e = [kind |-> "scanFinished", outcome |-> outcome]
    OBVIOUS
  <2>2. e.kind = "scanFinished" /\ e.kind \in {"changed", "scanFinished"}
    BY <2>1
  <2>3. /\ scanner' = [NoScanner EXCEPT !.at = "ended"] /\ changed' = changed
        /\ channel' = Append(channel, e) /\ excused' = excused \cup Places(scanner.todo)
    BY <1>8, <2>1 DEF Finish
  <2>4. /\ Queues'
        /\ \A r, d : Told(r, d) => Told(r, d)'
        /\ Single(channel, "scanFinished")
             /\ (Lacks(channel, "scanFinished") \/ e.kind # "scanFinished")
              => Single(channel', "scanFinished")
    BY <1>1, <2>2, <2>3, ChannelGrows DEF Memory
  <2>5. /\ scanner'.at = "ended" /\ scanner'.todo = NoWork
        /\ DOMAIN scanner' = {"at", "todo", "broke"} /\ DOMAIN scanner'.todo = Roots
    BY <2>3 DEF NoScanner, NoWork
  <2>6. OneScan'
    <3>1. Single(channel', "scanFinished") /\ Lacks(inputs', "scanFinished")
      BY <1>1, <1>4, <2>4 DEF NoEnd, Memory, OneScan
    <3>2. sync'.scanning /\ Lacks(sync'.out, "startScan") /\ Single(sync'.out, "startScan")
          /\ Single(inputs', "scanFinished")
      BY <1>1, <1>4 DEF Memory, OneScan
    <3>3. QED
      BY ONLY <2>5, <3>1, <3>2 DEF OneScan
  <2>7. ASSUME NEW r \in Roots, NEW d \in Dirs[r],
               <<r, d>> \in changed' \ excused', folder'[r] = "enabled"
        PROVE  Held(sync, r, d)' \/ d \in scanner'.todo[r] \/ Told(r, d)' \/ ToRetry(r)'
    <3>1. d \notin scanner.todo[r] /\ <<r, d>> \in changed \ excused
      <4>1. <<r, d>> \notin Places(scanner.todo)
        BY <2>3, <2>7
      <4>2. QED
        BY <2>3, <2>7, <4>1 DEF Places
    <3>2. Held(sync, r, d) \/ Told(r, d) \/ ToRetry(r)
      BY <1>1, <2>7, <3>1 DEF Memory, Remembered
    <3>3. QED
      BY <1>3, <2>4, <3>2
  <2>8. \A r \in Roots : \A d \in Dirs[r] : Remembered(r, d)'
    BY <2>7 DEF Remembered
  <2>9. QED
    BY <1>2, <1>3, <2>4, <2>5, <2>6, <2>8 DEF Memory
<1>9. QED
  BY <1>6, <1>7, <1>8 DEF Scanner

LEMMA CommandHolds ==
  ASSUME Memory, Listener
  PROVE  Memory'
<1>1. ASSUME NEW i, Command(i), Commanded(i),
             ~(i.kind \in {"attached", "attachFailed", "gcFinished", "scanFinished", "changed"})
      PROVE  Memory'
  BY <1>1, FeedHolds DEF Command, Waiting, Taken
<1>2. ASSUME NEW r \in Roots, RegisterRoot(r)
      PROVE  Memory'
  <2>1. PICK i : i = [kind |-> "enabled", root |-> r]
    OBVIOUS
  <2>2. /\ i.kind = "enabled" /\ i.root = r /\ Command(i)
        /\ folder' = [folder EXCEPT ![r] = "enabled"] /\ changed' = changed \cup ({r} \X Dirs[r])
    BY <1>2, <2>1 DEF RegisterRoot
  <2>3. watchers' = watchers
    BY <2>2 DEF Command
  <2>4. Commanded(i)
    BY <2>2, <2>3 DEF Commanded, Memory
  <2>5. QED
    BY <1>1, <2>2, <2>4
<1>3. ASSUME NEW r \in Roots, NEW enabled \in {TRUE, FALSE}, SetRootEnabled(r, enabled)
      PROVE  Memory'
  <2>1. PICK i : i = [kind |-> IF enabled THEN "enabled" ELSE "disabled", root |-> r]
    OBVIOUS
  <2>2. /\ i.kind = (IF enabled THEN "enabled" ELSE "disabled") /\ i.root = r /\ Command(i)
        /\ folder' = [folder EXCEPT ![r] = IF enabled THEN "enabled" ELSE "disabled"]
        /\ changed' = changed
    BY <1>3, <2>1 DEF SetRootEnabled
  <2>3. watchers' = watchers
    BY <2>2 DEF Command
  <2>4. Commanded(i)
    BY <2>2, <2>3 DEF Commanded, Memory
  <2>5. ~(i.kind \in {"attached", "attachFailed", "gcFinished", "scanFinished", "changed"})
    BY <2>2
  <2>6. QED
    BY <1>1, <2>2, <2>4, <2>5
<1>4. ASSUME NEW r \in Roots, RemoveRoot(r)
      PROVE  Memory'
  <2>1. PICK i : i = [kind |-> "removed", root |-> r]
    OBVIOUS
  <2>2. /\ i.kind = "removed" /\ i.root = r /\ Command(i)
        /\ folder' = [folder EXCEPT ![r] = "absent"] /\ changed' \subseteq changed
    BY <1>4, <2>1 DEF RemoveRoot
  <2>3. watchers' = watchers
    BY <2>2 DEF Command
  <2>4. Commanded(i)
    BY <2>2, <2>3 DEF Commanded, Memory
  <2>5. QED
    BY <1>1, <2>2, <2>4
<1>5. ASSUME DeleteMissing \/ StartCommand \/ CancelCommand
      PROVE  Memory'
  <2>1. PICK i : /\ Command(i) /\ i.kind \in {"missingDeleted", "scanRequested", "cancelRequested"}
                 /\ i.kind = "scanRequested" => i.roots = Enabled
                 /\ folder' = folder /\ changed' = changed
    BY <1>5 DEF DeleteMissing, StartCommand, CancelCommand
  <2>2. watchers' = watchers
    BY <2>1 DEF Command
  <2>3. Commanded(i)
    BY <2>1, <2>2 DEF Commanded, Memory
  <2>4. QED
    BY <1>1, <2>1, <2>3
<1>6. QED
  BY <1>2, <1>3, <1>4, <1>5 DEF Listener

LEMMA ActorHolds ==
  ASSUME Memory, Actor
  PROVE  Memory'
<1>1. ASSUME FeedNext
      PROVE  Memory'
  <2>1. PICK i : i = Head(inputs)
    OBVIOUS
  <2>2. /\ Feed(i) /\ inputs' = Tail(inputs) /\ channel' = channel /\ inputs # <<>>
        /\ watchers' = watchers /\ folder' = folder /\ changed' = changed /\ sync.out = <<>>
    BY <1>1, <2>1 DEF FeedNext
  <2>3. i.kind \in {"attached", "attachFailed", "gcFinished", "scanFinished"}
    <3>1. Head(inputs) = inputs[1] /\ 1 \in DOMAIN inputs
      BY <2>2, ShortenedAt DEF Memory, Queues
    <3>2. QED
      BY <2>1, <3>1 DEF Memory, Queues
  <2>4. Taken(i) /\ Commanded(i)
    BY <2>1, <2>2, <2>3 DEF Taken, Commanded, Memory
  <2>5. QED
    BY <2>2, <2>4, FeedHolds
<1>2. ASSUME Receive
      PROVE  Memory'
  <2>1. PICK i : i = Head(channel)
    OBVIOUS
  <2>2. /\ Feed(i) /\ inputs' = inputs /\ channel' = Tail(channel)
        /\ inputs = <<>> /\ channel # <<>>
        /\ watchers' = watchers /\ folder' = folder /\ changed' = changed /\ sync.out = <<>>
    BY <1>2, <2>1 DEF Receive, Waiting
  <2>3. i.kind \in {"changed", "scanFinished"}
    <3>1. Head(channel) = channel[1] /\ 1 \in DOMAIN channel
      BY <2>2, ShortenedAt DEF Memory, Queues
    <3>2. QED
      BY <2>1, <3>1 DEF Memory, Queues
  <2>4. Taken(i) /\ Commanded(i)
    BY <2>1, <2>2, <2>3 DEF Taken, Commanded, Memory
  <2>5. QED
    BY <2>2, <2>4, FeedHolds
<1>3. ASSUME Tick
      PROVE  Memory'
  <2>1. PICK i : i = [kind |-> "tick"]
    OBVIOUS
  <2>2. /\ Feed(i) /\ inputs' = inputs /\ channel' = channel /\ inputs = <<>>
        /\ watchers' = watchers /\ folder' = folder /\ changed' = changed /\ sync.out = <<>>
        /\ i.kind = "tick"
    BY <1>3, <2>1 DEF Tick, Waiting
  <2>3. Taken(i) /\ Commanded(i)
    BY <2>2 DEF Taken, Commanded, Memory
  <2>4. QED
    BY <2>2, <2>3, FeedHolds
<1>4. QED
  BY <1>1, <1>2, <1>3, ExecuteHolds DEF Actor

LEMMA WorldHolds ==
  ASSUME Memory, World
  PROVE  Memory'
<1>1. IInv'
  BY NextIInv DEF Memory, Next
<1>2. ASSUME NEW r \in Roots, NEW d \in Dirs[r], FilesChange(r, d)
      PROVE  Memory'
  <2>1. PICK dirs \in {{d}, Dirs[r]} :
          channel' = IF r \in watchers
                     THEN Append(channel, [kind |-> "changed", root |-> r, dirs |-> dirs])
                     ELSE channel
    BY <1>2 DEF FilesChange
  <2>2. PICK e : e = [kind |-> "changed", root |-> r, dirs |-> dirs]
    OBVIOUS
  <2>3. /\ e.kind = "changed" /\ e.root = r /\ e.dirs = dirs /\ d \in dirs
        /\ e.kind \in {"changed", "scanFinished"}
    BY <2>1, <2>2
  <2>4. /\ sync' = sync /\ inputs' = inputs /\ watchers' = watchers /\ folder' = folder
        /\ scanner' = scanner
        /\ changed' = changed \cup {<<r, d>>} /\ excused' = excused \ {<<r, d>>}
    BY <1>2 DEF FilesChange, stepVars
  <2>5. /\ Folders(sync)' /\ DOMAIN folder' = Roots
        /\ \A q \in Roots : Watched(q)'
        /\ \A q, c : Held(sync, q, c) => Held(sync, q, c)'
        /\ \A q : ToRetry(q) => ToRetry(q)'
    BY <2>4, StillWatched
  <2>6. /\ Queues'
        /\ \A q, c : Told(q, c) => Told(q, c)'
        /\ r \in watchers => Told(r, d)'
        /\ Lacks(channel', "scanFinished") <=> Lacks(channel, "scanFinished")
        /\ Single(channel', "scanFinished")
    <3>1. CASE r \in watchers
      <4>1. channel' = Append(channel, e)
        BY <2>1, <2>2, <3>1
      <4>2. /\ Queues'
            /\ \A q, c : Told(q, c) => Told(q, c)'
            /\ \A q, c : e.kind = "changed" /\ e.root = q /\ c \in e.dirs => Told(q, c)'
            /\ Lacks(channel', "scanFinished") <=>
                 Lacks(channel, "scanFinished") /\ e.kind # "scanFinished"
            /\ Single(channel, "scanFinished")
                 /\ (Lacks(channel, "scanFinished") \/ e.kind # "scanFinished")
                 => Single(channel', "scanFinished")
        BY <2>3, <2>4, <4>1, ChannelGrows DEF Memory
      <4>3. QED
        BY <2>3, <4>2 DEF Memory, OneScan
    <3>2. CASE r \notin watchers
      BY <2>1, <2>4, <3>2 DEF Memory, Queues, Told, OneScan
    <3>3. QED
      BY <3>1, <3>2
  <2>7. OneScan'
    BY <2>4, <2>6 DEF Memory, OneScan, NoEnd
  <2>8. ASSUME NEW q \in Roots, NEW c \in Dirs[q],
               <<q, c>> \in changed' \ excused', folder'[q] = "enabled"
        PROVE  Held(sync, q, c)' \/ c \in scanner'.todo[q] \/ Told(q, c)' \/ ToRetry(q)'
    <3>1. CASE q = r /\ c = d
      <4>1. r \in watchers \/ ToRetry(r) \/ AttachedFirst(sync, r)
        BY <2>4, <2>8, <3>1 DEF Memory, Watched
      <4>2. AttachedFirst(sync, r) => Held(sync, r, d)
        BY DEF AttachedFirst, Held, Asked
      <4>3. QED
        BY <2>5, <2>6, <3>1, <4>1, <4>2
    <3>2. CASE ~(q = r /\ c = d)
      <4>1. <<q, c>> # <<r, d>>
        BY <3>2
      <4>2. <<q, c>> \in changed \ excused
        BY <2>4, <2>8, <4>1
      <4>3. Held(sync, q, c) \/ c \in scanner.todo[q] \/ Told(q, c) \/ ToRetry(q)
        BY <2>4, <2>8, <4>2 DEF Memory, Remembered
      <4>4. QED
        BY <2>4, <2>5, <2>6, <4>3
    <3>3. QED
      BY <3>1, <3>2
  <2>9. \A q \in Roots : \A c \in Dirs[q] : Remembered(q, c)'
    BY <2>8 DEF Remembered
  <2>10. QED
    BY <1>1, <2>4, <2>5, <2>6, <2>7, <2>9 DEF Memory
<1>3. ASSUME /\ inputs' = inputs /\ channel' = channel /\ watchers' = watchers /\ folder' = folder
             /\ scanner' = scanner /\ changed' = changed /\ excused' = excused
             /\ DOMAIN sync' = DOMAIN sync /\ sync'.dirty = sync.dirty /\ sync'.out = sync.out
             /\ sync'.scanning = sync.scanning /\ DOMAIN sync'.watch = Roots
             /\ sync.debounce # "none" => sync'.debounce # "none",
             \A r \in Roots : /\ sync.watch[r] \in Retrying => sync'.watch[r] \in Retrying
                              /\ sync.watch[r] # "none" => sync'.watch[r] # "none"
      PROVE  Memory'
  <2>1. Folders(sync)' /\ Queues' /\ OneScan' /\ \A r, d : Told(r, d) => Told(r, d)'
    BY <1>3 DEF Memory, Folders, Queues, OneScan, NoEnd, Told
  <2>2. /\ \A r, d : Pending(sync, r, d) => Pending(sync, r, d)'
        /\ \A r, d : Asked(sync, r, d) => Asked(sync, r, d)'
    BY <1>3 DEF Pending, Asked
  <2>3. \A r, d : Held(sync, r, d) => Held(sync, r, d)'
    BY <2>2 DEF Held
  <2>4. /\ \A r \in Roots : ToRetry(r) => ToRetry(r)'
        /\ \A r \in Roots : AttachedFirst(sync, r) => AttachedFirst(sync, r)'
    BY <1>3, <2>2 DEF ToRetry, AttachedFirst
  <2>5. \A r \in Roots : Watched(r)'
    BY <1>3, <2>4 DEF Memory, Watched
  <2>6. \A r \in Roots : \A d \in Dirs[r] : Remembered(r, d)'
    BY <1>3, <2>1, <2>3, <2>4 DEF Memory, Remembered
  <2>7. QED
    BY <1>1, <1>3, <2>1, <2>5, <2>6 DEF Memory
<1>4. ASSUME NEW r \in Roots, LoseArtwork(r)
      PROVE  Memory'
  <2>1. /\ sync' = sync /\ inputs' = inputs /\ channel' = channel /\ watchers' = watchers
        /\ folder' = folder /\ scanner' = scanner /\ changed' = changed /\ excused' = excused
    BY <1>4 DEF LoseArtwork, stepVars, threadVars
  <2>2. QED
    BY <1>3, <2>1 DEF Memory, Folders
<1>5. ASSUME ChangesSettle
      PROVE  Memory'
  <2>1. /\ sync' = [sync EXCEPT !.debounce = "due"] /\ inputs' = inputs /\ channel' = channel
        /\ watchers' = watchers
        /\ folder' = folder /\ scanner' = scanner /\ changed' = changed /\ excused' = excused
    BY <1>5 DEF ChangesSettle, threadVars
  <2>2. /\ DOMAIN sync' = DOMAIN sync /\ sync'.dirty = sync.dirty /\ sync'.out = sync.out
        /\ sync'.scanning = sync.scanning /\ sync'.watch = sync.watch /\ sync'.debounce = "due"
    BY <2>1 DEF Memory, IInv, State
  <2>3. QED
    BY <1>3, <2>1, <2>2 DEF Memory, Folders
<1>6. ASSUME NEW r \in Roots, RetryComesDue(r)
      PROVE  Memory'
  <2>1. /\ sync' = [sync EXCEPT !.watch[r] = "retryDue"] /\ inputs' = inputs /\ channel' = channel
        /\ watchers' = watchers
        /\ folder' = folder /\ scanner' = scanner /\ changed' = changed /\ excused' = excused
    BY <1>6 DEF RetryComesDue, threadVars
  <2>2. /\ DOMAIN sync' = DOMAIN sync /\ sync'.dirty = sync.dirty /\ sync'.out = sync.out
        /\ sync'.scanning = sync.scanning /\ sync'.debounce = sync.debounce
        /\ DOMAIN sync'.watch = Roots
        /\ \A q \in Roots : sync'.watch[q] = IF q = r THEN "retryDue" ELSE sync.watch[q]
    BY <2>1 DEF Memory, IInv, State, Folders
  <2>3. \A q \in Roots : /\ sync.watch[q] \in Retrying => sync'.watch[q] \in Retrying
                         /\ sync.watch[q] # "none" => sync'.watch[q] # "none"
    BY <2>2 DEF Retrying
  <2>4. QED
    BY <1>3, <2>1, <2>2, <2>3
<1>7. QED
  BY <1>2, <1>4, <1>5, <1>6 DEF World

LEMMA InitMemory == Init => Memory
<1> SUFFICES ASSUME Init PROVE Memory
  OBVIOUS
<1>1. PICK out : out = Attaches(Enabled)
  OBVIOUS
<1>2. Enabled \in SUBSET Roots
  BY DEF Enabled
<1>3. \A n \in DOMAIN out : out[n].kind = "attach" /\ out[n].root \in Enabled
  BY <1>1, <1>2, AttachesAt
<1>4. \A r \in Enabled : \E n \in DOMAIN out : out[n].kind = "attach" /\ out[n].root = r
  BY <1>1, <1>2, AttachesAll
<1>5. /\ DOMAIN folder = Roots
      /\ sync.dirty = Whole(Enabled) /\ sync.debounce = "later" /\ sync.scanning = FALSE
      /\ sync.watch = [r \in Roots |-> IF r \in Enabled THEN "attaching" ELSE "none"]
      /\ sync.out = out
      /\ inputs = <<>> /\ channel = <<>> /\ scanner = NoScanner
      /\ changed = Places(Whole(Enabled))
  BY <1>1 DEF Init
<1>6. Folders(sync) /\ DOMAIN scanner = {"at", "todo", "broke"} /\ DOMAIN scanner.todo = Roots
  BY <1>5 DEF Folders, NoScanner, NoWork, Whole
<1>7. Queues
  BY <1>5 DEF Queues, IsSeq
<1>8. OneScan
  <2>1. Lacks(sync.out, "startScan") /\ Single(sync.out, "startScan")
    BY <1>3, <1>5 DEF Lacks, Single
  <2>2. scanner.at = "none" /\ scanner.todo = NoWork
    BY <1>5 DEF NoScanner
  <2>3. NoEnd /\ Single(inputs, "scanFinished") /\ Single(channel, "scanFinished")
    BY <1>5, NoEffect DEF NoEnd
  <2>4. QED
    BY <2>1, <2>2, <2>3 DEF OneScan, NoEnd
<1>9. ASSUME NEW r \in Roots, r \in Enabled
      PROVE  \A d \in Dirs[r] : Pending(sync, r, d)
  BY <1>5, <1>9, WholeOf DEF Pending
<1>10. ASSUME NEW r \in Roots, folder[r] = "enabled"
       PROVE  Watched(r)
  <2>1. r \in Enabled
    BY <1>10 DEF Enabled
  <2>2. AttachedFirst(sync, r)
    BY <1>4, <1>5, <1>9, <2>1 DEF AttachedFirst
  <2>3. sync.watch[r] # "none" /\ ~Has(sync.out, "detach", r) /\ ~Has(inputs, "attached", r)
    BY <1>3, <1>5, <2>1 DEF Has
  <2>4. QED
    BY <2>2, <2>3 DEF Watched
<1>11. ASSUME NEW r \in Roots, NEW d \in Dirs[r], folder[r] = "enabled"
       PROVE  Remembered(r, d)
  BY <1>9, <1>11 DEF Enabled, Remembered, Held
<1>12. \A r \in Roots : Watched(r)
  BY <1>10 DEF Watched
<1>13. \A r \in Roots : \A d \in Dirs[r] : Remembered(r, d)
  BY <1>11 DEF Remembered
<1>14. QED
  BY <1>5, <1>6, <1>7, <1>8, <1>12, <1>13, InitIInv DEF Memory

LEMMA NextMemory == Memory /\ [Next]_vars => Memory'
<1> SUFFICES ASSUME Memory, [Next]_vars PROVE Memory'
  OBVIOUS
<1>1. CASE Next
  BY <1>1, ActorHolds, CommandHolds, ScannerHolds, WorldHolds DEF Next
<1>2. CASE UNCHANGED vars
  BY <1>2 DEF vars, stepVars, threadVars, Memory, IInv, Folders, Queues, OneScan, NoEnd, Watched,
     Remembered, Told, ToRetry
<1>3. QED
  BY <1>1, <1>2

(* A change in an enabled folder is held by what waits for a deadline or   *)
(* the end of a scan, a scan, a report on its way, or a watcher that is    *)
(* retried: at no moment between the handlers is it in none of them.       *)
THEOREM ChangesKept == Spec => []ChangesAreNotForgotten
<1>1. Memory => ChangesAreNotForgotten
  <2> SUFFICES ASSUME Memory, NEW r \in Roots, NEW d \in Dirs[r],
                      <<r, d>> \in changed \ excused, folder[r] = "enabled"
               PROVE  \/ d \in sync.dirty[r] /\ (sync.scanning \/ sync.debounce # "none")
                      \/ d \in scanner.todo[r]
                      \/ \E e \in ToSet(sync.out) : e.kind = "startScan" /\ d \in e.targets[r]
                      \/ \E i \in ToSet(channel) : i.kind = "changed" /\ i.root = r /\ d \in i.dirs
                      \/ \/ sync.watch[r] \in Retrying
                         \/ [kind |-> "attachFailed", root |-> r] \in ToSet(inputs)
    BY DEF ChangesAreNotForgotten
  <2>1. Held(sync, r, d) \/ d \in scanner.todo[r] \/ Told(r, d) \/ ToRetry(r)
    BY DEF Memory, Remembered
  <2>2. Asked(sync, r, d) => \E e \in ToSet(sync.out) : e.kind = "startScan" /\ d \in e.targets[r]
    BY DEF Asked, ToSet
  <2>3. Told(r, d) => \E i \in ToSet(channel) : i.kind = "changed" /\ i.root = r /\ d \in i.dirs
    BY DEF Told, ToSet
  <2>4. Has(inputs, "attachFailed", r) => [kind |-> "attachFailed", root |-> r] \in ToSet(inputs)
    BY DEF Has, ToSet, Memory, Queues
  <2>5. QED
    BY <2>1, <2>2, <2>3, <2>4 DEF Held, Pending, ToRetry
<1>2. QED
  BY <1>1, InitMemory, NextMemory, PTL DEF Spec
=============================================================================
