------------------------ MODULE QueueCommandsProofs ------------------------
(***************************************************************************)
(* Proofs about QueueCommands.tla: the queue under the worker's commands,  *)
(* shuffled or not, for queues of every length and however many ids.       *)
(***************************************************************************)
EXTENDS QueueCommands, PlaybackQueueProofs, FiniteSetTheorems

(* A queue with a shuffled order has the same entries in both.  Such an    *)
(* order outlives its setting only when dropping entries emptied it.       *)
Sound(q) ==
  /\ DOMAIN q = {"arranged", "shuffled", "current", "repeat", "shuffle", "nextId"}
  /\ q.nextId \in Nat \ {0} /\ Orderly(q.arranged, q.nextId)
  /\ IsShuffled(q) =>
       /\ Orderly(q.shuffled, q.nextId) /\ ToSet(q.shuffled) = ToSet(q.arranged)
       /\ q.shuffle \/ IsEmpty(q)
  /\ q.current \in 1..(Len(q.arranged) + 1)
  /\ q.repeat \in RepeatModes /\ q.shuffle \in BOOLEAN

IInv == Sound(queue) /\ (previous = NoQueue \/ Sound(previous))

-----------------------------------------------------------------------------
(* The entries of an order.                                                *)
LEMMA Members ==
  ASSUME NEW order, NEW nextId, Orderly(order, nextId)
  PROVE  /\ Len(order) \in Nat /\ DOMAIN order = 1..Len(order) /\ order \in Seq(Nat \ {0})
         /\ \A i \in 1..Len(order) : order[i] \in ToSet(order)
         /\ \A id \in ToSet(order) : \E i \in 1..Len(order) : order[i] = id
         /\ \A i, j \in 1..Len(order) : order[i] = order[j] => i = j
         /\ ToSet(order) \subseteq Nat \ {0}
         /\ \A id \in ToSet(order) : id < nextId
BY DEF Orderly, ToSet, IsInjective

(* As many entries as numbers: no id is there twice.                       *)
LEMMA LengthIsCount ==
  ASSUME NEW order, NEW nextId, Orderly(order, nextId)
  PROVE  IsFiniteSet(ToSet(order)) /\ Cardinality(ToSet(order)) = Len(order)
<1>1. /\ Len(order) \in Nat /\ DOMAIN order = 1..Len(order)
      /\ \A i \in 1..Len(order) : order[i] \in ToSet(order)
      /\ \A id \in ToSet(order) : \E i \in 1..Len(order) : order[i] = id
      /\ \A i, j \in 1..Len(order) : order[i] = order[j] => i = j
      /\ order \in Seq(Nat \ {0})
  BY Members
<1>2. order \in [1..Len(order) -> ToSet(order)]
  BY <1>1
<1>3. order \in Bijection(1..Len(order), ToSet(order))
  BY <1>1, <1>2 DEF Bijection, Injection, Surjection, IsInjective
<1>4. ExistsBijection(1..Len(order), ToSet(order))
  BY <1>3 DEF ExistsBijection
<1>5. IsFiniteSet(ToSet(order))
  BY <1>1, <1>4, FS_NatBijection
<1>6. QED
  BY <1>1, <1>4, <1>5, FS_CountingElements

LEMMA SameLength ==
  ASSUME NEW a, NEW b, NEW m, NEW n, Orderly(a, m), Orderly(b, n), ToSet(a) = ToSet(b)
  PROVE  Len(a) = Len(b)
BY LengthIsCount

LEMMA Found1 ==
  ASSUME NEW order, NEW nextId, Orderly(order, nextId), NEW id \in ToSet(order)
  PROVE  IndexOf(order, id) \in 1..Len(order) /\ order[IndexOf(order, id)] = id
BY Members DEF IndexOf

(* Retaining keeps exactly what has not gone.                              *)
LEMMA RetainedMembers ==
  ASSUME NEW order, NEW nextId, Orderly(order, nextId), NEW gone
  PROVE  /\ Orderly(Retain(order, gone), nextId)
         /\ ToSet(Retain(order, gone)) = ToSet(order) \ gone
<1>1. PICK left : left = Retain(order, gone)
  OBVIOUS
<1>2. Orderly(left, nextId)
  BY <1>1, OrderlyRetained
<1>3. /\ order \in Seq(Nat \ {0}) /\ Len(order) \in Nat
      /\ \A i \in 1..Len(order) : order[i] \in ToSet(order)
      /\ \A id \in ToSet(order) : \E i \in 1..Len(order) : order[i] = id
  BY Members
<1>4. /\ Len(left) \in Nat
      /\ \A i \in 1..Len(left) : left[i] \in ToSet(left)
      /\ \A id \in ToSet(left) : \E i \in 1..Len(left) : left[i] = id
  BY <1>2, Members
<1>5. ASSUME NEW id \in ToSet(left)
      PROVE  id \in ToSet(order) \ gone
  <2>1. PICK m \in 1..Len(left) : left[m] = id
    BY <1>4
  <2>2. PICK j \in 1..Len(order) : left[m] = order[j] /\ order[j] \notin gone
    BY <1>1, <1>3, RetainKeeps
  <2>3. QED
    BY <1>3, <2>1, <2>2
<1>6. ASSUME NEW id \in ToSet(order) \ gone
      PROVE  id \in ToSet(left)
  <2>1. PICK j \in 1..Len(order) : order[j] = id
    BY <1>3
  <2>2. j \in 1..(Len(order) + 1)
    BY <1>3
  <2>3. PICK at : at = Len(Retain(SubSeq(order, 1, j - 1), gone)) + 1
    OBVIOUS
  <2>4. at \in 1..Len(left) /\ left[at] = order[j]
    BY <1>1, <1>3, <2>1, <2>2, <2>3, PositionFollows
  <2>5. QED
    BY <1>4, <2>1, <2>4
<1>7. QED
  BY <1>1, <1>2, <1>5, <1>6

(* Where everything is after new entries went in.                          *)
LEMMA Spliced ==
  ASSUME NEW a, NEW new, NEW nextId, Orderly(a, nextId), Orderly(new, nextId),
         \A i \in 1..Len(a), j \in 1..Len(new) : a[i] # new[j],
         NEW at \in 1..(Len(a) + 1)
  PROVE  LET s == Splice(a, at, new)
         IN /\ Orderly(s, nextId) /\ Len(s) = Len(a) + Len(new)
            /\ \A i \in 1..(at - 1) : s[i] = a[i]
            /\ \A i \in 1..Len(new) : s[at + i - 1] = new[i]
            /\ \A i \in at..Len(a) : s[i + Len(new)] = a[i]
            /\ ToSet(s) = ToSet(a) \cup ToSet(new)
<1>1. PICK s : s = Splice(a, at, new)
  OBVIOUS
<1>2. PICK p : p = SubSeq(a, 1, at - 1)
  OBVIOUS
<1>3. PICK r : r = SubSeq(a, at, Len(a))
  OBVIOUS
<1>4. /\ Len(a) \in Nat /\ Len(new) \in Nat /\ at - 1 \in 0..Len(a) /\ 1 \in 1..(Len(a) + 1)
      /\ Len(a) \in 0..Len(a) /\ at \in Int
  BY Members
<1>5. /\ p \in Seq(Nat \ {0}) /\ Len(p) = at - 1
      /\ \A i \in 1..(at - 1) : p[i] = a[i]
  <2>1. /\ Orderly(p, nextId) /\ Len(p) = IF 1 <= at - 1 THEN at - 1 - 1 + 1 ELSE 0
        /\ \A i \in 1..Len(p) : p[i] = a[1 + i - 1]
    BY <1>2, <1>4, OrderlyPart
  <2>2. Len(p) = at - 1 /\ \A i \in 1..(at - 1) : 1 + i - 1 = i
    BY <1>4, <2>1
  <2>3. QED
    BY <2>1, <2>2 DEF Orderly
<1>6. /\ r \in Seq(Nat \ {0}) /\ Len(r) = Len(a) - at + 1
      /\ \A i \in 1..Len(r) : r[i] = a[at + i - 1]
  <2>1. /\ Orderly(r, nextId) /\ Len(r) = IF at <= Len(a) THEN Len(a) - at + 1 ELSE 0
        /\ \A i \in 1..Len(r) : r[i] = a[at + i - 1]
    BY <1>3, <1>4, OrderlyPart
  <2>2. Len(r) = Len(a) - at + 1
    BY <1>4, <2>1
  <2>3. QED
    BY <2>1, <2>2 DEF Orderly
<1>7. PICK f : f = p \o new
  OBVIOUS
<1>8. new \in Seq(Nat \ {0})
  BY DEF Orderly
<1>9. /\ f \in Seq(Nat \ {0}) /\ Len(f) = at - 1 + Len(new)
      /\ \A i \in 1..(at - 1 + Len(new)) : f[i] = IF i <= at - 1 THEN p[i] ELSE new[i - (at - 1)]
  BY <1>5, <1>7, <1>8, ConcatProperties
<1>10. s = f \o r
  BY <1>1, <1>2, <1>3, <1>7 DEF Splice
<1>11. \A i \in 1..(Len(f) + Len(r)) : s[i] = IF i <= Len(f) THEN f[i] ELSE r[i - Len(f)]
  BY <1>6, <1>9, <1>10, ConcatProperties
<1>12. Orderly(s, nextId) /\ Len(s) = Len(a) + Len(new)
  BY <1>1, OrderlySpliced
<1>13. ASSUME NEW i \in 1..(at - 1)
       PROVE  s[i] = a[i]
  <2>1. i \in 1..(Len(f) + Len(r)) /\ i <= Len(f) /\ i \in 1..(at - 1 + Len(new)) /\ i <= at - 1
    BY <1>4, <1>6, <1>9
  <2>2. QED
    BY <1>5, <1>9, <1>11, <2>1
<1>14. ASSUME NEW i \in 1..Len(new)
       PROVE  s[at + i - 1] = new[i]
  <2>1. /\ at + i - 1 \in 1..(Len(f) + Len(r)) /\ at + i - 1 <= Len(f)
        /\ at + i - 1 \in 1..(at - 1 + Len(new)) /\ ~(at + i - 1 <= at - 1)
        /\ at + i - 1 - (at - 1) = i
    BY <1>4, <1>6, <1>9
  <2>2. QED
    BY <1>9, <1>11, <2>1
<1>15. ASSUME NEW i \in at..Len(a)
       PROVE  s[i + Len(new)] = a[i]
  <2>1. PICK k : k = i + Len(new) - Len(f)
    OBVIOUS
  <2>2. /\ i + Len(new) \in 1..(Len(f) + Len(r)) /\ ~(i + Len(new) <= Len(f))
        /\ k \in 1..Len(r) /\ at + k - 1 = i
    BY <1>4, <1>6, <1>9, <2>1
  <2>3. s[i + Len(new)] = r[k]
    BY <1>11, <2>1, <2>2
  <2>4. r[k] = a[at + k - 1]
    BY <1>6, <2>2
  <2>5. QED
    BY <2>2, <2>3, <2>4
<1>16. ToSet(s) = ToSet(a) \cup ToSet(new)
  <2>1. /\ \A i \in 1..Len(s) : s[i] \in ToSet(s)
        /\ \A id \in ToSet(s) : \E i \in 1..Len(s) : s[i] = id
    BY <1>12, Members
  <2>2. /\ \A i \in 1..Len(a) : a[i] \in ToSet(a)
        /\ \A id \in ToSet(a) : \E i \in 1..Len(a) : a[i] = id
    BY Members
  <2>3. /\ \A i \in 1..Len(new) : new[i] \in ToSet(new)
        /\ \A id \in ToSet(new) : \E i \in 1..Len(new) : new[i] = id
    BY Members
  <2>4. ASSUME NEW id \in ToSet(s)
        PROVE  id \in ToSet(a) \cup ToSet(new)
    <3>1. PICK i \in 1..Len(s) : s[i] = id
      BY <2>1
    <3>2. CASE i <= at - 1
      <4>1. i \in 1..(at - 1) /\ i \in 1..Len(a)
        BY <1>4, <3>2
      <4>2. QED
        BY <1>13, <2>2, <3>1, <4>1
    <3>3. CASE ~(i <= at - 1) /\ i <= at - 1 + Len(new)
      <4>1. PICK k : k = i - (at - 1)
        OBVIOUS
      <4>2. k \in 1..Len(new) /\ at + k - 1 = i
        BY <1>4, <3>3, <4>1
      <4>3. QED
        BY <1>14, <2>3, <3>1, <4>2
    <3>4. CASE ~(i <= at - 1 + Len(new))
      <4>1. PICK k : k = i - Len(new)
        OBVIOUS
      <4>2. k \in at..Len(a) /\ k \in 1..Len(a) /\ k + Len(new) = i
        BY <1>4, <1>12, <3>4, <4>1
      <4>3. QED
        BY <1>15, <2>2, <3>1, <4>2
    <3>5. QED
      BY <3>2, <3>3, <3>4
  <2>5. ASSUME NEW id \in ToSet(a)
        PROVE  id \in ToSet(s)
    <3>1. PICK i \in 1..Len(a) : a[i] = id
      BY <2>2
    <3>2. CASE i <= at - 1
      <4>1. i \in 1..(at - 1) /\ i \in 1..Len(s)
        BY <1>4, <1>12, <3>2
      <4>2. QED
        BY <1>13, <2>1, <3>1, <4>1
    <3>3. CASE ~(i <= at - 1)
      <4>1. i \in at..Len(a) /\ i + Len(new) \in 1..Len(s)
        BY <1>4, <1>12, <3>3
      <4>2. QED
        BY <1>15, <2>1, <3>1, <4>1
    <3>4. QED
      BY <3>2, <3>3
  <2>6. ASSUME NEW id \in ToSet(new)
        PROVE  id \in ToSet(s)
    <3>1. PICK i \in 1..Len(new) : new[i] = id
      BY <2>3
    <3>2. at + i - 1 \in 1..Len(s)
      BY <1>4, <1>12
    <3>3. QED
      BY <1>14, <2>1, <3>1, <3>2
  <2>7. QED
    BY <2>4, <2>5, <2>6
<1>17. QED
  BY <1>1, <1>12, <1>13, <1>14, <1>15, <1>16

LEMMA SplicedMembers ==
  ASSUME NEW a, NEW new, NEW nextId, Orderly(a, nextId), Orderly(new, nextId),
         \A i \in 1..Len(a), j \in 1..Len(new) : a[i] # new[j],
         NEW at \in 1..(Len(a) + 1)
  PROVE  /\ Orderly(Splice(a, at, new), nextId) /\ Len(Splice(a, at, new)) = Len(a) + Len(new)
         /\ ToSet(Splice(a, at, new)) = ToSet(a) \cup ToSet(new)
BY Spliced

LEMMA SplicedPlaces ==
  ASSUME NEW a, NEW new, NEW nextId, Orderly(a, nextId), Orderly(new, nextId),
         \A i \in 1..Len(a), j \in 1..Len(new) : a[i] # new[j],
         NEW at \in 1..(Len(a) + 1)
  PROVE  /\ \A i \in 1..(at - 1) : Splice(a, at, new)[i] = a[i]
         /\ Len(new) > 0 => Splice(a, at, new)[at] = new[1]
<1>1. PICK s : s = Splice(a, at, new)
  OBVIOUS
<1>2. /\ \A i \in 1..(at - 1) : s[i] = a[i]
      /\ \A i \in 1..Len(new) : s[at + i - 1] = new[i]
  BY <1>1, Spliced
<1>3. Len(new) \in Nat /\ Len(a) \in Nat
  BY Members
<1>4. ASSUME Len(new) > 0
      PROVE  s[at] = new[1]
  <2>1. 1 \in 1..Len(new) /\ at + 1 - 1 = at
    BY <1>3, <1>4
  <2>2. QED
    BY <1>2, <2>1
<1>5. QED
  BY <1>1, <1>2, <1>4

LEMMA JoinedMembers ==
  ASSUME NEW a, NEW b, NEW m, NEW n, Orderly(a, m), Orderly(b, n)
  PROVE  ToSet(a \o b) = ToSet(a) \cup ToSet(b)
<1>1. /\ a \in Seq(Nat \ {0}) /\ b \in Seq(Nat \ {0}) /\ Len(a) \in Nat /\ Len(b) \in Nat
      /\ DOMAIN a = 1..Len(a) /\ DOMAIN b = 1..Len(b)
  BY Members
<1>2. PICK s : s = a \o b
  OBVIOUS
<1>3. /\ s \in Seq(Nat \ {0}) /\ Len(s) = Len(a) + Len(b) /\ DOMAIN s = 1..(Len(a) + Len(b))
      /\ \A i \in 1..(Len(a) + Len(b)) : s[i] = IF i <= Len(a) THEN a[i] ELSE b[i - Len(a)]
  BY <1>1, <1>2, ConcatProperties
<1>4. ASSUME NEW id \in ToSet(s)
      PROVE  id \in ToSet(a) \cup ToSet(b)
  <2>1. PICK i \in 1..(Len(a) + Len(b)) : s[i] = id
    BY <1>3, <1>4 DEF ToSet
  <2>2. CASE i <= Len(a)
    <3>1. i \in 1..Len(a) /\ s[i] = a[i]
      BY <1>1, <1>3, <2>2
    <3>2. QED
      BY <1>1, <2>1, <3>1 DEF ToSet
  <2>3. CASE ~(i <= Len(a))
    <3>1. i - Len(a) \in 1..Len(b) /\ s[i] = b[i - Len(a)]
      BY <1>1, <1>3, <2>3
    <3>2. QED
      BY <1>1, <2>1, <3>1 DEF ToSet
  <2>4. QED
    BY <2>2, <2>3
<1>5. ASSUME NEW id \in ToSet(a)
      PROVE  id \in ToSet(s)
  <2>1. PICK i \in 1..Len(a) : a[i] = id
    BY <1>1, <1>5 DEF ToSet
  <2>2. i \in 1..(Len(a) + Len(b)) /\ i <= Len(a)
    BY <1>1
  <2>3. QED
    BY <1>3, <2>1, <2>2 DEF ToSet
<1>6. ASSUME NEW id \in ToSet(b)
      PROVE  id \in ToSet(s)
  <2>1. PICK i \in 1..Len(b) : b[i] = id
    BY <1>1, <1>6 DEF ToSet
  <2>2. /\ i + Len(a) \in 1..(Len(a) + Len(b)) /\ ~(i + Len(a) <= Len(a))
        /\ i + Len(a) - Len(a) = i
    BY <1>1
  <2>3. QED
    BY <1>3, <2>1, <2>2 DEF ToSet
<1>7. QED
  BY <1>2, <1>4, <1>5, <1>6

(* What a shuffle makes of some entries: all of them, in some order.       *)
LEMMA AnyOrder ==
  ASSUME NEW S, IsFiniteSet(S), NEW nextId \in Nat, S \subseteq Nat \ {0},
         \A id \in S : id < nextId, NEW order \in SetToSeqs(S)
  PROVE  Orderly(order, nextId) /\ ToSet(order) = S
<1>1. PICK n : n = Cardinality(S)
  OBVIOUS
<1>2. n \in Nat
  BY <1>1, FS_CardinalityType
<1>3. /\ order \in [1..n -> S]
      /\ \A i, j \in 1..n : i # j => order[i] # order[j]
  BY <1>1 DEF SetToSeqs
<1>4. order \in Seq(S) /\ Len(order) = n
  BY <1>2, <1>3, SeqDef, LenProperties
<1>5. order \in Injection(1..n, S)
  BY <1>3 DEF Injection, IsInjective
<1>6. IsFiniteSet(1..n) /\ Cardinality(1..n) = n
  BY <1>2, FS_Interval
<1>7. order \in Surjection(1..n, S)
  BY <1>1, <1>5, <1>6, FS_Injection
<1>8. /\ DOMAIN order = 1..n /\ \A i \in 1..n : order[i] \in S
      /\ \A id \in S : \E i \in 1..n : order[i] = id
  BY <1>3, <1>7 DEF Surjection
<1>9. ToSet(order) = S
  BY <1>8 DEF ToSet
<1>10. order \in [1..n -> Nat \ {0}]
  BY <1>3
<1>11. order \in Seq(Nat \ {0})
  BY <1>2, <1>10, SeqDef
<1>12. IsInjective(order)
  BY <1>3, <1>8 DEF IsInjective
<1>13. \A i \in 1..Len(order) : order[i] < nextId
  BY <1>4, <1>8
<1>14. QED
  BY <1>9, <1>11, <1>12, <1>13 DEF Orderly

LEMMA SoundPlays ==
  ASSUME NEW q, Sound(q)
  PROVE  LET order == PlayOrder(q)
         IN /\ Orderly(order, q.nextId) /\ ToSet(order) = ToSet(q.arranged)
            /\ Len(order) = Length(q) /\ Len(q.arranged) = Length(q) /\ Length(q) \in Nat
            /\ order \in Seq(Nat \ {0}) /\ DOMAIN order = 1..Length(q)
            /\ q.current \in 1..(Length(q) + 1)
            /\ HasCurrent(q) <=> q.current <= Length(q)
            /\ HasCurrent(q) => CurrentId(q) = order[q.current] /\ CurrentId(q) \in ToSet(order)
            /\ IsEmpty(q) <=> Length(q) = 0
            /\ q.nextId \in Nat \ {0} /\ Orderly(q.arranged, q.nextId)
<1>1. PICK order : order = PlayOrder(q)
  OBVIOUS
<1>2. Orderly(order, q.nextId) /\ ToSet(order) = ToSet(q.arranged)
  BY <1>1 DEF Sound, PlayOrder
<1>3. /\ Len(order) = Len(q.arranged) /\ Len(q.arranged) = Length(q)
      /\ Orderly(q.arranged, q.nextId)
  BY <1>2, SameLength DEF Sound, Length
<1>4. /\ Length(q) \in Nat /\ order \in Seq(Nat \ {0}) /\ DOMAIN order = 1..Length(q)
      /\ q.arranged \in Seq(Nat \ {0})
  BY <1>2, <1>3, Members
<1>5. q.current \in 1..(Length(q) + 1) /\ q.nextId \in Nat \ {0}
  BY <1>3 DEF Sound
<1>6. HasCurrent(q) <=> q.current <= Length(q)
  BY <1>1, <1>4, <1>5 DEF HasCurrent
<1>7. CurrentId(q) = order[q.current]
  BY <1>1 DEF CurrentId
<1>8. HasCurrent(q) => CurrentId(q) \in ToSet(order)
  BY <1>1, <1>7 DEF HasCurrent, ToSet
<1>9. IsEmpty(q) <=> Length(q) = 0
  BY <1>3, <1>4 DEF IsEmpty
<1>10. QED
  BY <1>1, <1>2, <1>3, <1>4, <1>5, <1>6, <1>7, <1>8, <1>9

(* A position elsewhere in the same order.                                 *)
LEMMA SoundMovesTo ==
  ASSUME NEW q, Sound(q), NEW at \in 1..(Length(q) + 1)
  PROVE  Sound([q EXCEPT !.current = at])
<1>1. PICK m : m = [q EXCEPT !.current = at]
  OBVIOUS
<1>2. /\ DOMAIN m = DOMAIN q /\ m.current = at /\ m.arranged = q.arranged
      /\ m.shuffled = q.shuffled /\ m.repeat = q.repeat /\ m.shuffle = q.shuffle
      /\ m.nextId = q.nextId
  BY <1>1 DEF Sound
<1>3. at \in 1..(Len(q.arranged) + 1)
  BY SoundPlays
<1>4. QED
  BY <1>1, <1>2, <1>3 DEF Sound, IsShuffled, IsEmpty

(* Shuffling around the current entry keeps it current, and brings it to   *)
(* the front.                                                              *)
LEMMA ShuffledAround ==
  ASSUME NEW q, NEW m \in ShuffledAroundCurrent(q),
         DOMAIN q = {"arranged", "shuffled", "current", "repeat", "shuffle", "nextId"},
         q.nextId \in Nat \ {0}, Orderly(q.arranged, q.nextId), Len(q.arranged) > 0,
         q.current \in 1..(Len(q.arranged) + 1), q.repeat \in RepeatModes, q.shuffle = TRUE
  PROVE  /\ Sound(m) /\ m.nextId = q.nextId
         /\ q.current <= Length(q) =>
              HasCurrent(m) /\ CurrentId(m) = q.arranged[q.current]
<1>1. PICK at : at = IF q.current <= Length(q) THEN q.current ELSE Length(q)
  OBVIOUS
<1>2. PICK id : id = q.arranged[at]
  OBVIOUS
<1>3. PICK S : S = ToSet(q.arranged) \ {id}
  OBVIOUS
<1>4. PICK rest \in SetToSeqs(S) : m = [q EXCEPT !.shuffled = <<id>> \o rest, !.current = 1]
  BY <1>1, <1>2, <1>3 DEF ShuffledAroundCurrent
<1>5. /\ Len(q.arranged) \in Nat /\ Length(q) = Len(q.arranged)
      /\ \A i \in 1..Len(q.arranged) : q.arranged[i] \in ToSet(q.arranged)
      /\ ToSet(q.arranged) \subseteq Nat \ {0}
      /\ \A e \in ToSet(q.arranged) : e < q.nextId
  BY Members DEF Length
<1>6. at \in 1..Len(q.arranged) /\ id \in ToSet(q.arranged)
  BY <1>1, <1>2, <1>5
<1>7. Orderly(rest, q.nextId) /\ ToSet(rest) = S
  <2>1. IsFiniteSet(S)
    BY <1>3, LengthIsCount, FS_RemoveElement
  <2>2. S \subseteq Nat \ {0} /\ \A e \in S : e < q.nextId
    BY <1>3, <1>5
  <2>3. QED
    BY <2>1, <2>2, AnyOrder
<1>8. PICK one : one = <<id>>
  OBVIOUS
<1>9. Orderly(one, q.nextId) /\ Len(one) = 1 /\ one[1] = id /\ ToSet(one) = {id}
  BY <1>5, <1>6, <1>8 DEF Orderly, IsInjective, ToSet
<1>10. PICK order : order = <<id>> \o rest
  OBVIOUS
<1>11. Orderly(order, q.nextId) /\ order[1] = id /\ Len(order) = 1 + Len(rest)
  <2>1. \A i \in 1..Len(one), j \in 1..Len(rest) : one[i] # rest[j]
    BY <1>3, <1>7, <1>9, Members
  <2>2. Orderly(one \o rest, q.nextId) /\ Len(one \o rest) = Len(one) + Len(rest)
    BY <1>7, <1>9, <2>1, OrderlyJoined
  <2>3. one \in Seq(Nat \ {0}) /\ rest \in Seq(Nat \ {0}) /\ Len(rest) \in Nat
    BY <1>7, <1>9 DEF Orderly
  <2>4. (one \o rest)[1] = id
    BY <1>9, <2>3, ConcatProperties
  <2>5. QED
    BY <1>8, <1>9, <1>10, <2>2, <2>4
<1>12. ToSet(order) = ToSet(q.arranged)
  <2>1. ToSet(order) = ToSet(one) \cup ToSet(rest)
    BY <1>7, <1>8, <1>9, <1>10, JoinedMembers
  <2>2. QED
    BY <1>3, <1>6, <1>7, <1>9, <2>1
<1>13. /\ DOMAIN m = DOMAIN q /\ m.current = 1 /\ m.arranged = q.arranged
       /\ m.shuffled = order /\ m.repeat = q.repeat /\ m.shuffle = q.shuffle
       /\ m.nextId = q.nextId
  BY <1>4, <1>10
<1>14. order # NoOrder
  BY <1>11, NoOrderAssumption DEF Orderly
<1>15. Sound(m)
  <2>1. /\ m.nextId \in Nat \ {0} /\ Orderly(m.arranged, m.nextId)
        /\ Orderly(m.shuffled, m.nextId) /\ ToSet(m.shuffled) = ToSet(m.arranged)
        /\ m.shuffle = TRUE
    BY <1>11, <1>12, <1>13
  <2>2. m.current \in 1..(Len(m.arranged) + 1) /\ m.repeat \in RepeatModes
    BY <1>5, <1>13
  <2>3. QED
    BY <1>13, <2>1, <2>2 DEF Sound
<1>16. HasCurrent(m) /\ CurrentId(m) = id
  <2>1. PlayOrder(m) = order
    BY <1>13, <1>14 DEF PlayOrder, IsShuffled
  <2>2. 1 \in DOMAIN order
    BY <1>11, <1>7, Members
  <2>3. QED
    BY <1>11, <1>13, <2>1, <2>2 DEF HasCurrent, CurrentId
<1>17. QED
  BY <1>1, <1>2, <1>13, <1>15, <1>16

-----------------------------------------------------------------------------
(* Orders stay orders when more ids have been given.                       *)
LEMMA OrderlyLater ==
  ASSUME NEW order, NEW m \in Nat, Orderly(order, m), NEW n \in Nat, m <= n
  PROVE  Orderly(order, n)
<1>1. \A i \in 1..Len(order) : order[i] \in Nat
  BY DEF Orderly
<1>2. QED
  BY <1>1 DEF Orderly

LEMMA SoundNew ==
  ASSUME NEW r \in RepeatModes, NEW s \in BOOLEAN
  PROVE  Sound(NewQueue(r, s))
<1>1. PICK q : q = NewQueue(r, s)
  OBVIOUS
<1>2. /\ DOMAIN q = {"arranged", "shuffled", "current", "repeat", "shuffle", "nextId"}
      /\ q.arranged = <<>> /\ q.shuffled = NoOrder /\ q.current = 1 /\ q.nextId = 1
      /\ q.repeat = r /\ q.shuffle = s
  BY <1>1 DEF NewQueue
<1>3. Orderly(<<>>, 1) /\ Len(<<>>) = 0
  BY DEF Orderly, IsInjective
<1>4. QED
  BY <1>1, <1>2, <1>3 DEF Sound, IsShuffled

LEMMA SoundCleared ==
  ASSUME NEW q, Sound(q)
  PROVE  Sound(Cleared(q))
<1>1. PICK m : m = Cleared(q)
  OBVIOUS
<1>2. /\ DOMAIN m = {"arranged", "shuffled", "current", "repeat", "shuffle", "nextId"}
      /\ m.arranged = <<>> /\ m.shuffled = NoOrder /\ m.current = 1 /\ m.nextId = q.nextId
      /\ m.repeat = q.repeat /\ m.shuffle = q.shuffle
  BY <1>1 DEF Cleared, Sound
<1>3. Orderly(<<>>, q.nextId) /\ Len(<<>>) = 0
  BY DEF Orderly, IsInjective
<1>4. QED
  BY <1>1, <1>2, <1>3 DEF Sound, IsShuffled

LEMMA SoundRepeat ==
  ASSUME NEW q, Sound(q), NEW mode \in RepeatModes
  PROVE  Sound([q EXCEPT !.repeat = mode])
<1>1. PICK m : m = [q EXCEPT !.repeat = mode]
  OBVIOUS
<1>2. /\ DOMAIN m = DOMAIN q /\ m.current = q.current /\ m.arranged = q.arranged
      /\ m.shuffled = q.shuffled /\ m.repeat = mode /\ m.shuffle = q.shuffle
      /\ m.nextId = q.nextId
  BY <1>1 DEF Sound
<1>3. QED
  BY <1>1, <1>2 DEF Sound, IsShuffled, IsEmpty

LEMMA SoundReplaced ==
  ASSUME NEW q, Sound(q), NEW n \in Nat, NEW start \in 1..n, NEW m \in Replaced(q, n, start)
  PROVE  Sound(m)
<1>1. PICK fresh : fresh = [q EXCEPT !.arranged = NewIds(q, n), !.shuffled = NoOrder,
                                     !.current = start, !.nextId = q.nextId + n]
  OBVIOUS
<1>2. PICK new : new = NewIds(q, n)
  OBVIOUS
<1>3. q.nextId \in Nat \ {0} /\ q.repeat \in RepeatModes /\ q.shuffle \in BOOLEAN
  BY DEF Sound
<1>4. Orderly(new, q.nextId + n) /\ Len(new) = n
  BY <1>2, <1>3, NewIdsOrderly
<1>5. /\ DOMAIN fresh = {"arranged", "shuffled", "current", "repeat", "shuffle", "nextId"}
      /\ fresh.arranged = new /\ fresh.shuffled = NoOrder /\ fresh.current = start
      /\ fresh.nextId = q.nextId + n /\ fresh.repeat = q.repeat /\ fresh.shuffle = q.shuffle
  BY <1>1, <1>2 DEF Sound
<1>6. start \in 1..(n + 1) /\ n > 0 /\ q.nextId + n \in Nat \ {0}
  BY <1>3
<1>7. CASE q.shuffle
  <2>1. m \in ShuffledAroundCurrent(fresh)
    BY <1>1, <1>7 DEF Replaced
  <2>2. fresh.shuffle = TRUE
    BY <1>5, <1>7
  <2>3. QED
    BY <1>3, <1>4, <1>5, <1>6, <2>1, <2>2, ShuffledAround
<1>8. CASE ~q.shuffle
  <2>1. m = fresh
    BY <1>1, <1>8 DEF Replaced
  <2>2. QED
    BY <1>3, <1>4, <1>5, <1>6, <2>1 DEF Sound, IsShuffled
<1>9. QED
  BY <1>7, <1>8

(* Turning shuffle on or off leaves the current entry current.             *)
LEMMA SoundWithShuffle ==
  ASSUME NEW q, Sound(q), NEW enabled \in BOOLEAN, NEW m \in WithShuffle(q, enabled)
  PROVE  /\ Sound(m)
         /\ HasCurrent(q) => HasCurrent(m) /\ CurrentId(m) = CurrentId(q)
<1>1. PICK on : on = [q EXCEPT !.shuffle = enabled]
  OBVIOUS
<1>2. PICK at : at = IF HasCurrent(q) THEN IndexOf(q.arranged, CurrentId(q)) ELSE 1
  OBVIOUS
<1>3. PICK off : off = [on EXCEPT !.shuffled = NoOrder, !.current = at]
  OBVIOUS
<1>4. \/ q.shuffle = enabled /\ m = q
      \/ q.shuffle # enabled /\ IsEmpty(q) /\ m = on
      \/ q.shuffle # enabled /\ ~IsEmpty(q) /\ enabled /\ m \in ShuffledAroundCurrent(on)
      \/ q.shuffle # enabled /\ ~IsEmpty(q) /\ ~enabled /\ IsShuffled(q) /\ m = off
      \/ q.shuffle # enabled /\ ~IsEmpty(q) /\ ~enabled /\ ~IsShuffled(q) /\ m = on
  <2>1. m \in CASE q.shuffle = enabled -> {q}
                [] q.shuffle # enabled /\ IsEmpty(q) -> {on}
                [] q.shuffle # enabled /\ ~IsEmpty(q) /\ enabled -> ShuffledAroundCurrent(on)
                [] OTHER -> {IF IsShuffled(q) THEN off ELSE on}
    BY <1>1, <1>2, <1>3 DEF WithShuffle
  <2>2. QED
    BY <2>1, Zenon
<1>5. /\ q.shuffle \in BOOLEAN /\ q.repeat \in RepeatModes
      /\ DOMAIN on = {"arranged", "shuffled", "current", "repeat", "shuffle", "nextId"}
      /\ on.arranged = q.arranged /\ on.shuffled = q.shuffled /\ on.current = q.current
      /\ on.nextId = q.nextId /\ on.repeat = q.repeat /\ on.shuffle = enabled
      /\ DOMAIN off = {"arranged", "shuffled", "current", "repeat", "shuffle", "nextId"}
      /\ off.arranged = q.arranged /\ off.shuffled = NoOrder /\ off.current = at
      /\ off.nextId = q.nextId /\ off.repeat = q.repeat /\ off.shuffle = enabled
  BY <1>1, <1>3 DEF Sound
<1>6. PICK order : order = PlayOrder(q)
  OBVIOUS
<1>7. /\ Orderly(order, q.nextId) /\ ToSet(order) = ToSet(q.arranged)
      /\ Len(q.arranged) = Length(q) /\ Length(q) \in Nat
      /\ q.current \in 1..(Length(q) + 1)
      /\ HasCurrent(q) <=> q.current <= Length(q)
      /\ HasCurrent(q) => CurrentId(q) = order[q.current] /\ CurrentId(q) \in ToSet(order)
      /\ IsEmpty(q) <=> Length(q) = 0
      /\ q.nextId \in Nat \ {0} /\ Orderly(q.arranged, q.nextId)
  BY <1>6, SoundPlays
<1>8. CASE q.shuffle # enabled /\ IsEmpty(q) /\ m = on
  <2>1. ~HasCurrent(q)
    BY <1>7, <1>8
  <2>2. IsShuffled(m) <=> IsShuffled(q)
    BY <1>5, <1>8 DEF IsShuffled
  <2>3. IsEmpty(m)
    BY <1>5, <1>8 DEF IsEmpty
  <2>4. QED
    BY <1>5, <1>8, <2>1, <2>2, <2>3 DEF Sound
<1>9. CASE q.shuffle # enabled /\ ~IsEmpty(q) /\ enabled /\ m \in ShuffledAroundCurrent(on)
  <2>1. q.shuffle = FALSE
    BY <1>5, <1>9
  <2>2. ~IsShuffled(q)
    BY <1>9, <2>1 DEF Sound
  <2>3. order = q.arranged /\ Length(on) = Length(q)
    BY <1>5, <1>6, <2>2 DEF PlayOrder, Length
  <2>4. on.shuffle = TRUE /\ Len(on.arranged) > 0
    BY <1>5, <1>7, <1>9
  <2>5. /\ Orderly(on.arranged, on.nextId) /\ on.nextId \in Nat \ {0}
        /\ on.current \in 1..(Len(on.arranged) + 1) /\ on.repeat \in RepeatModes
    BY <1>5, <1>7
  <2>6. /\ Sound(m)
        /\ on.current <= Length(on) => HasCurrent(m) /\ CurrentId(m) = on.arranged[on.current]
    BY <1>5, <1>9, <2>4, <2>5, ShuffledAround
  <2>7. QED
    BY <1>5, <1>7, <2>3, <2>6
<1>10. CASE q.shuffle # enabled /\ ~IsEmpty(q) /\ ~enabled /\ IsShuffled(q) /\ m = off
  <2>1. HasCurrent(q) => at \in 1..Length(q) /\ q.arranged[at] = CurrentId(q)
    BY <1>2, <1>7, Found1
  <2>2. at \in 1..(Length(q) + 1)
    BY <1>2, <1>7, <2>1
  <2>3. ~IsShuffled(m) /\ PlayOrder(m) = q.arranged
    BY <1>5, <1>10 DEF IsShuffled, PlayOrder
  <2>4. Sound(m)
    BY <1>5, <1>7, <1>10, <2>2, <2>3 DEF Sound
  <2>5. DOMAIN q.arranged = 1..Length(q)
    BY <1>7, Members
  <2>6. QED
    BY <1>5, <1>10, <2>1, <2>3, <2>4, <2>5 DEF HasCurrent, CurrentId
<1>11. CASE q.shuffle # enabled /\ ~IsEmpty(q) /\ ~enabled /\ ~IsShuffled(q) /\ m = on
  <2>1. ~IsShuffled(m) /\ PlayOrder(m) = PlayOrder(q)
    BY <1>5, <1>11 DEF IsShuffled, PlayOrder
  <2>2. Sound(m)
    BY <1>5, <1>7, <1>11, <2>1 DEF Sound
  <2>3. QED
    BY <1>5, <1>11, <2>1, <2>2 DEF HasCurrent, CurrentId
<1>12. QED
  BY <1>4, <1>8, <1>9, <1>10, <1>11

LEMMA SoundRestored ==
  ASSUME NEW q, Sound(q), NEW before, Sound(before), NEW m \in Restored(q, before)
  PROVE  /\ Sound(m)
         /\ HasCurrent(before) => HasCurrent(m) /\ CurrentId(m) = CurrentId(before)
<1>1. PICK id : id = IF q.nextId >= before.nextId THEN q.nextId ELSE before.nextId
  OBVIOUS
<1>2. PICK b : b = [before EXCEPT !.repeat = q.repeat, !.nextId = id]
  OBVIOUS
<1>3. m \in WithShuffle(b, q.shuffle)
  BY <1>1, <1>2 DEF Restored
<1>4. /\ DOMAIN b = DOMAIN before /\ b.current = before.current /\ b.arranged = before.arranged
      /\ b.shuffled = before.shuffled /\ b.repeat = q.repeat /\ b.shuffle = before.shuffle
      /\ b.nextId = id
  BY <1>2 DEF Sound
<1>5. /\ before.nextId \in Nat /\ id \in Nat \ {0} /\ before.nextId <= id
  BY <1>1 DEF Sound
<1>6. (IsShuffled(b) <=> IsShuffled(before)) /\ (IsEmpty(b) <=> IsEmpty(before))
  BY <1>4 DEF IsShuffled, IsEmpty
<1>7. Orderly(before.arranged, id)
  BY <1>5, OrderlyLater DEF Sound
<1>8. IsShuffled(before) => Orderly(before.shuffled, id)
  BY <1>5, OrderlyLater DEF Sound
<1>9. q.repeat \in RepeatModes /\ q.shuffle \in BOOLEAN
  BY DEF Sound
<1>10. Sound(b)
  BY <1>4, <1>5, <1>6, <1>7, <1>8, <1>9 DEF Sound
<1>11. PlayOrder(b) = PlayOrder(before)
  BY <1>4, <1>6 DEF PlayOrder
<1>12. HasCurrent(before) => HasCurrent(b) /\ CurrentId(b) = CurrentId(before)
  BY <1>4, <1>11 DEF HasCurrent, CurrentId
<1>13. QED
  BY <1>3, <1>9, <1>10, <1>12, SoundWithShuffle

-----------------------------------------------------------------------------
(* The entries after the current one, and those up to it.                  *)
LEMMA SoundUpcoming ==
  ASSUME NEW q, Sound(q)
  PROVE  LET order == PlayOrder(q)
         IN /\ \A id \in UpcomingIds(q) :
                 \E i \in 1..Length(q) : q.current < i /\ order[i] = id
            /\ \A i \in 1..Length(q) : q.current < i => order[i] \in UpcomingIds(q)
            /\ \A id \in UpcomingIds(q), j \in 1..Length(q) :
                 j <= q.current => order[j] # id
<1>1. PICK order : order = PlayOrder(q)
  OBVIOUS
<1>2. /\ Orderly(order, q.nextId) /\ Len(order) = Length(q) /\ Length(q) \in Nat
      /\ q.current \in 1..(Length(q) + 1)
  BY <1>1, SoundPlays
<1>3. \A i, j \in 1..Length(q) : order[i] = order[j] => i = j
  BY <1>2, Members
<1>4. PICK u : u = SubSeq(order, q.current + 1, Len(order))
  OBVIOUS
<1>5. UpcomingIds(q) = ToSet(u)
  BY <1>1, <1>4 DEF UpcomingIds, Upcoming
<1>6. CASE q.current <= Length(q)
  <2>1. q.current + 1 \in 1..(Len(order) + 1) /\ Len(order) \in 0..Len(order)
    BY <1>2, <1>6
  <2>2. /\ Orderly(u, q.nextId)
        /\ Len(u) = IF q.current + 1 <= Len(order) THEN Len(order) - (q.current + 1) + 1 ELSE 0
        /\ \A i \in 1..Len(u) : u[i] = order[q.current + 1 + i - 1]
                                /\ q.current + 1 + i - 1 \in (q.current + 1)..Len(order)
    BY <1>2, <1>4, <2>1, OrderlyPart
  <2>3. /\ \A i \in 1..Len(u) : u[i] \in ToSet(u)
        /\ \A id \in ToSet(u) : \E i \in 1..Len(u) : u[i] = id
    BY <2>2, Members
  <2>4. ASSUME NEW id \in UpcomingIds(q)
        PROVE  \E i \in 1..Length(q) : q.current < i /\ order[i] = id
    <3>1. PICK k \in 1..Len(u) : u[k] = id
      BY <1>5, <2>3
    <3>2. PICK i : i = q.current + 1 + k - 1
      OBVIOUS
    <3>3. order[i] = id /\ i \in (q.current + 1)..Len(order)
      BY <2>2, <3>1, <3>2
    <3>4. i \in 1..Length(q) /\ q.current < i
      BY <1>2, <3>3
    <3>5. QED
      BY <3>3, <3>4
  <2>5. ASSUME NEW i \in 1..Length(q), q.current < i
        PROVE  order[i] \in UpcomingIds(q)
    <3>1. PICK k : k = i - q.current
      OBVIOUS
    <3>2. k \in 1..Len(u) /\ q.current + 1 + k - 1 = i
      BY <1>2, <1>6, <2>2, <2>5, <3>1
    <3>3. QED
      BY <1>5, <2>2, <2>3, <3>2
  <2>6. ASSUME NEW id \in UpcomingIds(q), NEW j \in 1..Length(q), j <= q.current
        PROVE  order[j] # id
    <3>1. PICK i \in 1..Length(q) : q.current < i /\ order[i] = id
      BY <2>4
    <3>2. i # j
      BY <1>2, <2>6, <3>1
    <3>3. QED
      BY <1>3, <3>1, <3>2
  <2>7. QED
    BY <1>1, <2>4, <2>5, <2>6
<1>7. CASE ~(q.current <= Length(q))
  <2>1. q.current + 1 > Len(order) /\ order \in Seq(Nat \ {0}) /\ Len(order) \in Nat
    BY <1>2, <1>7 DEF Orderly
  <2>2. u = <<>>
    BY <1>2, <1>4, <2>1, SubSeqProperties
  <2>3. UpcomingIds(q) = {}
    BY <1>5, <2>2 DEF ToSet
  <2>4. \A i \in 1..Length(q) : ~(q.current < i)
    BY <1>2, <1>7
  <2>5. QED
    BY <2>3, <2>4
<1>8. QED
  BY <1>6, <1>7

LEMMA SoundWithoutEntries ==
  ASSUME NEW q, Sound(q), NEW gone
  PROVE  Sound(WithoutEntries(q, gone))
<1>1. PICK m : m = WithoutEntries(q, gone)
  OBVIOUS
<1>2. PICK order : order = PlayOrder(q)
  OBVIOUS
<1>3. PICK arranged : arranged = Retain(q.arranged, gone)
  OBVIOUS
<1>4. PICK left : left = Retain(order, gone)
  OBVIOUS
<1>5. PICK at : at = Len(Retain(SubSeq(order, 1, q.current - 1), gone)) + 1
  OBVIOUS
<1>6. /\ Orderly(order, q.nextId) /\ ToSet(order) = ToSet(q.arranged)
      /\ Len(order) = Length(q) /\ Length(q) \in Nat /\ order \in Seq(Nat \ {0})
      /\ q.current \in 1..(Length(q) + 1) /\ (IsEmpty(q) <=> Length(q) = 0)
      /\ q.nextId \in Nat \ {0} /\ Orderly(q.arranged, q.nextId) /\ Len(q.arranged) = Length(q)
  BY <1>2, SoundPlays
<1>7. /\ Orderly(arranged, q.nextId) /\ ToSet(arranged) = ToSet(q.arranged) \ gone
      /\ Orderly(left, q.nextId) /\ ToSet(left) = ToSet(q.arranged) \ gone
  BY <1>3, <1>4, <1>6, RetainedMembers
<1>8. Len(left) = Len(arranged)
  BY <1>7, SameLength
<1>9. at \in 1..(Len(left) + 1)
  BY <1>4, <1>5, <1>6, PositionFollows
<1>10. /\ DOMAIN m = {"arranged", "shuffled", "current", "repeat", "shuffle", "nextId"}
       /\ m.arranged = arranged /\ m.current = at
       /\ m.shuffled = IF IsShuffled(q) THEN left ELSE NoOrder
       /\ m.repeat = q.repeat /\ m.shuffle = q.shuffle /\ m.nextId = q.nextId
  <2>1. IsShuffled(q) => order = q.shuffled
    BY <1>2 DEF PlayOrder
  <2>2. m = [q EXCEPT !.arranged = arranged,
                      !.shuffled = IF IsShuffled(q) THEN left ELSE NoOrder, !.current = at]
    BY <1>1, <1>2, <1>3, <1>4, <1>5, <2>1 DEF WithoutEntries, History
  <2>3. QED
    BY <2>2 DEF Sound
<1>11. IsEmpty(q) => IsEmpty(m)
  <2>1. q.arranged \in Seq(Nat \ {0})
    BY <1>6 DEF Orderly
  <2>2. Len(arranged) <= Len(q.arranged)
    BY <1>3, <2>1, RetainKeeps
  <2>3. arranged \in Seq(Nat \ {0}) /\ Len(arranged) \in Nat
    BY <1>7 DEF Orderly
  <2>4. QED
    BY <1>6, <1>10, <2>2, <2>3, EmptySeq DEF IsEmpty
<1>12. IsShuffled(m) => IsShuffled(q)
  BY <1>10 DEF IsShuffled
<1>13. IsShuffled(m) =>
         /\ Orderly(m.shuffled, m.nextId) /\ ToSet(m.shuffled) = ToSet(m.arranged)
         /\ m.shuffle \/ IsEmpty(m)
  BY <1>7, <1>10, <1>11, <1>12 DEF Sound
<1>14. m.current \in 1..(Len(m.arranged) + 1)
  BY <1>8, <1>9, <1>10
<1>15. m.repeat \in RepeatModes /\ m.shuffle \in BOOLEAN
  BY <1>10 DEF Sound
<1>16. QED
  BY <1>1, <1>6, <1>7, <1>10, <1>13, <1>14, <1>15 DEF Sound

(* A new order of what plays, with the arranged order that goes with it.   *)
LEMMA SoundReordered ==
  ASSUME NEW q, Sound(q), HasCurrent(q), NEW order, NEW arranged, NEW nextId \in Nat \ {0},
         Orderly(order, nextId), Orderly(arranged, nextId), ToSet(order) = ToSet(arranged),
         q.current <= Len(order), ~IsShuffled(q) => arranged = order,
         NEW m, DOMAIN m = DOMAIN q, m.arranged = arranged,
         m.shuffled = IF IsShuffled(q) THEN order ELSE q.shuffled,
         m.current = q.current, m.repeat = q.repeat, m.shuffle = q.shuffle, m.nextId = nextId
  PROVE  /\ Sound(m) /\ PlayOrder(m) = order /\ HasCurrent(m)
         /\ CurrentId(m) = order[q.current]
<1>1. Len(order) = Len(arranged) /\ Len(order) \in Nat
  BY SameLength, Members
<1>2. q.current \in 1..(Length(q) + 1) /\ ~IsEmpty(q)
  BY SoundPlays
<1>3. IsShuffled(m) => IsShuffled(q)
  BY DEF IsShuffled
<1>4. IsShuffled(q) => IsShuffled(m) /\ q.shuffle
  <2>1. order # NoOrder
    BY NoOrderAssumption DEF Orderly
  <2>2. QED
    BY <1>2, <2>1 DEF IsShuffled, Sound
<1>5. PlayOrder(m) = order
  BY <1>3, <1>4 DEF PlayOrder
<1>6. m.current \in 1..(Len(m.arranged) + 1) /\ q.current \in 1..Len(order)
  BY <1>1, <1>2
<1>7. Sound(m)
  BY <1>3, <1>4, <1>6 DEF Sound
<1>8. DOMAIN order = 1..Len(order)
  BY Members
<1>9. QED
  BY <1>5, <1>6, <1>7, <1>8 DEF HasCurrent, CurrentId

(* What goes from the order that plays goes from the arranged one too.     *)
LEMMA SoundWithoutUpcoming ==
  ASSUME NEW q, Sound(q), Upcoming(q) # <<>>
  PROVE  Sound(WithoutUpcoming(q))
<1>1. PICK order : order = PlayOrder(q)
  OBVIOUS
<1>2. /\ Orderly(order, q.nextId) /\ ToSet(order) = ToSet(q.arranged)
      /\ Len(order) = Length(q) /\ Length(q) \in Nat /\ order \in Seq(Nat \ {0})
      /\ q.current \in 1..(Length(q) + 1) /\ (HasCurrent(q) <=> q.current <= Length(q))
      /\ q.nextId \in Nat \ {0} /\ Orderly(q.arranged, q.nextId)
  BY <1>1, SoundPlays
<1>3. HasCurrent(q)
  <2>1. SUFFICES ASSUME ~(q.current <= Length(q))
                 PROVE  FALSE
    BY <1>2
  <2>2. q.current + 1 > Len(order)
    BY <1>2, <2>1
  <2>3. SubSeq(order, q.current + 1, Len(order)) = <<>>
    BY <1>2, <2>2, SubSeqProperties
  <2>4. QED
    BY <1>1, <2>3 DEF Upcoming
<1>4. PICK part : part = SubSeq(order, 1, q.current)
  OBVIOUS
<1>5. PICK arranged : arranged = Retain(q.arranged, UpcomingIds(q))
  OBVIOUS
<1>6. /\ Orderly(part, q.nextId) /\ Len(part) = q.current
      /\ \A i \in 1..q.current : part[i] = order[i]
  <2>1. q.current \in 0..Len(order) /\ 1 \in 1..(Len(order) + 1)
    BY <1>2, <1>3
  <2>2. /\ Orderly(part, q.nextId)
        /\ Len(part) = IF 1 <= q.current THEN q.current - 1 + 1 ELSE 0
        /\ \A i \in 1..Len(part) : part[i] = order[1 + i - 1]
    BY <1>2, <1>4, <2>1, OrderlyPart
  <2>3. Len(part) = q.current /\ \A i \in 1..q.current : 1 + i - 1 = i
    BY <1>2, <2>2
  <2>4. QED
    BY <2>2, <2>3
<1>7. Orderly(arranged, q.nextId) /\ ToSet(arranged) = ToSet(order) \ UpcomingIds(q)
  BY <1>2, <1>5, RetainedMembers
<1>8. ToSet(part) = ToSet(order) \ UpcomingIds(q)
  <2>1. /\ \A i \in 1..Length(q) : q.current < i => order[i] \in UpcomingIds(q)
        /\ \A id \in UpcomingIds(q), j \in 1..Length(q) : j <= q.current => order[j] # id
    BY <1>1, SoundUpcoming
  <2>2. /\ \A i \in 1..Length(q) : order[i] \in ToSet(order)
        /\ \A id \in ToSet(order) : \E i \in 1..Length(q) : order[i] = id
    BY <1>2, Members
  <2>3. /\ \A i \in 1..q.current : part[i] \in ToSet(part)
        /\ \A id \in ToSet(part) : \E i \in 1..q.current : part[i] = id
    BY <1>6, Members
  <2>4. \A i \in 1..q.current : i \in 1..Length(q) /\ i <= q.current
    BY <1>2, <1>3
  <2>5. ASSUME NEW id \in ToSet(part)
        PROVE  id \in ToSet(order) \ UpcomingIds(q)
    BY <1>6, <2>1, <2>2, <2>3, <2>4
  <2>6. ASSUME NEW id \in ToSet(order), id \notin UpcomingIds(q)
        PROVE  id \in ToSet(part)
    <3>1. PICK i \in 1..Length(q) : order[i] = id
      BY <2>2
    <3>2. i \in 1..q.current
      BY <1>2, <2>1, <2>6, <3>1
    <3>3. QED
      BY <1>6, <2>3, <3>1, <3>2
  <2>7. QED
    BY <2>5, <2>6
<1>9. PICK m : m = WithoutUpcoming(q)
  OBVIOUS
<1>10. /\ DOMAIN m = DOMAIN q /\ m.arranged = arranged
       /\ m.shuffled = IF IsShuffled(q) THEN part ELSE q.shuffled
       /\ m.current = q.current /\ m.repeat = q.repeat /\ m.shuffle = q.shuffle
       /\ m.nextId = q.nextId
  <2>1. m = [WithPlayOrder(q, part) EXCEPT !.arranged = arranged]
    BY <1>1, <1>4, <1>5, <1>9 DEF WithoutUpcoming
  <2>2. QED
    BY <2>1 DEF WithPlayOrder, Sound
<1>11. ~IsShuffled(q) => arranged = part
  <2>1. SUFFICES ASSUME ~IsShuffled(q)
                 PROVE  arranged = part
    OBVIOUS
  <2>2. order = q.arranged
    BY <1>1, <2>1 DEF PlayOrder
  <2>3. \A j \in 1..q.current : order[j] \notin UpcomingIds(q)
    <3>1. \A id \in UpcomingIds(q), j \in 1..Length(q) : j <= q.current => order[j] # id
      BY <1>1, SoundUpcoming
    <3>2. \A j \in 1..q.current : j \in 1..Length(q) /\ j <= q.current
      BY <1>2, <1>3
    <3>3. QED
      BY <3>1, <3>2
  <2>4. q.current \in 0..Len(order)
    BY <1>2, <1>3
  <2>5. \A j \in 1..q.current : arranged[j] = order[j]
    BY <1>2, <1>5, <2>2, <2>3, <2>4, BeginningStays
  <2>6. Len(arranged) = q.current
    BY <1>6, <1>7, <1>8, SameLength
  <2>7. arranged \in Seq(Nat \ {0}) /\ part \in Seq(Nat \ {0})
    BY <1>6, <1>7 DEF Orderly
  <2>8. QED
    BY <1>6, <2>5, <2>6, <2>7, SeqEqual
<1>12. q.current <= Len(part)
  BY <1>2, <1>6
<1>13. QED
  BY <1>2, <1>3, <1>6, <1>7, <1>8, <1>9, <1>10, <1>11, <1>12, SoundReordered

LEMMA SoundWithoutUpcomingEntry ==
  ASSUME NEW q, Sound(q), NEW id \in UpcomingIds(q)
  PROVE  Sound(WithoutUpcomingEntry(q, id))
<1>1. PICK order : order = PlayOrder(q)
  OBVIOUS
<1>2. /\ Orderly(order, q.nextId) /\ ToSet(order) = ToSet(q.arranged)
      /\ Len(order) = Length(q) /\ Length(q) \in Nat /\ order \in Seq(Nat \ {0})
      /\ q.current \in 1..(Length(q) + 1) /\ (HasCurrent(q) <=> q.current <= Length(q))
      /\ q.nextId \in Nat \ {0} /\ Orderly(q.arranged, q.nextId)
  BY <1>1, SoundPlays
<1>3. /\ \E i \in 1..Length(q) : q.current < i /\ order[i] = id
      /\ \A j \in 1..Length(q) : j <= q.current => order[j] # id
  BY <1>1, SoundUpcoming
<1>4. q.current < Length(q) /\ HasCurrent(q)
  BY <1>2, <1>3
<1>5. PICK left : left = Retain(order, {id})
  OBVIOUS
<1>6. PICK arranged : arranged = Retain(q.arranged, {id})
  OBVIOUS
<1>7. /\ Orderly(left, q.nextId) /\ ToSet(left) = ToSet(order) \ {id}
      /\ Orderly(arranged, q.nextId) /\ ToSet(arranged) = ToSet(order) \ {id}
  BY <1>2, <1>5, <1>6, RetainedMembers
<1>8. q.current <= Len(left)
  <2>1. q.current \in 0..Len(order) /\ \A j \in 1..q.current : order[j] \notin {id}
    BY <1>2, <1>3, <1>4
  <2>2. QED
    BY <1>2, <1>5, <2>1, BeginningStays
<1>9. ~IsShuffled(q) => arranged = left
  BY <1>1, <1>5, <1>6 DEF PlayOrder
<1>10. PICK m : m = WithoutUpcomingEntry(q, id)
  OBVIOUS
<1>11. /\ DOMAIN m = DOMAIN q /\ m.arranged = arranged
       /\ m.shuffled = IF IsShuffled(q) THEN left ELSE q.shuffled
       /\ m.current = q.current /\ m.repeat = q.repeat /\ m.shuffle = q.shuffle
       /\ m.nextId = q.nextId
  <2>1. m = IF IsShuffled(q) THEN [WithPlayOrder(q, left) EXCEPT !.arranged = arranged]
                             ELSE WithPlayOrder(q, left)
    BY <1>1, <1>5, <1>6, <1>10 DEF WithoutUpcomingEntry
  <2>2. QED
    BY <1>9, <2>1 DEF WithPlayOrder, Sound
<1>12. QED
  BY <1>2, <1>4, <1>7, <1>8, <1>9, <1>10, <1>11, SoundReordered

LEMMA SoundMoved ==
  ASSUME NEW q, Sound(q), NEW id \in UpcomingIds(q), NEW to \in Nat
  PROVE  Sound(WithMoved(q, id, to))
<1>1. PICK order : order = PlayOrder(q)
  OBVIOUS
<1>2. /\ Orderly(order, q.nextId) /\ ToSet(order) = ToSet(q.arranged)
      /\ Len(order) = Length(q) /\ Length(q) \in Nat /\ order \in Seq(Nat \ {0})
      /\ q.current \in 1..(Length(q) + 1) /\ (HasCurrent(q) <=> q.current <= Length(q))
      /\ q.nextId \in Nat \ {0} /\ Orderly(q.arranged, q.nextId)
  BY <1>1, SoundPlays
<1>3. /\ \E i \in 1..Length(q) : q.current < i /\ order[i] = id
      /\ \A j \in 1..Length(q) : j <= q.current => order[j] # id
  BY <1>1, SoundUpcoming
<1>4. q.current < Length(q) /\ HasCurrent(q) /\ id \in ToSet(order)
  BY <1>2, <1>3, Members
<1>5. PICK target : target = MoveTarget(q, to)
  OBVIOUS
<1>6. target \in (q.current + 1)..Length(q)
  BY <1>2, <1>4, <1>5 DEF MoveTarget
<1>7. PICK left : left = Retain(order, {id})
  OBVIOUS
<1>8. PICK rest : rest = Retain(q.arranged, {id})
  OBVIOUS
<1>9. /\ Orderly(left, q.nextId) /\ ToSet(left) = ToSet(order) \ {id}
      /\ Orderly(rest, q.nextId) /\ ToSet(rest) = ToSet(order) \ {id}
  BY <1>2, <1>7, <1>8, RetainedMembers
<1>10. PICK one : one = <<id>>
  OBVIOUS
<1>11. Orderly(one, q.nextId) /\ Len(one) = 1 /\ one[1] = id /\ ToSet(one) = {id}
  <2>1. id \in Nat \ {0} /\ id < q.nextId
    BY <1>2, <1>4, Members
  <2>2. QED
    BY <1>10, <2>1 DEF Orderly, IsInjective, ToSet
<1>12. /\ \A i \in 1..Len(left), j \in 1..Len(one) : left[i] # one[j]
       /\ \A i \in 1..Len(rest), j \in 1..Len(one) : rest[i] # one[j]
  BY <1>9, <1>11, Members
<1>13. Len(left) + 1 = Length(q) /\ Len(left) \in Nat /\ Len(rest) = Len(left)
  <2>1. PICK s : s = Splice(left, 1, one)
    OBVIOUS
  <2>2. 1 \in 1..(Len(left) + 1) /\ Len(left) \in Nat
    BY <1>9, Members
  <2>3. Orderly(s, q.nextId) /\ Len(s) = Len(left) + Len(one) /\ ToSet(s) = ToSet(left) \cup ToSet(one)
    BY ONLY <1>9, <1>11, <1>12, <2>1, <2>2, SplicedMembers
  <2>4. ToSet(s) = ToSet(order)
    BY <1>4, <1>9, <1>11, <2>3
  <2>5. Len(s) = Len(order)
    BY <1>2, <2>3, <2>4, SameLength
  <2>6. Len(rest) = Len(left)
    BY <1>9, SameLength
  <2>7. QED
    BY <1>2, <1>11, <2>2, <2>3, <2>5, <2>6
<1>14. PICK arrived : arrived = Splice(left, target, one)
  OBVIOUS
<1>15. /\ Orderly(arrived, q.nextId) /\ Len(arrived) = Length(q)
       /\ \A i \in 1..(target - 1) : arrived[i] = left[i]
       /\ ToSet(arrived) = ToSet(order)
  <2>1. target \in 1..(Len(left) + 1)
    BY <1>2, <1>6, <1>13
  <2>2. /\ Orderly(arrived, q.nextId) /\ Len(arrived) = Len(left) + Len(one)
        /\ ToSet(arrived) = ToSet(left) \cup ToSet(one)
    BY ONLY <1>9, <1>11, <1>12, <1>14, <2>1, SplicedMembers
  <2>3. \A i \in 1..(target - 1) : Splice(left, target, one)[i] = left[i]
    BY ONLY <1>9, <1>11, <1>12, <2>1, SplicedPlaces
  <2>4. QED
    BY <1>4, <1>9, <1>11, <1>13, <1>14, <2>2, <2>3
<1>16. PICK after : after = IndexOf(rest, arrived[target - 1]) + 1
  OBVIOUS
<1>17. after \in 1..(Len(rest) + 1)
  <2>1. target - 1 \in 1..(target - 1) /\ target - 1 \in 1..Len(left)
    BY <1>2, <1>6, <1>13
  <2>2. arrived[target - 1] \in ToSet(rest)
    BY <1>9, <1>15, <2>1, Members
  <2>3. IndexOf(rest, arrived[target - 1]) \in 1..Len(rest)
    BY <1>9, <2>2, Found1
  <2>4. QED
    BY <1>13, <1>16, <2>3
<1>18. PICK arranged : arranged = IF IsShuffled(q) THEN Splice(rest, after, one) ELSE arrived
  OBVIOUS
<1>19. Orderly(arranged, q.nextId) /\ ToSet(arranged) = ToSet(arrived)
  <2>1. PICK s : s = Splice(rest, after, one)
    OBVIOUS
  <2>2. Orderly(s, q.nextId) /\ ToSet(s) = ToSet(rest) \cup ToSet(one)
    BY ONLY <1>9, <1>11, <1>12, <1>17, <2>1, SplicedMembers
  <2>3. QED
    BY <1>4, <1>9, <1>11, <1>15, <1>18, <2>1, <2>2
<1>20. PICK m : m = WithMoved(q, id, to)
  OBVIOUS
<1>21. /\ DOMAIN m = DOMAIN q /\ m.arranged = arranged
       /\ m.shuffled = IF IsShuffled(q) THEN arrived ELSE q.shuffled
       /\ m.current = q.current /\ m.repeat = q.repeat /\ m.shuffle = q.shuffle
       /\ m.nextId = q.nextId
  <2>1. InsertAt(left, target, id) = arrived
    BY <1>10, <1>14 DEF InsertAt, Splice
  <2>2. m = IF IsShuffled(q)
            THEN [WithPlayOrder(q, arrived) EXCEPT !.arranged = Splice(rest, after, one)]
            ELSE WithPlayOrder(q, arrived)
    BY <1>1, <1>5, <1>7, <1>8, <1>10, <1>16, <1>20, <2>1 DEF WithMoved
  <2>3. QED
    BY <1>18, <2>2 DEF WithPlayOrder, Sound
<1>22. q.current <= Len(arrived) /\ (~IsShuffled(q) => arranged = arrived)
  BY <1>2, <1>4, <1>15, <1>18
<1>23. QED
  BY <1>2, <1>4, <1>15, <1>19, <1>20, <1>21, <1>22, SoundReordered

LEMMA SoundJumped ==
  ASSUME NEW q, Sound(q), NEW id \in ToSet(PlayOrder(q))
  PROVE  Sound(JumpedTo(q, id))
<1>1. Orderly(PlayOrder(q), q.nextId) /\ Len(PlayOrder(q)) = Length(q) /\ Length(q) \in Nat
  BY SoundPlays
<1>2. IndexOf(PlayOrder(q), id) \in 1..Len(PlayOrder(q))
  BY <1>1, Found1
<1>3. IndexOf(PlayOrder(q), id) \in 1..(Length(q) + 1)
  BY <1>1, <1>2
<1>4. QED
  BY <1>3, SoundMovesTo DEF JumpedTo

(* Where two orders with the same entries have the new ones, and what      *)
(* plays after the current entry when they were to be next.                *)
LEMMA SoundEnqueued ==
  ASSUME NEW q, Sound(q), HasCurrent(q), NEW n \in Nat, NEW next \in BOOLEAN
  PROVE  LET m == Enqueued(q, n, next)
         IN /\ Sound(m) /\ HasCurrent(m) /\ CurrentId(m) = CurrentId(q)
            /\ next /\ n > 0 =>
                 /\ m.current < Length(m) /\ PlayOrder(m)[m.current + 1] = q.nextId
                 /\ m.arranged[IndexOf(m.arranged, CurrentId(m)) + 1] = q.nextId
<1>1. PICK order : order = PlayOrder(q)
  OBVIOUS
<1>2. /\ Orderly(order, q.nextId) /\ ToSet(order) = ToSet(q.arranged)
      /\ Len(order) = Length(q) /\ Length(q) \in Nat /\ Len(q.arranged) = Length(q)
      /\ q.current \in 1..Length(q) /\ CurrentId(q) = order[q.current]
      /\ CurrentId(q) \in ToSet(order)
      /\ q.nextId \in Nat \ {0} /\ Orderly(q.arranged, q.nextId)
  <2>1. /\ Orderly(order, q.nextId) /\ ToSet(order) = ToSet(q.arranged)
        /\ Len(order) = Length(q) /\ Length(q) \in Nat /\ Len(q.arranged) = Length(q)
        /\ q.current \in 1..(Length(q) + 1) /\ (HasCurrent(q) <=> q.current <= Length(q))
        /\ HasCurrent(q) => CurrentId(q) = order[q.current] /\ CurrentId(q) \in ToSet(order)
        /\ q.nextId \in Nat \ {0} /\ Orderly(q.arranged, q.nextId)
    BY <1>1, SoundPlays
  <2>2. QED
    BY <2>1
<1>3. PICK new : new = NewIds(q, n)
  OBVIOUS
<1>4. PICK nextId : nextId = q.nextId + n
  OBVIOUS
<1>5. nextId \in Nat \ {0}
  BY <1>2, <1>4
<1>6. /\ Orderly(new, nextId) /\ Len(new) = n
      /\ n > 0 => new[1] = q.nextId
  <2>1. Orderly(new, nextId) /\ Len(new) = n
    BY <1>2, <1>3, <1>4, NewIdsOrderly
  <2>2. n > 0 => new[1] = q.nextId
    BY <1>2, <1>3 DEF NewIds
  <2>3. QED
    BY <2>1, <2>2
<1>7. /\ Orderly(order, nextId)
      /\ \A i \in 1..Len(order), j \in 1..Len(new) : order[i] # new[j]
  BY <1>2, <1>3, <1>4, NewIdsAreNew
<1>8. /\ Orderly(q.arranged, nextId)
      /\ \A i \in 1..Len(q.arranged), j \in 1..Len(new) : q.arranged[i] # new[j]
  BY <1>2, <1>3, <1>4, NewIdsAreNew
<1>9. PICK at : at = IF next THEN q.current + 1 ELSE Length(q) + 1
  OBVIOUS
<1>10. at \in 1..(Len(order) + 1) /\ q.current \in 1..(at - 1)
  BY <1>2, <1>9
<1>11. PICK k : k = IndexOf(q.arranged, CurrentId(q))
  OBVIOUS
<1>12. k \in 1..Length(q) /\ q.arranged[k] = CurrentId(q)
  BY <1>2, <1>11, Found1
<1>13. PICK arrangedAt : arrangedAt = IF next THEN k + 1 ELSE Length(q) + 1
  OBVIOUS
<1>14. arrangedAt \in 1..(Len(q.arranged) + 1) /\ k \in 1..(arrangedAt - 1)
  BY <1>2, <1>12, <1>13
<1>15. PICK played : played = Splice(order, at, new)
  OBVIOUS
<1>16. /\ Orderly(played, nextId) /\ Len(played) = Len(order) + Len(new)
       /\ ToSet(played) = ToSet(order) \cup ToSet(new)
  BY ONLY <1>6, <1>7, <1>10, <1>15, SplicedMembers
<1>17. /\ \A i \in 1..(at - 1) : Splice(order, at, new)[i] = order[i]
       /\ Len(new) > 0 => Splice(order, at, new)[at] = new[1]
  <2>1. \A i \in 1..(at - 1) : Splice(order, at, new)[i] = order[i]
    BY ONLY <1>6, <1>7, <1>10, SplicedPlaces
  <2>2. Len(new) > 0 => Splice(order, at, new)[at] = new[1]
    BY ONLY <1>6, <1>7, <1>10, SplicedPlaces
  <2>3. QED
    BY <2>1, <2>2
<1>18. PICK arranged : arranged = Splice(q.arranged, arrangedAt, new)
  OBVIOUS
<1>19. /\ Orderly(arranged, nextId) /\ Len(arranged) = Len(q.arranged) + Len(new)
       /\ ToSet(arranged) = ToSet(q.arranged) \cup ToSet(new)
  BY ONLY <1>6, <1>8, <1>14, <1>18, SplicedMembers
<1>20. /\ \A i \in 1..(arrangedAt - 1) : Splice(q.arranged, arrangedAt, new)[i] = q.arranged[i]
       /\ Len(new) > 0 => Splice(q.arranged, arrangedAt, new)[arrangedAt] = new[1]
  <2>1. \A i \in 1..(arrangedAt - 1) : Splice(q.arranged, arrangedAt, new)[i] = q.arranged[i]
    BY ONLY <1>6, <1>8, <1>14, SplicedPlaces
  <2>2. Len(new) > 0 => Splice(q.arranged, arrangedAt, new)[arrangedAt] = new[1]
    BY ONLY <1>6, <1>8, <1>14, SplicedPlaces
  <2>3. QED
    BY <2>1, <2>2
<1>21. ~IsShuffled(q) => arranged = played
  <2>1. SUFFICES ASSUME ~IsShuffled(q)
                 PROVE  arranged = played
    OBVIOUS
  <2>2. order = q.arranged
    BY <1>1, <2>1 DEF PlayOrder
  <2>3. k = q.current
    <3>1. \A i, j \in 1..Len(order) : order[i] = order[j] => i = j
      BY <1>2, Members
    <3>2. QED
      BY <1>2, <1>12, <2>2, <3>1
  <2>4. QED
    BY <1>9, <1>13, <1>15, <1>18, <2>2, <2>3
<1>22. PICK m : m = Enqueued(q, n, next)
  OBVIOUS
<1>23. /\ DOMAIN m = DOMAIN q /\ m.arranged = arranged
       /\ m.shuffled = IF IsShuffled(q) THEN played ELSE q.shuffled
       /\ m.current = q.current /\ m.repeat = q.repeat /\ m.shuffle = q.shuffle
       /\ m.nextId = nextId
  <2>1. arrangedAt = IF next /\ HasCurrent(q) THEN IndexOf(q.arranged, CurrentId(q)) + 1
                                              ELSE Length(q) + 1
    BY <1>11, <1>13
  <2>2. PICK added : added = WithPlayOrder(q, played)
    OBVIOUS
  <2>3. m = [added EXCEPT !.nextId = nextId,
                          !.arranged = IF IsShuffled(q) THEN arranged ELSE added.arranged]
    BY <1>1, <1>3, <1>4, <1>9, <1>15, <1>18, <1>22, <2>1, <2>2 DEF Enqueued
  <2>4. /\ DOMAIN added = DOMAIN q /\ (~IsShuffled(q) => added.arranged = played)
        /\ added.shuffled = IF IsShuffled(q) THEN played ELSE q.shuffled
        /\ added.current = q.current /\ added.repeat = q.repeat /\ added.shuffle = q.shuffle
        /\ DOMAIN q = {"arranged", "shuffled", "current", "repeat", "shuffle", "nextId"}
    BY <2>2 DEF WithPlayOrder, Sound
  <2>5. QED
    BY <1>21, <2>3, <2>4
<1>24. q.current <= Len(played) /\ Len(played) = Length(q) + n
  BY <1>2, <1>6, <1>16
<1>25. /\ Sound(m) /\ PlayOrder(m) = played /\ HasCurrent(m)
       /\ CurrentId(m) = played[q.current]
  <2>1. ToSet(played) = ToSet(arranged)
    BY <1>2, <1>16, <1>19
  <2>2. /\ m.arranged = arranged /\ m.current = q.current /\ m.nextId = nextId
        /\ m.shuffled = (IF IsShuffled(q) THEN played ELSE q.shuffled)
        /\ Orderly(played, nextId) /\ Orderly(arranged, nextId)
        /\ (~IsShuffled(q) => arranged = played) /\ q.current <= Len(played)
        /\ DOMAIN m = DOMAIN q /\ m.repeat = q.repeat /\ m.shuffle = q.shuffle
    BY <1>16, <1>19, <1>21, <1>23, <1>24
  <2>3. QED
    BY <1>5, <2>1, <2>2, SoundReordered
<1>26. CurrentId(m) = CurrentId(q)
  BY <1>2, <1>10, <1>15, <1>17, <1>25
<1>27. ASSUME next, n > 0
       PROVE  /\ m.current < Length(m) /\ PlayOrder(m)[m.current + 1] = q.nextId
              /\ m.arranged[IndexOf(m.arranged, CurrentId(m)) + 1] = q.nextId
  <2>1. at = q.current + 1 /\ arrangedAt = k + 1 /\ Len(new) > 0
    BY <1>6, <1>9, <1>13, <1>27
  <2>3. played[q.current + 1] = q.nextId
    BY <1>6, <1>15, <1>17, <1>27, <2>1
  <2>4. arranged[k + 1] = q.nextId /\ arranged[k] = CurrentId(q)
    BY <1>6, <1>12, <1>14, <1>18, <1>20, <1>27, <2>1
  <2>5. k \in 1..Len(arranged)
    BY <1>2, <1>6, <1>12, <1>19
  <2>6. IndexOf(arranged, CurrentId(q)) = k
    <3>1. \A i, j \in 1..Len(arranged) : arranged[i] = arranged[j] => i = j
      BY <1>19, Members
    <3>2. CurrentId(q) \in ToSet(arranged)
      BY <1>2, <1>19
    <3>3. /\ IndexOf(arranged, CurrentId(q)) \in 1..Len(arranged)
          /\ arranged[IndexOf(arranged, CurrentId(q))] = CurrentId(q)
      BY <1>19, <3>2, Found1
    <3>4. QED
      BY <2>4, <2>5, <3>1, <3>3
  <2>7. Len(arranged) = Length(q) + n
    BY <1>2, <1>6, <1>19
  <2>8. m.current < Length(m)
    BY <1>2, <1>23, <1>27, <2>7 DEF Length
  <2>9. QED
    BY <1>23, <1>25, <1>26, <2>3, <2>4, <2>6, <2>8
<1>28. QED
  BY <1>22, <1>25, <1>26, <1>27

-----------------------------------------------------------------------------
(* A queue that is shuffled again has the same entries.                    *)
LEMMA SoundWrapped ==
  ASSUME NEW q, Sound(q), ~IsEmpty(q), NEW m \in WrappedToStart(q)
  PROVE  Sound(m) /\ (~IsShuffled(q) => m = [q EXCEPT !.current = 1])
<1>1. 1 \in 1..(Length(q) + 1) /\ q.nextId \in Nat
  BY SoundPlays
<1>2. Sound([q EXCEPT !.current = 1])
  BY <1>1, SoundMovesTo
<1>3. CASE IsShuffled(q) /\ Len(q.shuffled) > 1
  <2>1. PICK order \in SetToSeqs(ToSet(q.shuffled)) :
          m = [q EXCEPT !.shuffled = order, !.current = 1]
    BY <1>3 DEF WrappedToStart
  <2>2. Orderly(q.shuffled, q.nextId) /\ ToSet(q.shuffled) = ToSet(q.arranged)
    BY <1>3 DEF Sound
  <2>3. PICK S : S = ToSet(q.shuffled)
    OBVIOUS
  <2>4. IsFiniteSet(S)
    BY <2>2, <2>3, LengthIsCount
  <2>5. S \subseteq Nat \ {0} /\ \A id \in S : id < q.nextId
    BY <2>2, <2>3, Members
  <2>6. Orderly(order, q.nextId) /\ ToSet(order) = S
    BY <1>1, <2>1, <2>3, <2>4, <2>5, AnyOrder
  <2>7. /\ DOMAIN m = DOMAIN q /\ m.current = 1 /\ m.arranged = q.arranged
        /\ m.shuffled = order /\ m.repeat = q.repeat /\ m.shuffle = q.shuffle
        /\ m.nextId = q.nextId
    BY <2>1 DEF Sound
  <2>8. 1 \in 1..(Len(m.arranged) + 1)
    BY <2>7, SoundPlays
  <2>9. q.shuffle
    BY <1>3 DEF Sound
  <2>10. Sound(m)
    BY <2>2, <2>3, <2>6, <2>7, <2>8, <2>9 DEF Sound
  <2>11. QED
    BY <1>3, <2>10
<1>4. CASE ~(IsShuffled(q) /\ Len(q.shuffled) > 1)
  <2>1. m = [q EXCEPT !.current = 1]
    BY <1>4 DEF WrappedToStart
  <2>2. QED
    BY <1>2, <2>1
<1>5. QED
  BY <1>3, <1>4

LEMMA SoundAdvanced ==
  ASSUME NEW q, Sound(q), NEW reason, NEW m \in Advanced(q, reason)
  PROVE  Sound(m)
<1>1. /\ Length(q) \in Nat /\ q.current \in 1..(Length(q) + 1)
      /\ (IsEmpty(q) <=> Length(q) = 0)
  BY SoundPlays
<1>2. /\ ~IsEmpty(q)
      /\ \/ m \in {q}
         \/ m \in IF q.current > 1 THEN {[q EXCEPT !.current = @ - 1]}
                  ELSE IF q.repeat = "all" THEN {[q EXCEPT !.current = Length(q)]} ELSE {}
         \/ m \in IF q.current < Length(q) THEN {[q EXCEPT !.current = @ + 1]}
                  ELSE IF q.repeat = "all" THEN WrappedToStart(q) ELSE {}
  BY Zenon DEF Advanced
<1>3. \/ m = q
      \/ \E at \in 1..(Length(q) + 1) : m = [q EXCEPT !.current = at]
      \/ m \in WrappedToStart(q)
  <2>1. CASE m \in {q}
    BY <2>1
  <2>2. CASE m \in IF q.current > 1 THEN {[q EXCEPT !.current = @ - 1]}
                   ELSE IF q.repeat = "all" THEN {[q EXCEPT !.current = Length(q)]} ELSE {}
    <3>1. Length(q) \in 1..(Length(q) + 1) /\ (q.current > 1 => q.current - 1 \in 1..(Length(q) + 1))
      BY <1>1, <1>2
    <3>2. QED
      BY <2>2, <3>1
  <2>3. CASE m \in IF q.current < Length(q) THEN {[q EXCEPT !.current = @ + 1]}
                   ELSE IF q.repeat = "all" THEN WrappedToStart(q) ELSE {}
    <3>1. q.current < Length(q) => q.current + 1 \in 1..(Length(q) + 1)
      BY <1>1
    <3>2. QED
      BY <2>3, <3>1
  <2>4. QED
    BY <1>2, <2>1, <2>2, <2>3
<1>4. QED
  BY <1>2, <1>3, SoundMovesTo, SoundWrapped

(* Where a move within an order leads.                                     *)
LEMMA MovedTo ==
  ASSUME NEW q, Sound(q), NEW at \in 1..Length(q)
  PROVE  LET m == [q EXCEPT !.current = at]
         IN HasCurrent(m) /\ CurrentId(m) = PlayOrder(q)[at]
<1>1. PICK m : m = [q EXCEPT !.current = at]
  OBVIOUS
<1>2. m.arranged = q.arranged /\ m.shuffled = q.shuffled /\ m.current = at
  BY <1>1 DEF Sound
<1>3. PlayOrder(m) = PlayOrder(q)
  BY <1>2 DEF PlayOrder, IsShuffled
<1>4. DOMAIN PlayOrder(q) = 1..Length(q)
  BY SoundPlays
<1>5. QED
  BY <1>1, <1>2, <1>3, <1>4 DEF HasCurrent, CurrentId

LEMMA SoundPeek ==
  ASSUME NEW q, Sound(q), NEW id \in PeekNatural(q)
  PROVE  /\ Advanced(q, "natural") # {}
         /\ \A m \in Advanced(q, "natural") : HasCurrent(m) /\ CurrentId(m) = id
<1>1. PICK order : order = PlayOrder(q)
  OBVIOUS
<1>2. /\ Length(q) \in Nat /\ q.current \in 1..(Length(q) + 1)
      /\ (IsEmpty(q) <=> Length(q) = 0)
  BY SoundPlays
<1>3. PICK next : next = Advanced(q, "natural")
  OBVIOUS
<1>4. /\ ~IsEmpty(q)
      /\ \/ q.repeat = "one" /\ HasCurrent(q) /\ id = CurrentId(q)
         \/ q.repeat # "one" /\ q.current < Length(q) /\ id = order[q.current + 1]
         \/ /\ q.repeat = "all" /\ ~(q.current < Length(q)) /\ ~IsShuffled(q)
            /\ id = order[1]
  <2>1. id \in CASE IsEmpty(q) -> {}
                 [] ~IsEmpty(q) /\ q.repeat = "one" ->
                      IF HasCurrent(q) THEN {CurrentId(q)} ELSE {}
                 [] ~IsEmpty(q) /\ q.repeat # "one" /\ q.current < Length(q) ->
                      {order[q.current + 1]}
                 [] OTHER -> IF q.repeat = "all" /\ ~IsShuffled(q) THEN {order[1]} ELSE {}
    BY <1>1 DEF PeekNatural
  <2>2. "all" # "one"
    OBVIOUS
  <2>3. QED
    BY <2>1, <2>2, Zenon
<1>5. /\ q.repeat = "one" => next = {q}
      /\ q.repeat # "one" =>
           next = IF q.current < Length(q) THEN {[q EXCEPT !.current = @ + 1]}
                  ELSE IF q.repeat = "all" THEN WrappedToStart(q) ELSE {}
  <2>1. "natural" # "previous"
    OBVIOUS
  <2>2. next = CASE IsEmpty(q) -> {}
                 [] ~IsEmpty(q) /\ "natural" = "natural" /\ q.repeat = "one" -> {q}
                 [] ~IsEmpty(q) /\ "natural" = "previous" ->
                      IF q.current > 1 THEN {[q EXCEPT !.current = @ - 1]}
                      ELSE IF q.repeat = "all" THEN {[q EXCEPT !.current = Length(q)]} ELSE {}
                 [] OTHER ->
                      IF q.current < Length(q) THEN {[q EXCEPT !.current = @ + 1]}
                      ELSE IF q.repeat = "all" THEN WrappedToStart(q) ELSE {}
    BY <1>3 DEF Advanced
  <2>3. QED
    BY <1>4, <2>1, <2>2, Zenon
<1>6. CASE q.repeat = "one" /\ HasCurrent(q) /\ id = CurrentId(q)
  BY <1>3, <1>5, <1>6
<1>7. CASE q.repeat # "one" /\ q.current < Length(q) /\ id = order[q.current + 1]
  <2>1. q.current + 1 \in 1..Length(q)
    BY <1>2, <1>7
  <2>2. next = {[q EXCEPT !.current = q.current + 1]}
    BY <1>5, <1>7
  <2>3. QED
    BY <1>1, <1>3, <1>7, <2>1, <2>2, MovedTo
<1>8. CASE q.repeat = "all" /\ ~(q.current < Length(q)) /\ ~IsShuffled(q) /\ id = order[1]
  <2>1. 1 \in 1..Length(q)
    BY <1>2, <1>4
  <2>2. next = {[q EXCEPT !.current = 1]}
    BY <1>5, <1>8 DEF WrappedToStart
  <2>3. QED
    BY <1>1, <1>3, <1>8, <2>1, <2>2, MovedTo
<1>9. QED
  BY <1>4, <1>6, <1>7, <1>8

(* When nothing is named there is nothing, or a shuffle still to come.     *)
LEMMA SoundNoPeek ==
  ASSUME NEW q, Sound(q), PeekNatural(q) = {}
  PROVE  Advanced(q, "natural") = {} \/ ~HasCurrent(q) \/ IsShuffled(q)
<1>1. SUFFICES ASSUME HasCurrent(q), ~IsShuffled(q)
               PROVE  Advanced(q, "natural") = {}
  OBVIOUS
<1>2. /\ \/ IsEmpty(q)
         \/ ~IsEmpty(q) /\ q.repeat # "one" /\ ~(q.current < Length(q)) /\ q.repeat # "all"
  <2>1. {} = CASE IsEmpty(q) -> {}
               [] ~IsEmpty(q) /\ q.repeat = "one" ->
                    IF HasCurrent(q) THEN {CurrentId(q)} ELSE {}
               [] ~IsEmpty(q) /\ q.repeat # "one" /\ q.current < Length(q) ->
                    {PlayOrder(q)[q.current + 1]}
               [] OTHER -> IF q.repeat = "all" /\ ~IsShuffled(q) THEN {PlayOrder(q)[1]} ELSE {}
    BY DEF PeekNatural
  <2>2. \A e : {e} # {}
    OBVIOUS
  <2>3. QED
    BY <1>1, <2>1, <2>2, Zenon
<1>3. "natural" # "previous"
  OBVIOUS
<1>4. QED
  BY <1>2, <1>3, Zenon DEF Advanced

-----------------------------------------------------------------------------
(* The queue after a step is sound, and what is kept is one of those there *)
(* were before.                                                            *)
LEMMA StepSound ==
  ASSUME IInv, [Next]_vars
  PROVE  Sound(queue') /\ (previous' = NoQueue \/ Sound(previous'))
<1>1. Sound(queue) /\ (previous = NoQueue \/ Sound(previous))
  BY DEF IInv
<1>2. ASSUME NEW n \in Nat, NEW start \in Nat, ReplaceQueue(n, start)
      PROVE  Sound(queue') /\ (previous' = NoQueue \/ Sound(previous'))
  <2>1. start \in 1..n /\ queue' \in Replaced(queue, n, start)
    BY <1>2 DEF ReplaceQueue, ReplaceOk
  <2>2. previous' = NoQueue \/ previous' = queue
    BY <1>2 DEF ReplaceQueue
  <2>3. QED
    BY <1>1, <2>1, <2>2, SoundReplaced
<1>3. ASSUME NEW n \in 1..MaxLength, NEW start \in 1..MaxLength, Start(n, start)
      PROVE  Sound(queue') /\ (previous' = NoQueue \/ Sound(previous'))
  BY <1>2, <1>3, BoundsAssumption DEF Start
<1>4. ASSUME NEW n \in 1..2, NEW next \in BOOLEAN, Enqueue(n, next)
      PROVE  Sound(queue') /\ (previous' = NoQueue \/ Sound(previous'))
  <2>1. CASE ReplaceQueue(n, 1)
    BY <1>2, <2>1
  <2>2. CASE HasCurrent(queue) /\ queue' = Enqueued(queue, n, next) /\ previous' = previous
    <3>1. PICK m : m = Enqueued(queue, n, next)
      OBVIOUS
    <3>2. n \in Nat /\ next \in BOOLEAN /\ HasCurrent(queue)
      BY <2>2
    <3>3. Sound(m)
      BY <1>1, <3>1, <3>2, SoundEnqueued
    <3>4. QED
      BY <1>1, <2>2, <3>1, <3>3
  <2>3. QED
    BY <1>4, <2>1, <2>2 DEF Enqueue
<1>5. ASSUME ClearQueue
      PROVE  Sound(queue') /\ (previous' = NoQueue \/ Sound(previous'))
  BY <1>1, <1>5, SoundWithoutUpcoming DEF ClearQueue
<1>6. ASSUME RestorePreviousQueue
      PROVE  Sound(queue') /\ (previous' = NoQueue \/ Sound(previous'))
  BY <1>1, <1>6, SoundRestored DEF RestorePreviousQueue
<1>7. ASSUME NEW mode \in RepeatModes, SetRepeatMode(mode)
      PROVE  Sound(queue') /\ (previous' = NoQueue \/ Sound(previous'))
  BY <1>1, <1>7, SoundRepeat DEF SetRepeatMode
<1>8. ASSUME NEW enabled \in BOOLEAN, SetShuffle(enabled)
      PROVE  Sound(queue') /\ (previous' = NoQueue \/ Sound(previous'))
  BY <1>1, <1>8, SoundWithShuffle DEF SetShuffle
<1>9. ASSUME NEW id \in UpcomingIds(queue), RemoveQueueItem(id)
      PROVE  Sound(queue') /\ (previous' = NoQueue \/ Sound(previous'))
  BY <1>1, <1>9, SoundWithoutUpcomingEntry DEF RemoveQueueItem
<1>10. ASSUME NEW id \in UpcomingIds(queue), NEW to \in 0..MaxLength, MoveQueueItem(id, to)
       PROVE  Sound(queue') /\ (previous' = NoQueue \/ Sound(previous'))
  <2>1. to \in Nat
    BY BoundsAssumption
  <2>2. QED
    BY <1>1, <1>10, <2>1, SoundMoved DEF MoveQueueItem
<1>11. ASSUME NEW id \in ToSet(PlayOrder(queue)), PlayQueueItem(id)
       PROVE  Sound(queue') /\ (previous' = NoQueue \/ Sound(previous'))
  BY <1>1, <1>11, SoundJumped DEF PlayQueueItem
<1>12. ASSUME NEW reason \in Reasons, Advance(reason)
       PROVE  Sound(queue') /\ (previous' = NoQueue \/ Sound(previous'))
  BY <1>1, <1>12, SoundAdvanced DEF Advance
<1>13. ASSUME NEW gone \in SUBSET ToSet(PlayOrder(queue)), LibraryLoses(gone)
       PROVE  Sound(queue') /\ (previous' = NoQueue \/ Sound(previous'))
  BY <1>1, <1>13, SoundWithoutEntries DEF LibraryLoses
<1>14. ASSUME StopAtTheEnd
       PROVE  Sound(queue') /\ (previous' = NoQueue \/ Sound(previous'))
  BY <1>1, <1>14, SoundCleared DEF StopAtTheEnd
<1>15. ASSUME UNCHANGED vars
       PROVE  Sound(queue') /\ (previous' = NoQueue \/ Sound(previous'))
  BY <1>1, <1>15 DEF vars
<1>16. QED
  BY <1>3, <1>4, <1>5, <1>6, <1>7, <1>8, <1>9, <1>10, <1>11, <1>12, <1>13, <1>14, <1>15 DEF Next

LEMMA InvariantHolds == Spec => []IInv
<1>1. Init => IInv
  BY SoundNew DEF Init, IInv
<1>2. IInv /\ [Next]_vars => IInv'
  <2>1. SUFFICES ASSUME IInv, [Next]_vars
                 PROVE  IInv'
    OBVIOUS
  <2>2. Sound(queue') /\ (previous' = NoQueue \/ Sound(previous'))
    BY <2>1, StepSound
  <2>3. QED
    BY <2>2 DEF IInv
<1>3. QED
  BY <1>1, <1>2, PTL DEF Spec

-----------------------------------------------------------------------------
(* queue.rs keeps an arranged and a shuffled order: they hold the same     *)
(* entries once each after any commands, ends and losses, in the queue and *)
(* in the one kept for undo.                                               *)
THEOREM OrdersHold == Spec => []OrdersAgree
<1>1. ASSUME NEW q, Sound(q)
      PROVE  /\ IsInjective(q.arranged) /\ q.current \in 1..(Length(q) + 1)
             /\ IsShuffled(q) => /\ IsInjective(q.shuffled)
                                 /\ ToSet(q.shuffled) = ToSet(q.arranged)
                                 /\ q.shuffle \/ IsEmpty(q)
  BY <1>1 DEF Sound, Orderly, Length
<1>2. IInv => \A q \in Queues : Sound(q)
  BY DEF IInv, Queues
<1>3. IInv => OrdersAgree
  BY <1>1, <1>2 DEF OrdersAgree
<1>4. QED
  BY <1>3, InvariantHolds, PTL

(* What peek_natural names, and the prefetch opens, is what a natural      *)
(* finish moves to, in every queue that can come about.                    *)
THEOREM PeekIsNatural == Spec => []PeekNamesTheNaturalNext
<1>1. IInv => PeekNamesTheNaturalNext
  BY SoundPeek, SoundNoPeek DEF IInv, PeekNamesTheNaturalNext
<1>2. QED
  BY <1>1, InvariantHolds, PTL

(* restore_previous_queue brings back the entry that was current, whatever *)
(* shuffle is set to now.                                                  *)
THEOREM UndoRestores == Spec => UndoRestoresTheCurrentEntry
<1>1. IInv /\ [Next]_vars =>
        [RestorePreviousQueue /\ HasCurrent(previous) =>
           HasCurrent(queue') /\ CurrentId(queue') = CurrentId(previous)]_vars
  BY SoundRestored DEF IInv, RestorePreviousQueue
<1>2. QED
  BY <1>1, InvariantHolds, PTL DEF Spec, UndoRestoresTheCurrentEntry

(* What enqueue adds to play next plays next, and comes after the current  *)
(* entry in the arranged order too.                                        *)
THEOREM NextPlaysNext == Spec => EnqueuedNextPlaysNext
<1>1. IInv =>
        [\A n \in 1..2 : HasCurrent(queue) /\ Enqueue(n, TRUE) =>
           /\ Upcoming(queue')[1] = queue.nextId
           /\ queue'.arranged[IndexOf(queue'.arranged, CurrentId(queue')) + 1]
                = queue.nextId]_vars
  <2>1. SUFFICES ASSUME IInv, NEW n \in 1..2, HasCurrent(queue), Enqueue(n, TRUE)
                 PROVE  /\ Upcoming(queue')[1] = queue.nextId
                        /\ queue'.arranged[IndexOf(queue'.arranged, CurrentId(queue')) + 1]
                             = queue.nextId
    OBVIOUS
  <2>2. PICK m : m = Enqueued(queue, n, TRUE)
    OBVIOUS
  <2>3. queue' = m
    BY <2>1, <2>2 DEF Enqueue
  <2>4. Sound(queue) /\ n \in Nat /\ n > 0
    BY <2>1 DEF IInv
  <2>5. /\ Sound(m) /\ m.current < Length(m) /\ PlayOrder(m)[m.current + 1] = queue.nextId
        /\ m.arranged[IndexOf(m.arranged, CurrentId(m)) + 1] = queue.nextId
    BY <2>1, <2>2, <2>4, SoundEnqueued
  <2>6. PICK order : order = PlayOrder(m)
    OBVIOUS
  <2>7. /\ order \in Seq(Nat \ {0}) /\ Len(order) = Length(m) /\ Length(m) \in Nat
        /\ m.current \in 1..(Length(m) + 1)
    BY <2>5, <2>6, SoundPlays
  <2>8. SubSeq(order, m.current + 1, Len(order))[1] = order[m.current + 1]
    BY <2>5, <2>7, SubSeqProperties
  <2>9. QED
    BY <2>3, <2>5, <2>6, <2>8 DEF Upcoming
<1>2. QED
  BY <1>1, InvariantHolds, PTL DEF EnqueuedNextPlaysNext
=============================================================================
