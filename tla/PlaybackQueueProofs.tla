------------------------ MODULE PlaybackQueueProofs ------------------------
(***************************************************************************)
(* Facts about the operators of PlaybackQueue.tla.                         *)
(***************************************************************************)
EXTENDS PlaybackQueue, WellFoundedInduction, SequenceTheorems, TLAPS

(* Induction: what fails for a number fails for a least one.               *)
LEMMA Least ==
  ASSUME NEW T, T \subseteq Nat, T # {}
  PROVE  \E x \in T : \A y \in T : x <= y
<1>1. IsWellFoundedOn(OpToRel(<, Nat), Nat)
  BY NatLessThanWellFounded
<1>2. PICK x \in T : \A y \in T : <<y, x>> \notin OpToRel(<, Nat)
  BY <1>1, WFMin
<1>3. \A y \in T : ~(y < x)
  BY <1>2 DEF OpToRel
<1>4. QED
  BY <1>3

(* The entries kept, step by step.                                         *)
KeptUpTo(order, gone, n, kept) ==
  kept = [i \in 0..n |->
            IF i = 0 THEN <<>>
            ELSE IF order[i] \in gone THEN kept[i - 1] ELSE Append(kept[i - 1], order[i])]

LEMMA KeptDefined ==
  ASSUME NEW order, NEW gone, NEW n \in Nat
  PROVE  \E kept : KeptUpTo(order, gone, n, kept)
<1> DEFINE T == {m \in Nat : ~ \E kept : KeptUpTo(order, gone, m, kept)}
<1>1. SUFFICES ASSUME T # {} PROVE FALSE
  OBVIOUS
<1>2. PICK m \in T : \A k \in T : m <= k
  BY <1>1, Least
<1>3. m \in Nat /\ ~ \E kept : KeptUpTo(order, gone, m, kept)
  BY <1>2
<1>4. CASE m = 0
  <2>1. KeptUpTo(order, gone, 0, [i \in 0..0 |-> <<>>])
    BY DEF KeptUpTo
  <2>2. QED
    BY <1>3, <1>4, <2>1
<1>5. CASE m > 0
  <2>1. m - 1 \in Nat /\ m - 1 \notin T
    BY <1>2, <1>3, <1>5
  <2>2. PICK before : KeptUpTo(order, gone, m - 1, before)
    BY <2>1
  <2> DEFINE last == IF order[m] \in gone THEN before[m - 1] ELSE Append(before[m - 1], order[m])
             kept == [i \in 0..m |-> IF i = m THEN last ELSE before[i]]
  <2>3. DOMAIN kept = 0..m /\ kept[m] = last /\ \A i \in 0..(m - 1) : kept[i] = before[i]
    BY <1>3, <1>5
  <2>4. \A i \in 0..(m - 1) : before[i] =
          IF i = 0 THEN <<>>
          ELSE IF order[i] \in gone THEN before[i - 1] ELSE Append(before[i - 1], order[i])
    BY <2>2 DEF KeptUpTo
  <2> HIDE DEF kept
  <2>5. \A i \in 0..m : kept[i] =
          IF i = 0 THEN <<>>
          ELSE IF order[i] \in gone THEN kept[i - 1] ELSE Append(kept[i - 1], order[i])
    <3>1. ASSUME NEW i \in 0..m, i < m
          PROVE  kept[i] =
            IF i = 0 THEN <<>>
            ELSE IF order[i] \in gone THEN kept[i - 1] ELSE Append(kept[i - 1], order[i])
      <4>1. i \in 0..(m - 1) /\ (i # 0 => i - 1 \in 0..(m - 1))
        BY <1>3, <1>5, <3>1
      <4>2. QED
        BY <2>3, <2>4, <4>1
    <3>2. kept[m] = IF m = 0 THEN <<>>
            ELSE IF order[m] \in gone THEN kept[m - 1] ELSE Append(kept[m - 1], order[m])
      <4>1. m - 1 \in 0..(m - 1)
        BY <2>1
      <4>2. QED
        BY <1>5, <2>3, <4>1
    <3>3. QED
      BY <1>3, <3>1, <3>2
  <2>6. KeptUpTo(order, gone, m, kept)
    BY <2>3, <2>5 DEF KeptUpTo, kept
  <2>7. QED
    BY <1>3, <2>6
<1>6. QED
  BY <1>3, <1>4, <1>5

LEMMA KeptSteps ==
  ASSUME NEW order, NEW gone, Len(order) \in Nat
  PROVE  /\ Kept(order, gone)[0] = <<>>
         /\ \A i \in 1..Len(order) :
              Kept(order, gone)[i] =
                IF order[i] \in gone THEN Kept(order, gone)[i - 1]
                ELSE Append(Kept(order, gone)[i - 1], order[i])
<1>1. Kept(order, gone) = CHOOSE kept : KeptUpTo(order, gone, Len(order), kept)
  BY DEF Kept, KeptUpTo
<1>2. KeptUpTo(order, gone, Len(order), Kept(order, gone))
  BY <1>1, KeptDefined
<1>3. PICK kept : kept = Kept(order, gone)
  OBVIOUS
<1>4. \A i \in 0..Len(order) :
        kept[i] = IF i = 0 THEN <<>>
                  ELSE IF order[i] \in gone THEN kept[i - 1] ELSE Append(kept[i - 1], order[i])
  BY <1>2, <1>3 DEF KeptUpTo
<1>5. QED
  BY <1>3, <1>4

(* What is kept of the first i entries: they are entries that stay, each   *)
(* entry that stays is after those kept before it, and none is repeated.   *)
LEMMA KeptAre ==
  ASSUME NEW S, NEW order \in Seq(S), NEW gone
  PROVE  \A i \in 0..Len(order) :
           LET kept == Kept(order, gone)
           IN /\ kept[i] \in Seq(S)
              /\ \A m \in 1..Len(kept[i]) :
                   \E j \in 1..i : kept[i][m] = order[j] /\ order[j] \notin gone
              /\ \A j \in 0..i : Len(kept[j]) <= Len(kept[i])
              /\ \A j \in 1..i : order[j] \notin gone =>
                   /\ Len(kept[j - 1]) < Len(kept[i])
                   /\ kept[i][Len(kept[j - 1]) + 1] = order[j]
              /\ IsInjective(order) => IsInjective(kept[i])
<1> DEFINE kept == Kept(order, gone)
           Is(i) == /\ kept[i] \in Seq(S)
                    /\ \A m \in 1..Len(kept[i]) :
                         \E j \in 1..i : kept[i][m] = order[j] /\ order[j] \notin gone
                    /\ \A j \in 0..i : Len(kept[j]) <= Len(kept[i])
                    /\ \A j \in 1..i : order[j] \notin gone =>
                         /\ Len(kept[j - 1]) < Len(kept[i])
                         /\ kept[i][Len(kept[j - 1]) + 1] = order[j]
                    /\ IsInjective(order) => IsInjective(kept[i])
           T == {i \in Nat : i <= Len(order) /\ ~Is(i)}
<1>0. Len(order) \in Nat /\ \A j \in 1..Len(order) : order[j] \in S
  OBVIOUS
<1>1. /\ kept[0] = <<>>
      /\ \A i \in 1..Len(order) :
           kept[i] = IF order[i] \in gone THEN kept[i - 1] ELSE Append(kept[i - 1], order[i])
  BY <1>0, KeptSteps
<1> HIDE DEF kept
<1>2. SUFFICES ASSUME T # {} PROVE FALSE
  <2>1. ASSUME T = {}, NEW i \in 0..Len(order) PROVE Is(i)
    <3> HIDE DEF Is
    <3>1. QED
      BY <1>0, <2>1
  <2>2. QED
    BY <2>1 DEF kept, Is
<1>3. PICK i \in T : \A k \in T : i <= k
  BY <1>2, Least
<1> HIDE DEF Is
<1>4. i \in Nat /\ i <= Len(order) /\ ~Is(i)
  BY <1>3
<1>4a. \A k \in Nat : k < i => Is(k)
  <2>1. SUFFICES ASSUME NEW k \in Nat, k < i PROVE k \notin T /\ k <= Len(order)
    OBVIOUS
  <2>2. ~(i <= k) /\ k <= Len(order)
    BY <1>0, <1>4, <2>1
  <2> HIDE DEF T
  <2>3. QED
    BY <1>3, <2>2
<1> HIDE DEF T
<1>5. CASE i = 0
  <2>1. kept[0] \in Seq(S) /\ Len(kept[0]) = 0 /\ DOMAIN kept[0] = {}
    BY <1>1
  <2>2. Is(0)
    BY <2>1 DEF IsInjective, Is
  <2>3. QED
    BY <1>4, <1>5, <2>2
<1>6. CASE i > 0
  <2>1. i - 1 \in Nat /\ i - 1 <= Len(order) /\ i \in 1..Len(order)
    BY <1>0, <1>4, <1>6
  <2>2. Is(i - 1)
    <3>1. i - 1 < i
      BY <1>4
    <3>2. QED
      BY <1>4a, <2>1, <3>1
  <2>3. CASE order[i] \in gone
    <3>1. kept[i] = kept[i - 1]
      BY <1>1, <2>1, <2>3
    <3>2. Is(i)
      <4>1. kept[i] \in Seq(S) /\ Len(kept[i]) \in Nat
        BY <2>2, <3>1 DEF Is
      <4>2. \A j \in 0..i : j = i \/ j \in 0..(i - 1)
        BY <2>1
      <4>3. \A j \in 0..i : Len(kept[j]) <= Len(kept[i])
        BY <2>2, <3>1, <4>1, <4>2 DEF Is
      <4>4. \A j \in 1..i : order[j] \notin gone => j \in 1..(i - 1)
        BY <2>1, <2>3
      <4>5. \A j \in 1..(i - 1) : j \in 1..i
        BY <2>1
      <4>6. QED
        BY <2>2, <3>1, <4>1, <4>3, <4>4, <4>5 DEF Is
    <3>3. QED
      BY <1>4, <3>2
  <2>4. CASE order[i] \notin gone
    <3> DEFINE w == kept[i - 1]
    <3>1. kept[i] = Append(w, order[i]) /\ w \in Seq(S) /\ Len(w) \in Nat /\ order[i] \in S
      <4>1. w \in Seq(S)
        BY <2>2 DEF Is
      <4>2. kept[i] = Append(w, order[i]) /\ order[i] \in S
        BY <1>0, <1>1, <2>1, <2>4
      <4>3. QED
        BY <4>1, <4>2
    <3>2. /\ kept[i] \in Seq(S) /\ Len(kept[i]) = Len(w) + 1
          /\ kept[i][Len(w) + 1] = order[i]
          /\ \A m \in 1..Len(w) : kept[i][m] = w[m]
          /\ DOMAIN kept[i] = 1..(Len(w) + 1) /\ DOMAIN w = 1..Len(w)
      BY <3>1
    <3>3. \A m \in 1..Len(kept[i]) :
            \E j \in 1..i : kept[i][m] = order[j] /\ order[j] \notin gone
      <4>1. TAKE m \in 1..Len(kept[i])
      <4>2. CASE m = Len(w) + 1
        BY <2>1, <2>4, <3>2, <4>2
      <4>3. CASE m # Len(w) + 1
        <5>1. m \in 1..Len(w)
          BY <3>1, <3>2, <4>3
        <5>2. PICK j \in 1..(i - 1) : w[m] = order[j] /\ order[j] \notin gone
          BY <2>2, <5>1 DEF Is
        <5>3. QED
          BY <2>1, <3>2, <5>1, <5>2
      <4>4. QED
        BY <4>2, <4>3
    <3>4. \A j \in 0..i : Len(kept[j]) <= Len(kept[i])
      <4>1. TAKE j \in 0..i
      <4>2. CASE j = i
        BY <3>1, <3>2, <4>2
      <4>3. CASE j # i
        <5>1. j \in 0..(i - 1)
          BY <2>1, <4>3
        <5>2. Len(kept[j]) <= Len(w)
          BY <2>2, <5>1 DEF Is
        <5>3. kept[j] \in Seq(S)
          <6>1. j \in Nat /\ j < i
            BY <2>1, <5>1
          <6>2. QED
            BY <1>4a, <6>1 DEF Is
        <5>4. Len(kept[j]) \in Nat
          BY <5>3
        <5>5. QED
          BY <3>1, <3>2, <5>2, <5>4
      <4>4. QED
        BY <4>2, <4>3
    <3>5. \A j \in 1..i : order[j] \notin gone =>
            /\ Len(kept[j - 1]) < Len(kept[i])
            /\ kept[i][Len(kept[j - 1]) + 1] = order[j]
      <4>1. SUFFICES ASSUME NEW j \in 1..i, order[j] \notin gone
                     PROVE  /\ Len(kept[j - 1]) < Len(kept[i])
                            /\ kept[i][Len(kept[j - 1]) + 1] = order[j]
        OBVIOUS
      <4>2. CASE j = i
        BY <3>1, <3>2, <4>2
      <4>3. CASE j # i
        <5>1. j \in 1..(i - 1)
          BY <2>1, <4>3
        <5>2. Len(kept[j - 1]) < Len(w) /\ w[Len(kept[j - 1]) + 1] = order[j]
          BY <2>2, <4>1, <5>1 DEF Is
        <5>3. kept[j - 1] \in Seq(S)
          <6>1. j - 1 \in Nat /\ j - 1 < i
            BY <2>1, <5>1
          <6>2. QED
            BY <1>4a, <6>1 DEF Is
        <5>4. Len(kept[j - 1]) \in Nat
          BY <5>3
        <5>5. QED
          BY <3>1, <3>2, <5>2, <5>4
      <4>4. QED
        BY <4>2, <4>3
    <3>6. ASSUME IsInjective(order) PROVE IsInjective(kept[i])
      <4>1. \A m \in 1..Len(w) : w[m] # order[i]
        <5>1. TAKE m \in 1..Len(w)
        <5>2. PICK j \in 1..(i - 1) : w[m] = order[j]
          BY <2>2 DEF Is
        <5>3. j \in DOMAIN order /\ i \in DOMAIN order /\ j # i
          BY <1>0, <2>1
        <5>4. QED
          BY <3>6, <5>2, <5>3 DEF IsInjective
      <4>2. IsInjective(w)
        BY <2>2, <3>6 DEF Is
      <4> HIDE DEF w
      <4>3. QED
        BY <3>1, <3>2, <4>1, <4>2 DEF IsInjective
    <3>7. Is(i)
      BY <3>2, <3>3, <3>4, <3>5, <3>6 DEF Is
    <3>8. QED
      BY <1>4, <3>7
  <2>5. QED
    BY <2>3, <2>4
<1>7. QED
  BY <1>4, <1>5, <1>6

(* How much is kept: one entry more at each step at most, and every entry  *)
(* while none is gone.                                                     *)
LEMMA KeptLengths ==
  ASSUME NEW S, NEW order \in Seq(S), NEW gone
  PROVE  \A i \in 0..Len(order) :
           LET kept == Kept(order, gone)
           IN /\ Len(kept[i]) \in Nat
              /\ \A j \in 0..i : Len(kept[i]) <= Len(kept[j]) + (i - j)
              /\ (\A j \in 1..i : order[j] \notin gone) => Len(kept[i]) = i
<1> DEFINE kept == Kept(order, gone)
           Is(i) == /\ \A j \in 0..i : Len(kept[i]) <= Len(kept[j]) + (i - j)
                    /\ (\A j \in 1..i : order[j] \notin gone) => Len(kept[i]) = i
           T == {i \in Nat : i <= Len(order) /\ ~Is(i)}
<1>0. Len(order) \in Nat /\ \A j \in 1..Len(order) : order[j] \in S
  OBVIOUS
<1>1. /\ kept[0] = <<>>
      /\ \A i \in 1..Len(order) :
           kept[i] = IF order[i] \in gone THEN kept[i - 1] ELSE Append(kept[i - 1], order[i])
  BY <1>0, KeptSteps
<1>2. \A i \in 0..Len(order) : kept[i] \in Seq(S) /\ Len(kept[i]) \in Nat
  <2>1. \A i \in 0..Len(order) : kept[i] \in Seq(S)
    BY KeptAre
  <2> HIDE DEF kept
  <2>2. QED
    BY <2>1
<1> HIDE DEF kept
<1>3. SUFFICES ASSUME T # {} PROVE FALSE
  <2>1. ASSUME T = {}, NEW i \in 0..Len(order) PROVE Is(i)
    <3> HIDE DEF Is
    <3>1. QED
      BY <1>0, <2>1
  <2>2. QED
    BY <1>2, <2>1 DEF kept, Is
<1>4. PICK i \in T : \A k \in T : i <= k
  BY <1>3, Least
<1> HIDE DEF Is
<1>5. i \in Nat /\ i <= Len(order) /\ ~Is(i)
  BY <1>4
<1>6. \A k \in Nat : k < i => Is(k)
  <2>1. SUFFICES ASSUME NEW k \in Nat, k < i PROVE k \notin T /\ k <= Len(order)
    OBVIOUS
  <2>2. ~(i <= k) /\ k <= Len(order)
    BY <1>0, <1>5, <2>1
  <2> HIDE DEF T
  <2>3. QED
    BY <1>4, <2>2
<1> HIDE DEF T
<1>7. CASE i = 0
  <2>1. Len(kept[0]) = 0
    BY <1>1
  <2>2. Is(0)
    BY <2>1 DEF Is
  <2>3. QED
    BY <1>5, <1>7, <2>2
<1>8. CASE i > 0
  <2>1. /\ i - 1 \in Nat /\ i - 1 < i /\ i \in 1..Len(order)
        /\ i - 1 \in 0..Len(order) /\ i \in 0..Len(order)
    BY <1>0, <1>5, <1>8
  <2>2. Is(i - 1)
    BY <1>6, <2>1
  <2>3. /\ Len(kept[i]) \in Nat /\ Len(kept[i - 1]) \in Nat
        /\ Len(kept[i]) <= Len(kept[i - 1]) + 1
        /\ order[i] \notin gone => Len(kept[i]) = Len(kept[i - 1]) + 1
    <3>1. kept[i - 1] \in Seq(S) /\ order[i] \in S
      BY <1>0, <1>2, <2>1
    <3>2. kept[i] = IF order[i] \in gone THEN kept[i - 1] ELSE Append(kept[i - 1], order[i])
      BY <1>1, <2>1
    <3>3. Len(kept[i - 1]) \in Nat
      BY <3>1
    <3>4. QED
      BY <3>1, <3>2, <3>3
  <2>4. ASSUME NEW j \in 0..i PROVE Len(kept[i]) <= Len(kept[j]) + (i - j)
    <3>1. CASE j = i
      BY <2>3, <3>1
    <3>2. CASE j # i
      <4>1. j \in 0..(i - 1) /\ Len(kept[j]) \in Nat
        BY <1>2, <2>1, <3>2
      <4>2. Len(kept[i - 1]) <= Len(kept[j]) + (i - 1 - j)
        BY <2>2, <4>1 DEF Is
      <4>3. QED
        BY <1>5, <2>1, <2>3, <4>1, <4>2
    <3>3. QED
      BY <3>1, <3>2
  <2>5. ASSUME \A j \in 1..i : order[j] \notin gone PROVE Len(kept[i]) = i
    <3>1. order[i] \notin gone /\ \A j \in 1..(i - 1) : order[j] \notin gone
      BY <2>1, <2>5
    <3>2. Len(kept[i - 1]) = i - 1
      BY <2>2, <3>1 DEF Is
    <3>3. QED
      BY <2>1, <2>3, <3>1, <3>2
  <2>6. Is(i)
    BY <2>4, <2>5 DEF Is
  <2>7. QED
    BY <1>5, <2>6
<1>9. QED
  BY <1>5, <1>7, <1>8

(* What is kept of a beginning of the order.                               *)
LEMMA KeptOfPrefix ==
  ASSUME NEW S, NEW order \in Seq(S), NEW gone, NEW c \in 0..Len(order)
  PROVE  Retain(SubSeq(order, 1, c), gone) = Kept(order, gone)[c]
<1> DEFINE kept == Kept(order, gone)
           part == SubSeq(order, 1, c)
           some == Kept(part, gone)
           T == {i \in Nat : i <= c /\ some[i] # kept[i]}
<1>0. Len(order) \in Nat /\ c \in Nat /\ c <= Len(order)
  OBVIOUS
<1>1. Len(part) = c /\ \A i \in 1..c : part[i] = order[i]
  BY <1>0
<1> HIDE DEF part
<1>2. /\ kept[0] = <<>>
      /\ \A i \in 1..Len(order) :
           kept[i] = IF order[i] \in gone THEN kept[i - 1] ELSE Append(kept[i - 1], order[i])
  BY <1>0, KeptSteps
<1>3. /\ some[0] = <<>>
      /\ \A i \in 1..c :
           some[i] = IF part[i] \in gone THEN some[i - 1] ELSE Append(some[i - 1], part[i])
  BY <1>0, <1>1, KeptSteps
<1> HIDE DEF kept, some
<1>4. T = {}
  <2>1. SUFFICES ASSUME T # {} PROVE FALSE
    OBVIOUS
  <2>2. PICK i \in T : \A k \in T : i <= k
    BY <2>1, Least
  <2>3. i \in Nat /\ i <= c /\ some[i] # kept[i]
    BY <2>2
  <2>4. i # 0
    BY <1>2, <1>3, <2>3
  <2>5. i \in 1..c /\ i \in 1..Len(order) /\ i - 1 \in Nat /\ i - 1 <= c /\ ~(i <= i - 1)
    BY <1>0, <2>3, <2>4
  <2>6. some[i - 1] = kept[i - 1]
    BY <2>2, <2>5
  <2>7. QED
    BY <1>1, <1>2, <1>3, <2>3, <2>5, <2>6
<1>5. some[c] = kept[c]
  BY <1>0, <1>4
<1>6. QED
  BY <1>1, <1>5 DEF Retain, part, some, kept

(* What Retain keeps, and where it puts it.                                *)
LEMMA RetainKeeps ==
  ASSUME NEW S, NEW order \in Seq(S), NEW gone
  PROVE  /\ Retain(order, gone) \in Seq(S) /\ Len(Retain(order, gone)) <= Len(order)
         /\ \A m \in 1..Len(Retain(order, gone)) :
              \E j \in 1..Len(order) :
                Retain(order, gone)[m] = order[j] /\ order[j] \notin gone
         /\ IsInjective(order) => IsInjective(Retain(order, gone))
         /\ (\E j \in 1..Len(order) : order[j] \in gone) =>
              Len(Retain(order, gone)) < Len(order)
<1>1. PICK kept : kept = Kept(order, gone)
  OBVIOUS
<1>2. Len(order) \in Nat /\ Len(order) \in 0..Len(order) /\ 0 \in 0..Len(order)
  OBVIOUS
<1>3. Retain(order, gone) = kept[Len(order)]
  BY <1>1 DEF Retain
<1>4. /\ kept[Len(order)] \in Seq(S)
      /\ \A m \in 1..Len(kept[Len(order)]) :
           \E j \in 1..Len(order) : kept[Len(order)][m] = order[j] /\ order[j] \notin gone
      /\ IsInjective(order) => IsInjective(kept[Len(order)])
  <2>1. kept[Len(order)] \in Seq(S)
    BY <1>1, <1>2, KeptAre
  <2>2. \A m \in 1..Len(kept[Len(order)]) :
          \E j \in 1..Len(order) : kept[Len(order)][m] = order[j] /\ order[j] \notin gone
    <3>1. \A i \in 0..Len(order) :
            \A m \in 1..Len(Kept(order, gone)[i]) :
              \E j \in 1..i : Kept(order, gone)[i][m] = order[j] /\ order[j] \notin gone
      BY KeptAre, Zenon
    <3>2. QED
      BY <1>1, <1>2, <3>1, Zenon
  <2>3. IsInjective(order) => IsInjective(kept[Len(order)])
    BY <1>1, <1>2, KeptAre
  <2>4. QED
    BY <2>1, <2>2, <2>3
<1>5. \A i \in 0..Len(order) :
        /\ Len(kept[i]) \in Nat
        /\ \A j \in 0..i : Len(kept[i]) <= Len(kept[j]) + (i - j)
  BY <1>1, KeptLengths
<1>6. kept[0] = <<>>
  BY <1>1, <1>2, KeptSteps
<1>7. Len(kept[0]) = 0
  BY <1>6
<1>8. \A i \in 0..Len(order) : Len(kept[i]) <= i
  <2>1. TAKE i \in 0..Len(order)
  <2>2. Len(kept[i]) <= Len(kept[0]) + (i - 0) /\ Len(kept[i]) \in Nat
    BY <1>2, <1>5
  <2>3. QED
    BY <1>2, <1>7, <2>2
<1>9. ASSUME NEW j \in 1..Len(order), order[j] \in gone
      PROVE  Len(kept[Len(order)]) < Len(order)
  <2>1. kept[j] = kept[j - 1]
    BY <1>1, <1>2, <1>9, KeptSteps
  <2>2. j - 1 \in 0..Len(order) /\ j \in 0..Len(order)
    BY <1>2
  <2>3. Len(kept[j]) <= j - 1 /\ Len(kept[j]) \in Nat
    BY <1>5, <1>8, <2>1, <2>2
  <2>4. Len(kept[Len(order)]) <= Len(kept[j]) + (Len(order) - j) /\ Len(kept[Len(order)]) \in Nat
    BY <1>2, <1>5, <2>2
  <2>5. QED
    BY <1>2, <2>3, <2>4
<1>10. Len(kept[Len(order)]) <= Len(order)
  BY <1>2, <1>8
<1>11. QED
  BY <1>3, <1>4, <1>9, <1>10

(* The position follows the entries before it.                             *)
LEMMA PositionFollows ==
  ASSUME NEW S, NEW order \in Seq(S), NEW gone, NEW c \in 1..(Len(order) + 1)
  PROVE  LET at == Len(Retain(SubSeq(order, 1, c - 1), gone)) + 1
         IN /\ at \in 1..(Len(Retain(order, gone)) + 1)
            /\ c \in 1..Len(order) /\ order[c] \notin gone =>
                 at \in 1..Len(Retain(order, gone)) /\ Retain(order, gone)[at] = order[c]
<1>1. PICK kept : kept = Kept(order, gone)
  OBVIOUS
<1>2. Len(order) \in Nat /\ Len(order) \in 0..Len(order) /\ c - 1 \in 0..Len(order)
  OBVIOUS
<1>3. Retain(order, gone) = kept[Len(order)] /\ Retain(SubSeq(order, 1, c - 1), gone) = kept[c - 1]
  BY <1>1, <1>2, KeptOfPrefix DEF Retain
<1>4. Len(kept[c - 1]) \in Nat /\ Len(kept[Len(order)]) \in Nat
  BY <1>1, <1>2, KeptLengths
<1>5. Len(kept[c - 1]) <= Len(kept[Len(order)])
  BY <1>1, <1>2, KeptAre
<1>6. c \in 1..Len(order) /\ order[c] \notin gone =>
        /\ Len(kept[c - 1]) < Len(kept[Len(order)])
        /\ kept[Len(order)][Len(kept[c - 1]) + 1] = order[c]
  BY <1>1, <1>2, KeptAre
<1>7. QED
  BY <1>3, <1>4, <1>5, <1>6

(* A beginning none of which is gone stays where it is.                    *)
LEMMA BeginningStays ==
  ASSUME NEW S, NEW order \in Seq(S), NEW gone, NEW c \in 0..Len(order),
         \A j \in 1..c : order[j] \notin gone
  PROVE  /\ c <= Len(Retain(order, gone))
         /\ \A j \in 1..c : Retain(order, gone)[j] = order[j]
<1>1. PICK kept : kept = Kept(order, gone)
  OBVIOUS
<1>2. Len(order) \in Nat /\ Len(order) \in 0..Len(order) /\ c \in Nat /\ c <= Len(order)
  OBVIOUS
<1>3. Retain(order, gone) = kept[Len(order)]
  BY <1>1 DEF Retain
<1>4. \A j \in 0..c : Len(kept[j]) = j
  <2>1. TAKE j \in 0..c
  <2>2. j \in 0..Len(order) /\ \A k \in 1..j : order[k] \notin gone
    BY <1>2
  <2>3. QED
    BY <1>1, <2>2, KeptLengths
<1>5. Len(kept[c]) <= Len(kept[Len(order)])
  BY <1>1, <1>2, KeptAre
<1>6. \A j \in 1..c : kept[Len(order)][Len(kept[j - 1]) + 1] = order[j]
  <2>1. \A j \in 1..Len(order) : order[j] \notin gone =>
          /\ Len(kept[j - 1]) < Len(kept[Len(order)])
          /\ kept[Len(order)][Len(kept[j - 1]) + 1] = order[j]
    BY <1>1, <1>2, KeptAre
  <2>2. QED
    BY <1>2, <2>1
<1>7. \A j \in 1..c : Len(kept[j - 1]) + 1 = j
  <2>1. TAKE j \in 1..c
  <2>2. j - 1 \in 0..c /\ j - 1 + 1 = j
    BY <1>2
  <2>3. QED
    BY <1>4, <2>2
<1>8. Len(kept[c]) = c
  BY <1>2, <1>4
<1>9. QED
  BY <1>3, <1>5, <1>6, <1>7, <1>8

-----------------------------------------------------------------------------
(* Orders, and a queue that is not shuffled.                               *)

(* Item ids, none of them twice, and none that is still to be given.       *)
Orderly(order, nextId) ==
  /\ order \in Seq(Nat \ {0}) /\ IsInjective(order)
  /\ \A i \in 1..Len(order) : order[i] < nextId

Plain(q) ==
  /\ DOMAIN q = {"arranged", "shuffled", "current", "repeat", "shuffle", "nextId"}
  /\ q.nextId \in Nat \ {0} /\ Orderly(q.arranged, q.nextId)
  /\ q.shuffled = NoOrder /\ q.shuffle = FALSE
  /\ q.current \in 1..(Len(q.arranged) + 1) /\ q.repeat \in RepeatModes

LEMMA PlainPlays ==
  ASSUME NEW q, Plain(q)
  PROVE  /\ ~IsShuffled(q) /\ PlayOrder(q) = q.arranged
         /\ Length(q) \in Nat /\ DOMAIN q.arranged = 1..Length(q)
         /\ HasCurrent(q) <=> q.current <= Length(q)
         /\ HasCurrent(q) => CurrentId(q) = q.arranged[q.current] /\ CurrentId(q) \in Nat \ {0}
BY DEF Plain, Orderly, IsShuffled, PlayOrder, Length, HasCurrent, CurrentId

LEMMA OrderlyRetained ==
  ASSUME NEW order, NEW nextId, Orderly(order, nextId), NEW gone
  PROVE  Orderly(Retain(order, gone), nextId)
<1>1. PICK kept : kept = Retain(order, gone)
  OBVIOUS
<1>2. /\ kept \in Seq(Nat \ {0}) /\ IsInjective(kept)
      /\ \A m \in 1..Len(kept) : \E j \in 1..Len(order) : kept[m] = order[j]
  <2>1. order \in Seq(Nat \ {0}) /\ IsInjective(order)
    BY DEF Orderly
  <2>2. kept \in Seq(Nat \ {0})
    BY <1>1, <2>1, RetainKeeps
  <2>3. IsInjective(kept)
    BY <1>1, <2>1, RetainKeeps
  <2>4. \A m \in 1..Len(kept) : \E j \in 1..Len(order) : kept[m] = order[j]
    <3>1. \A m \in 1..Len(Retain(order, gone)) :
            \E j \in 1..Len(order) : Retain(order, gone)[m] = order[j] /\ order[j] \notin gone
      BY <2>1, RetainKeeps, Zenon
    <3>2. QED
      BY <1>1, <3>1
  <2>5. QED
    BY <2>2, <2>3, <2>4
<1>3. QED
  BY <1>1, <1>2 DEF Orderly

LEMMA PlainWithoutEntries ==
  ASSUME NEW q, Plain(q), NEW gone
  PROVE  LET left == WithoutEntries(q, gone)
         IN /\ Plain(left) /\ left.nextId = q.nextId /\ Length(left) <= Length(q)
            /\ HasCurrent(q) /\ CurrentId(q) \notin gone =>
                 HasCurrent(left) /\ CurrentId(left) = CurrentId(q)
<1> DEFINE order == q.arranged
           at == Len(Retain(SubSeq(order, 1, q.current - 1), gone)) + 1
<1>1. PICK left : left = WithoutEntries(q, gone)
  OBVIOUS
<1>2. /\ DOMAIN left = DOMAIN q /\ left.arranged = Retain(order, gone)
      /\ left.shuffled = NoOrder /\ left.current = at
      /\ left.repeat = q.repeat /\ left.shuffle = q.shuffle /\ left.nextId = q.nextId
  BY <1>1, PlainPlays DEF WithoutEntries, Plain, History
<1>3. order \in Seq(Nat \ {0}) /\ q.current \in 1..(Len(order) + 1)
  BY DEF Plain, Orderly
<1>4. /\ at \in 1..(Len(Retain(order, gone)) + 1)
      /\ q.current \in 1..Len(order) /\ order[q.current] \notin gone =>
           at \in 1..Len(Retain(order, gone)) /\ Retain(order, gone)[at] = order[q.current]
  <2>1. PICK s \in Seq(Nat \ {0}) : s = order
    BY <1>3
  <2>2. PICK c \in 1..(Len(s) + 1) : c = q.current
    BY <1>3, <2>1
  <2>3. LET a == Len(Retain(SubSeq(s, 1, c - 1), gone)) + 1
        IN /\ a \in 1..(Len(Retain(s, gone)) + 1)
           /\ c \in 1..Len(s) /\ s[c] \notin gone =>
                a \in 1..Len(Retain(s, gone)) /\ Retain(s, gone)[a] = s[c]
    <3> HIDE DEF at
    <3>1. s \in Seq(Nat \ {0}) /\ c \in 1..(Len(s) + 1)
      OBVIOUS
    <3>2. QED
      BY ONLY <3>1, PositionFollows, ZenonT(30)
  <2>4. QED
    BY <2>1, <2>2, <2>3
<1>5. Orderly(Retain(order, gone), q.nextId)
  BY OrderlyRetained DEF Plain
<1>6. Len(Retain(order, gone)) <= Len(order)
  BY <1>3, RetainKeeps
<1> HIDE DEF at
<1>7. Plain(left) /\ Length(left) <= Length(q)
  BY <1>2, <1>4, <1>5, <1>6 DEF Plain, Length
<1>8. ASSUME HasCurrent(q), CurrentId(q) \notin gone
      PROVE  HasCurrent(left) /\ CurrentId(left) = CurrentId(q)
  <2>1. q.current \in 1..Len(order) /\ CurrentId(q) = order[q.current]
    BY <1>3, <1>8, PlainPlays DEF Length
  <2>2. at \in 1..Len(left.arranged) /\ left.arranged[at] = CurrentId(q)
    BY <1>2, <1>4, <1>8, <2>1
  <2>3. PlayOrder(left) = left.arranged
    BY <1>7, PlainPlays
  <2>4. QED
    BY <1>2, <1>7, <2>2, <2>3, PlainPlays DEF Length
<1>9. QED
  BY <1>1, <1>2, <1>7, <1>8

LEMMA PlainMovesTo ==
  ASSUME NEW q, Plain(q), NEW c, c \in 1..(Length(q) + 1)
  PROVE  LET m == [q EXCEPT !.current = c]
         IN /\ Plain(m) /\ m.nextId = q.nextId /\ Length(m) = Length(q)
            /\ m.current = c /\ m.arranged = q.arranged
            /\ c <= Length(q) => HasCurrent(m) /\ CurrentId(m) = q.arranged[c]
<1>1. PICK m : m = [q EXCEPT !.current = c]
  OBVIOUS
<1>2. /\ DOMAIN m = DOMAIN q /\ m.current = c /\ m.arranged = q.arranged
      /\ m.shuffled = q.shuffled /\ m.repeat = q.repeat /\ m.shuffle = q.shuffle
      /\ m.nextId = q.nextId
  BY <1>1 DEF Plain
<1>3. Plain(m) /\ Length(m) = Length(q)
  BY <1>2 DEF Plain, Length
<1>4. c <= Length(q) => HasCurrent(m) /\ CurrentId(m) = q.arranged[c]
  BY <1>2, <1>3, PlainPlays
<1>5. QED
  BY <1>1, <1>2, <1>3, <1>4

(* Where a queue that is not shuffled may move.                            *)
LEMMA PlainAdvanced ==
  ASSUME NEW q, Plain(q), NEW reason
  PROVE  \A m \in Advanced(q, reason) :
           /\ Plain(m) /\ m.nextId = q.nextId /\ Length(m) = Length(q) /\ Length(q) > 0
<1>1. Length(q) \in Nat /\ (~IsEmpty(q) => Length(q) > 0)
  BY PlainPlays DEF IsEmpty, Length, Plain, Orderly
<1>2. WrappedToStart(q) = {[q EXCEPT !.current = 1]}
  BY PlainPlays DEF WrappedToStart
<1>3. q.current \in 1..(Length(q) + 1)
  BY DEF Plain, Length
<1>4. \A m \in Advanced(q, reason) :
        /\ ~IsEmpty(q)
        /\ m = q \/ \E c \in 1..(Length(q) + 1) : m = [q EXCEPT !.current = c]
  <2>1. SUFFICES ASSUME NEW m \in Advanced(q, reason)
                 PROVE  /\ ~IsEmpty(q)
                        /\ m = q \/ \E c \in 1..(Length(q) + 1) : m = [q EXCEPT !.current = c]
    OBVIOUS
  <2>2. /\ ~IsEmpty(q)
        /\ \/ m \in {q}
           \/ m \in IF q.current > 1 THEN {[q EXCEPT !.current = @ - 1]}
                    ELSE IF q.repeat = "all" THEN {[q EXCEPT !.current = Length(q)]} ELSE {}
           \/ m \in IF q.current < Length(q) THEN {[q EXCEPT !.current = @ + 1]}
                    ELSE IF q.repeat = "all" THEN WrappedToStart(q) ELSE {}
    <3>1. m \in CASE IsEmpty(q) -> {}
                  [] ~IsEmpty(q) /\ reason = "natural" /\ q.repeat = "one" -> {q}
                  [] ~IsEmpty(q) /\ reason = "previous" ->
                       IF q.current > 1 THEN {[q EXCEPT !.current = @ - 1]}
                       ELSE IF q.repeat = "all" THEN {[q EXCEPT !.current = Length(q)]} ELSE {}
                  [] OTHER ->
                       IF q.current < Length(q) THEN {[q EXCEPT !.current = @ + 1]}
                       ELSE IF q.repeat = "all" THEN WrappedToStart(q) ELSE {}
      BY <2>1 DEF Advanced
    <3>2. QED
      BY <3>1, Zenon
  <2>3. CASE m = q
    BY <2>2, <2>3
  <2>4. CASE m \in IF q.current > 1 THEN {[q EXCEPT !.current = @ - 1]}
                   ELSE IF q.repeat = "all" THEN {[q EXCEPT !.current = Length(q)]} ELSE {}
    <3>1. \/ q.current > 1 /\ m = [q EXCEPT !.current = q.current - 1]
          \/ m = [q EXCEPT !.current = Length(q)]
      BY <2>4
    <3>2. /\ q.current > 1 => q.current - 1 \in 1..(Length(q) + 1)
          /\ Length(q) \in 1..(Length(q) + 1)
      BY <1>1, <1>3, <2>2
    <3>3. QED
      BY <2>2, <3>1, <3>2
  <2>5. CASE m \in IF q.current < Length(q) THEN {[q EXCEPT !.current = @ + 1]}
                   ELSE IF q.repeat = "all" THEN WrappedToStart(q) ELSE {}
    <3>1. \/ q.current < Length(q) /\ m = [q EXCEPT !.current = q.current + 1]
          \/ m = [q EXCEPT !.current = 1]
      BY <1>2, <2>5
    <3>2. /\ q.current < Length(q) => q.current + 1 \in 1..(Length(q) + 1)
          /\ 1 \in 1..(Length(q) + 1)
      BY <1>1, <1>3, <2>2
    <3>3. QED
      BY <2>2, <3>1, <3>2
  <2>6. QED
    BY <2>2, <2>3, <2>4, <2>5
<1>5. SUFFICES ASSUME NEW m \in Advanced(q, reason)
               PROVE  /\ Plain(m) /\ m.nextId = q.nextId /\ Length(m) = Length(q)
                      /\ Length(q) > 0
  OBVIOUS
<1>6. CASE m = q
  BY <1>1, <1>4, <1>6
<1>7. CASE m # q
  <2>1. PICK c \in 1..(Length(q) + 1) : m = [q EXCEPT !.current = c]
    BY <1>4, <1>7
  <2>2. QED
    BY <1>1, <1>4, <2>1, PlainMovesTo
<1>8. QED
  BY <1>6, <1>7

(* What is to come next naturally is what a natural finish moves to.       *)
LEMMA PlainPeek ==
  ASSUME NEW q, Plain(q), NEW id \in PeekNatural(q)
  PROVE  /\ Advanced(q, "natural") # {} /\ id \in Nat \ {0}
         /\ \A m \in Advanced(q, "natural") : HasCurrent(m) /\ CurrentId(m) = id
<1>1. /\ Length(q) \in Nat /\ (~IsEmpty(q) => Length(q) > 0) /\ ~IsShuffled(q)
      /\ PlayOrder(q) = q.arranged /\ q.arranged \in Seq(Nat \ {0})
  <2>1. Length(q) \in Nat /\ (~IsEmpty(q) => Length(q) > 0)
    BY PlainPlays DEF IsEmpty, Length, Plain, Orderly
  <2>2. QED
    BY <2>1, PlainPlays DEF Plain, Orderly
<1>2. WrappedToStart(q) = {[q EXCEPT !.current = 1]}
  BY PlainPlays DEF WrappedToStart
<1>3. q.current \in 1..(Length(q) + 1)
  BY DEF Plain, Length
<1>4. /\ ~IsEmpty(q)
      /\ \/ q.repeat = "one" /\ HasCurrent(q) /\ id = CurrentId(q)
         \/ q.repeat # "one" /\ q.current < Length(q) /\ id = q.arranged[q.current + 1]
         \/ q.repeat = "all" /\ ~(q.current < Length(q)) /\ id = q.arranged[1]
  <2>1. id \in CASE IsEmpty(q) -> {}
                 [] ~IsEmpty(q) /\ q.repeat = "one" ->
                      IF HasCurrent(q) THEN {CurrentId(q)} ELSE {}
                 [] ~IsEmpty(q) /\ q.repeat # "one" /\ q.current < Length(q) ->
                      {PlayOrder(q)[q.current + 1]}
                 [] OTHER ->
                      IF q.repeat = "all" /\ ~IsShuffled(q) THEN {PlayOrder(q)[1]} ELSE {}
    BY DEF PeekNatural
  <2>2. \/ id \in {}
        \/ /\ ~IsEmpty(q) /\ q.repeat = "one"
           /\ id \in IF HasCurrent(q) THEN {CurrentId(q)} ELSE {}
        \/ /\ ~IsEmpty(q) /\ q.repeat # "one" /\ q.current < Length(q)
           /\ id \in {PlayOrder(q)[q.current + 1]}
        \/ /\ ~IsEmpty(q) /\ q.repeat # "one" /\ ~(q.current < Length(q))
           /\ id \in IF q.repeat = "all" /\ ~IsShuffled(q) THEN {PlayOrder(q)[1]} ELSE {}
    BY <2>1, Zenon
  <2>3. QED
    BY <1>1, <2>2
<1>5. Advanced(q, "natural") =
        IF q.repeat = "one" THEN {q}
        ELSE IF q.current < Length(q) THEN {[q EXCEPT !.current = q.current + 1]}
        ELSE IF q.repeat = "all" THEN {[q EXCEPT !.current = 1]} ELSE {}
  <2>1. Advanced(q, "natural") =
          CASE IsEmpty(q) -> {}
            [] ~IsEmpty(q) /\ "natural" = "natural" /\ q.repeat = "one" -> {q}
            [] ~IsEmpty(q) /\ "natural" = "previous" ->
                 IF q.current > 1 THEN {[q EXCEPT !.current = @ - 1]}
                 ELSE IF q.repeat = "all" THEN {[q EXCEPT !.current = Length(q)]} ELSE {}
            [] OTHER ->
                 IF q.current < Length(q) THEN {[q EXCEPT !.current = @ + 1]}
                 ELSE IF q.repeat = "all" THEN WrappedToStart(q) ELSE {}
    BY DEF Advanced
  <2>2. "natural" # "previous"
    OBVIOUS
  <2>3. Advanced(q, "natural") =
          IF q.repeat = "one" THEN {q}
          ELSE IF q.current < Length(q) THEN {[q EXCEPT !.current = @ + 1]}
          ELSE IF q.repeat = "all" THEN WrappedToStart(q) ELSE {}
    BY <1>4, <2>1, <2>2, Zenon
  <2>4. QED
    BY <1>2, <2>3
<1>6. \A i \in 1..Length(q) : q.arranged[i] \in Nat \ {0}
  BY <1>1 DEF Length
<1>7. CASE q.repeat = "one"
  BY <1>4, <1>5, <1>7, PlainPlays
<1>8. CASE q.repeat # "one" /\ q.current < Length(q)
  <2>1. q.current + 1 \in 1..(Length(q) + 1) /\ q.current + 1 <= Length(q)
        /\ q.current + 1 \in 1..Length(q)
    BY <1>1, <1>3, <1>8
  <2>2. PICK c : c = q.current + 1
    OBVIOUS
  <2>3. HasCurrent([q EXCEPT !.current = c]) /\ CurrentId([q EXCEPT !.current = c]) = q.arranged[c]
    BY <2>1, <2>2, PlainMovesTo
  <2>4. id = q.arranged[c] /\ Advanced(q, "natural") = {[q EXCEPT !.current = c]}
    BY <1>4, <1>5, <1>8, <2>2
  <2>5. QED
    BY <1>6, <2>1, <2>2, <2>3, <2>4
<1>9. CASE q.repeat = "all" /\ ~(q.current < Length(q))
  <2>1. 1 \in 1..(Length(q) + 1) /\ 1 <= Length(q) /\ 1 \in 1..Length(q)
    BY <1>1, <1>4
  <2>2. HasCurrent([q EXCEPT !.current = 1]) /\ CurrentId([q EXCEPT !.current = 1]) = q.arranged[1]
    BY <2>1, PlainMovesTo
  <2>3. id = q.arranged[1] /\ Advanced(q, "natural") = {[q EXCEPT !.current = 1]}
    BY <1>4, <1>5, <1>9
  <2>4. QED
    BY <1>6, <2>1, <2>2, <2>3
<1>10. QED
  BY <1>4, <1>7, <1>8, <1>9

LEMMA PlainCleared ==
  ASSUME NEW q, Plain(q)
  PROVE  Plain(Cleared(q)) /\ Cleared(q).nextId = q.nextId /\ Length(Cleared(q)) = 0
<1>1. PICK c : c = Cleared(q)
  OBVIOUS
<1>2. /\ DOMAIN c = DOMAIN q /\ c.arranged = <<>> /\ c.shuffled = NoOrder /\ c.current = 1
      /\ c.repeat = q.repeat /\ c.shuffle = q.shuffle /\ c.nextId = q.nextId
  BY <1>1 DEF Cleared, Plain
<1>3. Orderly(<<>>, q.nextId) /\ Len(<<>>) = 0
  BY DEF Orderly, IsInjective
<1>4. QED
  BY <1>1, <1>2, <1>3 DEF Plain, Length

LEMMA PlainJumped ==
  ASSUME NEW q, Plain(q), NEW id, JumpOk(q, id)
  PROVE  LET m == JumpedTo(q, id)
         IN Plain(m) /\ m.nextId = q.nextId /\ Length(m) = Length(q)
<1>1. PICK i \in 1..Length(q) : q.arranged[i] = id
  BY PlainPlays DEF JumpOk, ToSet
<1>2. IndexOf(q.arranged, id) \in 1..Length(q)
  BY <1>1, PlainPlays DEF IndexOf
<1>3. PICK c : c = IndexOf(q.arranged, id)
  OBVIOUS
<1>4. c \in 1..(Length(q) + 1)
  BY <1>2, <1>3, PlainPlays
<1>5. JumpedTo(q, id) = [q EXCEPT !.current = c]
  BY <1>3, PlainPlays DEF JumpedTo
<1>6. QED
  BY <1>4, <1>5, PlainMovesTo

LEMMA NewIdsOrderly ==
  ASSUME NEW q, q.nextId \in Nat \ {0}, NEW n \in Nat
  PROVE  /\ Orderly(NewIds(q, n), q.nextId + n) /\ Len(NewIds(q, n)) = n
         /\ \A i \in 1..n : NewIds(q, n)[i] >= q.nextId
<1>1. PICK new : new = NewIds(q, n)
  OBVIOUS
<1>2. new = [i \in 1..n |-> q.nextId + i - 1]
  BY <1>1 DEF NewIds
<1>3. /\ new \in Seq(Nat \ {0}) /\ Len(new) = n /\ DOMAIN new = 1..n
      /\ \A i \in 1..n : new[i] = q.nextId + i - 1
  BY <1>2
<1>4. QED
  BY <1>1, <1>3 DEF Orderly, IsInjective

LEMMA PlainReplaced ==
  ASSUME NEW q, Plain(q), NEW n \in Nat, NEW start \in 1..n
  PROVE  LET m == CHOOSE r \in Replaced(q, n, start) : TRUE
         IN Plain(m) /\ m.nextId = q.nextId + n /\ Length(m) = n
<1>1. PICK m : m = [q EXCEPT !.arranged = NewIds(q, n), !.shuffled = NoOrder,
                            !.current = start, !.nextId = q.nextId + n]
  OBVIOUS
<1>2. Replaced(q, n, start) = {m}
  BY <1>1 DEF Replaced, Plain
<1>3. m = CHOOSE r \in Replaced(q, n, start) : TRUE
  BY <1>2
<1>4. /\ DOMAIN m = DOMAIN q /\ m.arranged = NewIds(q, n) /\ m.shuffled = NoOrder
      /\ m.current = start /\ m.repeat = q.repeat /\ m.shuffle = q.shuffle
      /\ m.nextId = q.nextId + n
  BY <1>1 DEF Plain
<1>5. Orderly(m.arranged, m.nextId) /\ Len(m.arranged) = n
  BY <1>4, NewIdsOrderly DEF Plain
<1>6. q.nextId + n \in Nat \ {0} /\ start \in 1..(n + 1)
  BY DEF Plain
<1>7. Plain(m) /\ Length(m) = n
  BY <1>4, <1>5, <1>6 DEF Plain, Length
<1>8. QED
  BY <1>3, <1>4, <1>7

(* Undo, of one queue that is not shuffled after another.                  *)
LEMMA PlainRestored ==
  ASSUME NEW q, Plain(q), NEW before, Plain(before)
  PROVE  LET m == CHOOSE r \in Restored(q, before) : TRUE
         IN /\ Plain(m) /\ Length(m) = Length(before)
            /\ m.nextId = IF q.nextId >= before.nextId THEN q.nextId ELSE before.nextId
<1>1. PICK next : next = IF q.nextId >= before.nextId THEN q.nextId ELSE before.nextId
  OBVIOUS
<1>2. PICK m : m = [before EXCEPT !.repeat = q.repeat, !.nextId = next]
  OBVIOUS
<1>3. Restored(q, before) = WithShuffle(m, q.shuffle)
  BY <1>1, <1>2 DEF Restored
<1>4. /\ DOMAIN m = DOMAIN before /\ m.arranged = before.arranged /\ m.shuffled = NoOrder
      /\ m.current = before.current /\ m.repeat = q.repeat /\ m.shuffle = FALSE
      /\ m.nextId = next
  BY <1>2 DEF Plain
<1>5. WithShuffle(m, q.shuffle) = {m}
  <2>1. m.shuffle = q.shuffle
    BY <1>4 DEF Plain
  <2>2. QED
    BY <2>1, Zenon DEF WithShuffle
<1>6. m = CHOOSE r \in Restored(q, before) : TRUE
  BY <1>3, <1>5
<1>7. /\ next \in Nat \ {0} /\ next >= before.nextId
      /\ \A i \in 1..Len(before.arranged) : before.arranged[i] < next
  BY <1>1 DEF Plain, Orderly
<1>8. Orderly(m.arranged, next)
  BY <1>4, <1>7 DEF Plain, Orderly
<1>9. Plain(m) /\ Length(m) = Length(before)
  BY <1>4, <1>7, <1>8 DEF Plain, Length
<1>10. QED
  BY <1>1, <1>4, <1>6, <1>9

(* One order after the other.                                              *)
LEMMA OrderlyJoined ==
  ASSUME NEW a, NEW b, NEW nextId, Orderly(a, nextId), Orderly(b, nextId),
         \A i \in 1..Len(a), j \in 1..Len(b) : a[i] # b[j]
  PROVE  Orderly(a \o b, nextId) /\ Len(a \o b) = Len(a) + Len(b)
<1>1. /\ a \in Seq(Nat \ {0}) /\ b \in Seq(Nat \ {0}) /\ Len(a) \in Nat /\ Len(b) \in Nat
      /\ DOMAIN a = 1..Len(a) /\ DOMAIN b = 1..Len(b)
  BY DEF Orderly
<1>2. PICK c : c = a \o b
  OBVIOUS
<1>3. /\ c \in Seq(Nat \ {0}) /\ Len(c) = Len(a) + Len(b)
      /\ DOMAIN c = 1..(Len(a) + Len(b))
      /\ \A i \in 1..(Len(a) + Len(b)) : c[i] = IF i <= Len(a) THEN a[i] ELSE b[i - Len(a)]
  BY <1>1, <1>2, ConcatProperties
<1>4. \A i \in 1..(Len(a) + Len(b)) :
        IF i <= Len(a) THEN i \in 1..Len(a) /\ c[i] = a[i]
        ELSE i - Len(a) \in 1..Len(b) /\ c[i] = b[i - Len(a)]
  BY <1>1, <1>3
<1>5. \A i \in 1..Len(c) : c[i] < nextId
  BY <1>1, <1>3, <1>4 DEF Orderly
<1>6. IsInjective(c)
  <2>1. SUFFICES ASSUME NEW i \in 1..(Len(a) + Len(b)), NEW j \in 1..(Len(a) + Len(b)),
                        c[i] = c[j]
                 PROVE  i = j
    BY <1>3 DEF IsInjective
  <2>2. CASE i <= Len(a) /\ j <= Len(a)
    BY <1>1, <1>4, <2>1, <2>2 DEF Orderly, IsInjective
  <2>3. CASE i <= Len(a) /\ ~(j <= Len(a))
    BY <1>4, <2>1, <2>3
  <2>4. CASE ~(i <= Len(a)) /\ j <= Len(a)
    BY <1>4, <2>1, <2>4
  <2>5. CASE ~(i <= Len(a)) /\ ~(j <= Len(a))
    <3>1. i - Len(a) = j - Len(a)
      BY <1>1, <1>4, <2>1, <2>5 DEF Orderly, IsInjective
    <3>2. QED
      BY <1>1, <3>1
  <2>6. QED
    BY <2>2, <2>3, <2>4, <2>5
<1>7. QED
  BY <1>2, <1>3, <1>5, <1>6 DEF Orderly

(* A part of an order.                                                     *)
LEMMA OrderlyPart ==
  ASSUME NEW a, NEW nextId, Orderly(a, nextId), NEW m \in 1..(Len(a) + 1), NEW n \in 0..Len(a)
  PROVE  /\ Orderly(SubSeq(a, m, n), nextId)
         /\ Len(SubSeq(a, m, n)) = IF m <= n THEN n - m + 1 ELSE 0
         /\ \A i \in 1..Len(SubSeq(a, m, n)) :
              SubSeq(a, m, n)[i] = a[m + i - 1] /\ m + i - 1 \in m..n
<1>1. /\ a \in Seq(Nat \ {0}) /\ Len(a) \in Nat /\ DOMAIN a = 1..Len(a)
      /\ \A i \in 1..Len(a) : a[i] \in Nat \ {0}
  BY DEF Orderly
<1>2. m \in Int /\ n \in Int /\ m..n \subseteq 1..Len(a)
  BY <1>1
<1>3. PICK c : c = SubSeq(a, m, n)
  OBVIOUS
<1>4. /\ c \in Seq(Nat \ {0}) /\ Len(c) = IF m <= n THEN n - m + 1 ELSE 0
      /\ \A i \in 1..(n - m + 1) : c[i] = a[m + i - 1]
  <2>1. \A i \in m..n : a[i] \in Nat \ {0}
    BY <1>1, <1>2
  <2>2. QED
    BY <1>2, <1>3, <2>1, SubSeqProperties
<1>5. \A i \in 1..Len(c) : m + i - 1 \in m..n /\ m + i - 1 \in 1..Len(a) /\ c[i] = a[m + i - 1]
  BY <1>1, <1>2, <1>4
<1>6. DOMAIN c = 1..Len(c)
  BY <1>4
<1>7. IsInjective(c)
  <2>1. SUFFICES ASSUME NEW i \in 1..Len(c), NEW j \in 1..Len(c), c[i] = c[j] PROVE i = j
    BY <1>6 DEF IsInjective
  <2>2. m + i - 1 = m + j - 1
    BY <1>1, <1>5, <2>1 DEF Orderly, IsInjective
  <2>3. QED
    BY <1>2, <2>2
<1>8. \A i \in 1..Len(c) : c[i] < nextId
  BY <1>5 DEF Orderly
<1>9. QED
  BY <1>3, <1>4, <1>5, <1>7, <1>8 DEF Orderly

(* New entries in an order.                                                *)
LEMMA OrderlySpliced ==
  ASSUME NEW a, NEW new, NEW nextId, Orderly(a, nextId), Orderly(new, nextId),
         \A i \in 1..Len(a), j \in 1..Len(new) : a[i] # new[j],
         NEW at \in 1..(Len(a) + 1)
  PROVE  Orderly(Splice(a, at, new), nextId) /\ Len(Splice(a, at, new)) = Len(a) + Len(new)
<1>1. Len(a) \in Nat /\ Len(new) \in Nat /\ DOMAIN a = 1..Len(a)
  BY DEF Orderly
<1>2. /\ at - 1 \in 0..Len(a) /\ 1 \in 1..(Len(a) + 1) /\ Len(a) \in 0..Len(a)
      /\ at - 1 \in Int /\ at \in Int
  BY <1>1
<1>3. PICK p : p = SubSeq(a, 1, at - 1)
  OBVIOUS
<1>4. PICK r : r = SubSeq(a, at, Len(a))
  OBVIOUS
<1>5. /\ Orderly(p, nextId) /\ Len(p) = at - 1
      /\ \A i \in 1..Len(p) : p[i] = a[i] /\ i \in 1..(at - 1)
  <2>1. /\ Orderly(p, nextId) /\ Len(p) = IF 1 <= at - 1 THEN at - 1 - 1 + 1 ELSE 0
        /\ \A i \in 1..Len(p) : p[i] = a[1 + i - 1] /\ 1 + i - 1 \in 1..(at - 1)
    BY <1>2, <1>3, OrderlyPart
  <2>2. Len(p) = at - 1
    BY <1>2, <2>1
  <2>3. \A i \in 1..Len(p) : 1 + i - 1 = i
    BY <1>2, <2>2
  <2>4. QED
    BY <2>1, <2>2, <2>3
<1>6. /\ Orderly(r, nextId) /\ Len(r) = Len(a) - at + 1
      /\ \A i \in 1..Len(r) : r[i] = a[at + i - 1] /\ at + i - 1 \in at..Len(a)
  <2>1. /\ Orderly(r, nextId) /\ Len(r) = IF at <= Len(a) THEN Len(a) - at + 1 ELSE 0
        /\ \A i \in 1..Len(r) : r[i] = a[at + i - 1] /\ at + i - 1 \in at..Len(a)
    BY <1>2, <1>4, OrderlyPart
  <2>2. Len(r) = Len(a) - at + 1
    BY <1>1, <2>1
  <2>3. QED
    BY <2>1, <2>2
<1>7. \A i \in 1..Len(p), j \in 1..Len(new) : p[i] # new[j]
  BY <1>1, <1>2, <1>5
<1>8. Orderly(p \o new, nextId) /\ Len(p \o new) = at - 1 + Len(new)
  BY <1>5, <1>7, OrderlyJoined
<1>9. PICK f : f = p \o new
  OBVIOUS
<1>10. \A i \in 1..Len(f) :
         IF i <= Len(p) THEN f[i] = p[i] /\ i \in 1..Len(p)
         ELSE f[i] = new[i - Len(p)] /\ i - Len(p) \in 1..Len(new)
  <2>1. p \in Seq(Nat \ {0}) /\ new \in Seq(Nat \ {0}) /\ Len(p) \in Nat
    BY <1>5 DEF Orderly
  <2>2. Len(f) = Len(p) + Len(new)
        /\ \A i \in 1..(Len(p) + Len(new)) : f[i] = IF i <= Len(p) THEN p[i] ELSE new[i - Len(p)]
    BY <1>9, <2>1, ConcatProperties
  <2>3. QED
    BY <1>1, <2>1, <2>2
<1>11. \A i \in 1..Len(f), j \in 1..Len(r) : f[i] # r[j]
  <2>1. SUFFICES ASSUME NEW i \in 1..Len(f), NEW j \in 1..Len(r) PROVE f[i] # r[j]
    OBVIOUS
  <2>2. r[j] = a[at + j - 1] /\ at + j - 1 \in 1..Len(a) /\ at + j - 1 >= at
    BY <1>1, <1>2, <1>6
  <2>3. CASE i <= Len(p)
    <3>1. f[i] = a[i] /\ i \in 1..(at - 1)
      BY <1>5, <1>10, <2>3
    <3>2. i \in 1..Len(a) /\ i # at + j - 1
      BY <1>1, <1>2, <2>2, <3>1
    <3>3. QED
      BY <1>1, <2>2, <3>1, <3>2 DEF Orderly, IsInjective
  <2>4. CASE ~(i <= Len(p))
    BY <1>10, <2>2, <2>4
  <2>5. QED
    BY <2>3, <2>4
<1>12. Orderly(f \o r, nextId) /\ Len(f \o r) = Len(f) + Len(r)
  BY <1>6, <1>8, <1>9, <1>11, OrderlyJoined
<1>13. Splice(a, at, new) = f \o r
  BY <1>3, <1>4, <1>9 DEF Splice
<1>14. Len(f) + Len(r) = Len(a) + Len(new)
  <2>1. \A x, y, z \in Int : x - 1 + y + (z - x + 1) = z + y
    OBVIOUS
  <2>2. Len(f) = at - 1 + Len(new) /\ Len(r) = Len(a) - at + 1
    BY <1>6, <1>8, <1>9
  <2>3. QED
    BY ONLY <1>1, <1>2, <2>1, <2>2
<1>15. QED
  BY <1>12, <1>13, <1>14

(* What is before the place of the new entries stays where it is.          *)
LEMMA BeforeSplice ==
  ASSUME NEW a, NEW nextId, Orderly(a, nextId), NEW new, new \in Seq(Nat \ {0}),
         NEW at \in 1..(Len(a) + 1), NEW c \in 1..(at - 1)
  PROVE  Splice(a, at, new)[c] = a[c]
<1>1. /\ a \in Seq(Nat \ {0}) /\ Len(a) \in Nat /\ at - 1 \in 0..Len(a) /\ 1 \in 1..(Len(a) + 1)
      /\ Len(a) \in 0..Len(a) /\ at \in Int /\ c \in Int
  BY DEF Orderly
<1>2. PICK p : p = SubSeq(a, 1, at - 1)
  OBVIOUS
<1>3. PICK r : r = SubSeq(a, at, Len(a))
  OBVIOUS
<1>4. p \in Seq(Nat \ {0}) /\ Len(p) = at - 1 /\ c \in 1..Len(p) /\ p[c] = a[c]
  <2>1. /\ Orderly(p, nextId) /\ Len(p) = IF 1 <= at - 1 THEN at - 1 - 1 + 1 ELSE 0
        /\ \A i \in 1..Len(p) : p[i] = a[1 + i - 1]
    BY <1>1, <1>2, OrderlyPart
  <2>2. Len(p) = at - 1 /\ 1 + c - 1 = c
    BY <1>1, <2>1
  <2>3. c \in 1..Len(p)
    BY <2>2
  <2>4. QED
    BY <2>1, <2>2, <2>3 DEF Orderly
<1>5. r \in Seq(Nat \ {0})
  BY <1>1, <1>3, OrderlyPart DEF Orderly
<1>6. /\ p \o new \in Seq(Nat \ {0}) /\ Len(p \o new) = Len(p) + Len(new)
      /\ (p \o new)[c] = p[c] /\ Len(new) \in Nat /\ c \in 1..Len(p \o new)
  <2>1. /\ p \o new \in Seq(Nat \ {0}) /\ Len(p \o new) = Len(p) + Len(new)
        /\ \A i \in 1..(Len(p) + Len(new)) :
             (p \o new)[i] = IF i <= Len(p) THEN p[i] ELSE new[i - Len(p)]
    BY <1>4, ConcatProperties
  <2>2. Len(new) \in Nat /\ Len(p) \in Nat
    BY <1>4
  <2>3. c \in 1..(Len(p) + Len(new)) /\ c <= Len(p)
    BY <1>4, <2>2
  <2>4. QED
    BY <2>1, <2>2, <2>3
<1>7. ((p \o new) \o r)[c] = (p \o new)[c]
  BY <1>5, <1>6
<1>8. QED
  BY <1>2, <1>3, <1>4, <1>6, <1>7 DEF Splice

(* What is to come is after the current entry.                             *)
LEMMA UpcomingIsAfter ==
  ASSUME NEW q, Plain(q)
  PROVE  \A id \in UpcomingIds(q) :
           /\ \E i \in 1..Length(q) : q.current < i /\ q.arranged[i] = id
           /\ \A j \in 1..Length(q) : j <= q.current => q.arranged[j] # id
<1>1. /\ Length(q) \in Nat /\ Len(q.arranged) = Length(q) /\ q.arranged \in Seq(Nat \ {0})
      /\ Orderly(q.arranged, q.nextId) /\ q.current \in 1..(Length(q) + 1)
      /\ DOMAIN q.arranged = 1..Length(q) /\ PlayOrder(q) = q.arranged
  BY PlainPlays DEF Plain, Length, Orderly
<1>2. TAKE id \in UpcomingIds(q)
<1>3. PICK u : u = SubSeq(q.arranged, q.current + 1, Length(q))
  OBVIOUS
<1>4. id \in ToSet(u)
  BY <1>1, <1>2, <1>3 DEF UpcomingIds, Upcoming
<1>5. /\ u \in Seq(Nat \ {0})
      /\ \A k \in 1..Len(u) : u[k] = q.arranged[q.current + 1 + k - 1]
                              /\ q.current + 1 + k - 1 \in (q.current + 1)..Length(q)
  <2>1. CASE q.current <= Length(q)
    <3>1. q.current + 1 \in 1..(Len(q.arranged) + 1) /\ Length(q) \in 0..Len(q.arranged)
      BY <1>1, <2>1
    <3>2. PICK m \in 1..(Len(q.arranged) + 1) : m = q.current + 1
      BY <3>1
    <3>3. Orderly(u, q.nextId) /\ \A k \in 1..Len(u) : u[k] = q.arranged[m + k - 1] /\ m + k - 1 \in m..Length(q)
      BY <1>1, <1>3, <3>1, <3>2, OrderlyPart
    <3>4. QED
      BY <3>2, <3>3 DEF Orderly
  <2>2. CASE ~(q.current <= Length(q))
    <3>1. u = <<>>
      BY <1>1, <1>3, <2>2
    <3>2. QED
      BY <3>1
  <2>3. QED
    BY <2>1, <2>2
<1>6. PICK k \in 1..Len(u) : u[k] = id
  BY <1>4, <1>5 DEF ToSet
<1>7. PICK i \in 1..Length(q) : q.current < i /\ q.arranged[i] = id
  <2>1. PICK i : i = q.current + 1 + k - 1
    OBVIOUS
  <2>2. i \in (q.current + 1)..Length(q) /\ q.arranged[i] = id
    BY <1>5, <1>6, <2>1
  <2>3. i \in 1..Length(q) /\ q.current < i
    BY <1>1, <2>2
  <2>4. QED
    BY <2>2, <2>3
<1>8. \A j \in 1..Length(q) : j <= q.current => q.arranged[j] # id
  <2>1. \A j \in 1..Length(q) : j <= q.current => i # j
    BY <1>1, <1>7
  <2>2. \A j \in 1..Length(q) : q.arranged[i] = q.arranged[j] => i = j
    BY <1>1, <1>7 DEF Orderly, IsInjective
  <2>3. QED
    BY <1>7, <2>1, <2>2
<1>9. QED
  BY <1>7, <1>8

(* Ids not given yet are in no order.                                      *)
LEMMA NewIdsAreNew ==
  ASSUME NEW q, q.nextId \in Nat \ {0}, NEW a, Orderly(a, q.nextId), NEW n \in Nat
  PROVE  /\ Orderly(a, q.nextId + n)
         /\ \A i \in 1..Len(a), j \in 1..Len(NewIds(q, n)) : a[i] # NewIds(q, n)[j]
<1>1. PICK new : new = NewIds(q, n)
  OBVIOUS
<1>2. Len(new) = n /\ \A j \in 1..n : new[j] >= q.nextId /\ new[j] \in Nat
  BY <1>1, NewIdsOrderly DEF Orderly
<1>3. \A i \in 1..Len(a) : a[i] < q.nextId /\ a[i] \in Nat
  BY DEF Orderly
<1>4. \A i \in 1..Len(a), j \in 1..Len(new) : a[i] # new[j]
  BY <1>2, <1>3
<1>5. \A i \in 1..Len(a) : a[i] < q.nextId + n
  BY <1>3
<1>6. QED
  BY <1>1, <1>4, <1>5 DEF Orderly

(* A queue that is not shuffled after its order is another one.            *)
LEMMA PlainReordered ==
  ASSUME NEW q, Plain(q), NEW a, NEW nextId \in Nat \ {0}, Orderly(a, nextId),
         q.current <= Len(a) + 1
  PROVE  LET m == [WithPlayOrder(q, a) EXCEPT !.nextId = nextId, !.arranged = a]
         IN /\ Plain(m) /\ m.nextId = nextId /\ m.arranged = a /\ Length(m) = Len(a)
            /\ m.current = q.current
<1>1. PICK m : m = [WithPlayOrder(q, a) EXCEPT !.nextId = nextId, !.arranged = a]
  OBVIOUS
<1>2. /\ DOMAIN m = DOMAIN q /\ m.arranged = a /\ m.shuffled = NoOrder
      /\ m.current = q.current /\ m.repeat = q.repeat /\ m.shuffle = FALSE
      /\ m.nextId = nextId
  BY <1>1, PlainPlays DEF WithPlayOrder, Plain
<1>3. q.current \in 1..(Len(a) + 1)
  BY DEF Plain, Orderly
<1>4. Plain(m) /\ Length(m) = Len(a)
  BY <1>2, <1>3 DEF Plain, Length
<1>5. QED
  BY <1>1, <1>2, <1>4

LEMMA PlainEnqueued ==
  ASSUME NEW q, Plain(q), NEW n \in Nat, NEW next \in BOOLEAN, next => HasCurrent(q)
  PROVE  LET m == Enqueued(q, n, next)
         IN /\ Plain(m) /\ m.nextId = q.nextId + n /\ Length(m) = Length(q) + n
            /\ HasCurrent(q) => HasCurrent(m) /\ CurrentId(m) = CurrentId(q)
<1>1. PICK at : at = IF next THEN q.current + 1 ELSE Length(q) + 1
  OBVIOUS
<1>2. PICK new : new = NewIds(q, n)
  OBVIOUS
<1>3. PICK a : a = Splice(q.arranged, at, new)
  OBVIOUS
<1>4. /\ q.nextId \in Nat \ {0} /\ Length(q) \in Nat /\ Len(q.arranged) = Length(q)
      /\ q.current \in 1..(Length(q) + 1)
  BY PlainPlays DEF Plain, Length
<1>5. at \in 1..(Len(q.arranged) + 1) /\ (HasCurrent(q) => q.current < at)
  BY <1>1, <1>4, PlainPlays
<1>6. Orderly(q.arranged, q.nextId)
  BY DEF Plain
<1>7. /\ Orderly(new, q.nextId + n) /\ Len(new) = n /\ Orderly(q.arranged, q.nextId + n)
      /\ \A i \in 1..Len(q.arranged), j \in 1..Len(new) : q.arranged[i] # new[j]
  <2>1. Orderly(NewIds(q, n), q.nextId + n) /\ Len(NewIds(q, n)) = n
    BY <1>4, NewIdsOrderly
  <2>2. /\ Orderly(q.arranged, q.nextId + n)
        /\ \A i \in 1..Len(q.arranged), j \in 1..Len(NewIds(q, n)) : q.arranged[i] # NewIds(q, n)[j]
    BY <1>4, <1>6, NewIdsAreNew
  <2>3. QED
    BY <1>2, <2>1, <2>2
<1>8. Orderly(a, q.nextId + n) /\ Len(a) = Length(q) + n
  BY <1>3, <1>4, <1>5, <1>7, OrderlySpliced
<1>9. PICK m : m = [WithPlayOrder(q, a) EXCEPT !.nextId = q.nextId + n, !.arranged = a]
  OBVIOUS
<1>10. m = Enqueued(q, n, next)
  <2>1. Enqueued(q, n, next) =
          [WithPlayOrder(q, a) EXCEPT !.nextId = q.nextId + n,
                                      !.arranged = WithPlayOrder(q, a).arranged]
    BY <1>1, <1>2, <1>3, PlainPlays DEF Enqueued
  <2>2. WithPlayOrder(q, a).arranged = a
    BY PlainPlays DEF WithPlayOrder, Plain
  <2>3. QED
    BY <1>9, <2>1, <2>2
<1>11. /\ q.nextId + n \in Nat \ {0} /\ q.current <= Len(a) + 1
       /\ (HasCurrent(q) => q.current <= Len(a))
  BY <1>4, <1>8, PlainPlays
<1>12. /\ Plain(m) /\ m.nextId = q.nextId + n /\ m.arranged = a /\ Length(m) = Len(a)
       /\ m.current = q.current
  <2>1. PICK id \in Nat \ {0} : id = q.nextId + n
    BY <1>11
  <2>2. Orderly(a, id) /\ q.current <= Len(a) + 1
    BY <1>8, <1>11, <2>1
  <2>3. LET x == [WithPlayOrder(q, a) EXCEPT !.nextId = id, !.arranged = a]
        IN /\ Plain(x) /\ x.nextId = id /\ x.arranged = a /\ Length(x) = Len(a)
           /\ x.current = q.current
    BY <2>2, PlainReordered
  <2>4. QED
    BY <1>9, <2>1, <2>3
<1>13. ASSUME HasCurrent(q) PROVE HasCurrent(m) /\ CurrentId(m) = CurrentId(q)
  <2>1. q.current \in 1..Length(q) /\ q.current \in 1..(at - 1) /\ at - 1 \in 0..Length(q)
        /\ at - 1 \in Int /\ q.current <= at - 1
    BY <1>4, <1>5, <1>13, PlainPlays
  <2>2. a[q.current] = q.arranged[q.current]
    <3>1. PICK p \in 1..(Len(q.arranged) + 1) : p = at
      BY <1>5
    <3>2. PICK c \in 1..(p - 1) : c = q.current
      BY <2>1, <3>1
    <3>3. new \in Seq(Nat \ {0})
      BY <1>7 DEF Orderly
    <3>4. Splice(q.arranged, p, new)[c] = q.arranged[c]
      BY ONLY <1>6, <3>3, p \in 1..(Len(q.arranged) + 1), c \in 1..(p - 1), BeforeSplice
    <3>5. QED
      BY <1>3, <3>1, <3>2, <3>4
  <2>3. HasCurrent(m) /\ CurrentId(m) = a[q.current]
    BY <1>11, <1>12, <1>13, PlainPlays
  <2>4. QED
    BY <1>13, <2>2, <2>3, PlainPlays
<1>14. QED
  BY <1>8, <1>10, <1>12, <1>13

LEMMA PlainWithoutUpcomingEntry ==
  ASSUME NEW q, Plain(q), HasCurrent(q), NEW id \in UpcomingIds(q)
  PROVE  LET m == WithoutUpcomingEntry(q, id)
         IN /\ Plain(m) /\ m.nextId = q.nextId /\ Length(m) <= Length(q)
            /\ HasCurrent(m) /\ CurrentId(m) = CurrentId(q)
<1>1. PICK a : a = Retain(q.arranged, {id})
  OBVIOUS
<1>2. /\ Length(q) \in Nat /\ Len(q.arranged) = Length(q) /\ q.current \in 1..Length(q)
      /\ q.arranged \in Seq(Nat \ {0}) /\ Orderly(q.arranged, q.nextId)
      /\ q.nextId \in Nat \ {0}
  <2>1. q.current \in 1..(Len(q.arranged) + 1) /\ Orderly(q.arranged, q.nextId)
        /\ q.nextId \in Nat \ {0}
    BY DEF Plain
  <2>2. q.arranged \in Seq(Nat \ {0})
    BY <2>1 DEF Orderly
  <2>3. Length(q) \in Nat /\ q.current <= Length(q)
    BY PlainPlays
  <2>4. QED
    BY <2>1, <2>2, <2>3 DEF Length
<1>3. \A j \in 1..q.current : q.arranged[j] # id
  <2>1. \A j \in 1..Length(q) : j <= q.current => q.arranged[j] # id
    BY UpcomingIsAfter
  <2>2. QED
    BY <1>2, <2>1
<1>4. Orderly(a, q.nextId)
  BY <1>1, <1>2, OrderlyRetained
<1>5. /\ Len(a) <= Len(q.arranged) /\ Len(a) \in Nat
  BY <1>1, <1>2, <1>4, RetainKeeps DEF Orderly
<1>6. q.current <= Len(a) /\ a[q.current] = q.arranged[q.current]
  <2>1. q.current \in 0..Len(q.arranged) /\ \A j \in 1..q.current : q.arranged[j] \notin {id}
    BY <1>2, <1>3
  <2>2. /\ q.current <= Len(Retain(q.arranged, {id}))
        /\ \A j \in 1..q.current : Retain(q.arranged, {id})[j] = q.arranged[j]
    BY <1>2, <2>1, BeginningStays
  <2>3. q.current \in 1..q.current
    BY <1>2
  <2>4. QED
    BY <1>1, <2>2, <2>3
<1>7. PICK m : m = [WithPlayOrder(q, a) EXCEPT !.nextId = q.nextId, !.arranged = a]
  OBVIOUS
<1>8. m = WithoutUpcomingEntry(q, id)
  BY <1>1, <1>7, PlainPlays DEF WithoutUpcomingEntry, WithPlayOrder, Plain
<1>9. /\ Plain(m) /\ m.nextId = q.nextId /\ m.arranged = a /\ Length(m) = Len(a)
      /\ m.current = q.current
  <2>1. q.current <= Len(a) + 1
    BY <1>2, <1>5, <1>6
  <2>2. LET x == [WithPlayOrder(q, a) EXCEPT !.nextId = q.nextId, !.arranged = a]
        IN /\ Plain(x) /\ x.nextId = q.nextId /\ x.arranged = a /\ Length(x) = Len(a)
           /\ x.current = q.current
    BY <1>2, <1>4, <2>1, PlainReordered
  <2>3. QED
    BY <1>7, <2>2
<1>10. HasCurrent(m) /\ CurrentId(m) = CurrentId(q)
  BY <1>6, <1>9, PlainPlays
<1>11. QED
  BY <1>2, <1>5, <1>8, <1>9, <1>10

LEMMA PlainWithoutUpcoming ==
  ASSUME NEW q, Plain(q), HasCurrent(q)
  PROVE  LET m == WithoutUpcoming(q)
         IN /\ Plain(m) /\ m.nextId = q.nextId /\ Length(m) <= Length(q)
            /\ HasCurrent(m) /\ CurrentId(m) = CurrentId(q)
<1>1. PICK a : a = Retain(q.arranged, UpcomingIds(q))
  OBVIOUS
<1>2. /\ Length(q) \in Nat /\ Len(q.arranged) = Length(q) /\ q.current \in 1..Length(q)
      /\ q.arranged \in Seq(Nat \ {0}) /\ Orderly(q.arranged, q.nextId)
      /\ q.nextId \in Nat \ {0}
  <2>1. q.current \in 1..(Len(q.arranged) + 1) /\ Orderly(q.arranged, q.nextId)
        /\ q.nextId \in Nat \ {0}
    BY DEF Plain
  <2>2. q.arranged \in Seq(Nat \ {0})
    BY <2>1 DEF Orderly
  <2>3. Length(q) \in Nat /\ q.current <= Length(q)
    BY PlainPlays
  <2>4. QED
    BY <2>1, <2>2, <2>3 DEF Length
<1>3. \A j \in 1..q.current : q.arranged[j] \notin UpcomingIds(q)
  <2>1. \A j \in 1..Length(q) : j <= q.current =>
          \A id \in UpcomingIds(q) : q.arranged[j] # id
    BY UpcomingIsAfter
  <2>2. QED
    BY <1>2, <2>1
<1>4. Orderly(a, q.nextId)
  BY <1>1, <1>2, OrderlyRetained
<1>5. /\ Len(a) <= Len(q.arranged) /\ Len(a) \in Nat
  BY <1>1, <1>2, <1>4, RetainKeeps DEF Orderly
<1>6. q.current <= Len(a) /\ a[q.current] = q.arranged[q.current]
  <2>1. q.current \in 0..Len(q.arranged)
    BY <1>2
  <2>2. /\ q.current <= Len(Retain(q.arranged, UpcomingIds(q)))
        /\ \A j \in 1..q.current : Retain(q.arranged, UpcomingIds(q))[j] = q.arranged[j]
    BY <1>2, <1>3, <2>1, BeginningStays
  <2>3. q.current \in 1..q.current
    BY <1>2
  <2>4. QED
    BY <1>1, <2>2, <2>3
<1>7. PICK m : m = [WithPlayOrder(q, a) EXCEPT !.nextId = q.nextId, !.arranged = a]
  OBVIOUS
<1>8. m = WithoutUpcoming(q)
  BY <1>1, <1>7, PlainPlays DEF WithoutUpcoming, WithPlayOrder, Plain
<1>9. /\ Plain(m) /\ m.nextId = q.nextId /\ m.arranged = a /\ Length(m) = Len(a)
      /\ m.current = q.current
  <2>1. q.current <= Len(a) + 1
    BY <1>2, <1>5, <1>6
  <2>2. LET x == [WithPlayOrder(q, a) EXCEPT !.nextId = q.nextId, !.arranged = a]
        IN /\ Plain(x) /\ x.nextId = q.nextId /\ x.arranged = a /\ Length(x) = Len(a)
           /\ x.current = q.current
    BY <1>2, <1>4, <2>1, PlainReordered
  <2>3. QED
    BY <1>7, <2>2
<1>10. HasCurrent(m) /\ CurrentId(m) = CurrentId(q)
  BY <1>6, <1>9, PlainPlays
<1>11. QED
  BY <1>2, <1>5, <1>8, <1>9, <1>10

(* An upcoming entry moved to play next: the current one stays current.    *)
LEMMA PlainPlayedNext ==
  ASSUME NEW q, Plain(q), HasCurrent(q), NEW id \in UpcomingIds(q)
  PROVE  LET m == WithMoved(q, id, 0)
         IN /\ Plain(m) /\ m.nextId = q.nextId /\ Length(m) <= Length(q)
            /\ HasCurrent(m) /\ CurrentId(m) = CurrentId(q)
<1>1. PICK rest : rest = Retain(q.arranged, {id})
  OBVIOUS
<1>2. /\ Length(q) \in Nat /\ Len(q.arranged) = Length(q) /\ q.current \in 1..Length(q)
      /\ q.arranged \in Seq(Nat \ {0}) /\ Orderly(q.arranged, q.nextId)
      /\ q.nextId \in Nat \ {0}
  <2>1. q.current \in 1..(Len(q.arranged) + 1) /\ Orderly(q.arranged, q.nextId)
        /\ q.nextId \in Nat \ {0}
    BY DEF Plain
  <2>2. q.arranged \in Seq(Nat \ {0})
    BY <2>1 DEF Orderly
  <2>3. Length(q) \in Nat /\ q.current <= Length(q)
    BY PlainPlays
  <2>4. QED
    BY <2>1, <2>2, <2>3 DEF Length
<1>3. PICK i \in 1..Length(q) : q.current < i /\ q.arranged[i] = id
  BY UpcomingIsAfter
<1>4. \A j \in 1..q.current : q.arranged[j] # id
  <2>1. \A j \in 1..Length(q) : j <= q.current => q.arranged[j] # id
    BY UpcomingIsAfter
  <2>2. QED
    BY <1>2, <2>1
<1>5. Orderly(rest, q.nextId)
  BY <1>1, <1>2, OrderlyRetained
<1>6. /\ Len(rest) \in Nat /\ Len(rest) < Length(q)
      /\ \A m \in 1..Len(rest) : rest[m] # id
  <2>1. Len(rest) \in Nat
    BY <1>5 DEF Orderly
  <2>2. \E j \in 1..Len(q.arranged) : q.arranged[j] \in {id}
    BY <1>2, <1>3
  <2>3. Len(rest) < Len(q.arranged)
    BY <1>1, <1>2, <2>2, RetainKeeps
  <2>4. \A m \in 1..Len(Retain(q.arranged, {id})) :
          \E j \in 1..Len(q.arranged) :
            Retain(q.arranged, {id})[m] = q.arranged[j] /\ q.arranged[j] \notin {id}
    BY <1>2, RetainKeeps, Zenon
  <2>5. QED
    BY <1>1, <1>2, <2>1, <2>3, <2>4
<1>7. q.current <= Len(rest) /\ rest[q.current] = q.arranged[q.current]
  <2>1. q.current \in 0..Len(q.arranged) /\ \A j \in 1..q.current : q.arranged[j] \notin {id}
    BY <1>2, <1>4
  <2>2. /\ q.current <= Len(Retain(q.arranged, {id}))
        /\ \A j \in 1..q.current : Retain(q.arranged, {id})[j] = q.arranged[j]
    BY <1>2, <2>1, BeginningStays
  <2>3. q.current \in 1..q.current
    BY <1>2
  <2>4. QED
    BY <1>1, <2>2, <2>3
<1>8. PICK at \in 1..(Len(rest) + 1) : at = q.current + 1
  BY <1>2, <1>6, <1>7
<1>9. MoveTarget(q, 0) = at
  BY <1>2, <1>3, <1>8 DEF MoveTarget
<1>10. PICK one : one = <<id>>
  OBVIOUS
<1>11. /\ Orderly(one, q.nextId) /\ Len(one) = 1 /\ one \in Seq(Nat \ {0})
       /\ \A m \in 1..Len(rest), j \in 1..Len(one) : rest[m] # one[j]
  <2>1. id \in Nat \ {0} /\ id < q.nextId
    BY <1>2, <1>3 DEF Orderly
  <2>2. Len(one) = 1 /\ DOMAIN one = 1..1 /\ one[1] = id /\ one \in Seq(Nat \ {0})
    BY <1>10, <2>1
  <2>3. \A m \in 1..Len(rest), j \in 1..Len(one) : rest[m] # one[j]
    BY <1>6, <2>2
  <2>4. QED
    BY <2>1, <2>2, <2>3 DEF Orderly, IsInjective
<1>12. PICK a : a = Splice(rest, at, one)
  OBVIOUS
<1>13. Orderly(a, q.nextId) /\ Len(a) = Len(rest) + 1
  BY <1>5, <1>11, <1>12, OrderlySpliced
<1>14. a[q.current] = q.arranged[q.current]
  <2>1. PICK c \in 1..(at - 1) : c = q.current
    BY <1>2, <1>6, <1>8
  <2>2. Splice(rest, at, one)[c] = rest[c]
    BY ONLY <1>5, <1>11, at \in 1..(Len(rest) + 1), c \in 1..(at - 1), BeforeSplice
  <2>3. QED
    BY <1>7, <1>12, <2>1, <2>2
<1>15. PICK m : m = [WithPlayOrder(q, a) EXCEPT !.nextId = q.nextId, !.arranged = a]
  OBVIOUS
<1>16. m = WithMoved(q, id, 0)
  <2>1. InsertAt(rest, at, id) = a
    BY <1>10, <1>12 DEF InsertAt, Splice
  <2>2. WithMoved(q, id, 0) = WithPlayOrder(q, a)
    BY <1>1, <1>9, <2>1, PlainPlays DEF WithMoved
  <2>3. QED
    BY <1>15, <2>2, PlainPlays DEF WithPlayOrder, Plain
<1>17. /\ Plain(m) /\ m.nextId = q.nextId /\ m.arranged = a /\ Length(m) = Len(a)
       /\ m.current = q.current
  <2>1. q.current <= Len(a) + 1
    BY <1>2, <1>6, <1>7, <1>13
  <2>2. LET x == [WithPlayOrder(q, a) EXCEPT !.nextId = q.nextId, !.arranged = a]
        IN /\ Plain(x) /\ x.nextId = q.nextId /\ x.arranged = a /\ Length(x) = Len(a)
           /\ x.current = q.current
    BY <1>2, <1>13, <2>1, PlainReordered
  <2>3. QED
    BY <1>15, <2>2
<1>18. HasCurrent(m) /\ CurrentId(m) = CurrentId(q)
  <2>1. q.current <= Length(m)
    BY <1>2, <1>6, <1>7, <1>13, <1>17
  <2>2. QED
    BY <1>14, <1>17, <2>1, PlainPlays
<1>19. Length(m) <= Length(q)
  BY <1>2, <1>6, <1>13, <1>17
<1>20. QED
  BY <1>16, <1>17, <1>18, <1>19
=============================================================================
