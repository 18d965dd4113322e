----------------------------- MODULE DataLemmas -----------------------------
(***************************************************************************)
(* Facts about numbers, sequences and recursive functions that the proofs  *)
(* of several components need.  Induction is by sets: a set of numbers     *)
(* that is not empty has a least one, so what holds for the least          *)
(* counterexample holds for all.                                           *)
(***************************************************************************)
EXTENDS Integers, Sequences, SequencesExt, SequenceTheorems, FiniteSetTheorems,
  WellFoundedInduction, TLAPS

(* A set of natural numbers that is not empty has a least element. *)
LEMMA SmallestOf ==
  ASSUME NEW S, S \subseteq Nat, S # {}
  PROVE  \E i \in S : \A j \in S : i <= j
<1> DEFINE R == OpToRel(<, Nat)
<1>1. R = {pair \in Nat \X Nat : pair[1] < pair[2]}
  BY DEF OpToRel
<1>2. IsWellFoundedOn(R, Nat)
  BY NatLessThanWellFounded
<1> HIDE DEF R
<1>3. PICK i \in S : \A j \in S : <<j, i>> \notin R
  BY <1>2, WFMin
<1>4. ASSUME NEW j \in S PROVE i <= j
  <2>1. i \in Nat /\ j \in Nat /\ <<j, i>> \notin R
    BY <1>3
  <2> QED BY <1>1, <2>1
<1> QED BY <1>4

(* A set of natural numbers that has 0, and the successor of each of its    *)
(* numbers, has all of them.                                                *)
LEMMA InductiveSet ==
  ASSUME NEW S, S \subseteq Nat, 0 \in S, \A n \in S : n + 1 \in S
  PROVE  S = Nat
<1>1. SUFFICES ASSUME Nat \ S # {} PROVE FALSE
  OBVIOUS
<1>2. PICK i \in Nat \ S : \A j \in Nat \ S : i <= j
  BY <1>1, SmallestOf
<1>3. i - 1 \in Nat /\ ~(i <= i - 1) /\ i = (i - 1) + 1
  BY <1>2
<1>4. i - 1 \in S
  BY <1>2, <1>3
<1>5. (i - 1) + 1 \in S
  BY <1>4
<1> QED BY <1>2, <1>3, <1>5

-----------------------------------------------------------------------------
(* FlattenSeq.  Its recursive function, up to position n. *)
Joins(f, s, n) == f = [i \in 1 .. n |-> IF i = 1 THEN s[i] ELSE f[i - 1] \o s[i]]

(* The recursive function of FlattenSeq exists. *)
LEMMA JoinsExist ==
  ASSUME NEW s
  PROVE  \A n \in Nat : \E f : Joins(f, s, n)
<1> DEFINE S == {n \in Nat : \E f : Joins(f, s, n)}
<1>1. 0 \in S
  <2> DEFINE f == [i \in 1 .. 0 |-> <<>>]
  <2>1. Joins(f, s, 0)
    BY DEF Joins
  <2> HIDE DEF f
  <2> QED BY <2>1
<1>2. ASSUME NEW n \in S PROVE n + 1 \in S
  <2>1. PICK f : Joins(f, s, n)
    OBVIOUS
  <2> DEFINE g == [i \in 1 .. n + 1 |->
                     IF i = n + 1 THEN IF n = 0 THEN s[1] ELSE f[n] \o s[n + 1] ELSE f[i]]
  <2>2. ASSUME NEW i \in 1 .. n + 1
        PROVE  g[i] = IF i = 1 THEN s[i] ELSE g[i - 1] \o s[i]
    <3>1. n \in Nat
      OBVIOUS
    <3>2. CASE i = n + 1
      BY <3>1, <3>2
    <3>3. CASE i # n + 1
      <4>1. i \in 1 .. n /\ (i # 1 => i - 1 \in 1 .. n)
        BY <3>1, <3>3
      <4>2. f[i] = IF i = 1 THEN s[i] ELSE f[i - 1] \o s[i]
        BY <2>1, <4>1 DEF Joins
      <4>3. g[i] = f[i] /\ (i # 1 => g[i - 1] = f[i - 1])
        BY <3>1, <4>1
      <4> QED BY <4>2, <4>3
    <3> QED BY <3>2, <3>3
  <2>3. g = [i \in 1 .. n + 1 |-> g[i]]
    OBVIOUS
  <2> HIDE DEF g
  <2>4. Joins(g, s, n + 1)
    BY <2>2, <2>3 DEF Joins
  <2> QED BY <2>4
<1> HIDE DEF S
<1>3. S = Nat
  BY <1>1, <1>2, InductiveSet DEF S
<1> QED BY <1>3 DEF S

(* FlattenSeq is its last value. *)
LEMMA FlattenJoins ==
  ASSUME NEW s, Len(s) \in Nat, Len(s) # 0
  PROVE  \E f : Joins(f, s, Len(s)) /\ FlattenSeq(s) = f[Len(s)]
<1> DEFINE f == CHOOSE f : Joins(f, s, Len(s))
<1>1. Joins(f, s, Len(s))
  BY JoinsExist
<1>2. FlattenSeq(s) = f[Len(s)]
  BY DEF FlattenSeq, Joins
<1> QED BY <1>1, <1>2

(* Its values are sequences. *)
LEMMA JoinsValues ==
  ASSUME NEW T, NEW s, NEW f, NEW m,
         s \in Seq(Seq(T)), m \in 0 .. Len(s), Joins(f, s, m)
  PROVE  \A i \in 1 .. m : f[i] \in Seq(T)
<1> DEFINE S == {i \in Nat : i + 1 \in 1 .. m => f[i + 1] \in Seq(T)}
<1>1. 0 \in S
  <2>1. ASSUME 1 \in 1 .. m PROVE f[1] = s[1] /\ s[1] \in Seq(T)
    BY <2>1 DEF Joins
  <2> QED BY <2>1
<1>2. ASSUME NEW i \in S PROVE i + 1 \in S
  <2>1. ASSUME (i + 1) + 1 \in 1 .. m
        PROVE  f[(i + 1) + 1] \in Seq(T)
    <3>1. i \in Nat /\ i + 1 \in 1 .. m /\ (i + 1) + 1 # 1 /\ ((i + 1) + 1) - 1 = i + 1
      BY <2>1
    <3>2. f[(i + 1) + 1] = f[i + 1] \o s[(i + 1) + 1]
      BY <2>1, <3>1 DEF Joins
    <3>3. f[i + 1] \in Seq(T) /\ s[(i + 1) + 1] \in Seq(T)
      BY <2>1, <3>1
    <3> QED BY <3>2, <3>3, ConcatProperties
  <2> QED BY <2>1
<1> HIDE DEF S
<1>3. S = Nat
  BY <1>1, <1>2, InductiveSet DEF S
<1>4. ASSUME NEW i \in 1 .. m PROVE f[i] \in Seq(T)
  <2>1. i - 1 \in S /\ (i - 1) + 1 = i
    BY <1>3
  <2> QED BY <2>1 DEF S
<1> QED BY <1>4

(* Nothing flattens to nothing, and sequences of sequences to a sequence. *)
LEMMA FlattenType ==
  ASSUME NEW T, NEW s \in Seq(Seq(T))
  PROVE  FlattenSeq(s) \in Seq(T) /\ (s = <<>> => FlattenSeq(s) = <<>>)
<1>1. CASE s = <<>>
  BY <1>1 DEF FlattenSeq
<1>2. CASE s # <<>>
  <2>1. Len(s) \in Nat /\ Len(s) # 0 /\ Len(s) \in 0 .. Len(s) /\ Len(s) \in 1 .. Len(s)
    BY <1>2
  <2>2. PICK f : Joins(f, s, Len(s)) /\ FlattenSeq(s) = f[Len(s)]
    BY <2>1, FlattenJoins
  <2>3. f[Len(s)] \in Seq(T)
    BY <2>1, <2>2, JoinsValues
  <2> QED BY <1>2, <2>2, <2>3
<1> QED BY <1>1, <1>2

(* A sequence appended comes last. *)
LEMMA FlattenAppend ==
  ASSUME NEW T, NEW s \in Seq(Seq(T)), NEW e \in Seq(T)
  PROVE  FlattenSeq(Append(s, e)) = FlattenSeq(s) \o e
<1> DEFINE t == Append(s, e)
<1>1. /\ t \in Seq(Seq(T)) /\ Len(t) = Len(s) + 1 /\ Len(s) \in Nat
      /\ t[Len(s) + 1] = e /\ \A i \in 1 .. Len(s) : s[i] = t[i]
  OBVIOUS
<1> HIDE DEF t
<1>2. PICK g : Joins(g, t, Len(t)) /\ FlattenSeq(t) = g[Len(t)]
  BY <1>1, FlattenJoins
<1>3. CASE s = <<>>
  <2>1. Len(s) = 0
    BY <1>3
  <2>2. FlattenSeq(t) = e
    BY <1>1, <1>2, <2>1 DEF Joins
  <2>3. FlattenSeq(s) = <<>>
    BY <1>3, FlattenType
  <2>4. <<>> \o e = e
    BY ConcatEmptySeq
  <2> QED BY <2>2, <2>3, <2>4 DEF t
<1>4. CASE s # <<>>
  <2>1. /\ Len(s) \in Nat /\ Len(t) \in Nat /\ Len(s) # 0
        /\ Len(s) \in 1 .. Len(s) /\ Len(s) <= Len(t)
    BY <1>1, <1>4
  <2>2. PICK f : Joins(f, s, Len(s)) /\ FlattenSeq(s) = f[Len(s)]
    BY <1>1, <2>1, FlattenJoins
  <2>3. \A i \in 1 .. Len(s) : f[i] = g[i]
    <3> DEFINE S == {i \in Nat : i + 1 \in 1 .. Len(s) => f[i + 1] = g[i + 1]}
    <3>1. 0 \in S
      <4>1. 1 \in 1 .. Len(s) /\ 1 \in 1 .. Len(t)
        BY <2>1
      <4>2. f[1] = s[1] /\ g[1] = t[1] /\ s[1] = t[1]
        BY <1>1, <1>2, <2>2, <4>1 DEF Joins
      <4> QED BY <4>2
    <3>2. ASSUME NEW i \in S PROVE i + 1 \in S
      <4>1. ASSUME (i + 1) + 1 \in 1 .. Len(s)
            PROVE  f[(i + 1) + 1] = g[(i + 1) + 1]
        <5>1. /\ i \in Nat /\ i + 1 \in 1 .. Len(s) /\ (i + 1) + 1 # 1
              /\ ((i + 1) + 1) - 1 = i + 1 /\ (i + 1) + 1 \in 1 .. Len(t)
          BY <2>1, <4>1
        <5>2. f[(i + 1) + 1] = f[i + 1] \o s[(i + 1) + 1]
          BY <2>2, <4>1, <5>1 DEF Joins
        <5>3. g[(i + 1) + 1] = g[i + 1] \o t[(i + 1) + 1]
          BY <1>2, <5>1 DEF Joins
        <5>4. f[i + 1] = g[i + 1] /\ s[(i + 1) + 1] = t[(i + 1) + 1]
          BY <1>1, <4>1, <5>1
        <5> QED BY <5>2, <5>3, <5>4
      <4> QED BY <4>1
    <3> HIDE DEF S
    <3>3. S = Nat
      BY <3>1, <3>2, InductiveSet DEF S
    <3>4. ASSUME NEW i \in 1 .. Len(s) PROVE f[i] = g[i]
      <4>1. i - 1 \in S /\ (i - 1) + 1 = i
        BY <3>3
      <4> QED BY <4>1 DEF S
    <3> QED BY <3>4
  <2>4. g[Len(t)] = g[Len(s)] \o t[Len(t)]
    <3>1. Len(t) \in 1 .. Len(t) /\ Len(t) # 1 /\ Len(t) - 1 = Len(s)
      BY <1>1, <2>1
    <3> QED BY <1>2, <3>1 DEF Joins
  <2> QED BY <1>1, <1>2, <2>1, <2>2, <2>3, <2>4 DEF t
<1> QED BY <1>3, <1>4

(* The head comes first. *)
LEMMA FlattenHead ==
  ASSUME NEW T, NEW s \in Seq(Seq(T)), s # <<>>
  PROVE  FlattenSeq(s) = Head(s) \o FlattenSeq(Tail(s))
<1> DEFINE t == Tail(s)
<1>1. /\ t \in Seq(Seq(T)) /\ Len(s) = Len(t) + 1 /\ Len(t) \in Nat
      /\ Len(s) \in Nat /\ Len(s) # 0
      /\ Head(s) = s[1] /\ s[1] \in Seq(T) /\ \A i \in 1 .. Len(t) : t[i] = s[i + 1]
  OBVIOUS
<1> HIDE DEF t
<1>2. PICK f : Joins(f, s, Len(s)) /\ FlattenSeq(s) = f[Len(s)]
  BY <1>1, FlattenJoins
<1>3. f[1] = s[1]
  BY <1>1, <1>2 DEF Joins
<1>4. CASE Len(t) = 0
  <2>1. t = <<>> /\ Len(s) = 1
    BY <1>1, <1>4
  <2>2. FlattenSeq(t) = <<>>
    BY <1>1, <2>1, FlattenType
  <2>3. s[1] \o <<>> = s[1]
    BY <1>1, ConcatEmptySeq
  <2> QED BY <1>1, <1>2, <1>3, <2>1, <2>2, <2>3 DEF t
<1>5. CASE Len(t) # 0
  <2>1. PICK g : Joins(g, t, Len(t)) /\ FlattenSeq(t) = g[Len(t)]
    BY <1>1, <1>5, FlattenJoins
  <2>2. \A i \in 1 .. Len(t) : g[i] \in Seq(T)
    <3>1. Len(t) \in 0 .. Len(t)
      BY <1>1
    <3> QED BY <1>1, <2>1, <3>1, JoinsValues
  <2> DEFINE h == [i \in 1 .. Len(t) |-> s[1] \o g[i]]
  <2>3. \A i \in 1 .. Len(t) : h[i] = s[1] \o g[i]
    OBVIOUS
  <2> HIDE DEF h
  <2>4. f[2] = h[1]
    <3>1. 2 \in 1 .. Len(s) /\ 1 \in 1 .. Len(t) /\ 2 # 1 /\ 2 - 1 = 1
      BY <1>1, <1>5
    <3>2. f[2] = f[1] \o s[2]
      BY <1>2, <3>1 DEF Joins
    <3>3. g[1] = t[1] /\ t[1] = s[2]
      BY <1>1, <2>1, <3>1 DEF Joins
    <3>4. h[1] = s[1] \o g[1]
      BY <2>3, <3>1
    <3> QED BY <1>3, <3>2, <3>3, <3>4
  <2>5. \A a, b, c \in Seq(T) : (a \o b) \o c = a \o (b \o c)
    BY ConcatAssociative, SMTT(30)
  <2>6. ASSUME NEW i \in 1 .. Len(t), i + 1 \in 1 .. Len(t), f[i + 1] = h[i]
        PROVE  f[(i + 1) + 1] = h[i + 1]
    <3>1. /\ (i + 1) + 1 \in 1 .. Len(s) /\ (i + 1) + 1 # 1 /\ ((i + 1) + 1) - 1 = i + 1
          /\ i + 1 # 1 /\ (i + 1) - 1 = i
      BY <1>1, <2>6
    <3>2. f[(i + 1) + 1] = f[i + 1] \o s[(i + 1) + 1]
      BY <1>2, <3>1 DEF Joins
    <3>3. g[i + 1] = g[i] \o t[i + 1]
      BY <2>1, <2>6, <3>1 DEF Joins
    <3>4. t[i + 1] = s[(i + 1) + 1] /\ t[i + 1] \in Seq(T) /\ g[i] \in Seq(T)
      BY <1>1, <2>2, <2>6
    <3>5. h[i] = s[1] \o g[i] /\ h[i + 1] = s[1] \o g[i + 1]
      BY <2>3, <2>6
    <3>6. (s[1] \o g[i]) \o t[i + 1] = s[1] \o (g[i] \o t[i + 1])
      BY <1>1, <2>5, <3>4, Zenon
    <3> QED BY <2>6, <3>2, <3>3, <3>4, <3>5, <3>6, Zenon
  <2> DEFINE S == {i \in Nat : i + 1 \in 1 .. Len(t) => f[(i + 1) + 1] = h[i + 1]}
  <2>7. 0 \in S
    BY <2>4
  <2>8. ASSUME NEW i \in S PROVE i + 1 \in S
    <3>1. ASSUME (i + 1) + 1 \in 1 .. Len(t)
          PROVE  f[((i + 1) + 1) + 1] = h[(i + 1) + 1]
      <4>1. i \in Nat /\ i + 1 \in 1 .. Len(t)
        BY <1>1, <3>1
      <4>2. f[(i + 1) + 1] = h[i + 1]
        BY <4>1
      <4> QED BY <2>6, <3>1, <4>1, <4>2
    <3> QED BY <3>1
  <2> HIDE DEF S
  <2>9. S = Nat
    BY <2>7, <2>8, InductiveSet DEF S
  <2>10. /\ Len(t) - 1 \in S /\ (Len(t) - 1) + 1 = Len(t)
         /\ Len(t) + 1 = Len(s) /\ Len(t) \in 1 .. Len(t)
    BY <1>1, <1>5, <2>9
  <2>11. f[Len(s)] = h[Len(t)]
    BY <2>10 DEF S
  <2>12. f[Len(s)] = s[1] \o g[Len(t)]
    BY <2>3, <2>10, <2>11
  <2> QED BY <1>1, <1>2, <2>1, <2>12 DEF t
<1> QED BY <1>1, <1>4, <1>5

(* The elements of two sequences one after the other. *)
LEMMA ElementsConcat ==
  ASSUME NEW T, NEW s \in Seq(T), NEW t \in Seq(T)
  PROVE  ToSet(s \o t) = ToSet(s) \cup ToSet(t)
<1>1. /\ s \o t \in Seq(T) /\ Len(s \o t) = Len(s) + Len(t)
      /\ \A i \in 1 .. Len(s) + Len(t) : (s \o t)[i] = IF i <= Len(s) THEN s[i] ELSE t[i - Len(s)]
  BY ConcatProperties
<1>2. ASSUME NEW x \in ToSet(s \o t) PROVE x \in ToSet(s) \cup ToSet(t)
  <2>1. PICK i \in 1 .. Len(s) + Len(t) : x = (s \o t)[i]
    BY <1>1 DEF ToSet
  <2>2. CASE i <= Len(s)
    BY <1>1, <2>1, <2>2 DEF ToSet
  <2>3. CASE ~(i <= Len(s))
    <3>1. i - Len(s) \in 1 .. Len(t) /\ x = t[i - Len(s)]
      BY <1>1, <2>1, <2>3
    <3> QED BY <3>1 DEF ToSet
  <2> QED BY <2>2, <2>3
<1>3. ASSUME NEW x \in ToSet(s) PROVE x \in ToSet(s \o t)
  <2>1. PICK i \in 1 .. Len(s) : x = s[i]
    BY DEF ToSet
  <2>2. i \in 1 .. Len(s) + Len(t) /\ (s \o t)[i] = s[i]
    BY <1>1
  <2> QED BY <1>1, <2>1, <2>2 DEF ToSet
<1>4. ASSUME NEW x \in ToSet(t) PROVE x \in ToSet(s \o t)
  <2>1. PICK i \in 1 .. Len(t) : x = t[i]
    BY DEF ToSet
  <2>2. /\ Len(s) + i \in 1 .. Len(s) + Len(t) /\ ~(Len(s) + i <= Len(s))
        /\ (Len(s) + i) - Len(s) = i
    OBVIOUS
  <2>3. (s \o t)[Len(s) + i] = t[i]
    BY <1>1, <2>2
  <2> QED BY <1>1, <2>1, <2>2, <2>3 DEF ToSet
<1> QED BY <1>2, <1>3, <1>4

(* What is appended is one more element. *)
LEMMA ElementsAppend ==
  ASSUME NEW T, NEW s \in Seq(T), NEW e \in T
  PROVE  ToSet(Append(s, e)) = ToSet(s) \cup {e}
<1>1. /\ Len(Append(s, e)) = Len(s) + 1 /\ Append(s, e) \in Seq(T)
      /\ Append(s, e)[Len(s) + 1] = e
      /\ \A i \in 1 .. Len(s) : Append(s, e)[i] = s[i]
  OBVIOUS
<1>2. Len(s) \in Nat /\ DOMAIN s = 1 .. Len(s) /\ DOMAIN Append(s, e) = 1 .. Len(s) + 1
  BY <1>1
<1> DEFINE t == Append(s, e)
<1> HIDE DEF t
<1>3. ASSUME NEW x PROVE x \in ToSet(t) <=> x \in ToSet(s) \/ x = e
  <2>1. x \in ToSet(t) <=> \E i \in 1 .. Len(s) + 1 : x = t[i]
    BY <1>2 DEF ToSet, t
  <2>2. x \in ToSet(s) <=> \E i \in 1 .. Len(s) : x = s[i]
    BY <1>2 DEF ToSet
  <2>3. \A i \in 1 .. Len(s) + 1 : i \in 1 .. Len(s) \/ i = Len(s) + 1
    BY <1>2
  <2>4. (1 .. Len(s)) \subseteq 1 .. Len(s) + 1 /\ Len(s) + 1 \in 1 .. Len(s) + 1
    BY <1>2
  <2> QED BY <1>1, <2>1, <2>2, <2>3, <2>4 DEF t
<1> QED BY <1>3 DEF t

(* A sequence without duplicates stays so with a new element at its end. *)
LEMMA InjectiveAppend ==
  ASSUME NEW T, NEW s \in Seq(T), NEW e \in T, e \notin ToSet(s),
         \A i, j \in DOMAIN s : s[i] = s[j] => i = j
  PROVE  \A i, j \in DOMAIN Append(s, e) : Append(s, e)[i] = Append(s, e)[j] => i = j
<1>1. /\ Len(s) \in Nat /\ DOMAIN s = 1 .. Len(s)
      /\ DOMAIN Append(s, e) = 1 .. Len(s) + 1 /\ Append(s, e)[Len(s) + 1] = e
      /\ \A i \in 1 .. Len(s) : Append(s, e)[i] = s[i]
  OBVIOUS
<1> DEFINE t == Append(s, e)
<1>2. \A i \in 1 .. Len(s) : s[i] # e
  BY <1>1 DEF ToSet
<1>3. \A i \in 1 .. Len(s) + 1 : i \in 1 .. Len(s) \/ i = Len(s) + 1
  BY <1>1
<1> HIDE DEF t
<1>4. ASSUME NEW i \in DOMAIN t, NEW j \in DOMAIN t, t[i] = t[j] PROVE i = j
  BY <1>1, <1>2, <1>3, <1>4 DEF t
<1> QED BY <1>4 DEF t
-----------------------------------------------------------------------------
(* The sum of the first n values of a function that starts at 0. *)
Total(f, n) ==
  LET sum[k \in 0 .. n] == IF k = 0 THEN 0 ELSE sum[k - 1] + f[k - 1]
  IN  sum[n]

Sums(g, f, n) == g = [k \in 0 .. n |-> IF k = 0 THEN 0 ELSE g[k - 1] + f[k - 1]]

(* Its recursive function exists. *)
LEMMA SumsExist ==
  ASSUME NEW f
  PROVE  \A n \in Nat : \E g : Sums(g, f, n)
<1> DEFINE S == {n \in Nat : \E g : Sums(g, f, n)}
<1>1. 0 \in S
  <2> DEFINE g == [k \in 0 .. 0 |-> 0]
  <2>1. g = [k \in 0 .. 0 |-> IF k = 0 THEN 0 ELSE g[k - 1] + f[k - 1]]
    <3>1. \A k \in 0 .. 0 : k = 0
      OBVIOUS
    <3> QED BY <3>1
  <2> HIDE DEF g
  <2> QED BY <2>1 DEF Sums
<1>2. ASSUME NEW n \in S PROVE n + 1 \in S
  <2>1. PICK g : Sums(g, f, n)
    OBVIOUS
  <2>2. n \in Nat
    OBVIOUS
  <2> DEFINE h == [k \in 0 .. n + 1 |-> IF k = n + 1 THEN g[n] + f[n] ELSE g[k]]
  <2>3. ASSUME NEW k \in 0 .. n + 1
        PROVE  h[k] = IF k = 0 THEN 0 ELSE h[k - 1] + f[k - 1]
    <3>1. CASE k = n + 1
      <4>1. k # 0 /\ k - 1 = n /\ n \in 0 .. n + 1 /\ n # n + 1
        BY <2>2, <3>1
      <4>2. h[k] = g[n] + f[n] /\ h[n] = g[n]
        BY <3>1, <4>1
      <4> QED BY <4>1, <4>2
    <3>2. CASE k # n + 1
      <4>1. k \in 0 .. n /\ (k # 0 => k - 1 \in 0 .. n + 1 /\ k - 1 # n + 1)
        BY <2>2, <3>2
      <4>2. h[k] = g[k] /\ (k # 0 => h[k - 1] = g[k - 1])
        BY <3>2, <4>1
      <4>3. g[k] = IF k = 0 THEN 0 ELSE g[k - 1] + f[k - 1]
        BY <2>1, <4>1 DEF Sums
      <4> QED BY <4>2, <4>3
    <3> QED BY <3>1, <3>2
  <2>4. h = [k \in 0 .. n + 1 |-> h[k]]
    OBVIOUS
  <2> HIDE DEF h
  <2>5. Sums(h, f, n + 1)
    BY <2>3, <2>4 DEF Sums
  <2> QED BY <2>2, <2>5
<1> HIDE DEF S
<1>3. S = Nat
  BY <1>1, <1>2, InductiveSet DEF S
<1> QED BY <1>3 DEF S

(* The sum is the last value of any such function. *)
LEMMA TotalSums ==
  ASSUME NEW f, NEW n \in Nat
  PROVE  \E g : Sums(g, f, n) /\ Total(f, n) = g[n]
<1> DEFINE g == CHOOSE g : Sums(g, f, n)
<1>1. Sums(g, f, n)
  BY SumsExist
<1>2. Total(f, n) = g[n]
  BY DEF Total, Sums
<1> QED BY <1>1, <1>2

(* Nothing sums to 0, and one more value adds to the sum of the others. *)
LEMMA TotalStep ==
  ASSUME NEW f
  PROVE  Total(f, 0) = 0 /\ \A n \in Nat : Total(f, n + 1) = Total(f, n) + f[n]
<1>1. Total(f, 0) = 0
  <2>1. PICK g : Sums(g, f, 0) /\ Total(f, 0) = g[0]
    BY TotalSums
  <2> QED BY <2>1 DEF Sums
<1>2. ASSUME NEW n \in Nat PROVE Total(f, n + 1) = Total(f, n) + f[n]
  <2>1. PICK g : Sums(g, f, n) /\ Total(f, n) = g[n]
    BY TotalSums
  <2>2. PICK h : Sums(h, f, n + 1) /\ Total(f, n + 1) = h[n + 1]
    BY TotalSums
  <2> DEFINE S == {k \in Nat : k <= n => g[k] = h[k]}
  <2>3. 0 \in S
    BY <2>1, <2>2 DEF Sums
  <2>4. ASSUME NEW k \in S PROVE k + 1 \in S
    <3>1. ASSUME k + 1 <= n PROVE g[k + 1] = h[k + 1]
      <4>1. /\ k \in Nat /\ k <= n /\ k + 1 \in 0 .. n /\ k + 1 \in 0 .. n + 1
            /\ k + 1 # 0 /\ (k + 1) - 1 = k
        BY <3>1
      <4>2. g[k + 1] = g[k] + f[k]
        BY <2>1, <4>1 DEF Sums
      <4>3. h[k + 1] = h[k] + f[k]
        BY <2>2, <4>1 DEF Sums
      <4> QED BY <4>1, <4>2, <4>3
    <3> QED BY <3>1
  <2> HIDE DEF S
  <2>5. S = Nat
    BY <2>3, <2>4, InductiveSet DEF S
  <2>6. g[n] = h[n]
    BY <2>5 DEF S
  <2>7. h[n + 1] = h[n] + f[n]
    <3>1. n + 1 \in 0 .. n + 1 /\ n + 1 # 0 /\ (n + 1) - 1 = n
      OBVIOUS
    <3> QED BY <2>2, <3>1 DEF Sums
  <2> QED BY <2>1, <2>2, <2>6, <2>7
<1> QED BY <1>1, <1>2

(* A sum is a number. *)
LEMMA TotalType ==
  ASSUME NEW f, NEW n \in Nat, \A k \in 0 .. n - 1 : f[k] \in Nat
  PROVE  Total(f, n) \in Nat
<1> DEFINE S == {k \in Nat : k <= n => Total(f, k) \in Nat}
<1>1. 0 \in S
  BY TotalStep
<1>2. ASSUME NEW k \in S PROVE k + 1 \in S
  <2>1. ASSUME k + 1 <= n PROVE Total(f, k + 1) \in Nat
    <3>1. k \in Nat /\ k <= n /\ k \in 0 .. n - 1
      BY <2>1
    <3>2. Total(f, k) \in Nat /\ f[k] \in Nat
      BY <3>1
    <3>3. Total(f, k + 1) = Total(f, k) + f[k]
      BY <3>1, TotalStep
    <3> QED BY <3>2, <3>3
  <2> QED BY <2>1
<1> HIDE DEF S
<1>3. S = Nat
  BY <1>1, <1>2, InductiveSet DEF S
<1> QED BY <1>3 DEF S

(* Smaller values have a smaller sum. *)
LEMMA TotalMonotone ==
  ASSUME NEW f, NEW h, NEW n \in Nat,
         \A k \in 0 .. n - 1 : f[k] \in Nat /\ h[k] \in Nat /\ f[k] <= h[k]
  PROVE  Total(f, n) <= Total(h, n)
<1> DEFINE S == {k \in Nat : k <= n => /\ Total(f, k) \in Nat /\ Total(h, k) \in Nat
                                      /\ Total(f, k) <= Total(h, k)}
<1>1. 0 \in S
  BY TotalStep
<1>2. ASSUME NEW k \in S PROVE k + 1 \in S
  <2>1. ASSUME k + 1 <= n
        PROVE  /\ Total(f, k + 1) \in Nat /\ Total(h, k + 1) \in Nat
               /\ Total(f, k + 1) <= Total(h, k + 1)
    <3>1. k \in Nat /\ k <= n /\ k \in 0 .. n - 1
      BY <2>1
    <3>2. /\ Total(f, k) \in Nat /\ Total(h, k) \in Nat /\ Total(f, k) <= Total(h, k)
          /\ f[k] \in Nat /\ h[k] \in Nat /\ f[k] <= h[k]
      BY <3>1
    <3>3. Total(f, k + 1) = Total(f, k) + f[k] /\ Total(h, k + 1) = Total(h, k) + h[k]
      BY <3>1, TotalStep
    <3> QED BY <3>2, <3>3
  <2> QED BY <2>1
<1> HIDE DEF S
<1>3. S = Nat
  BY <1>1, <1>2, InductiveSet DEF S
<1> QED BY <1>3 DEF S

(* One more in one place is one more in the sum. *)
LEMMA TotalIncrement ==
  ASSUME NEW f, NEW h, NEW n \in Nat, NEW i \in 0 .. n - 1,
         \A k \in 0 .. n - 1 : f[k] \in Nat /\ h[k] = IF k = i THEN f[k] + 1 ELSE f[k]
  PROVE  Total(h, n) = Total(f, n) + 1
<1> DEFINE S == {k \in Nat : k <= n => /\ Total(f, k) \in Nat
                                      /\ Total(h, k) = Total(f, k) + (IF i < k THEN 1 ELSE 0)}
<1>1. 0 \in S
  BY TotalStep
<1>2. ASSUME NEW k \in S PROVE k + 1 \in S
  <2>1. ASSUME k + 1 <= n
        PROVE  /\ Total(f, k + 1) \in Nat
               /\ Total(h, k + 1) = Total(f, k + 1) + (IF i < k + 1 THEN 1 ELSE 0)
    <3>1. k \in Nat /\ k <= n /\ k \in 0 .. n - 1
      BY <2>1
    <3>2. /\ Total(f, k) \in Nat /\ Total(h, k) = Total(f, k) + (IF i < k THEN 1 ELSE 0)
          /\ f[k] \in Nat /\ h[k] = IF k = i THEN f[k] + 1 ELSE f[k]
      BY <3>1
    <3>3. Total(f, k + 1) = Total(f, k) + f[k] /\ Total(h, k + 1) = Total(h, k) + h[k]
      BY <3>1, TotalStep
    <3> QED BY <3>1, <3>2, <3>3
  <2> QED BY <2>1
<1> HIDE DEF S
<1>3. S = Nat
  BY <1>1, <1>2, InductiveSet DEF S
<1> QED BY <1>3 DEF S

(* Zeros sum to 0. *)
LEMMA TotalZero ==
  ASSUME NEW f, NEW n \in Nat, \A k \in 0 .. n - 1 : f[k] = 0
  PROVE  Total(f, n) = 0
<1> DEFINE S == {k \in Nat : k <= n => Total(f, k) = 0}
<1>1. 0 \in S
  BY TotalStep
<1>2. ASSUME NEW k \in S PROVE k + 1 \in S
  <2>1. ASSUME k + 1 <= n PROVE Total(f, k + 1) = 0
    <3>1. k \in Nat /\ k <= n /\ k \in 0 .. n - 1
      BY <2>1
    <3>2. Total(f, k) = 0 /\ f[k] = 0 /\ Total(f, k + 1) = Total(f, k) + f[k]
      BY <3>1, TotalStep
    <3> QED BY <3>2
  <2> QED BY <2>1
<1> HIDE DEF S
<1>3. S = Nat
  BY <1>1, <1>2, InductiveSet DEF S
<1> QED BY <1>3 DEF S
-----------------------------------------------------------------------------
(* Division.                                                                *)

(* Quotient and remainder. *)
LEMMA Division ==
  ASSUME NEW a \in Nat, NEW n \in Nat \ {0}
  PROVE  a \div n \in Nat /\ a % n \in 0 .. n - 1 /\ a = n * (a \div n) + (a % n)
OBVIOUS

(* A product grows with its factors. *)
LEMMA ProductMonotone ==
  ASSUME NEW a \in Nat, NEW b \in Nat, NEW c \in Nat, a <= b
  PROVE  a * c \in Nat /\ a * c <= b * c
OBVIOUS

(* There is only one remainder. *)
LEMMA Remainder ==
  ASSUME NEW n \in Nat \ {0}, NEW q \in Nat, NEW r \in 0 .. n - 1
  PROVE  (n * q + r) % n = r /\ (n * q + r) \div n = q
<1> DEFINE a == n * q + r
           d == a \div n
           c == a % n
<1>1. n * q \in Nat
  BY ProductMonotone
<1>2. a \in Nat
  BY <1>1
<1>3. d \in Nat /\ c \in 0 .. n - 1 /\ a = n * d + c
  BY <1>2, Division
<1>4. n * q + r = n * d + c
  BY <1>3
<1> HIDE DEF a, d, c
<1>5. ASSUME NEW x \in Nat, NEW y \in Nat, x < y PROVE n * x + n <= n * y
  <2>1. x + 1 \in Nat /\ x + 1 <= y /\ n \in Nat
    BY <1>5
  <2>2. (x + 1) * n <= y * n
    BY <2>1, ProductMonotone
  <2>3. (x + 1) * n = n * x + n /\ y * n = n * y
    BY <2>1
  <2> QED BY <2>2, <2>3
<1>6. n * d \in Nat
  BY <1>3, ProductMonotone
<1>7. ~(d < q) /\ ~(q < d)
  BY <1>1, <1>3, <1>4, <1>5, <1>6
<1>8. d = q
  BY <1>3, <1>7
<1>9. c = r
  BY <1>1, <1>3, <1>4, <1>8
<1> QED BY <1>8, <1>9 DEF a, d, c

(* Multiples of n do not change the remainder. *)
LEMMA RemainderPlus ==
  ASSUME NEW n \in Nat \ {0}, NEW q \in Nat, NEW a \in Nat
  PROVE  (n * q + a) % n = a % n
<1> DEFINE d == a \div n
           c == a % n
<1>1. d \in Nat /\ c \in 0 .. n - 1 /\ a = n * d + c
  BY Division
<1> HIDE DEF d, c
<1>2. q + d \in Nat
  BY <1>1
<1>3. (n * (q + d) + c) % n = c
  BY <1>1, <1>2, Remainder
<1>4. n * (q + d) + c = n * q + a
  BY <1>1
<1> QED BY <1>3, <1>4 DEF c

(* Nor does it matter whether a factor is reduced first. *)
LEMMA RemainderTimes ==
  ASSUME NEW n \in Nat \ {0}, NEW a \in Nat, NEW b \in Nat
  PROVE  ((a % n) * b) % n = (a * b) % n
<1> DEFINE d == a \div n
           c == a % n
<1>1. d \in Nat /\ c \in 0 .. n - 1 /\ a = n * d + c
  BY Division
<1> HIDE DEF d, c
<1>2. d * b \in Nat /\ c * b \in Nat
  BY <1>1, ProductMonotone
<1>3. (n * (d * b) + c * b) % n = (c * b) % n
  BY <1>2, RemainderPlus
<1>4. n * (d * b) + c * b = a * b
  BY <1>1
<1> QED BY <1>3, <1>4 DEF c

(* Numbers of one remainder that are less than n apart are the same. *)
LEMMA RemainderWindow ==
  ASSUME NEW n \in Nat \ {0}, NEW a \in Nat, NEW b \in Nat,
         a % n = b % n, a <= b, b < a + n
  PROVE  a = b
<1> DEFINE d == a \div n
           e == b \div n
           c == a % n
<1>1. d \in Nat /\ c \in 0 .. n - 1 /\ a = n * d + c
  BY Division
<1>2. e \in Nat /\ b = n * e + c
  BY Division
<1> HIDE DEF d, e, c
<1>3. n * d \in Nat /\ n * e \in Nat
  BY <1>1, <1>2, ProductMonotone
<1>4. ASSUME NEW x \in Nat, NEW y \in Nat, x < y PROVE n * x + n <= n * y
  <2>1. x + 1 \in Nat /\ x + 1 <= y /\ n \in Nat
    BY <1>4
  <2>2. (x + 1) * n <= y * n
    BY <2>1, ProductMonotone
  <2>3. (x + 1) * n = n * x + n /\ y * n = n * y
    BY <2>1
  <2> QED BY <2>2, <2>3
<1>5. ~(d < e) /\ ~(e < d)
  BY <1>1, <1>2, <1>3, <1>4
<1>6. d = e
  BY <1>1, <1>2, <1>5
<1> QED BY <1>1, <1>2, <1>6

(* A number is divided without remainder by what it is a multiple of. *)
LEMMA Multiple ==
  ASSUME NEW n \in Nat \ {0}
  PROVE  /\ \A w \in Nat : (n * w) % n = 0
         /\ \A a \in Nat : a % n = 0 => \E w \in Nat : a = n * w
<1>1. ASSUME NEW w \in Nat PROVE (n * w) % n = 0
  <2>1. n * w \in Nat /\ n * w + 0 = n * w /\ 0 \in 0 .. n - 1
    BY ProductMonotone
  <2>2. (n * w + 0) % n = 0
    BY <2>1, Remainder
  <2> QED BY <2>1, <2>2
<1>2. ASSUME NEW a \in Nat, a % n = 0 PROVE \E w \in Nat : a = n * w
  <2>1. a \div n \in Nat /\ a = n * (a \div n) + 0
    BY <1>2, Division
  <2>2. a = n * (a \div n)
    BY <2>1
  <2> QED BY <2>1, <2>2
<1> QED BY <1>1, <1>2

(* A common factor can be taken away. *)
LEMMA Cancel ==
  ASSUME NEW n \in Nat \ {0}, NEW a \in Nat, NEW b \in Nat, n * a = n * b
  PROVE  a = b
<1>1. 0 \in 0 .. n - 1
  OBVIOUS
<1>2. (n * a + 0) \div n = a /\ (n * b + 0) \div n = b
  BY <1>1, Remainder
<1> QED BY <1>2

(* If n divides c * k but not k, then n and c have a prime factor in        *)
(* common: the least k that n divides c * k for divides n, its cofactor     *)
(* divides c, and the least divisor of that is prime.                       *)
LEMMA CommonFactor ==
  ASSUME NEW n \in Nat \ {0}, NEW c \in Nat \ {0}, NEW k \in 1 .. n - 1, (c * k) % n = 0
  PROVE  \E p \in 2 .. n : /\ n % p = 0 /\ c % p = 0
                           /\ \A d \in 2 .. p - 1 : p % d # 0
<1> DEFINE S == {i \in Nat : i # 0 /\ (c * i) % n = 0}
<1>1. k \in S /\ S \subseteq Nat
  OBVIOUS
<1>2. PICK K \in S : \A i \in S : K <= i
  <2> HIDE DEF S
  <2> QED BY <1>1, SmallestOf
<1>3. K \in Nat \ {0} /\ (c * K) % n = 0 /\ K < n
  BY <1>1, <1>2
<1>4. c * K \in Nat
  BY <1>3, ProductMonotone
<1>5. PICK u \in Nat : c * K = n * u
  BY <1>3, <1>4, Multiple
<1>6. PICK M \in Nat : n = K * M
  <2> DEFINE q == n \div K
             t == n % K
  <2>1. q \in Nat /\ t \in 0 .. K - 1 /\ n = K * q + t
    BY <1>3, Division
  <2> HIDE DEF q, t
  <2>2. CASE t = 0
    <3>1. n = K * q
      BY <1>3, <2>1, <2>2
    <3> QED BY <2>1, <3>1
  <2>3. CASE t # 0
    <3>1. t \in Nat /\ c * t \in Nat /\ u * q \in Nat
      BY <1>3, <2>1, ProductMonotone
    <3>2. n * (u * q) + c * t = n * c
      <4>1. n * (u * q) = (c * K) * q
        BY <1>5, <2>1
      <4>2. (c * K) * q + c * t = c * (K * q + t)
        BY <1>3, <2>1, <3>1
      <4>3. c * (K * q + t) = n * c
        BY <2>1
      <4> QED BY <4>1, <4>2, <4>3
    <3>3. (n * (u * q) + c * t) % n = (c * t) % n
      BY <3>1, RemainderPlus
    <3>4. (n * c) % n = 0
      BY Multiple
    <3>5. t \in S
      BY <2>3, <3>1, <3>2, <3>3, <3>4
    <3> QED BY <1>2, <1>3, <2>1, <3>5
  <2> QED BY <2>2, <2>3
<1>7. M # 0 /\ M # 1
  <2>1. K * 0 = 0 /\ K * 1 = K
    BY <1>3
  <2> QED BY <1>3, <1>6, <2>1
<1>8. c = M * u
  <2>1. M * u \in Nat
    BY ProductMonotone
  <2>2. K * c = K * (M * u)
    <3>1. K * c = c * K /\ (K * M) * u = K * (M * u)
      BY <1>3
    <3> QED BY <1>5, <1>6, <3>1
  <2> QED BY <1>3, <2>1, <2>2, Cancel
<1> DEFINE D == {d \in 2 .. M : M % d = 0}
<1>9. M \in D /\ D \subseteq Nat
  <2>1. M * 1 = M /\ M \in Nat \ {0} /\ M \in 2 .. M
    BY <1>7
  <2>2. (M * 1) % M = 0
    BY <2>1, Multiple
  <2> QED BY <2>1, <2>2
<1>10. PICK p \in D : \A d \in D : p <= d
  <2> HIDE DEF D
  <2> QED BY <1>9, SmallestOf
<1>11. p \in 2 .. M /\ p \in Nat \ {0} /\ M % p = 0
  BY <1>10
<1>12. PICK v \in Nat : M = p * v
  BY <1>11, Multiple
<1>13. n % p = 0
  <2>1. K * v \in Nat /\ n = p * (K * v)
    <3>1. K * v \in Nat
      BY <1>3, ProductMonotone
    <3>2. K * (p * v) = p * (K * v)
      BY <1>3, <1>11
    <3> QED BY <1>6, <1>12, <3>1, <3>2
  <2> QED BY <1>11, <2>1, Multiple
<1>14. c % p = 0
  <2>1. v * u \in Nat /\ c = p * (v * u)
    <3>1. v * u \in Nat
      BY ProductMonotone
    <3>2. (p * v) * u = p * (v * u)
      BY <1>11
    <3> QED BY <1>8, <1>12, <3>1, <3>2
  <2> QED BY <1>11, <2>1, Multiple
<1>15. ASSUME NEW d \in 2 .. p - 1, p % d = 0 PROVE FALSE
  <2>1. d \in Nat \ {0} /\ d \in 2 .. M /\ ~(p <= d)
    BY <1>11
  <2>2. PICK w \in Nat : p = d * w
    BY <1>11, <1>15, <2>1, Multiple
  <2>3. w * v \in Nat /\ M = d * (w * v)
    <3>1. w * v \in Nat
      BY ProductMonotone
    <3>2. (d * w) * v = d * (w * v)
      BY <2>1
    <3> QED BY <1>12, <2>2, <3>1, <3>2
  <2>4. M % d = 0
    BY <2>1, <2>3, Multiple
  <2>5. d \in D
    BY <2>1, <2>4
  <2> QED BY <1>10, <2>1, <2>5
<1>16. p \in 2 .. n
  <2>1. 1 \in Nat /\ K \in Nat /\ 1 <= K
    BY <1>3
  <2>2. 1 * M <= K * M
    BY <2>1, ProductMonotone
  <2> QED BY <1>6, <1>11, <2>2
<1> QED BY <1>13, <1>14, <1>15, <1>16

(* Division of any number. *)
LEMMA DivisionInt ==
  ASSUME NEW a \in Int, NEW n \in Nat \ {0}
  PROVE  a \div n \in Int /\ a % n \in 0 .. n - 1 /\ a = n * (a \div n) + (a % n)
OBVIOUS

(* Two remainders that differ by a multiple are the same. *)
LEMMA SameRemainder ==
  ASSUME NEW n \in Nat \ {0}, NEW q \in Int, NEW a \in 0 .. n - 1, NEW b \in 0 .. n - 1,
         a = n * q + b
  PROVE  a = b
<1>1. CASE q = 0
  <2>1. n * 0 = 0
    OBVIOUS
  <2> QED BY <1>1, <2>1
<1>2. CASE q >= 1
  <2>1. n * q >= n * 1
    BY <1>2
  <2> QED BY <2>1
<1>3. CASE q <= -1
  <2>1. n * q <= n * (-1)
    BY <1>3
  <2> QED BY <2>1
<1> QED BY <1>1, <1>2, <1>3

(* A number that is small enough is its own remainder. *)
LEMMA SmallRemainder ==
  ASSUME NEW n \in Nat \ {0}, NEW a \in 0 .. n - 1
  PROVE  a % n = a
OBVIOUS

(* Remainders of numbers that follow one another, unless they wrap. *)
LEMMA NextRemainder ==
  ASSUME NEW a \in Nat, NEW n \in Nat \ {0}, NEW i \in Nat, (a % n) + i < n
  PROVE  (a + i) % n = (a % n) + i
<1>1. /\ a % n \in 0 .. n - 1 /\ (a + i) % n \in 0 .. n - 1
      /\ a = n * (a \div n) + (a % n) /\ a \div n \in Int
      /\ a + i = n * ((a + i) \div n) + ((a + i) % n) /\ (a + i) \div n \in Int
  <2>1. a \in Int /\ a + i \in Int
    OBVIOUS
  <2>2. a % n \in 0 .. n - 1 /\ a = n * (a \div n) + (a % n) /\ a \div n \in Int
    BY <2>1, DivisionInt
  <2>3. PICK b \in Int : b = a + i
    BY <2>1
  <2>4. b % n \in 0 .. n - 1 /\ b = n * (b \div n) + (b % n) /\ b \div n \in Int
    BY DivisionInt
  <2> QED
    BY <2>2, <2>3, <2>4
<1>2. PICK d \in Int, e \in Int : d = a \div n /\ e = (a + i) \div n
  BY <1>1
<1>3. PICK r \in 0 .. n - 1, s \in 0 .. n - 1 : r = a % n /\ s = (a + i) % n
  BY <1>1
<1>4. a = n * d + r /\ a + i = n * e + s /\ r + i \in 0 .. n - 1
  BY <1>1, <1>2, <1>3
<1>5. s = n * (d - e) + (r + i) /\ d - e \in Int
  BY <1>4
<1>6. s = r + i
  BY <1>4, <1>5, SameRemainder
<1> QED
  BY <1>3, <1>6
-----------------------------------------------------------------------------
(* Sums over a finite set, as MapThenSumSet makes them: an element is picked *)
(* and the rest is summed.                                                   *)
Pick(s) == CHOOSE x \in s : TRUE
SumOf(f, S) == MapThenSumSet(LAMBDA x : f[x], S)
Picked(g, f, s) == IF s = {} THEN 0 ELSE f[Pick(s)] + g[s \ {Pick(s)}]
Adds(g, f, S) == g = [s \in SUBSET S |-> Picked(g, f, s)]

(* What is left of a finite set when one element has been picked. *)
LEMMA RestOf ==
  ASSUME NEW s, IsFiniteSet(s), s # {}
  PROVE  /\ Pick(s) \in s /\ IsFiniteSet(s \ {Pick(s)})
         /\ Cardinality(s) \in Nat \ {0} /\ Cardinality(s \ {Pick(s)}) = Cardinality(s) - 1
<1>1. Pick(s) \in s
  BY DEF Pick
<1>2. Cardinality(s) \in Nat /\ Cardinality(s) # 0
  BY FS_CardinalityType, FS_EmptySet
<1> QED BY <1>1, <1>2, FS_RemoveElement

(* The recursive function of MapThenSumSet exists. *)
LEMMA AddsExist ==
  ASSUME NEW f, NEW S, IsFiniteSet(S)
  PROVE  \E g : Adds(g, f, S)
<1> DEFINE Upto(g, n) == /\ g = [s \in SUBSET S |-> g[s]]
                         /\ \A s \in SUBSET S : Cardinality(s) <= n => g[s] = Picked(g, f, s)
           K == {n \in Nat : \E g : Upto(g, n)}
<1>0. \A s \in SUBSET S : IsFiniteSet(s) /\ Cardinality(s) \in Nat /\ Cardinality(s) <= Cardinality(S)
  BY FS_Subset, FS_CardinalityType
<1>1. 0 \in K
  <2> DEFINE g == [s \in SUBSET S |-> 0]
  <2>1. \A s \in SUBSET S : Cardinality(s) <= 0 => s = {}
    BY <1>0, FS_EmptySet
  <2>2. g = [s \in SUBSET S |-> g[s]] /\ \A s \in SUBSET S : g[s] = 0
    OBVIOUS
  <2> HIDE DEF g
  <2>3. Upto(g, 0)
    BY <2>1, <2>2 DEF Picked
  <2> QED BY <2>3
<1>2. ASSUME NEW n \in K PROVE n + 1 \in K
  <2>1. n \in Nat
    OBVIOUS
  <2>2. PICK g : Upto(g, n)
    OBVIOUS
  <2> DEFINE h == [s \in SUBSET S |-> IF Cardinality(s) = n + 1 THEN Picked(g, f, s) ELSE g[s]]
  <2>3. h = [s \in SUBSET S |-> h[s]]
    OBVIOUS
  <2>4. \A s \in SUBSET S : h[s] = IF Cardinality(s) = n + 1 THEN Picked(g, f, s) ELSE g[s]
    OBVIOUS
  <2> HIDE DEF h
  <2>5. ASSUME NEW s \in SUBSET S, Cardinality(s) <= n + 1 PROVE h[s] = Picked(h, f, s)
    <3>1. h[s] = Picked(g, f, s)
      <4>1. CASE Cardinality(s) = n + 1
        BY <2>4, <4>1
      <4>2. CASE Cardinality(s) # n + 1
        <5>1. Cardinality(s) <= n
          BY <1>0, <2>1, <2>5, <4>2
        <5> QED BY <2>2, <2>4, <4>2, <5>1
      <4> QED BY <4>1, <4>2
    <3>2. ASSUME s # {} PROVE h[s \ {Pick(s)}] = g[s \ {Pick(s)}]
      <4>1. Cardinality(s \ {Pick(s)}) # n + 1 /\ s \ {Pick(s)} \in SUBSET S
        BY <1>0, <2>1, <2>5, <3>2, RestOf
      <4> QED BY <2>4, <4>1
    <3> QED BY <3>1, <3>2 DEF Picked
  <2>6. Upto(h, n + 1)
    BY <2>3, <2>5
  <2> HIDE DEF Upto
  <2> QED BY <2>1, <2>6
<1>3. K = Nat
  <2> HIDE DEF Upto
  <2>1. K \subseteq Nat
    OBVIOUS
  <2> HIDE DEF K
  <2> QED BY <1>1, <1>2, <2>1, InductiveSet
<1>4. PICK g : Upto(g, Cardinality(S))
  BY <1>0, <1>3, FS_CardinalityType
<1>5. \A s \in SUBSET S : g[s] = Picked(g, f, s)
  BY <1>0, <1>4
<1>6. g = [s \in SUBSET S |-> Picked(g, f, s)]
  BY <1>4, <1>5
<1> QED BY <1>6 DEF Adds

(* Two such functions agree where both say something. *)
LEMMA AddsAgree ==
  ASSUME NEW f, NEW g, NEW h, NEW S, NEW T, IsFiniteSet(S), IsFiniteSet(T), Adds(g, f, S), Adds(h, f, T)
  PROVE  \A s \in (SUBSET S) \cap (SUBSET T) : g[s] = h[s]
<1> DEFINE K == {n \in Nat : \A s \in (SUBSET S) \cap (SUBSET T) : Cardinality(s) = n => g[s] = h[s]}
<1>0. \A s \in SUBSET S : IsFiniteSet(s) /\ Cardinality(s) \in Nat
  BY FS_Subset, FS_CardinalityType
<1>00. \A s \in (SUBSET S) \cap (SUBSET T) : g[s] = Picked(g, f, s) /\ h[s] = Picked(h, f, s)
  BY DEF Adds
<1>1. 0 \in K
  BY <1>0, <1>00, FS_EmptySet DEF Picked
<1>2. ASSUME NEW n \in K PROVE n + 1 \in K
  <2>1. ASSUME NEW s \in (SUBSET S) \cap (SUBSET T), Cardinality(s) = n + 1 PROVE g[s] = h[s]
    <3>1. s # {}
      <4>1. n \in Nat /\ Cardinality({}) = 0
        BY FS_EmptySet
      <4> HIDE DEF K
      <4> QED BY <2>1, <4>1
    <3>2. Cardinality(s \ {Pick(s)}) = n /\ s \ {Pick(s)} \in (SUBSET S) \cap (SUBSET T)
      BY <1>0, <2>1, <3>1, RestOf
    <3>3. g[s \ {Pick(s)}] = h[s \ {Pick(s)}]
      BY <3>2
    <3> QED BY <1>00, <3>1, <3>3 DEF Picked
  <2> QED BY <2>1
<1>3. K = Nat
  <2>1. K \subseteq Nat
    OBVIOUS
  <2> HIDE DEF K
  <2> QED BY <1>1, <1>2, <2>1, InductiveSet
<1> QED BY <1>0, <1>3

(* A sum is the value of any such function. *)
LEMMA SumAdds ==
  ASSUME NEW f, NEW S, IsFiniteSet(S)
  PROVE  \E g : Adds(g, f, S) /\ SumOf(f, S) = g[S]
<1> DEFINE g == CHOOSE g : Adds(g, f, S)
<1>1. Adds(g, f, S)
  BY AddsExist
<1>2. SumOf(f, S) = g[S]
  BY DEF SumOf, MapThenSumSet, MapThenFoldSet, Adds, Picked, Pick
<1> QED BY <1>1, <1>2

(* The sum over no element, and over some. *)
LEMMA SumStep ==
  ASSUME NEW f, NEW S, IsFiniteSet(S)
  PROVE  SumOf(f, S) = IF S = {} THEN 0 ELSE f[Pick(S)] + SumOf(f, S \ {Pick(S)})
<1>1. PICK g : Adds(g, f, S) /\ SumOf(f, S) = g[S]
  BY SumAdds
<1>2. g[S] = Picked(g, f, S)
  BY <1>1 DEF Adds
<1>3. ASSUME S # {} PROVE g[S \ {Pick(S)}] = SumOf(f, S \ {Pick(S)})
  <2> DEFINE T == S \ {Pick(S)}
  <2>1. IsFiniteSet(T) /\ T \in SUBSET S /\ T \in SUBSET T
    BY <1>3, RestOf
  <2> HIDE DEF T
  <2>2. PICK h : Adds(h, f, T) /\ SumOf(f, T) = h[T]
    BY <2>1, SumAdds
  <2>3. g[T] = h[T]
    BY <1>1, <2>1, <2>2, AddsAgree
  <2> QED BY <2>2, <2>3 DEF T
<1> QED BY <1>1, <1>2, <1>3 DEF Picked

(* A sum of numbers is a number, and any element of the set adds its own.    *)
LEMMA SumElement ==
  ASSUME NEW f, NEW U, IsFiniteSet(U), \A u \in U : f[u] \in Nat, NEW S \in SUBSET U
  PROVE  SumOf(f, S) \in Nat /\ \A x \in S : SumOf(f, S) = f[x] + SumOf(f, S \ {x})
<1> DEFINE Fine(s) == SumOf(f, s) \in Nat /\ \A x \in s : SumOf(f, s) = f[x] + SumOf(f, s \ {x})
           K == {n \in Nat : \A s \in SUBSET U : Cardinality(s) <= n => Fine(s)}
<1>0. \A s \in SUBSET U : IsFiniteSet(s) /\ Cardinality(s) \in Nat
  BY FS_Subset, FS_CardinalityType
<1>1. 0 \in K
  <2>1. \A s \in SUBSET U : Cardinality(s) <= 0 => s = {}
    BY <1>0, FS_EmptySet
  <2>2. SumOf(f, {}) = 0
    BY SumStep, FS_EmptySet
  <2>3. Fine({})
    BY <2>2
  <2> HIDE DEF Fine
  <2> QED BY <2>1, <2>3
<1>2. ASSUME NEW n \in K PROVE n + 1 \in K
  <2>1. n \in Nat /\ \A s \in SUBSET U : Cardinality(s) <= n => Fine(s)
    OBVIOUS
  <2> HIDE DEF Fine
  <2>2. ASSUME NEW s \in SUBSET U, Cardinality(s) = n + 1 PROVE Fine(s)
    <3> DEFINE p == Pick(s)
    <3>1. s # {} /\ IsFiniteSet(s)
      BY <1>0, <2>1, <2>2, FS_EmptySet
    <3>2. p \in s /\ f[p] \in Nat /\ s \ {p} \in SUBSET U /\ Cardinality(s \ {p}) = n
      <4>1. p \in s /\ Cardinality(s \ {p}) = Cardinality(s) - 1
        BY <3>1, RestOf
      <4>2. (n + 1) - 1 = n
        BY <2>1
      <4> HIDE DEF p, K
      <4> QED BY <2>2, <4>1, <4>2
    <3>3. SumOf(f, s) = f[p] + SumOf(f, s \ {p})
      BY <3>1, SumStep
    <3> HIDE DEF p
    <3>4. /\ SumOf(f, s \ {p}) \in Nat
          /\ \A x \in s \ {p} : SumOf(f, s \ {p}) = f[x] + SumOf(f, (s \ {p}) \ {x})
      <4>1. Cardinality(s \ {p}) <= n
        BY <2>1, <3>2
      <4> QED BY <2>1, <3>2, <4>1 DEF Fine
    <3>5. ASSUME NEW x \in s PROVE SumOf(f, s) = f[x] + SumOf(f, s \ {x})
      <4>1. CASE x = p
        BY <3>3, <4>1
      <4>2. CASE x # p
        <5>1. SumOf(f, s \ {p}) = f[x] + SumOf(f, (s \ {p}) \ {x})
          BY <3>4, <4>2
        <5>2. s \ {x} \in SUBSET U /\ Cardinality(s \ {x}) = n /\ p \in s \ {x} /\ f[x] \in Nat
          BY <2>1, <2>2, <3>1, <3>2, <4>2, FS_RemoveElement
        <5>3. SumOf(f, s \ {x}) \in Nat /\ SumOf(f, s \ {x}) = f[p] + SumOf(f, (s \ {x}) \ {p})
          BY <2>1, <5>2 DEF Fine
        <5>4. (s \ {p}) \ {x} = (s \ {x}) \ {p}
          OBVIOUS
        <5> DEFINE rest == SumOf(f, (s \ {x}) \ {p})
        <5>5. SumOf(f, s \ {p}) = f[x] + rest /\ SumOf(f, s \ {x}) = f[p] + rest
          BY <5>1, <5>3, <5>4
        <5>6. rest \in Nat
          <6>1. (s \ {x}) \ {p} \in SUBSET U /\ Cardinality((s \ {x}) \ {p}) <= n
            BY <1>0, <2>1, <5>2, FS_RemoveElement
          <6> QED BY <2>1, <6>1 DEF Fine
        <5> QED BY <3>2, <3>3, <5>2, <5>5, <5>6
      <4> QED BY <4>1, <4>2
    <3> QED BY <3>2, <3>3, <3>4, <3>5 DEF Fine
  <2>3. ASSUME NEW s \in SUBSET U, Cardinality(s) <= n + 1 PROVE Fine(s)
    <3>1. Cardinality(s) <= n \/ Cardinality(s) = n + 1
      BY <1>0, <2>1, <2>3
    <3> QED BY <2>1, <2>2, <3>1
  <2> QED BY <2>1, <2>3
<1>3. K = Nat
  <2>1. K \subseteq Nat
    OBVIOUS
  <2> HIDE DEF K
  <2> QED BY <1>1, <1>2, <2>1, InductiveSet
<1> QED BY <1>0, <1>3

(* The sum over two sets that have no element in common. *)
LEMMA SumUnion ==
  ASSUME NEW f, NEW U, IsFiniteSet(U), \A u \in U : f[u] \in Nat,
         NEW S \in SUBSET U, NEW T \in SUBSET U, S \cap T = {}
  PROVE  SumOf(f, S \cup T) = SumOf(f, S) + SumOf(f, T)
<1> DEFINE K == {n \in Nat : \A t \in SUBSET T : Cardinality(t) = n =>
                               SumOf(f, S \cup t) = SumOf(f, S) + SumOf(f, t)}
<1>0. \A s \in SUBSET U : IsFiniteSet(s) /\ Cardinality(s) \in Nat /\ SumOf(f, s) \in Nat
  BY FS_Subset, FS_CardinalityType, SumElement
<1>1. 0 \in K
  <2>1. \A t \in SUBSET T : Cardinality(t) = 0 => t = {}
    BY <1>0, FS_EmptySet
  <2>2. SumOf(f, {}) = 0 /\ S \cup {} = S /\ SumOf(f, S) \in Nat
    BY <1>0, SumStep, FS_EmptySet
  <2> QED BY <2>1, <2>2
<1>2. ASSUME NEW n \in K PROVE n + 1 \in K
  <2>1. /\ n \in Nat
        /\ \A t \in SUBSET T : Cardinality(t) = n => SumOf(f, S \cup t) = SumOf(f, S) + SumOf(f, t)
    OBVIOUS
  <2> HIDE DEF K
  <2>2. ASSUME NEW t \in SUBSET T, Cardinality(t) = n + 1
        PROVE  SumOf(f, S \cup t) = SumOf(f, S) + SumOf(f, t)
    <3>1. t # {} /\ IsFiniteSet(t)
      BY <1>0, <2>1, <2>2, FS_EmptySet
    <3>2. PICK p : p \in t
      BY <3>1
    <3>3. t \ {p} \in SUBSET T /\ Cardinality(t \ {p}) = n
      <4>1. Cardinality(t \ {p}) = Cardinality(t) - 1
        BY <3>1, <3>2, FS_RemoveElement
      <4> QED BY <2>1, <2>2, <4>1
    <3>4. SumOf(f, S \cup (t \ {p})) = SumOf(f, S) + SumOf(f, t \ {p})
      BY <2>1, <3>3
    <3>5. /\ (S \cup t) \ {p} = S \cup (t \ {p})
          /\ S \cup t \in SUBSET U /\ t \in SUBSET U /\ p \in S \cup t
      BY <3>2
    <3>6. /\ SumOf(f, S \cup t) = f[p] + SumOf(f, S \cup (t \ {p}))
          /\ SumOf(f, t) = f[p] + SumOf(f, t \ {p})
      BY <3>2, <3>5, SumElement
    <3>7. SumOf(f, S) \in Nat /\ SumOf(f, t \ {p}) \in Nat /\ f[p] \in Nat
      BY <1>0, <3>2
    <3> QED BY <3>4, <3>6, <3>7
  <2> QED BY <2>1, <2>2 DEF K
<1>3. K = Nat
  <2>1. K \subseteq Nat
    OBVIOUS
  <2> HIDE DEF K
  <2> QED BY <1>1, <1>2, <2>1, InductiveSet
<1> QED BY <1>0, <1>3

(* Only the values of the elements count. *)
LEMMA SumSame ==
  ASSUME NEW f, NEW g, NEW S, IsFiniteSet(S), \A x \in S : f[x] = g[x]
  PROVE  SumOf(f, S) = SumOf(g, S)
<1>1. PICK a : Adds(a, f, S) /\ SumOf(f, S) = a[S]
  BY SumAdds
<1>2. a = [s \in SUBSET S |-> Picked(a, f, s)]
  BY <1>1 DEF Adds
<1>3. \A s \in SUBSET S : Picked(a, f, s) = Picked(a, g, s)
  BY DEF Picked, Pick
<1>4. Adds(a, g, S)
  BY <1>2, <1>3 DEF Adds
<1>5. PICK b : Adds(b, g, S) /\ SumOf(g, S) = b[S]
  BY SumAdds
<1>6. S \in (SUBSET S) \cap (SUBSET S)
  OBVIOUS
<1> QED BY <1>1, <1>4, <1>5, <1>6, AddsAgree
-----------------------------------------------------------------------------
(* Powers of two. *)

(* A set has twice as many subsets with one more element. *)
LEMMA PowerStep ==
  /\ 2 ^ 0 = 1
  /\ \A n \in Nat : 2 ^ n \in Nat /\ 2 ^ (n + 1) = 2 * (2 ^ n)
<1>1. 2 ^ 0 = 1
  OBVIOUS
<1>2. ASSUME NEW n \in Nat PROVE 2 ^ n \in Nat /\ 2 ^ (n + 1) = 2 * (2 ^ n)
  <2> DEFINE A == SUBSET (1 .. n)
             B == SUBSET (1 .. n + 1)
             C == B \ A
  <2>1. IsFiniteSet(1 .. n) /\ Cardinality(1 .. n) = n
    BY FS_Interval
  <2>2. IsFiniteSet(1 .. n + 1) /\ Cardinality(1 .. n + 1) = n + 1
    BY FS_Interval
  <2>3. IsFiniteSet(A) /\ Cardinality(A) = 2 ^ n
    BY <2>1, FS_SUBSET
  <2>4. IsFiniteSet(B) /\ Cardinality(B) = 2 ^ (n + 1)
    BY <2>2, FS_SUBSET
  <2>5. A \subseteq B /\ \A s \in B : s \in C <=> n + 1 \in s
    <3>1. 1 .. n + 1 = (1 .. n) \cup {n + 1} /\ n + 1 \notin 1 .. n
      OBVIOUS
    <3> QED BY <3>1
  <2> DEFINE h == [s \in A |-> s \cup {n + 1}]
  <2>6. h \in Bijection(A, C)
    <3>1. 1 .. n + 1 = (1 .. n) \cup {n + 1} /\ n + 1 \notin 1 .. n
      OBVIOUS
    <3>2. h \in [A -> C]
      BY <2>5, <3>1
    <3>3. ASSUME NEW s \in A, NEW t \in A, h[s] = h[t] PROVE s = t
      BY <3>1, <3>3
    <3>4. ASSUME NEW c \in C PROVE \E s \in A : h[s] = c
      <4>1. n + 1 \in c
        BY <2>5
      <4>2. c \ {n + 1} \in A /\ (c \ {n + 1}) \cup {n + 1} = c
        BY <3>1, <4>1
      <4> QED BY <4>2
    <3> QED BY <3>2, <3>3, <3>4 DEF Bijection, Injection, Surjection, IsInjective
  <2>7. IsFiniteSet(C) /\ Cardinality(C) = Cardinality(A)
    BY <2>3, <2>6, FS_Bijection DEF ExistsBijection
  <2>8. Cardinality(C) = Cardinality(B) - Cardinality(B \cap A) /\ B \cap A = A
    <3>1. Cardinality(B \ A) = Cardinality(B) - Cardinality(B \cap A)
      BY <2>4, FS_Difference
    <3> QED BY <2>5, <3>1
  <2>9. Cardinality(A) \in Nat /\ Cardinality(B) \in Nat
    BY <2>3, <2>4, FS_CardinalityType
  <2> HIDE DEF A, B, C, h
  <2>10. Cardinality(B) = 2 * Cardinality(A)
    <3>1. Cardinality(A) = Cardinality(B) - Cardinality(A)
      BY <2>7, <2>8
    <3> QED BY <2>9, <3>1
  <2>11. 2 ^ n = Cardinality(A) /\ 2 ^ (n + 1) = Cardinality(B)
    BY <2>3, <2>4
  <2> QED BY ONLY <2>9, <2>10, <2>11
<1> QED BY <1>1, <1>2

(* Powers of two are not 0, and their product adds the exponents. *)
LEMMA PowersOfTwo ==
  /\ \A n \in Nat : 2 ^ n \in Nat \ {0}
  /\ \A m, n \in Nat : 2 ^ (m + n) = (2 ^ m) * (2 ^ n)
<1>1. \A n \in Nat : 2 ^ n \in Nat \ {0}
  <2> DEFINE K == {n \in Nat : 2 ^ n # 0}
  <2>1. 0 \in K
    BY PowerStep
  <2>2. ASSUME NEW n \in K PROVE n + 1 \in K
    <3>1. n \in Nat /\ 2 ^ n \in Nat /\ 2 ^ n # 0 /\ 2 ^ (n + 1) = 2 * (2 ^ n)
      BY PowerStep
    <3> QED BY <3>1
  <2>3. K \subseteq Nat
    OBVIOUS
  <2> HIDE DEF K
  <2>4. K = Nat
    BY <2>1, <2>2, <2>3, InductiveSet
  <2> QED BY <2>4, PowerStep DEF K
<1>2. ASSUME NEW m \in Nat PROVE \A n \in Nat : 2 ^ (m + n) = (2 ^ m) * (2 ^ n)
  <2> DEFINE K == {n \in Nat : 2 ^ (m + n) = (2 ^ m) * (2 ^ n)}
  <2>1. 0 \in K
    <3>1. m + 0 = m /\ 2 ^ m \in Nat /\ 2 ^ 0 = 1
      BY PowerStep
    <3> QED BY <3>1
  <2>2. ASSUME NEW n \in K PROVE n + 1 \in K
    <3>1. n \in Nat /\ m + n \in Nat /\ m + (n + 1) = (m + n) + 1
      OBVIOUS
    <3>2. /\ 2 ^ (m + (n + 1)) = 2 * (2 ^ (m + n)) /\ 2 ^ (n + 1) = 2 * (2 ^ n)
          /\ 2 ^ m \in Nat /\ 2 ^ n \in Nat
      BY <3>1, PowerStep
    <3>3. 2 ^ (m + n) = (2 ^ m) * (2 ^ n)
      OBVIOUS
    <3> DEFINE x == 2 ^ m
               y == 2 ^ n
    <3>4. x \in Nat /\ y \in Nat => 2 * (x * y) = x * (2 * y)
      <4> HIDE DEF x, y
      <4> QED OBVIOUS
    <3> HIDE DEF x, y
    <3>5. 2 ^ (m + (n + 1)) = 2 * (x * y) /\ 2 ^ (n + 1) = 2 * y /\ 2 ^ m = x /\ x \in Nat /\ y \in Nat
      BY <3>2, <3>3 DEF x, y
    <3> QED BY <3>1, <3>4, <3>5
  <2>3. K \subseteq Nat
    OBVIOUS
  <2> HIDE DEF K
  <2>4. K = Nat
    BY <2>1, <2>2, <2>3, InductiveSet
  <2> QED BY <2>4 DEF K
<1> QED BY <1>1, <1>2

(* A product divided by one of its factors. *)
LEMMA Quotient ==
  ASSUME NEW m \in Nat \ {0}, NEW q \in Nat, NEW r \in 0 .. m - 1
  PROVE  (q * m + r) \div m = q /\ (q * m + r) % m = r
  OBVIOUS

(* A number by its quotient and remainder.                                  *)
LEMMA Parted ==
  ASSUME NEW i \in Nat, NEW m \in Nat \ {0}
  PROVE  \E x \in Nat, y \in 0 .. m - 1 : i = x * m + y /\ i \div m = x /\ i % m = y
<1>1. i \div m \in Nat /\ i % m \in 0 .. m - 1 /\ i = m * (i \div m) + (i % m)
  BY Division
<1>2. PICK x \in Nat, y \in 0 .. m - 1 : i = m * x + y /\ i \div m = x /\ i % m = y
  BY <1>1
<1>3. m * x = x * m
  OBVIOUS
<1> QED BY <1>2, <1>3

(* There is only one remainder of any number. *)
LEMMA RemainderInt ==
  ASSUME NEW n \in Nat \ {0}, NEW q \in Int, NEW r \in 0 .. n - 1
  PROVE  (n * q + r) % n = r /\ (n * q + r) \div n = q
<1>1. n * q \in Int /\ n * q + r \in Int
  OBVIOUS
<1>2. PICK a \in Int : a = n * q + r
  BY <1>1
<1>3. a \div n \in Int /\ a % n \in 0 .. n - 1 /\ a = n * (a \div n) + (a % n)
  BY DivisionInt
<1>4. PICK d \in Int, c \in 0 .. n - 1 : d = a \div n /\ c = a % n
  BY <1>3
<1>5. a = n * d + c /\ a = n * q + r
  BY <1>2, <1>3, <1>4
<1>6. c = n * (q - d) + r /\ q - d \in Int
  BY <1>5
<1>7. c = r
  BY <1>6, SameRemainder
<1>8. n * (q - d) = 0
  BY <1>6, <1>7
<1>9. q - d = 0
  BY <1>6, <1>8
<1> QED BY <1>2, <1>4, <1>7, <1>9

Twice(v, m, k, n) == v \div n = (v \div m) \div k

(* A quotient divided again.                                                *)
LEMMA DividedTwice ==
  ASSUME NEW v \in Int, NEW m \in Nat \ {0}, NEW k \in Nat \ {0}, NEW n \in Nat \ {0}, n = m * k
  PROVE  Twice(v, m, k, n)
<1>1. PICK q \in Int, r \in 0 .. m - 1 : q = v \div m /\ v = m * q + r
  BY DivisionInt
<1>2. PICK d \in Int, c \in 0 .. k - 1 : d = q \div k /\ q = k * d + c
  BY DivisionInt
<1>3. n = m * k
  OBVIOUS
<1>4. m * c + r \in 0 .. n - 1
  <2>1. m * c \in Nat /\ m * c <= m * (k - 1)
    OBVIOUS
  <2>2. m * (k - 1) = m * k - m
    OBVIOUS
  <2> QED BY <1>3, <2>1, <2>2
<1>5. v = n * d + (m * c + r)
  <2>1. m * (k * d + c) = (m * k) * d + m * c
    OBVIOUS
  <2>2. m * q = n * d + m * c
    BY <1>2, <1>3, <2>1
  <2> QED BY <1>1, <2>2
<1>6. (n * d + (m * c + r)) \div n = d
  BY <1>4, RemainderInt
<1> QED BY <1>1, <1>2, <1>3, <1>5, <1>6 DEF Twice

(* The remainder by a product, digit by digit. *)
LEMMA RemainderDigit ==
  ASSUME NEW q \in Int, NEW b \in Nat \ {0}, NEW m \in Nat \ {0}
  PROVE  b * m \in Nat \ {0} /\ q % (b * m) = b * ((q \div b) % m) + (q % b)
<1>1. PICK p \in Int, r \in 0 .. b - 1 : p = q \div b /\ r = q % b /\ q = b * p + r
  BY DivisionInt
<1>2. PICK d \in Int, c \in 0 .. m - 1 : c = p % m /\ p = m * d + c
  BY DivisionInt
<1>3. PICK n \in Nat \ {0} : n = b * m
  <2>1. b * m \in Nat /\ b * m # 0
    OBVIOUS
  <2> QED BY <2>1
<1>4. b * c + r \in 0 .. n - 1
  <2>1. b * c \in Nat /\ b * c <= b * (m - 1)
    OBVIOUS
  <2>2. b * (m - 1) = b * m - b
    OBVIOUS
  <2> QED BY <1>3, <2>1, <2>2
<1>5. q = n * d + (b * c + r)
  <2>1. b * (m * d + c) = (b * m) * d + b * c
    OBVIOUS
  <2>2. b * p = n * d + b * c
    BY <1>2, <1>3, <2>1
  <2> QED BY <1>1, <2>2
<1>6. (n * d + (b * c + r)) % n = b * c + r
  BY <1>4, RemainderInt
<1> QED BY <1>1, <1>2, <1>3, <1>5, <1>6

-----------------------------------------------------------------------------
(* A number by its digits, the first one first. *)
Digit(v, B, n, i) == v \div (2 ^ (B * (n - i)))
Digits(s, v, B, n) == s = [i \in 1 .. n |-> Digit(v, B, n, i) % (2 ^ B)]
Reads(f, s, B) == f = [i \in 0 .. Len(s) |-> IF i = 0 THEN 0 ELSE (2 ^ B) * f[i - 1] + s[i]]
ReadUpto(v, B, n, i) == Digit(v, B, n, i) % (2 ^ (B * i))

(* One digit more. *)
LEMMA NextDigit ==
  ASSUME NEW v \in Int, NEW B \in Nat, NEW n \in Nat, NEW i \in Nat, i + 1 <= n
  PROVE  /\ Digit(v, B, n, i + 1) % (2 ^ B) \in Nat /\ ReadUpto(v, B, n, i) \in Nat
         /\ ReadUpto(v, B, n, i + 1) = (2 ^ B) * ReadUpto(v, B, n, i) + (Digit(v, B, n, i + 1) % (2 ^ B))
<1>1. B * (n - (i + 1)) \in Nat /\ B * i \in Nat /\ B * (i + 1) = B + B * i
      /\ B * (n - i) = B * (n - (i + 1)) + B
  <2>1. PICK k \in Nat : k = n - (i + 1) /\ n - i = k + 1
    <3>1. n - (i + 1) \in Nat /\ n - i = (n - (i + 1)) + 1
      OBVIOUS
    <3> QED BY <3>1
  <2>2. B * k \in Nat /\ B * i \in Nat /\ B * (i + 1) = B + B * i /\ B * (k + 1) = B * k + B
    OBVIOUS
  <2> QED BY <2>1, <2>2
<1>2. PICK m \in Nat \ {0}, b \in Nat \ {0}, p \in Nat \ {0} :
        m = 2 ^ (B * (n - (i + 1))) /\ b = 2 ^ B /\ p = 2 ^ (B * i)
  BY <1>1, PowersOfTwo
<1>3. 2 ^ (B * (n - i)) = m * b /\ 2 ^ (B * (i + 1)) = b * p
  BY <1>1, <1>2, PowersOfTwo
<1>4. PICK q \in Int : q = Digit(v, B, n, i + 1)
  <2>1. v \div m \in Int
    BY DivisionInt
  <2> QED BY <1>2, <2>1 DEF Digit
<1>5. Digit(v, B, n, i) = q \div b
  <2>1. PICK k \in Nat \ {0} : k = m * b /\ k = 2 ^ (B * (n - i))
    BY <1>1, <1>3, PowersOfTwo
  <2>2. Twice(v, m, b, k)
    BY <2>1, DividedTwice
  <2> QED BY <1>2, <1>4, <2>1, <2>2 DEF Digit, Twice
<1>6. q % (b * p) = b * ((q \div b) % p) + (q % b)
  BY RemainderDigit
<1>7. q % b \in Nat /\ (q \div b) % p \in Nat
  <2>1. q \div b \in Int /\ q % b \in 0 .. b - 1
    BY DivisionInt
  <2>2. (q \div b) % p \in 0 .. p - 1
    BY <2>1, DivisionInt
  <2> QED BY <2>1, <2>2
<1> QED BY <1>2, <1>3, <1>4, <1>5, <1>6, <1>7 DEF ReadUpto

(* Before the first digit there is nothing, and behind the last one the     *)
(* number, but for what is too large.                                       *)
LEMMA FirstAndLast ==
  ASSUME NEW v \in Int, NEW B \in Nat, NEW n \in Nat
  PROVE  ReadUpto(v, B, n, 0) = 0 /\ ReadUpto(v, B, n, n) = v % (2 ^ (B * n))
<1>1. B * 0 = 0 /\ B * (n - n) = 0 /\ B * (n - 0) \in Nat /\ 2 ^ 0 = 1
  BY PowerStep
<1>2. PICK m \in Nat \ {0} : m = 2 ^ (B * (n - 0))
  BY <1>1, PowersOfTwo
<1>3. v \div m \in Int /\ (v \div m) % 1 = 0
  <2>1. v \div m \in Int
    BY DivisionInt
  <2>2. (v \div m) % 1 \in 0 .. 1 - 1
    BY <2>1, DivisionInt
  <2> QED BY <2>1, <2>2
<1>4. v \div 1 = v
  OBVIOUS
<1> QED BY <1>1, <1>2, <1>3, <1>4 DEF ReadUpto, Digit

(* Reading the digits of a number gives the number.                         *)
LEMMA DigitsRead ==
  ASSUME NEW v \in Int, NEW B \in Nat, NEW n \in Nat,
         NEW s, Digits(s, v, B, n)
  PROVE  /\ \E f : Reads(f, s, B)
         /\ \A f : Reads(f, s, B) => f[Len(s)] = v % (2 ^ (B * n))
<1>1. Len(s) = n /\ \A i \in 1 .. n : s[i] = Digit(v, B, n, i) % (2 ^ B)
  <2>1. s \in Seq({ Digit(v, B, n, i) % (2 ^ B) : i \in 1 .. n })
    BY DEF Digits
  <2> QED BY DEF Digits
<1>2. ASSUME NEW i \in Nat, i + 1 <= n
      PROVE  ReadUpto(v, B, n, i + 1) = (2 ^ B) * ReadUpto(v, B, n, i) + s[i + 1]
  <2>1. i + 1 \in 1 .. n
    BY <1>2
  <2> QED BY <1>1, <1>2, <2>1, NextDigit
<1>3. \E f : Reads(f, s, B)
  <2> DEFINE f == [i \in 0 .. n |-> ReadUpto(v, B, n, i)]
  <2>1. ASSUME NEW i \in 0 .. n
        PROVE  f[i] = IF i = 0 THEN 0 ELSE (2 ^ B) * f[i - 1] + s[i]
    <3>1. CASE i = 0
      BY <3>1, FirstAndLast
    <3>2. CASE i # 0
      <4>1. i - 1 \in Nat /\ (i - 1) + 1 = i /\ i <= n /\ i - 1 \in 0 .. n
        BY <3>2
      <4>2. ReadUpto(v, B, n, (i - 1) + 1) = (2 ^ B) * ReadUpto(v, B, n, i - 1) + s[(i - 1) + 1]
        BY <4>1, <1>2
      <4> QED BY <3>2, <4>1, <4>2
    <3> QED BY <3>1, <3>2
  <2>2. f = [i \in 0 .. n |-> f[i]]
    OBVIOUS
  <2> HIDE DEF f
  <2>3. Reads(f, s, B)
    BY <1>1, <2>1, <2>2 DEF Reads
  <2> QED BY <2>3
<1>4. ASSUME NEW f, Reads(f, s, B) PROVE f[Len(s)] = v % (2 ^ (B * n))
  <2> DEFINE K == { i \in Nat : i <= n => f[i] = ReadUpto(v, B, n, i) }
  <2>1. \A i \in 0 .. n : f[i] = IF i = 0 THEN 0 ELSE (2 ^ B) * f[i - 1] + s[i]
    BY <1>1, <1>4 DEF Reads
  <2>2. 0 \in K
    <3>1. f[0] = 0
      BY <2>1
    <3> QED BY <3>1, FirstAndLast
  <2>3. ASSUME NEW i \in K PROVE i + 1 \in K
    <3> SUFFICES ASSUME i + 1 <= n PROVE f[i + 1] = ReadUpto(v, B, n, i + 1)
      OBVIOUS
    <3>1. i \in Nat /\ i + 1 \in 0 .. n /\ i + 1 # 0 /\ (i + 1) - 1 = i /\ f[i] = ReadUpto(v, B, n, i)
      OBVIOUS
    <3>2. f[i + 1] = (2 ^ B) * f[i] + s[i + 1]
      BY <2>1, <3>1
    <3> QED BY <1>2, <3>1, <3>2
  <2>4. K \subseteq Nat
    OBVIOUS
  <2> HIDE DEF K
  <2>5. n \in K
    BY <2>2, <2>3, <2>4, InductiveSet
  <2> QED BY <1>1, <2>5, FirstAndLast DEF K
<1> QED BY <1>3, <1>4

-----------------------------------------------------------------------------
(* Pieces of sequences: the elements behind the a-th up to the b-th. *)

Piece(s, a, b) == SubSeq(s, a + 1, b)

Elements(p, s, a, b) == p = [i \in 1 .. (b - a) |-> s[a + i]]

(* They are those of the sequence. *)
LEMMA PieceElements ==
  ASSUME NEW S, NEW s \in Seq(S), NEW a \in Nat, NEW b \in Nat, b <= Len(s)
  PROVE  Elements(Piece(s, a, b), s, a, b)
BY DEF Piece, Elements

(* A piece of the first of two sequences, one behind the other. *)
LEMMA PieceOld ==
  ASSUME NEW S, NEW s \in Seq(S), NEW t \in Seq(S), NEW a \in Nat, NEW b \in Nat, b <= Len(s)
  PROVE  Piece(s \o t, a, b) = Piece(s, a, b)
<1> DEFINE u == s \o t
<1>1. /\ u \in Seq(S) /\ Len(u) = Len(s) + Len(t) /\ Len(s) \in Nat /\ Len(t) \in Nat
      /\ \A i \in 1 .. Len(s) : u[i] = s[i]
  OBVIOUS
<1> HIDE DEF u
<1>2. Elements(Piece(u, a, b), u, a, b) /\ Elements(Piece(s, a, b), s, a, b)
  <2>1. b <= Len(u)
    BY <1>1
  <2>2. Elements(Piece(u, a, b), u, a, b)
    BY <1>1, <2>1, PieceElements
  <2>3. Elements(Piece(s, a, b), s, a, b)
    BY PieceElements
  <2> QED BY <2>2, <2>3
<1>3. \A i \in 1 .. (b - a) : a + i \in 1 .. Len(s)
  BY <1>1
<1> QED BY <1>1, <1>2, <1>3 DEF u, Elements

Later(c, n, a) == c = n + a

(* And of the second. *)
LEMMA PieceNew ==
  ASSUME NEW S, NEW s \in Seq(S), NEW t \in Seq(S), NEW a \in Nat, NEW b \in Nat, b <= Len(t),
         NEW c \in Nat, Later(c, Len(s), a), NEW d \in Nat, Later(d, Len(s), b)
  PROVE  Piece(s \o t, c, d) = Piece(t, a, b)
<1> DEFINE u == s \o t
<1>1. /\ u \in Seq(S) /\ Len(u) = Len(s) + Len(t) /\ Len(s) \in Nat /\ Len(t) \in Nat
      /\ \A i \in 1 .. Len(t) : u[Len(s) + i] = t[i]
  OBVIOUS
<1>0. c = Len(s) + a /\ d = Len(s) + b
  BY DEF Later
<1> HIDE DEF u
<1>2. Elements(Piece(u, c, d), u, c, d) /\ Elements(Piece(t, a, b), t, a, b)
  <2>1. d <= Len(u)
    BY <1>0, <1>1
  <2>2. Elements(Piece(u, c, d), u, c, d)
    BY <1>1, <2>1, PieceElements
  <2>3. Elements(Piece(t, a, b), t, a, b)
    BY PieceElements
  <2> QED BY <2>2, <2>3
<1>3. \A i \in 1 .. (b - a) : a + i \in 1 .. Len(t) /\ c + i = Len(s) + (a + i)
  BY <1>0, <1>1
<1>4. \A i \in 1 .. (b - a) : u[c + i] = t[a + i]
  BY <1>1, <1>3
<1>5. d - c = b - a
  BY <1>0, <1>1
<1> QED BY <1>2, <1>4, <1>5 DEF u, Elements

(* The whole. *)
LEMMA PieceWhole ==
  ASSUME NEW S, NEW t \in Seq(S)
  PROVE  Piece(t, 0, Len(t)) = t
<1>1. Len(t) \in Nat /\ t = [i \in 1 .. Len(t) |-> t[i]]
  OBVIOUS
<1>2. SubSeq(t, 1, Len(t)) = [i \in 1 .. Len(t) |-> t[i]]
  BY <1>1
<1> QED BY <1>1, <1>2 DEF Piece

(* The whole of the second. *)
LEMMA PieceBehind ==
  ASSUME NEW S, NEW s \in Seq(S), NEW t \in Seq(S),
         NEW c \in Nat, c = Len(s), NEW d \in Nat, d = c + Len(t)
  PROVE  Piece(s \o t, c, d) = t
<1>1. PICK a \in Nat : a = 0
  OBVIOUS
<1>2. PICK b \in Nat : b = Len(t)
  OBVIOUS
<1>3. b <= Len(t) /\ Later(c, Len(s), a) /\ Later(d, Len(s), b)
  BY <1>1, <1>2 DEF Later
<1>4. Piece(s \o t, c, d) = Piece(t, a, b)
  BY <1>3, PieceNew
<1> QED BY <1>1, <1>2, <1>4, PieceWhole

=============================================================================
