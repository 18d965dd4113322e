---------------------------- MODULE IpTreeProofs ----------------------------
(***************************************************************************)
(* Proofs about IpTree, for addresses and prefixes of any length and lists *)
(* of any number of entries.                                               *)
(***************************************************************************)
EXTENDS IpTree, DataLemmas

Bits == {0, 1}
Walk(a) == Path(a, PlainLength)

(* The leaves of a tree: no walk meets two, every walk meets one. *)
Shape(t) ==
  /\ t \in [DOMAIN t -> Bits]
  /\ DOMAIN t \subseteq Seq(Bits) /\ IsFiniteSet(DOMAIN t)
  /\ \A l \in DOMAIN t : Len(l) <= PlainLength
  /\ \A l, m \in DOMAIN t : IsPrefix(l, m) => l = m
  /\ \A a \in Address : \E l \in DOMAIN t : IsPrefix(l, Walk(a))

(* The inductive invariant: what lookup finds for an address is the value   *)
(* of every leaf on its walk.                                               *)
TreeInv ==
  /\ Shape(tree)
  /\ given \in [Address -> Bits]
  /\ ~covered => \A a \in Address : \A l \in LeavesOn(tree, Walk(a)) : tree[l] = given[a]

-----------------------------------------------------------------------------
(* Prefixes of sequences of bits, element by element. *)
LEMMA PrefixElements ==
  ASSUME NEW s \in Seq(Bits), NEW t \in Seq(Bits)
  PROVE  IsPrefix(s, t) <=> Len(s) <= Len(t) /\ \A i \in 1 .. Len(s) : s[i] = t[i]
<1>1. CASE ~(Len(s) <= Len(t))
  BY <1>1 DEF IsPrefix
<1>2. CASE Len(s) <= Len(t)
  <2>1. SubSeq(s, 1, Len(s)) \in Seq(Bits) /\ SubSeq(t, 1, Len(s)) \in Seq(Bits)
    BY <1>2
  <2>2. Len(SubSeq(s, 1, Len(s))) = Len(s) /\ Len(SubSeq(t, 1, Len(s))) = Len(s)
    BY <1>2
  <2>3. \A i \in 1 .. Len(s) : SubSeq(s, 1, Len(s))[i] = s[i] /\ SubSeq(t, 1, Len(s))[i] = t[i]
    BY <1>2
  <2>4. SubSeq(s, 1, Len(s)) = SubSeq(t, 1, Len(s))
          <=> \A i \in 1 .. Len(s) : SubSeq(s, 1, Len(s))[i] = SubSeq(t, 1, Len(s))[i]
    BY <2>1, <2>2
  <2> QED BY <1>2, <2>3, <2>4 DEF IsPrefix
<1> QED BY <1>1, <1>2

(* Of two prefixes of one sequence one is a prefix of the other.            *)
LEMMA PrefixesCompare ==
  ASSUME NEW s \in Seq(Bits), NEW t \in Seq(Bits), NEW w \in Seq(Bits),
         IsPrefix(s, w), IsPrefix(t, w)
  PROVE  IsPrefix(s, t) \/ IsPrefix(t, s)
BY PrefixElements

(* Being a prefix is transitive. *)
LEMMA PrefixTransitive ==
  ASSUME NEW s \in Seq(Bits), NEW t \in Seq(Bits), NEW w \in Seq(Bits),
         IsPrefix(s, t), IsPrefix(t, w)
  PROVE  IsPrefix(s, w)
BY PrefixElements

(* Every sequence is a prefix of itself. *)
LEMMA PrefixReflexive ==
  ASSUME NEW s \in Seq(Bits) PROVE IsPrefix(s, s)
BY PrefixElements

(* A prefix as long as the sequence is the sequence. *)
LEMMA SamePrefix ==
  ASSUME NEW s \in Seq(Bits), NEW t \in Seq(Bits), IsPrefix(s, t), Len(s) = Len(t)
  PROVE  s = t
BY PrefixElements

(* The bits of an address. *)
LEMMA PathType ==
  ASSUME NEW a, NEW n \in Nat
  PROVE  Path(a, n) \in Seq(Bits) /\ Len(Path(a, n)) = n
BY DEF Path, Bits

(* The path a lookup of an address follows. *)
LEMMA WalkType ==
  ASSUME NEW a \in Address
  PROVE  Walk(a) \in Seq(Bits) /\ Len(Walk(a)) = PlainLength
BY PathType, TreeAssumption DEF Walk

(* The path of an entry of either list. *)
LEMMA EntryType ==
  ASSUME NEW p \in EntryPath
  PROVE  p \in Seq(Bits) /\ Len(p) <= PlainLength
BY PathType, TreeAssumption DEF EntryPath

(* A sibling leaves the path at its last bit. *)
LEMMA SiblingElements ==
  ASSUME NEW p \in Seq(Bits), NEW i \in 1 .. Len(p)
  PROVE  /\ Sibling(p, i) \in Seq(Bits)
         /\ Len(Sibling(p, i)) = i
         /\ \A j \in 1 .. i - 1 : Sibling(p, i)[j] = p[j]
         /\ Sibling(p, i)[i] = 1 - p[i]
         /\ Sibling(p, i)[i] # p[i]
<1> DEFINE head == SubSeq(p, 1, i - 1)
<1>1. head \in Seq(Bits) /\ Len(head) = i - 1
  OBVIOUS
<1>2. \A j \in 1 .. i - 1 : head[j] = p[j]
  OBVIOUS
<1>3. p[i] \in Bits
  OBVIOUS
<1>4. 1 - p[i] \in Bits /\ 1 - p[i] # p[i]
  BY <1>3 DEF Bits
<1>5. Sibling(p, i) = Append(head, 1 - p[i])
  BY DEF Sibling
<1> HIDE DEF head
<1> QED BY <1>1, <1>2, <1>4, <1>5

(* A walk that has a prefix in common with a path and does not follow it to *)
(* its end passes through one of its siblings.                              *)
LEMMA WalkLeaves ==
  ASSUME NEW l \in Seq(Bits), NEW p \in Seq(Bits), NEW w \in Seq(Bits),
         Len(p) <= Len(w), IsPrefix(l, p), IsPrefix(l, w), ~IsPrefix(p, w)
  PROVE  \E n \in Siblings(l, p) : IsPrefix(n, w)
<1> DEFINE S == { i \in 1 .. Len(p) : p[i] # w[i] }
<1>1. S # {} /\ S \in SUBSET Nat
  <2>1. \E i \in 1 .. Len(p) : p[i] # w[i]
    BY PrefixElements
  <2> QED BY <2>1
<1> HIDE DEF S
<1>2. PICK i \in S : \A j \in S : i <= j
  BY <1>1, SmallestOf
<1> USE DEF S
<1>3. i \in Len(l) + 1 .. Len(p)
  <2>1. i \in 1 .. Len(p) /\ p[i] # w[i]
    BY <1>2
  <2>2. /\ Len(l) \in Nat /\ Len(l) <= Len(p) /\ Len(p) \in Nat
        /\ \A j \in 1 .. Len(l) : l[j] = p[j] /\ l[j] = w[j]
    BY PrefixElements
  <2>3. i \notin 1 .. Len(l)
    BY <2>1, <2>2
  <2> QED BY <2>1, <2>2, <2>3
<1>4. /\ i \in 1 .. Len(p) /\ i \in 1 .. Len(w)
      /\ p[i] # w[i] /\ p[i] \in Bits /\ w[i] \in Bits
  BY <1>2
<1>5. 1 - p[i] = w[i]
  BY <1>4 DEF Bits
<1>6. \A j \in 1 .. i - 1 : p[j] = w[j]
  BY <1>2
<1> HIDE DEF S
<1> DEFINE n == Sibling(p, i)
<1>7. /\ n \in Seq(Bits) /\ Len(n) = i
      /\ \A j \in 1 .. i - 1 : n[j] = p[j]
      /\ n[i] = 1 - p[i]
  BY <1>4, SiblingElements
<1>8. n \in Siblings(l, p)
  BY <1>3 DEF Siblings
<1> HIDE DEF n
<1>9. Len(n) <= Len(w) /\ \A j \in 1 .. Len(n) : n[j] = w[j]
  BY <1>4, <1>5, <1>6, <1>7
<1>10. IsPrefix(n, w)
  BY <1>7, <1>9, PrefixElements
<1> QED BY <1>8, <1>10

(* What a sibling is a prefix of: neither the path nor another sibling.     *)
LEMMA SiblingsApart ==
  ASSUME NEW l \in Seq(Bits), NEW p \in Seq(Bits), IsPrefix(l, p)
  PROVE  /\ Siblings(l, p) \subseteq Seq(Bits)
         /\ \A n \in Siblings(l, p) : /\ Len(n) <= Len(p)
                                      /\ IsPrefix(l, n) /\ Len(l) < Len(n)
                                      /\ ~IsPrefix(n, p) /\ ~IsPrefix(p, n)
         /\ \A n, m \in Siblings(l, p) : IsPrefix(n, m) => n = m
<1>1. Len(l) \in Nat /\ Len(p) \in Nat /\ Len(l) <= Len(p) /\ \A j \in 1 .. Len(l) : l[j] = p[j]
  BY PrefixElements
<1>2. ASSUME NEW n \in Siblings(l, p)
      PROVE  \E i \in 1 .. Len(p) : n = Sibling(p, i) /\ Len(l) < i
  BY <1>1, <1>2 DEF Siblings
<1>3. ASSUME NEW n \in Siblings(l, p)
      PROVE  /\ n \in Seq(Bits) /\ Len(n) <= Len(p) /\ IsPrefix(l, n) /\ Len(l) < Len(n)
             /\ ~IsPrefix(n, p) /\ ~IsPrefix(p, n)
  <2>1. PICK i \in 1 .. Len(p) : n = Sibling(p, i) /\ Len(l) < i
    BY <1>2
  <2>2. /\ n \in Seq(Bits) /\ Len(n) = i
        /\ \A j \in 1 .. i - 1 : n[j] = p[j]
        /\ n[i] # p[i]
    BY <2>1, SiblingElements
  <2>3. Len(l) <= Len(n) /\ \A j \in 1 .. Len(l) : l[j] = n[j]
    BY <1>1, <2>1, <2>2
  <2>4. IsPrefix(l, n)
    BY <2>2, <2>3, PrefixElements
  <2>5. ~IsPrefix(n, p) /\ ~IsPrefix(p, n)
    BY <2>1, <2>2, PrefixElements
  <2> QED BY <1>1, <2>1, <2>2, <2>4, <2>5
<1>4. ASSUME NEW n \in Siblings(l, p), NEW m \in Siblings(l, p), IsPrefix(n, m)
      PROVE  n = m
  <2>1. PICK i \in 1 .. Len(p) : n = Sibling(p, i)
    BY <1>2
  <2>2. PICK j \in 1 .. Len(p) : m = Sibling(p, j)
    BY <1>2
  <2>3. i <= j /\ n[i] = m[i]
    BY <1>4, <2>1, <2>2, SiblingElements, PrefixElements
  <2>4. i = j
    BY <2>1, <2>2, <2>3, SiblingElements
  <2> QED BY <2>1, <2>2, <2>4
<1> QED BY <1>3, <1>4

-----------------------------------------------------------------------------
(* There are finitely many siblings. *)
LEMMA SiblingsFinite ==
  ASSUME NEW l \in Seq(Bits), NEW p \in Seq(Bits)
  PROVE  IsFiniteSet(Siblings(l, p))
<1> DEFINE I == Len(l) + 1 .. Len(p)
           f == [i \in I |-> Sibling(p, i)]
<1>1. IsFiniteSet(I)
  BY FS_Interval
<1>2. f \in Surjection(I, Siblings(l, p))
  BY DEF Surjection, Siblings
<1> QED BY <1>1, <1>2, FS_Surjection

(* Splitting a leaf keeps the shape of the tree and gives the new value to  *)
(* the walks through p, the old one to all others.                          *)
LEMMA SplitShape ==
  ASSUME NEW t, Shape(t), NEW p \in Seq(Bits), Len(p) <= PlainLength, NEW value \in Bits,
         NEW leaf \in DOMAIN t, IsPrefix(leaf, p)
  PROVE  LET u == Split(t, leaf, p, value)
         IN  /\ Shape(u)
             /\ \A a \in Address : \A n \in LeavesOn(u, Walk(a)) :
                  IF IsPrefix(p, Walk(a)) THEN u[n] = value
                  ELSE \E m \in LeavesOn(t, Walk(a)) : u[n] = t[m]
<1> DEFINE u == Split(t, leaf, p, value)
           Rest == DOMAIN t \ {leaf}
           Sib == Siblings(leaf, p)
<1>1. /\ leaf \in Seq(Bits) /\ p \in Seq(Bits) /\ Len(p) <= PlainLength
      /\ Rest \subseteq Seq(Bits) /\ t[leaf] \in Bits
  BY DEF Shape
<1>2. /\ Sib \subseteq Seq(Bits)
      /\ \A n \in Sib : /\ Len(n) <= Len(p)
                        /\ IsPrefix(leaf, n) /\ Len(leaf) < Len(n)
                        /\ ~IsPrefix(n, p) /\ ~IsPrefix(p, n)
      /\ \A n, m \in Sib : IsPrefix(n, m) => n = m
  BY <1>1, SiblingsApart
<1>3. \A m \in Rest : ~IsPrefix(m, leaf) /\ ~IsPrefix(leaf, m)
  BY DEF Shape
<1>4. /\ DOMAIN u = Rest \cup Sib \cup {p}
      /\ \A n \in DOMAIN u : u[n] = IF n = p THEN value ELSE IF n \in DOMAIN t THEN t[n] ELSE t[leaf]
      /\ u = [n \in DOMAIN u |-> u[n]]
  BY DEF Split

(* Nothing that goes through the leaf is comparable with another leaf. *)
<1>5. \A m \in Rest, n \in Seq(Bits) : IsPrefix(leaf, n) => ~IsPrefix(m, n) /\ ~IsPrefix(n, m)
  <2> SUFFICES ASSUME NEW m \in Rest, NEW n \in Seq(Bits), IsPrefix(leaf, n)
               PROVE  ~IsPrefix(m, n) /\ ~IsPrefix(n, m)
    OBVIOUS
  <2>1. ~IsPrefix(m, n)
    BY <1>1, <1>3, PrefixesCompare
  <2>2. ~IsPrefix(n, m)
    BY <1>1, <1>3, PrefixTransitive
  <2> QED BY <2>1, <2>2
<1>6. \A n \in Sib : n \notin DOMAIN t /\ n # p
  <2> SUFFICES ASSUME NEW n \in Sib PROVE n \notin DOMAIN t /\ n # p
    OBVIOUS
  <2>1. n \notin Rest
    BY <1>2, <1>5, PrefixReflexive
  <2>2. n # leaf
    BY <1>1, <1>2
  <2>3. n # p
    BY <1>1, <1>2, PrefixReflexive
  <2> QED BY <2>1, <2>2, <2>3
<1>7. p \notin Rest
  BY <1>1, <1>5, PrefixReflexive
<1> HIDE DEF u, Rest, Sib
<1>8. /\ \A n \in Rest : u[n] = t[n]
      /\ \A n \in Sib : u[n] = t[leaf]
      /\ u[p] = value
  BY <1>4, <1>6, <1>7 DEF Rest
<1>9. u \in [DOMAIN u -> Bits]
  <2>1. \A n \in DOMAIN u : u[n] \in Bits
    BY <1>1, <1>4, <1>8 DEF Shape, Rest
  <2> QED BY <1>4, <2>1
<1>10. DOMAIN u \subseteq Seq(Bits)
  BY <1>1, <1>2, <1>4
<1>11. \A n \in DOMAIN u : Len(n) <= PlainLength
  <2>1. \A n \in Rest : Len(n) <= PlainLength
    BY DEF Rest, Shape
  <2>2. \A n \in Sib : Len(n) <= PlainLength
    BY <1>1, <1>2, TreeAssumption
  <2> QED BY <1>1, <1>4, <2>1, <2>2
<1>12. ASSUME NEW n \in DOMAIN u, NEW m \in DOMAIN u, IsPrefix(n, m)
      PROVE  n = m
  <2>1. CASE n \in Rest /\ m \in Rest
    BY <1>12, <2>1 DEF Rest, Shape
  <2>2. CASE n \in Rest /\ m \in Sib
    BY <1>2, <1>5, <1>12, <2>2
  <2>3. CASE n \in Rest /\ m = p
    BY <1>1, <1>5, <1>12, <2>3
  <2>4. CASE n \in Sib /\ m \in Rest
    BY <1>2, <1>5, <1>12, <2>4
  <2>5. CASE n = p /\ m \in Rest
    BY <1>1, <1>5, <1>12, <2>5
  <2>6. CASE n \in Sib \cup {p} /\ m \in Sib \cup {p}
    BY <1>2, <1>12, <2>6
  <2> QED BY <1>4, <2>1, <2>2, <2>3, <2>4, <2>5, <2>6
<1>13. ASSUME NEW a \in Address PROVE \E n \in DOMAIN u : IsPrefix(n, Walk(a))
  <2>1. PICK m \in DOMAIN t : IsPrefix(m, Walk(a))
    BY DEF Shape
  <2>2. CASE m \in Rest
    BY <1>4, <2>1, <2>2
  <2>3. CASE m = leaf /\ IsPrefix(p, Walk(a))
    BY <1>4, <2>3
  <2>4. CASE m = leaf /\ ~IsPrefix(p, Walk(a))
    <3>1. Len(p) <= Len(Walk(a)) /\ Walk(a) \in Seq(Bits)
      BY WalkType, <1>1
    <3>2. \E n \in Sib : IsPrefix(n, Walk(a))
      BY <1>1, <2>1, <2>4, <3>1, WalkLeaves DEF Sib
    <3> QED BY <1>4, <3>2
  <2> QED BY <2>2, <2>3, <2>4 DEF Rest
<1>14. ASSUME NEW a \in Address, NEW n \in LeavesOn(u, Walk(a))
      PROVE  IF IsPrefix(p, Walk(a)) THEN u[n] = value
             ELSE \E m \in LeavesOn(t, Walk(a)) : u[n] = t[m]
  <2>1. n \in DOMAIN u /\ IsPrefix(n, Walk(a)) /\ Walk(a) \in Seq(Bits)
    BY <1>14, WalkType DEF LeavesOn
  <2>2. CASE IsPrefix(p, Walk(a))
    <3>1. IsPrefix(n, p) \/ IsPrefix(p, n)
      BY <1>1, <1>10, <2>1, <2>2, PrefixesCompare
    <3>2. n = p
      BY <1>4, <1>12, <2>1, <3>1
    <3> QED BY <1>8, <2>2, <3>2
  <2>3. CASE ~IsPrefix(p, Walk(a)) /\ n \in Rest
    BY <1>8, <2>1, <2>3 DEF LeavesOn, Rest
  <2>4. CASE ~IsPrefix(p, Walk(a)) /\ n \in Sib
    <3>1. IsPrefix(leaf, Walk(a))
      BY <1>1, <1>2, <2>1, <2>4, PrefixTransitive
    <3> QED BY <1>8, <2>4, <3>1 DEF LeavesOn
  <2> QED BY <1>4, <2>1, <2>2, <2>3, <2>4
<1>15. IsFiniteSet(DOMAIN u)
  <2>1. IsFiniteSet(Rest)
    BY FS_RemoveElement DEF Shape, Rest
  <2>2. IsFiniteSet(Sib)
    BY <1>1, SiblingsFinite DEF Sib
  <2>3. IsFiniteSet(Rest \cup Sib)
    BY <2>1, <2>2, FS_Union
  <2>4. IsFiniteSet((Rest \cup Sib) \cup {p})
    BY <2>3, FS_AddElement
  <2> QED BY <1>4, <2>4
<1> QED BY <1>9, <1>10, <1>11, <1>12, <1>13, <1>14, <1>15 DEF Shape, u

(* Adding an entry keeps the shape of the tree.  If the entry ends at a leaf *)
(* or below one, the walks through it get its value; all others keep theirs. *)
LEMMA AddShape ==
  ASSUME NEW t, Shape(t), NEW p \in Seq(Bits), Len(p) <= PlainLength, NEW value \in Bits
  PROVE  LET u == xm_iptree_add(t, p, value)
         IN  /\ Shape(u)
             /\ LeavesOn(t, p) # {} =>
                  \A a \in Address : \A n \in LeavesOn(u, Walk(a)) :
                    IF IsPrefix(p, Walk(a)) THEN u[n] = value
                    ELSE \E m \in LeavesOn(t, Walk(a)) : u[n] = t[m]
<1> DEFINE u == xm_iptree_add(t, p, value)
           leaf == CHOOSE l \in LeavesOn(t, p) : TRUE
<1>1. p \in Seq(Bits) /\ DOMAIN t \subseteq Seq(Bits)
  BY DEF Shape
<1>2. CASE \E l \in LeavesOn(t, p) : t[l] # value
  <2>1. u = Split(t, leaf, p, value)
    BY <1>2 DEF xm_iptree_add
  <2>2. leaf \in DOMAIN t /\ IsPrefix(leaf, p)
    BY <1>2 DEF LeavesOn
  <2> HIDE DEF leaf, u
  <2>3. /\ Shape(u)
        /\ \A a \in Address : \A n \in LeavesOn(u, Walk(a)) :
             IF IsPrefix(p, Walk(a)) THEN u[n] = value
             ELSE \E m \in LeavesOn(t, Walk(a)) : u[n] = t[m]
    BY <2>1, <2>2, SplitShape
  <2> QED BY <2>3 DEF u
<1>3. CASE ~\E l \in LeavesOn(t, p) : t[l] # value
  <2>1. u = t
    BY <1>3 DEF xm_iptree_add
  <2>2. ASSUME NEW l \in LeavesOn(t, p), NEW a \in Address, NEW n \in LeavesOn(t, Walk(a)),
               IsPrefix(p, Walk(a))
        PROVE  t[n] = value
    <3>1. /\ l \in DOMAIN t /\ IsPrefix(l, p)
          /\ n \in DOMAIN t /\ IsPrefix(n, Walk(a)) /\ Walk(a) \in Seq(Bits)
      BY WalkType DEF LeavesOn
    <3>2. IsPrefix(l, Walk(a))
      BY <1>1, <2>2, <3>1, PrefixTransitive
    <3>3. IsPrefix(l, n) \/ IsPrefix(n, l)
      BY <1>1, <3>1, <3>2, PrefixesCompare
    <3>4. n = l
      BY <3>1, <3>3 DEF Shape
    <3> QED BY <1>3, <3>4
  <2>3. \A a \in Address : \A n \in LeavesOn(t, Walk(a)) :
          \E m \in LeavesOn(t, Walk(a)) : t[n] = t[m]
    OBVIOUS
  <2> HIDE DEF u
  <2>4. /\ Shape(u)
        /\ LeavesOn(t, p) # {} =>
             \A a \in Address : \A n \in LeavesOn(u, Walk(a)) :
               IF IsPrefix(p, Walk(a)) THEN u[n] = value
               ELSE \E m \in LeavesOn(t, Walk(a)) : u[n] = t[m]
    BY <2>1, <2>2, <2>3
  <2> QED BY <2>4 DEF u
<1> QED BY <1>2, <1>3

(* The invariant of an entry's step. *)
LEMMA AddInv ==
  ASSUME TreeInv, NEW p \in Seq(Bits), Len(p) <= PlainLength, NEW value \in Bits, Add(p, value)
  PROVE  TreeInv'
<1>1. tree' = xm_iptree_add(tree, p, value)
  BY DEF Add
<1>2. given' = [ a \in Address |-> IF IsPrefix(p, Walk(a)) THEN value ELSE given[a] ]
  BY DEF Add, Walk
<1>3. covered' = (covered \/ LeavesOn(tree, p) = {})
  BY DEF Add
<1>4. Shape(tree) /\ given \in [Address -> Bits]
  BY DEF TreeInv
<1>5. /\ Shape(tree')
      /\ LeavesOn(tree, p) # {} =>
           \A a \in Address : \A n \in LeavesOn(tree', Walk(a)) :
             IF IsPrefix(p, Walk(a)) THEN tree'[n] = value
             ELSE \E m \in LeavesOn(tree, Walk(a)) : tree'[n] = tree[m]
  BY <1>1, <1>4, AddShape
<1>6. given' \in [Address -> Bits]
  BY <1>2, <1>4
<1>7. ASSUME ~covered', NEW a \in Address, NEW n \in LeavesOn(tree', Walk(a))
      PROVE  tree'[n] = given'[a]
  <2>1. ~covered /\ LeavesOn(tree, p) # {}
    BY <1>3, <1>7
  <2>2. CASE IsPrefix(p, Walk(a))
    BY <1>2, <1>5, <1>7, <2>1, <2>2
  <2>3. CASE ~IsPrefix(p, Walk(a))
    <3>1. PICK m \in LeavesOn(tree, Walk(a)) : tree'[n] = tree[m]
      BY <1>5, <1>7, <2>1, <2>3
    <3>2. tree[m] = given[a]
      BY <2>1 DEF TreeInv
    <3> QED BY <1>2, <2>3, <3>1, <3>2
  <2> QED BY <2>2, <2>3
<1>8. Shape(tree)' <=> Shape(tree')
  BY DEF Shape
<1>9. \A a \in Address : LeavesOn(tree, Walk(a))' = LeavesOn(tree', Walk(a))
  BY DEF LeavesOn, Walk, Path, Address
<1>10. ~covered' => \A a \in Address : \A n \in LeavesOn(tree', Walk(a)) : tree'[n] = given'[a]
  BY <1>7
<1> QED BY <1>5, <1>6, <1>8, <1>10 DEF TreeInv, LeavesOn

-----------------------------------------------------------------------------
(* A smaller exponent has a smaller power. *)
LEMMA PowerOrder ==
  ASSUME NEW m \in Nat, NEW n \in Nat, m < n
  PROVE  2 ^ m < 2 ^ n
<1>1. n - m \in Nat /\ n - m - 1 \in Nat /\ m + (n - m) = n /\ (n - m - 1) + 1 = n - m
  OBVIOUS
<1>2. 2 ^ m \in Nat \ {0} /\ 2 ^ (n - m - 1) \in Nat \ {0} /\ 2 ^ (n - m) \in Nat
  BY <1>1, PowersOfTwo
<1>3. 2 ^ (n - m) = 2 * (2 ^ (n - m - 1))
  BY <1>1, PowerStep
<1>4. 2 ^ n = (2 ^ m) * (2 ^ (n - m))
  BY <1>1, PowersOfTwo
<1> DEFINE x == 2 ^ m
           y == 2 ^ (n - m)
<1>5. x \in Nat \ {0} /\ y \in Nat /\ y >= 2 /\ 2 ^ n = x * y
  BY <1>2, <1>3, <1>4
<1> HIDE DEF x, y
<1>6. x * y >= x * 2
  BY <1>5, ProductMonotone
<1> QED BY <1>5, <1>6 DEF x

(* What a leaf of each length counts for. *)
LEMMA Sizes ==
  ASSUME NEW l \in Seq(Bits)
  PROVE  /\ Len(l) <= Width => Size(l) = 2 ^ (Width - Len(l)) /\ Size(l) \in Nat \ {0}
         /\ Len(l) > Width => Size(l) = 0
         /\ InRadix(l) <=> Len(l) <= RADIX_LENGTH
<1>1. Width \in Nat /\ RADIX_LENGTH \in Nat /\ RADIX_LENGTH <= Width /\ Len(l) \in Nat
  BY TreeAssumption
<1>2. ASSUME Len(l) <= Width PROVE Size(l) = 2 ^ (Width - Len(l)) /\ Size(l) \in Nat \ {0}
  <2>1. Width - Len(l) \in Nat /\ Len(l) + (Width - Len(l)) = Width
    BY <1>1, <1>2
  <2>2. 2 ^ Width = (2 ^ Len(l)) * (2 ^ (Width - Len(l)))
    <3>1. 2 ^ (Len(l) + (Width - Len(l))) = (2 ^ Len(l)) * (2 ^ (Width - Len(l)))
      BY <1>1, <2>1, PowersOfTwo
    <3> QED BY <2>1, <3>1
  <2> DEFINE x == 2 ^ Len(l)
             y == 2 ^ (Width - Len(l))
  <2>3. x \in Nat \ {0} /\ y \in Nat \ {0} /\ 2 ^ Width = x * y
    BY <1>1, <2>1, <2>2, PowersOfTwo
  <2> HIDE DEF x, y
  <2>4. y * x + 0 = x * y /\ 0 \in 0 .. x - 1
    BY <2>3
  <2>5. (x * y) \div x = y
    BY <2>3, <2>4, Quotient
  <2> QED BY <2>3, <2>5 DEF Size, x, y
<1>3. ASSUME Len(l) > Width PROVE Size(l) = 0
  <2>1. 2 ^ Width < 2 ^ Len(l) /\ 2 ^ Width \in Nat /\ 2 ^ Len(l) \in Nat
    BY <1>1, <1>3, PowerOrder, PowersOfTwo
  <2> DEFINE x == 2 ^ Width
             y == 2 ^ Len(l)
  <2>2. x \in Nat /\ y \in Nat /\ x < y
    BY <2>1
  <2> HIDE DEF x, y
  <2>3. x \div y = 0
    BY <2>2
  <2> QED BY <2>3 DEF Size, x, y
<1>4. InRadix(l) <=> Len(l) <= RADIX_LENGTH
  <2>1. BlockSize = 2 ^ (Width - RADIX_LENGTH) /\ BlockSize \in Nat \ {0}
    BY <1>1, PowersOfTwo DEF BlockSize
  <2>2. CASE Len(l) > Width
    BY <1>1, <1>3, <2>1, <2>2 DEF InRadix
  <2>3. CASE Len(l) <= Width /\ Len(l) > RADIX_LENGTH
    <3>1. Size(l) < BlockSize
      BY <1>1, <1>2, <2>1, <2>3, PowerOrder
    <3> QED BY <1>1, <1>2, <2>1, <2>3, <3>1 DEF InRadix
  <2>4. CASE Len(l) < RADIX_LENGTH
    <3>1. BlockSize < Size(l)
      BY <1>1, <1>2, <2>1, <2>4, PowerOrder
    <3> QED BY <1>1, <1>2, <2>1, <2>4, <3>1 DEF InRadix
  <2>5. CASE Len(l) = RADIX_LENGTH
    BY <1>1, <1>2, <2>1, <2>5 DEF InRadix
  <2> QED BY <1>1, <2>2, <2>3, <2>4, <2>5
<1> QED BY <1>2, <1>3, <1>4

-----------------------------------------------------------------------------
(* The leaves at and below a node that the painted tree counts. *)
Below(t, node) == { l \in DOMAIN t : IsPrefix(node, l) /\ t[l] = ADDR_ALLOWED /\ ~InRadix(l) }
Weight(t) == [l \in DOMAIN t |-> Size(l)]

(* The sizes of leaves are numbers. *)
LEMMA WeightType ==
  ASSUME NEW t, Shape(t)
  PROVE  \A l \in DOMAIN t : Weight(t)[l] = Size(l) /\ Size(l) \in Nat
<1> SUFFICES ASSUME NEW l \in DOMAIN t PROVE Weight(t)[l] = Size(l) /\ Size(l) \in Nat
  OBVIOUS
<1>1. l \in Seq(Bits) /\ Len(l) \in Nat /\ Width \in Nat
  BY TreeAssumption DEF Shape
<1>2. Size(l) \in Nat
  BY <1>1, Sizes
<1> QED BY <1>2 DEF Weight

(* The count of a node as a sum of the sizes of those leaves. *)
LEMMA CountSum ==
  ASSUME NEW t, Shape(t), NEW node
  PROVE  /\ Below(t, node) \in SUBSET DOMAIN t /\ IsFiniteSet(DOMAIN t)
         /\ Count(t, node) = SumOf(Weight(t), Below(t, node)) /\ Count(t, node) \in Nat
<1> DEFINE B == Below(t, node)
           f == Weight(t)
           Sized(g) == g = [s \in SUBSET B |-> IF s = {} THEN 0 ELSE Size(Pick(s)) + g[s \ {Pick(s)}]]
           G == CHOOSE g : Sized(g)
<1>1. B \in SUBSET DOMAIN t /\ IsFiniteSet(DOMAIN t) /\ IsFiniteSet(B)
  BY FS_Subset DEF Below, Shape
<1>2. Count(t, node) = G[B]
  BY DEF Count, Below, MapThenSumSet, MapThenFoldSet, Pick
<1>3. \A s \in SUBSET B : s # {} => f[Pick(s)] = Size(Pick(s))
  BY <1>1, WeightType DEF Pick
<1>4. ASSUME NEW g PROVE Sized(g) <=> Adds(g, f, B)
  <2>1. \A s \in SUBSET B : Picked(g, f, s) = IF s = {} THEN 0 ELSE Size(Pick(s)) + g[s \ {Pick(s)}]
    BY <1>3 DEF Picked
  <2> HIDE DEF f, B
  <2>2. [s \in SUBSET B |-> Picked(g, f, s)]
          = [s \in SUBSET B |-> IF s = {} THEN 0 ELSE Size(Pick(s)) + g[s \ {Pick(s)}]]
    BY <2>1
  <2> QED BY <2>2 DEF Adds
<1>5. PICK h : Adds(h, f, B) /\ SumOf(f, B) = h[B]
  BY <1>1, SumAdds
<1>6. Sized(G)
  <2>1. Sized(h)
    BY <1>4, <1>5
  <2> HIDE DEF Sized
  <2> QED BY <2>1
<1>7. Adds(G, f, B)
  BY <1>4, <1>6
<1> HIDE DEF G, f, B, Sized
<1>8. G[B] = h[B]
  <2>1. B \in (SUBSET B) \cap (SUBSET B)
    OBVIOUS
  <2> QED BY <1>1, <1>5, <1>7, <2>1, AddsAgree
<1>9. \A l \in DOMAIN t : f[l] \in Nat
  BY WeightType DEF f
<1>10. SumOf(f, B) \in Nat
  BY <1>1, <1>9, SumElement
<1> QED BY <1>1, <1>2, <1>5, <1>8, <1>10 DEF f, B

(* The child of a node on the way to a longer sequence. *)
LEMMA ChildPrefix ==
  ASSUME NEW node \in Seq(Bits), NEW b \in Bits
  PROVE  /\ Append(node, b) \in Seq(Bits) /\ Len(Append(node, b)) = Len(node) + 1
         /\ \A w \in Seq(Bits) : IsPrefix(Append(node, b), w)
                                   <=> IsPrefix(node, w) /\ Len(node) < Len(w) /\ w[Len(node) + 1] = b
<1> DEFINE child == Append(node, b)
<1>1. child \in Seq(Bits) /\ Len(child) = Len(node) + 1
  OBVIOUS
<1>2. child[Len(node) + 1] = b /\ \A i \in 1 .. Len(node) : child[i] = node[i]
  OBVIOUS
<1> HIDE DEF child
<1>3. ASSUME NEW w \in Seq(Bits)
      PROVE  IsPrefix(child, w) <=> IsPrefix(node, w) /\ Len(node) < Len(w) /\ w[Len(node) + 1] = b
  <2>1. IsPrefix(child, w) <=> Len(node) + 1 <= Len(w) /\ \A i \in 1 .. Len(node) + 1 : child[i] = w[i]
    BY <1>1, PrefixElements
  <2>2. 1 .. Len(node) + 1 = (1 .. Len(node)) \cup {Len(node) + 1}
    OBVIOUS
  <2>3. (\A i \in 1 .. Len(node) + 1 : child[i] = w[i])
          <=> (\A i \in 1 .. Len(node) : node[i] = w[i]) /\ b = w[Len(node) + 1]
    BY <1>2, <2>2
  <2>4. IsPrefix(node, w) <=> Len(node) <= Len(w) /\ \A i \in 1 .. Len(node) : node[i] = w[i]
    BY PrefixElements
  <2> QED BY <2>1, <2>3, <2>4
<1> QED BY <1>1, <1>3 DEF child

(* The leaves below an internal node are below one of its children. *)
LEMMA BelowChildren ==
  ASSUME NEW t, Shape(t), NEW node \in Seq(Bits), node \notin DOMAIN t
  PROVE  /\ Below(t, node) = Below(t, Append(node, 0)) \cup Below(t, Append(node, 1))
         /\ Below(t, Append(node, 0)) \cap Below(t, Append(node, 1)) = {}
<1>1. ASSUME NEW l \in DOMAIN t
      PROVE  /\ IsPrefix(node, l) <=> IsPrefix(Append(node, 0), l) \/ IsPrefix(Append(node, 1), l)
             /\ ~(IsPrefix(Append(node, 0), l) /\ IsPrefix(Append(node, 1), l))
  <2>1. l \in Seq(Bits) /\ l # node
    BY DEF Shape
  <2>2. ASSUME IsPrefix(node, l) PROVE Len(node) < Len(l) /\ l[Len(node) + 1] \in Bits
    <3>1. Len(node) <= Len(l) /\ Len(node) # Len(l)
      BY <2>1, <2>2, PrefixElements, SamePrefix
    <3>2. Len(node) + 1 \in 1 .. Len(l)
      BY <2>1, <3>1
    <3> QED BY <2>1, <3>1, <3>2
  <2>3. \A b \in Bits : IsPrefix(Append(node, b), l)
                          <=> IsPrefix(node, l) /\ Len(node) < Len(l) /\ l[Len(node) + 1] = b
    BY <2>1, ChildPrefix
  <2> QED BY <2>2, <2>3 DEF Bits
<1> QED BY <1>1 DEF Below

(* The count of a leaf, of an internal node, and of what is below a leaf.   *)
LEMMA Counts ==
  ASSUME NEW t, Shape(t), NEW node \in Seq(Bits)
  PROVE  /\ node \in DOMAIN t =>
              Count(t, node) = IF t[node] = ADDR_ALLOWED /\ ~InRadix(node) THEN Size(node) ELSE 0
         /\ node \notin DOMAIN t =>
              Count(t, node) = Count(t, Append(node, 0)) + Count(t, Append(node, 1))
         /\ Len(node) > PlainLength => Count(t, node) = 0 /\ node \notin DOMAIN t
<1> DEFINE f == Weight(t)
           U == DOMAIN t
<1>1. IsFiniteSet(U) /\ \A u \in U : f[u] \in Nat /\ f[u] = Size(u)
  BY CountSum, WeightType
<1>2. \A n : Below(t, n) \in SUBSET U /\ Count(t, n) = SumOf(f, Below(t, n))
  BY CountSum
<1>3. SumOf(f, {}) = 0
  BY SumStep, FS_EmptySet
<1> HIDE DEF f, U
<1>4. ASSUME node \in DOMAIN t
      PROVE  Count(t, node) = IF t[node] = ADDR_ALLOWED /\ ~InRadix(node) THEN Size(node) ELSE 0
  <2>1. Below(t, node) = IF t[node] = ADDR_ALLOWED /\ ~InRadix(node) THEN {node} ELSE {}
    <3>1. \A l \in DOMAIN t : IsPrefix(node, l) <=> l = node
      BY <1>4, PrefixReflexive DEF Shape
    <3> QED BY <1>4, <3>1 DEF Below
  <2>2. SumOf(f, {node}) = f[node] + SumOf(f, {node} \ {node}) /\ {node} \ {node} = {} /\ f[node] \in Nat
    BY <1>1, <1>4, SumElement DEF U
  <2>3. SumOf(f, {node}) = Size(node)
    <3>1. f[node] = Size(node) /\ Size(node) \in Nat
      BY <1>1, <1>4 DEF U
    <3>2. SumOf(f, {node} \ {node}) = 0
      <4>1. {node} \ {node} = {}
        OBVIOUS
      <4> QED BY ONLY <1>3, <4>1
    <3> QED BY <2>2, <3>1, <3>2
  <2>4. Count(t, node) = SumOf(f, Below(t, node))
    BY <1>2
  <2> QED BY <1>3, <2>1, <2>3, <2>4
<1>5. ASSUME node \notin DOMAIN t
      PROVE  Count(t, node) = Count(t, Append(node, 0)) + Count(t, Append(node, 1))
  <2>1. Below(t, node) = Below(t, Append(node, 0)) \cup Below(t, Append(node, 1))
    BY <1>5, BelowChildren
  <2>2. Below(t, Append(node, 0)) \cap Below(t, Append(node, 1)) = {}
    BY <1>5, BelowChildren
  <2> QED BY <1>1, <1>2, <2>1, <2>2, SumUnion
<1>6. ASSUME Len(node) > PlainLength PROVE Count(t, node) = 0 /\ node \notin DOMAIN t
  <2>1. \A l \in DOMAIN t : l \in Seq(Bits) /\ Len(l) <= PlainLength /\ Len(l) \in Nat
    BY DEF Shape
  <2>2. \A l \in DOMAIN t : ~IsPrefix(node, l) /\ l # node
    BY <1>6, <2>1, PrefixElements, TreeAssumption
  <2>3. Below(t, node) = {}
    BY <2>2 DEF Below
  <2> QED BY <1>2, <1>3, <2>2, <2>3
<1> QED BY <1>4, <1>5, <1>6

-----------------------------------------------------------------------------
(* The bits of a node that are bits of an address, and what they stand for. *)
Kept(node) == { i \in DOMAIN node : i <= Width }
Worth(node) == [i \in 1 .. Len(node) |-> node[i] * 2 ^ (Width - i)]

(* The base of a node as a sum over its bits. *)
LEMMA BaseSum ==
  ASSUME NEW node \in Seq(Bits)
  PROVE  /\ Kept(node) \in SUBSET (1 .. Len(node)) /\ IsFiniteSet(Kept(node))
         /\ \A i \in Kept(node) : Worth(node)[i] \in Nat
         /\ Base(node) = SumOf(Worth(node), Kept(node))
<1> DEFINE B == Kept(node)
           f == Worth(node)
           Sized(g) == g = [s \in SUBSET B |->
                              IF s = {} THEN 0
                              ELSE node[Pick(s)] * 2 ^ (Width - Pick(s)) + g[s \ {Pick(s)}]]
           G == CHOOSE g : Sized(g)
<1>1. B \in SUBSET (1 .. Len(node)) /\ IsFiniteSet(B)
  <2>1. DOMAIN node = 1 .. Len(node) /\ Len(node) \in Nat
    OBVIOUS
  <2>2. IsFiniteSet(1 .. Len(node))
    BY <2>1, FS_Interval
  <2>3. B \in SUBSET (1 .. Len(node))
    BY <2>1 DEF Kept
  <2> QED BY <2>2, <2>3, FS_Subset
<1>2. Base(node) = G[B]
  BY DEF Base, Kept, MapThenSumSet, MapThenFoldSet, Pick
<1>3. \A s \in SUBSET B : s # {} => f[Pick(s)] = node[Pick(s)] * 2 ^ (Width - Pick(s))
  BY <1>1 DEF Pick, Worth
<1>4. ASSUME NEW g PROVE Sized(g) <=> Adds(g, f, B)
  <2>1. \A s \in SUBSET B : Picked(g, f, s) = IF s = {} THEN 0
                              ELSE node[Pick(s)] * 2 ^ (Width - Pick(s)) + g[s \ {Pick(s)}]
    BY <1>3 DEF Picked
  <2> HIDE DEF f, B
  <2>2. [s \in SUBSET B |-> Picked(g, f, s)]
          = [s \in SUBSET B |-> IF s = {} THEN 0
                              ELSE node[Pick(s)] * 2 ^ (Width - Pick(s)) + g[s \ {Pick(s)}]]
    BY <2>1
  <2> QED BY <2>2 DEF Adds
<1>5. PICK h : Adds(h, f, B) /\ SumOf(f, B) = h[B]
  BY <1>1, SumAdds
<1>6. Sized(G)
  <2>1. Sized(h)
    BY <1>4, <1>5
  <2> HIDE DEF Sized
  <2> QED BY <2>1
<1>7. Adds(G, f, B)
  BY <1>4, <1>6
<1>8. \A i \in B : f[i] \in Nat
  <2> SUFFICES ASSUME NEW i \in B PROVE f[i] \in Nat
    OBVIOUS
  <2>1. i \in 1 .. Len(node) /\ i <= Width /\ Width \in Nat /\ Width - i \in Nat
    BY <1>1, TreeAssumption DEF Kept
  <2>2. 2 ^ (Width - i) \in Nat /\ node[i] \in Nat
    BY <2>1, PowersOfTwo DEF Bits
  <2>3. \A x, y \in Nat : x * y \in Nat
    OBVIOUS
  <2>4. f[i] = node[i] * 2 ^ (Width - i)
    BY <2>1 DEF Worth
  <2> QED BY <2>2, <2>3, <2>4
<1> HIDE DEF G, f, B, Sized
<1>9. G[B] = h[B]
  <2>1. B \in (SUBSET B) \cap (SUBSET B)
    OBVIOUS
  <2> QED BY <1>1, <1>5, <1>7, <2>1, AddsAgree
<1> QED BY <1>1, <1>2, <1>5, <1>8, <1>9 DEF f, B

(* One more bit. *)
LEMMA BaseStep ==
  /\ Base(<<>>) = 0
  /\ \A node \in Seq(Bits), b \in Bits :
       Len(node) < Width => Base(Append(node, b)) = Base(node) + b * 2 ^ (Width - Len(node) - 1)
<1>1. Base(<<>>) = 0
  <2>1. <<>> \in Seq(Bits) /\ Kept(<<>>) = {}
    BY DEF Kept
  <2> QED BY <2>1, BaseSum, SumStep, FS_EmptySet
<1>2. ASSUME NEW node \in Seq(Bits), NEW b \in Bits, Len(node) < Width
      PROVE  Base(Append(node, b)) = Base(node) + b * 2 ^ (Width - Len(node) - 1)
  <2> DEFINE child == Append(node, b)
             k == Len(node)
  <2>1. /\ child \in Seq(Bits) /\ Len(child) = k + 1 /\ child[k + 1] = b
        /\ \A i \in 1 .. k : child[i] = node[i]
    OBVIOUS
  <2> HIDE DEF child
  <2>2. k \in Nat /\ Width \in Nat /\ k + 1 <= Width /\ Width - (k + 1) = Width - k - 1
    BY <1>2, TreeAssumption
  <2>3. Kept(node) = 1 .. k /\ Kept(child) = 1 .. k + 1
    BY <2>1, <2>2 DEF Kept
  <2>4. \A i \in 1 .. k : Worth(child)[i] = Worth(node)[i]
    BY <2>1, <2>2 DEF Worth
  <2>5. Worth(child)[k + 1] = b * 2 ^ (Width - k - 1)
    BY <2>1, <2>2 DEF Worth
  <2>6. SumOf(Worth(child), 1 .. k) = SumOf(Worth(node), 1 .. k)
    <3>1. IsFiniteSet(1 .. k)
      BY <2>2, FS_Interval
    <3> HIDE DEF k
    <3> QED BY <2>4, <3>1, SumSame
  <2>7. /\ IsFiniteSet(1 .. k + 1) /\ \A i \in 1 .. k + 1 : Worth(child)[i] \in Nat
        /\ 1 .. k + 1 \in SUBSET (1 .. k + 1) /\ k + 1 \in 1 .. k + 1
        /\ (1 .. k + 1) \ {k + 1} = 1 .. k /\ 1 .. k \in SUBSET (1 .. k + 1)
    BY <2>1, <2>2, <2>3, BaseSum
  <2>8. /\ SumOf(Worth(child), 1 .. k + 1) = Worth(child)[k + 1] + SumOf(Worth(child), 1 .. k)
        /\ SumOf(Worth(child), 1 .. k) \in Nat /\ Worth(child)[k + 1] \in Nat
    <3> DEFINE U == 1 .. k + 1
               f == Worth(child)
    <3> HIDE DEF U, f
    <3>1. IsFiniteSet(U) /\ \A i \in U : f[i] \in Nat
      BY <2>7 DEF U, f
    <3>2. U \in SUBSET U /\ k + 1 \in U /\ 1 .. k \in SUBSET U
      BY <2>7 DEF U
    <3>3. SumOf(f, U) = f[k + 1] + SumOf(f, U \ {k + 1})
      BY <3>1, <3>2, SumElement
    <3>4. SumOf(f, 1 .. k) \in Nat
      BY <3>1, <3>2, SumElement
    <3> QED BY <2>7, <3>1, <3>2, <3>3, <3>4 DEF U, f
  <2>9. Base(child) = SumOf(Worth(child), 1 .. k + 1) /\ Base(node) = SumOf(Worth(node), 1 .. k)
    BY <2>1, <2>3, BaseSum
  <2>10. Base(child) = Base(node) + Worth(child)[k + 1]
    BY <2>6, <2>8, <2>9
  <2> QED BY <2>5, <2>10 DEF child
<1> QED BY <1>1, <1>2

(* Dividing twice. *)
LEMMA DivideTwice ==
  ASSUME NEW a \in Nat, NEW m \in Nat \ {0}, NEW n \in Nat \ {0}
  PROVE  /\ m * n \in Nat \ {0} /\ a \div m \in Nat
         /\ a \div (m * n) = (a \div m) \div n
<1>1. PICK x \in Nat, r \in 0 .. m - 1 : a = m * x + r /\ a \div m = x
  <2>1. a \div m \in Nat /\ a % m \in 0 .. m - 1 /\ a = m * (a \div m) + (a % m)
    BY Division
  <2> QED BY <2>1
<1>2. PICK y \in Nat, z \in 0 .. n - 1 : x = n * y + z /\ x \div n = y
  <2>1. x \div n \in Nat /\ x % n \in 0 .. n - 1 /\ x = n * (x \div n) + (x % n)
    BY Division
  <2> QED BY <2>1
<1>3. m * n \in Nat \ {0}
  OBVIOUS
<1>4. m * z + r \in 0 .. (m * n) - 1
  <2>1. m * z <= m * (n - 1)
    <3>1. z \in Nat /\ n - 1 \in Nat /\ z <= n - 1
      OBVIOUS
    <3> QED BY <3>1, ProductMonotone
  <2>2. m * (n - 1) = (m * n) - m /\ m * z \in Nat /\ r \in Nat /\ r <= m - 1
    OBVIOUS
  <2> QED BY <1>3, <2>1, <2>2
<1>5. a = y * (m * n) + (m * z + r)
  <2>1. m * (n * y + z) = y * (m * n) + m * z
    OBVIOUS
  <2>2. m * z \in Nat /\ y * (m * n) \in Nat /\ r \in Nat
    OBVIOUS
  <2> QED BY <1>1, <1>2, <2>1, <2>2
<1> DEFINE mn == m * n
           rest == m * z + r
<1>6. mn \in Nat \ {0} /\ rest \in 0 .. mn - 1 /\ a = y * mn + rest
  BY <1>3, <1>4, <1>5
<1> HIDE DEF mn, rest
<1>7. a \div mn = y
  BY <1>6, Quotient
<1> QED BY <1>1, <1>2, <1>3, <1>7 DEF mn

(* The addresses a node stands for are a block of the node's size, and start *)
(* at its base.                                                              *)
LEMMA NodeBlock ==
  ASSUME NEW node \in Seq(Bits), Len(node) <= Width
  PROVE  \E q \in Nat :
           LET m == 2 ^ (Width - Len(node))
           IN  /\ Base(node) = q * m /\ q * m + m <= 2 ^ Width
               /\ \A a \in Address : IsPrefix(node, Walk(a)) <=> a \div m = q
<1> DEFINE Claim(n, q, m) == /\ Base(n) = q * m /\ q * m + m <= 2 ^ Width
                             /\ \A a \in Address : IsPrefix(n, Walk(a)) <=> a \div m = q
           K == {k \in Nat : k <= Width => \A n \in Seq(Bits) :
                               Len(n) = k => \E q \in Nat : Claim(n, q, 2 ^ (Width - k))}
<1>0. Width \in Nat /\ PlainLength \in Nat /\ Width < PlainLength /\ 2 ^ Width \in Nat \ {0}
  BY TreeAssumption, PowersOfTwo
<1>1. 0 \in K
  <2>1. ASSUME NEW n \in Seq(Bits), Len(n) = 0 PROVE Claim(n, 0, 2 ^ (Width - 0))
    <3>1. n = <<>>
      BY <2>1
    <3>2. Width - 0 = Width /\ Base(n) = 0
      BY <1>0, <3>1, BaseStep
    <3>3. ASSUME NEW a \in Address PROVE IsPrefix(n, Walk(a)) /\ a \div (2 ^ Width) = 0
      <4>1. IsPrefix(n, Walk(a))
        <5>1. Walk(a) \in Seq(Bits) /\ Len(Walk(a)) = PlainLength
          BY WalkType
        <5>2. Len(n) <= Len(Walk(a)) /\ \A i \in 1 .. Len(n) : n[i] = Walk(a)[i]
          BY <1>0, <2>1, <5>1
        <5> HIDE DEF Claim
        <5> QED BY <5>1, <5>2, PrefixElements
      <4> DEFINE m == 2 ^ Width
      <4>2. m \in Nat \ {0} /\ a \in 0 .. m - 1
        BY <1>0 DEF Address
      <4> HIDE DEF m
      <4>3. a \div m = 0
        BY <4>2
      <4> QED BY <4>1, <4>3 DEF m
    <3>4. 0 * 2 ^ Width = 0 /\ 0 * 2 ^ Width + 2 ^ Width <= 2 ^ Width
      BY <1>0
    <3> QED BY <3>2, <3>3, <3>4
  <2> HIDE DEF Claim
  <2> QED BY <2>1
<1>2. ASSUME NEW k \in K PROVE k + 1 \in K
  <2>1. SUFFICES ASSUME k + 1 <= Width, NEW n \in Seq(Bits), Len(n) = k + 1
                 PROVE  \E q \in Nat : Claim(n, q, 2 ^ (Width - (k + 1)))
    OBVIOUS
  <2>2. k \in Nat /\ k <= Width /\ Width - k \in Nat /\ Width - (k + 1) \in Nat
    BY <1>0, <2>1
  <2> DEFINE m == 2 ^ (Width - (k + 1))
  <2>3. m \in Nat \ {0} /\ 2 ^ (Width - k) = 2 * m
    <3>1. (Width - (k + 1)) + 1 = Width - k
      BY <1>0, <2>2
    <3> QED BY <2>2, <3>1, PowersOfTwo, PowerStep
  <2>4. PICK front \in Seq(Bits), b \in Bits : n = Append(front, b)
    <3>1. n # <<>>
      BY <2>1, <2>2
    <3> QED BY <3>1, SequenceEmptyOrAppend
  <2>5. Len(front) = k
    BY <2>1, <2>2, <2>4
  <2>6. PICK q \in Nat : Claim(front, q, 2 * m)
    BY <2>2, <2>3, <2>5
  <2>7. Base(n) = Base(front) + b * m
    <3>1. Width - k - 1 = Width - (k + 1) /\ Len(front) < Width
      BY <1>0, <2>1, <2>2, <2>5
    <3> QED BY <2>4, <2>5, <3>1, BaseStep
  <2>8. ASSUME NEW a \in Address
        PROVE  IsPrefix(n, Walk(a)) <=> a \div m = 2 * q + b
    <3>1. Walk(a) \in Seq(Bits) /\ Len(Walk(a)) = PlainLength
      BY WalkType
    <3>2. IsPrefix(n, Walk(a)) <=> IsPrefix(front, Walk(a)) /\ Walk(a)[k + 1] = b
      <4>1. k < PlainLength
        BY <1>0, <2>2
      <4> HIDE DEF Claim, m
      <4> QED BY <2>4, <2>5, <3>1, <4>1, ChildPrefix
    <3>3. Walk(a)[k + 1] = IF (a \div m) % 2 = 1 THEN 1 ELSE 0
      <4>1. k + 1 \in 1 .. PlainLength /\ k + 1 <= Width
        BY <1>0, <2>1, <2>2
      <4> QED BY <4>1 DEF Walk, Path
    <3>4. IsPrefix(front, Walk(a)) <=> a \div (2 * m) = q
      BY <2>6
    <3>5. a \in Nat
      BY <1>0 DEF Address
    <3> HIDE DEF m, Claim
    <3>6. a \div m \in Nat /\ a \div (2 * m) = (a \div m) \div 2
      <4>1. PICK x \in Nat, z \in 0 .. m - 1 : a = x * m + z /\ a \div m = x
        BY <2>3, <3>5, Parted
      <4>2. PICK y \in Nat, u \in 0 .. 1 : x = y * 2 + u /\ x \div 2 = y
        <5>1. PICK y \in Nat, u \in 0 .. 2 - 1 : x = y * 2 + u /\ x \div 2 = y /\ x % 2 = u
          BY Parted
        <5> QED BY <5>1
      <4> DEFINE mm == 2 * m
                 rest == u * m + z
      <4>3. mm \in Nat \ {0} /\ rest \in 0 .. mm - 1 /\ (y * 2 + u) * m + z = y * mm + rest
        <5>1. u = 0 \/ u = 1
          OBVIOUS
        <5> QED BY <2>3, <5>1
      <4> HIDE DEF mm, rest
      <4>4. a \div mm = y
        <5>1. a = y * mm + rest
          BY <4>1, <4>2, <4>3
        <5>2. (y * mm + rest) \div mm = y
          BY <4>3, Quotient
        <5> QED BY <5>1, <5>2
      <4> QED BY <4>1, <4>2, <4>4 DEF mm
    <3>7. ASSUME NEW x \in Nat
          PROVE  (x \div 2 = q /\ b = (IF x % 2 = 1 THEN 1 ELSE 0)) <=> x = 2 * q + b
      <4>1. PICK y \in Nat, z \in 0 .. 1 : x = 2 * y + z /\ x \div 2 = y /\ x % 2 = z
        <5>1. x \div 2 \in Nat /\ x % 2 \in 0 .. 2 - 1 /\ x = 2 * (x \div 2) + (x % 2)
          BY Division
        <5> QED BY <5>1
      <4>2. b \in {0, 1} /\ q \in Nat
        BY DEF Bits
      <4> QED BY ONLY <4>1, <4>2, q \in Nat
    <3> QED BY <3>2, <3>3, <3>4, <3>6, <3>7
  <2>9. Base(n) = (2 * q + b) * m /\ (2 * q + b) * m + m <= 2 ^ Width
    <3>1. Base(front) = q * (2 * m) /\ q * (2 * m) + 2 * m <= 2 ^ Width
      BY <2>6
    <3> HIDE DEF m, Claim
    <3>2. q * (2 * m) + b * m = (2 * q + b) * m /\ q * (2 * m) \in Nat /\ b * m \in Nat
      BY <2>3 DEF Bits
    <3>3. b * m + m <= 2 * m
      BY <2>3 DEF Bits
    <3> QED BY <1>0, <2>3, <2>7, <3>1, <3>2, <3>3
  <2>10. Claim(n, 2 * q + b, m) /\ 2 * q + b \in Nat
    BY <2>8, <2>9 DEF Bits
  <2> HIDE DEF Claim
  <2> QED BY <2>10
<1>3. K = Nat
  <2> HIDE DEF Claim
  <2>1. K \subseteq Nat
    OBVIOUS
  <2> HIDE DEF K
  <2> QED BY <1>1, <1>2, <2>1, InductiveSet
<1>4. Len(node) \in K
  BY <1>3
<1>5. PICK q \in Nat : Claim(node, q, 2 ^ (Width - Len(node)))
  <2> HIDE DEF Claim
  <2> QED BY <1>4
<1> QED BY <1>5

(* The same block by its bounds. *)
LEMMA NodeRange ==
  ASSUME NEW node \in Seq(Bits), Len(node) <= Width
  PROVE  /\ Base(node) \in Nat /\ Size(node) \in Nat \ {0} /\ Base(node) + Size(node) <= 2 ^ Width
         /\ \A a \in Address : IsPrefix(node, Walk(a))
                                 <=> Base(node) <= a /\ a < Base(node) + Size(node)
<1> DEFINE m == 2 ^ (Width - Len(node))
<1>1. PICK q \in Nat : /\ Base(node) = q * m /\ q * m + m <= 2 ^ Width
                       /\ \A a \in Address : IsPrefix(node, Walk(a)) <=> a \div m = q
  BY NodeBlock
<1>2. Size(node) = m /\ m \in Nat \ {0} /\ 2 ^ Width \in Nat
  BY Sizes, PowersOfTwo, TreeAssumption
<1> HIDE DEF m
<1>3. q * m \in Nat
  BY <1>2
<1>4. ASSUME NEW a \in Address
      PROVE  a \div m = q <=> q * m <= a /\ a < q * m + m
  <2>1. a \in Nat
    BY <1>2 DEF Address
  <2>2. a \div m \in Nat /\ a % m \in 0 .. m - 1 /\ a = m * (a \div m) + (a % m)
    BY <1>2, <2>1, Division
  <2>3. ASSUME a \div m = q PROVE q * m <= a /\ a < q * m + m
    <3>1. PICK r \in 0 .. m - 1 : a = m * q + r
      BY <2>2, <2>3
    <3>2. m * q = q * m
      BY <1>2
    <3> QED BY <1>2, <1>3, <3>1, <3>2
  <2>4. ASSUME q * m <= a, a < q * m + m PROVE a \div m = q
    <3> DEFINE qm == q * m
    <3>1. qm \in Nat /\ qm <= a /\ a < qm + m
      BY <1>3, <2>4
    <3> HIDE DEF qm
    <3>2. PICK r \in 0 .. m - 1 : a = qm + r
      <4>1. a - qm \in 0 .. m - 1 /\ a = qm + (a - qm)
        BY <1>2, <2>1, <3>1
      <4> QED BY <4>1
    <3>3. (q * m + r) \div m = q
      BY <1>2, Quotient
    <3> QED BY <3>2, <3>3 DEF qm
  <2> QED BY <2>3, <2>4
<1> QED BY <1>1, <1>2, <1>3, <1>4

-----------------------------------------------------------------------------
(* The walk of _lookup_index: what it does at a node, and all of it. *)
WalkAt(w, t, node) ==
  [n \in Nat |->
     IF node \in DOMAIN t THEN Base(node) + n
     ELSE IF n < Count(t, Append(node, 0)) THEN w[Append(node, 0)][n]
          ELSE w[Append(node, 1)][n - Count(t, Append(node, 0))]]
WalkOf(w, t) == w = [node \in Seq({0, 1}) |-> WalkAt(w, t, node)]

(* There is one, though it is defined for nodes that no walk gets to.       *)
LEMMA WalkExists ==
  ASSUME NEW t, Shape(t)
  PROVE  \E w : WalkOf(w, t)
<1> DEFINE Upto(w, k) == /\ w = [node \in Seq(Bits) |-> w[node]]
                         /\ \A node \in Seq(Bits) :
                              Len(node) + k > PlainLength => w[node] = WalkAt(w, t, node)
           K == {k \in Nat : \E w : Upto(w, k)}
<1>0. PlainLength \in Nat
  BY TreeAssumption
<1>00. \A node \in Seq(Bits) : \A b \in Bits : /\ Append(node, b) \in Seq(Bits)
                                             /\ Len(Append(node, b)) = Len(node) + 1
  BY ChildPrefix
<1>1. 0 \in K
  <2> DEFINE w == [node \in Seq(Bits) |-> [n \in Nat |-> 0]]
  <2>1. w = [node \in Seq(Bits) |-> w[node]] /\ \A node \in Seq(Bits) : w[node] = [n \in Nat |-> 0]
    OBVIOUS
  <2> HIDE DEF w
  <2>2. ASSUME NEW node \in Seq(Bits), Len(node) + 0 > PlainLength
        PROVE  w[node] = WalkAt(w, t, node)
    <3>1. node \notin DOMAIN t
      BY <1>0, <2>2, Counts
    <3>2. Append(node, 0) \in Seq(Bits) /\ Append(node, 1) \in Seq(Bits)
      BY <1>00 DEF Bits
    <3>3. Count(t, Append(node, 0)) \in Nat
      BY CountSum
    <3>4. \A n \in Nat : ~(n < Count(t, Append(node, 0))) => n - Count(t, Append(node, 0)) \in Nat
      BY <3>3
    <3>5. WalkAt(w, t, node) = [n \in Nat |-> 0]
      <4>1. \A n \in Nat : w[Append(node, 0)][n] = 0 /\ w[Append(node, 1)][n] = 0
        BY <2>1, <3>2
      <4> DEFINE left == Count(t, Append(node, 0))
      <4>2. WalkAt(w, t, node) = [n \in Nat |-> IF n < left THEN w[Append(node, 0)][n]
                                                 ELSE w[Append(node, 1)][n - left]]
        BY <3>1 DEF WalkAt
      <4>3. \A n \in Nat : (IF n < left THEN w[Append(node, 0)][n] ELSE w[Append(node, 1)][n - left]) = 0
        BY <3>4, <4>1
      <4> HIDE DEF left
      <4> QED BY <4>2, <4>3
    <3> QED BY <2>1, <3>5
  <2>3. Upto(w, 0)
    BY <2>1, <2>2
  <2> HIDE DEF Upto
  <2> QED BY <2>3
<1>2. ASSUME NEW k \in K PROVE k + 1 \in K
  <2>1. k \in Nat
    OBVIOUS
  <2>2. PICK w : Upto(w, k)
    OBVIOUS
  <2> DEFINE h == [node \in Seq(Bits) |->
                     IF Len(node) + k = PlainLength THEN WalkAt(w, t, node) ELSE w[node]]
  <2>3. /\ h = [node \in Seq(Bits) |-> h[node]]
        /\ \A node \in Seq(Bits) :
             h[node] = IF Len(node) + k = PlainLength THEN WalkAt(w, t, node) ELSE w[node]
    OBVIOUS
  <2> HIDE DEF h
  <2>4. ASSUME NEW node \in Seq(Bits), Len(node) + (k + 1) > PlainLength
        PROVE  h[node] = WalkAt(h, t, node)
    <3>1. Len(node) + k = PlainLength \/ Len(node) + k > PlainLength
      <4>1. Len(node) \in Nat
        OBVIOUS
      <4> HIDE DEF K
      <4> QED BY <1>0, <2>1, <2>4, <4>1
    <3>2. h[node] = WalkAt(w, t, node)
      BY <1>0, <2>1, <2>2, <2>3, <3>1
    <3>3. ASSUME NEW b \in Bits PROVE h[Append(node, b)] = w[Append(node, b)]
      <4>1. Append(node, b) \in Seq(Bits) /\ Len(Append(node, b)) + k # PlainLength
        BY <1>0, <1>00, <2>1, <2>4
      <4> QED BY <2>3, <4>1
    <3>4. WalkAt(h, t, node) = WalkAt(w, t, node)
      BY <3>3 DEF WalkAt, Bits
    <3> QED BY <3>2, <3>4
  <2>5. Upto(h, k + 1)
    BY <2>3, <2>4
  <2> HIDE DEF Upto
  <2> QED BY <2>1, <2>5
<1>3. K = Nat
  <2> HIDE DEF Upto
  <2>1. K \subseteq Nat
    OBVIOUS
  <2> HIDE DEF K
  <2> QED BY <1>1, <1>2, <2>1, InductiveSet
<1>4. PICK w : Upto(w, PlainLength + 1)
  <2> HIDE DEF Upto
  <2>1. PlainLength + 1 \in K
    <3> HIDE DEF K
    <3> QED BY <1>0, <1>3
  <2> QED BY <2>1
<1>5. \A node \in Seq(Bits) : w[node] = WalkAt(w, t, node)
  BY <1>0, <1>4
<1>6. w = [node \in Seq(Bits) |-> WalkAt(w, t, node)]
  BY <1>4, <1>5
<1> QED BY <1>6 DEF WalkOf, Bits

(* Looking up an index in the tree is such a walk from the root. *)
LEMMA LookupWalk ==
  ASSUME NEW t, Shape(t)
  PROVE  \E w : WalkOf(w, t) /\ \A index : _lookup_index(t, index) = w[<<>>][index]
<1> DEFINE w == CHOOSE w : WalkOf(w, t)
<1>1. WalkOf(w, t)
  BY WalkExists
<1>2. \A index : _lookup_index(t, index) = w[<<>>][index]
  BY DEF _lookup_index, WalkOf, WalkAt
<1> QED BY <1>1, <1>2

-----------------------------------------------------------------------------
(* The addresses that the painted tree counts at and below a node. *)
Under(t, node) == { a \in Address : \E l \in Below(t, node) : Len(l) <= Width /\ IsPrefix(l, Walk(a)) }

(* The walk from a node numbers the addresses under it, each once. *)
Numbers(w, t, node) ==
  /\ \A n \in 0 .. Count(t, node) - 1 : w[node][n] \in Under(t, node)
  /\ \A n, m \in 0 .. Count(t, node) - 1 : w[node][n] = w[node][m] => n = m
  /\ \A a \in Under(t, node) : \E n \in 0 .. Count(t, node) - 1 : w[node][n] = a

(* At a leaf. *)
LEMMA NumbersLeaf ==
  ASSUME NEW t, Shape(t), NEW w, WalkOf(w, t), NEW node \in DOMAIN t
  PROVE  Numbers(w, t, node)
<1>1. /\ node \in Seq(Bits) /\ Len(node) \in Nat /\ Width \in Nat
      /\ \A l \in DOMAIN t : IsPrefix(node, l) => l = node
  BY TreeAssumption DEF Shape
<1>2. \A n \in Nat : w[node][n] = Base(node) + n
  BY <1>1 DEF WalkOf, WalkAt, Bits
<1> DEFINE counted == t[node] = ADDR_ALLOWED /\ ~InRadix(node)
<1>3. Count(t, node) = IF counted THEN Size(node) ELSE 0
  BY <1>1, Counts
<1>4. Under(t, node) = IF counted /\ Len(node) <= Width
                       THEN { a \in Address : IsPrefix(node, Walk(a)) } ELSE {}
  <2>1. Below(t, node) = IF counted THEN {node} ELSE {}
    BY <1>1, PrefixReflexive DEF Below
  <2> QED BY <2>1 DEF Under
<1>5. CASE ~counted \/ Len(node) > Width
  <2>1. Count(t, node) = 0 /\ Under(t, node) = {}
    BY <1>1, <1>3, <1>4, <1>5, Sizes
  <2> QED BY <2>1 DEF Numbers
<1>6. CASE counted /\ Len(node) <= Width
  <2> DEFINE base == Base(node)
             size == Size(node)
  <2>1. /\ base \in Nat /\ size \in Nat \ {0} /\ base + size <= 2 ^ Width /\ 2 ^ Width \in Nat
        /\ \A a \in Address : IsPrefix(node, Walk(a)) <=> base <= a /\ a < base + size
    BY <1>1, <1>6, NodeRange, PowersOfTwo
  <2>2. Under(t, node) = { a \in Address : base <= a /\ a < base + size }
    BY <1>4, <1>6, <2>1
  <2>3. Count(t, node) = size
    BY <1>3, <1>6
  <2> HIDE DEF base, size
  <2>4. \A n \in 0 .. size - 1 : w[node][n] = base + n /\ base + n \in Under(t, node)
    <3>1. \A n \in 0 .. size - 1 : /\ base + n \in 0 .. 2 ^ Width - 1
                                   /\ base <= base + n /\ base + n < base + size
      BY <2>1
    <3> QED BY <1>2, <2>1, <2>2, <3>1 DEF Address, base
  <2>5. \A a \in Under(t, node) : a - base \in 0 .. size - 1 /\ base + (a - base) = a
    BY <2>1, <2>2 DEF Address
  <2>6. \A n, m \in 0 .. size - 1 : base + n = base + m => n = m
    BY <2>1
  <2> QED BY <2>3, <2>4, <2>5, <2>6 DEF Numbers
<1> QED BY <1>1, <1>5, <1>6

(* At an internal node whose children have been numbered. *)
LEMMA NumbersNode ==
  ASSUME NEW t, Shape(t), NEW w, WalkOf(w, t), NEW node \in Seq(Bits), node \notin DOMAIN t,
         Numbers(w, t, Append(node, 0)), Numbers(w, t, Append(node, 1))
  PROVE  Numbers(w, t, node)
<1> DEFINE l == Append(node, 0)
           r == Append(node, 1)
           cl == Count(t, l)
           cr == Count(t, r)
           c == Count(t, node)
<1>1. cl \in Nat /\ cr \in Nat /\ c = cl + cr
  BY CountSum, Counts
<1>2. \A n \in Nat : w[node][n] = IF n < cl THEN w[l][n] ELSE w[r][n - cl]
  <2>1. w[node] = WalkAt(w, t, node)
    BY DEF WalkOf, Bits
  <2>2. \A n \in Nat : WalkAt(w, t, node)[n] = IF n < cl THEN w[l][n] ELSE w[r][n - cl]
    BY DEF WalkAt
  <2> QED BY <2>1, <2>2
<1>3. Under(t, node) = Under(t, l) \cup Under(t, r)
  BY BelowChildren DEF Under
<1>4. Under(t, l) \cap Under(t, r) = {}
  <2> SUFFICES ASSUME NEW a \in Under(t, l), a \in Under(t, r) PROVE FALSE
    OBVIOUS
  <2>1. PICK x \in Below(t, l), y \in Below(t, r) : IsPrefix(x, Walk(a)) /\ IsPrefix(y, Walk(a))
    BY DEF Under
  <2>2. x \in DOMAIN t /\ y \in DOMAIN t /\ x \in Seq(Bits) /\ y \in Seq(Bits) /\ Walk(a) \in Seq(Bits)
    BY WalkType DEF Below, Shape, Under
  <2>3. x = y
    BY <2>1, <2>2, PrefixesCompare DEF Shape
  <2> QED BY <2>3, BelowChildren
<1>5. /\ \A n \in 0 .. cl - 1 : w[l][n] \in Under(t, l)
      /\ \A n, m \in 0 .. cl - 1 : w[l][n] = w[l][m] => n = m
      /\ \A a \in Under(t, l) : \E n \in 0 .. cl - 1 : w[l][n] = a
  BY DEF Numbers
<1>6. /\ \A n \in 0 .. cr - 1 : w[r][n] \in Under(t, r)
      /\ \A n, m \in 0 .. cr - 1 : w[r][n] = w[r][m] => n = m
      /\ \A a \in Under(t, r) : \E n \in 0 .. cr - 1 : w[r][n] = a
  BY DEF Numbers
<1> HIDE DEF l, r, cl, cr, c
<1>7. ASSUME NEW n \in 0 .. c - 1
      PROVE  \/ n \in 0 .. cl - 1 /\ w[node][n] = w[l][n] /\ w[node][n] \in Under(t, l)
             \/ n - cl \in 0 .. cr - 1 /\ w[node][n] = w[r][n - cl] /\ w[node][n] \in Under(t, r)
  <2>1. CASE n < cl
    <3>1. n \in 0 .. cl - 1 /\ n \in Nat
      BY <1>1, <2>1
    <3> QED BY <1>2, <1>5, <2>1, <3>1
  <2>2. CASE ~(n < cl)
    <3>1. n - cl \in 0 .. cr - 1 /\ n \in Nat
      BY <1>1, <2>2
    <3> QED BY <1>2, <1>6, <2>2, <3>1
  <2> QED BY <2>1, <2>2
<1>8. ASSUME NEW n \in 0 .. c - 1, NEW m \in 0 .. c - 1, w[node][n] = w[node][m] PROVE n = m
  <2>1. CASE n \in 0 .. cl - 1 /\ w[node][n] = w[l][n] /\ w[node][n] \in Under(t, l)
    <3>1. m \in 0 .. cl - 1 /\ w[node][m] = w[l][m]
      BY <1>4, <1>7, <1>8, <2>1
    <3> QED BY <1>5, <1>8, <2>1, <3>1
  <2>2. CASE n - cl \in 0 .. cr - 1 /\ w[node][n] = w[r][n - cl] /\ w[node][n] \in Under(t, r)
    <3>1. m - cl \in 0 .. cr - 1 /\ w[node][m] = w[r][m - cl]
      BY <1>4, <1>7, <1>8, <2>2
    <3>2. n - cl = m - cl
      BY <1>6, <1>8, <2>2, <3>1
    <3> QED BY <1>1, <3>2
  <2> QED BY <1>7, <2>1, <2>2
<1>9. ASSUME NEW a \in Under(t, node) PROVE \E n \in 0 .. c - 1 : w[node][n] = a
  <2>1. CASE a \in Under(t, l)
    <3>1. PICK n \in 0 .. cl - 1 : w[l][n] = a
      BY <1>5, <2>1
    <3>2. n \in 0 .. c - 1 /\ n \in Nat /\ n < cl
      BY <1>1
    <3> QED BY <1>2, <3>1, <3>2
  <2>2. CASE a \in Under(t, r)
    <3>1. PICK n \in 0 .. cr - 1 : w[r][n] = a
      BY <1>6, <2>2
    <3>2. n + cl \in 0 .. c - 1 /\ n + cl \in Nat /\ ~(n + cl < cl) /\ (n + cl) - cl = n
      BY <1>1
    <3>3. w[node][n + cl] = a
      BY <1>2, <3>1, <3>2
    <3> QED BY <3>2, <3>3
  <2> QED BY <1>3, <2>1, <2>2
<1>10. \A n \in 0 .. c - 1 : w[node][n] \in Under(t, node)
  BY <1>3, <1>7
<1> QED BY <1>8, <1>9, <1>10 DEF Numbers, c

(* At every node, from the longest to the root. *)
LEMMA NumbersAll ==
  ASSUME NEW t, Shape(t), NEW w, WalkOf(w, t)
  PROVE  Numbers(w, t, <<>>)
<1> DEFINE K == {k \in Nat : \A node \in Seq(Bits) : Len(node) + k > PlainLength => Numbers(w, t, node)}
<1>0. PlainLength \in Nat
  BY TreeAssumption
<1>1. 0 \in K
  <2>1. ASSUME NEW node \in Seq(Bits), Len(node) + 0 > PlainLength PROVE Numbers(w, t, node)
    <3>1. Len(node) > PlainLength
      BY <1>0, <2>1
    <3>2. Count(t, node) = 0
      BY <3>1, Counts
    <3>3. Below(t, node) = {}
      <4>1. \A x \in DOMAIN t : x \in Seq(Bits) /\ Len(x) \in Nat /\ Len(x) <= PlainLength
        BY DEF Shape
      <4>2. \A x \in DOMAIN t : ~IsPrefix(node, x)
        BY <1>0, <3>1, <4>1, PrefixElements
      <4> QED BY <4>2 DEF Below
    <3>4. Under(t, node) = {}
      BY <3>3 DEF Under
    <3> QED BY <3>2, <3>4 DEF Numbers
  <2> QED BY <2>1
<1>2. ASSUME NEW k \in K PROVE k + 1 \in K
  <2>1. k \in Nat
    OBVIOUS
  <2>2. ASSUME NEW node \in Seq(Bits), Len(node) + (k + 1) > PlainLength PROVE Numbers(w, t, node)
    <3>1. CASE node \in DOMAIN t
      BY <3>1, NumbersLeaf
    <3>2. CASE node \notin DOMAIN t
      <4>1. ASSUME NEW b \in Bits PROVE Numbers(w, t, Append(node, b))
        <5>1. Append(node, b) \in Seq(Bits) /\ Len(Append(node, b)) + k > PlainLength
          BY <1>0, <2>1, <2>2, ChildPrefix
        <5> QED BY <5>1
      <4> QED BY <3>2, <4>1, NumbersNode DEF Bits
    <3> QED BY <3>1, <3>2
  <2> QED BY <2>1, <2>2
<1>3. K = Nat
  <2>1. K \subseteq Nat
    OBVIOUS
  <2> HIDE DEF K
  <2> QED BY <1>1, <1>2, <2>1, InductiveSet
<1>4. <<>> \in Seq(Bits) /\ Len(<<>>) + (PlainLength + 1) > PlainLength
  BY <1>0
<1>5. PlainLength + 1 \in K
  <2> HIDE DEF K
  <2> QED BY <1>0, <1>3
<1> QED BY <1>4, <1>5

-----------------------------------------------------------------------------
(* The radix array after the first n blocks. *)
OneValue(t, i) == \E l \in LeavesOn(t, Path((i - 1) * BlockSize, RADIX_LENGTH)) : t[l] = ADDR_ALLOWED
Filled(g, t, i) ==
  IF i = 0 THEN <<>> ELSE IF OneValue(t, i) THEN Append(g[i - 1], (i - 1) * BlockSize) ELSE g[i - 1]
Fills(g, t, n) == g = [i \in 0 .. n |-> Filled(g, t, i)]

(* Its recursive function exists. *)
LEMMA FillsExist ==
  ASSUME NEW t
  PROVE  \A n \in Nat : \E g : Fills(g, t, n)
<1> DEFINE K == {n \in Nat : \E g : Fills(g, t, n)}
<1>1. 0 \in K
  <2> DEFINE g == [k \in 0 .. 0 |-> <<>>]
  <2>1. g = [k \in 0 .. 0 |-> Filled(g, t, k)]
    <3>1. \A k \in 0 .. 0 : k = 0
      OBVIOUS
    <3> QED BY <3>1 DEF Filled
  <2> HIDE DEF g
  <2> QED BY <2>1 DEF Fills
<1>2. ASSUME NEW n \in K PROVE n + 1 \in K
  <2>1. PICK g : Fills(g, t, n)
    OBVIOUS
  <2>2. n \in Nat
    OBVIOUS
  <2> DEFINE h == [k \in 0 .. n + 1 |-> IF k = n + 1 THEN Filled(g, t, k) ELSE g[k]]
  <2>3. ASSUME NEW k \in 0 .. n + 1
        PROVE  h[k] = Filled(h, t, k)
    <3>1. h[k] = Filled(g, t, k)
      <4>1. CASE k = n + 1
        BY <4>1
      <4>2. CASE k # n + 1
        <5>1. k \in 0 .. n
          BY <2>2, <4>2
        <5>2. h[k] = g[k]
          BY <4>2
        <5> HIDE DEF h
        <5> QED BY <2>1, <5>1, <5>2 DEF Fills
      <4> QED BY <4>1, <4>2
    <3>2. k # 0 => h[k - 1] = g[k - 1]
      <4>1. k # 0 => k - 1 \in 0 .. n + 1 /\ k - 1 # n + 1
        BY <2>2
      <4> QED BY <4>1
    <3> HIDE DEF h
    <3> QED BY <3>1, <3>2 DEF Filled
  <2>4. h = [k \in 0 .. n + 1 |-> h[k]]
    OBVIOUS
  <2> HIDE DEF h
  <2>5. Fills(h, t, n + 1)
    BY <2>3, <2>4 DEF Fills
  <2> QED BY <2>2, <2>5
<1>3. K = Nat
  <2>1. K \subseteq Nat
    OBVIOUS
  <2> HIDE DEF K
  <2> QED BY <1>1, <1>2, <2>1, InductiveSet
<1> QED BY <1>3

(* The array has every block of one value, each once, and nothing else.     *)
LEMMA RadixBlocks ==
  ASSUME NEW t
  PROVE  LET r == Radix(t)
             N == 2 ^ RADIX_LENGTH
         IN  /\ r \in Seq(Nat)
             /\ \A j \in 1 .. Len(r) : \E k \in 1 .. N : OneValue(t, k) /\ r[j] = (k - 1) * BlockSize
             /\ \A k \in 1 .. N : OneValue(t, k) => \E j \in 1 .. Len(r) : r[j] = (k - 1) * BlockSize
             /\ \A i, j \in 1 .. Len(r) : r[i] = r[j] => i = j
<1> DEFINE N == 2 ^ RADIX_LENGTH
           B == BlockSize
           Good(r, n) ==
             /\ r \in Seq(Nat)
             /\ \A j \in 1 .. Len(r) : \E k \in 1 .. n : OneValue(t, k) /\ r[j] = (k - 1) * B
             /\ \A k \in 1 .. n : OneValue(t, k) => \E j \in 1 .. Len(r) : r[j] = (k - 1) * B
             /\ \A i, j \in 1 .. Len(r) : r[i] = r[j] => i = j
           g == CHOOSE g : Fills(g, t, N)
           K == {n \in Nat : n <= N => Good(g[n], n)}
<1>0. N \in Nat /\ B \in Nat \ {0}
  BY TreeAssumption, PowersOfTwo DEF BlockSize
<1>1. Fills(g, t, N)
  <2> HIDE DEF N
  <2> QED BY <1>0, FillsExist
<1>2. Radix(t) = g[N]
  BY DEF Radix, Fills, Filled, OneValue
<1> HIDE DEF g, N, B
<1>3. \A n \in 0 .. N : g[n] = Filled(g, t, n)
  BY <1>1 DEF Fills
<1>4. 0 \in K
  <2>1. g[0] = <<>>
    BY <1>0, <1>3 DEF Filled
  <2>2. <<>> \in Seq(Nat) /\ Len(<<>>) = 0 /\ 1 .. 0 = {}
    OBVIOUS
  <2>3. Good(g[0], 0)
    BY <2>1, <2>2
  <2> HIDE DEF Good
  <2> QED BY <2>3
<1>5. ASSUME NEW n \in K PROVE n + 1 \in K
  <2>1. n \in Nat
    OBVIOUS
  <2>2. SUFFICES ASSUME n + 1 <= N PROVE Good(g[n + 1], n + 1)
    <3> HIDE DEF Good
    <3> QED BY <2>1
  <2> DEFINE s == g[n]
  <2>3. Good(s, n)
    BY <1>0, <2>1, <2>2
  <2>4. g[n + 1] = IF OneValue(t, n + 1) THEN Append(s, n * B) ELSE s
    <3>1. n + 1 \in 0 .. N /\ n + 1 # 0 /\ (n + 1) - 1 = n
      BY <1>0, <2>1, <2>2
    <3> HIDE DEF K
    <3> QED BY <1>3, <3>1 DEF Filled, B
  <2> HIDE DEF s, K
  <2>5. 1 .. n + 1 = (1 .. n) \cup {n + 1} /\ (n + 1) - 1 = n
    BY <2>1
  <2>6. CASE ~OneValue(t, n + 1)
    BY <2>3, <2>4, <2>5, <2>6
  <2>7. CASE OneValue(t, n + 1)
    <3> DEFINE r == Append(s, n * B)
    <3>1. n * B \in Nat
      BY <1>0, <2>1
    <3>2. /\ s \in Seq(Nat) /\ r \in Seq(Nat) /\ Len(r) = Len(s) + 1 /\ Len(s) \in Nat
          /\ r[Len(s) + 1] = n * B /\ \A j \in 1 .. Len(s) : r[j] = s[j]
      BY <2>3, <3>1
    <3>3. 1 .. Len(s) + 1 = (1 .. Len(s)) \cup {Len(s) + 1}
      BY <3>2
    <3> HIDE DEF r
    <3>4. \A j \in 1 .. Len(s) : s[j] # n * B
      <4> SUFFICES ASSUME NEW j \in 1 .. Len(s) PROVE s[j] # n * B
        OBVIOUS
      <4>1. PICK k \in 1 .. n : s[j] = (k - 1) * B
        BY <2>3
      <4>2. (k - 1) * B # n * B
        BY <1>0, <2>1
      <4> QED BY <4>1, <4>2
    <3>5. ASSUME NEW j \in 1 .. Len(r)
          PROVE  \E k \in 1 .. n + 1 : OneValue(t, k) /\ r[j] = (k - 1) * B
      <4>1. CASE j \in 1 .. Len(s)
        <5>1. PICK k \in 1 .. n : OneValue(t, k) /\ s[j] = (k - 1) * B
          BY <2>3, <4>1
        <5> QED BY <2>5, <3>2, <4>1, <5>1
      <4>2. CASE j = Len(s) + 1
        BY <2>5, <2>7, <3>2, <4>2
      <4> QED BY <3>2, <3>3, <4>1, <4>2
    <3>6. ASSUME NEW k \in 1 .. n + 1, OneValue(t, k)
          PROVE  \E j \in 1 .. Len(r) : r[j] = (k - 1) * B
      BY <2>3, <2>5, <3>2, <3>3, <3>6
    <3>7. ASSUME NEW i \in 1 .. Len(r), NEW j \in 1 .. Len(r), r[i] = r[j] PROVE i = j
      <4>1. i \in 1 .. Len(s) \/ i = Len(s) + 1
        BY <3>2, <3>3
      <4>2. j \in 1 .. Len(s) \/ j = Len(s) + 1
        BY <3>2, <3>3
      <4>3. \A x, y \in 1 .. Len(s) : s[x] = s[y] => x = y
        BY <2>3
      <4> QED BY <3>2, <3>4, <3>7, <4>1, <4>2, <4>3
    <3>8. g[n + 1] = r
      BY <2>4, <2>7 DEF r
    <3> QED BY <3>2, <3>5, <3>6, <3>7, <3>8
  <2> QED BY <2>6, <2>7
<1>6. K = Nat
  <2>1. K \subseteq Nat
    OBVIOUS
  <2> HIDE DEF K
  <2> QED BY <1>4, <1>5, <2>1, InductiveSet
<1>7. Good(g[N], N)
  <2> HIDE DEF Good
  <2> QED BY <1>0, <1>6
<1> QED BY <1>2, <1>7 DEF N, B

-----------------------------------------------------------------------------
(* A walk beyond the length of the radix goes on from the path of its block. *)
LEMMA BlockPath ==
  ASSUME NEW a \in Address
  PROVE  /\ a \div BlockSize \in 0 .. 2 ^ RADIX_LENGTH - 1
         /\ LET path == Path((a \div BlockSize) * BlockSize, RADIX_LENGTH)
            IN  \A l \in Seq(Bits) :
                  IsPrefix(l, path) <=> Len(l) <= RADIX_LENGTH /\ IsPrefix(l, Walk(a))
<1> DEFINE B == BlockSize
           R == RADIX_LENGTH
           b == a \div B
<1>1. /\ Width \in Nat /\ R \in Nat /\ R <= Width /\ PlainLength \in Nat /\ Width < PlainLength
      /\ Width - R \in Nat
  BY TreeAssumption
<1>2. B \in Nat \ {0} /\ 2 ^ R \in Nat \ {0} /\ 2 ^ Width = (2 ^ R) * B
  <2>1. R + (Width - R) = Width
    BY <1>1
  <2>2. 2 ^ Width = (2 ^ R) * (2 ^ (Width - R))
    BY <1>1, <2>1, PowersOfTwo
  <2> QED BY <1>1, <2>2, PowersOfTwo DEF BlockSize
<1>3. a \in Nat /\ a < (2 ^ R) * B
  <2>1. (2 ^ R) * B \in Nat
    BY <1>2
  <2> QED BY <1>2, <2>1 DEF Address
<1> HIDE DEF B, b, R
<1>4. PICK c \in 0 .. B - 1 : a = B * b + c /\ b \in Nat
  <2>1. a \div B \in Nat /\ a % B \in 0 .. B - 1 /\ a = B * (a \div B) + (a % B)
    BY <1>2, <1>3, Division
  <2> QED BY <2>1 DEF b
<1>5. b \in 0 .. 2 ^ R - 1
  <2> DEFINE N == 2 ^ R
  <2>1. N \in Nat /\ a < N * B
    BY <1>2, <1>3
  <2> HIDE DEF N
  <2>2. ASSUME b >= N PROVE FALSE
    <3>1. B * N <= B * b
      BY <1>2, <1>4, <2>1, <2>2, ProductMonotone
    <3>2. B * N = N * B /\ B * b <= a
      BY <1>2, <1>4, <2>1
    <3> QED BY <1>2, <1>3, <1>4, <2>1, <3>1, <3>2
  <2> QED BY <1>4, <2>1, <2>2 DEF N
<1> DEFINE path == Path(b * B, R)
<1>6. ASSUME NEW j \in 1 .. R PROVE path[j] = Walk(a)[j]
  <2>1. j \in 1 .. PlainLength /\ j <= Width /\ R - j \in Nat /\ (Width - R) + (R - j) = Width - j
    BY <1>1
  <2> DEFINE x == 2 ^ (R - j)
  <2>2. x \in Nat \ {0} /\ 2 ^ (Width - j) = B * x
    <3>1. 2 ^ ((Width - R) + (R - j)) = (2 ^ (Width - R)) * (2 ^ (R - j))
      BY <1>1, <2>1, PowersOfTwo
    <3> QED BY <2>1, <3>1, PowersOfTwo DEF B, BlockSize, R
  <2> HIDE DEF x
  <2>3. b * B \in Nat /\ (b * B) \div B = b
    <3>1. b * B + 0 = b * B /\ 0 \in 0 .. B - 1 /\ b * B \in Nat
      BY <1>2, <1>4
    <3> QED BY <1>2, <1>4, <3>1, Quotient
  <2> DEFINE k == 2 ^ (Width - j)
  <2>4. (b * B) \div k = b \div x
    BY <1>2, <2>2, <2>3, DivideTwice
  <2>5. a \div k = b \div x
    <3>1. PICK y \in Nat, z \in 0 .. x - 1 : b = x * y + z /\ b \div x = y
      <4>1. b \div x \in Nat /\ b % x \in 0 .. x - 1 /\ b = x * (b \div x) + (b % x)
        BY <1>4, <2>2, Division
      <4> QED BY <4>1
    <3> DEFINE rest == B * z + c
    <3>2. rest \in 0 .. k - 1 /\ a = y * k + rest
      <4>1. B * z <= B * (x - 1)
        <5>1. z \in Nat /\ x - 1 \in Nat /\ z <= x - 1
          BY <2>2
        <5> QED BY <1>2, <5>1, ProductMonotone
      <4>2. B * (x - 1) = k - B /\ B * z \in Nat /\ c \in Nat /\ c <= B - 1 /\ k \in Nat
        BY <1>2, <2>2
      <4>3. B * (x * y + z) = y * (B * x) + B * z
        BY <1>2, <2>2
      <4>4. y * (B * x) \in Nat
        BY <1>2, <2>2
      <4>5. k = B * x
        BY <2>2
      <4> DEFINE yk == y * k
                 bz == B * z
                 bb == B * b
      <4> HIDE DEF k
      <4>6. bb = yk + bz
        BY <3>1, <4>3, <4>5
      <4>7. yk \in Nat
        BY <4>4, <4>5
      <4>8. a = bb + c
        BY <1>4
      <4>9. bz \in Nat /\ bz <= k - B /\ c \in Nat /\ c <= B - 1 /\ k \in Nat
        BY <4>1, <4>2
      <4> HIDE DEF yk, bz, bb
      <4>10. bz + c \in 0 .. k - 1 /\ a = yk + (bz + c)
        BY <1>2, <4>6, <4>7, <4>8, <4>9
      <4> QED BY <4>10 DEF yk, bz
    <3>3. k \in Nat \ {0}
      BY <1>2, <2>2
    <3> HIDE DEF k, rest
    <3>4. a \div k = y
      BY <3>2, <3>3, Quotient
    <3> QED BY <3>1, <3>4
  <2>6. path[j] = IF ((b * B) \div (2 ^ (Width - j))) % 2 = 1 THEN 1 ELSE 0
    BY <2>1 DEF Path
  <2>7. Walk(a)[j] = IF (a \div (2 ^ (Width - j))) % 2 = 1 THEN 1 ELSE 0
    BY <2>1 DEF Path, Walk
  <2> HIDE DEF path
  <2> QED BY <2>4, <2>5, <2>6, <2>7
<1>7. path \in Seq(Bits) /\ Len(path) = R /\ Walk(a) \in Seq(Bits) /\ Len(Walk(a)) = PlainLength
  BY <1>1, PathType, WalkType
<1> HIDE DEF path
<1>8. ASSUME NEW l \in Seq(Bits)
      PROVE  IsPrefix(l, path) <=> Len(l) <= R /\ IsPrefix(l, Walk(a))
  <2>1. IsPrefix(l, path) <=> Len(l) <= R /\ \A i \in 1 .. Len(l) : l[i] = path[i]
    BY <1>7, PrefixElements
  <2>2. IsPrefix(l, Walk(a)) <=> Len(l) <= PlainLength /\ \A i \in 1 .. Len(l) : l[i] = Walk(a)[i]
    BY <1>7, PrefixElements
  <2>3. Len(l) <= R => Len(l) <= PlainLength /\ \A i \in 1 .. Len(l) : i \in 1 .. R
    BY <1>1
  <2> QED BY <1>6, <2>1, <2>2, <2>3
<1> QED BY <1>5, <1>8 DEF path, b, B, R
(* The addresses the radix array stands for. *)
Big(t) ==
  { a \in Address : \E l \in LeavesOn(t, Walk(a)) : t[l] = ADDR_ALLOWED /\ Len(l) <= RADIX_LENGTH }

(* They are those in the blocks of one value.                               *)
LEMMA BigBlocks ==
  ASSUME NEW t, Shape(t), NEW a \in Address
  PROVE  /\ a \div BlockSize \in 0 .. 2 ^ RADIX_LENGTH - 1
         /\ a \in Big(t) <=> OneValue(t, (a \div BlockSize) + 1)
<1> DEFINE path == Path((a \div BlockSize) * BlockSize, RADIX_LENGTH)
           b == a \div BlockSize
<1>1. b \in 0 .. 2 ^ RADIX_LENGTH - 1
  BY BlockPath
<1>2. \A l \in Seq(Bits) : IsPrefix(l, path) <=> Len(l) <= RADIX_LENGTH /\ IsPrefix(l, Walk(a))
  BY BlockPath
<1>3. 2 ^ RADIX_LENGTH \in Nat
  BY TreeAssumption, PowersOfTwo
<1>4. path = Path(((b + 1) - 1) * BlockSize, RADIX_LENGTH)
  <2> HIDE DEF b
  <2>1. (b + 1) - 1 = b
    BY <1>1, <1>3
  <2> QED BY <2>1 DEF b
<1>5. OneValue(t, b + 1) <=> \E l \in LeavesOn(t, path) : t[l] = ADDR_ALLOWED
  BY <1>4 DEF OneValue
<1> HIDE DEF path, b
<1>6. DOMAIN t \subseteq Seq(Bits)
  BY DEF Shape
<1>7. a \in Big(t) <=> OneValue(t, b + 1)
  BY <1>2, <1>5, <1>6 DEF Big, LeavesOn
<1> QED BY <1>1, <1>7 DEF b

(* The array numbers them, each once.                                       *)
LEMMA RadixNumbers ==
  ASSUME NEW t, Shape(t)
  PROVE  LET r == Radix(t)
             n == Len(r) * BlockSize
             at(i) == r[(i \div BlockSize) + 1] + (i % BlockSize)
         IN  /\ r \in Seq(Nat) /\ n \in Nat
             /\ \A i \in Nat : i < n <=> i \div BlockSize < Len(r)
             /\ \A i \in 0 .. n - 1 : at(i) \in Big(t)
             /\ \A i, j \in 0 .. n - 1 : at(i) = at(j) => i = j
             /\ \A a \in Big(t) : \E i \in 0 .. n - 1 : at(i) = a
<1> DEFINE r == Radix(t)
           B == BlockSize
           n == Len(r) * B
           N == 2 ^ RADIX_LENGTH
           at(i) == r[(i \div B) + 1] + (i % B)
<1>1. /\ r \in Seq(Nat) /\ Len(r) \in Nat
      /\ \A j \in 1 .. Len(r) : \E k \in 1 .. N : OneValue(t, k) /\ r[j] = (k - 1) * B
      /\ \A k \in 1 .. N : OneValue(t, k) => \E j \in 1 .. Len(r) : r[j] = (k - 1) * B
      /\ \A i, j \in 1 .. Len(r) : r[i] = r[j] => i = j
  BY RadixBlocks
<1>2. B \in Nat \ {0} /\ N \in Nat \ {0} /\ Address = 0 .. N * B - 1
  <2>1. /\ Width \in Nat /\ RADIX_LENGTH \in Nat /\ Width - RADIX_LENGTH \in Nat
        /\ RADIX_LENGTH + (Width - RADIX_LENGTH) = Width
    BY TreeAssumption
  <2>2. 2 ^ Width = (2 ^ RADIX_LENGTH) * (2 ^ (Width - RADIX_LENGTH))
    BY <2>1, PowersOfTwo
  <2> QED BY <2>1, <2>2, PowersOfTwo DEF BlockSize, Address
<1> HIDE DEF r, N
<1>3. \A a \in Address : a \div B \in 0 .. N - 1 /\ (a \in Big(t) <=> OneValue(t, (a \div B) + 1))
  BY BigBlocks DEF N
<1> HIDE DEF B
<1>4. n \in Nat
  BY <1>1, <1>2
<1>5. ASSUME NEW x \in Nat, NEW y \in 0 .. B - 1
      PROVE  x * B + y < n <=> x < Len(r)
  <2> DEFINE len == Len(r)
  <2>0. len \in Nat /\ B \in Nat \ {0} /\ x \in Nat /\ y \in 0 .. B - 1 /\ n = len * B
    BY <1>1, <1>2
  <2> HIDE DEF len, n, r
  <2>1. ASSUME x < len PROVE x * B + y < n
    <3>1. B * (x + 1) <= B * len
      BY <2>0, <2>1, ProductMonotone
    <3>2. B * (x + 1) = x * B + B /\ B * len = n /\ x * B \in Nat
      BY <2>0
    <3> QED BY <1>4, <2>0, <3>1, <3>2
  <2>2. ASSUME ~(x < len) PROVE ~(x * B + y < n)
    <3>1. B * len <= B * x
      BY <2>0, <2>2, ProductMonotone
    <3>2. B * x = x * B /\ B * len = n /\ x * B \in Nat
      BY <2>0
    <3> QED BY <1>4, <2>0, <3>1, <3>2
  <2> QED BY <2>1, <2>2 DEF len
<1>6. ASSUME NEW i \in Nat PROVE i < n <=> i \div B < Len(r)
  <2>1. PICK x \in Nat, y \in 0 .. B - 1 : i = x * B + y /\ i \div B = x
    BY <1>2, Parted
  <2> HIDE DEF n
  <2> QED BY <1>5, <2>1

(* Where an index looks: in block k, at y.                                  *)
<1>7. ASSUME NEW i \in 0 .. n - 1
      PROVE  \E x \in Nat, y \in 0 .. B - 1, k \in 1 .. N :
                /\ i = x * B + y /\ x + 1 \in 1 .. Len(r)
                /\ r[x + 1] = (k - 1) * B /\ OneValue(t, k) /\ at(i) = (k - 1) * B + y
  <2>1. i \in Nat /\ i < n
    BY <1>4
  <2>2. PICK x \in Nat, y \in 0 .. B - 1 : i = x * B + y /\ i \div B = x /\ i % B = y
    BY <1>2, <2>1, Parted
  <2>3. x + 1 \in 1 .. Len(r)
    <3> HIDE DEF n
    <3> QED BY <1>1, <1>5, <2>1, <2>2
  <2>4. PICK k \in 1 .. N : OneValue(t, k) /\ r[x + 1] = (k - 1) * B
    BY <1>1, <2>3
  <2>5. at(i) = (k - 1) * B + y
    BY <2>2, <2>4
  <2> HIDE DEF at, n
  <2> QED BY <2>2, <2>3, <2>4, <2>5
<1>8. ASSUME NEW k \in 1 .. N, NEW y \in 0 .. B - 1
      PROVE  LET a == (k - 1) * B + y IN a \in Address /\ a \div B = k - 1 /\ a % B = y
  <2> DEFINE a == (k - 1) * B + y
  <2>1. k - 1 \in Nat /\ k <= N
    BY <1>2
  <2>2. a \div B = k - 1 /\ a % B = y
    BY <1>2, <2>1, Quotient
  <2>3. B * k <= B * N
    BY <1>2, ProductMonotone
  <2>4. B * k = (k - 1) * B + B /\ B * N = N * B /\ (k - 1) * B \in Nat
    BY <1>2
  <2>5. a \in 0 .. N * B - 1
    BY <1>2, <2>3, <2>4
  <2> QED BY <1>2, <2>2, <2>5
<1>9. ASSUME NEW i \in 0 .. n - 1 PROVE at(i) \in Big(t)
  <2> HIDE DEF at, n
  <2>1. PICK y \in 0 .. B - 1, k \in 1 .. N : OneValue(t, k) /\ at(i) = (k - 1) * B + y
    BY <1>7
  <2> DEFINE a == (k - 1) * B + y
  <2>2. a \in Address /\ a \div B = k - 1
    BY <1>8
  <2>3. (k - 1) + 1 = k
    BY <1>2
  <2> HIDE DEF a
  <2>4. a \in Big(t)
    BY <1>3, <2>1, <2>2, <2>3
  <2> QED BY <2>1, <2>4 DEF a
<1>10. ASSUME NEW i \in 0 .. n - 1, NEW j \in 0 .. n - 1, at(i) = at(j) PROVE i = j
  <2> HIDE DEF at, n
  <2>1. PICK x \in Nat, y \in 0 .. B - 1, k \in 1 .. N :
           /\ i = x * B + y /\ x + 1 \in 1 .. Len(r)
           /\ r[x + 1] = (k - 1) * B /\ at(i) = (k - 1) * B + y
    BY <1>7
  <2>2. PICK u \in Nat, v \in 0 .. B - 1, m \in 1 .. N :
           /\ j = u * B + v /\ u + 1 \in 1 .. Len(r)
           /\ r[u + 1] = (m - 1) * B /\ at(j) = (m - 1) * B + v
    BY <1>7
  <2>3. k - 1 = m - 1 /\ y = v
    BY <1>8, <1>10, <2>1, <2>2
  <2>4. r[x + 1] = r[u + 1]
    BY <2>1, <2>2, <2>3
  <2>5. x + 1 = u + 1
    BY <1>1, <2>1, <2>2, <2>4
  <2>6. x = u
    BY <2>5
  <2> QED BY <2>1, <2>2, <2>3, <2>6
<1>11. ASSUME NEW a \in Big(t) PROVE \E i \in 0 .. n - 1 : at(i) = a
  <2>1. a \in Address /\ a \in Nat
    BY <1>2 DEF Big
  <2>2. PICK b \in Nat, y \in 0 .. B - 1 : a = b * B + y /\ a \div B = b
    BY <1>2, <2>1, Parted
  <2>3. b + 1 \in 1 .. N /\ OneValue(t, b + 1) /\ (b + 1) - 1 = b
    BY <1>2, <1>3, <2>1, <2>2
  <2>4. PICK j \in 1 .. Len(r) : r[j] = b * B
    BY <1>1, <2>3
  <2> DEFINE i == (j - 1) * B + y
  <2>5. j - 1 \in Nat /\ (j - 1) + 1 = j /\ j - 1 < Len(r)
    BY <1>1
  <2>6. i \div B = j - 1 /\ i % B = y
    BY <1>2, <2>5, Quotient
  <2>7. i < n /\ i \in Nat
    <3>1. i < n
      <4> HIDE DEF n
      <4> QED BY <1>5, <2>5
    <3>2. i \in Nat
      BY <1>2, <2>5
    <3> QED BY <3>1, <3>2
  <2>8. at(i) = a
    BY <2>2, <2>4, <2>5, <2>6
  <2> HIDE DEF i, n, at
  <2>9. i \in 0 .. n - 1
    BY <1>4, <2>7
  <2> QED BY <2>8, <2>9
<1> HIDE DEF n
<1>12. /\ \A i \in Nat : i < n <=> i \div B < Len(r)
       /\ \A i \in 0 .. n - 1 : at(i) \in Big(t)
       /\ \A i, j \in 0 .. n - 1 : at(i) = at(j) => i = j
       /\ \A a \in Big(t) : \E i \in 0 .. n - 1 : at(i) = a
  BY <1>6, <1>9, <1>10, <1>11
<1> QED BY <1>1, <1>4, <1>12 DEF r, B, n

-----------------------------------------------------------------------------
(* The leaf on the walk of an address. *)
LEMMA OneLeaf ==
  ASSUME NEW t, Shape(t), NEW a \in Address
  PROVE  \E l \in DOMAIN t : LeavesOn(t, Walk(a)) = {l}
<1>1. PICK l \in DOMAIN t : IsPrefix(l, Walk(a))
  BY DEF Shape
<1>2. Walk(a) \in Seq(Bits) /\ DOMAIN t \subseteq Seq(Bits)
  BY WalkType DEF Shape
<1>3. \A m \in LeavesOn(t, Walk(a)) : m = l
  <2> SUFFICES ASSUME NEW m \in LeavesOn(t, Walk(a)) PROVE m = l
    OBVIOUS
  <2>1. m \in DOMAIN t /\ IsPrefix(m, Walk(a))
    BY DEF LeavesOn
  <2>2. IsPrefix(m, l) \/ IsPrefix(l, m)
    BY <1>1, <1>2, <2>1, PrefixesCompare
  <2> QED BY <1>1, <2>1, <2>2 DEF Shape
<1>4. l \in LeavesOn(t, Walk(a))
  BY <1>1 DEF LeavesOn
<1> QED BY <1>3, <1>4

(* The addresses in the array or under the root, and in one of them only.   *)
Allowed(t) == { a \in Address : \E l \in LeavesOn(t, Walk(a)) : t[l] = ADDR_ALLOWED /\ Len(l) <= Width }

LEMMA Halves ==
  ASSUME NEW t, Shape(t)
  PROVE  Allowed(t) = Big(t) \cup Under(t, <<>>) /\ Big(t) \cap Under(t, <<>>) = {}
<1>1. ASSUME NEW a \in Address
      PROVE  /\ a \in Allowed(t) <=> a \in Big(t) \/ a \in Under(t, <<>>)
             /\ ~(a \in Big(t) /\ a \in Under(t, <<>>))
  <2>1. PICK l \in DOMAIN t : LeavesOn(t, Walk(a)) = {l}
    BY OneLeaf
  <2>2. /\ l \in Seq(Bits) /\ Len(l) \in Nat /\ RADIX_LENGTH \in Nat /\ Width \in Nat
        /\ RADIX_LENGTH <= Width
    BY TreeAssumption DEF Shape
  <2>3. InRadix(l) <=> Len(l) <= RADIX_LENGTH
    BY <2>2, Sizes
  <2>4. a \in Allowed(t) <=> t[l] = ADDR_ALLOWED /\ Len(l) <= Width
    BY <2>1 DEF Allowed
  <2>5. a \in Big(t) <=> t[l] = ADDR_ALLOWED /\ Len(l) <= RADIX_LENGTH
    BY <2>1 DEF Big
  <2>6. a \in Under(t, <<>>) <=> t[l] = ADDR_ALLOWED /\ ~InRadix(l) /\ Len(l) <= Width
    <3>1. \A m \in DOMAIN t : IsPrefix(<<>>, m)
      <4> SUFFICES ASSUME NEW m \in DOMAIN t PROVE IsPrefix(<<>>, m)
        OBVIOUS
      <4>1. m \in Seq(Bits) /\ Len(m) \in Nat /\ <<>> \in Seq(Bits) /\ Len(<<>>) = 0
        BY DEF Shape
      <4>2. Len(<<>>) <= Len(m) /\ \A i \in 1 .. Len(<<>>) : <<>>[i] = m[i]
        BY <4>1
      <4> QED BY <4>1, <4>2, PrefixElements
    <3>2. \A m \in DOMAIN t : IsPrefix(m, Walk(a)) <=> m = l
      BY <2>1 DEF LeavesOn
    <3> QED BY <3>1, <3>2 DEF Under, Below
  <2> QED BY <2>2, <2>3, <2>4, <2>5, <2>6
<1> QED BY <1>1 DEF Allowed, Big, Under

(* The indices below the count number the allowed addresses, each once.     *)
LEMMA IndexNumbers ==
  ASSUME NEW t, Shape(t)
  PROVE  LET r == Radix(t)
             c == xm_iptree_count_ips(t, r)
             at(i) == xm_iptree_lookup_index(t, r, i)
         IN  /\ c \in Nat
             /\ \A i \in 0 .. c - 1 : at(i) \in Allowed(t)
             /\ \A i, j \in 0 .. c - 1 : at(i) = at(j) => i = j
             /\ \A a \in Allowed(t) : \E i \in 0 .. c - 1 : at(i) = a
<1> DEFINE r == Radix(t)
           n == Len(r) * BlockSize
           k == Count(t, <<>>)
           c == xm_iptree_count_ips(t, r)
           big(i) == r[(i \div BlockSize) + 1] + (i % BlockSize)
           at(i) == xm_iptree_lookup_index(t, r, i)
<1>1. /\ n \in Nat
      /\ \A i \in Nat : i < n <=> i \div BlockSize < Len(r)
      /\ \A i \in 0 .. n - 1 : big(i) \in Big(t)
      /\ \A i, j \in 0 .. n - 1 : big(i) = big(j) => i = j
      /\ \A a \in Big(t) : \E i \in 0 .. n - 1 : big(i) = a
  BY RadixNumbers
<1>2. k \in Nat /\ c = k + n
  BY CountSum DEF xm_iptree_count_ips
<1>3. PICK w : WalkOf(w, t) /\ \A index : _lookup_index(t, index) = w[<<>>][index]
  BY LookupWalk
<1>4. Numbers(w, t, <<>>)
  BY <1>3, NumbersAll
<1>5. ASSUME NEW i \in Nat
      PROVE  /\ i < n => at(i) = big(i)
             /\ ~(i < n) => at(i) = w[<<>>][i - n]
  BY <1>1, <1>3 DEF xm_iptree_lookup_index
<1> HIDE DEF n, k, c, big, at, r
<1>6. ASSUME NEW i \in 0 .. c - 1
      PROVE  \/ i \in 0 .. n - 1 /\ at(i) = big(i) /\ at(i) \in Big(t)
             \/ i - n \in 0 .. k - 1 /\ at(i) = w[<<>>][i - n] /\ at(i) \in Under(t, <<>>)
  <2>1. i \in Nat
    BY <1>2
  <2>2. CASE i < n
    <3>1. i \in 0 .. n - 1
      BY <1>1, <2>1, <2>2
    <3> QED BY <1>1, <1>5, <2>1, <2>2, <3>1
  <2>3. CASE ~(i < n)
    <3>1. i - n \in 0 .. k - 1
      BY <1>1, <1>2, <2>1, <2>3
    <3> QED BY <1>4, <1>5, <2>1, <2>3, <3>1 DEF Numbers, k
  <2> QED BY <2>2, <2>3
<1>7. ASSUME NEW i \in 0 .. c - 1 PROVE at(i) \in Allowed(t)
  BY <1>6, Halves
<1>8. ASSUME NEW i \in 0 .. c - 1, NEW j \in 0 .. c - 1, at(i) = at(j) PROVE i = j
  <2>1. ASSUME NEW a \in Big(t) PROVE a \notin Under(t, <<>>)
    BY Halves
  <2>2. CASE at(i) \in Big(t)
    <3>1. i \in 0 .. n - 1 /\ j \in 0 .. n - 1 /\ big(i) = big(j)
      BY <1>6, <1>8, <2>1, <2>2
    <3> QED BY <1>1, <3>1
  <2>3. CASE at(i) \notin Big(t)
    <3>1. i - n \in 0 .. k - 1 /\ j - n \in 0 .. k - 1 /\ w[<<>>][i - n] = w[<<>>][j - n]
      BY <1>6, <1>8, <2>3
    <3>2. i - n = j - n
      BY <1>4, <3>1 DEF Numbers, k
    <3> QED BY <1>1, <1>2, <3>2
  <2> QED BY <2>2, <2>3
<1>9. ASSUME NEW a \in Allowed(t) PROVE \E i \in 0 .. c - 1 : at(i) = a
  <2>1. CASE a \in Big(t)
    <3>1. PICK i \in 0 .. n - 1 : big(i) = a
      BY <1>1, <2>1
    <3>2. i \in Nat /\ i < n /\ i \in 0 .. c - 1
      BY <1>1, <1>2
    <3> QED BY <1>5, <3>1, <3>2
  <2>2. CASE a \in Under(t, <<>>)
    <3>1. PICK m \in 0 .. k - 1 : w[<<>>][m] = a
      BY <1>4, <2>2 DEF Numbers, k
    <3>2. m + n \in Nat /\ ~(m + n < n) /\ (m + n) - n = m /\ m + n \in 0 .. c - 1
      BY <1>1, <1>2
    <3>3. at(m + n) = a
      BY <1>5, <3>1, <3>2
    <3> QED BY <3>2, <3>3
  <2> QED BY <2>1, <2>2, Halves
<1>10. c \in Nat
  BY <1>1, <1>2
<1> QED BY <1>7, <1>8, <1>9, <1>10 DEF c, at, r

-----------------------------------------------------------------------------
(* A tree that was just made satisfies the invariant. *)
LEMMA InitInv == Init => TreeInv
<1> SUFFICES ASSUME Init PROVE TreeInv
  OBVIOUS
<1> DEFINE v == IF phase = "white" THEN ADDR_DISALLOWED ELSE ADDR_ALLOWED
<1>1. v \in Bits
  BY DEF Bits, ADDR_DISALLOWED, ADDR_ALLOWED
<1> HIDE DEF v
<1>2. tree = [x \in {<<>>} |-> v]
  BY DEF Init, v
<1>3. DOMAIN tree = {<<>>} /\ tree[<<>>] = v
  BY <1>2
<1>4. <<>> \in Seq(Bits) /\ Len(<<>>) = 0
  OBVIOUS
<1>5. ASSUME NEW a \in Address PROVE IsPrefix(<<>>, Walk(a))
  <2>1. Walk(a) \in Seq(Bits) /\ Len(Walk(a)) \in Nat
    BY WalkType, TreeAssumption
  <2>2. Len(<<>>) <= Len(Walk(a)) /\ \A i \in 1 .. Len(<<>>) : <<>>[i] = Walk(a)[i]
    BY <1>4, <2>1
  <2> HIDE DEF Walk
  <2> QED BY <1>4, <2>1, <2>2, PrefixElements
<1>6. Shape(tree)
  <2>1. IsFiniteSet(DOMAIN tree)
    BY <1>3, FS_Singleton
  <2> QED BY <1>1, <1>2, <1>3, <1>4, <1>5, <2>1, TreeAssumption DEF Shape
<1>7. given = [a \in Address |-> v]
  BY <1>3 DEF Init
<1> QED BY <1>1, <1>3, <1>6, <1>7 DEF TreeInv, LeavesOn

(* Adding an entry, changing lists and the final painting keep it. *)
LEMMA StepInv == TreeInv /\ [Next]_vars => TreeInv'
<1> SUFFICES ASSUME TreeInv, [Next]_vars PROVE TreeInv'
  OBVIOUS
<1>1. ADDR_ALLOWED \in Bits /\ ADDR_DISALLOWED \in Bits
  BY DEF Bits, ADDR_ALLOWED, ADDR_DISALLOWED
<1>2. ASSUME NEW p \in EntryPath, Whitelist(p) PROVE TreeInv'
  BY <1>1, <1>2, EntryType, AddInv DEF Whitelist, Entry
<1>3. ASSUME NEW p \in EntryPath, Blacklist(p) PROVE TreeInv'
  BY <1>1, <1>3, EntryType, AddInv DEF Blacklist, Entry
<1>4. CASE Whitelisted
  BY <1>4 DEF Whitelisted, TreeInv, Shape, LeavesOn, Walk
<1>5. CASE Blacklisted
  <2>1. Path(0, PlainLength) \in Seq(Bits) /\ Len(Path(0, PlainLength)) = PlainLength
    BY PathType, TreeAssumption
  <2>2. Len(Path(0, PlainLength)) <= PlainLength
    BY <2>1, TreeAssumption
  <2> QED BY <1>1, <1>5, <2>1, <2>2, AddInv DEF Blacklisted
<1>6. CASE UNCHANGED vars
  BY <1>6 DEF vars, TreeInv, Shape, LeavesOn, Walk
<1> QED BY <1>2, <1>3, <1>4, <1>5, <1>6 DEF Next

(* An address is allowed as the last entry that contains it says, for lists *)
(* of any entries in which no prefix follows a longer one it contains.      *)
THEOREM GivenUnlessCoveredAlways == Spec => []GivenUnlessCovered
<1>1. TreeInv => GivenUnlessCovered
  <2> SUFFICES ASSUME TreeInv, ~covered, NEW a \in Address
               PROVE  xm_iptree_lookup_ip(tree, a) = given[a]
    BY DEF GivenUnlessCovered
  <2>1. LeavesOn(tree, Walk(a)) # {}
    BY DEF TreeInv, Shape, LeavesOn
  <2>2. \A l \in LeavesOn(tree, Walk(a)) : tree[l] = given[a]
    BY DEF TreeInv
  <2> QED BY <2>1, <2>2 DEF xm_iptree_lookup_ip, Walk
<1> QED BY <1>1, InitInv, StepInv, PTL DEF Spec

-----------------------------------------------------------------------------
(* When the lists are ready the array is that of the tree, and the leaf on  *)
(* the walk of 0.0.0.0 is disallowed.                                       *)
ReadyInv ==
  phase = "ready" => /\ radix = Radix(tree)
                     /\ \A l \in LeavesOn(tree, Walk(0)) : tree[l] = ADDR_DISALLOWED

(* 0.0.0.0 is an address. *)
LEMMA ZeroAddress == 0 \in Address
<1>1. 2 ^ Width \in Nat \ {0}
  BY TreeAssumption, PowersOfTwo
<1> QED BY <1>1 DEF Address

(* Only the last step makes the lists ready. *)
LEMMA StepReady == TreeInv /\ ReadyInv /\ [Next]_vars => ReadyInv'
<1> SUFFICES ASSUME TreeInv, ReadyInv, [Next]_vars PROVE ReadyInv'
  OBVIOUS
<1>1. ASSUME NEW p \in EntryPath, Whitelist(p) \/ Blacklist(p) PROVE ReadyInv'
  <2>1. phase' = phase /\ phase # "ready"
    BY <1>1 DEF Whitelist, Blacklist, Entry
  <2> QED BY <2>1 DEF ReadyInv
<1>2. CASE Whitelisted
  BY <1>2 DEF Whitelisted, ReadyInv
<1>3. CASE Blacklisted
  <2> DEFINE p == Path(0, PlainLength)
  <2>1. p = Walk(0) /\ p \in Seq(Bits) /\ Len(p) <= PlainLength
    BY ZeroAddress, WalkType, TreeAssumption DEF Walk
  <2>2. tree' = xm_iptree_add(tree, p, ADDR_DISALLOWED) /\ radix' = Radix(tree')
    BY <1>3 DEF Blacklisted, Add, Painted
  <2>3. Shape(tree) /\ LeavesOn(tree, Walk(0)) # {}
    BY ZeroAddress DEF TreeInv, Shape, LeavesOn
  <2>4. ADDR_DISALLOWED \in Bits
    BY DEF Bits, ADDR_DISALLOWED
  <2> HIDE DEF p
  <2>5. \A a \in Address : \A n \in LeavesOn(tree', Walk(a)) :
          IF IsPrefix(p, Walk(a)) THEN tree'[n] = ADDR_DISALLOWED
          ELSE \E m \in LeavesOn(tree, Walk(a)) : tree'[n] = tree[m]
    BY <2>1, <2>2, <2>3, <2>4, AddShape
  <2>6. IsPrefix(p, Walk(0))
    BY <2>1, PrefixReflexive
  <2>7. \A n \in LeavesOn(tree', Walk(0)) : tree'[n] = ADDR_DISALLOWED
    BY <2>5, <2>6, ZeroAddress
  <2>8. LeavesOn(tree, Walk(0))' = LeavesOn(tree', Walk(0))
    BY DEF LeavesOn, Walk
  <2> QED BY <2>2, <2>7, <2>8 DEF ReadyInv, Radix, LeavesOn, Walk
<1>4. CASE UNCHANGED vars
  BY <1>4 DEF vars, ReadyInv, Radix, LeavesOn, Walk
<1> QED BY <1>1, <1>2, <1>3, <1>4 DEF Next

(* The addresses the properties call countable. *)
LEMMA CountableAllowed ==
  ASSUME Shape(tree), NEW a \in Address PROVE Countable(a) <=> a \in Allowed(tree)
<1>1. PICK l \in DOMAIN tree : LeavesOn(tree, Walk(a)) = {l}
  BY OneLeaf
<1>2. (CHOOSE x \in {l} : TRUE) = l
  OBVIOUS
<1> QED BY <1>1, <1>2 DEF Countable, xm_wblist_is_allowed, xm_iptree_lookup_ip, Allowed, Walk

(* For lists of any entries and addresses of any width: every walk meets    *)
(* one leaf, and the indices below the count look up every allowed address, *)
(* each once (xm_iptree.c:160-163).                                         *)
THEOREM IndexExactAlways == Spec => []IndexExact
<1>1. Init => TreeInv /\ ReadyInv
  BY InitInv DEF Init, ReadyInv
<1>2. TreeInv /\ ReadyInv /\ [Next]_vars => TreeInv' /\ ReadyInv'
  BY StepInv, StepReady
<1>3. TreeInv /\ ReadyInv => IndexExact
  <2> SUFFICES ASSUME TreeInv, ReadyInv PROVE IndexExact
    OBVIOUS
  <2>1. Shape(tree)
    BY DEF TreeInv
  <2>2. ASSUME NEW a \in Address PROVE Cardinality(LeavesOn(tree, Path(a, PlainLength))) = 1
    <3>1. PICK l \in DOMAIN tree : LeavesOn(tree, Walk(a)) = {l}
      BY <2>1, OneLeaf
    <3> QED BY <3>1, FS_Singleton DEF Walk
  <2>3. ASSUME phase = "ready"
        PROVE  /\ { Looked(i) : i \in Indexes } = { a \in Address : Countable(a) }
               /\ \A i, j \in Indexes : Looked(i) = Looked(j) => i = j
    <3>1. radix = Radix(tree)
      BY <2>3 DEF ReadyInv
    <3>2. /\ \A i \in Indexes : Looked(i) \in Allowed(tree)
          /\ \A i, j \in Indexes : Looked(i) = Looked(j) => i = j
          /\ \A a \in Allowed(tree) : \E i \in Indexes : Looked(i) = a
      BY <2>1, <3>1, IndexNumbers DEF Indexes, Looked
    <3>3. Allowed(tree) = { a \in Address : Countable(a) }
      BY <2>1, CountableAllowed DEF Allowed
    <3> QED BY <3>2, <3>3
  <2> QED BY <2>2, <2>3 DEF IndexExact
<1> QED BY <1>1, <1>2, <1>3, PTL DEF Spec

(* No index below the count looks up 0.0.0.0, whatever the lists say.       *)
THEOREM ZeroExcludedAlways == Spec => []ZeroExcluded
<1>1. Init => TreeInv /\ ReadyInv
  BY InitInv DEF Init, ReadyInv
<1>2. TreeInv /\ ReadyInv /\ [Next]_vars => TreeInv' /\ ReadyInv'
  BY StepInv, StepReady
<1>3. TreeInv /\ ReadyInv => ZeroExcluded
  <2> SUFFICES ASSUME TreeInv, ReadyInv, phase = "ready", NEW i \in Indexes, Looked(i) = 0 PROVE FALSE
    BY DEF ZeroExcluded
  <2>1. Shape(tree) /\ radix = Radix(tree)
    BY DEF TreeInv, ReadyInv
  <2>2. Looked(i) \in Allowed(tree)
    BY <2>1, IndexNumbers DEF Indexes, Looked
  <2>3. \E l \in LeavesOn(tree, Walk(0)) : tree[l] = ADDR_ALLOWED
    BY <2>2 DEF Allowed
  <2> QED BY <2>3 DEF ReadyInv, ADDR_ALLOWED, ADDR_DISALLOWED
<1> QED BY <1>1, <1>2, <1>3, PTL DEF Spec
=============================================================================
