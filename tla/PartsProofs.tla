----------------------------- MODULE PartsProofs -----------------------------
(***************************************************************************)
(* Proofs about five of the parts, for every value of their constants: the *)
(* locks and counters of src/lib/common, the answers to probes, the memory *)
(* and object pools, the attempts of send tasks, and numbers and strings   *)
(* in buffers.  The variables of a part have the names they have in its    *)
(* module.                                                                 *)
(***************************************************************************)
EXTENDS Parts, DataLemmas, FiniteSetTheorems

(* Locks. *)
cnt == v1
locked == v2
pc == v3
x == v4
width == v5
num == v6
answer == v7
total == v8

USE DEF cnt, locked, pc, x, width, num, answer, total

(* Locks has the sizes of sets from its own copy of FiniteSets. *)
LEMMA SameCount ==
  /\ \A S : Lock!IsFiniteSet(S) <=> IsFiniteSet(S)
  /\ \A S : Lock!Cardinality(S) = Cardinality(S)
<1>1. \A S : Lock!IsFiniteSet(S) <=> IsFiniteSet(S)
  BY DEF Lock!IsFiniteSet, IsFiniteSet
<1>2. \A S : Lock!Cardinality(S) = Cardinality(S)
  BY DEF Lock!Cardinality, Cardinality
<1> QED
  BY <1>1, <1>2

(* What Locks assumes of its constants. *)
LEMMA LocksGiven ==
  /\ IsFiniteSet(Threads) /\ Amounts \subseteq Int
  /\ \A w \in DOMAIN Half : Half[w] \in Nat \ {0, 1}
BY PartsAssumption, SameCount DEF Lock!LocksAssumption

Places ==
  {"idle", "read_lock", "read_cmpset", "reading", "write_lock", "write_cmpset", "writing",
   "lock", "trylock", "watch", "inside"}

LocksType ==
  /\ cnt \in Int /\ locked \in {0, 1}
  /\ pc \in [Threads -> Places] /\ x \in [Threads -> Int]

LocksInv ==
  /\ LocksType
  /\ \A t \in Threads : pc[t] = "read_cmpset" => x[t] >= 0
  /\ Lock!Exclusion

(* The threads at a place are finitely many. *)
LEMMA Finite ==
  ASSUME NEW p
  PROVE  IsFiniteSet(Lock!At(p)) /\ Cardinality(Lock!At(p)) \in Nat
<1>1. Lock!At(p) \subseteq Threads
  BY DEF Lock!At
<1> QED
  BY <1>1, FS_Subset, FS_CardinalityType, LocksGiven

(* A thread that goes from one place to another is counted at the one and  *)
(* no longer at the other, and nobody else moves.                          *)
LEMMA Moved ==
  ASSUME pc \in [Threads -> Places],
         NEW t \in Threads, NEW from, NEW to, Lock!Go(t, from, to), from # to
  PROVE  /\ t \in Lock!At(from) /\ Lock!At(from)' = Lock!At(from) \ {t}
         /\ Cardinality(Lock!At(from))' = Cardinality(Lock!At(from)) - 1
         /\ t \notin Lock!At(to) /\ Lock!At(to)' = Lock!At(to) \cup {t}
         /\ Cardinality(Lock!At(to))' = Cardinality(Lock!At(to)) + 1
         /\ \A p : p # from /\ p # to => Lock!At(p)' = Lock!At(p)
<1>1. pc[t] = from /\ pc' = [pc EXCEPT ![t] = to]
  BY DEF Lock!Go
<1>2. t \in Lock!At(from) /\ Lock!At(from)' = Lock!At(from) \ {t}
  BY <1>1 DEF Lock!At
<1>3. t \notin Lock!At(to) /\ Lock!At(to)' = Lock!At(to) \cup {t}
  BY <1>1 DEF Lock!At
<1>4. Cardinality(Lock!At(from))' = Cardinality(Lock!At(from)) - 1
  BY <1>2, Finite, FS_RemoveElement
<1>5. Cardinality(Lock!At(to))' = Cardinality(Lock!At(to)) + 1
  BY <1>3, Finite, FS_AddElement
<1>6. ASSUME NEW p, p # from, p # to PROVE Lock!At(p)' = Lock!At(p)
  BY <1>1, <1>6 DEF Lock!At
<1> QED
  BY <1>2, <1>3, <1>4, <1>5, <1>6

(* Nobody holds a lock in the beginning. *)
LEMMA InitLocks ==
  ASSUME Lock!Init
  PROVE  LocksInv
<1>1. Lock!At("reading") = {} /\ Lock!At("writing") = {} /\ Lock!At("inside") = {}
  BY DEF Lock!Init, Lock!At
<1>2. Lock!Exclusion
  BY <1>1, FS_EmptySet, SameCount DEF Lock!Exclusion, Lock!Init
<1> QED
  BY <1>2 DEF LocksInv, LocksType, Places, Lock!Init

(* A step between places outside the locks that leaves their words alone.  *)
LEMMA Outside ==
  ASSUME LocksInv, NEW t \in Threads,
         NEW from \in Places, NEW to \in Places, Lock!Go(t, from, to),
         from \notin {"reading", "writing", "inside"}, to \notin {"reading", "writing", "inside"},
         UNCHANGED <<cnt, locked>>
  PROVE  Lock!Exclusion'
<1>1. pc \in [Threads -> Places]
  BY DEF LocksInv, LocksType
<1>2. /\ Lock!At("reading")' = Lock!At("reading") /\ Lock!At("writing")' = Lock!At("writing")
      /\ Lock!At("inside")' = Lock!At("inside")
  BY <1>1 DEF Lock!At, Lock!Go
<1> QED
  BY <1>2, SameCount DEF LocksInv, Lock!Exclusion

(* Whoever holds the spin lock holds neither side of the other, and the    *)
(* words of the locks say who is inside.                                   *)
LEMMA HoldersCounted ==
  ASSUME LocksInv
  PROVE  /\ cnt >= 0 => Lock!At("writing") = {} /\ cnt = Cardinality(Lock!At("reading"))
         /\ cnt = 0 => Lock!At("reading") = {}
         /\ locked = 0 => Lock!At("inside") = {}
<1>1. /\ cnt = Cardinality(Lock!At("reading")) - Cardinality(Lock!At("writing"))
      /\ Lock!At("writing") # {} => Cardinality(Lock!At("writing")) = 1 /\ Lock!At("reading") = {}
      /\ locked = Cardinality(Lock!At("inside"))
  BY SameCount DEF LocksInv, Lock!Exclusion
<1>2. \A p : Cardinality(Lock!At(p)) \in Nat /\ (Cardinality(Lock!At(p)) = 0 <=> Lock!At(p) = {})
  BY Finite, FS_EmptySet
<1>3. cnt >= 0 => Lock!At("writing") = {}
  BY <1>1, <1>2
<1> QED
  BY <1>1, <1>2, <1>3

(* A reader counts itself only if no writer has come since it looked, since *)
(* the word would be -1 then.                                               *)
LEMMA ReaderEnters ==
  ASSUME LocksInv, NEW t \in Threads, Lock!read_lock_cmpset(t)
  PROVE  Lock!Exclusion'
<1>1. pc \in [Threads -> Places] /\ pc[t] = "read_cmpset" /\ x[t] >= 0 /\ x[t] \in Int
  BY DEF LocksInv, LocksType, Lock!read_lock_cmpset, Lock!Go
<1>2. CASE cnt = x[t]
  <2>1. Lock!Go(t, "read_cmpset", "reading") /\ cnt' = cnt + 1 /\ locked' = locked
    BY <1>2 DEF Lock!read_lock_cmpset, Lock!xm_atomic32_cmpset
  <2>2. /\ Cardinality(Lock!At("reading"))' = Cardinality(Lock!At("reading")) + 1
        /\ Lock!At("writing")' = Lock!At("writing") /\ Lock!At("inside")' = Lock!At("inside")
    BY <1>1, <2>1, Moved
  <2>3. Lock!At("writing") = {} /\ cnt = Cardinality(Lock!At("reading"))
    BY <1>1, <1>2, HoldersCounted
  <2>4. Cardinality(Lock!At("writing")) = 0 /\ Cardinality(Lock!At("reading")) \in Nat
    BY <2>3, Finite, FS_EmptySet
  <2> QED
    BY <2>1, <2>2, <2>3, <2>4, SameCount DEF LocksInv, Lock!Exclusion
<1>3. CASE cnt # x[t]
  <2>1. Lock!Go(t, "read_cmpset", "read_lock") /\ UNCHANGED <<cnt, locked>>
    BY <1>3 DEF Lock!read_lock_cmpset, Lock!xm_atomic32_cmpset
  <2> QED
    BY <2>1, Outside DEF Places
<1> QED
  BY <1>2, <1>3

(* A reader that unlocks leaves the others theirs. *)
LEMMA ReaderLeaves ==
  ASSUME LocksInv, NEW t \in Threads, Lock!read_unlock(t)
  PROVE  Lock!Exclusion'
<1>1. /\ pc \in [Threads -> Places] /\ Lock!Go(t, "reading", "idle")
      /\ cnt' = cnt - 1 /\ locked' = locked
  BY DEF LocksInv, LocksType, Lock!read_unlock
<1>2. /\ t \in Lock!At("reading")
      /\ Cardinality(Lock!At("reading"))' = Cardinality(Lock!At("reading")) - 1
      /\ Lock!At("writing")' = Lock!At("writing") /\ Lock!At("inside")' = Lock!At("inside")
  BY <1>1, Moved
<1>3. Lock!At("writing") = {}
  BY <1>2, SameCount DEF LocksInv, Lock!Exclusion
<1>4. Cardinality(Lock!At("writing")) \in Nat /\ Cardinality(Lock!At("reading")) \in Nat
  BY Finite
<1> QED
  BY <1>1, <1>2, <1>3, <1>4, SameCount DEF LocksInv, Lock!Exclusion

(* A writer gets in only if nobody is: then the word is 0. *)
LEMMA WriterEnters ==
  ASSUME LocksInv, NEW t \in Threads, Lock!write_lock_cmpset(t)
  PROVE  Lock!Exclusion'
<1>1. pc \in [Threads -> Places]
  BY DEF LocksInv, LocksType
<1>2. CASE cnt = 0
  <2>1. Lock!Go(t, "write_cmpset", "writing") /\ cnt' = -1 /\ locked' = locked
    BY <1>2 DEF Lock!write_lock_cmpset, Lock!xm_atomic32_cmpset
  <2>2. /\ Cardinality(Lock!At("writing"))' = Cardinality(Lock!At("writing")) + 1
        /\ Lock!At("reading")' = Lock!At("reading") /\ Lock!At("inside")' = Lock!At("inside")
    BY <1>1, <2>1, Moved
  <2>3. Lock!At("writing") = {} /\ Lock!At("reading") = {}
    BY <1>2, HoldersCounted
  <2>4. Cardinality(Lock!At("writing")) = 0 /\ Cardinality(Lock!At("reading")) = 0
    BY <2>3, FS_EmptySet
  <2> QED
    BY <2>1, <2>2, <2>3, <2>4, SameCount DEF LocksInv, Lock!Exclusion
<1>3. CASE cnt # 0
  <2>1. Lock!Go(t, "write_cmpset", "write_lock") /\ UNCHANGED <<cnt, locked>>
    BY <1>3 DEF Lock!write_lock_cmpset, Lock!xm_atomic32_cmpset
  <2> QED
    BY <2>1, Outside DEF Places
<1> QED
  BY <1>2, <1>3

(* After a writer unlocks the lock is free. *)
LEMMA WriterLeaves ==
  ASSUME LocksInv, NEW t \in Threads, Lock!write_unlock(t)
  PROVE  Lock!Exclusion'
<1>1. /\ pc \in [Threads -> Places] /\ Lock!Go(t, "writing", "idle")
      /\ cnt' = cnt + 1 /\ locked' = locked
  BY DEF LocksInv, LocksType, Lock!write_unlock
<1>2. /\ t \in Lock!At("writing")
      /\ Cardinality(Lock!At("writing"))' = Cardinality(Lock!At("writing")) - 1
      /\ Lock!At("reading")' = Lock!At("reading") /\ Lock!At("inside")' = Lock!At("inside")
  BY <1>1, Moved
<1>3. /\ Cardinality(Lock!At("writing")) = 1
      /\ Lock!At("reading") = {} /\ Cardinality(Lock!At("reading")) = 0
  BY <1>2, FS_EmptySet, SameCount DEF LocksInv, Lock!Exclusion
<1>4. Cardinality(Lock!At("writing"))' = 0
  BY <1>2, <1>3
<1>5. IsFiniteSet(Lock!At("writing")')
  <2>1. Lock!At("writing")' = Lock!At("writing") \ {t}
    BY <1>1, Moved
  <2> QED
    BY <2>1, Finite, FS_RemoveElement
<1>6. Lock!At("writing")' = {}
  BY <1>4, <1>5, FS_EmptySet
<1> QED
  BY <1>1, <1>2, <1>3, <1>4, <1>6, SameCount DEF LocksInv, Lock!Exclusion

(* The exchange of the spin lock lets one thread in, when nobody is. *)
LEMMA SpinEnters ==
  ASSUME LocksInv, NEW t \in Threads, Lock!spinlock_lock(t)
  PROVE  Lock!Exclusion'
<1>1. pc \in [Threads -> Places] /\ cnt' = cnt /\ locked' = 1 /\ locked \in {0, 1}
  BY DEF LocksInv, LocksType, Lock!spinlock_lock
<1>2. CASE locked = 0
  <2>1. PICK from \in {"lock", "trylock"} : Lock!Go(t, from, "inside")
    BY <1>2 DEF Lock!spinlock_lock
  <2>2. /\ Cardinality(Lock!At("inside"))' = Cardinality(Lock!At("inside")) + 1
        /\ Lock!At("reading")' = Lock!At("reading") /\ Lock!At("writing")' = Lock!At("writing")
    BY <1>1, <2>1, Moved
  <2>3. Cardinality(Lock!At("inside")) = 0
    BY <1>2, HoldersCounted, FS_EmptySet
  <2> QED
    BY <1>1, <2>2, <2>3, SameCount DEF LocksInv, Lock!Exclusion
<1>3. CASE locked # 0
  <2>1. UNCHANGED <<cnt, locked>>
    BY <1>1, <1>3
  <2>2. Lock!Go(t, "lock", "watch") \/ Lock!Go(t, "trylock", "idle")
    BY <1>3 DEF Lock!spinlock_lock
  <2> QED
    BY <2>1, <2>2, Outside DEF Places
<1> QED
  BY <1>2, <1>3

(* After its owner unlocks the spin lock is free. *)
LEMMA SpinLeaves ==
  ASSUME LocksInv, NEW t \in Threads, Lock!spinlock_unlock(t)
  PROVE  Lock!Exclusion'
<1>1. /\ pc \in [Threads -> Places] /\ Lock!Go(t, "inside", "idle")
      /\ cnt' = cnt /\ locked' = 0 /\ locked \in {0, 1}
  BY DEF LocksInv, LocksType, Lock!spinlock_unlock
<1>2. /\ t \in Lock!At("inside")
      /\ Cardinality(Lock!At("inside"))' = Cardinality(Lock!At("inside")) - 1
      /\ Lock!At("reading")' = Lock!At("reading") /\ Lock!At("writing")' = Lock!At("writing")
  BY <1>1, Moved
<1>3. locked = Cardinality(Lock!At("inside")) /\ (locked = 0 => Lock!At("inside") = {})
  BY HoldersCounted, SameCount DEF LocksInv, Lock!Exclusion
<1>4. Cardinality(Lock!At("inside"))' = 0
  BY <1>1, <1>2, <1>3
<1> QED
  BY <1>1, <1>2, <1>4, SameCount DEF LocksInv, Lock!Exclusion

(* The ranges, and what a reader has loaded, in one step of any kind. *)
LEMMA TypeStep ==
  ASSUME LocksInv, [Lock!Next]_(Lock!lockVars)
  PROVE  LocksType' /\ \A t \in Threads : pc'[t] = "read_cmpset" => x'[t] >= 0
<1> USE DEF LocksInv, LocksType, Places, Lock!Go
<1> DEFINE Good == LocksType' /\ \A t \in Threads : pc'[t] = "read_cmpset" => x'[t] >= 0
<1>1. ASSUME NEW t \in Threads, Lock!Begin(t) PROVE Good
  BY <1>1 DEF Lock!Begin
<1>2. ASSUME NEW t \in Threads, Lock!read_lock_load(t) PROVE Good
  BY <1>2 DEF Lock!read_lock_load
<1>3. ASSUME NEW t \in Threads, Lock!read_lock_cmpset(t) PROVE Good
  BY <1>3 DEF Lock!read_lock_cmpset, Lock!xm_atomic32_cmpset
<1>4. ASSUME NEW t \in Threads, Lock!read_unlock(t) PROVE Good
  BY <1>4 DEF Lock!read_unlock
<1>5. ASSUME NEW t \in Threads, Lock!write_lock_load(t) PROVE Good
  BY <1>5 DEF Lock!write_lock_load
<1>6. ASSUME NEW t \in Threads, Lock!write_lock_cmpset(t) PROVE Good
  BY <1>6 DEF Lock!write_lock_cmpset, Lock!xm_atomic32_cmpset
<1>7. ASSUME NEW t \in Threads, Lock!write_unlock(t) PROVE Good
  BY <1>7 DEF Lock!write_unlock
<1>8. ASSUME NEW t \in Threads, Lock!spinlock_lock(t) PROVE Good
  BY <1>8 DEF Lock!spinlock_lock
<1>9. ASSUME NEW t \in Threads, Lock!spinlock_watch(t) PROVE Good
  BY <1>9 DEF Lock!spinlock_watch
<1>10. ASSUME NEW t \in Threads, Lock!spinlock_unlock(t) PROVE Good
  BY <1>10 DEF Lock!spinlock_unlock
<1>11. ASSUME NEW op \in Lock!Ops, NEW n \in Amounts, Lock!Atomic(op, n) PROVE Good
  BY <1>11 DEF Lock!Atomic
<1>12. CASE UNCHANGED Lock!lockVars
  BY <1>12 DEF Lock!lockVars
<1> QED
  BY <1>1, <1>2, <1>3, <1>4, <1>5, <1>6, <1>7, <1>8, <1>9, <1>10, <1>11, <1>12 DEF Lock!Next

(* Every step of every thread keeps the exclusion. *)
LEMMA ExclusionStep ==
  ASSUME LocksInv, [Lock!Next]_(Lock!lockVars)
  PROVE  Lock!Exclusion'
<1>1. ASSUME NEW t \in Threads, Lock!Begin(t) PROVE Lock!Exclusion'
  <2>1. PICK to \in {"read_lock", "write_lock", "lock", "trylock"} : Lock!Go(t, "idle", to)
    BY <1>1 DEF Lock!Begin
  <2> QED
    BY <1>1, <2>1, Outside DEF Lock!Begin, Places
<1>2. ASSUME NEW t \in Threads, Lock!read_lock_load(t) PROVE Lock!Exclusion'
  BY <1>2, Outside DEF Lock!read_lock_load, Places
<1>3. ASSUME NEW t \in Threads, Lock!write_lock_load(t) PROVE Lock!Exclusion'
  BY <1>3, Outside DEF Lock!write_lock_load, Places
<1>4. ASSUME NEW t \in Threads, Lock!spinlock_watch(t) PROVE Lock!Exclusion'
  BY <1>4, Outside DEF Lock!spinlock_watch, Places
<1>5. CASE UNCHANGED <<cnt, locked, pc>>
  BY <1>5, SameCount DEF LocksInv, Lock!Exclusion, Lock!At
<1>6. ASSUME NEW op \in Lock!Ops, NEW n \in Amounts, Lock!Atomic(op, n) PROVE Lock!Exclusion'
  BY <1>5, <1>6 DEF Lock!Atomic
<1>7. CASE UNCHANGED Lock!lockVars
  BY <1>5, <1>7 DEF Lock!lockVars
<1> QED
  BY <1>1, <1>2, <1>3, <1>4, <1>6, <1>7, ReaderEnters, ReaderLeaves, WriterEnters, WriterLeaves,
     SpinEnters, SpinLeaves DEF Lock!Next

-----------------------------------------------------------------------------
(* The counters.                                                            *)

CounterType == width \in DOMAIN Half /\ num \in Int /\ total \in Int

(* Signed(n) is the number in the range of the counter that differs from n  *)
(* by a multiple of what the counter can count.                             *)
LEMMA SignedOf ==
  ASSUME width \in DOMAIN Half, NEW v \in Int
  PROVE  /\ Lock!Signed(v) \in -Half[width] .. Half[width] - 1
         /\ \E q \in Int : v = Lock!Signed(v) + (2 * Half[width]) * q
         /\ \A w \in -Half[width] .. Half[width] - 1, q \in Int :
              v = w + (2 * Half[width]) * q => Lock!Signed(v) = w
<1>1. PICK h \in Nat \ {0, 1} : h = Half[width]
  BY LocksGiven
<1>2. PICK n \in Nat \ {0} : n = 2 * h
  BY <1>1
<1>3. PICK d \in Int, r \in 0 .. n - 1 : v + h = n * d + r /\ r = (v + h) % n
  <2>1. v + h \in Int
    BY <1>1
  <2>2. /\ (v + h) \div n \in Int /\ (v + h) % n \in 0 .. n - 1
        /\ v + h = n * ((v + h) \div n) + ((v + h) % n)
    BY <2>1, DivisionInt
  <2> QED BY <2>2
<1>4. Lock!Signed(v) = r - h
  BY <1>1, <1>2, <1>3 DEF Lock!Signed
<1>5. r - h \in -h .. h - 1 /\ v = (r - h) + n * d
  <2>1. PICK k \in Int : k = n * d
    BY <1>2, <1>3
  <2>2. h \in Nat /\ r \in Int /\ 0 <= r /\ r <= 2 * h - 1 /\ v + h = k + r
    BY <1>1, <1>2, <1>3, <2>1
  <2>3. r - h \in Int /\ -h \in Int /\ -h <= r - h /\ r - h <= h - 1 /\ v = (r - h) + k
    BY <2>2
  <2> QED BY <2>1, <2>2, <2>3
<1>6. ASSUME NEW w \in -h .. h - 1, NEW q \in Int, v = w + n * q PROVE r - h = w
  <2>1. w + h \in 0 .. n - 1
    BY <1>1, <1>2
  <2>2. n * q + (w + h) = n * d + r
    BY <1>3, <1>6
  <2>3. r = n * (q - d) + (w + h) /\ q - d \in Int
    BY <2>2
  <2>4. r = w + h
    BY <1>3, <2>1, <2>3, SameRemainder
  <2> QED BY <2>4
<1> QED BY <1>1, <1>2, <1>4, <1>5, <1>6

(* Cutting a number to the width first changes no sum. *)
LEMMA SignedPlus ==
  ASSUME width \in DOMAIN Half, NEW v \in Int, NEW d \in Int
  PROVE  Lock!Signed(Lock!Signed(v) + d) = Lock!Signed(v + d)
<1>1. PICK m \in Int : m = 2 * Half[width]
  BY LocksGiven
<1>2. PICK s \in Int : s = Lock!Signed(v)
  BY SignedOf, LocksGiven
<1>3. PICK q \in Int : v = s + m * q
  BY <1>1, <1>2, SignedOf
<1>4. PICK w \in -Half[width] .. Half[width] - 1 : w = Lock!Signed(s + d)
  BY SignedOf
<1>5. PICK e \in Int : s + d = w + m * e
  BY <1>1, <1>4, SignedOf
<1>6. v + d = w + m * (e + q) /\ e + q \in Int /\ v + d \in Int
  <2>1. w \in Int
    BY <1>4, LocksGiven
  <2> QED BY <1>3, <1>5, <2>1
<1>7. Lock!Signed(v + d) = w
  BY <1>1, <1>4, <1>6, SignedOf
<1> QED BY <1>2, <1>4, <1>7

(* A number in the range of the counter is not cut. *)
LEMMA SignedInside ==
  ASSUME width \in DOMAIN Half, NEW v \in -Half[width] .. Half[width] - 1
  PROVE  Lock!Signed(v) = v
<1>1. PICK m \in Int : m = 2 * Half[width]
  BY LocksGiven
<1>2. v \in Int /\ 0 \in Int /\ v = v + m * 0
  BY <1>1, LocksGiven
<1> QED BY <1>1, <1>2, SignedOf

(* One step up or down from the range leads to 0 only from next to it. *)
LEMMA SignedZero ==
  ASSUME width \in DOMAIN Half, NEW v \in -Half[width] - 1 .. Half[width]
  PROVE  Lock!Signed(v) = 0 <=> v = 0
<1>1. PICK h \in Nat : h = Half[width] /\ h >= 2
  BY LocksGiven
<1>2. v \in Int /\ -h - 1 <= v /\ v <= h
  BY <1>1
<1>3. \A w \in -h .. h - 1, q \in Int : v = w + (2 * h) * q => Lock!Signed(v) = w
  BY <1>1, <1>2, SignedOf
<1>4. ASSUME NEW w \in Int, -h <= w, w <= h - 1, NEW q \in {-1, 0, 1}, v = w + (2 * h) * q
      PROVE  Lock!Signed(v) = w
  <2>1. w \in -h .. h - 1 /\ q \in Int
    BY <1>1, <1>4
  <2> QED BY <1>3, <1>4, <2>1
<1>5. CASE v <= h - 1 /\ -h <= v
  BY <1>1, <1>2, <1>4, <1>5
<1>6. CASE v = h
  <2>1. -h \in Int /\ -h <= -h /\ -h <= h - 1 /\ v = -h + (2 * h) * 1
    BY <1>1, <1>6
  <2>2. 1 \in {-1, 0, 1} /\ -h # 0 /\ v # 0
    BY <1>1, <1>6
  <2>3. Lock!Signed(v) = -h
    BY <1>4, <2>1, <2>2
  <2> QED BY <2>2, <2>3
<1>7. CASE v = -h - 1
  <2>1. h - 1 \in Int /\ -h <= h - 1 /\ h - 1 <= h - 1 /\ v = (h - 1) + (2 * h) * (-1)
    BY <1>1, <1>7
  <2>2. -1 \in {-1, 0, 1} /\ h - 1 # 0 /\ v # 0
    BY <1>1, <1>7
  <2>3. Lock!Signed(v) = h - 1
    BY <1>4, <2>1, <2>2
  <2> QED BY <2>2, <2>3
<1> QED BY <1>1, <1>2, <1>5, <1>6, <1>7

(* An operation on the counter is what it is without a width, cut to it.    *)
LEMMA CountStep ==
  ASSUME CounterType, Lock!CountExact,
         NEW op \in Lock!Ops, NEW n \in Amounts, Lock!Atomic(op, n)
  PROVE  CounterType' /\ Lock!CountExact'
<1>1. /\ n \in Int /\ width \in DOMAIN Half /\ width' = width
      /\ num' = Lock!Signed(Lock!Changed(op, num, n))
      /\ answer' = [op |-> op, value |-> Lock!Signed(Lock!Returned(op, num, n))]
      /\ total' = IF op = "test_and_set" THEN num' ELSE Lock!Changed(op, total, n)
  BY LocksGiven DEF CounterType, Lock!Atomic
<1>2. /\ num \in -Half[width] .. Half[width] - 1 /\ num = Lock!Signed(total) /\ total \in Int
      /\ \A v \in Int : Lock!Signed(v) \in -Half[width] .. Half[width] - 1
      /\ \A v \in Int : Lock!Signed(v) \in Int
  <2>1. num = Lock!Signed(total) /\ total \in Int
    BY DEF CounterType, Lock!CountExact
  <2>2. \A v \in Int : Lock!Signed(v) \in -Half[width] .. Half[width] - 1
    BY <1>1, SignedOf
  <2>3. -Half[width] \in Int /\ Half[width] - 1 \in Int
    BY <1>1, LocksGiven
  <2> QED BY <2>1, <2>2, <2>3
<1>3. op \in Lock!atomic64
  BY DEF Lock!Ops, Lock!atomic64
<1>4. CASE op \in {"set", "clear"}
  <2>1. Lock!Changed(op, num, n) = Lock!Changed(op, total, n) /\ Lock!Changed(op, num, n) \in Int
    BY <1>1, <1>4 DEF Lock!Changed
  <2>2. num' = Lock!Signed(total') /\ num' \in Int /\ total' \in Int
    BY <1>1, <1>2, <1>4, <2>1
  <2> QED BY <1>1, <1>4, <2>2 DEF CounterType, Lock!CountExact, Lock!Signed
<1>5. CASE op = "test_and_set"
  <2>1. /\ Lock!Changed(op, num, n) = (IF num = 0 THEN 1 ELSE num)
        /\ Lock!Returned(op, num, n) = (IF num = 0 THEN 1 ELSE 0)
    BY <1>5 DEF Lock!Changed, Lock!Returned, Lock!xm_atomic32_cmpset
  <2>2. Lock!Signed(1) = 1 /\ Lock!Signed(0) = 0 /\ Lock!Signed(num) = num
    BY <1>1, <1>2, SignedInside, LocksGiven
  <2>3. num' = Lock!Signed(total') /\ total' = num' /\ num' \in Int /\ (answer'.value = 1 => num' = 1)
    BY <1>1, <1>2, <1>5, <2>1, <2>2
  <2> QED BY <1>1, <1>5, <2>3 DEF CounterType, Lock!CountExact, Lock!Signed
<1>6. ASSUME NEW d \in Int, op \notin {"test_and_set", "set", "clear"},
             Lock!Changed(op, num, n) = num + d, Lock!Changed(op, total, n) = total + d
      PROVE  num' = Lock!Signed(total') /\ num' \in Int /\ total' \in Int
  <2>1. Lock!Signed(num + d) = Lock!Signed(total + d)
    BY <1>1, <1>2, SignedPlus
  <2>2. num + d \in Int /\ total + d \in Int
    BY <1>2, <1>6
  <2> QED BY <1>1, <1>2, <1>6, <2>1, <2>2
<1>7. CASE op \in {"inc_and_test", "dec_and_test"}
  <2>1. PICK d \in {-1, 1} :
          /\ Lock!Changed(op, num, n) = num + d /\ Lock!Changed(op, total, n) = total + d
          /\ Lock!Returned(op, num, n) = IF num + d = 0 THEN 1 ELSE 0
    <3>1. num - 1 = num + (-1) /\ total - 1 = total + (-1)
      BY <1>2
    <3> QED BY <1>7, <3>1 DEF Lock!Changed, Lock!Returned
  <2>2. num' = Lock!Signed(total') /\ num' \in Int /\ total' \in Int
    BY <1>6, <1>7, <2>1
  <2>3. num + d \in -Half[width] - 1 .. Half[width]
    BY <1>1, <1>2, LocksGiven
  <2>4. num' = 0 <=> num + d = 0
    BY <1>1, <2>1, <2>3, SignedZero
  <2>5. Lock!Signed(1) = 1 /\ Lock!Signed(0) = 0
    BY <1>1, SignedInside, LocksGiven
  <2>6. answer'.value = 1 <=> num' = 0
    BY <1>1, <2>1, <2>4, <2>5
  <2> QED BY <1>1, <1>7, <2>2, <2>6 DEF CounterType, Lock!CountExact, Lock!Signed
<1>8. CASE op \in {"inc", "dec", "add", "sub", "add_return", "sub_return"}
  <2>1. PICK d \in Int : Lock!Changed(op, num, n) = num + d /\ Lock!Changed(op, total, n) = total + d
    <3>1. /\ num - 1 = num + (-1) /\ total - 1 = total + (-1) /\ -1 \in Int
          /\ num - n = num + (-n) /\ total - n = total + (-n) /\ -n \in Int
      BY <1>1, <1>2
    <3> QED BY <1>1, <1>8, <3>1 DEF Lock!Changed
  <2>2. num' = Lock!Signed(total') /\ num' \in Int /\ total' \in Int
    BY <1>6, <1>8, <2>1
  <2>3. op \in {"add_return", "sub_return"} => answer'.value = num'
    BY <1>1 DEF Lock!Returned
  <2> QED BY <1>1, <1>8, <2>2, <2>3 DEF CounterType, Lock!CountExact, Lock!Signed
<1> QED BY <1>3, <1>4, <1>5, <1>7, <1>8 DEF Lock!atomic64, Lock!atomic16

(* What Locks does keeps its invariants. *)
LEMMA LocksStep ==
  ASSUME LocksInv, CounterType, Lock!CountExact, [Lock!Next]_(Lock!lockVars)
  PROVE  LocksInv' /\ CounterType' /\ Lock!CountExact'
<1>1. ASSUME UNCHANGED Lock!counterVars PROVE CounterType' /\ Lock!CountExact'
  BY <1>1 DEF Lock!counterVars, CounterType, Lock!CountExact, Lock!Signed
<1>2. ASSUME NEW op \in Lock!Ops, NEW n \in Amounts, Lock!Atomic(op, n)
      PROVE  CounterType' /\ Lock!CountExact'
  BY <1>2, CountStep
<1>3. ASSUME NEW t \in Threads,
             \/ Lock!Begin(t)
             \/ Lock!read_lock_load(t) \/ Lock!read_lock_cmpset(t) \/ Lock!read_unlock(t)
             \/ Lock!write_lock_load(t) \/ Lock!write_lock_cmpset(t) \/ Lock!write_unlock(t)
             \/ Lock!spinlock_lock(t) \/ Lock!spinlock_watch(t) \/ Lock!spinlock_unlock(t)
      PROVE  UNCHANGED Lock!counterVars
  BY <1>3 DEF Lock!Begin, Lock!read_lock_load, Lock!read_lock_cmpset, Lock!read_unlock,
     Lock!write_lock_load, Lock!write_lock_cmpset, Lock!write_unlock, Lock!spinlock_lock,
     Lock!spinlock_watch, Lock!spinlock_unlock
<1>4. CounterType' /\ Lock!CountExact'
  BY <1>1, <1>2, <1>3 DEF Lock!Next, Lock!lockVars, Lock!counterVars
<1> QED
  BY <1>4, TypeStep, ExclusionStep DEF LocksInv

(* xm_rwlock.h:49-115, xm_spinlock.h:43-97, xm_atomic.h:60-652: for any     *)
(* number of threads a writer is alone, readers are counted, and the spin  *)
(* lock has one owner; for any width a counter is what was counted as far  *)
(* as it can tell, and every answer is about the number that was left.     *)
THEOREM LocksExactAlways == Spec => []LocksExact
<1> DEFINE Inv == part = "Locks" => LocksInv /\ CounterType /\ Lock!CountExact
<1>1. Init => Inv
  <2> SUFFICES ASSUME Lock!Init PROVE LocksInv /\ CounterType /\ Lock!CountExact
    BY DEF Init
  <2>1. Lock!Signed(0) = 0
    BY SignedInside, LocksGiven DEF Lock!Init
  <2> QED
    BY <2>1, InitLocks DEF Lock!Init, CounterType, Lock!CountExact
<1>2. Inv /\ [Next]_partVars => Inv'
  <2> SUFFICES ASSUME Inv, [Next]_partVars, part' = "Locks"
               PROVE  LocksInv' /\ CounterType' /\ Lock!CountExact'
    OBVIOUS
  <2>1. part = "Locks" /\ [Lock!Next]_(Lock!lockVars)
    BY DEF Next, partVars, Lock!lockVars
  <2> QED
    BY <2>1, LocksStep
<1>3. Inv => LocksExact
  BY DEF LocksInv, LocksExact
<1> QED
  BY <1>1, <1>2, <1>3, PTL DEF Spec

-----------------------------------------------------------------------------
(* Probe.                                                                   *)
probe == v1
key == v2
aes_input == v3
gpc == v4
args == v5
validation == v6
at == v7
stream == v8
net == v9
packet == v10
regen == v11
captures == v12
seen == v13
stored == v14

USE DEF probe, key, aes_input, gpc, args, validation, at, stream, net, packet, regen, captures,
        seen, stored

Addresses == Prb!Mine \cup Prb!Hosts \cup {Router}
Pair == (Addresses \cup {Prb!None}) \X (Addresses \cup {Prb!None})

(* The probes on the network are what send tasks make of some words. *)
NetExact ==
  \A q \in net : \E src \in Prb!Mine, dst \in Prb!Hosts, v \in Pair, i \in 0 .. Streams - 1 :
     q = Prb!Made(src, dst, v, i)

Traffic == Prb!Noise \cup UNION { Prb!Answers(q) : q \in net }

(* What comes in is about an address of this scan and another one, and is  *)
(* an answer to a probe or stray.                                          *)
LEMMA TrafficExact ==
  ASSUME NetExact, NEW p \in Traffic
  PROVE  /\ p.dst \in Prb!Mine /\ p.src \in Prb!Hosts \cup {Router}
         /\ p.inner \in Prb!Hosts /\ p.inner = p.of.dst
         /\ p \in Prb!Noise \/ (p.of \in net /\ p \in Prb!Answers(p.of))
<1>1. CASE p \in Prb!Noise
  <2>1. Sources[1] \in Prb!Mine
    BY PartsAssumption DEF Prb!ProbeAssumption, Prb!Mine
  <2> QED
    BY <1>1, <2>1 DEF Prb!Noise, Prb!TcpPacket, Prb!IcmpPacket
<1>2. ASSUME NEW q \in net, p \in Prb!Answers(q)
      PROVE  /\ p.dst = q.src /\ p.src \in {q.dst, Router} /\ p.inner = q.dst /\ p.of = q
  BY <1>2 DEF Prb!Answers, Prb!TcpPacket, Prb!IcmpPacket
<1>3. \A q \in net : q.src \in Prb!Mine /\ q.dst \in Prb!Hosts
  BY DEF NetExact, Prb!Made
<1> QED
  BY <1>1, <1>2, <1>3 DEF Traffic

(* A stray packet answers nothing, whatever words it is compared with. *)
LEMMA NoiseRefused ==
  ASSUME NEW p \in Prb!Noise, NEW v \in Pair, v[1] # Prb!None
  PROVE  ~Prb!Validates(p, v) /\ ~p.of.exact
<1>1. CASE Prb!Tcp
  <2>1. p.type = "synack" /\ p.ack = <<<<Prb!None, Prb!None>>, 0>> /\ ~p.of.exact
    BY <1>1 DEF Prb!Noise, Prb!TcpPacket, Prb!Zero, Prb!Sum
  <2> QED
    BY <1>1, <2>1 DEF Prb!Validates, Prb!Tcp, Prb!synscan_probe_validate_packet,
       Prb!synackscan_probe_validate_packet, Prb!Sum
<1>2. CASE ~Prb!Tcp
  <2>1. p.seq = <<<<Prb!None, Prb!None>>, 0>> /\ ~p.of.exact
    BY <1>2 DEF Prb!Noise, Prb!IcmpPacket, Prb!Zero, Prb!Sum
  <2> QED
    BY <1>2, <2>1 DEF Prb!Validates, Prb!Tcp, Prb!icmp_probe_validate_packet,
       Prb!icmp_time_probe_validate_packet, Prb!Sum
<1> QED
  BY <1>1, <1>2

(* xm_check_dst_port accepts the port of every stream if none wraps. *)
LEMMA PortAccepted ==
  ASSUME NEW v, Prb!Number(v) \in Nat, ~Prb!PortsWrap(v), NEW i \in 0 .. Streams - 1
  PROVE  Prb!xm_check_dst_port(Prb!xm_get_src_port(v, i), v)
<1>1. PICK n \in Nat : n = Prb!Number(v)
  OBVIOUS
<1>2. /\ NumPorts \in Nat \ {0} /\ Word \in Nat \ {0} /\ Streams \in Nat \ {0}
      /\ n + Streams - 1 < Word /\ (n % NumPorts) + Streams - 1 < NumPorts
  BY <1>1, PartsAssumption DEF Prb!PortsWrap, Prb!ProbeAssumption
<1>3. PICK r \in 0 .. NumPorts - 1 : r = n % NumPorts
  BY <1>2, DivisionInt
<1>4. ASSUME NEW j \in 0 .. Streams - 1
      PROVE  ((n + j) % Word) % NumPorts = r + j /\ r + j \in 0 .. NumPorts - 1
  <2>1. n + j \in 0 .. Word - 1
    BY <1>2
  <2>2. (n + j) % Word = n + j
    BY <1>2, <2>1, SmallRemainder
  <2>3. j \in Nat /\ (n % NumPorts) + j < NumPorts
    BY <1>2, <1>3
  <2>4. (n + j) % NumPorts = (n % NumPorts) + j
    BY <1>2, <2>3, NextRemainder
  <2>5. r + j < NumPorts /\ (n % NumPorts) + j = r + j
    BY <1>3, <2>3
  <2>6. r + j \in 0 .. NumPorts - 1
    BY <1>2, <1>3, <2>5
  <2> QED
    BY <2>2, <2>4, <2>5, <2>6
<1>5. /\ Prb!xm_get_src_port(v, i) = r + i
      /\ ((n + (Streams - 1)) % Word) % NumPorts = r + (Streams - 1)
      /\ r + i \in 0 .. NumPorts - 1 /\ r + (Streams - 1) \in 0 .. NumPorts - 1
  BY <1>1, <1>2, <1>4 DEF Prb!xm_get_src_port
<1>6. n + (Streams - 1) = n + Streams - 1
  BY <1>2
<1>7. ASSUME NEW k \in 0 .. NumPorts - 1 PROVE Prb!Rem(k, NumPorts) = k
  BY <1>2, <1>7 DEF Prb!Rem
<1>8. /\ Prb!Rem((r + (Streams - 1)) - r, NumPorts) = Streams - 1
      /\ Prb!Rem((r + i) - r, NumPorts) = i
  <2>1. Streams - 1 \in 0 .. NumPorts - 1 /\ i \in 0 .. NumPorts - 1
    BY <1>2, <1>3, <1>5
  <2>2. (r + (Streams - 1)) - r = Streams - 1 /\ (r + i) - r = i
    BY <1>2
  <2> QED
    BY <1>7, <2>1, <2>2
<1> QED
  BY <1>1, <1>2, <1>3, <1>5, <1>6, <1>8 DEF Prb!xm_check_dst_port

ProbeType ==
  /\ probe \in Kinds /\ key \in PairKeys
  /\ aes_input \in [1 .. 2 -> Addresses \cup {Prb!None}]
  /\ gpc \in [Prb!Callers -> {"idle", "dst", "enc0", "enc1", "made"}]
  /\ args \in [Prb!Callers -> Pair] /\ validation \in [Prb!Callers -> Pair]
  /\ at \in [Senders -> Nat \ {0}] /\ stream \in [Senders -> 0 .. Streams - 1]
  /\ regen \in BOOLEAN

(* Whoever is in xm_validate_gen asked for two addresses, and the first    *)
(* word it reads is an address, though perhaps not its own.                *)
CallsExact ==
  /\ \A s \in Senders : gpc[s] # "idle" => args[s] \in Prb!Mine \X Prb!Hosts
  /\ \A c \in Prb!Callers :
       /\ gpc[c] # "idle" => aes_input[1] # Prb!None
       /\ gpc[c] \in {"enc1", "made"} => validation[c][1] # Prb!None

(* The receive task asked for the words of the packet it holds, and of     *)
(* what is inside an error the second time.                                *)
PacketExact ==
  gpc[Prb!Receiver] # "idle" =>
    /\ packet \in Traffic
    /\ args[Prb!Receiver] = <<packet.dst, IF regen THEN packet.inner ELSE packet.src>>
    /\ regen => ~Prb!Tcp /\ Prb!IsError(packet)

(* One packet is stored for each address that has answered. *)
StoreExact ==
  /\ \A r \in stored : Prb!Answerer(r.packet) \in seen
  /\ \A r, q \in stored : Prb!Answerer(r.packet) = Prb!Answerer(q.packet) => r = q
  /\ \A h \in seen : \E r \in stored : Prb!Answerer(r.packet) = h
  /\ \A r \in stored : Prb!IsError(r.packet) => r.packet.dst \in Prb!Mine

ProbeInv == ProbeType /\ NetExact /\ CallsExact /\ PacketExact /\ StoreExact

(* Nothing is asked, sent or stored in the beginning. *)
LEMMA InitProbe == ASSUME Prb!Init PROVE ProbeInv
<1>1. 0 \in 0 .. Streams - 1 /\ <<Prb!None, Prb!None>> \in Pair
  BY PartsAssumption DEF Prb!ProbeAssumption, Pair
<1>2. ProbeType
  <2>1. aes_input \in [1 .. 2 -> Addresses \cup {Prb!None}]
    BY DEF Prb!Init
  <2>2. args \in [Prb!Callers -> Pair] /\ validation \in [Prb!Callers -> Pair]
    BY <1>1 DEF Prb!Init
  <2>3. at \in [Senders -> Nat \ {0}] /\ stream \in [Senders -> 0 .. Streams - 1]
    BY <1>1 DEF Prb!Init
  <2> QED
    BY <2>1, <2>2, <2>3 DEF Prb!Init, ProbeType
<1> QED
  BY <1>2 DEF ProbeInv, Prb!Init, NetExact, CallsExact, PacketExact, StoreExact, Prb!Callers

(* What a probe is believed for, and when an answer is refused. *)
LEMMA OnlyAnswersHolds == ASSUME ProbeInv PROVE Prb!OnlyAnswers
<1> SUFFICES ASSUME Prb!Judges, Prb!Validates(packet, validation[Prb!Receiver])
             PROVE  packet.of \in net /\ packet.inner = packet.of.dst
  BY DEF Prb!OnlyAnswers
<1>1. packet \in Traffic /\ NetExact
  BY DEF Prb!Judges, ProbeInv, PacketExact
<1>2. validation[Prb!Receiver] \in Pair /\ validation[Prb!Receiver][1] # Prb!None
  BY DEF Prb!Judges, ProbeInv, ProbeType, CallsExact, Prb!Callers
<1> QED
  BY <1>1, <1>2, TrafficExact, NoiseRefused

(* The words of an unmixed probe come back, and its port is in the range. *)
LEMMA MissedOnlyHolds == ASSUME ProbeInv PROVE Prb!MissedOnly
<1> DEFINE v == validation[Prb!Receiver]
           q == packet.of
<1> SUFFICES ASSUME Prb!Judges, q \in net, q.exact, Prb!Exact(Prb!Receiver),
                    ~(Prb!Tcp /\ Prb!PortsWrap(q.seq[1])),
                    ~(Prb!IsError(packet) /\ packet.hl # 5),
                    ~(probe = "tcp_synackscan" /\ packet.ack = Prb!Zero)
             PROVE  Prb!Validates(packet, v)
  BY DEF Prb!MissedOnly
<1>1. /\ packet \in Traffic /\ NetExact
      /\ v = <<packet.dst, IF regen THEN packet.inner ELSE packet.src>>
      /\ Prb!Tcp => ~regen
      /\ ~Prb!Tcp => (regen <=> Prb!IsError(packet))
  BY DEF Prb!Judges, ProbeInv, ProbeType, PacketExact, Prb!Exact, Prb!NeedsRegen
<1>2. packet \in Prb!Answers(q)
  <2>1. v \in Pair /\ v[1] # Prb!None
    BY DEF Prb!Judges, ProbeInv, ProbeType, CallsExact, Prb!Callers
  <2> QED
    BY <1>1, <2>1, TrafficExact, NoiseRefused
<1>3. PICK src \in Prb!Mine, dst \in Prb!Hosts, i \in 0 .. Streams - 1 :
        q = Prb!Made(src, dst, <<src, dst>>, i)
  <2>1. PICK src \in Prb!Mine, dst \in Prb!Hosts, w \in Pair, i \in 0 .. Streams - 1 :
          q = Prb!Made(src, dst, w, i)
    BY <1>1 DEF NetExact
  <2>2. PICK p : p = Prb!Made(src, dst, w, i)
    OBVIOUS
  <2>3. p.exact <=> w = <<src, dst>>
    BY <2>2 DEF Prb!Made
  <2>4. w = <<src, dst>>
    BY <2>1, <2>2, <2>3
  <2> QED
    BY <2>1, <2>4
<1>4. q.src = src /\ q.dst = dst /\ q.seq = <<<<src, dst>>, 0>>
  BY <1>3 DEF Prb!Made, Prb!Sum
<1>5. CASE Prb!Tcp
  <2>1. /\ packet.dst = src /\ packet.src = dst /\ packet.port = q.port /\ packet.service
    BY <1>2, <1>4, <1>5 DEF Prb!Answers, Prb!Tcp, Prb!TcpPacket
  <2>2. v = <<src, dst>> /\ q.port = Prb!xm_get_src_port(v, i) /\ q.seq[1] = v
    BY <1>1, <1>3, <1>4, <1>5, <2>1 DEF Prb!Made
  <2>3. Prb!Number(v) \in Nat
    BY PartsAssumption DEF Prb!ProbeAssumption, ProbeInv, ProbeType, Prb!Number
  <2>4. Prb!xm_check_dst_port(packet.port, v)
    BY <1>5, <2>1, <2>2, <2>3, PortAccepted
  <2>5. CASE probe = "tcp_synscan"
    <3>1. packet.ack \in IF packet.type = "rst" THEN {Prb!Sum(v, 0), Prb!Sum(v, 1)} ELSE {Prb!Sum(v, 1)}
      BY <1>2, <1>4, <2>2, <2>5 DEF Prb!Answers, Prb!TcpPacket
    <3> QED
      BY <2>1, <2>4, <2>5, <3>1 DEF Prb!Validates, Prb!synscan_probe_validate_packet
  <2>6. CASE probe = "tcp_synackscan"
    <3>1. packet.ack = Prb!Sum(v, 1)
      BY <1>2, <1>4, <2>2, <2>6 DEF Prb!Answers, Prb!TcpPacket
    <3> QED
      BY <2>1, <2>4, <2>6, <3>1 DEF Prb!Validates, Prb!synackscan_probe_validate_packet
  <2> QED
    BY <1>5, <2>5, <2>6 DEF Prb!Tcp
<1>6. CASE ~Prb!Tcp
  <2>1. /\ packet.dst = src /\ packet.inner = dst /\ packet.seq = q.seq
        /\ ~Prb!IsError(packet) => packet.src = dst
    BY <1>2, <1>4, <1>6 DEF Prb!Answers, Prb!Tcp, Prb!IcmpPacket, Prb!IsError
  <2>2. packet.seq = Prb!Sum(v, 0)
    BY <1>1, <1>4, <1>6, <2>1 DEF Prb!Sum
  <2>3. probe \in {"icmp_echoscan", "icmp_echo_time"}
    BY <1>6, PartsAssumption DEF Prb!ProbeAssumption, ProbeInv, ProbeType, Prb!Tcp
  <2> QED
    BY <2>2, <2>3 DEF Prb!Validates, Prb!icmp_probe_validate_packet, Prb!icmp_time_probe_validate_packet
<1> QED
  BY <1>5, <1>6

(* Two packets have two answerers, and errors answer for addresses of ours. *)
LEMMA StoredOnceHolds == ASSUME ProbeInv PROVE Prb!StoredOnce
<1>1. ASSUME NEW r \in stored, NEW q \in stored
      PROVE  \/ r = q
             \/ IF Prb!IsError(r.packet) THEN r.packet.dst # q.packet.dst \/ ~Prb!IsError(q.packet)
                                         ELSE r.packet.src # q.packet.src \/ Prb!IsError(q.packet)
  BY DEF ProbeInv, StoreExact, Prb!Answerer
<1>2. ASSUME NEW h \in seen \ Prb!Mine
      PROVE  \E r \in stored : ~Prb!IsError(r.packet) /\ r.packet.src = h
  BY DEF ProbeInv, StoreExact, Prb!Answerer
<1> QED
  BY <1>1, <1>2 DEF Prb!StoredOnce

(* The probes of a scan go from its addresses to its targets. *)
LEMMA SourceIsMine ==
  ASSUME NEW h \in Prb!Hosts, NEW i \in Nat
  PROVE  Prb!get_src_ip(h, i) \in Prb!Mine
<1>1. PICK n \in Nat \ {0} : n = Len(Sources)
  BY PartsAssumption DEF Prb!ProbeAssumption
<1>2. PICK a \in Int : a = HostIndex[h] + i
  BY PartsAssumption DEF Prb!ProbeAssumption
<1>3. (a % n) + 1 \in 1 .. n
  BY DivisionInt
<1> QED
  BY <1>1, <1>2, <1>3, PartsAssumption DEF Prb!ProbeAssumption, Prb!get_src_ip, Prb!Mine

(* The host a send task is at is one of its targets. *)
LEMMA TargetIsHost ==
  ASSUME ProbeType, NEW s \in Senders, at[s] <= Len(Targets[s])
  PROVE  Prb!Host(s) \in Prb!Hosts
<1>1. at[s] \in DOMAIN Targets[s]
  BY PartsAssumption DEF Prb!ProbeAssumption, ProbeType
<1> QED
  BY <1>1 DEF Prb!Host, Prb!Hosts

(* What is asked for is unchanged, or is a packet of a target. *)
LEMMA Asked ==
  ASSUME ProbeInv, NEW s \in Senders, Prb!Validate(s)
  PROVE  <<Prb!get_src_ip(Prb!Host(s), stream[s]), Prb!Host(s)>> \in Prb!Mine \X Prb!Hosts
<1>1. Prb!Host(s) \in Prb!Hosts /\ stream[s] \in Nat
  BY TargetIsHost, PartsAssumption DEF ProbeInv, ProbeType, Prb!Validate, Prb!ProbeAssumption
<1> QED
  BY <1>1, SourceIsMine

(* The network only gains probes, so what was an answer stays one. *)
LEMMA TrafficGrows ==
  ASSUME UNCHANGED probe, net \subseteq net'
  PROVE  Traffic \subseteq Traffic'
BY DEF Traffic, Prb!Noise, Prb!Answers, Prb!Tcp, Prb!TcpPacket, Prb!IcmpPacket

(* What a probe is made of depends on the probe module and the key alone. *)
LEMMA NetKept ==
  ASSUME NetExact, UNCHANGED <<probe, key, net>>
  PROVE  NetExact'
BY DEF NetExact, Prb!Made, Prb!Tcp, Prb!xm_get_src_port, Prb!Number

(* Where nothing is stored everything stays as it was. *)
LEMMA StoreKept ==
  ASSUME StoreExact, UNCHANGED <<seen, stored>>
  PROVE  StoreExact'
BY DEF StoreExact, Prb!Answerer, Prb!IsError

(* xm_validate_gen reads and writes words; nobody else sees its steps. *)
LEMMA GenStep ==
  ASSUME ProbeInv, NEW c \in Prb!Callers, Prb!Gen(c)
  PROVE  ProbeInv'
<1>1. /\ ProbeType /\ NetExact /\ CallsExact /\ PacketExact /\ StoreExact
      /\ UNCHANGED <<probe, key, at, stream, net, packet, regen, captures, seen, stored, args>>
      /\ gpc[c] \in {"dst", "enc0", "enc1"}
  BY DEF ProbeInv, Prb!Gen, Prb!WriteWord, Prb!ReadWord, Prb!sendVars, Prb!recvVars
<1>2. ASSUME Prb!WriteWord(c) PROVE ProbeType' /\ CallsExact'
  <2>1. args[c][2] \in Addresses \cup {Prb!None}
    BY <1>1 DEF ProbeType, Pair
  <2>2. ProbeType'
    BY <1>1, <1>2, <2>1 DEF ProbeType, Prb!WriteWord
  <2>3. CallsExact'
    BY <1>1, <1>2 DEF ProbeType, CallsExact, Prb!WriteWord, Prb!Callers
  <2> QED
    BY <2>2, <2>3
<1>3. ASSUME Prb!ReadWord(c) PROVE ProbeType' /\ CallsExact'
  <2>1. /\ <<aes_input[1], Prb!None>> \in Pair /\ <<validation[c][1], aes_input[2]>> \in Pair
        /\ aes_input[1] # Prb!None /\ (gpc[c] = "enc1" => validation[c][1] # Prb!None)
    BY <1>1 DEF ProbeType, CallsExact, Pair
  <2>2. ProbeType'
    BY <1>1, <1>3, <2>1 DEF ProbeType, Prb!ReadWord
  <2>3. CallsExact'
    BY <1>1, <1>3, <2>1 DEF ProbeType, CallsExact, Prb!ReadWord, Prb!Callers
  <2> QED
    BY <2>2, <2>3
<1>4. PacketExact'
  <2>1. \A d \in Prb!Callers : gpc[d]' # "idle" => gpc[d] # "idle"
    BY <1>1 DEF ProbeType, Prb!Gen, Prb!WriteWord, Prb!ReadWord
  <2>2. Traffic \subseteq Traffic'
    BY <1>1, TrafficGrows
  <2> QED
    BY <1>1, <2>1, <2>2 DEF PacketExact, Prb!Callers, Prb!Tcp, Prb!IsError
<1> QED
  BY <1>1, <1>2, <1>3, <1>4, NetKept, StoreKept DEF ProbeInv, Prb!Gen

(* A send task asks for the words of its next packet. *)
LEMMA ValidateStep ==
  ASSUME ProbeInv, NEW s \in Senders, Prb!Validate(s)
  PROVE  ProbeInv'
<1> DEFINE src == Prb!get_src_ip(Prb!Host(s), stream[s])
           dst == Prb!Host(s)
<1>1. /\ ProbeType /\ NetExact /\ CallsExact /\ PacketExact /\ StoreExact
      /\ UNCHANGED <<probe, key, at, stream, net, packet, regen, captures, seen, stored, validation>>
      /\ args' = [args EXCEPT ![s] = <<src, dst>>] /\ aes_input' = [aes_input EXCEPT ![1] = src]
      /\ gpc' = [gpc EXCEPT ![s] = "dst"]
      /\ s \in Prb!Callers /\ s # Prb!Receiver /\ Prb!Receiver \in Prb!Callers
  BY PartsAssumption DEF ProbeInv, Prb!Validate, Prb!Call, Prb!sendVars, Prb!recvVars, Prb!Callers,
     Prb!ProbeAssumption
<1>2. src \in Prb!Mine /\ dst \in Prb!Hosts
  BY Asked
<1> HIDE DEF src, dst
<1>3. src \in Addresses /\ <<src, dst>> \in Pair /\ src # Prb!None
  BY <1>2, PartsAssumption DEF Pair, Addresses, Prb!ProbeAssumption
<1>4. ProbeType'
  BY <1>1, <1>3 DEF ProbeType
<1>5. CallsExact'
  BY <1>1, <1>2, <1>3 DEF ProbeType, CallsExact, Prb!Callers
<1>6. PacketExact'
  <2>1. gpc[Prb!Receiver]' = gpc[Prb!Receiver] /\ args[Prb!Receiver]' = args[Prb!Receiver]
    BY <1>1 DEF ProbeType
  <2>2. Traffic \subseteq Traffic'
    BY <1>1, TrafficGrows
  <2> QED
    BY <1>1, <2>1, <2>2 DEF PacketExact, Prb!Tcp, Prb!IsError
<1> QED
  BY <1>1, <1>4, <1>5, <1>6, NetKept, StoreKept DEF ProbeInv

(* It sends the packet with whatever words it got. *)
LEMMA SendStep ==
  ASSUME ProbeInv, NEW s \in Senders, Prb!Send(s)
  PROVE  ProbeInv'
<1> DEFINE made == Prb!Made(args[s][1], args[s][2], validation[s], stream[s])
<1>1. /\ ProbeType /\ NetExact /\ CallsExact /\ PacketExact /\ StoreExact
      /\ UNCHANGED <<probe, key, packet, regen, captures, seen, stored, aes_input>>
      /\ gpc[s] = "made" /\ gpc' = [gpc EXCEPT ![s] = "idle"]
      /\ args' = [args EXCEPT ![s] = <<Prb!None, Prb!None>>]
      /\ validation' = [validation EXCEPT ![s] = <<Prb!None, Prb!None>>]
      /\ net' = net \cup {made}
      /\ stream' = [stream EXCEPT ![s] = (@ + 1) % Streams]
      /\ at' = [at EXCEPT ![s] = IF stream[s] = Streams - 1 THEN @ + 1 ELSE @]
      /\ s \in Prb!Callers /\ s # Prb!Receiver /\ Prb!Receiver \in Prb!Callers
  BY PartsAssumption DEF ProbeInv, Prb!Send, Prb!Return, Prb!recvVars, Prb!Callers,
     Prb!ProbeAssumption
<1>2. ProbeType'
  <2>1. (stream[s] + 1) % Streams \in 0 .. Streams - 1
    <3>1. PICK a \in Int, n \in Nat \ {0} : a = stream[s] + 1 /\ n = Streams
      BY PartsAssumption, <1>1 DEF ProbeType, Prb!ProbeAssumption
    <3>2. a % n \in 0 .. n - 1
      BY DivisionInt
    <3> QED
      BY <3>1, <3>2
  <2>2. stream' \in [Senders -> 0 .. Streams - 1] /\ at' \in [Senders -> Nat \ {0}]
    BY <1>1, <2>1 DEF ProbeType
  <2>3. <<Prb!None, Prb!None>> \in Pair
    BY DEF Pair
  <2> QED
    BY <1>1, <2>2, <2>3 DEF ProbeType
<1>3. CallsExact'
  BY <1>1 DEF ProbeType, CallsExact, Prb!Callers
<1>4. NetExact'
  <2>1. /\ args[s][1] \in Prb!Mine /\ args[s][2] \in Prb!Hosts /\ validation[s] \in Pair
        /\ stream[s] \in 0 .. Streams - 1
    BY <1>1 DEF ProbeType, CallsExact
  <2>2. \A src, dst, v, i : Prb!Made(src, dst, v, i)' = Prb!Made(src, dst, v, i)
    BY <1>1 DEF Prb!Made, Prb!Tcp, Prb!xm_get_src_port, Prb!Number
  <2> QED
    BY <1>1, <2>1, <2>2 DEF NetExact
<1>5. PacketExact'
  <2>1. gpc[Prb!Receiver]' = gpc[Prb!Receiver] /\ args[Prb!Receiver]' = args[Prb!Receiver]
    BY <1>1 DEF ProbeType
  <2>2. Traffic \subseteq Traffic'
    BY <1>1, TrafficGrows
  <2> QED
    BY <1>1, <2>1, <2>2 DEF PacketExact, Prb!Tcp, Prb!IsError
<1> QED
  BY <1>1, <1>2, <1>3, <1>4, <1>5, StoreKept DEF ProbeInv

(* The receive task asks for the words of a packet that came in ... *)
LEMMA CaptureStep ==
  ASSUME ProbeInv, NEW p \in Traffic, Prb!Capture(p)
  PROVE  ProbeInv'
<1>1. /\ ProbeType /\ NetExact /\ CallsExact /\ StoreExact
      /\ UNCHANGED <<probe, key, at, stream, net, seen, stored, validation>>
      /\ packet' = p /\ regen' = FALSE
      /\ args' = [args EXCEPT ![Prb!Receiver] = <<p.dst, p.src>>]
      /\ aes_input' = [aes_input EXCEPT ![1] = p.dst]
      /\ gpc' = [gpc EXCEPT ![Prb!Receiver] = "dst"]
      /\ Prb!Receiver \in Prb!Callers /\ Prb!Receiver \notin Senders
  BY PartsAssumption DEF ProbeInv, Prb!Capture, Prb!Call, Prb!sendVars, Prb!Callers,
     Prb!ProbeAssumption
<1>2. p.dst \in Prb!Mine /\ p.src \in Prb!Hosts \cup {Router}
  BY <1>1, TrafficExact
<1>3. p.dst \in Addresses /\ <<p.dst, p.src>> \in Pair /\ p.dst # Prb!None
  BY <1>2, PartsAssumption DEF Pair, Addresses, Prb!ProbeAssumption
<1>4. ProbeType'
  BY <1>1, <1>3 DEF ProbeType
<1>5. CallsExact'
  BY <1>1, <1>3 DEF ProbeType, CallsExact, Prb!Callers
<1>6. PacketExact'
  <2>1. args[Prb!Receiver]' = <<p.dst, p.src>>
    BY <1>1 DEF ProbeType
  <2>2. Traffic \subseteq Traffic'
    BY <1>1, TrafficGrows
  <2> QED
    BY <1>1, <2>1, <2>2 DEF PacketExact
<1> QED
  BY <1>1, <1>4, <1>5, <1>6, NetKept, StoreKept DEF ProbeInv

(* ... and, of an error, for those of the probe inside it. *)
LEMMA RegenerateStep ==
  ASSUME ProbeInv, Prb!Regenerate
  PROVE  ProbeInv'
<1>1. /\ ProbeType /\ NetExact /\ CallsExact /\ PacketExact /\ StoreExact
      /\ UNCHANGED <<probe, key, at, stream, net, packet, captures, seen, stored, validation>>
      /\ regen' = TRUE /\ ~Prb!Tcp /\ Prb!IsError(packet)
      /\ args' = [args EXCEPT ![Prb!Receiver] = <<packet.dst, packet.inner>>]
      /\ aes_input' = [aes_input EXCEPT ![1] = packet.dst]
      /\ gpc[Prb!Receiver] = "made" /\ gpc' = [gpc EXCEPT ![Prb!Receiver] = "dst"]
      /\ Prb!Receiver \in Prb!Callers /\ Prb!Receiver \notin Senders
  BY PartsAssumption DEF ProbeInv, Prb!Regenerate, Prb!NeedsRegen, Prb!Call, Prb!sendVars,
     Prb!Callers, Prb!ProbeAssumption
<1>2. packet \in Traffic /\ packet.dst \in Prb!Mine /\ packet.inner \in Prb!Hosts
  BY <1>1, TrafficExact DEF PacketExact
<1>3. /\ packet.dst \in Addresses /\ <<packet.dst, packet.inner>> \in Pair
      /\ packet.dst # Prb!None
  BY <1>2, PartsAssumption DEF Pair, Addresses, Prb!ProbeAssumption
<1>4. ProbeType'
  BY <1>1, <1>3 DEF ProbeType
<1>5. CallsExact'
  BY <1>1, <1>3 DEF ProbeType, CallsExact, Prb!Callers
<1>6. PacketExact'
  <2>1. args[Prb!Receiver]' = <<packet.dst, packet.inner>>
    BY <1>1 DEF ProbeType
  <2>2. Traffic \subseteq Traffic'
    BY <1>1, TrafficGrows
  <2> QED
    BY <1>1, <1>2, <2>1, <2>2 DEF PacketExact, Prb!Tcp, Prb!IsError
<1> QED
  BY <1>1, <1>4, <1>5, <1>6, NetKept, StoreKept DEF ProbeInv

(* Its packet judged, the receive task holds none. *)
LEMMA DropStep ==
  ASSUME ProbeInv, Prb!Drop
  PROVE  ProbeType' /\ NetExact' /\ CallsExact' /\ PacketExact'
<1>1. /\ ProbeType /\ NetExact /\ CallsExact
      /\ UNCHANGED <<probe, key, at, stream, net, aes_input>>
      /\ regen' = FALSE
      /\ args' = [args EXCEPT ![Prb!Receiver] = <<Prb!None, Prb!None>>]
      /\ validation' = [validation EXCEPT ![Prb!Receiver] = <<Prb!None, Prb!None>>]
      /\ gpc' = [gpc EXCEPT ![Prb!Receiver] = "idle"]
      /\ Prb!Receiver \in Prb!Callers /\ Prb!Receiver \notin Senders
  BY PartsAssumption DEF ProbeInv, Prb!Drop, Prb!Return, Prb!sendVars, Prb!Callers,
     Prb!ProbeAssumption
<1>2. ProbeType'
  <2>1. <<Prb!None, Prb!None>> \in Pair
    BY DEF Pair
  <2> QED
    BY <1>1, <2>1 DEF ProbeType
<1>3. CallsExact'
  BY <1>1 DEF ProbeType, CallsExact, Prb!Callers
<1>4. PacketExact'
  BY <1>1 DEF ProbeType, PacketExact
<1> QED
  BY <1>1, <1>2, <1>3, <1>4, NetKept

(* A packet is stored when its answerer is new. *)
LEMMA BelieveStep ==
  ASSUME ProbeInv, Prb!Believe
  PROVE  StoreExact'
<1> DEFINE who == Prb!Answerer(packet)
<1>1. /\ StoreExact /\ packet \in Traffic /\ NetExact
      /\ seen' = seen \cup {who}
      /\ stored' = IF who \in seen THEN stored ELSE stored \cup {Prb!Result(packet)}
  BY DEF ProbeInv, PacketExact, Prb!Believe, Prb!Judges
<1>2. Prb!Result(packet).packet = packet /\ packet.dst \in Prb!Mine
  BY <1>1, TrafficExact DEF Prb!Result
<1>3. PICK new : new = Prb!Result(packet) /\ new.packet = packet
  BY <1>2
<1>4. CASE who \in seen
  BY <1>1, <1>4, StoreKept
<1>5. CASE who \notin seen
  <2>1. stored' = stored \cup {new} /\ Prb!Answerer(new.packet) = who
    BY <1>1, <1>3, <1>5
  <2> HIDE DEF who
  <2> QED
    BY <1>1, <1>2, <1>3, <1>5, <2>1 DEF StoreExact
<1> QED
  BY <1>4, <1>5

(* Every step of the senders, the receive task and their calls. *)
LEMMA ProbeStep ==
  ASSUME ProbeInv, [Prb!Next]_(Prb!vars)
  PROVE  ProbeInv'
<1>1. ASSUME Prb!Deliver PROVE ProbeInv'
  BY <1>1, CaptureStep DEF Prb!Deliver, Traffic
<1>2. ASSUME Prb!Refuse PROVE ProbeInv'
  BY <1>2, DropStep, StoreKept DEF Prb!Refuse, ProbeInv
<1>3. ASSUME Prb!Believe PROVE ProbeInv'
  BY <1>3, DropStep, BelieveStep DEF Prb!Believe, ProbeInv
<1>4. ASSUME UNCHANGED Prb!vars PROVE ProbeInv'
  <2>1. UNCHANGED <<probe, key, aes_input, gpc, args, validation, at, stream, net, packet, regen,
                    captures, seen, stored>>
    BY <1>4 DEF Prb!vars, Prb!genVars, Prb!sendVars, Prb!recvVars
  <2>2. ProbeType' /\ CallsExact'
    BY <2>1 DEF ProbeInv, ProbeType, CallsExact
  <2>3. PacketExact'
    BY <2>1, TrafficGrows DEF ProbeInv, PacketExact, Prb!Tcp, Prb!IsError
  <2> QED
    BY <2>1, <2>2, <2>3, NetKept, StoreKept DEF ProbeInv
<1> QED
  BY <1>1, <1>2, <1>3, <1>4, GenStep, ValidateStep, SendStep, RegenerateStep DEF Prb!Next, Prb!Over

ProbePart == part = "Probe" => ProbeInv

(* The steps of the other parts are those of other behaviours. *)
LEMMA ProbePartStep ==
  ASSUME ProbePart, [Next]_partVars
  PROVE  ProbePart'
<1> SUFFICES ASSUME part' = "Probe" PROVE ProbeInv'
  BY DEF ProbePart
<1>1. part = "Probe" /\ [Prb!Next]_(Prb!vars)
  BY DEF Next, partVars, Prb!vars, Prb!genVars, Prb!sendVars, Prb!recvVars
<1> QED
  BY <1>1, ProbeStep DEF ProbePart

(* xm_recv_task.c:53-141, xm_validate.c:41-48, xm_probe_tcpsynscan.c:81-123, *)
(* xm_probe_icmp.c:82-137: for any number of senders, hosts, addresses,     *)
(* ports and streams, whatever the words and however the calls of           *)
(* xm_validate_gen interleave, only answers are believed, and an answer is  *)
(* refused for the named reasons alone.                                     *)
THEOREM AnswersExactAlways == Spec => []AnswersExact
<1>1. Init => ProbePart
  BY InitProbe DEF Init, ProbePart
<1>2. ProbePart /\ [Next]_partVars => ProbePart'
  BY ProbePartStep
<1>3. ProbePart => AnswersExact
  BY OnlyAnswersHolds, MissedOnlyHolds DEF ProbePart, AnswersExact
<1> QED
  BY <1>1, <1>2, <1>3, PTL DEF Spec

(* xm_recv_task.c:89-141, xm_probe_icmp.c:120: one packet is stored for a    *)
(* host and one for all errors that reach an address of this scan, and no   *)
(* error hides a host's own answer.                                         *)
THEOREM StoredOnceAlways == Spec => []StoredOnce
<1>1. Init => ProbePart
  BY InitProbe DEF Init, ProbePart
<1>2. ProbePart /\ [Next]_partVars => ProbePart'
  BY ProbePartStep
<1>3. ProbePart => StoredOnce
  BY StoredOnceHolds DEF ProbePart, StoredOnce
<1> QED
  BY <1>1, <1>2, <1>3, PTL DEF Spec

-----------------------------------------------------------------------------
(* Pools.                                                                  *)
use == v1
pool == v2
given == v3
heap == v4
ran == v5
objs == v6
calls == v7

USE DEF use, pool, given, heap, ran, objs, calls

(* What Pools assumes of its constants. *)
LEMMA PoolsGiven ==
  /\ ALIGNMENT \in Nat \ {0} /\ MaxAlloc \in Nat /\ PoolCalls \in Nat
  /\ PoolHeader \in Nat /\ DataHeader \in Nat /\ Pool!Aligned(DataHeader) <= PoolHeader
  /\ LargeRecord \in Nat /\ CleanupRecord \in Nat
  /\ \A size \in PoolSizes :
       /\ size \in Nat /\ size % ALIGNMENT = 0
       /\ PoolHeader + LargeRecord <= size /\ PoolHeader + CleanupRecord <= size
  /\ AskedSizes \subseteq Nat /\ Limits \subseteq Nat /\ ObjectMem \in Nat
BY PartsAssumption DEF Pool!PoolsAssumption

(* Rounding up to whole words. *)
LEMMA AlignedUp ==
  ASSUME NEW m \in Nat
  PROVE  /\ Pool!Aligned(m) \in Nat /\ m <= Pool!Aligned(m) /\ Pool!Aligned(m) % ALIGNMENT = 0
         /\ \A s \in Nat : s % ALIGNMENT = 0 /\ m <= s => Pool!Aligned(m) <= s
<1> DEFINE A == ALIGNMENT
<1>0. A \in Nat \ {0}
  BY PoolsGiven
<1> HIDE DEF A
<1>1. PICK w \in Nat, y \in 0 .. A - 1 : (m + A - 1) = w * A + y /\ (m + A - 1) \div A = w
  <2>1. m + A - 1 \in Nat
    BY <1>0
  <2> QED BY <1>0, <2>1, Parted
<1>2. Pool!Aligned(m) = w * A
  BY <1>1 DEF Pool!Aligned, A
<1>3. w * A \in Nat /\ m <= w * A
  BY <1>0, <1>1
<1>4. (w * A) % A = 0
  <2>1. w * A + 0 = w * A /\ 0 \in 0 .. A - 1
    BY <1>0
  <2> QED BY <1>0, <2>1, Quotient
<1>5. ASSUME NEW s \in Nat, s % A = 0, m <= s PROVE w * A <= s
  <2>1. PICK q \in Nat : s = q * A
    <3>1. PICK q \in Nat, r \in 0 .. A - 1 : s = q * A + r /\ s % A = r
      BY <1>0, Parted
    <3> QED BY <1>0, <1>5, <3>1
  <2>2. ASSUME q < w PROVE FALSE
    <3>1. (q + 1) * A <= w * A
      BY <1>0, <2>2, ProductMonotone
    <3>2. (q + 1) * A = q * A + A
      BY <1>0
    <3> QED BY <1>0, <1>1, <1>5, <2>1, <3>1, <3>2
  <2>3. q * A >= w * A
    BY <1>0, <2>2, ProductMonotone
  <2> QED BY <2>1, <2>3
<1> QED BY <1>2, <1>3, <1>4, <1>5 DEF A

(* Blocks, what callers hold, and the pool. *)
Memory == [blk : Nat \ {0}, from : Nat, to : Nat, aligned : BOOLEAN]
Header(b) == IF b = 1 THEN PoolHeader ELSE DataHeader

PoolType(p) ==
  /\ p \in [size : PoolSizes, max : Int, current : Nat \ {0}, large : Seq(Nat), cleanup : Seq(Memory),
            older : Seq(Memory), blocks : Seq([last : Nat, failed : Nat])]
  /\ p.max <= p.size - PoolHeader
  /\ p.current <= Len(p.blocks)
  /\ \A b \in 1 .. Len(p.blocks) :
       p.blocks[b].last \in Nat /\ Header(b) <= p.blocks[b].last /\ p.blocks[b].last <= p.size

(* Memory that is inside its block, below the rest of it. *)
Inside(g, p) ==
  /\ g \in Memory /\ g.blk <= Len(p.blocks)
  /\ Header(g.blk) <= g.from /\ g.from <= g.to /\ g.to <= p.blocks[g.blk].last
  /\ g.aligned => g.from % ALIGNMENT = 0

(* The room a pool of any of the sizes has behind its header.               *)
LEMMA PoolRoom ==
  ASSUME NEW p, PoolType(p)
  PROVE  /\ p.size \in Nat /\ p.size % ALIGNMENT = 0
         /\ PoolHeader + LargeRecord <= p.size /\ PoolHeader + CleanupRecord <= p.size
         /\ \A s \in Nat : s <= p.max => PoolHeader + s <= p.size
BY PoolsGiven DEF PoolType

(* A place with room for more, and what is left when it is taken.           *)
LEMMA TakePlace ==
  ASSUME NEW p, PoolType(p), NEW size \in Nat, NEW align \in BOOLEAN, NEW b \in Pool!Fits(p, size, align)
  PROVE  LET m == Pool!Place(p, b, align)
         IN  /\ b \in p.current .. Len(p.blocks) /\ b \in 1 .. Len(p.blocks)
             /\ m \in Nat /\ p.blocks[b].last <= m /\ m + size <= p.size
             /\ align => m % ALIGNMENT = 0
<1>1. b \in p.current .. Len(p.blocks) /\ p.size - Pool!Place(p, b, align) \notin 0 .. size - 1
  BY DEF Pool!Fits
<1>2. /\ p.current \in Nat \ {0} /\ p.size \in Nat /\ p.size % ALIGNMENT = 0
      /\ p.blocks \in Seq([last : Nat, failed : Nat])
  <2>1. p.current \in Nat \ {0} /\ p.blocks \in Seq([last : Nat, failed : Nat])
    BY DEF PoolType
  <2> QED BY <2>1, PoolRoom
<1>3. b \in 1 .. Len(p.blocks)
  BY <1>1, <1>2
<1> DEFINE last == p.blocks[b].last
<1>4. last \in Nat /\ last <= p.size
  BY <1>3 DEF PoolType
<1>5. Pool!Place(p, b, align) = IF align THEN Pool!Aligned(last) ELSE last
  BY DEF Pool!Place
<1> HIDE DEF last
<1>6. /\ Pool!Aligned(last) \in Nat /\ last <= Pool!Aligned(last) /\ Pool!Aligned(last) % ALIGNMENT = 0
      /\ Pool!Aligned(last) <= p.size
  BY <1>2, <1>4, AlignedUp
<1> DEFINE m == Pool!Place(p, b, align)
<1>7. m \in Nat /\ last <= m /\ m <= p.size /\ (align => m % ALIGNMENT = 0)
  BY <1>2, <1>4, <1>5, <1>6
<1> HIDE DEF m
<1>8. m + size <= p.size
  BY <1>1, <1>2, <1>7 DEF m
<1> QED BY <1>1, <1>3, <1>7, <1>8 DEF last, m
(* What an allocation leaves of the pool and of what callers hold. *)
Grown(p, q) ==
  /\ q.size = p.size /\ q.max = p.max /\ q.large = p.large /\ q.cleanup = p.cleanup
  /\ Len(p.blocks) <= Len(q.blocks)
  /\ \A b \in 1 .. Len(p.blocks) : p.blocks[b].last <= q.blocks[b].last

(* What it gives is behind all that was given of the block.                 *)
Fresh(m, p, q) ==
  /\ Inside(m, q)
  /\ m.blk <= Len(p.blocks) => p.blocks[m.blk].last <= m.from

(* Memory of a block that has room. *)
LEMMA OldBlock ==
  ASSUME NEW p, PoolType(p), NEW size \in Nat, NEW align \in BOOLEAN, NEW b \in Pool!Fits(p, size, align)
  PROVE  LET m == Pool!Place(p, b, align)
             q == [p EXCEPT !.blocks[b].last = m + size]
         IN  PoolType(q) /\ Grown(p, q) /\ Fresh(Pool!Interval(b, m, size, align), p, q)
<1> DEFINE m == Pool!Place(p, b, align)
           q == [p EXCEPT !.blocks[b].last = m + size]
           g == Pool!Interval(b, m, size, align)
<1>1. /\ b \in p.current .. Len(p.blocks) /\ b \in 1 .. Len(p.blocks)
      /\ m \in Nat /\ p.blocks[b].last <= m /\ m + size <= p.size
      /\ align => m % ALIGNMENT = 0
  BY TakePlace
<1> HIDE DEF m
<1>2. p \in [size : PoolSizes, max : Int, current : Nat \ {0}, large : Seq(Nat), cleanup : Seq(Memory),
             older : Seq(Memory), blocks : Seq([last : Nat, failed : Nat])]
  BY DEF PoolType
<1>3. \A c \in 1 .. Len(p.blocks) :
        p.blocks[c].last \in Nat /\ Header(c) <= p.blocks[c].last /\ p.blocks[c].last <= p.size
  BY DEF PoolType
<1> DEFINE block == [p.blocks[b] EXCEPT !.last = m + size]
           blocks == [p.blocks EXCEPT ![b] = block]
<1>4. /\ q.size = p.size /\ q.max = p.max /\ q.large = p.large /\ q.cleanup = p.cleanup
      /\ q.current = p.current /\ q.blocks = blocks
      /\ q \in [size : PoolSizes, max : Int, current : Nat \ {0}, large : Seq(Nat), cleanup : Seq(Memory),
                older : Seq(Memory), blocks : {blocks}]
  BY <1>2
<1> DEFINE s == p.blocks
           T == [last : Nat, failed : Nat]
<1>5. s \in Seq(T)
  BY <1>2
<1> HIDE DEF q
<1>6. block \in T /\ block.last = m + size
  <2>1. s[b] \in T
    <3> HIDE DEF s, T
    <3> QED BY <1>1, <1>5 DEF s
  <2>2. m + size \in Nat
    BY <1>1
  <2> QED BY <2>1, <2>2
<1>7. /\ blocks \in Seq(T) /\ Len(blocks) = Len(s) /\ blocks[b] = block
      /\ \A c \in 1 .. Len(s) : c # b => blocks[c] = s[c]
  <2> HIDE DEF block, T, s
  <2> QED BY <1>1, <1>5, <1>6 DEF s
<1> HIDE DEF block, blocks, s, T
<1>8. \A c \in 1 .. Len(p.blocks) :
        /\ blocks[c].last \in Nat /\ Header(c) <= blocks[c].last /\ blocks[c].last <= p.size
        /\ p.blocks[c].last <= blocks[c].last
  <2> SUFFICES ASSUME NEW c \in 1 .. Len(p.blocks)
               PROVE  /\ blocks[c].last \in Nat /\ Header(c) <= blocks[c].last /\ blocks[c].last <= p.size
                      /\ p.blocks[c].last <= blocks[c].last
    OBVIOUS
  <2>1. CASE c = b
    <3>1. Header(c) \in Nat
      BY PoolsGiven DEF Header
    <3> DEFINE l == p.blocks[c].last
    <3>2. l \in Nat /\ Header(c) <= l /\ l <= m /\ blocks[c].last = m + size
      BY <1>1, <1>3, <1>6, <1>7, <2>1
    <3> HIDE DEF l
    <3> QED BY <1>1, <3>1, <3>2 DEF l
  <2>2. CASE c # b
    <3> DEFINE l == p.blocks[c].last
    <3>1. blocks[c].last = l
      BY <1>7, <2>2 DEF s
    <3>2. l \in Nat /\ Header(c) <= l /\ l <= p.size
      BY <1>3
    <3> HIDE DEF l
    <3> QED BY <3>1, <3>2 DEF l
  <2> QED BY <2>1, <2>2
<1>9. Grown(p, q)
  BY <1>4, <1>7, <1>8 DEF Grown, s
<1>10. PoolType(q)
  <2>1. q \in [size : PoolSizes, max : Int, current : Nat \ {0}, large : Seq(Nat), cleanup : Seq(Memory),
               older : Seq(Memory), blocks : Seq([last : Nat, failed : Nat])]
    BY <1>4, <1>7 DEF T
  <2>2. q.max <= q.size - PoolHeader /\ q.current <= Len(q.blocks)
    BY <1>4, <1>7 DEF PoolType, s
  <2>3. \A c \in 1 .. Len(q.blocks) :
          q.blocks[c].last \in Nat /\ Header(c) <= q.blocks[c].last /\ q.blocks[c].last <= q.size
    BY <1>4, <1>7, <1>8 DEF s
  <2> QED BY <2>1, <2>2, <2>3 DEF PoolType
<1>11. Fresh(g, p, q)
  <2>1. g.blk = b /\ g.from = m /\ g.to = m + size /\ (g.aligned <=> align)
    BY DEF Pool!Interval
  <2>2. g \in Memory
    <3>1. b \in Nat \ {0} /\ m \in Nat /\ m + size \in Nat
      BY <1>1
    <3> QED BY <3>1 DEF Pool!Interval, Memory
  <2>3. Header(b) <= m
    <3>1. Header(b) \in Nat
      BY PoolsGiven DEF Header
    <3> DEFINE l == p.blocks[b].last
    <3>2. l \in Nat /\ Header(b) <= l /\ l <= m
      BY <1>1, <1>3
    <3> HIDE DEF l
    <3> QED BY <1>1, <3>1, <3>2
  <2>4. q.blocks[b].last = m + size /\ b <= Len(q.blocks)
    BY <1>1, <1>4, <1>6, <1>7 DEF s
  <2> HIDE DEF g
  <2>5. m <= m + size
    BY <1>1
  <2>6. Inside(g, q)
    BY <1>1, <2>1, <2>2, <2>3, <2>4, <2>5 DEF Inside
  <2> QED BY <1>1, <2>1, <2>6 DEF Fresh
<1> QED BY <1>9, <1>10, <1>11 DEF m, q
(* The largest of some numbers below a bound. *)
LEMMA LargestOf ==
  ASSUME NEW n \in Nat, NEW S \in SUBSET (0 .. n), S # {}
  PROVE  \E w \in S : \A y \in S : y <= w
<1> DEFINE T == { n - y : y \in S }
<1>1. T \in SUBSET Nat /\ T # {}
  <2>1. \A y \in S : n - y \in Nat
    <3>1. \A y \in S : y \in 0 .. n
      OBVIOUS
    <3> QED BY <3>1
  <2> QED BY <2>1
<1>2. PICK z \in T : \A y \in T : z <= y
  <2> HIDE DEF T
  <2> QED BY <1>1, SmallestOf
<1>3. PICK w \in S : z = n - w
  BY <1>2
<1>4. ASSUME NEW y \in S PROVE y <= w
  <2>1. n - w <= n - y
    BY <1>2, <1>3
  <2>2. w \in 0 .. n /\ y \in 0 .. n
    OBVIOUS
  <2> QED BY <2>1, <2>2
<1> QED BY <1>4

(* Memory of a new block. *)
LEMMA NewBlock ==
  ASSUME NEW p, PoolType(p), NEW size \in Nat, PoolHeader + size <= p.size
  PROVE  LET r == Pool!xm_palloc_block(p, size)
         IN  PoolType(r.p) /\ Grown(p, r.p) /\ Fresh(r.m, p, r.p)
<1> DEFINE n == Len(p.blocks)
           tried == p.current .. n - 1
           m == Pool!Aligned(DataHeader)
           given_up == {b \in tried : p.blocks[b].failed > FailLimit}
           s == p.blocks
           T == [last : Nat, failed : Nat]
           counted == [b \in 1 .. n |-> IF b \in tried THEN [s[b] EXCEPT !.failed = @ + 1] ELSE s[b]]
           blocks == Append(counted, [last |-> m + size, failed |-> 0])
           current == IF given_up = {} THEN p.current
                      ELSE 1 + CHOOSE b \in given_up : \A c \in given_up : c <= b
           q == [p EXCEPT !.blocks = Append(counted, [last |-> m + size, failed |-> 0]),
                          !.current = IF given_up = {} THEN @
                                      ELSE 1 + CHOOSE b \in given_up : \A c \in given_up : c <= b]
           g == Pool!Interval(n + 1, m, size, TRUE)
<1>1. p \in [size : PoolSizes, max : Int, current : Nat \ {0}, large : Seq(Nat), cleanup : Seq(Memory),
             older : Seq(Memory), blocks : Seq(T)]
  BY DEF PoolType
<1>2. \A c \in 1 .. n :
        s[c].last \in Nat /\ Header(c) <= s[c].last /\ s[c].last <= p.size
  BY DEF PoolType
<1>3. Pool!xm_palloc_block(p, size) = [p |-> q, m |-> g]
  BY DEF Pool!xm_palloc_block
<1>4. n \in Nat \ {0} /\ p.current \in 1 .. n /\ s \in Seq(T)
  <2>1. p.current \in Nat \ {0} /\ s \in Seq(T) /\ p.current <= n
    BY <1>1 DEF PoolType
  <2>2. n \in Nat
    BY <2>1
  <2> HIDE DEF n, s
  <2> QED BY <2>1, <2>2
<1>5. m \in Nat /\ m + size <= p.size /\ DataHeader <= m /\ p.size \in Nat /\ m % ALIGNMENT = 0
  <2>1. m \in Nat /\ DataHeader <= m /\ m <= PoolHeader /\ m % ALIGNMENT = 0
    BY AlignedUp, PoolsGiven
  <2>2. p.size \in Nat /\ PoolHeader \in Nat
    BY PoolRoom, PoolsGiven
  <2> HIDE DEF m
  <2> QED BY <2>1, <2>2
<1>6. current \in Nat \ {0} /\ current <= n
  <2>1. CASE given_up = {}
    BY <1>4, <2>1
  <2>2. CASE given_up # {}
    <3>1. given_up \in SUBSET (0 .. n) /\ \A b \in given_up : b \in 1 .. n - 1
      <4> HIDE DEF s
      <4> QED BY <1>4
    <3> HIDE DEF given_up
    <3> DEFINE w == CHOOSE b \in given_up : \A c \in given_up : c <= b
    <3>2. w \in given_up
      <4>1. \E b \in given_up : \A c \in given_up : c <= b
        <5> HIDE DEF n
        <5> QED BY <1>4, <2>2, <3>1, LargestOf
      <4> QED BY <4>1
    <3>3. current = 1 + w
      BY <2>2
    <3> HIDE DEF w, current, n
    <3> QED BY <1>4, <3>1, <3>2, <3>3
  <2> QED BY <2>1, <2>2
<1>7. /\ q.size = p.size /\ q.max = p.max /\ q.large = p.large /\ q.cleanup = p.cleanup
      /\ q.current = current /\ q.blocks = blocks
      /\ q \in [size : PoolSizes, max : Int, current : {current}, large : Seq(Nat), cleanup : Seq(Memory),
                older : Seq(Memory), blocks : {blocks}]
  <2> DEFINE new == Append(counted, [last |-> m + size, failed |-> 0])
             now == IF given_up = {} THEN p.current
                    ELSE 1 + CHOOSE b \in given_up : \A c \in given_up : c <= b
  <2>1. q = [p EXCEPT !.blocks = new, !.current = now]
    OBVIOUS
  <2>2. new = blocks /\ now = current
    OBVIOUS
  <2> HIDE DEF q, new, now, blocks, current
  <2> QED BY <1>1, <2>1, <2>2
<1> HIDE DEF q, current
<1>8. \A c \in 1 .. n : counted[c] \in T /\ counted[c].last = s[c].last
  <2> SUFFICES ASSUME NEW c \in 1 .. n PROVE counted[c] \in T /\ counted[c].last = s[c].last
    OBVIOUS
  <2>1. s[c] \in T
    <3> HIDE DEF T
    <3> QED BY <1>4
  <2>2. counted[c] = IF c \in tried THEN [s[c] EXCEPT !.failed = @ + 1] ELSE s[c]
    OBVIOUS
  <2> HIDE DEF counted, s
  <2> QED BY <2>1, <2>2
<1>9. counted \in Seq(T) /\ Len(counted) = n /\ [last |-> m + size, failed |-> 0] \in T
  <2>1. counted = [b \in 1 .. n |-> counted[b]]
    OBVIOUS
  <2>2. [last |-> m + size, failed |-> 0] \in T
    BY <1>5
  <2> HIDE DEF counted, n, T
  <2> QED BY <1>4, <1>8, <2>1, <2>2
<1>10. /\ blocks \in Seq(T) /\ Len(blocks) = n + 1 /\ blocks[n + 1].last = m + size
       /\ \A c \in 1 .. n : blocks[c].last = s[c].last
  <2> DEFINE new == [last |-> m + size, failed |-> 0]
  <2>1. new.last = m + size
    OBVIOUS
  <2> HIDE DEF counted, n, T, new
  <2>2. /\ blocks \in Seq(T) /\ Len(blocks) = n + 1 /\ blocks[n + 1] = new
        /\ \A c \in 1 .. n : blocks[c] = counted[c]
    BY <1>4, <1>9 DEF new
  <2> HIDE DEF blocks
  <2> QED BY <1>8, <2>1, <2>2
<1> HIDE DEF blocks, s, m, T
<1>11. Header(n + 1) = DataHeader /\ n + 1 # 1 /\ n + 1 \in Nat \ {0}
  BY <1>4 DEF Header
<1>12. PoolType(q)
  <2>1. q \in [size : PoolSizes, max : Int, current : Nat \ {0}, large : Seq(Nat), cleanup : Seq(Memory),
               older : Seq(Memory), blocks : Seq([last : Nat, failed : Nat])]
    BY <1>6, <1>7, <1>10 DEF T
  <2>2. q.max <= q.size - PoolHeader /\ q.current <= Len(q.blocks)
    <3>1. q.max <= q.size - PoolHeader
      BY <1>7 DEF PoolType
    <3>2. current <= n + 1
      <4> HIDE DEF n
      <4> QED BY <1>4, <1>6
    <3> QED BY <1>7, <1>10, <3>1, <3>2
  <2>3. ASSUME NEW c \in 1 .. n + 1
        PROVE  blocks[c].last \in Nat /\ Header(c) <= blocks[c].last /\ blocks[c].last <= p.size
    <3>1. CASE c \in 1 .. n
      BY <1>2, <1>10, <3>1
    <3>2. CASE c = n + 1
      <4>1. Header(c) <= m + size
        BY <1>5, <1>11, <3>2, PoolsGiven
      <4>2. m + size \in Nat
        BY <1>5
      <4> QED BY <1>5, <1>10, <3>2, <4>1, <4>2
    <3> HIDE DEF n
    <3>3. c \in 1 .. n \/ c = n + 1
      BY <1>4
    <3> QED BY <3>1, <3>2, <3>3
  <2> QED BY <1>7, <1>10, <2>1, <2>2, <2>3 DEF PoolType
<1>13. Grown(p, q)
  <2>1. \A c \in 1 .. n : s[c].last <= blocks[c].last
    BY <1>2, <1>10
  <2>2. n <= n + 1
    BY <1>4
  <2> QED BY <1>7, <1>10, <2>1, <2>2 DEF Grown, s
<1>14. Fresh(g, p, q)
  <2>1. g.blk = n + 1 /\ g.from = m /\ g.to = m + size
    BY DEF Pool!Interval
  <2>2. g \in Memory
    <3>1. m + size \in Nat
      BY <1>5
    <3> QED BY <1>5, <1>11, <3>1 DEF Pool!Interval, Memory
  <2> HIDE DEF g
  <2>3. m <= m + size /\ ~(n + 1 <= n)
    BY <1>4, <1>5
  <2>4. Inside(g, q)
    BY <1>5, <1>7, <1>10, <1>11, <2>1, <2>2, <2>3 DEF Inside
  <2> QED BY <2>1, <2>3, <2>4 DEF Fresh
<1>15. [p |-> q, m |-> g].p = q /\ [p |-> q, m |-> g].m = g
  OBVIOUS
<1> QED BY <1>3, <1>12, <1>13, <1>14, <1>15

(* Either way, or with no memory. *)
LEMMA SmallKept ==
  ASSUME NEW p, PoolType(p), NEW size \in Nat, PoolHeader + size <= p.size, NEW align \in BOOLEAN,
         NEW r \in Pool!xm_palloc_small(p, size, align)
  PROVE  PoolType(r.p) /\ Grown(p, r.p) /\ (r.m # Pool!None => Fresh(r.m, p, r.p))
<1> DEFINE fits == Pool!Fits(p, size, align)
           b == CHOOSE c \in fits : \A d \in fits : c <= d
           m == Pool!Place(p, b, align)
           q == [p EXCEPT !.blocks[b].last = m + size]
           g == Pool!Interval(b, m, size, align)
<1>1. CASE fits # {}
  <2>1. r = [p |-> q, m |-> g]
    BY <1>1 DEF Pool!xm_palloc_small
  <2>2. r.p = q /\ r.m = g
    BY <2>1
  <2>3. b \in fits
    <3>1. fits \in SUBSET Nat
      <4>1. \A c \in fits : c \in Nat
        <5>1. \A c \in fits : c \in 1 .. Len(p.blocks)
          BY TakePlace
        <5> QED BY <5>1
      <4> QED BY <4>1
    <3> HIDE DEF fits
    <3>2. \E c \in fits : \A d \in fits : c <= d
      BY <1>1, <3>1, SmallestOf
    <3> QED BY <3>2
  <2> HIDE DEF b
  <2>4. PoolType(q) /\ Grown(p, q) /\ Fresh(g, p, q)
    BY <2>3, OldBlock
  <2> QED BY <2>2, <2>4
<1>2. CASE fits = {}
  <2>1. r = Pool!xm_palloc_block(p, size) \/ r = [p |-> p, m |-> Pool!None]
    BY <1>2 DEF Pool!xm_palloc_small
  <2>2. CASE r = Pool!xm_palloc_block(p, size)
    BY <2>2, NewBlock
  <2>3. CASE r = [p |-> p, m |-> Pool!None]
    <3>1. r.p = p /\ r.m = Pool!None
      BY <2>3
    <3>2. Grown(p, p)
      <4>1. Len(p.blocks) <= Len(p.blocks) /\ \A c \in 1 .. Len(p.blocks) : p.blocks[c].last <= p.blocks[c].last
        <5>1. Len(p.blocks) \in Nat
          BY DEF PoolType
        <5>2. \A c \in 1 .. Len(p.blocks) : p.blocks[c].last \in Nat
          BY DEF PoolType
        <5> QED BY <5>1, <5>2
      <4> QED BY <4>1 DEF Grown
    <3> QED BY <3>1, <3>2
  <2> QED BY <2>1, <2>2, <2>3
<1> QED BY <1>1, <1>2

(* What callers hold is inside its block and nobody else's. *)
GivenApart(G, p) ==
  /\ \A g \in G : Inside(g, p)
  /\ \A g, h \in G : g # h /\ g.blk = h.blk => h.to <= g.from \/ g.to <= h.from

(* Every live malloc is in one record, every other record has none.         *)
LargeExact(large, H) ==
  /\ IsFiniteSet(H) /\ H \subseteq Nat \ {0}
  /\ \A i \in DOMAIN large : large[i] = 0 \/ large[i] \in H
  /\ \A id \in H : \E i \in DOMAIN large : large[i] = id
  /\ \A i, j \in DOMAIN large : large[i] = large[j] => i = j \/ large[i] = 0

CleanupHeld(cleanup, G) == \A i \in DOMAIN cleanup : cleanup[i] \in G

PoolOk(p, G, H) ==
  PoolType(p) /\ GivenApart(G, p) /\ LargeExact(p.large, H) /\ CleanupHeld(p.cleanup, G)

(* Nothing an allocation does touches what callers hold.                    *)
LEMMA StaysInside ==
  ASSUME NEW p, NEW q, PoolType(p), PoolType(q), Grown(p, q), NEW g, Inside(g, p)
  PROVE  Inside(g, q)
<1>1. g.blk \in Nat \ {0} /\ g.blk <= Len(p.blocks) /\ Len(p.blocks) \in Nat /\ Len(q.blocks) \in Nat
  <2>1. Len(p.blocks) \in Nat /\ Len(q.blocks) \in Nat
    BY DEF PoolType
  <2> QED BY <2>1 DEF Inside, Memory
<1> DEFINE b == g.blk
<1>2. b \in 1 .. Len(p.blocks) /\ b \in 1 .. Len(q.blocks) /\ b <= Len(q.blocks)
  BY <1>1 DEF Grown
<1> DEFINE l == p.blocks[b].last
           k == q.blocks[b].last
<1>3. l \in Nat /\ k \in Nat /\ l <= k
  BY <1>2 DEF PoolType, Grown
<1>4. g.to \in Nat /\ g.to <= l
  BY DEF Inside, Memory
<1> HIDE DEF l, k
<1>5. g.to <= k
  BY <1>3, <1>4
<1> QED BY <1>2, <1>5 DEF Inside, k

(* So all of them keep their memory. *)
LEMMA GivenKept ==
  ASSUME NEW p, NEW q, PoolType(p), PoolType(q), Grown(p, q), NEW G, GivenApart(G, p)
  PROVE  GivenApart(G, q)
BY StaysInside DEF GivenApart

(* What an allocation gives is apart from all that.                         *)
LEMMA GivenGrows ==
  ASSUME NEW p, NEW q, PoolType(p), PoolType(q), Grown(p, q), NEW G, GivenApart(G, p),
         NEW m, Fresh(m, p, q)
  PROVE  GivenApart(G \cup {m}, q)
<1>1. GivenApart(G, q)
  BY GivenKept
<1>2. Inside(m, q)
  BY DEF Fresh
<1>3. ASSUME NEW g \in G, g.blk = m.blk PROVE g.to <= m.from
  <2>1. Inside(g, p)
    BY DEF GivenApart
  <2>2. m.blk <= Len(p.blocks)
    BY <1>3, <2>1 DEF Inside
  <2> DEFINE l == p.blocks[m.blk].last
  <2>3. g.to <= l /\ l <= m.from /\ g.to \in Nat /\ m.from \in Nat
    BY <1>2, <1>3, <2>1, <2>2 DEF Inside, Fresh, Memory
  <2>4. l \in Nat
    <3>1. m.blk \in 1 .. Len(p.blocks)
      <4>1. Len(p.blocks) \in Nat /\ m.blk \in Nat \ {0}
        BY <1>2 DEF PoolType, Inside, Memory
      <4> QED BY <2>2, <4>1
    <3> QED BY <3>1 DEF PoolType
  <2> HIDE DEF l
  <2> QED BY <2>3, <2>4
<1> QED BY <1>1, <1>2, <1>3 DEF GivenApart

(* A number that no malloc has.                                             *)
LEMMA NewIdFree ==
  ASSUME NEW H, IsFiniteSet(H), H \subseteq Nat \ {0},
         NEW id, id = CHOOSE i \in 1 .. Cardinality(H) + 1 : i \notin H
  PROVE  id \in Nat \ {0} /\ id \notin H
<1> DEFINE n == Cardinality(H)
<1>1. n \in Nat
  BY FS_CardinalityType
<1>2. \E i \in 1 .. n + 1 : i \notin H
  <2> SUFFICES ASSUME 1 .. n + 1 \subseteq H PROVE FALSE
    OBVIOUS
  <2>1. Cardinality(1 .. n + 1) <= n
    BY FS_Subset
  <2>2. Cardinality(1 .. n + 1) = n + 1
    <3>1. 1 <= n + 1 /\ 1 \in Int /\ n + 1 \in Int
      BY <1>1
    <3> HIDE DEF n
    <3>2. Cardinality(1 .. n + 1) = IF 1 > n + 1 THEN 0 ELSE (n + 1) - 1 + 1
      BY <3>1, FS_Interval
    <3> QED BY <1>1, <3>1, <3>2
  <2> HIDE DEF n
  <2> QED BY <1>1, <2>1, <2>2
<1> HIDE DEF n
<1>3. id \in 1 .. n + 1 /\ id \notin H
  BY <1>2 DEF n
<1> QED BY ONLY <1>1, <1>3

(* Pools has the sizes of sets from its own copy of FiniteSets. *)
LEMMA SamePoolCount ==
  /\ \A S : Pool!IsFiniteSet(S) <=> IsFiniteSet(S)
  /\ \A S : Pool!Cardinality(S) = Cardinality(S)
<1>1. \A S : Pool!IsFiniteSet(S) <=> IsFiniteSet(S)
  BY DEF Pool!IsFiniteSet, IsFiniteSet
<1>2. \A S : Pool!Cardinality(S) = Cardinality(S)
  BY DEF Pool!Cardinality, Cardinality
<1> QED BY <1>1, <1>2

(* xm_mpool.c:89-151: an allocation keeps all the callers' memory apart.    *)
LEMMA SmallOk ==
  ASSUME NEW p, NEW G, NEW H, PoolOk(p, G, H), NEW size \in Nat, PoolHeader + size <= p.size,
         NEW align \in BOOLEAN, NEW r \in Pool!xm_palloc_small(p, size, align)
  PROVE  /\ PoolOk(r.p, G \cup Pool!Held(r.m), H)
         /\ r.p.size = p.size /\ r.p.max = p.max
         /\ r.m # Pool!None => r.m \in Memory
<1>1. PoolType(p) /\ GivenApart(G, p) /\ LargeExact(p.large, H) /\ CleanupHeld(p.cleanup, G)
  BY DEF PoolOk
<1>2. PoolType(r.p) /\ Grown(p, r.p) /\ (r.m # Pool!None => Fresh(r.m, p, r.p))
  BY <1>1, SmallKept
<1>3. r.p.size = p.size /\ r.p.max = p.max /\ r.p.large = p.large /\ r.p.cleanup = p.cleanup
  BY <1>2 DEF Grown
<1>4. CASE r.m = Pool!None
  <2>1. G \cup Pool!Held(r.m) = G
    BY <1>4 DEF Pool!Held
  <2>2. GivenApart(G, r.p)
    BY <1>1, <1>2, GivenKept
  <2> QED BY <1>1, <1>2, <1>3, <1>4, <2>1, <2>2 DEF PoolOk
<1>5. CASE r.m # Pool!None
  <2>1. Pool!Held(r.m) = {r.m}
    BY <1>5 DEF Pool!Held
  <2>2. GivenApart(G \cup {r.m}, r.p)
    BY <1>1, <1>2, <1>5, GivenGrows
  <2>3. CleanupHeld(p.cleanup, G \cup {r.m})
    BY <1>1 DEF CleanupHeld
  <2>4. r.m \in Memory
    BY <1>2, <1>5 DEF Fresh, Inside
  <2> QED BY <1>1, <1>2, <1>3, <2>1, <2>2, <2>3, <2>4 DEF PoolOk
<1> QED BY <1>4, <1>5

(* Only the blocks count for what callers hold. *)
LEMMA SameBlocks ==
  ASSUME NEW p, NEW q, NEW G, GivenApart(G, p), q.blocks = p.blocks
  PROVE  GivenApart(G, q)
BY DEF GivenApart, Inside

(* A malloc gets a record of its own... *)
LEMMA RecordOk ==
  ASSUME NEW p, NEW G, NEW H, PoolOk(p, G, H), NEW id \in Nat \ {0}, id \notin H
  PROVE  PoolOk([p EXCEPT !.large = <<id>> \o @], G, H \cup {id})
<1> DEFINE q == [p EXCEPT !.large = <<id>> \o @]
           s == p.large
           t == <<id>> \o s
<1>1. PoolType(p) /\ GivenApart(G, p) /\ LargeExact(s, H) /\ CleanupHeld(p.cleanup, G)
  BY DEF PoolOk
<1>2. s \in Seq(Nat)
  BY <1>1 DEF PoolType
<1>3. /\ t \in Seq(Nat) /\ Len(t) = Len(s) + 1 /\ t[1] = id /\ Len(s) \in Nat
      /\ \A i \in 1 .. Len(s) : t[i + 1] = s[i]
      /\ \A i \in 1 .. Len(t) : i # 1 => i - 1 \in 1 .. Len(s) /\ t[i] = s[i - 1]
  <2> HIDE DEF s
  <2> QED BY <1>2
<1>4. /\ q.large = t /\ q.blocks = p.blocks /\ q.cleanup = p.cleanup /\ q.size = p.size
      /\ q.max = p.max /\ q.current = p.current /\ PoolType(q)
  <2>1. /\ q.large = t /\ q.blocks = p.blocks /\ q.cleanup = p.cleanup /\ q.size = p.size
        /\ q.max = p.max /\ q.current = p.current
    BY <1>1 DEF PoolType
  <2>2. q \in [size : PoolSizes, max : Int, current : Nat \ {0}, large : Seq(Nat), cleanup : Seq(Memory),
               older : Seq(Memory), blocks : Seq([last : Nat, failed : Nat])]
    <3> HIDE DEF t
    <3> QED BY <1>1, <1>3 DEF PoolType, t
  <2> HIDE DEF q
  <2> QED BY <1>1, <2>1, <2>2 DEF PoolType
<1> HIDE DEF q, s, t
<1>5. GivenApart(G, q)
  BY <1>1, <1>4, SameBlocks
<1>6. LargeExact(t, H \cup {id})
  <2>1. IsFiniteSet(H \cup {id}) /\ H \cup {id} \subseteq Nat \ {0}
    BY <1>1, FS_AddElement DEF LargeExact
  <2>2. DOMAIN t = 1 .. Len(t) /\ DOMAIN s = 1 .. Len(s)
    BY <1>2, <1>3
  <2>3. /\ \A i \in 1 .. Len(s) : s[i] = 0 \/ s[i] \in H
        /\ \A w \in H : \E i \in 1 .. Len(s) : s[i] = w
        /\ \A i, j \in 1 .. Len(s) : s[i] = s[j] => i = j \/ s[i] = 0
    BY <1>1, <2>2 DEF LargeExact
  <2>4. \A i \in 1 .. Len(t) : t[i] = 0 \/ t[i] \in H \cup {id}
    BY <1>3, <2>3
  <2>5. ASSUME NEW w \in H \cup {id} PROVE \E i \in 1 .. Len(t) : t[i] = w
    <3>1. CASE w = id
      BY <1>3, <3>1
    <3>2. CASE w \in H
      <4>1. PICK i \in 1 .. Len(s) : s[i] = w
        BY <2>3, <3>2
      <4>2. i + 1 \in 1 .. Len(t) /\ t[i + 1] = w
        BY <1>3, <4>1
      <4> QED BY <4>2
    <3> QED BY <3>1, <3>2
  <2>6. ASSUME NEW i \in 1 .. Len(t), NEW j \in 1 .. Len(t), t[i] = t[j] PROVE i = j \/ t[i] = 0
    <3>1. CASE i = 1 /\ j = 1
      BY <3>1
    <3>2. CASE i # 1 /\ j # 1
      <4>1. /\ i - 1 \in 1 .. Len(s) /\ j - 1 \in 1 .. Len(s)
            /\ t[i] = s[i - 1] /\ t[j] = s[j - 1]
        BY <1>3, <3>2
      <4>2. i - 1 = j - 1 \/ t[i] = 0
        <5>1. s[i - 1] = s[j - 1]
          BY <2>6, <4>1
        <5>2. i - 1 = j - 1 \/ s[i - 1] = 0
          BY <2>3, <4>1, <5>1
        <5> QED BY <4>1, <5>2
      <4>3. i \in Int /\ j \in Int
        BY <1>3
      <4> QED BY ONLY <4>2, <4>3
    <3>3. \A m \in 1 .. Len(t) : m # 1 => t[m] # id
      <4>1. \A m \in 1 .. Len(s) : s[m] # id
        BY <2>3
      <4>2. ASSUME NEW m \in 1 .. Len(t), m # 1 PROVE t[m] # id
        <5>1. m - 1 \in 1 .. Len(s) /\ t[m] = s[m - 1]
          BY <1>3, <4>2
        <5> QED BY <4>1, <5>1
      <4> QED BY <4>2
    <3>4. CASE ~(i = 1 <=> j = 1)
      BY <1>3, <2>6, <3>3, <3>4
    <3> QED BY <3>1, <3>2, <3>4
  <2> QED BY <2>1, <2>2, <2>4, <2>5, <2>6 DEF LargeExact
<1> QED BY <1>1, <1>4, <1>5, <1>6 DEF PoolOk, q

(* ... or one of a record that has none; freed, it leaves its record.       *)
LEMMA EntryOk ==
  ASSUME NEW p, NEW G, NEW H, PoolOk(p, G, H), NEW k \in DOMAIN p.large, NEW id \in Nat,
         NEW J, IsFiniteSet(J), J \subseteq Nat \ {0},
         \/ p.large[k] = 0 /\ id \notin H /\ id # 0 /\ J = H \cup {id}
         \/ p.large[k] # 0 /\ id = 0 /\ J = H \ {p.large[k]}
  PROVE  PoolOk([p EXCEPT !.large[k] = id], G, J)
<1> DEFINE q == [p EXCEPT !.large[k] = id]
           s == p.large
           t == [s EXCEPT ![k] = id]
<1>1. PoolType(p) /\ GivenApart(G, p) /\ LargeExact(s, H) /\ CleanupHeld(p.cleanup, G)
  BY DEF PoolOk
<1>2. s \in Seq(Nat)
  BY <1>1 DEF PoolType
<1>3. /\ t \in Seq(Nat) /\ DOMAIN t = DOMAIN s /\ t[k] = id
      /\ \A i \in DOMAIN s : i # k => t[i] = s[i]
  <2> HIDE DEF s
  <2> QED BY <1>2 DEF s
<1>4. /\ q.large = t /\ q.blocks = p.blocks /\ q.cleanup = p.cleanup /\ q.size = p.size
      /\ q.max = p.max /\ q.current = p.current /\ PoolType(q)
  <2>1. /\ q.large = t /\ q.blocks = p.blocks /\ q.cleanup = p.cleanup /\ q.size = p.size
        /\ q.max = p.max /\ q.current = p.current
    BY <1>1 DEF PoolType
  <2>2. q \in [size : PoolSizes, max : Int, current : Nat \ {0}, large : Seq(Nat), cleanup : Seq(Memory),
               older : Seq(Memory), blocks : Seq([last : Nat, failed : Nat])]
    <3> HIDE DEF t
    <3> QED BY <1>1, <1>3 DEF PoolType, t
  <2> HIDE DEF q
  <2> QED BY <1>1, <2>1, <2>2 DEF PoolType
<1>5. p.large[k] = s[k] /\ k \in DOMAIN s
  OBVIOUS
<1> HIDE DEF q, s, t
<1>6. GivenApart(G, q)
  BY <1>1, <1>4, SameBlocks
<1>7. LargeExact(t, J)
  <2>1. /\ \A i \in DOMAIN s : s[i] = 0 \/ s[i] \in H
        /\ \A w \in H : \E i \in DOMAIN s : s[i] = w
        /\ \A i, j \in DOMAIN s : s[i] = s[j] => i = j \/ s[i] = 0
        /\ H \subseteq Nat \ {0}
    BY <1>1 DEF LargeExact
  <2>2. \A i \in DOMAIN t : t[i] = 0 \/ t[i] \in J
    BY <1>3, <1>5, <2>1
  <2>3. ASSUME NEW w \in J PROVE \E i \in DOMAIN t : t[i] = w
    <3>1. CASE w = id
      BY <1>3, <1>5, <3>1
    <3>2. CASE w # id
      <4>1. w \in H /\ w # s[k]
        BY <1>5, <2>1, <2>3, <3>2
      <4>2. PICK i \in DOMAIN s : s[i] = w
        BY <2>1, <4>1
      <4> QED BY <1>3, <4>1, <4>2
    <3> QED BY <3>1, <3>2
  <2>4. \A i, j \in DOMAIN t : t[i] = t[j] => i = j \/ t[i] = 0
    BY <1>3, <1>5, <2>1
  <2> QED BY <2>2, <2>3, <2>4 DEF LargeExact
<1> QED BY <1>1, <1>4, <1>6, <1>7 DEF PoolOk, q

(* A handler's record is memory of the pool. *)
LEMMA CleanupOk ==
  ASSUME NEW p, NEW G, NEW H, PoolOk(p, G, H), NEW m \in G
  PROVE  PoolOk([p EXCEPT !.cleanup = <<m>> \o @], G, H)
<1> DEFINE q == [p EXCEPT !.cleanup = <<m>> \o @]
           s == p.cleanup
           t == <<m>> \o s
<1>1. PoolType(p) /\ GivenApart(G, p) /\ LargeExact(p.large, H) /\ CleanupHeld(s, G)
  BY DEF PoolOk
<1>2. s \in Seq(Memory) /\ m \in Memory
  BY <1>1 DEF PoolType, GivenApart, Inside
<1>3. /\ t \in Seq(Memory) /\ t[1] = m /\ DOMAIN t = 1 .. Len(s) + 1 /\ DOMAIN s = 1 .. Len(s)
      /\ \A i \in DOMAIN t : i # 1 => i - 1 \in 1 .. Len(s) /\ t[i] = s[i - 1]
  <2> HIDE DEF s
  <2> QED BY <1>2
<1>4. /\ q.large = p.large /\ q.blocks = p.blocks /\ q.cleanup = t /\ q.size = p.size
      /\ q.max = p.max /\ q.current = p.current /\ PoolType(q)
  <2>1. /\ q.large = p.large /\ q.blocks = p.blocks /\ q.cleanup = t /\ q.size = p.size
        /\ q.max = p.max /\ q.current = p.current
    BY <1>1 DEF PoolType
  <2>2. q \in [size : PoolSizes, max : Int, current : Nat \ {0}, large : Seq(Nat), cleanup : Seq(Memory),
               older : Seq(Memory), blocks : Seq([last : Nat, failed : Nat])]
    <3> HIDE DEF t
    <3> QED BY <1>1, <1>3 DEF PoolType, t
  <2> HIDE DEF q
  <2> QED BY <1>1, <2>1, <2>2 DEF PoolType
<1> HIDE DEF q, s, t
<1>5. CleanupHeld(t, G)
  BY <1>1, <1>3 DEF CleanupHeld
<1> QED BY <1>1, <1>4, <1>5, SameBlocks DEF PoolOk, q

(* xm_mpool.c:13-37: the pool begins empty, with room for a record.         *)
LEMMA CreateOk ==
  ASSUME NEW size \in PoolSizes
  PROVE  PoolOk(Pool!xm_pool_create(size), {}, {})
<1> DEFINE block == [last |-> PoolHeader, failed |-> 0]
           bs == <<block>>
           q == [size |-> size, max |-> Pool!Least(size - PoolHeader, MaxAlloc), current |-> 1,
                 large |-> <<>>, cleanup |-> <<>>, older |-> <<>>, blocks |-> bs]
<1>1. Pool!xm_pool_create(size) = q
  BY DEF Pool!xm_pool_create
<1>2. size \in Nat /\ PoolHeader \in Nat /\ PoolHeader <= size /\ MaxAlloc \in Nat
  BY PoolsGiven
<1>3. block \in [last : Nat, failed : Nat] /\ block.last = PoolHeader
  BY <1>2
<1>4. bs \in Seq([last : Nat, failed : Nat]) /\ Len(bs) = 1 /\ bs[1] = block
  <2> HIDE DEF block
  <2> QED BY <1>3
<1> DEFINE max == Pool!Least(size - PoolHeader, MaxAlloc)
<1>5. max \in Int /\ max <= size - PoolHeader
  BY <1>2 DEF Pool!Least
<1> HIDE DEF bs, block, max
<1>6. /\ q.size = size /\ q.max = max /\ q.current = 1 /\ q.large = <<>> /\ q.cleanup = <<>> /\ q.blocks = bs
      /\ q \in [size : PoolSizes, max : Int, current : Nat \ {0}, large : Seq(Nat), cleanup : Seq(Memory),
                older : Seq(Memory), blocks : Seq([last : Nat, failed : Nat])]
  <2>1. <<>> \in Seq(Nat) /\ <<>> \in Seq(Memory) /\ 1 \in Nat \ {0}
    OBVIOUS
  <2> QED BY <1>4, <1>5, <2>1 DEF max
<1> HIDE DEF q
<1>7. \A b \in 1 .. Len(q.blocks) :
        q.blocks[b].last \in Nat /\ Header(b) <= q.blocks[b].last /\ q.blocks[b].last <= q.size
  <2>1. \A b \in 1 .. Len(q.blocks) : b = 1 /\ q.blocks[b].last = PoolHeader /\ Header(b) = PoolHeader
    <3>1. q.blocks[1].last = PoolHeader /\ Len(q.blocks) = 1
      BY <1>3, <1>4, <1>6
    <3>2. \A b \in 1 .. 1 : b = 1
      OBVIOUS
    <3> QED BY <3>1, <3>2 DEF Header
  <2>2. q.size = size /\ PoolHeader \in Nat /\ PoolHeader <= PoolHeader /\ PoolHeader <= size
    BY <1>2, <1>6
  <2> QED BY ONLY <2>1, <2>2
<1>8. PoolType(q)
  <2>1. q.max <= q.size - PoolHeader
    BY <1>5, <1>6
  <2>2. q.current <= Len(q.blocks)
    <3>1. q.blocks = bs /\ q.current = 1
      BY <1>6
    <3>2. q.current = 1 /\ Len(q.blocks) = 1
      BY <1>4, <3>1
    <3> QED BY ONLY <3>2
  <2> QED BY ONLY <1>6, <1>7, <2>1, <2>2 DEF PoolType
<1>9. LargeExact(q.large, {}) /\ CleanupHeld(q.cleanup, {}) /\ GivenApart({}, q)
  BY <1>6, FS_EmptySet DEF LargeExact, CleanupHeld, GivenApart
<1> QED BY <1>1, <1>8, <1>9 DEF PoolOk

PoolInv ==
  IF use = "destroyed" THEN heap = {} /\ given = {} ELSE PoolOk(pool, given, heap)

(* The sizes asked for fit into a block of their own. *)
LEMMA RoomFor ==
  ASSUME NEW p, PoolType(p), NEW size \in Nat, size <= p.max \/ size \in {LargeRecord, CleanupRecord}
  PROVE  PoolHeader + size <= p.size
BY PoolRoom

(* xm_mpool.c:194-212: memory of a block, old or new. *)
LEMMA SmallStep ==
  ASSUME PoolInv, NEW size \in AskedSizes, NEW align \in BOOLEAN, Pool!xm_palloc(size, align)
  PROVE  PoolInv'
<1>1. use = "pool" /\ use' = use /\ size <= pool.max /\ heap' = heap
  BY DEF Pool!xm_palloc, Pool!Call
<1>2. PICK r \in Pool!xm_palloc_small(pool, size, align) :
        pool' = r.p /\ given' = given \cup Pool!Held(r.m)
  BY DEF Pool!xm_palloc
<1>3. PoolOk(pool, given, heap) /\ PoolType(pool)
  BY <1>1 DEF PoolInv, PoolOk
<1>4. size \in Nat
  BY PoolsGiven
<1>5. PoolHeader + size <= pool.size
  BY <1>1, <1>3, <1>4, RoomFor
<1>6. PoolOk(r.p, given \cup Pool!Held(r.m), heap)
  BY <1>3, <1>4, <1>5, SmallOk
<1> QED BY <1>1, <1>2, <1>6 DEF PoolInv

(* What malloc returns is nobody's yet. *)
LEMMA NewIdGiven ==
  ASSUME PoolOk(pool, given, heap)
  PROVE  Pool!NewId \in Nat \ {0} /\ Pool!NewId \notin heap
<1>1. IsFiniteSet(heap) /\ heap \subseteq Nat \ {0}
  BY DEF PoolOk, LargeExact
<1>2. Pool!NewId = CHOOSE i \in 1 .. Cardinality(heap) + 1 : i \notin heap
  <2>1. Pool!Cardinality(heap) = Cardinality(heap)
    BY SamePoolCount
  <2> QED BY <2>1 DEF Pool!NewId
<1> QED BY <1>1, <1>2, NewIdFree

(* A malloc with a new record. *)
LEMMA RecordedStep ==
  ASSUME PoolInv, use = "pool", use' = use, Pool!Recorded(Pool!NewId)
  PROVE  PoolInv'
<1>1. PICK r \in Pool!xm_palloc_small(pool, LargeRecord, TRUE) :
        IF r.m = Pool!None THEN pool' = r.p /\ UNCHANGED <<given, heap>>
        ELSE /\ pool' = [r.p EXCEPT !.large = <<Pool!NewId>> \o @]
             /\ given' = given \cup {r.m} /\ heap' = heap \cup {Pool!NewId}
  BY DEF Pool!Recorded
<1>2. PoolOk(pool, given, heap) /\ PoolType(pool)
  BY DEF PoolInv, PoolOk
<1>3. LargeRecord \in Nat /\ PoolHeader + LargeRecord <= pool.size
  BY <1>2, PoolsGiven, PoolRoom
<1>4. PoolOk(r.p, given \cup Pool!Held(r.m), heap)
  BY <1>2, <1>3, SmallOk
<1>5. CASE r.m = Pool!None
  <2>1. given \cup Pool!Held(r.m) = given
    BY <1>5 DEF Pool!Held
  <2> QED BY <1>1, <1>4, <1>5, <2>1 DEF PoolInv
<1>6. CASE r.m # Pool!None
  <2>1. given \cup Pool!Held(r.m) = given \cup {r.m}
    BY <1>6 DEF Pool!Held
  <2>2. Pool!NewId \in Nat \ {0} /\ Pool!NewId \notin heap
    BY <1>2, NewIdGiven
  <2>3. PoolOk([r.p EXCEPT !.large = <<Pool!NewId>> \o @], given \cup {r.m}, heap \cup {Pool!NewId})
    BY <1>4, <2>1, <2>2, RecordOk
  <2> QED BY <1>1, <1>6, <2>3 DEF PoolInv
<1> QED BY <1>5, <1>6

(* xm_mpool.c:156-192: a malloc, in a record that had none or in a new one. *)
LEMMA LargeStep ==
  ASSUME PoolInv, Pool!xm_palloc_large
  PROVE  PoolInv'
<1> DEFINE free == {i \in DOMAIN pool.large : pool.large[i] = 0 /\ i <= ReuseLimit}
           first == CHOOSE i \in free : \A j \in free : i <= j
<1>1. use = "pool" /\ use' = use
  BY DEF Pool!xm_palloc_large, Pool!Call
<1>2. CASE free = {}
  <2>1. Pool!Recorded(Pool!NewId)
    BY <1>2 DEF Pool!xm_palloc_large
  <2> QED BY <1>1, <2>1, RecordedStep
<1>3. CASE free # {}
  <2>1. /\ pool' = [pool EXCEPT !.large[first] = Pool!NewId]
        /\ heap' = heap \cup {Pool!NewId} /\ given' = given
    BY <1>3 DEF Pool!xm_palloc_large
  <2>2. PoolOk(pool, given, heap)
    BY <1>1 DEF PoolInv
  <2>3. Pool!NewId \in Nat \ {0} /\ Pool!NewId \notin heap
    BY <2>2, NewIdGiven
  <2>4. first \in DOMAIN pool.large /\ pool.large[first] = 0
    <3>1. free \in SUBSET Nat
      <4>1. DOMAIN pool.large \in SUBSET Nat
        <5>1. pool.large \in Seq(Nat)
          BY <2>2 DEF PoolOk, PoolType
        <5> QED BY <5>1
      <4> QED BY <4>1
    <3>2. \A i \in free : i \in DOMAIN pool.large /\ pool.large[i] = 0
      OBVIOUS
    <3> HIDE DEF free
    <3>3. first \in free
      BY <1>3, <3>1, SmallestOf
    <3> HIDE DEF first
    <3> QED BY <3>2, <3>3
  <2>5. IsFiniteSet(heap \cup {Pool!NewId}) /\ heap \cup {Pool!NewId} \subseteq Nat \ {0}
    BY <2>2, <2>3, FS_AddElement DEF PoolOk, LargeExact
  <2> HIDE DEF first
  <2>6. PoolOk([pool EXCEPT !.large[first] = Pool!NewId], given, heap \cup {Pool!NewId})
    BY <2>2, <2>3, <2>4, <2>5, EntryOk
  <2> QED BY <1>1, <2>1, <2>6 DEF PoolInv
<1> QED BY <1>2, <1>3

(* xm_mpool.c:240-255: the caller's malloc is freed and its record emptied. *)
LEMMA FreeStep ==
  ASSUME PoolInv, NEW id \in heap, Pool!xm_pfree(id)
  PROVE  PoolInv'
<1>1. use = "pool" /\ use' = use /\ heap' = heap \ {id} /\ given' = given
  BY DEF Pool!xm_pfree, Pool!Call
<1>2. PICK i \in DOMAIN pool.large : pool.large[i] = id /\ pool' = [pool EXCEPT !.large[i] = 0]
  BY DEF Pool!xm_pfree
<1>3. PoolOk(pool, given, heap)
  BY <1>1 DEF PoolInv
<1>4. IsFiniteSet(heap \ {id}) /\ heap \ {id} \subseteq Nat \ {0} /\ id # 0
  <2>1. IsFiniteSet(heap) /\ heap \subseteq Nat \ {0}
    BY <1>3 DEF PoolOk, LargeExact
  <2> QED BY <2>1, FS_RemoveElement
<1>5. PoolOk([pool EXCEPT !.large[i] = 0], given, heap \ {id})
  BY <1>2, <1>3, <1>4, EntryOk
<1> QED BY <1>1, <1>2, <1>5 DEF PoolInv

(* xm_mpool.c:272-298: the handler's record and then its data.              *)
LEMMA CleanupStep ==
  ASSUME PoolInv, NEW size \in AskedSizes, Pool!xm_pool_cleanup_add(size)
  PROVE  PoolInv'
<1>1. use = "pool" /\ use' = use /\ size <= pool.max /\ heap' = heap
  BY DEF Pool!xm_pool_cleanup_add, Pool!Call
<1>2. PICK r \in Pool!xm_palloc_small(pool, CleanupRecord, TRUE) :
        \E d \in (IF size = 0 \/ r.m = Pool!None THEN {[p |-> r.p, m |-> Pool!None]}
                  ELSE Pool!xm_palloc_small(r.p, size, TRUE)) :
          /\ given' = given \cup Pool!Held(r.m) \cup Pool!Held(d.m)
          /\ pool' = IF r.m = Pool!None \/ (size > 0 /\ d.m = Pool!None) THEN d.p
                     ELSE [d.p EXCEPT !.cleanup = <<r.m>> \o @]
  BY DEF Pool!xm_pool_cleanup_add
<1>3. PICK d \in (IF size = 0 \/ r.m = Pool!None THEN {[p |-> r.p, m |-> Pool!None]}
                  ELSE Pool!xm_palloc_small(r.p, size, TRUE)) :
          /\ given' = given \cup Pool!Held(r.m) \cup Pool!Held(d.m)
          /\ pool' = IF r.m = Pool!None \/ (size > 0 /\ d.m = Pool!None) THEN d.p
                     ELSE [d.p EXCEPT !.cleanup = <<r.m>> \o @]
  BY <1>2
<1>4. PoolOk(pool, given, heap) /\ PoolType(pool)
  BY <1>1 DEF PoolInv, PoolOk
<1>5. CleanupRecord \in Nat /\ PoolHeader + CleanupRecord <= pool.size /\ size \in Nat
  BY <1>4, PoolsGiven, PoolRoom
<1> DEFINE G == given \cup Pool!Held(r.m)
<1>6. PoolOk(r.p, G, heap) /\ r.p.max = pool.max
  BY <1>4, <1>5, SmallOk
<1> DEFINE K == G \cup Pool!Held(d.m)
<1>7. PoolOk(d.p, K, heap)
  <2>1. CASE size = 0 \/ r.m = Pool!None
    <3>1. d.p = r.p /\ d.m = Pool!None
      <4>1. d = [p |-> r.p, m |-> Pool!None]
        BY <1>3, <2>1
      <4> QED BY <4>1
    <3>2. K = G
      BY <3>1 DEF Pool!Held
    <3> QED BY <1>6, <3>1, <3>2
  <2>2. CASE ~(size = 0 \/ r.m = Pool!None)
    <3>1. d \in Pool!xm_palloc_small(r.p, size, TRUE)
      BY <1>3, <2>2
    <3>2. PoolHeader + size <= r.p.size
      BY <1>1, <1>5, <1>6, RoomFor DEF PoolOk
    <3> HIDE DEF G
    <3> QED BY <1>5, <1>6, <3>1, <3>2, SmallOk
  <2> QED BY <2>1, <2>2
<1>8. CASE r.m = Pool!None \/ (size > 0 /\ d.m = Pool!None)
  BY <1>1, <1>3, <1>7, <1>8 DEF PoolInv
<1>9. CASE ~(r.m = Pool!None \/ (size > 0 /\ d.m = Pool!None))
  <2>1. r.m \in K
    BY <1>9 DEF Pool!Held
  <2> HIDE DEF K
  <2>2. PoolOk([d.p EXCEPT !.cleanup = <<r.m>> \o @], K, heap)
    BY <1>7, <2>1, CleanupOk
  <2>3. pool' = [d.p EXCEPT !.cleanup = <<r.m>> \o @]
    BY <1>3, <1>9
  <2>4. given' = K
    BY <1>3 DEF K
  <2> QED BY <1>1, <2>2, <2>3, <2>4 DEF PoolInv
<1> QED BY <1>8, <1>9

(* Every live malloc is in a record, so none is left when the records go.   *)
LEMMA AllFreed ==
  ASSUME NEW large, NEW H, LargeExact(large, H)
  PROVE  H \ {large[i] : i \in DOMAIN large} = {}
<1>1. ASSUME NEW id \in H PROVE id \in {large[i] : i \in DOMAIN large}
  BY DEF LargeExact
<1> QED BY <1>1

(* xm_mpool.c:68-87: every block begins behind the larger header.           *)
LEMMA ResetStep ==
  ASSUME PoolInv, Pool!xm_pool_reset
  PROVE  PoolInv'
<1> DEFINE s == pool.blocks
           T == [last : Nat, failed : Nat]
           new == [last |-> PoolHeader, failed |-> 0]
           t == [b \in DOMAIN s |-> new]
           old == pool.cleanup \o pool.older
           q == [pool EXCEPT !.large = <<>>, !.current = 1, !.cleanup = <<>>, !.older = pool.cleanup \o @,
                             !.blocks = [b \in DOMAIN @ |-> new]]
<1>1. /\ use = "pool" /\ use' = use /\ pool' = q /\ given' = {}
      /\ heap' = heap \ {pool.large[i] : i \in DOMAIN pool.large}
  BY DEF Pool!xm_pool_reset, Pool!Call
<1>2. /\ PoolType(pool) /\ LargeExact(pool.large, heap)
  BY <1>1 DEF PoolInv, PoolOk, Pool!xm_pool_reset
<1>3. heap' = {}
  BY <1>1, <1>2, AllFreed
<1>4. /\ pool \in [size : PoolSizes, max : Int, current : Nat \ {0}, large : Seq(Nat), cleanup : Seq(Memory),
                   older : Seq(Memory), blocks : Seq(T)]
      /\ s \in Seq(T) /\ Len(s) \in Nat /\ 1 <= Len(s)
  <2>1. pool.current \in Nat \ {0} /\ s \in Seq(T) /\ pool.current <= Len(s)
    BY <1>2 DEF PoolType
  <2>2. pool \in [size : PoolSizes, max : Int, current : Nat \ {0}, large : Seq(Nat), cleanup : Seq(Memory),
                  older : Seq(Memory), blocks : Seq(T)]
    BY <1>2 DEF PoolType
  <2> HIDE DEF s, T
  <2>3. Len(s) \in Nat
    BY <2>1
  <2> QED BY <2>1, <2>2, <2>3
<1>5. new \in T /\ new.last = PoolHeader
  BY PoolsGiven
<1> HIDE DEF new
<1>6. t \in Seq(T) /\ Len(t) = Len(s) /\ \A b \in 1 .. Len(t) : t[b] = new
  <2>1. t = [b \in 1 .. Len(s) |-> new]
    BY <1>4
  <2> HIDE DEF s, T
  <2> QED BY <1>4, <1>5, <2>1
<1>7. /\ q.size = pool.size /\ q.max = pool.max /\ q.current = 1 /\ q.large = <<>>
      /\ q.cleanup = <<>> /\ q.blocks = t
      /\ q \in [size : PoolSizes, max : Int, current : Nat \ {0}, large : Seq(Nat), cleanup : Seq(Memory),
                older : Seq(Memory), blocks : {t}]
  <2>1. <<>> \in Seq(Nat) /\ 1 \in Nat \ {0} /\ <<>> \in Seq(Memory)
    OBVIOUS
  <2>2. old \in Seq(Memory)
    <3>1. pool.cleanup \in Seq(Memory) /\ pool.older \in Seq(Memory)
      BY <1>4
    <3> QED BY <3>1
  <2>3. q = [pool EXCEPT !.large = <<>>, !.current = 1, !.cleanup = <<>>, !.older = old, !.blocks = t]
    BY <1>4
  <2> HIDE DEF T, old, q, t
  <2> QED BY <1>4, <2>1, <2>2, <2>3
<1> HIDE DEF q, t, s
<1>8. PoolType(q)
  <2>1. q \in [size : PoolSizes, max : Int, current : Nat \ {0}, large : Seq(Nat), cleanup : Seq(Memory),
               older : Seq(Memory), blocks : Seq([last : Nat, failed : Nat])]
    BY <1>6, <1>7 DEF T
  <2>2. q.max <= q.size - PoolHeader /\ q.current <= Len(q.blocks)
    BY <1>2, <1>4, <1>6, <1>7 DEF PoolType
  <2>3. ASSUME NEW b \in 1 .. Len(q.blocks)
        PROVE  q.blocks[b].last \in Nat /\ Header(b) <= q.blocks[b].last /\ q.blocks[b].last <= q.size
    <3>1. q.blocks[b].last = PoolHeader
      BY <1>5, <1>6, <1>7
    <3>2. Header(b) <= PoolHeader /\ PoolHeader \in Nat
      <4>1. DataHeader <= PoolHeader
        <5>1. DataHeader <= Pool!Aligned(DataHeader) /\ Pool!Aligned(DataHeader) \in Nat
          BY PoolsGiven, AlignedUp
        <5> QED BY <5>1, PoolsGiven
      <4> QED BY <4>1, PoolsGiven DEF Header
    <3>3. PoolHeader <= q.size
      <4>1. pool.size \in Nat /\ PoolHeader + LargeRecord <= pool.size
        BY <1>2, PoolRoom
      <4> QED BY <1>7, <4>1, PoolsGiven
    <3> QED BY <3>1, <3>2, <3>3
  <2> QED BY <2>1, <2>2, <2>3 DEF PoolType
<1>9. LargeExact(q.large, {}) /\ CleanupHeld(q.cleanup, {}) /\ GivenApart({}, q)
  BY <1>2, <1>7, FS_EmptySet DEF LargeExact, CleanupHeld, GivenApart
<1> QED BY <1>1, <1>3, <1>8, <1>9 DEF PoolInv, PoolOk

(* xm_mpool.c:39-65: no malloc is left, and no caller holds memory.         *)
LEMMA DestroyStep ==
  ASSUME PoolInv, Pool!xm_pool_destroy
  PROVE  PoolInv'
<1>1. /\ use = "pool" /\ use' = "destroyed" /\ given' = {}
      /\ heap' = heap \ {pool.large[i] : i \in DOMAIN pool.large}
  BY DEF Pool!xm_pool_destroy
<1>2. LargeExact(pool.large, heap)
  BY <1>1 DEF PoolInv, PoolOk
<1>3. heap' = {}
  BY <1>1, <1>2, AllFreed
<1> QED BY <1>1, <1>3 DEF PoolInv

(* All that Pools does with the pool. *)
LEMMA PoolStep ==
  ASSUME PoolInv, [Pool!Next]_(Pool!poolVars)
  PROVE  PoolInv'
<1>1. ASSUME UNCHANGED <<use, pool, given, heap>> PROVE PoolInv'
  BY <1>1 DEF PoolInv
<1>2. CASE UNCHANGED Pool!poolVars
  BY <1>1, <1>2 DEF Pool!poolVars
<1>3. ASSUME NEW size \in AskedSizes, NEW align \in BOOLEAN, Pool!xm_palloc(size, align) PROVE PoolInv'
  BY <1>3, SmallStep
<1>4. ASSUME NEW size \in AskedSizes, Pool!xm_pool_cleanup_add(size) PROVE PoolInv'
  BY <1>4, CleanupStep
<1>5. CASE Pool!xm_palloc_large
  BY <1>5, LargeStep
<1>6. CASE Pool!xm_pmemalign
  BY <1>6, RecordedStep DEF Pool!xm_pmemalign, Pool!Call
<1>7. CASE Pool!xm_pool_reset
  BY <1>7, ResetStep
<1>8. CASE Pool!xm_pool_destroy
  BY <1>8, DestroyStep
<1>9. ASSUME NEW id \in heap, Pool!xm_pfree(id) PROVE PoolInv'
  BY <1>9, FreeStep
<1>10. CASE Pool!xm_object_pool_get
  BY <1>1, <1>10 DEF Pool!xm_object_pool_get, Pool!Call
<1>11. ASSUME NEW obj \in objs.using, Pool!xm_object_pool_put(obj) PROVE PoolInv'
  BY <1>1, <1>11 DEF Pool!xm_object_pool_put, Pool!Call
<1> QED BY <1>2, <1>3, <1>4, <1>5, <1>6, <1>7, <1>8, <1>9, <1>10, <1>11 DEF Pool!Next

(* What this says of callers, mallocs and handlers. *)
LEMMA PoolExactHolds == ASSUME PoolInv PROVE Pool!PoolExact
<1>1. CASE use = "destroyed"
  BY <1>1 DEF PoolInv, Pool!PoolExact
<1>2. CASE use # "destroyed"
  <2>1. PoolType(pool) /\ GivenApart(given, pool) /\ LargeExact(pool.large, heap)
        /\ CleanupHeld(pool.cleanup, given)
    BY <1>2 DEF PoolInv, PoolOk
  <2>2. ASSUME NEW g \in given
        PROVE  /\ g.from >= (IF g.blk = 1 THEN PoolHeader ELSE DataHeader) /\ g.to <= pool.size
               /\ g.to <= pool.blocks[g.blk].last
               /\ g.aligned => g.from % ALIGNMENT = 0
               /\ \A h \in given \ {g} : h.blk = g.blk => h.to <= g.from \/ g.to <= h.from
    <3>1. Inside(g, pool) /\ \A h \in given \ {g} : h.blk = g.blk => h.to <= g.from \/ g.to <= h.from
      BY <2>1 DEF GivenApart
    <3> DEFINE l == pool.blocks[g.blk].last
    <3>2. l \in Nat /\ l <= pool.size
      <4>1. g.blk \in 1 .. Len(pool.blocks)
        <5>1. Len(pool.blocks) \in Nat /\ g.blk \in Nat \ {0} /\ g.blk <= Len(pool.blocks)
          BY <2>1, <3>1 DEF PoolType, Inside, Memory
        <5> QED BY <5>1
      <4> QED BY <2>1, <4>1 DEF PoolType
    <3>3. g.to \in Nat /\ g.to <= l /\ pool.size \in Nat
      BY <2>1, <3>1, PoolRoom DEF Inside, Memory
    <3> HIDE DEF l
    <3>4. g.to <= pool.size
      BY <3>2, <3>3
    <3>5. Header(g.blk) \in Nat /\ g.from \in Nat /\ Header(g.blk) <= g.from
      BY <3>1, PoolsGiven DEF Header, Inside, Memory
    <3> QED BY <3>1, <3>4, <3>5 DEF Inside, Header
  <2>3. /\ \A id \in heap : \E i \in DOMAIN pool.large : pool.large[i] = id
        /\ \A i, j \in DOMAIN pool.large : pool.large[i] = pool.large[j] => i = j \/ pool.large[i] = 0
        /\ \A i \in DOMAIN pool.cleanup : pool.cleanup[i] \in given
    BY <2>1 DEF LargeExact, CleanupHeld
  <2> QED BY <1>2, <2>2, <2>3 DEF Pool!PoolExact
<1> QED BY <1>1, <1>2

(* An object pool: its objects are numbered, each is free or in use.        *)
ObjectType(o) ==
  o \in [size : ObjectSizes, limit : Limits, free : Seq(Nat), using : SUBSET Nat, n_objects : Nat,
         n_frees : Nat, n_using : Nat, n_mms : Nat, broken : BOOLEAN]

ObjectsOk(o) ==
  /\ ObjectType(o)
  /\ o.n_frees = Len(o.free)
  /\ IsFiniteSet(o.using) /\ o.n_using = Cardinality(o.using)
  /\ o.n_frees + o.n_using = o.n_objects
  /\ \A i \in DOMAIN o.free : o.free[i] \in 1 .. o.n_objects /\ o.free[i] \notin o.using
  /\ \A i, j \in DOMAIN o.free : o.free[i] = o.free[j] => i = j
  /\ o.using \subseteq 1 .. o.n_objects
  /\ o.limit > 0 => o.n_objects <= o.limit + Pool!PerMem(o.size)
  /\ Pool!PerMem(o.size) = 0 => o.n_objects = 0

(* A memory held no object, and the head of the free list was given.        *)
Ruined(o) ==
  /\ o.limit \in Limits /\ o.broken /\ o.free = <<>> /\ o.using = {Pool!ListHead}
  /\ Pool!PerMem(o.size) = 0 /\ o.n_objects = 0 /\ o.n_frees = -1 /\ o.n_using = 1

ObjectsInv(o) == ObjectsOk(o) \/ Ruined(o)

(* A memory holds some number of objects. *)
LEMMA PerMemory == ASSUME NEW size PROVE Pool!PerMem(size) \in Nat
<1> DEFINE S == {k \in 1 .. ObjectMem : ObjectHeaders + k * (size + ObjectHeaders) < ObjectMem}
<1>1. IsFiniteSet(1 .. ObjectMem)
  BY FS_Interval, PoolsGiven
<1>2. S \subseteq 1 .. ObjectMem
  OBVIOUS
<1>3. Pool!PerMem(size) = Cardinality(S)
  BY SamePoolCount DEF Pool!PerMem
<1> HIDE DEF S
<1> QED BY <1>1, <1>2, <1>3, FS_Subset, FS_CardinalityType

(* xm_object_pool.c:14-57: the numbers of the new objects are new. *)
LEMMA NewMemoryOk ==
  ASSUME NEW o, ObjectsOk(o), o.free = <<>>, ~(o.limit > 0 /\ o.n_objects > o.limit)
  PROVE  /\ ObjectsOk(Pool!_new_memory(o))
         /\ Pool!_new_memory(o).free = <<>> => Pool!PerMem(Pool!_new_memory(o).size) = 0
<1> DEFINE n == Pool!PerMem(o.size)
           N == o.n_objects
           s == [i \in 1 .. n |-> N + i]
           t == o.free \o s
           q == [o EXCEPT !.free = @ \o s, !.n_objects = @ + n, !.n_frees = @ + n, !.n_mms = @ + 1]
<1>1. Pool!_new_memory(o) = q
  BY DEF Pool!_new_memory
<1>2. n \in Nat /\ N \in Nat /\ ObjectType(o)
  BY PerMemory DEF ObjectsOk, ObjectType
<1> HIDE DEF n
<1>3. s \in Seq(Nat) /\ Len(s) = n /\ t = s /\ DOMAIN s = 1 .. n
  <2>1. \A i \in 1 .. n : N + i \in Nat
    BY <1>2
  <2> HIDE DEF N
  <2> QED BY <1>2, <2>1
<1>4. \A i \in 1 .. n : s[i] = N + i
  OBVIOUS
<1>5. /\ q.size = o.size /\ q.limit = o.limit /\ q.free = t /\ q.using = o.using /\ q.n_objects = N + n
      /\ q.n_frees = o.n_frees + n /\ q.n_using = o.n_using /\ ObjectType(q)
  <2>1. /\ q.size = o.size /\ q.limit = o.limit /\ q.free = t /\ q.using = o.using /\ q.n_objects = N + n
        /\ q.n_frees = o.n_frees + n /\ q.n_using = o.n_using
    BY <1>2 DEF ObjectType
  <2>2. t \in Seq(Nat) /\ N + n \in Nat /\ o.n_frees + n \in Nat /\ o.n_mms + 1 \in Nat
    BY <1>2, <1>3 DEF ObjectType
  <2> HIDE DEF t, s
  <2> QED BY <1>2, <2>1, <2>2 DEF ObjectType, t
<1>6. o.n_frees = 0 /\ o.n_using = N /\ o.using \subseteq 1 .. N
  <2>1. o.n_frees = 0
    BY DEF ObjectsOk
  <2> QED BY <1>2, <2>1 DEF ObjectsOk, ObjectType
<1> HIDE DEF q, t, s
<1>7. q.n_frees = Len(q.free) /\ q.n_frees + q.n_using = q.n_objects
  <2> HIDE DEF N
  <2> QED BY <1>2, <1>3, <1>5, <1>6
<1>8. \A i \in DOMAIN q.free : q.free[i] \in 1 .. q.n_objects /\ q.free[i] \notin q.using
  <2> SUFFICES ASSUME NEW i \in 1 .. n PROVE s[i] \in 1 .. N + n /\ s[i] \notin o.using
    BY <1>3, <1>5
  <2>1. N + i \in 1 .. N + n /\ N + i \notin 1 .. N
    <3> HIDE DEF N
    <3> QED BY <1>2
  <2> QED BY <1>4, <1>6, <2>1
<1>9. \A i, j \in DOMAIN q.free : q.free[i] = q.free[j] => i = j
  <2> SUFFICES ASSUME NEW i \in 1 .. n, NEW j \in 1 .. n, s[i] = s[j] PROVE i = j
    BY <1>3, <1>5
  <2> HIDE DEF N
  <2> QED BY <1>2, <1>4
<1>10. q.using \subseteq 1 .. q.n_objects
  <2>1. 1 .. N \subseteq 1 .. N + n
    <3> HIDE DEF N
    <3> QED BY <1>2
  <2> QED BY <1>5, <1>6, <2>1
<1>11. q.limit > 0 => q.n_objects <= q.limit + Pool!PerMem(q.size)
  <2>1. q.limit = o.limit /\ q.n_objects = N + n /\ Pool!PerMem(q.size) = n
    BY <1>5 DEF n
  <2>2. o.limit \in Nat
    BY <1>2, PoolsGiven DEF ObjectType
  <2>3. o.limit > 0 => N <= o.limit
    BY <1>2, <2>2
  <2> HIDE DEF N
  <2> QED BY <1>2, <2>1, <2>2, <2>3
<1>12. IsFiniteSet(q.using) /\ q.n_using = Cardinality(q.using)
  BY <1>5 DEF ObjectsOk
<1>13. Pool!PerMem(q.size) = n
  BY <1>5 DEF n
<1>14. Pool!PerMem(q.size) = 0 => q.n_objects = 0
  <2>1. n = 0 => N = 0
    BY DEF ObjectsOk, n
  <2> HIDE DEF N
  <2> QED BY <1>2, <1>5, <1>13, <2>1
<1>15. q.free = <<>> => Pool!PerMem(q.size) = 0
  <2>1. t = <<>> => Len(t) = 0
    OBVIOUS
  <2> QED BY <1>3, <1>5, <1>13, <2>1
<1> QED BY <1>1, <1>5, <1>7, <1>8, <1>9, <1>10, <1>11, <1>12, <1>14, <1>15 DEF ObjectsOk

(* xm_object_pool.c:105-140: the first of the free objects, or the head of *)
(* the list if a memory holds none.                                        *)
LEMMA TakenOk ==
  ASSUME NEW o, ObjectsOk(o), o.free = <<>> => Pool!PerMem(o.size) = 0
  PROVE  ObjectsInv(Pool!Taken(o))
<1>1. CASE o.free = <<>>
  <2> DEFINE q == [o EXCEPT !.using = @ \cup {Pool!ListHead}, !.n_frees = @ - 1, !.n_using = @ + 1,
                            !.broken = TRUE]
  <2>1. Pool!Taken(o) = q
    BY <1>1 DEF Pool!Taken
  <2>2. /\ ObjectType(o) /\ Pool!PerMem(o.size) = 0 /\ o.n_objects = 0
        /\ o.n_frees = Len(<<>>) /\ o.n_frees + o.n_using = 0 /\ o.using \subseteq 1 .. 0
    BY <1>1 DEF ObjectsOk
  <2>3. o.using = {} /\ Len(<<>>) = 0 /\ o.n_using \in Nat
    BY <2>2 DEF ObjectType
  <2>4. o.n_frees = 0 /\ o.n_using = 0
    BY <2>2, <2>3
  <2>5. /\ q.size = o.size /\ q.limit = o.limit /\ q.free = o.free /\ q.using = o.using \cup {Pool!ListHead}
        /\ q.n_objects = o.n_objects /\ q.n_frees = o.n_frees - 1 /\ q.n_using = o.n_using + 1 /\ q.broken
    BY <2>2 DEF ObjectType
  <2>6. q.limit \in Limits
    BY <2>2, <2>5 DEF ObjectType
  <2> HIDE DEF q
  <2>7. q.using = {Pool!ListHead} /\ q.n_frees = -1 /\ q.n_using = 1
    BY <2>3, <2>4, <2>5
  <2> QED BY <1>1, <2>1, <2>2, <2>5, <2>6, <2>7 DEF Ruined, ObjectsInv
<1>2. CASE o.free # <<>>
  <2> DEFINE s == o.free
             h == Head(s)
             t == Tail(s)
             q == [o EXCEPT !.free = Tail(@), !.using = @ \cup {Head(s)}, !.n_frees = @ - 1, !.n_using = @ + 1]
             U == o.using
  <2>1. Pool!Taken(o) = q
    BY <1>2 DEF Pool!Taken
  <2>2. ObjectType(o) /\ s \in Seq(Nat) /\ U \subseteq Nat /\ s # <<>>
    BY <1>2 DEF ObjectsOk, ObjectType
  <2>3. /\ t \in Seq(Nat) /\ Len(t) = Len(s) - 1 /\ h = s[1] /\ h \in Nat /\ Len(s) \in Nat \ {0}
        /\ DOMAIN t = 1 .. Len(t) /\ DOMAIN s = 1 .. Len(s)
        /\ \A i \in 1 .. Len(t) : i + 1 \in 1 .. Len(s) /\ i + 1 # 1 /\ t[i] = s[i + 1]
    <3> HIDE DEF s
    <3> QED BY <2>2
  <2>4. /\ o.n_frees = Len(s) /\ IsFiniteSet(U) /\ o.n_using = Cardinality(U)
        /\ o.n_frees + o.n_using = o.n_objects
        /\ \A i \in DOMAIN s : s[i] \in 1 .. o.n_objects /\ s[i] \notin U
        /\ \A i, j \in DOMAIN s : s[i] = s[j] => i = j
        /\ U \subseteq 1 .. o.n_objects
        /\ o.limit > 0 => o.n_objects <= o.limit + Pool!PerMem(o.size)
        /\ o.n_frees \in Nat /\ o.n_using \in Nat /\ o.n_objects \in Nat
    BY DEF ObjectsOk, ObjectType
  <2>5. /\ q.size = o.size /\ q.limit = o.limit /\ q.free = t /\ q.using = U \cup {h}
        /\ q.n_objects = o.n_objects /\ q.n_frees = o.n_frees - 1 /\ q.n_using = o.n_using + 1
        /\ ObjectType(q)
    <3>1. /\ q.size = o.size /\ q.limit = o.limit /\ q.free = t /\ q.using = U \cup {h}
          /\ q.n_objects = o.n_objects /\ q.n_frees = o.n_frees - 1 /\ q.n_using = o.n_using + 1
      BY <2>2 DEF ObjectType
    <3>2. o.n_frees - 1 \in Nat /\ o.n_using + 1 \in Nat
      <4> HIDE DEF s, t, U
      <4> QED BY <2>3, <2>4
    <3> HIDE DEF t, h, s
    <3> QED BY <2>2, <2>3, <3>1, <3>2 DEF ObjectType, t, h
  <2> HIDE DEF q, t, h, s, U
  <2>6. h \notin U /\ h \in 1 .. o.n_objects
    <3>1. 1 \in DOMAIN s
      BY <2>3
    <3> QED BY <2>3, <2>4, <3>1
  <2>7. IsFiniteSet(U \cup {h}) /\ Cardinality(U \cup {h}) = o.n_using + 1
    BY <2>4, <2>6, FS_AddElement
  <2>8. \A i \in DOMAIN t : t[i] \in 1 .. o.n_objects /\ t[i] \notin U \cup {h}
    <3> SUFFICES ASSUME NEW i \in 1 .. Len(t) PROVE t[i] \in 1 .. o.n_objects /\ t[i] \notin U /\ t[i] # s[1]
      BY <2>3
    <3>1. i + 1 \in DOMAIN s /\ 1 \in DOMAIN s /\ i + 1 # 1 /\ t[i] = s[i + 1]
      BY <2>3
    <3> QED BY <2>4, <3>1
  <2>9. ASSUME NEW i \in DOMAIN t, NEW j \in DOMAIN t, t[i] = t[j] PROVE i = j
    <3>1. /\ i + 1 \in DOMAIN s /\ j + 1 \in DOMAIN s /\ i \in Int /\ j \in Int
          /\ t[i] = s[i + 1] /\ t[j] = s[j + 1]
      BY <2>3
    <3>2. i + 1 = j + 1
      BY <2>4, <2>9, <3>1
    <3> QED BY <3>1, <3>2
  <2>10. o.n_frees - 1 = Len(t) /\ (o.n_frees - 1) + (o.n_using + 1) = o.n_objects
    BY <2>3, <2>4
  <2>11. Pool!PerMem(o.size) = 0 => o.n_objects = 0
    BY DEF ObjectsOk
  <2> QED BY <2>1, <2>4, <2>5, <2>6, <2>7, <2>8, <2>9, <2>10, <2>11 DEF ObjectsOk, ObjectsInv
<1> QED BY <1>1, <1>2

PutBack(o, obj, q) ==
  q = [o EXCEPT !.free = Append(@, obj), !.using = @ \ {obj}, !.n_frees = @ + 1, !.n_using = @ - 1]

(* xm_object_pool.c:142-154: an object in use is appended to the free ones. *)
LEMMA PutOk ==
  ASSUME NEW o, ObjectsOk(o), NEW obj \in o.using,
         NEW q, PutBack(o, obj, q)
  PROVE  ObjectsOk(q)
<1> DEFINE s == o.free
           t == Append(s, obj)
           U == o.using
<1>1. ObjectType(o) /\ s \in Seq(Nat) /\ U \subseteq Nat /\ obj \in U /\ obj \in Nat
  BY DEF ObjectsOk, ObjectType
<1>2. /\ t \in Seq(Nat) /\ Len(t) = Len(s) + 1 /\ Len(s) \in Nat /\ t[Len(s) + 1] = obj
      /\ DOMAIN t = 1 .. Len(s) + 1 /\ DOMAIN s = 1 .. Len(s)
      /\ \A i \in 1 .. Len(s) : t[i] = s[i]
  <2> HIDE DEF s, U
  <2> QED BY <1>1
<1>3. /\ o.n_frees = Len(s) /\ IsFiniteSet(U) /\ o.n_using = Cardinality(U)
      /\ o.n_frees + o.n_using = o.n_objects
      /\ \A i \in DOMAIN s : s[i] \in 1 .. o.n_objects /\ s[i] \notin U
      /\ \A i, j \in DOMAIN s : s[i] = s[j] => i = j
      /\ U \subseteq 1 .. o.n_objects
      /\ o.limit > 0 => o.n_objects <= o.limit + Pool!PerMem(o.size)
      /\ o.n_frees \in Nat /\ o.n_using \in Nat /\ o.n_objects \in Nat
  BY DEF ObjectsOk, ObjectType
<1>4. IsFiniteSet(U \ {obj}) /\ Cardinality(U \ {obj}) = o.n_using - 1 /\ o.n_using - 1 \in Nat
  <2> HIDE DEF U
  <2>1. IsFiniteSet(U \ {obj}) /\ Cardinality(U \ {obj}) = o.n_using - 1
    <3>1. obj \in U /\ IsFiniteSet(U)
      BY <1>1, <1>3
    <3>2. IsFiniteSet(U \ {obj}) /\ Cardinality(U \ {obj}) = Cardinality(U) - 1
      BY <3>1, FS_RemoveElement
    <3> QED BY <1>3, <3>2
  <2>2. Cardinality(U \ {obj}) \in Nat
    BY <2>1, FS_CardinalityType
  <2> QED BY <2>1, <2>2
<1>5. /\ q.size = o.size /\ q.limit = o.limit /\ q.free = t /\ q.using = U \ {obj}
      /\ q.n_objects = o.n_objects /\ q.n_frees = o.n_frees + 1 /\ q.n_using = o.n_using - 1
      /\ ObjectType(q)
  <2>1. /\ q.size = o.size /\ q.limit = o.limit /\ q.free = t /\ q.using = U \ {obj}
        /\ q.n_objects = o.n_objects /\ q.n_frees = o.n_frees + 1 /\ q.n_using = o.n_using - 1
    BY <1>1 DEF ObjectType, PutBack
  <2>2. o.n_frees + 1 \in Nat
    BY <1>3
  <2> HIDE DEF t, s
  <2> QED BY <1>1, <1>2, <1>4, <2>1, <2>2 DEF ObjectType, PutBack, t, s
<1> HIDE DEF t, s, U
<1>6. \A i \in DOMAIN t : i \in 1 .. Len(s) \/ (i = Len(s) + 1 /\ t[i] = obj)
  BY <1>2
<1>7. \A i \in DOMAIN t : t[i] \in 1 .. o.n_objects /\ t[i] \notin U \ {obj}
  BY <1>1, <1>2, <1>3, <1>6
<1>8. ASSUME NEW i \in DOMAIN t, NEW j \in DOMAIN t, t[i] = t[j] PROVE i = j
  <2>1. ASSUME NEW k \in 1 .. Len(s) PROVE t[k] # obj /\ t[k] = s[k] /\ k \in DOMAIN s
    BY <1>1, <1>2, <1>3
  <2>2. CASE i \in 1 .. Len(s) /\ j \in 1 .. Len(s)
    BY <1>3, <1>8, <2>1, <2>2
  <2> QED BY <1>6, <1>8, <2>1, <2>2
<1>9. o.n_frees + 1 = Len(t) /\ (o.n_frees + 1) + (o.n_using - 1) = o.n_objects
  BY <1>2, <1>3
<1>10. Pool!PerMem(o.size) = 0 => o.n_objects = 0
  BY DEF ObjectsOk
<1> QED BY <1>3, <1>4, <1>5, <1>7, <1>8, <1>9, <1>10 DEF ObjectsOk

(* A step of Pools keeps the objects in order. *)
LEMMA ObjectStep ==
  ASSUME ObjectsInv(objs), [Pool!Next]_(Pool!poolVars)
  PROVE  ObjectsInv(objs')
<1>1. CASE objs' = objs
  BY <1>1
<1>2. CASE Pool!xm_object_pool_get
  <2>1. ~objs.broken /\ ObjectsOk(objs)
    BY <1>2 DEF Pool!xm_object_pool_get, ObjectsInv, Ruined
  <2>2. CASE objs.free # <<>>
    <3>1. objs' = Pool!Taken(objs)
      BY <1>2, <2>2 DEF Pool!xm_object_pool_get
    <3> QED BY <2>1, <2>2, <3>1, TakenOk
  <2>3. CASE objs.free = <<>>
    <3>1. \/ objs' = objs
          \/ ~(objs.limit > 0 /\ objs.n_objects > objs.limit) /\ objs' = Pool!Taken(Pool!_new_memory(objs))
      BY <1>2, <2>3 DEF Pool!xm_object_pool_get
    <3>2. CASE ~(objs.limit > 0 /\ objs.n_objects > objs.limit)
      <4>1. /\ ObjectsOk(Pool!_new_memory(objs))
            /\ Pool!_new_memory(objs).free = <<>> => Pool!PerMem(Pool!_new_memory(objs).size) = 0
        BY <2>1, <2>3, <3>2, NewMemoryOk
      <4>2. ObjectsInv(Pool!Taken(Pool!_new_memory(objs)))
        BY <4>1, TakenOk
      <4> QED BY <3>1, <4>2
    <3> QED BY <3>1, <3>2
  <2> QED BY <2>2, <2>3
<1>3. ASSUME NEW obj \in objs.using, Pool!xm_object_pool_put(obj) PROVE ObjectsInv(objs')
  <2>1. PutBack(objs, obj, objs') /\ ObjectsOk(objs)
    BY <1>3 DEF Pool!xm_object_pool_put, PutBack, ObjectsInv, Ruined
  <2>2. ObjectsOk(objs')
    BY <2>1, PutOk
  <2> QED BY <2>2 DEF ObjectsInv
<1>4. ASSUME NEW size \in AskedSizes,
             (\E align \in BOOLEAN : Pool!xm_palloc(size, align)) \/ Pool!xm_pool_cleanup_add(size)
      PROVE  objs' = objs
  BY <1>4 DEF Pool!xm_palloc, Pool!xm_pool_cleanup_add
<1>5. CASE Pool!xm_palloc_large \/ Pool!xm_pmemalign \/ Pool!xm_pool_reset \/ Pool!xm_pool_destroy
  <2>1. objs' = objs
    BY <1>5 DEF Pool!xm_palloc_large, Pool!xm_pmemalign, Pool!xm_pool_reset, Pool!xm_pool_destroy
  <2> QED BY <1>1, <2>1
<1>6. ASSUME NEW id \in heap, Pool!xm_pfree(id) PROVE objs' = objs
  BY <1>6 DEF Pool!xm_pfree
<1> QED BY <1>1, <1>2, <1>3, <1>4, <1>5, <1>6 DEF Pool!Next, Pool!poolVars

(* What this says of the objects and their counts. *)
LEMMA ObjectsExactHolds == ASSUME ObjectsInv(objs) PROVE Pool!ObjectsExact
<1>1. Pool!Cardinality(objs.using) = Cardinality(objs.using)
  BY SamePoolCount
<1>2. CASE ObjectsOk(objs)
  <2>1. Pool!PerMem(objs.size) \in Nat
    BY PerMemory
  <2>2. Pool!PerMem(objs.size) = 0 => objs.n_objects = 0 /\ objs.using = {}
    BY <1>2 DEF ObjectsOk
  <2> QED BY <1>1, <1>2, <2>1, <2>2 DEF ObjectsOk, Pool!ObjectsExact
<1>3. CASE Ruined(objs)
  <2>1. Cardinality({Pool!ListHead}) = 1
    BY FS_Singleton
  <2>2. objs.limit \in Nat
    BY <1>3, PoolsGiven DEF Ruined
  <2>3. DOMAIN <<>> = {} /\ 1 + -1 = 0
    OBVIOUS
  <2>4. /\ objs.n_using = Pool!Cardinality(objs.using) /\ objs.n_frees + objs.n_using = objs.n_objects
        /\ DOMAIN objs.free = {} /\ Pool!PerMem(objs.size) = 0 /\ objs.n_objects = 0
        /\ objs.using \subseteq {Pool!ListHead}
    BY <1>1, <1>3, <2>1, <2>3 DEF Ruined
  <2>5. objs.limit > 0 => objs.n_objects <= objs.limit + Pool!PerMem(objs.size)
    BY <2>2, <2>4
  <2> QED BY <2>4, <2>5 DEF Pool!ObjectsExact
<1> QED BY <1>2, <1>3 DEF ObjectsInv

(* What Pools begins with. *)
LEMMA InitPools == ASSUME Pool!Init PROVE PoolInv /\ ObjectsInv(objs)
<1>1. PoolInv
  <2>1. PICK size \in PoolSizes : pool = Pool!xm_pool_create(size)
    BY DEF Pool!Init
  <2>2. use # "destroyed" /\ given = {} /\ heap = {}
    BY DEF Pool!Init
  <2> QED BY <2>1, <2>2, CreateOk DEF PoolInv
<1>2. PICK size \in ObjectSizes, limit \in Limits :
        objs = [size |-> size, limit |-> limit, free |-> <<>>, using |-> {}, n_objects |-> 0,
                n_frees |-> 0, n_using |-> 0, n_mms |-> 0, broken |-> FALSE]
  BY DEF Pool!Init
<1>3. /\ objs.size = size /\ objs.limit = limit /\ objs.free = <<>> /\ objs.using = {} /\ objs.n_objects = 0
      /\ objs.n_frees = 0 /\ objs.n_using = 0
  BY <1>2
<1>4. ObjectType(objs)
  <2>1. <<>> \in Seq(Nat) /\ 0 \in Nat
    OBVIOUS
  <2> QED BY <1>2, <2>1 DEF ObjectType
<1>5. Pool!PerMem(size) \in Nat /\ limit \in Nat
  BY PerMemory, PoolsGiven
<1>6. objs.limit > 0 => objs.n_objects <= objs.limit + Pool!PerMem(objs.size)
  BY <1>3, <1>5
<1>7. Len(<<>>) = 0 /\ DOMAIN <<>> = {}
  OBVIOUS
<1> QED BY <1>1, <1>3, <1>4, <1>6, <1>7, FS_EmptySet DEF ObjectsOk, ObjectsInv

(* xm_mpool.c:13-298, xm_object_pool.c:14-154: for blocks, headers and      *)
(* alignments of any size and any series of calls, no two callers share     *)
(* memory and every malloc is freed once.  For objects of any size, one is  *)
(* free or in use and the counters say so; only for sizes of which a memory *)
(* holds none is the list's head given in their place, and then no more.    *)
THEOREM PoolsExactAlways == Spec => []PoolsExact
<1> DEFINE Inv == part = "Pools" => PoolInv /\ ObjectsInv(objs)
<1>1. Init => Inv
  BY InitPools DEF Init
<1>2. Inv /\ [Next]_partVars => Inv'
  <2> SUFFICES ASSUME Inv, [Next]_partVars, part' = "Pools"
               PROVE  PoolInv' /\ ObjectsInv(objs')
    OBVIOUS
  <2>1. part = "Pools" /\ [Pool!Next]_(Pool!poolVars)
    BY DEF Next, partVars, Pool!poolVars
  <2> QED BY <2>1, PoolStep, ObjectStep
<1>3. Inv => PoolsExact
  BY PoolExactHolds, ObjectsExactHolds DEF PoolsExact
<1> QED BY <1>1, <1>2, <1>3, PTL DEF Spec

-----------------------------------------------------------------------------
(* Interfaces and the attempts of send tasks.                              *)
type == v1
made == v4
task == v5
queue == v6
log == v7

USE DEF type, made, task, queue, log

(* Interface has the sizes of sets from its own copy of FiniteSets. *)
LEMMA SameIfCount == \A S : If!Cardinality(S) = Cardinality(S)
BY DEF If!Cardinality, Cardinality

(* What Interface assumes of its constants. *)
LEMMA InterfaceGiven ==
  SendTasks \in Nat /\ HostsEach \in Nat /\ Streams \in Nat \ {0} /\ Retries \in Nat
BY PartsAssumption DEF If!InterfaceAssumption

Answers == {"ok", "failed"}
Good(r) == { i \in DOMAIN r : r[i] = "ok" }
Settled(p) == { s \in If!Slots : s[1] < p.host \/ (s[1] = p.host /\ s[2] < p.stream) }
GivenUp(S, l) == { s \in S : Good(l[s]) = {} }
Now(p) == <<p.host, p.stream>>

TaskType(p) ==
  /\ p \in [host : Nat \ {0}, stream : 1 .. Streams, attempt : 1 .. Retries + 1, ok : BOOLEAN, idx : Nat,
            sent : Nat, failures : Nat]
  /\ p.host <= HostsEach + 1

(* What is settled has been tried as often as it had to be. *)
SettledWell(r) ==
  \/ Good(r) = {Len(r)} /\ Len(r) <= Retries + 1
  \/ Good(r) = {} /\ Len(r) = Retries + 1

(* What is not settled has only failed, if it has begun.                    *)
OthersFailed(p, l) ==
  \A s \in If!Slots \ Settled(p) :
    Good(l[s]) = {} /\ Len(l[s]) = IF s = Now(p) THEN p.attempt - 1 ELSE 0

CountsExact(p, l) ==
  /\ IsFiniteSet(Settled(p))
  /\ p.failures = Cardinality(GivenUp(Settled(p), l))
  /\ p.sent = p.host - 1 /\ p.idx = Cardinality(Settled(p)) % 256

TaskInv(p, l) ==
  /\ TaskType(p) /\ p.ok = FALSE
  /\ l \in [If!Slots -> Seq(Answers)]
  /\ \A s \in Settled(p) : SettledWell(l[s])
  /\ OthersFailed(p, l) /\ CountsExact(p, l)

(* One more answer. *)
LEMMA GoodAppended ==
  ASSUME NEW r \in Seq(Answers), NEW a \in Answers
  PROVE  /\ Append(r, a) \in Seq(Answers) /\ Len(Append(r, a)) = Len(r) + 1 /\ Len(r) \in Nat
         /\ Good(Append(r, a)) = Good(r) \cup (IF a = "ok" THEN {Len(r) + 1} ELSE {})
<1> DEFINE t == Append(r, a)
<1>1. /\ t \in Seq(Answers) /\ Len(t) = Len(r) + 1 /\ Len(r) \in Nat
      /\ DOMAIN t = 1 .. Len(r) + 1 /\ DOMAIN r = 1 .. Len(r)
      /\ t[Len(r) + 1] = a /\ \A i \in 1 .. Len(r) : t[i] = r[i]
  OBVIOUS
<1> HIDE DEF t
<1>2. \A i \in DOMAIN t : i \in 1 .. Len(r) \/ i = Len(r) + 1
  BY <1>1
<1>3. \A i \in 1 .. Len(r) : i \in DOMAIN t /\ i # Len(r) + 1
  BY <1>1
<1>4. Len(r) + 1 \in DOMAIN t
  BY <1>1
<1>5. Good(t) = Good(r) \cup (IF a = "ok" THEN {Len(r) + 1} ELSE {})
  BY <1>1, <1>2, <1>3, <1>4 DEF Good
<1> QED BY <1>1, <1>5 DEF t

(* The packet a task is at is one of its own, and not settled. *)
LEMMA NowOpen ==
  ASSUME NEW p, TaskType(p), p.host <= HostsEach
  PROVE  Now(p) \in If!Slots /\ Now(p) \notin Settled(p) /\ Now(p)[1] = p.host /\ Now(p)[2] = p.stream
<1>1. p.host \in Nat \ {0} /\ p.stream \in 1 .. Streams /\ Streams \in Nat /\ HostsEach \in Nat
  BY InterfaceGiven DEF TaskType
<1>2. p.host \in 1 .. HostsEach
  BY <1>1
<1>3. Now(p) \in If!Slots /\ Now(p)[1] = p.host /\ Now(p)[2] = p.stream
  BY <1>1, <1>2 DEF If!Slots, Now
<1>4. ~(p.host < p.host) /\ ~(p.stream < p.stream)
  BY <1>1
<1> QED BY <1>3, <1>4 DEF Settled

(* With it, all up to the next are settled. *)
LEMMA NextSettled ==
  ASSUME NEW p, TaskType(p), p.host <= HostsEach, NEW q, TaskType(q),
         \/ p.stream < Streams /\ q.stream = p.stream + 1 /\ q.host = p.host
         \/ ~(p.stream < Streams) /\ q.stream = 1 /\ q.host = p.host + 1
  PROVE  Settled(q) = Settled(p) \cup {Now(p)}
<1>1. p.host \in Nat \ {0} /\ p.stream \in 1 .. Streams /\ Streams \in Nat /\ HostsEach \in Nat
  BY InterfaceGiven DEF TaskType
<1>2. Now(p) \in If!Slots /\ Now(p)[1] = p.host /\ Now(p)[2] = p.stream
  BY NowOpen
<1>3. ASSUME NEW s \in If!Slots
      PROVE  /\ s[1] \in 1 .. HostsEach /\ s[2] \in 1 .. Streams /\ s = <<s[1], s[2]>>
             /\ s = Now(p) <=> s[1] = p.host /\ s[2] = p.stream
  BY <1>3 DEF If!Slots, Now
<1>4. ASSUME NEW s \in If!Slots
      PROVE  (s[1] < q.host \/ (s[1] = q.host /\ s[2] < q.stream))
             <=> (s[1] < p.host \/ (s[1] = p.host /\ s[2] < p.stream) \/ s = Now(p))
  <2> DEFINE a == s[1]
             b == s[2]
  <2>1. a \in 1 .. HostsEach /\ b \in 1 .. Streams /\ (s = Now(p) <=> a = p.host /\ b = p.stream)
    BY <1>3
  <2> HIDE DEF a, b
  <2>2. (a < q.host \/ (a = q.host /\ b < q.stream))
        <=> (a < p.host \/ (a = p.host /\ b < p.stream) \/ (a = p.host /\ b = p.stream))
    BY <1>1, <2>1
  <2> QED BY <2>1, <2>2 DEF a, b
<1> QED BY <1>2, <1>4 DEF Settled

Logs(l, c, a, k) == k = [l EXCEPT ![c] = Append(@, a)]

(* What the log of a task says after one more attempt. *)
LEMMA Logged ==
  ASSUME NEW p, NEW l, TaskInv(p, l), p.host <= HostsEach, NEW a \in Answers,
         NEW k, Logs(l, Now(p), a, k)
  PROVE  /\ k \in [If!Slots -> Seq(Answers)]
         /\ \A s \in If!Slots : s # Now(p) => k[s] = l[s]
         /\ Len(k[Now(p)]) = p.attempt
         /\ Good(k[Now(p)]) = IF a = "ok" THEN {p.attempt} ELSE {}
<1> DEFINE c == Now(p)
           r == l[c]
<1>1. c \in If!Slots /\ c \notin Settled(p) /\ l \in [If!Slots -> Seq(Answers)] /\ TaskType(p)
  BY NowOpen DEF TaskInv
<1>2. r \in Seq(Answers) /\ Good(r) = {} /\ Len(r) = p.attempt - 1
  BY <1>1 DEF TaskInv, OthersFailed
<1> HIDE DEF r
<1>3. /\ Append(r, a) \in Seq(Answers) /\ Len(Append(r, a)) = p.attempt
      /\ Good(Append(r, a)) = IF a = "ok" THEN {p.attempt} ELSE {}
  <2>1. /\ Append(r, a) \in Seq(Answers) /\ Len(Append(r, a)) = Len(r) + 1
        /\ Good(Append(r, a)) = Good(r) \cup (IF a = "ok" THEN {Len(r) + 1} ELSE {})
    BY <1>2, GoodAppended
  <2>2. Len(r) + 1 = p.attempt
    BY <1>1, <1>2, InterfaceGiven DEF TaskType
  <2> QED BY <1>2, <2>1, <2>2
<1> HIDE DEF c
<1>4. /\ k \in [If!Slots -> Seq(Answers)] /\ k[c] = Append(r, a)
      /\ \A s \in If!Slots : s # c => k[s] = l[s]
  BY <1>1, <1>3 DEF r, c, Logs
<1> QED BY <1>3, <1>4 DEF c

Again(p, a, q) == q = [p EXCEPT !.attempt = @ + 1, !.ok = (p.ok \/ a = "ok")]

(* xm_send_task.c:207-231: an attempt that another one follows.             *)
LEMMA TriedAgain ==
  ASSUME NEW p, NEW l, TaskInv(p, l), p.host <= HostsEach, NEW a \in Answers,
         NEW k, Logs(l, Now(p), a, k), ~If!Last(p, a),
         NEW q, Again(p, a, q)
  PROVE  TaskInv(q, k)
<1>1. TaskType(p) /\ p.ok = FALSE
  BY DEF TaskInv
<1>2. a # "ok" /\ p.attempt # Retries + 1
  BY DEF If!Last, If!Attempts
<1>3. /\ q.host = p.host /\ q.stream = p.stream /\ q.attempt = p.attempt + 1 /\ q.ok = FALSE
      /\ q.idx = p.idx /\ q.sent = p.sent /\ q.failures = p.failures
  BY <1>1, <1>2 DEF TaskType, Again
<1>4. TaskType(q)
  <2>1. p.attempt \in 1 .. Retries + 1 /\ Retries \in Nat
    BY <1>1, InterfaceGiven DEF TaskType
  <2>2. p.attempt + 1 \in 1 .. Retries + 1
    BY <1>2, <2>1
  <2>3. q \in [host : Nat \ {0}, stream : 1 .. Streams, attempt : 1 .. Retries + 1, ok : BOOLEAN, idx : Nat,
               sent : Nat, failures : Nat]
    BY <1>1, <2>2 DEF TaskType, Again
  <2> QED BY <1>1, <1>3, <2>3 DEF TaskType
<1>5. Settled(q) = Settled(p) /\ Now(q) = Now(p)
  BY <1>3 DEF Settled, Now
<1>6. /\ k \in [If!Slots -> Seq(Answers)]
      /\ \A s \in If!Slots : s # Now(p) => k[s] = l[s]
      /\ Len(k[Now(p)]) = p.attempt /\ Good(k[Now(p)]) = {}
  <2>1. /\ k \in [If!Slots -> Seq(Answers)]
        /\ \A s \in If!Slots : s # Now(p) => k[s] = l[s]
        /\ Len(k[Now(p)]) = p.attempt /\ Good(k[Now(p)]) = IF a = "ok" THEN {p.attempt} ELSE {}
    BY Logged
  <2>2. CASE a = "ok"
    BY <1>2, <2>2
  <2>3. CASE a # "ok"
    BY <2>1, <2>3
  <2> QED BY <2>2, <2>3
<1>7. Now(p) \in If!Slots /\ Now(p) \notin Settled(p)
  BY <1>1, NowOpen
<1>8. \A s \in Settled(p) : s \in If!Slots /\ k[s] = l[s]
  BY <1>6, <1>7 DEF Settled
<1>9. \A s \in Settled(q) : SettledWell(k[s])
  BY <1>5, <1>8 DEF TaskInv
<1>10. OthersFailed(q, k)
  <2> SUFFICES ASSUME NEW s \in If!Slots \ Settled(p)
               PROVE  Good(k[s]) = {} /\ Len(k[s]) = IF s = Now(p) THEN q.attempt - 1 ELSE 0
    BY <1>5 DEF OthersFailed
  <2>1. CASE s = Now(p)
    <3>1. q.attempt - 1 = p.attempt
      BY <1>1, <1>3, InterfaceGiven DEF TaskType
    <3> QED BY <1>6, <2>1, <3>1
  <2>2. CASE s # Now(p)
    BY <1>6, <2>2 DEF TaskInv, OthersFailed
  <2> QED BY <2>1, <2>2
<1>11. CountsExact(q, k)
  <2>1. GivenUp(Settled(p), k) = GivenUp(Settled(p), l)
    BY <1>8 DEF GivenUp
  <2> QED BY <1>3, <1>5, <2>1 DEF TaskInv, CountsExact
<1> QED BY <1>3, <1>4, <1>6, <1>9, <1>10, <1>11 DEF TaskInv

(* Counters of eight bits.                                                  *)
LEMMA Wrapped == ASSUME NEW n \in Nat PROVE ((n % 256) + 1) % 256 = (n + 1) % 256
OBVIOUS

(* xm_send_task.c:207-248: the last attempt settles the packet.             *)
LEMMA TriedLast ==
  ASSUME NEW p, NEW l, TaskInv(p, l), p.host <= HostsEach, NEW a \in Answers,
         NEW k, Logs(l, Now(p), a, k), If!Last(p, a),
         NEW q, q = If!Counted(p, p.ok \/ a = "ok")
  PROVE  TaskInv(q, k)
<1>1. TaskType(p) /\ p.ok = FALSE
  BY DEF TaskInv
<1>2. a = "ok" \/ p.attempt = Retries + 1
  BY DEF If!Last, If!Attempts
<1>3. /\ q.attempt = 1 /\ q.ok = FALSE /\ q.idx = (p.idx + 1) % 256
      /\ q.failures = (IF a = "ok" THEN p.failures ELSE p.failures + 1)
      /\ \/ p.stream < Streams /\ q.stream = p.stream + 1 /\ q.host = p.host /\ q.sent = p.sent
         \/ ~(p.stream < Streams) /\ q.stream = 1 /\ q.host = p.host + 1 /\ q.sent = p.sent + 1
      /\ q \in [host : {q.host}, stream : {q.stream}, attempt : {1}, ok : {FALSE}, idx : {q.idx},
                sent : {q.sent}, failures : {q.failures}]
  BY <1>1 DEF If!Counted, TaskType
<1>4. TaskType(q)
  <2>1. /\ p.host \in Nat \ {0} /\ p.stream \in 1 .. Streams /\ p.idx \in Nat /\ p.sent \in Nat
        /\ p.failures \in Nat /\ Retries \in Nat /\ Streams \in Nat \ {0} /\ HostsEach \in Nat
    BY <1>1, InterfaceGiven DEF TaskType
  <2>2. /\ q.host \in Nat \ {0} /\ q.stream \in 1 .. Streams /\ q.idx \in Nat /\ q.sent \in Nat
        /\ q.failures \in Nat /\ q.host <= HostsEach + 1 /\ 1 \in 1 .. Retries + 1
    <3>1. q.idx \in Nat /\ q.failures \in Nat /\ 1 \in 1 .. Retries + 1
      BY <1>3, <2>1
    <3>2. p.host + 1 \in Nat \ {0} /\ p.host + 1 <= HostsEach + 1 /\ p.host <= HostsEach + 1 /\ 1 \in 1 .. Streams
      BY <2>1
    <3>3. p.stream < Streams => p.stream + 1 \in 1 .. Streams
      BY <2>1
    <3>4. p.sent + 1 \in Nat
      BY <2>1
    <3> QED BY <1>3, <2>1, <3>1, <3>2, <3>3, <3>4
  <2> QED BY <1>3, <2>2 DEF TaskType
<1>5. Settled(q) = Settled(p) \cup {Now(p)}
  BY <1>1, <1>3, <1>4, NextSettled
<1>6. /\ k \in [If!Slots -> Seq(Answers)]
      /\ \A s \in If!Slots : s # Now(p) => k[s] = l[s]
      /\ Len(k[Now(p)]) = p.attempt
      /\ Good(k[Now(p)]) = IF a = "ok" THEN {p.attempt} ELSE {}
  BY Logged
<1>7. Now(p) \in If!Slots /\ Now(p) \notin Settled(p)
  BY <1>1, NowOpen
<1>8. \A s \in Settled(p) : s \in If!Slots /\ k[s] = l[s]
  BY <1>6, <1>7 DEF Settled
<1>9. SettledWell(k[Now(p)])
  <2>1. p.attempt <= Retries + 1
    BY <1>1, InterfaceGiven DEF TaskType
  <2> QED BY <1>2, <1>6, <2>1 DEF SettledWell
<1>10. \A s \in Settled(q) : SettledWell(k[s])
  BY <1>5, <1>8, <1>9 DEF TaskInv
<1>11. OthersFailed(q, k)
  <2> SUFFICES ASSUME NEW s \in If!Slots \ Settled(q)
               PROVE  Good(k[s]) = {} /\ Len(k[s]) = 0
    <3>1. q.attempt - 1 = 0
      BY <1>3
    <3> QED BY <3>1 DEF OthersFailed
  <2>1. s # Now(p) /\ s \in If!Slots \ Settled(p)
    BY <1>5
  <2> QED BY <1>6, <2>1 DEF TaskInv, OthersFailed
<1>12. CountsExact(q, k)
  <2>1. /\ IsFiniteSet(Settled(p)) /\ p.failures = Cardinality(GivenUp(Settled(p), l))
        /\ p.sent = p.host - 1 /\ p.idx = Cardinality(Settled(p)) % 256
    BY DEF TaskInv, CountsExact
  <2>2. IsFiniteSet(Settled(q)) /\ Cardinality(Settled(q)) = Cardinality(Settled(p)) + 1
    BY <1>5, <1>7, <2>1, FS_AddElement
  <2>3. q.idx = Cardinality(Settled(q)) % 256
    <3>1. Cardinality(Settled(p)) \in Nat
      BY <2>1, FS_CardinalityType
    <3> QED BY <1>3, <2>1, <2>2, <3>1, Wrapped
  <2>4. q.sent = q.host - 1
    BY <1>1, <1>3, <2>1 DEF TaskType
  <2>5. q.failures = Cardinality(GivenUp(Settled(q), k))
    <3>1. IsFiniteSet(GivenUp(Settled(p), l)) /\ Now(p) \notin GivenUp(Settled(p), l)
      <4>1. GivenUp(Settled(p), l) \subseteq Settled(p)
        BY DEF GivenUp
      <4> QED BY <1>7, <2>1, <4>1, FS_Subset
    <3>2. CASE a = "ok"
      <4>1. Good(k[Now(p)]) # {}
        <5>1. Good(k[Now(p)]) = {p.attempt}
          BY <1>6, <3>2
        <5> QED BY <5>1
      <4>2. GivenUp(Settled(q), k) = GivenUp(Settled(p), l)
        BY <1>5, <1>8, <4>1 DEF GivenUp
      <4> QED BY <1>3, <2>1, <3>2, <4>2
    <3>3. CASE a # "ok"
      <4>1. GivenUp(Settled(q), k) = GivenUp(Settled(p), l) \cup {Now(p)}
        BY <1>5, <1>6, <1>8, <3>3 DEF GivenUp
      <4>2. Cardinality(GivenUp(Settled(p), l) \cup {Now(p)}) = Cardinality(GivenUp(Settled(p), l)) + 1
        BY <3>1, FS_AddElement
      <4> QED BY <1>3, <2>1, <3>3, <4>1, <4>2
    <3> QED BY <3>2, <3>3
  <2> QED BY <2>2, <2>3, <2>4, <2>5 DEF CountsExact
<1> QED BY <1>3, <1>4, <1>6, <1>10, <1>11, <1>12 DEF TaskInv

(* The tasks and their logs, and what their drivers can do.                 *)
IfInv ==
  /\ task \in [If!Sender -> [host : Nat \ {0}, stream : 1 .. Streams, attempt : 1 .. Retries + 1,
                             ok : BOOLEAN, idx : Nat, sent : Nat, failures : Nat]]
  /\ log \in [If!Sender -> [If!Slots -> Seq(Answers)]]
  /\ \A t \in If!Sender : TaskInv(task[t], log[t])
  /\ type.send \in If!create_tx_private_data /\ type.recv \in If!create_rx_private_data => pc # "crash"

(* xm_send_task.c:207-248: a task tries to send its packet once.            *)
LEMMA AttemptStep == ASSUME IfInv, NEW t \in If!Sender, If!Attempt(t) PROVE IfInv'
<1>1. PICK r \in If!Result(t) :
        /\ log' = [log EXCEPT ![t][<<task[t].host, task[t].stream>>] = Append(@, r)]
        /\ task' = [task EXCEPT ![t] = IF If!Last(task[t], r) THEN If!Counted(task[t], task[t].ok \/ r = "ok")
                        ELSE [task[t] EXCEPT !.attempt = @ + 1, !.ok = (task[t].ok \/ r = "ok")]]
  BY DEF If!Attempt
<1>2. pc = "run" /\ task[t].host <= HostsEach /\ type' = type /\ pc' = pc
  BY DEF If!Attempt
<1>3. r \in Answers
  BY DEF If!Result, Answers
<1>4. TaskInv(task[t], log[t])
  BY DEF IfInv
<1>5. /\ Logs(log[t], Now(task[t]), r, log'[t])
      /\ \A u \in If!Sender : u # t => log'[u] = log[u]
      /\ DOMAIN log' = If!Sender /\ log' = [u \in If!Sender |-> log'[u]]
  BY <1>1 DEF IfInv, Logs, Now
<1>6. /\ \A u \in If!Sender : u # t => task'[u] = task[u]
      /\ task' = [u \in If!Sender |-> task'[u]]
      /\ task'[t] = IF If!Last(task[t], r) THEN If!Counted(task[t], task[t].ok \/ r = "ok")
                    ELSE [task[t] EXCEPT !.attempt = @ + 1, !.ok = (task[t].ok \/ r = "ok")]
  BY <1>1 DEF IfInv
<1>7. TaskInv(task'[t], log'[t])
  <2>1. CASE If!Last(task[t], r)
    <3>1. task'[t] = If!Counted(task[t], task[t].ok \/ r = "ok")
      BY <1>6, <2>1
    <3> QED BY <1>2, <1>3, <1>4, <1>5, <2>1, <3>1, TriedLast
  <2>2. CASE ~If!Last(task[t], r)
    <3>1. Again(task[t], r, task'[t])
      BY <1>6, <2>2 DEF Again
    <3> QED BY <1>2, <1>3, <1>4, <1>5, <2>2, <3>1, TriedAgain
  <2> QED BY <2>1, <2>2
<1>8. \A u \in If!Sender : TaskInv(task'[u], log'[u])
  BY <1>5, <1>6, <1>7 DEF IfInv
<1>9. /\ task' \in [If!Sender -> [host : Nat \ {0}, stream : 1 .. Streams, attempt : 1 .. Retries + 1,
                                  ok : BOOLEAN, idx : Nat, sent : Nat, failures : Nat]]
      /\ log' \in [If!Sender -> [If!Slots -> Seq(Answers)]]
  BY <1>5, <1>6, <1>8 DEF TaskInv, TaskType
<1> QED BY <1>2, <1>8, <1>9 DEF IfInv

(* xm_interface.c, xm_context.c: nobody sends before all drivers are made.  *)
LEMMA InterfaceStep == ASSUME IfInv, [If!Next]_(If!ifVars) PROVE IfInv'
<1>1. CASE UNCHANGED If!ifVars
  BY <1>1 DEF If!ifVars, IfInv
<1>2. CASE If!SendInterface \/ If!RecvInterface \/ If!SendTask \/ If!RecvTask
  <2>1. UNCHANGED <<type, task, log>>
    BY <1>2 DEF If!SendInterface, If!RecvInterface, If!SendTask, If!RecvTask, If!xm_if_create, If!Create, If!Goto
  <2>2. CASE If!SendInterface \/ If!RecvInterface
    <3>1. pc' \in {"refused", "recv_interface", "tasks"}
      BY <2>2 DEF If!SendInterface, If!RecvInterface, If!xm_if_create, If!Goto
    <3> QED BY <2>1, <3>1 DEF IfInv
  <2>3. CASE If!SendTask
    <3>1. type.send \in If!create_tx_private_data => pc' \in {"refused", "tasks"}
      BY <2>3 DEF If!SendTask, If!Create, If!Goto
    <3> QED BY <2>1, <3>1 DEF IfInv
  <2>4. CASE If!RecvTask
    <3>1. type.recv \in If!create_rx_private_data => pc' \in {"refused", "run"}
      BY <2>4 DEF If!RecvTask, If!Create, If!Goto
    <3> QED BY <2>1, <3>1 DEF IfInv
  <2> QED BY <1>2, <2>2, <2>3, <2>4
<1>3. ASSUME NEW t \in If!Sender, If!Attempt(t) PROVE IfInv'
  BY <1>3, AttemptStep
<1> QED BY <1>1, <1>2, <1>3 DEF If!Next

(* Nothing has been tried at first. *)
LEMMA InitInterface == ASSUME If!Init PROVE IfInv
<1>1. /\ If!Idle.host = 1 /\ If!Idle.stream = 1 /\ If!Idle.attempt = 1 /\ If!Idle.ok = FALSE /\ If!Idle.idx = 0
      /\ If!Idle.sent = 0 /\ If!Idle.failures = 0
      /\ If!Idle \in [host : {1}, stream : {1}, attempt : {1}, ok : {FALSE}, idx : {0}, sent : {0}, failures : {0}]
  BY DEF If!Idle
<1>2. TaskType(If!Idle)
  <2>1. 1 \in Nat \ {0} /\ 1 \in 1 .. Streams /\ 1 \in 1 .. Retries + 1 /\ 0 \in Nat /\ 1 <= HostsEach + 1
    BY InterfaceGiven
  <2> QED BY <1>1, <2>1 DEF TaskType
<1>3. Settled(If!Idle) = {}
  <2>1. ASSUME NEW s \in If!Slots PROVE ~(s[1] < 1) /\ ~(s[2] < 1)
    <3>1. s[1] \in 1 .. HostsEach /\ s[2] \in 1 .. Streams
      BY DEF If!Slots
    <3> QED BY <3>1, InterfaceGiven
  <2> QED BY <1>1, <2>1 DEF Settled
<1> DEFINE l == [s \in If!Slots |-> <<>>]
<1>4. <<>> \in Seq(Answers) /\ Len(<<>>) = 0 /\ Good(<<>>) = {}
  BY DEF Good
<1>5. l \in [If!Slots -> Seq(Answers)] /\ \A s \in If!Slots : l[s] = <<>>
  BY <1>4
<1>6. log = [t \in If!Sender |-> l] /\ task = [t \in If!Sender |-> If!Idle] /\ pc = "send_interface"
  BY DEF If!Init
<1> HIDE DEF l
<1>7. OthersFailed(If!Idle, l)
  <2>1. If!Idle.attempt - 1 = 0
    BY <1>1
  <2> QED BY <1>4, <1>5, <2>1 DEF OthersFailed
<1>8. CountsExact(If!Idle, l)
  <2>1. GivenUp(Settled(If!Idle), l) = {}
    BY <1>3 DEF GivenUp
  <2>2. IsFiniteSet({}) /\ Cardinality({}) = 0
    BY FS_EmptySet
  <2>3. 0 % 256 = 0 /\ 1 - 1 = 0
    OBVIOUS
  <2> QED BY <1>1, <1>3, <2>1, <2>2, <2>3 DEF CountsExact
<1>9. TaskInv(If!Idle, l)
  BY <1>1, <1>2, <1>3, <1>5, <1>7, <1>8 DEF TaskInv
<1> QED BY <1>2, <1>5, <1>6, <1>9 DEF IfInv, TaskType

(* What this says of the packets and the counters. *)
LEMMA SendsSettledHolds == ASSUME IfInv PROVE If!SendsSettled
<1> SUFFICES ASSUME NEW t \in If!Sender
             PROVE  /\ \A s \in Settled(task[t]) :
                         \/ Good(log[t][s]) = {Len(log[t][s])} /\ Len(log[t][s]) <= Retries + 1
                         \/ Good(log[t][s]) = {} /\ Len(log[t][s]) = Retries + 1
                    /\ task[t].failures = Cardinality({ s \in Settled(task[t]) : Good(log[t][s]) = {} })
                    /\ task[t].sent = task[t].host - 1
                    /\ task[t].idx = Cardinality(Settled(task[t])) % 256
  BY SameIfCount DEF If!SendsSettled, IfInv, Settled, Good
<1>1. TaskInv(task[t], log[t])
  BY DEF IfInv
<1> QED BY <1>1 DEF TaskInv, SettledWell, CountsExact, GivenUp

(* xm_interface.c, xm_send_task.c:190-248: however many tasks, hosts,       *)
(* streams and retries, a packet is sent at most once and given up only     *)
(* after all its retries, and the counters say so.                          *)
THEOREM InterfaceExactAlways == Spec => []InterfaceExact
<1> DEFINE Inv == part = "Interface" => IfInv
<1>1. Init => Inv
  BY InitInterface DEF Init
<1>2. Inv /\ [Next]_partVars => Inv'
  <2> SUFFICES ASSUME Inv, [Next]_partVars, part' = "Interface" PROVE IfInv'
    OBVIOUS
  <2>1. part = "Interface" /\ [If!Next]_(If!ifVars)
    BY DEF Next, partVars, If!ifVars
  <2> QED BY <2>1, InterfaceStep
<1>3. Inv => InterfaceExact
  BY SendsSettledHolds DEF InterfaceExact
<1> QED BY <1>1, <1>2, <1>3, PTL DEF Spec

-----------------------------------------------------------------------------
(* Numbers and strings in buffers. *)

which == v1
size == v2
bytes == v3
written == v4
pos == v6
got == v7

USE DEF which, size, bytes, written, pos, got

(* What BinFormat assumes of its constants. *)
LEMMA BinGiven ==
  /\ Bits \in Nat \ {0} /\ BinNumbers \subseteq Int /\ BinSizes \subseteq Nat
  /\ \A s \in BinStrings : s \in Seq(0 .. (2 ^ Bits) - 1) /\ Len(s) < 2 ^ (Bits * 8)
BY PartsAssumption DEF Bin!BinAssumption, Bin!SizeT

(* What is in a buffer: bytes. *)
Eight == 0 .. (2 ^ Bits) - 1
NumberTypes == {1, 2, 4, 8} \X BOOLEAN

(* The C types have 1, 2, 4 or 8 bytes, and none of them is that of strings. *)
LEMMA KnownTypes ==
  /\ \A t \in DOMAIN Bin!CTypes : Bin!CTypes[t] \in NumberTypes
  /\ \A t \in DOMAIN Bin!FixedTypes : Bin!FixedTypes[t] \in NumberTypes
  /\ Bin!CTypes.size = <<8, FALSE>> /\ Bin!String \notin NumberTypes
<1>1. /\ Bin!CTypes.bool = <<1, FALSE>> /\ Bin!CTypes.short = <<2, TRUE>> /\ Bin!CTypes.int = <<4, TRUE>>
      /\ Bin!CTypes.long = <<8, TRUE>> /\ Bin!CTypes.ushort = <<2, FALSE>> /\ Bin!CTypes.size = <<8, FALSE>>
      /\ Bin!CTypes.ssize = <<8, TRUE>>
      /\ DOMAIN Bin!CTypes = {"bool", "short", "int", "long", "ushort", "size", "ssize"}
  BY DEF Bin!CTypes
<1>2. /\ Bin!FixedTypes.int8 = <<1, TRUE>> /\ Bin!FixedTypes.int32 = <<4, TRUE>>
      /\ Bin!FixedTypes.uint8 = <<1, FALSE>> /\ Bin!FixedTypes.uint16 = <<2, FALSE>> /\ Bin!FixedTypes.uint32 = <<4, FALSE>>
      /\ Bin!FixedTypes.uint64 = <<8, FALSE>>
      /\ DOMAIN Bin!FixedTypes = {"int8", "int32", "uint8", "uint16", "uint32", "uint64"}
  BY DEF Bin!FixedTypes
<1>6. \A n \in {1, 2, 4, 8}, signed \in BOOLEAN : <<n, signed>> \in NumberTypes
  BY DEF NumberTypes
<1> HIDE DEF NumberTypes
<1>3. \A t \in DOMAIN Bin!CTypes : Bin!CTypes[t] \in NumberTypes
  BY <1>1, <1>6
<1>4. \A t \in DOMAIN Bin!FixedTypes : Bin!FixedTypes[t] \in NumberTypes
  BY <1>2, <1>6
<1>5. Bin!String \notin NumberTypes
  BY DEF Bin!String, NumberTypes
<1> QED BY <1>1, <1>3, <1>4, <1>5

(* xm_bin_format.h:73: a number is written as bytes.                        *)
LEMMA BytesType ==
  ASSUME NEW v \in Int, NEW n \in {1, 2, 4, 8}
  PROVE  Bin!Bytes(v, n) \in Seq(Eight) /\ Len(Bin!Bytes(v, n)) = n
<1>1. Bits \in Nat /\ 2 ^ Bits \in Nat \ {0} /\ n \in Nat
  BY BinGiven, PowersOfTwo
<1>2. ASSUME NEW i \in 1 .. n PROVE (v \div (2 ^ (Bits * (n - i)))) % (2 ^ Bits) \in Eight
  <2>1. Bits * (n - i) \in Nat
    <3>1. PICK k \in Nat : k = n - i
      BY <1>1
    <3>2. Bits * k \in Nat
      BY <1>1
    <3> QED BY <3>1, <3>2
  <2>2. PICK m \in Nat \ {0} : m = 2 ^ (Bits * (n - i))
    BY <2>1, PowersOfTwo
  <2>3. PICK b \in Nat \ {0} : b = 2 ^ Bits
    BY <1>1
  <2>4. v \div m \in Int
    BY DivisionInt
  <2>5. (v \div m) % b \in 0 .. b - 1
    BY <2>4, DivisionInt
  <2> QED BY <2>2, <2>3, <2>5 DEF Eight
<1> DEFINE d == [i \in 1 .. n |-> (v \div (2 ^ (Bits * (n - i)))) % (2 ^ Bits)]
<1>3. d \in [1 .. n -> Eight]
  BY <1>2
<1> HIDE DEF d
<1>4. d \in Seq(Eight) /\ Len(d) = n
  BY <1>1, <1>3
<1> QED BY <1>4 DEF d, Bin!Bytes

(* xm_bin_format.h:349: the bytes of a number make the number again, up to  *)
(* the size of its type.                                                    *)
LEMMA NumberOfBytes ==
  ASSUME NEW v \in Int, NEW n \in {1, 2, 4, 8}
  PROVE  Bin!Number(Bin!Bytes(v, n)) = v % (2 ^ (Bits * n))
<1>1. Bits \in Nat /\ n \in Nat
  BY BinGiven
<1> DEFINE s == Bin!Bytes(v, n)
<1>2. Digits(s, v, Bits, n)
  BY DEF Bin!Bytes, Digit, Digits
<1> HIDE DEF s
<1>3. /\ \E f : Reads(f, s, Bits)
      /\ \A f : Reads(f, s, Bits) => f[Len(s)] = v % (2 ^ (Bits * n))
  BY <1>1, <1>2, DigitsRead
<1>4. \E f : Reads(f, s, Bits) /\ Bin!Number(s) = f[Len(s)]
  <2> DEFINE f == CHOOSE g : g = [i \in 0 .. Len(s) |-> IF i = 0 THEN 0 ELSE (2 ^ Bits) * g[i - 1] + s[i]]
  <2>1. \E g : g = [i \in 0 .. Len(s) |-> IF i = 0 THEN 0 ELSE (2 ^ Bits) * g[i - 1] + s[i]]
    BY <1>3 DEF Reads
  <2>2. f = [i \in 0 .. Len(s) |-> IF i = 0 THEN 0 ELSE (2 ^ Bits) * f[i - 1] + s[i]]
    BY <2>1
  <2>3. Bin!Number(s) = f[Len(s)]
    BY DEF Bin!Number
  <2> HIDE DEF f
  <2> QED BY <2>2, <2>3 DEF Reads
<1> QED BY <1>3, <1>4 DEF s

(* What is read in a variable of the type is what was in one.               *)
LEMMA ValueOfBytes ==
  ASSUME NEW v \in Int, NEW type_of \in NumberTypes
  PROVE  Bin!Value(Bin!Bytes(v, type_of[1]), type_of) = Bin!As(v, type_of)
<1>1. type_of[1] \in {1, 2, 4, 8}
  BY DEF NumberTypes
<1>2. PICK n \in {1, 2, 4, 8} : n = type_of[1]
  BY <1>1
<1>3. Bits * n \in Nat
  BY BinGiven
<1>4. PICK m \in Nat \ {0} : m = 2 ^ (Bits * n)
  BY <1>3, PowersOfTwo
<1>5. Bin!Number(Bin!Bytes(v, n)) = v % m
  BY <1>4, NumberOfBytes
<1>6. (v % m) % m = v % m
  <2>1. v % m \in 0 .. m - 1
    BY DivisionInt
  <2> QED BY <2>1, SmallRemainder
<1> QED BY <1>2, <1>4, <1>5, <1>6 DEF Bin!Value, Bin!As

(* The length of a string fits in its type. *)
LEMMA LengthRead ==
  ASSUME NEW s \in BinStrings
  PROVE  Bin!Value(Bin!Bytes(Len(s), 8), Bin!CTypes.size) = Len(s)
<1>1. PICK k \in Nat : k = Len(s) /\ k < 2 ^ (Bits * 8)
  BY BinGiven
<1>2. PICK m \in Nat \ {0} : m = 2 ^ (Bits * 8)
  <2>1. Bits * 8 \in Nat
    BY BinGiven
  <2> QED BY <2>1, PowersOfTwo
<1>3. k % m = k
  BY <1>1, <1>2, SmallRemainder
<1>4. <<8, FALSE>> \in NumberTypes
  BY DEF NumberTypes
<1>5. Bin!Value(Bin!Bytes(k, 8), <<8, FALSE>>) = Bin!As(k, <<8, FALSE>>)
  BY <1>4, ValueOfBytes
<1>6. Bin!As(k, <<8, FALSE>>) = k
  BY <1>2, <1>3 DEF Bin!As
<1> QED BY <1>1, <1>5, <1>6, KnownTypes

-----------------------------------------------------------------------------
(* What an entry of the history may be. *)
Entries == ({Bin!String} \X BinStrings) \cup (NumberTypes \X Int)

(* The bytes of an entry are those of b between two places.                 *)
Fits(b, a, c, e) ==
  IF e[1] = Bin!String
  THEN /\ c = a + 8 + Len(e[2])
       /\ Bin!Value(Piece(b, a, a + 8), Bin!CTypes.size) = Len(e[2])
       /\ Piece(b, a + 8, c) = e[2]
  ELSE c = a + e[1][1] /\ Bin!Value(Piece(b, a, c), e[1]) = e[2]

(* Where the entries are.                                                   *)
Layout(off, w, b) ==
  /\ off \in [0 .. Len(w) -> Nat] /\ off[0] = 0 /\ off[Len(w)] = Len(b)
  /\ \A i \in 0 .. Len(w) : off[i] <= Len(b)
  /\ \A i \in 1 .. Len(w) : Fits(b, off[i - 1], off[i], w[i])

(* What has been read, and where the reader is.                             *)
Cursor(off) ==
  IF pos = -1 THEN got = <<>>
  ELSE /\ Len(got) <= Len(written) /\ pos = off[Len(got)]
       /\ \A i \in 1 .. Len(got) : got[i] = written[i][2]

BinInv ==
  /\ size \in Nat /\ bytes \in Seq(Eight) /\ Len(bytes) <= size
  /\ written \in Seq(Entries) /\ got \in Seq(Int \cup BinStrings)
  /\ \E off : Layout(off, written, bytes) /\ Cursor(off)

(* A value in a variable is a number.                                       *)
LEMMA AsType ==
  ASSUME NEW v \in Int, NEW k \in NumberTypes
  PROVE  Bin!As(v, k) \in Int
<1>1. k[1] \in {1, 2, 4, 8}
  BY DEF NumberTypes
<1>2. Bits * k[1] \in Nat
  BY <1>1, BinGiven
<1>3. PICK m \in Nat \ {0} : m = 2 ^ (Bits * k[1])
  BY <1>2, PowersOfTwo
<1>4. v % m \in Int
  BY DivisionInt
<1> QED BY <1>3, <1>4 DEF Bin!As

(* What is written of a number, and of a string, is an entry.               *)
LEMMA NumberFits ==
  ASSUME NEW v \in Int, NEW k \in NumberTypes, NEW p, p = Bin!Bytes(v, k[1])
  PROVE  p \in Seq(Eight) /\ <<k, Bin!As(v, k)>> \in Entries /\ Fits(p, 0, Len(p), <<k, Bin!As(v, k)>>)
<1>1. k[1] \in {1, 2, 4, 8} /\ k # Bin!String
  BY KnownTypes DEF NumberTypes
<1>2. p \in Seq(Eight) /\ Len(p) = k[1]
  BY <1>1, BytesType
<1>3. Bin!Value(p, k) = Bin!As(v, k)
  BY ValueOfBytes
<1>4. Piece(p, 0, Len(p)) = p
  BY <1>2, PieceWhole
<1>5. Len(p) = 0 + k[1]
  BY <1>1, <1>2
<1>6. Bin!As(v, k) \in Int
  BY AsType
<1> QED BY <1>1, <1>2, <1>3, <1>4, <1>5, <1>6 DEF Fits, Entries

(* The same for a string. *)
LEMMA StringFits ==
  ASSUME NEW s \in BinStrings, NEW p, p = Bin!Bytes(Len(s), Bin!SizeT) \o s
  PROVE  p \in Seq(Eight) /\ <<Bin!String, s>> \in Entries /\ Fits(p, 0, Len(p), <<Bin!String, s>>)
<1>1. s \in Seq(Eight) /\ Len(s) \in Nat /\ Len(s) \in Int
  BY BinGiven DEF Eight
<1> DEFINE h == Bin!Bytes(Len(s), 8)
<1>2. h \in Seq(Eight) /\ Len(h) = 8 /\ p = h \o s
  BY <1>1, BytesType DEF Bin!SizeT
<1>3. Bin!Value(h, Bin!CTypes.size) = Len(s)
  BY LengthRead
<1> HIDE DEF h
<1>4. h \o s \in Seq(Eight) /\ Len(h \o s) = Len(h) + Len(s)
  BY <1>1, <1>2, ConcatProperties
<1>5. Piece(h \o s, 0, 8) = Piece(h, 0, 8) /\ Piece(h, 0, Len(h)) = h
  <2>1. 0 \in Nat /\ 8 \in Nat /\ 8 <= Len(h)
    BY <1>2
  <2>2. Piece(h \o s, 0, 8) = Piece(h, 0, 8)
    BY <1>1, <1>2, <2>1, PieceOld
  <2>3. Piece(h, 0, Len(h)) = h
    BY <1>2, PieceWhole
  <2> QED BY <2>2, <2>3
<1>6. PICK c \in Nat : c = 8
  OBVIOUS
<1>7. PICK d \in Nat : d = c + Len(s)
  BY <1>1
<1>8. Piece(p, 0, c) = h /\ Piece(p, c, d) = s /\ d = Len(p)
  <2>1. c = Len(h)
    BY <1>2, <1>6
  <2>2. PICK t \in Seq(Eight) : t = s
    BY <1>1
  <2>3. h \in Seq(Eight) /\ d = c + Len(t)
    BY <1>2, <1>7, <2>2
  <2>4. Piece(h \o t, c, d) = t
    BY ONLY t \in Seq(Eight), c \in Nat, d \in Nat, <2>1, <2>3, PieceBehind
  <2> QED BY <1>2, <1>4, <1>5, <1>6, <1>7, <2>1, <2>2, <2>4
<1>9. <<Bin!String, s>>[1] = Bin!String /\ <<Bin!String, s>>[2] = s
  OBVIOUS
<1>10. c = 0 + 8 /\ d = c + Len(s)
  BY <1>6, <1>7
<1>11. Fits(p, 0, d, <<Bin!String, s>>)
  BY <1>3, <1>8, <1>9, <1>10 DEF Fits
<1> QED BY <1>2, <1>4, <1>8, <1>11 DEF Entries

(* What is written behind leaves an entry where it is.                      *)
LEMMA FitsKept ==
  ASSUME NEW b \in Seq(Eight), NEW t \in Seq(Eight), NEW a \in Nat, NEW c \in Nat, c <= Len(b),
         NEW e \in Entries, Fits(b, a, c, e)
  PROVE  Fits(b \o t, a, c, e)
<1>1. CASE e[1] = Bin!String
  <2>1. e[2] \in BinStrings
    BY <1>1, KnownTypes DEF Entries
  <2>2. PICK n \in Nat : n = Len(e[2])
    BY <2>1, BinGiven
  <2>3. PICK m \in Nat : m = a + 8
    OBVIOUS
  <2>4. /\ c = m + n /\ Bin!Value(Piece(b, a, m), Bin!CTypes.size) = n
        /\ Piece(b, m, c) = e[2]
    BY <1>1, <2>2, <2>3 DEF Fits
  <2>5. m <= Len(b) /\ Len(b) \in Nat
    BY <2>4
  <2>6. Piece(b \o t, a, m) = Piece(b, a, m)
    BY <2>5, PieceOld
  <2>7. Piece(b \o t, m, c) = Piece(b, m, c)
    BY PieceOld
  <2> QED BY <1>1, <2>2, <2>3, <2>4, <2>6, <2>7 DEF Fits
<1>2. CASE e[1] # Bin!String
  <2>1. Piece(b \o t, a, c) = Piece(b, a, c)
    BY PieceOld
  <2> QED BY <1>2, <2>1 DEF Fits
<1> QED BY <1>1, <1>2

(* And an entry on its own can be put behind others.                        *)
LEMMA FitsMoved ==
  ASSUME NEW b \in Seq(Eight), NEW t \in Seq(Eight), NEW e \in Entries, Fits(t, 0, Len(t), e),
         NEW c \in Nat, c = Len(b), NEW d \in Nat, d = c + Len(t)
  PROVE  Fits(b \o t, c, d, e)
<1>1. CASE e[1] = Bin!String
  <2>1. e[2] \in BinStrings
    BY <1>1, KnownTypes DEF Entries
  <2>2. PICK n \in Nat : n = Len(e[2])
    BY <2>1, BinGiven
  <2>3. PICK z \in Nat : z = 0
    OBVIOUS
  <2>4. PICK m \in Nat : m = z + 8
    OBVIOUS
  <2>5. PICK k \in Nat : k = Len(t)
    OBVIOUS
  <2>6. /\ k = m + n /\ Bin!Value(Piece(t, z, m), Bin!CTypes.size) = n
        /\ Piece(t, m, k) = e[2]
    BY <1>1, <2>2, <2>3, <2>4, <2>5 DEF Fits
  <2>7. PICK f \in Nat : f = c + 8
    OBVIOUS
  <2>8. /\ Later(c, Len(b), z) /\ Later(f, Len(b), m) /\ Later(d, Len(b), k)
        /\ m <= Len(t) /\ k <= Len(t)
    BY <2>3, <2>4, <2>5, <2>6, <2>7 DEF Later
  <2>9. Piece(b \o t, c, f) = Piece(t, z, m)
    BY <2>8, PieceNew
  <2>10. Piece(b \o t, f, d) = Piece(t, m, k)
    BY <2>8, PieceNew
  <2>11. d = c + 8 + n
    BY <2>3, <2>4, <2>5, <2>6
  <2> QED BY <1>1, <2>2, <2>6, <2>7, <2>9, <2>10, <2>11 DEF Fits
<1>2. CASE e[1] # Bin!String
  <2>1. Piece(b \o t, c, d) = t
    BY PieceBehind
  <2>2. Piece(t, 0, Len(t)) = t
    BY PieceWhole
  <2>3. e[1] \in NumberTypes
    BY <1>2 DEF Entries
  <2>4. e[1][1] \in Nat
    BY <2>3 DEF NumberTypes
  <2>5. Len(t) = e[1][1]
    <3>1. Len(t) = 0 + e[1][1]
      BY <1>2 DEF Fits
    <3> QED BY <2>4, <3>1
  <2>6. Bin!Value(t, e[1]) = e[2]
    BY <1>2, <2>2 DEF Fits
  <2>7. d = c + e[1][1]
    BY <2>5
  <2> QED BY <1>2, <2>1, <2>6, <2>7 DEF Fits
<1> QED BY <1>1, <1>2

(* xm_bin_format.h:83, xm_data_output.h:86: an entry is written.            *)
LEMMA PutStep ==
  ASSUME BinInv, pos = -1, pos' = pos, NEW p \in Seq(Eight), NEW e \in Entries, Fits(p, 0, Len(p), e),
         bytes' = bytes \o p, written' = Append(written, e), got' = got,
         size' \in Nat, Len(bytes) + Len(p) <= size'
  PROVE  BinInv'
<1>1. PICK off : Layout(off, written, bytes) /\ Cursor(off)
  BY DEF BinInv
<1>2. /\ bytes \in Seq(Eight) /\ written \in Seq(Entries) /\ got \in Seq(Int \cup BinStrings) /\ got = <<>>
      /\ Len(written) \in Nat /\ Len(bytes) \in Nat /\ Len(p) \in Nat
  BY <1>1 DEF BinInv, Cursor
<1>3. /\ bytes' \in Seq(Eight) /\ Len(bytes') = Len(bytes) + Len(p)
  BY <1>2
<1>4. /\ written' \in Seq(Entries) /\ Len(written') = Len(written) + 1
      /\ written'[Len(written) + 1] = e
      /\ \A i \in 1 .. Len(written) : written'[i] = written[i]
  BY <1>2
<1> PICK w \in Nat : w = Len(written)
  BY <1>2
<1>0. PICK on : on = [i \in 0 .. w + 1 |-> IF i <= w THEN off[i] ELSE Len(bytes) + Len(p)]
  OBVIOUS
<1>5. /\ off \in [0 .. w -> Nat] /\ off[0] = 0 /\ off[w] = Len(bytes)
      /\ \A i \in 0 .. w : off[i] <= Len(bytes)
      /\ \A i \in 1 .. w : Fits(bytes, off[i - 1], off[i], written[i])
  BY <1>1 DEF Layout
<1>7. on \in [0 .. w + 1 -> Nat] /\ on[w + 1] = Len(bytes) + Len(p) /\ \A i \in 0 .. w : on[i] = off[i]
  BY <1>0, <1>2, <1>5
<1>8. \A i \in 0 .. w + 1 : on[i] <= Len(bytes')
  <2> TAKE i \in 0 .. w + 1
  <2>1. i \in 0 .. w \/ i = w + 1
    OBVIOUS
  <2>2. CASE i \in 0 .. w
    <3>1. on[i] = off[i] /\ off[i] <= Len(bytes) /\ off[i] \in Nat
      BY <2>2, <1>5, <1>7
    <3> QED BY <3>1, <1>2, <1>3
  <2>3. CASE i = w + 1
    BY <2>3, <1>2, <1>3, <1>7
  <2> QED BY <2>1, <2>2, <2>3
<1>9. \A i \in 1 .. w + 1 : Fits(bytes', on[i - 1], on[i], written'[i])
  <2> TAKE i \in 1 .. w + 1
  <2>1. i \in 1 .. w \/ i = w + 1
    OBVIOUS
  <2>2. CASE i \in 1 .. w
    <3>1. i \in 0 .. w /\ i - 1 \in 0 .. w
      BY <2>2
    <3>2. /\ on[i] = off[i] /\ on[i - 1] = off[i - 1] /\ off[i] \in Nat /\ off[i - 1] \in Nat
          /\ off[i] <= Len(bytes)
      BY <3>1, <1>5, <1>7
    <3>3. written'[i] = written[i] /\ written[i] \in Entries
      BY <2>2, <1>2, <1>4
    <3>4. Fits(bytes, off[i - 1], off[i], written[i])
      BY <2>2, <1>5
    <3>5. Fits(bytes \o p, off[i - 1], off[i], written[i])
      BY <3>2, <3>3, <3>4, <1>2, FitsKept
    <3> QED BY <3>2, <3>3, <3>5
  <2>3. CASE i = w + 1
    <3>1. i - 1 = w /\ w \in 0 .. w
      BY <2>3
    <3>2. PICK c \in Nat : c = Len(bytes)
      BY <1>2
    <3>3. PICK d \in Nat : d = c + Len(p)
      BY <1>2, <3>2
    <3>4. on[i - 1] = c /\ on[i] = d
      BY <2>3, <3>1, <3>2, <3>3, <1>5, <1>7
    <3>5. Fits(bytes \o p, c, d, e)
      BY <3>2, <3>3, <1>2, FitsMoved
    <3> QED BY <2>3, <3>4, <3>5, <1>4
  <2> QED BY <2>1, <2>2, <2>3
<1>10. on[0] = 0
  BY <1>5, <1>7
<1>11. Len(written') = w + 1
  BY <1>4
<1>12. Layout(on, written', bytes')
  BY <1>3, <1>7, <1>8, <1>9, <1>10, <1>11 DEF Layout
<1>13. Cursor(on)'
  BY <1>2 DEF Cursor
<1> QED BY <1>2, <1>3, <1>4, <1>12, <1>13 DEF BinInv

(* The next entry is read, or skipped.                                      *)
LEMMA AdvanceStep ==
  ASSUME BinInv, NEW off, Layout(off, written, bytes), Cursor(off), pos # -1, Len(got) < Len(written),
         got' = Append(got, written[Len(got) + 1][2]), pos' = off[Len(got) + 1],
         UNCHANGED <<size, bytes, written>>
  PROVE  BinInv'
<1>1. /\ got \in Seq(Int \cup BinStrings) /\ written \in Seq(Entries)
      /\ Len(got) \in Nat /\ Len(written) \in Nat
      /\ \A i \in 1 .. Len(got) : got[i] = written[i][2]
  BY DEF BinInv, Cursor
<1>2. PICK n \in Nat : n = Len(got) + 1
  BY <1>1
<1>3. n \in 1 .. Len(written) /\ n \in 0 .. Len(written)
  BY <1>1, <1>2
<1>4. written[n] \in Entries
  BY <1>1, <1>3
<1>5. written[n][2] \in Int \cup BinStrings
  BY <1>4 DEF Entries
<1> DEFINE v == written[n][2]
<1>6. got' = Append(got, v) /\ v \in Int \cup BinStrings
  BY <1>2, <1>5
<1> HIDE DEF v
<1>7. /\ got' \in Seq(Int \cup BinStrings) /\ Len(got') = n /\ got'[n] = v
      /\ \A i \in 1 .. Len(got) : got'[i] = got[i]
  BY <1>1, <1>2, <1>6
<1>8. \A i \in 1 .. n : got'[i] = written[i][2]
  <2> TAKE i \in 1 .. n
  <2>1. i \in 1 .. Len(got) \/ i = n
    BY <1>1, <1>2
  <2> QED BY <2>1, <1>1, <1>7 DEF v
<1>9. off[n] \in Nat
  BY <1>3 DEF Layout
<1>10. pos' = off[n] /\ pos' # -1
  BY <1>2, <1>9
<1>11. Cursor(off)'
  BY <1>3, <1>7, <1>8, <1>10 DEF Cursor
<1>12. Layout(off, written', bytes')
  BY DEF Layout
<1> QED BY <1>7, <1>11, <1>12 DEF BinInv

(* What follows, while something does: an entry and where its bytes are.    *)
LEMMA FollowingFits ==
  ASSUME BinInv, pos # -1, Len(got) < Len(written)
  PROVE  \E off : /\ Layout(off, written, bytes) /\ Cursor(off)
                  /\ pos \in Nat /\ off[Len(got) + 1] \in Nat /\ off[Len(got) + 1] <= Len(bytes)
                  /\ Bin!Following \in Entries /\ Bin!Following = written[Len(got) + 1]
                  /\ Fits(bytes, pos, off[Len(got) + 1], Bin!Following)
<1>1. PICK off : Layout(off, written, bytes) /\ Cursor(off)
  BY DEF BinInv
<1>2. /\ written \in Seq(Entries) /\ Len(got) \in Nat /\ Len(written) \in Nat /\ pos = off[Len(got)]
  BY <1>1 DEF BinInv, Cursor
<1>3. PICK n \in Nat : n = Len(got) + 1
  BY <1>2
<1>4. n \in 1 .. Len(written) /\ n \in 0 .. Len(written) /\ n - 1 \in 0 .. Len(written) /\ n - 1 = Len(got)
  BY <1>2, <1>3
<1>5. /\ off \in [0 .. Len(written) -> Nat] /\ off[n] <= Len(bytes)
      /\ Fits(bytes, off[n - 1], off[n], written[n])
  BY <1>1, <1>4 DEF Layout
<1>6. off[n] \in Nat /\ off[n - 1] \in Nat /\ off[n - 1] = pos
  BY <1>2, <1>4, <1>5
<1>7. written[n] \in Entries
  BY <1>2, <1>4
<1>8. Bin!Following = written[Len(got) + 1]
  BY DEF Bin!Following
<1> QED BY <1>1, <1>3, <1>5, <1>6, <1>7, <1>8

(* xm_bin_format.h:341: a number.                                           *)
LEMMA ReadNumberStep ==
  ASSUME BinInv, NEW k \in NumberTypes, Bin!ReadNumber(k)
  PROVE  BinInv'
<1>1. pos # -1 /\ Len(got) < Len(written) /\ UNCHANGED <<size, bytes, written>> /\ Bin!Following[1] = k
  BY DEF Bin!ReadNumber, Bin!Reads
<1>2. PICK off : /\ Layout(off, written, bytes) /\ Cursor(off)
                 /\ pos \in Nat /\ off[Len(got) + 1] \in Nat /\ off[Len(got) + 1] <= Len(bytes)
                 /\ Bin!Following \in Entries /\ Bin!Following = written[Len(got) + 1]
                 /\ Fits(bytes, pos, off[Len(got) + 1], Bin!Following)
  BY <1>1, FollowingFits
<1>3. PICK m \in Nat : m = off[Len(got) + 1]
  BY <1>2
<1>4. k # Bin!String /\ k[1] \in Nat
  BY KnownTypes DEF NumberTypes
<1>5. m = pos + k[1] /\ Bin!Value(Piece(bytes, pos, m), k) = Bin!Following[2]
  BY <1>1, <1>2, <1>3, <1>4 DEF Fits
<1>6. ~ Bin!xm_bf_full(pos, k[1])
  BY <1>2, <1>3, <1>5 DEF Bin!xm_bf_full, BinInv
<1>7. pos' = m /\ got' = Append(got, Bin!Value(Piece(bytes, pos, m), k))
  BY <1>5, <1>6 DEF Bin!ReadNumber, Piece
<1> QED BY <1>1, <1>2, <1>3, <1>5, <1>7, AdvanceStep

(* xm_bin_format.h:520: a string.                                           *)
LEMMA ReadBytesStep ==
  ASSUME BinInv, Bin!BfReadBytes
  PROVE  BinInv'
<1>1. pos # -1 /\ Len(got) < Len(written) /\ UNCHANGED <<size, bytes, written>> /\ Bin!Following[1] = Bin!String
  BY DEF Bin!BfReadBytes, Bin!Reads
<1>2. PICK off : /\ Layout(off, written, bytes) /\ Cursor(off)
                 /\ pos \in Nat /\ off[Len(got) + 1] \in Nat /\ off[Len(got) + 1] <= Len(bytes)
                 /\ Bin!Following \in Entries /\ Bin!Following = written[Len(got) + 1]
                 /\ Fits(bytes, pos, off[Len(got) + 1], Bin!Following)
  BY <1>1, FollowingFits
<1>3. PICK m \in Nat : m = off[Len(got) + 1]
  BY <1>2
<1>4. Bin!Following[2] \in BinStrings
  BY <1>1, <1>2, KnownTypes DEF Entries
<1>5. PICK n \in Nat : n = Len(Bin!Following[2])
  BY <1>4, BinGiven
<1>6. PICK h \in Nat : h = pos + 8
  BY <1>2
<1>7. /\ m = h + n /\ Bin!Value(Piece(bytes, pos, h), Bin!CTypes.size) = n
      /\ Piece(bytes, h, m) = Bin!Following[2]
  BY <1>1, <1>2, <1>3, <1>5, <1>6 DEF Fits
<1>8. ~ Bin!xm_bf_full(pos, Bin!SizeT)
  BY <1>2, <1>3, <1>6, <1>7 DEF Bin!xm_bf_full, Bin!SizeT, BinInv
<1>9. pos' = m /\ got' = Append(got, Piece(bytes, h, m))
  BY <1>6, <1>7, <1>8 DEF Bin!BfReadBytes, Bin!SizeT, Piece
<1> QED BY <1>1, <1>2, <1>3, <1>7, <1>9, AdvanceStep

(* xm_bin_format.h:59: a number is skipped. *)
LEMMA SkipStep ==
  ASSUME BinInv, Bin!Skip
  PROVE  BinInv'
<1>1. pos # -1 /\ Len(got) < Len(written) /\ UNCHANGED <<size, bytes, written>> /\ Bin!Following[1] # Bin!String
  BY DEF Bin!Skip, Bin!Reads
<1>2. PICK off : /\ Layout(off, written, bytes) /\ Cursor(off)
                 /\ pos \in Nat /\ off[Len(got) + 1] \in Nat /\ off[Len(got) + 1] <= Len(bytes)
                 /\ Bin!Following \in Entries /\ Bin!Following = written[Len(got) + 1]
                 /\ Fits(bytes, pos, off[Len(got) + 1], Bin!Following)
  BY <1>1, FollowingFits
<1>3. PICK m \in Nat : m = off[Len(got) + 1]
  BY <1>2
<1>4. PICK n \in Nat : n = Bin!Following[1][1]
  BY <1>1, <1>2 DEF Entries, NumberTypes
<1>5. m = pos + n
  BY <1>1, <1>2, <1>3, <1>4 DEF Fits
<1>6. ~ Bin!xm_bf_full(pos, n)
  BY <1>2, <1>3, <1>5 DEF Bin!xm_bf_full, BinInv
<1>7. pos' = m /\ got' = Append(got, Bin!Following[2])
  BY <1>4, <1>5, <1>6 DEF Bin!Skip
<1> QED BY <1>1, <1>2, <1>3, <1>7, AdvanceStep

(* An entry is written by bf or dout, or refused.                           *)
LEMMA WriteStep ==
  ASSUME BinInv, Bin!Writes, NEW p \in Seq(Eight), NEW e \in Entries, Fits(p, 0, Len(p), e),
         Bin!BfPut(p, e) \/ Bin!DoutPut(p, e)
  PROVE  BinInv'
<1>1. pos = -1 /\ pos' = pos /\ got' = got
  BY DEF Bin!Writes
<1>2. size \in Nat /\ bytes \in Seq(Eight) /\ Len(bytes) \in Nat /\ Len(bytes) <= size /\ Len(p) \in Nat
  BY DEF BinInv
<1>3. \/ UNCHANGED <<size, bytes, written>>
      \/ /\ bytes' = bytes \o p /\ written' = Append(written, e)
         /\ size' \in Nat /\ Len(bytes) + Len(p) <= size'
  BY <1>2 DEF Bin!BfPut, Bin!DoutPut, Bin!xm_bf_full, Bin!xm_dout_incr
<1>4. CASE UNCHANGED <<size, bytes, written>>
  BY <1>1, <1>4 DEF BinInv, Cursor
<1>5. CASE /\ bytes' = bytes \o p /\ written' = Append(written, e)
           /\ size' \in Nat /\ Len(bytes) + Len(p) <= size'
  BY <1>1, <1>5, PutStep
<1> QED BY <1>3, <1>4, <1>5

(* Where the entries of an empty buffer are. *)
LEMMA EmptyLayout == \E off : Layout(off, <<>>, <<>>)
<1>1. PICK off : off = [i \in 0 .. 0 |-> 0]
  OBVIOUS
<1> QED BY <1>1 DEF Layout

(* xm_bin_format.h:49: a buffer is begun again. *)
LEMMA BinResetStep ==
  ASSUME BinInv, Bin!Reset
  PROVE  BinInv'
<1>1. pos = -1 /\ pos' = -1 /\ got' = got /\ bytes' = <<>> /\ written' = <<>> /\ size' = size /\ size \in Nat
  BY DEF Bin!Reset, Bin!Writes, BinInv
<1>2. got' = <<>>
  BY <1>1 DEF BinInv, Cursor
<1>3. \E off : Layout(off, written', bytes') /\ Cursor(off)'
  BY <1>1, <1>2, EmptyLayout DEF Cursor
<1> QED BY <1>1, <1>2, <1>3 DEF BinInv

(* xm_bin_format.h:25: the buffer is opened to be read.                     *)
LEMMA OpenStep ==
  ASSUME BinInv, Bin!Open
  PROVE  BinInv'
<1>1. pos = -1 /\ pos' = 0 /\ UNCHANGED <<size, bytes, written, got>>
  BY DEF Bin!Open
<1>2. PICK off : Layout(off, written, bytes) /\ got = <<>>
  BY <1>1 DEF BinInv, Cursor
<1>3. Len(got) = 0 /\ off[0] = 0 /\ Len(written) \in Nat
  BY <1>2 DEF Layout, BinInv
<1>4. Cursor(off)'
  BY <1>1, <1>2, <1>3 DEF Cursor
<1>5. Layout(off, written', bytes')
  BY <1>1, <1>2
<1> QED BY <1>1, <1>4, <1>5 DEF BinInv

(* It holds of an empty buffer. *)
LEMMA InitBin == part = "BinFormat" /\ Bin!Init => BinInv
<1> SUFFICES ASSUME Bin!Init PROVE BinInv
  OBVIOUS
<1>1. size \in Nat /\ bytes = <<>> /\ written = <<>> /\ got = <<>> /\ pos = -1
  BY BinGiven DEF Bin!Init
<1>2. \E off : Layout(off, written, bytes) /\ Cursor(off)
  BY <1>1, EmptyLayout DEF Cursor
<1> QED BY <1>1, <1>2 DEF BinInv

(* Every step of BinFormat keeps it.                                        *)
LEMMA BinStep ==
  ASSUME BinInv, [Bin!Next]_(Bin!vars)
  PROVE  BinInv'
<1>1. CASE UNCHANGED Bin!vars
  BY <1>1 DEF Bin!vars, BinInv, Cursor
<1>2. ASSUME NEW v \in BinNumbers, NEW k \in NumberTypes, Bin!Writes,
             \/ Bin!BfPut(Bin!Bytes(v, k[1]), <<k, Bin!As(v, k)>>)
             \/ Bin!DoutPut(Bin!Bytes(v, k[1]), <<k, Bin!As(v, k)>>)
      PROVE  BinInv'
  <2>1. PICK p : p = Bin!Bytes(v, k[1])
    OBVIOUS
  <2>2. PICK e : e = <<k, Bin!As(v, k)>>
    OBVIOUS
  <2>3. p \in Seq(Eight) /\ e \in Entries /\ Fits(p, 0, Len(p), e)
    BY <2>1, <2>2, BinGiven, NumberFits
  <2> QED BY <1>2, <2>1, <2>2, <2>3, WriteStep
<1>3. ASSUME NEW s \in BinStrings, Bin!BfWriteBytes(s) \/ Bin!DoutWriteBytes(s) PROVE BinInv'
  <2>1. PICK p : p = Bin!Bytes(Len(s), Bin!SizeT) \o s
    OBVIOUS
  <2>2. PICK e : e = <<Bin!String, s>>
    OBVIOUS
  <2>3. p \in Seq(Eight) /\ e \in Entries /\ Fits(p, 0, Len(p), e)
    BY <2>1, <2>2, StringFits
  <2>4. Bin!Writes /\ (Bin!BfPut(p, e) \/ Bin!DoutPut(p, e))
    BY <1>3, <2>1, <2>2 DEF Bin!BfWriteBytes, Bin!DoutWriteBytes
  <2> QED BY <2>3, <2>4, WriteStep
<1>4. ASSUME NEW v \in BinNumbers, NEW t \in DOMAIN Bin!CTypes, Bin!BfWriteC(t, v) \/ Bin!DoutWriteC(t, v)
      PROVE  BinInv'
  <2>1. PICK k \in NumberTypes : k = Bin!CTypes[t]
    BY KnownTypes
  <2> QED BY <1>2, <1>4, <2>1 DEF Bin!BfWriteC, Bin!DoutWriteC
<1>5. ASSUME NEW v \in BinNumbers, NEW t \in DOMAIN Bin!FixedTypes,
             Bin!BfWriteFixed(t, v) \/ Bin!DoutWriteFixed(t, v)
      PROVE  BinInv'
  <2>1. PICK k \in NumberTypes : k = Bin!FixedTypes[t]
    BY KnownTypes
  <2> QED BY <1>2, <1>5, <2>1 DEF Bin!BfWriteFixed, Bin!DoutWriteFixed
<1>6. ASSUME NEW t \in DOMAIN Bin!CTypes, Bin!BfReadC(t) PROVE BinInv'
  <2>1. PICK k \in NumberTypes : k = Bin!CTypes[t]
    BY KnownTypes
  <2> QED BY <1>6, <2>1, ReadNumberStep DEF Bin!BfReadC
<1>7. ASSUME NEW t \in DOMAIN Bin!FixedTypes, Bin!BfReadFixed(t) PROVE BinInv'
  <2>1. PICK k \in NumberTypes : k = Bin!FixedTypes[t]
    BY KnownTypes
  <2> QED BY <1>7, <2>1, ReadNumberStep DEF Bin!BfReadFixed
<1>8. CASE Bin!Over
  BY <1>1, <1>8 DEF Bin!Over
<1>9. CASE \/ \E v \in BinNumbers, t \in DOMAIN Bin!CTypes : Bin!BfWriteC(t, v) \/ Bin!DoutWriteC(t, v)
           \/ \E v \in BinNumbers, t \in DOMAIN Bin!FixedTypes : Bin!BfWriteFixed(t, v) \/ Bin!DoutWriteFixed(t, v)
           \/ \E s \in BinStrings : Bin!BfWriteBytes(s) \/ Bin!DoutWriteBytes(s)
  BY <1>3, <1>4, <1>5, <1>9
<1>10. CASE \/ \E t \in DOMAIN Bin!CTypes : Bin!BfReadC(t)
            \/ \E t \in DOMAIN Bin!FixedTypes : Bin!BfReadFixed(t)
  BY <1>6, <1>7, <1>10
<1>11. CASE Bin!Reset
  BY <1>11, BinResetStep
<1>12. CASE Bin!Open
  BY <1>12, OpenStep
<1>13. CASE Bin!BfReadBytes
  BY <1>13, ReadBytesStep
<1>14. CASE Bin!Skip
  BY <1>14, SkipStep
<1> QED BY <1>1, <1>8, <1>9, <1>10, <1>11, <1>12, <1>13, <1>14 DEF Bin!Next

(* Nothing is beyond the end, and what is read is what was written.         *)
LEMMA ReadsBackHolds == BinInv => Bin!ReadsBack
<1> SUFFICES ASSUME BinInv PROVE Bin!ReadsBack
  OBVIOUS
<1>1. Len(bytes) <= size /\ got \in Seq(Int \cup BinStrings)
  BY DEF BinInv
<1>2. DOMAIN got = 1 .. Len(got)
  BY <1>1
<1>3. \A i \in 1 .. Len(got) : got[i] = written[i][2]
  BY <1>1 DEF BinInv, Cursor
<1> QED BY <1>1, <1>2, <1>3 DEF Bin!ReadsBack

(* xm_bin_format.h, xm_data_output.h: whatever is written, refused and read *)
(* of numbers and strings, with whatever bytes, nothing is beyond the end   *)
(* of the buffer and what is read is what was written.                      *)
THEOREM BinExactAlways == Spec => []BinExact
<1> DEFINE Inv == part = "BinFormat" => BinInv
<1>1. Init => Inv
  BY InitBin DEF Init
<1>2. Inv /\ [Next]_partVars => Inv'
  <2> SUFFICES ASSUME Inv, [Next]_partVars, part' = "BinFormat" PROVE BinInv'
    OBVIOUS
  <2>1. part = "BinFormat" /\ [Bin!Next]_(Bin!vars)
    BY DEF Next, partVars, Bin!vars
  <2> QED BY <2>1, BinStep
<1>3. Inv => BinExact
  BY ReadsBackHolds DEF BinExact
<1> QED BY <1>1, <1>2, <1>3, PTL DEF Spec
=============================================================================
