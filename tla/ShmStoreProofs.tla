--------------------------- MODULE ShmStoreProofs ---------------------------
(***************************************************************************)
(* Proofs about ShmStore, for every size of the segment, of its entries    *)
(* and of the records, and for any number of records, closes and crashes.  *)
(***************************************************************************)
EXTENDS ShmStore, DataLemmas

-----------------------------------------------------------------------------
(* Sequences of records. *)

(* A record added to the entry of the writer comes last. *)
LEMMA ConcatAppend ==
  ASSUME NEW T, NEW a \in Seq(T), NEW c \in Seq(T), NEW e \in T
  PROVE  a \o Append(c, e) = Append(a \o c, e)
<1>1. /\ Append(c, e) \in Seq(T) /\ Len(Append(c, e)) = Len(c) + 1
      /\ Append(c, e)[Len(c) + 1] = e
      /\ \A i \in 1 .. Len(c) : Append(c, e)[i] = c[i]
  OBVIOUS
<1>2. Append(c, e) = c \o <<e>> /\ <<e>> \in Seq(T)
  BY AppendIsConcat
<1>3. a \o (c \o <<e>>) = (a \o c) \o <<e>>
  BY <1>2, ConcatAssociative
<1>4. a \o c \in Seq(T)
  BY ConcatProperties
<1>5. Append(a \o c, e) = (a \o c) \o <<e>>
  BY <1>4, AppendIsConcat
<1> QED BY <1>2, <1>3, <1>5

(* A sequence in increasing order stays so with a larger element at its     *)
(* end, and so do its parts.                                                *)
LEMMA IncreasingAppend ==
  ASSUME NEW s \in Seq(Nat), NEW e \in Nat, Increasing(s), \A r \in ToSet(s) : r < e
  PROVE  Increasing(Append(s, e))
<1>1. /\ Len(Append(s, e)) = Len(s) + 1 /\ Append(s, e) \in Seq(Nat)
      /\ Append(s, e)[Len(s) + 1] = e
      /\ \A i \in 1 .. Len(s) : Append(s, e)[i] = s[i]
  OBVIOUS
<1> DEFINE t == Append(s, e)
<1> HIDE DEF t
<1>2. ASSUME NEW i \in DOMAIN t, NEW j \in DOMAIN t, i < j PROVE t[i] < t[j]
  <2>1. i \in 1 .. Len(s) /\ i \in DOMAIN s /\ j \in 1 .. Len(s) + 1
    BY <1>1, <1>2 DEF t
  <2>2. CASE j = Len(s) + 1
    <3>1. s[i] < e
      BY <2>1 DEF ToSet
    <3> QED BY <1>1, <2>1, <2>2, <3>1 DEF t
  <2>3. CASE j # Len(s) + 1
    <3>1. j \in 1 .. Len(s) /\ j \in DOMAIN s
      BY <2>1, <2>3
    <3>2. s[i] < s[j]
      BY <1>2, <2>1, <3>1 DEF Increasing
    <3> QED BY <1>1, <2>1, <3>1, <3>2 DEF t
  <2> QED BY <2>2, <2>3
<1> QED BY <1>2 DEF Increasing, t

(* Both parts of an increasing sequence increase. *)
LEMMA IncreasingParts ==
  ASSUME NEW s \in Seq(Nat), NEW t \in Seq(Nat), Increasing(s \o t)
  PROVE  Increasing(s) /\ Increasing(t)
<1>1. /\ s \o t \in Seq(Nat) /\ Len(s \o t) = Len(s) + Len(t)
      /\ \A i \in 1 .. Len(s) + Len(t) : (s \o t)[i] = IF i <= Len(s) THEN s[i] ELSE t[i - Len(s)]
  BY ConcatProperties
<1> DEFINE u == s \o t
<1>2. DOMAIN u = 1 .. Len(s) + Len(t) /\ Increasing(u)
  BY <1>1
<1> HIDE DEF u
<1>3. ASSUME NEW i \in DOMAIN s, NEW j \in DOMAIN s, i < j PROVE s[i] < s[j]
  <2>1. i \in DOMAIN u /\ j \in DOMAIN u /\ u[i] = s[i] /\ u[j] = s[j]
    BY <1>1, <1>2 DEF u
  <2> QED BY <1>2, <1>3, <2>1 DEF Increasing
<1>4. ASSUME NEW i \in DOMAIN t, NEW j \in DOMAIN t, i < j PROVE t[i] < t[j]
  <2>1. /\ i \in 1 .. Len(t) /\ j \in 1 .. Len(t)
        /\ Len(s) + i \in 1 .. Len(s) + Len(t) /\ ~(Len(s) + i <= Len(s)) /\ (Len(s) + i) - Len(s) = i
        /\ Len(s) + j \in 1 .. Len(s) + Len(t) /\ ~(Len(s) + j <= Len(s)) /\ (Len(s) + j) - Len(s) = j
        /\ Len(s) + i < Len(s) + j
    BY <1>4
  <2>2. u[Len(s) + i] = t[i] /\ u[Len(s) + j] = t[j]
    BY <1>1, <2>1 DEF u
  <2> QED BY <1>2, <2>1, <2>2 DEF Increasing
<1> QED BY <1>3, <1>4 DEF Increasing

(* An increasing sequence of records is an entry: it is not longer than     *)
(* there are records.                                                       *)
LEMMA IncreasingIsEntry ==
  ASSUME MaxRecords \in Nat, NEW s \in Seq(Record), Increasing(s)
  PROVE  s \in Entry
<1> DEFINE S == {n \in Nat : n + 1 \in 1 .. Len(s) => n + 1 <= s[n + 1]}
<1>1. /\ Len(s) \in Nat /\ DOMAIN s = 1 .. Len(s)
      /\ \A i \in 1 .. Len(s) : s[i] \in Nat /\ 1 <= s[i] /\ s[i] <= MaxRecords
  BY DEF Record
<1>2. 0 \in S
  BY <1>1
<1>3. ASSUME NEW n \in S PROVE n + 1 \in S
  <2>1. ASSUME (n + 1) + 1 \in 1 .. Len(s) PROVE (n + 1) + 1 <= s[(n + 1) + 1]
    <3>1. n \in Nat /\ n + 1 \in 1 .. Len(s) /\ n + 1 < (n + 1) + 1
      BY <1>1, <2>1
    <3>2. n + 1 <= s[n + 1]
      BY <3>1
    <3>3. s[n + 1] < s[(n + 1) + 1]
      BY <1>1, <2>1, <3>1 DEF Increasing
    <3>4. s[n + 1] \in Nat /\ s[(n + 1) + 1] \in Nat
      BY <1>1, <2>1, <3>1
    <3> QED BY <3>1, <3>2, <3>3, <3>4
  <2> QED BY <2>1
<1> HIDE DEF S
<1>4. S = Nat
  BY <1>2, <1>3, InductiveSet DEF S
<1>5. Len(s) <= MaxRecords
  <2>1. CASE Len(s) = 0
    BY <2>1
  <2>2. CASE Len(s) # 0
    <3>1. Len(s) - 1 \in S /\ (Len(s) - 1) + 1 = Len(s) /\ Len(s) \in 1 .. Len(s)
      BY <1>1, <1>4, <2>2
    <3>2. Len(s) <= s[Len(s)]
      BY <3>1 DEF S
    <3>3. s[Len(s)] \in Nat /\ s[Len(s)] <= MaxRecords
      BY <1>1, <3>1
    <3> QED BY <1>1, <3>2, <3>3
  <2> QED BY <2>1, <2>2
<1>6. Len(s) \in 0 .. MaxRecords /\ s \in [1 .. Len(s) -> Record]
  BY <1>1, <1>5
<1> QED BY <1>6 DEF Entry, SeqOf
-----------------------------------------------------------------------------
(* The inductive invariant. *)

Pending == FlattenSeq(queue) \o cur

TypeOK ==
  /\ queue \in Seq(Seq(Record)) /\ released \in Seq(Seq(Record))
  /\ cur \in Seq(Record) /\ delivered \in Seq(Record)
  /\ wpc \in {"idle", "put", "timer", "flush", "ended"}
  /\ size \in Nat /\ used \in Nat /\ hasHeader \in BOOLEAN
  /\ elapsed \in 0 .. Timeout + 1
  /\ accepted \in 0 .. MaxRecords /\ dropped \subseteq 1 .. accepted
  /\ reading \in BOOLEAN /\ rcount \in Nat
  /\ closes \in 0 .. MaxCloses /\ crashes \in 0 .. MaxCrashes

(* The writer has an entry only if there is room to commit it, and has      *)
(* records only in an entry it has.                                         *)
EntryExact ==
  /\ Len(queue) <= Capacity
  /\ hasHeader => Len(queue) < Capacity
  /\ ~hasHeader => cur = <<>>
  /\ wpc = "flush" => ~hasHeader

(* The record being stored fits, and is the only one not stored yet. *)
StreamKept ==
  /\ used <= Space
  /\ wpc = "put" => size <= Room /\ accepted \in Kept /\ ToSet(Stored) = Kept \ {accepted}
  /\ wpc \notin {"put", "ended"} => ToSet(Stored) = Kept
  /\ wpc = "ended" => ToSet(Stored) \in {Kept, Kept \ {accepted}}
  /\ Increasing(Stored)

(* The reader is within the head of the queue; what it has handed out was   *)
(* stored and comes before everything it has still to hand out.             *)
ReaderExact ==
  /\ reading => queue # <<>> /\ rcount <= Len(Head(queue))
  /\ ToSet(delivered) \subseteq ToSet(Stored)
  /\ crashes = 0 =>
       /\ Increasing(delivered)
       /\ \A r \in ToSet(delivered), i \in 1 .. Len(Pending) : i > RecordsRead => r < Pending[i]
  /\ closes = 0 =>
       /\ ToSet(FlattenSeq(released)) \subseteq ToSet(delivered)
       /\ \A i \in 1 .. RecordsRead : Head(queue)[i] \in ToSet(delivered)

StoreInv == TypeOK /\ EntryExact /\ StreamKept /\ ReaderExact
-----------------------------------------------------------------------------
(* What the steps do to the stored records. *)

(* The stored records, released or not, are a sequence of records. *)
LEMMA FlatTypes ==
  ASSUME TypeOK
  PROVE  /\ FlattenSeq(queue) \in Seq(Record) /\ FlattenSeq(released) \in Seq(Record)
         /\ Pending \in Seq(Record) /\ Stored \in Seq(Record)
         /\ Stored = FlattenSeq(released) \o Pending
<1> DEFINE fq == FlattenSeq(queue)
           fr == FlattenSeq(released)
<1>1. fq \in Seq(Record) /\ fr \in Seq(Record) /\ cur \in Seq(Record)
  BY FlattenType DEF TypeOK
<1> HIDE DEF fq, fr
<1>2. fq \o cur \in Seq(Record) /\ fr \o fq \in Seq(Record) /\ (fr \o fq) \o cur \in Seq(Record)
  BY <1>1, ConcatProperties
<1>3. (fr \o fq) \o cur = fr \o (fq \o cur)
  BY <1>1, ConcatAssociative
<1> QED BY <1>1, <1>2, <1>3 DEF fq, fr, Pending, Stored

(* A commit moves an entry from the writer to the end of the queue. *)
LEMMA CommitEffect ==
  ASSUME TypeOK, queue' = Append(queue, cur), cur' = <<>>, released' = released
  PROVE  Stored' = Stored /\ Pending' = Pending
<1> DEFINE fr == FlattenSeq(released)
           fq == FlattenSeq(queue)
<1>1. fr \in Seq(Record) /\ fq \in Seq(Record) /\ cur \in Seq(Record)
  BY FlattenType DEF TypeOK
<1>2. FlattenSeq(Append(queue, cur)) = fq \o cur
  BY FlattenAppend DEF TypeOK
<1>3. Stored = (fr \o fq) \o cur /\ Pending = fq \o cur
  BY DEF Stored, Pending
<1>4. Stored' = (fr \o FlattenSeq(Append(queue, cur))) \o <<>> /\ Pending' = FlattenSeq(Append(queue, cur)) \o <<>>
  BY DEF Stored, Pending
<1> HIDE DEF fr, fq
<1>5. fq \o cur \in Seq(Record) /\ fr \o (fq \o cur) \in Seq(Record)
  BY <1>1, ConcatProperties
<1>6. (fq \o cur) \o <<>> = fq \o cur /\ (fr \o (fq \o cur)) \o <<>> = fr \o (fq \o cur)
  BY <1>5, ConcatEmptySeq
<1>7. fr \o (fq \o cur) = (fr \o fq) \o cur
  BY <1>1, ConcatAssociative
<1> QED BY <1>2, <1>3, <1>4, <1>6, <1>7

(* A record that is put comes last. *)
LEMMA PutEffect ==
  ASSUME TypeOK, queue' = queue, released' = released, cur' = Append(cur, accepted),
         accepted \in Record
  PROVE  Stored' = Append(Stored, accepted) /\ Pending' = Append(Pending, accepted)
<1> DEFINE fq == FlattenSeq(queue)
           fr == FlattenSeq(released)
<1>1. fq \in Seq(Record) /\ fr \in Seq(Record) /\ cur \in Seq(Record)
  BY FlattenType DEF TypeOK
<1>2. Stored' = (fr \o fq) \o Append(cur, accepted) /\ Pending' = fq \o Append(cur, accepted)
  BY DEF Stored, Pending
<1>3. Stored = (fr \o fq) \o cur /\ Pending = fq \o cur
  BY DEF Stored, Pending
<1> HIDE DEF fq, fr
<1>4. fr \o fq \in Seq(Record)
  BY <1>1, ConcatProperties
<1>5. fq \o Append(cur, accepted) = Append(fq \o cur, accepted)
  BY <1>1, ConcatAppend
<1>6. (fr \o fq) \o Append(cur, accepted) = Append((fr \o fq) \o cur, accepted)
  BY <1>1, <1>4, ConcatAppend
<1> QED BY <1>2, <1>3, <1>5, <1>6

(* A release moves an entry from the front of the queue to the end of what  *)
(* was released.                                                            *)
LEMMA ReleaseEffect ==
  ASSUME TypeOK, queue # <<>>, Release, cur' = cur
  PROVE  Stored' = Stored /\ Pending = Head(queue) \o Pending'
<1> DEFINE fr == FlattenSeq(released)
           ft == FlattenSeq(Tail(queue))
           h == Head(queue)
<1>1. h \in Seq(Record) /\ Tail(queue) \in Seq(Seq(Record))
  BY HeadTailProperties DEF TypeOK
<1>2. fr \in Seq(Record) /\ ft \in Seq(Record) /\ cur \in Seq(Record)
  <2>1. fr \in Seq(Record) /\ cur \in Seq(Record)
    BY FlattenType DEF TypeOK
  <2>2. ASSUME NEW q \in Seq(Seq(Record)) PROVE FlattenSeq(q) \in Seq(Record)
    BY FlattenType
  <2>3. ft \in Seq(Record)
    BY <1>1, <2>2
  <2> QED BY <2>1, <2>3
<1>3. FlattenSeq(queue) = h \o ft
  BY FlattenHead DEF TypeOK
<1>4. FlattenSeq(Append(released, h)) = fr \o h
  <2>1. released \in Seq(Seq(Record))
    BY DEF TypeOK
  <2>2. ASSUME NEW e \in Seq(Record) PROVE FlattenSeq(Append(released, e)) = FlattenSeq(released) \o e
    BY <2>1, FlattenAppend
  <2> QED BY <1>1, <2>2
<1>5. Stored = (fr \o FlattenSeq(queue)) \o cur /\ Pending = FlattenSeq(queue) \o cur
  BY DEF Stored, Pending
<1>6. Stored' = (FlattenSeq(Append(released, h)) \o ft) \o cur /\ Pending' = ft \o cur
  BY DEF Release, Stored, Pending
<1> HIDE DEF fr, ft, h
<1>7. \A a, b, c \in Seq(Record) : (a \o b) \o c = a \o (b \o c)
  BY ConcatAssociative
<1>8. (h \o ft) \o cur = h \o (ft \o cur)
  BY <1>1, <1>2, <1>7, Zenon
<1>9. (fr \o h) \o ft = fr \o (h \o ft)
  BY <1>1, <1>2, <1>7, Zenon
<1>10. Pending = h \o Pending'
  BY <1>3, <1>5, <1>6, <1>8
<1>11. Stored' = Stored
  BY <1>3, <1>4, <1>5, <1>6, <1>9
<1> QED BY <1>10, <1>11 DEF h

(* The reader reads only where there is an entry. *)
LEMMA HasHead ==
  ASSUME TypeOK, ReaderExact, HasEntry
  PROVE  queue # <<>> /\ Head(queue) \in Seq(Record) /\ Tail(queue) \in Seq(Seq(Record))
<1>1. queue # <<>> /\ queue \in Seq(Seq(Record))
  BY DEF TypeOK, ReaderExact, HasEntry
<1> QED BY <1>1, HeadTailProperties

-----------------------------------------------------------------------------
(* Every step keeps the invariant. *)

(* An empty segment, with neither side at work, satisfies the invariant. *)
LEMMA InitInv == StoreAssumption /\ Init => StoreInv
<1> SUFFICES ASSUME StoreAssumption, Init PROVE StoreInv
  OBVIOUS
<1>1. /\ queue = <<>> /\ released = <<>> /\ cur = <<>> /\ delivered = <<>>
      /\ accepted = 0 /\ dropped = {} /\ wpc = "idle" /\ used = 0 /\ reading = FALSE
  BY DEF Init
<1>2. TypeOK
  <2>1. <<>> \in Seq(Seq(Record)) /\ <<>> \in Seq(Record)
    OBVIOUS
  <2>2. 0 \in 0 .. Timeout + 1 /\ 0 \in 0 .. MaxRecords /\ 0 \in 0 .. MaxCloses /\ 0 \in 0 .. MaxCrashes
    BY DEF StoreAssumption
  <2> QED BY <2>1, <2>2 DEF Init, TypeOK
<1>3. EntryExact
  <2>1. Len(queue) = 0 /\ 0 <= Capacity
    BY <1>1 DEF StoreAssumption
  <2> QED BY <1>1, <2>1 DEF Init, EntryExact
<1>4. FlattenSeq(<<>>) = <<>>
  BY DEF FlattenSeq
<1>5. Stored = <<>> /\ Pending = <<>>
  BY <1>1, <1>4 DEF Stored, Pending
<1>6. ToSet(<<>>) = {} /\ Increasing(<<>>)
  BY DEF ToSet, Increasing
<1>7. StreamKept
  <2>1. Kept = {}
    BY <1>1 DEF Kept
  <2> QED BY <1>1, <1>5, <1>6, <2>1 DEF StreamKept, StoreAssumption
<1>8. ReaderExact
  <2>1. RecordsRead = 0
    BY <1>1 DEF RecordsRead
  <2> QED BY <1>1, <1>4, <1>5, <1>6, <2>1 DEF ReaderExact
<1> QED BY <1>2, <1>3, <1>7, <1>8 DEF StoreInv

(* Every step keeps the types. *)
LEMMA NextType ==
  ASSUME StoreAssumption, StoreInv, [Next]_vars
  PROVE  TypeOK'
<1>1. TypeOK /\ EntryExact /\ StreamKept /\ ReaderExact
  BY DEF StoreInv
<1>2. <<>> \in Seq(Record)
  OBVIOUS
<1> USE DEF TypeOK, writer, reader
<1>3. CASE XStoreFlush
  <2>1. accepted' \in 0 .. MaxRecords /\ accepted' = accepted + 1 /\ accepted \in Nat
    BY <1>1, <1>3 DEF XStoreFlush, StoreAssumption
  <2>2. dropped' \subseteq 1 .. accepted'
    <3>1. dropped \subseteq 1 .. accepted + 1 /\ accepted + 1 \in 1 .. accepted + 1
      BY <1>1, <2>1
    <3>2. dropped' = dropped \/ dropped' = dropped \cup {accepted + 1}
      BY <1>3 DEF XStoreFlush
    <3> QED BY <2>1, <3>1, <3>2
  <2>3. size' \in Nat /\ wpc' \in {"timer", "put"}
    BY <1>3 DEF XStoreFlush, StoreAssumption
  <2> QED BY <1>1, <1>3, <2>1, <2>2, <2>3 DEF XStoreFlush
<1>4. CASE PutRecord
  <2>1. accepted \in Record
    BY <1>1, <1>4 DEF PutRecord, StreamKept, Kept, Record
  <2>2. Append(cur, accepted) \in Seq(Record) /\ used + size \in Nat
    BY <1>1, <2>1
  <2> QED BY <1>1, <1>4, <2>2 DEF PutRecord
<1>5. CASE PutCommit
  <2>1. Append(queue, cur) \in Seq(Seq(Record))
    BY <1>1
  <2> QED BY <1>1, <1>2, <1>5, <2>1 DEF PutCommit
<1>6. CASE PutGet
  <2>1. accepted \in Record
    BY <1>1, <1>6 DEF PutGet, StreamKept, Kept, Record
  <2>2. <<accepted>> \in Seq(Record)
    BY <2>1
  <2> QED BY <1>1, <1>6, <2>2 DEF PutGet
<1>7. CASE NoFlush
  <2>1. elapsed' \in 0 .. Timeout + 1
    BY <1>1, <1>7 DEF NoFlush, StoreAssumption
  <2> QED BY <1>1, <1>7, <2>1 DEF NoFlush
<1>8. CASE FlushCommit
  <2>1. Append(queue, cur) \in Seq(Seq(Record))
    BY <1>1
  <2>2. 0 \in 0 .. Timeout + 1
    BY DEF StoreAssumption
  <2> QED BY <1>1, <1>2, <1>8, <2>1, <2>2 DEF FlushCommit
<1>9. CASE FlushGet
  BY <1>1, <1>9 DEF FlushGet
<1>10. CASE Stop
  BY <1>1, <1>10 DEF Stop
<1>11. CASE Tick
  <2>1. elapsed' \in 0 .. Timeout + 1
    BY <1>1, <1>11 DEF Tick, StoreAssumption
  <2> QED BY <1>1, <1>11, <2>1 DEF Tick
<1>12. CASE ReadRecord
  <2>1. HasEntry /\ RecordsRead < Len(Head(queue)) /\ RecordsRead \in Nat
    BY <1>1, <1>12 DEF ReadRecord, RecordsRead
  <2>2. Head(queue) \in Seq(Record)
    BY <1>1, <2>1, HasHead
  <2>3. RecordsRead + 1 \in 1 .. Len(Head(queue))
    BY <2>1, <2>2
  <2>4. Head(queue)[RecordsRead + 1] \in Record
    BY <2>2, <2>3, ElementOfSeq
  <2>5. delivered' \in Seq(Record)
    BY <1>1, <1>12, <2>4, AppendProperties DEF ReadRecord
  <2> QED BY <1>1, <1>12, <2>1, <2>5 DEF ReadRecord
<1>13. CASE ReadEnd \/ Close
  <2>1. HasEntry /\ Release
    BY <1>13 DEF ReadEnd, Close, HasEntry
  <2>2. Head(queue) \in Seq(Record) /\ Tail(queue) \in Seq(Seq(Record))
    BY <1>1, <2>1, HasHead
  <2>3. released' \in Seq(Seq(Record))
    BY <1>1, <2>1, <2>2, AppendProperties DEF Release
  <2>4. queue' \in Seq(Seq(Record)) /\ reading' \in BOOLEAN /\ rcount' \in Nat
    BY <2>1, <2>2 DEF Release
  <2>5. closes' \in 0 .. MaxCloses
    BY <1>1, <1>13 DEF ReadEnd, Close, StoreAssumption
  <2> QED BY <1>1, <1>13, <2>3, <2>4, <2>5 DEF ReadEnd, Close
<1>14. CASE Crash
  <2>1. crashes' \in 0 .. MaxCrashes
    BY <1>1, <1>14 DEF Crash, StoreAssumption
  <2> QED BY <1>1, <1>14, <2>1 DEF Crash
<1>15. CASE UNCHANGED vars
  BY <1>1, <1>15 DEF vars
<1> QED
  BY <1>3, <1>4, <1>5, <1>6, <1>7, <1>8, <1>9, <1>10, <1>11, <1>12, <1>13, <1>14, <1>15
     DEF Next, WriterStep, PutRetry, Read, ReadNone

(* Every step keeps the writer's entry within its size. *)
LEMMA NextEntry ==
  ASSUME StoreAssumption, StoreInv, [Next]_vars
  PROVE  EntryExact'
<1>1. TypeOK /\ EntryExact /\ StreamKept /\ ReaderExact
  BY DEF StoreInv
<1>2. Len(queue) \in Nat /\ Len(Append(queue, cur)) = Len(queue) + 1 /\ Capacity \in Nat
  BY <1>1 DEF TypeOK, StoreAssumption
<1> USE DEF EntryExact, writer, reader
<1>3. CASE XStoreFlush \/ PutRecord \/ NoFlush
  BY <1>1, <1>3 DEF XStoreFlush, PutRecord, NoFlush
<1>4. CASE PutCommit \/ FlushCommit
  <2>1. queue' = Append(queue, cur) /\ hasHeader /\ ~hasHeader' /\ cur' = <<>>
    BY <1>4 DEF PutCommit, FlushCommit
  <2>2. Len(queue') <= Capacity
    BY <1>1, <1>2, <2>1
  <2> QED BY <2>1, <2>2
<1>5. CASE PutGet \/ FlushGet
  <2>1. queue' = queue /\ wpc' # "flush" /\ (hasHeader' => Len(queue) < Capacity)
    BY <1>5 DEF PutGet, FlushGet
  <2>2. ~hasHeader' => cur' = <<>>
    BY <1>1, <1>5 DEF PutGet, FlushGet
  <2> QED BY <1>1, <2>1, <2>2
<1>6. CASE Stop \/ Tick \/ ReadRecord \/ Crash \/ UNCHANGED vars
  BY <1>1, <1>6 DEF Stop, Tick, ReadRecord, Crash, vars
<1>7. CASE ReadEnd \/ Close
  <2>1. HasEntry /\ queue' = Tail(queue) /\ UNCHANGED <<hasHeader, cur, wpc>>
    BY <1>7 DEF ReadEnd, Close, Release, HasEntry
  <2>2. queue # <<>>
    BY <1>1, <2>1, HasHead
  <2>3. Len(queue') < Len(queue)
    BY <1>1, <2>1, <2>2 DEF TypeOK
  <2>4. Len(queue') \in Nat
    BY <1>1, <2>1, <2>2 DEF TypeOK
  <2> QED BY <1>1, <1>2, <2>1, <2>3, <2>4
<1> QED
  BY <1>3, <1>4, <1>5, <1>6, <1>7 DEF Next, WriterStep, PutRetry, Read, ReadNone

(* What is stored changes only by the record being put. *)
LEMMA StoredStep ==
  ASSUME StoreAssumption, StoreInv, [Next]_vars
  PROVE  IF PutRecord \/ PutGet
         THEN Stored' = Append(Stored, accepted) /\ Pending' = Append(Pending, accepted)
         ELSE Stored' = Stored
<1>1. TypeOK /\ EntryExact /\ StreamKept /\ ReaderExact
  BY DEF StoreInv
<1>2. CASE PutRecord \/ PutGet
  <2>1. accepted \in Record
    BY <1>1, <1>2 DEF PutRecord, PutGet, TypeOK, StreamKept, Kept, Record
  <2>2. queue' = queue /\ released' = released
    BY <1>2 DEF PutRecord, PutGet, reader
  <2>3. cur' = Append(cur, accepted)
    <3>1. CASE PutRecord
      BY <3>1 DEF PutRecord
    <3>2. CASE PutGet
      <4>1. cur = <<>> /\ cur' = <<accepted>>
        BY <1>1, <3>2 DEF PutGet, EntryExact
      <4> QED BY <4>1
    <3> QED BY <1>2, <3>1, <3>2
  <2> QED BY <1>1, <1>2, <2>1, <2>2, <2>3, PutEffect
<1>3. CASE PutCommit \/ FlushCommit
  <2>1. queue' = Append(queue, cur) /\ cur' = <<>> /\ released' = released
    BY <1>3 DEF PutCommit, FlushCommit, reader
  <2>2. ~(PutRecord \/ PutGet)
    BY <1>3 DEF PutCommit, FlushCommit, PutRecord, PutGet
  <2> QED BY <1>1, <2>1, <2>2, CommitEffect
<1>4. CASE ReadEnd \/ Close
  <2>1. HasEntry /\ Release /\ cur' = cur /\ wpc' = wpc
    BY <1>4 DEF ReadEnd, Close, HasEntry, writer
  <2>2. queue # <<>>
    BY <1>1, <2>1, HasHead
  <2>3. ~(PutRecord \/ PutGet)
    BY <1>1, <2>1 DEF PutRecord, PutGet, TypeOK
  <2> QED BY <1>1, <2>1, <2>2, <2>3, ReleaseEffect
<1>5. CASE XStoreFlush \/ NoFlush \/ FlushGet \/ Stop \/ Tick \/ ReadRecord \/ Crash \/ UNCHANGED vars
  <2>1. queue' = queue /\ cur' = cur /\ released' = released
    BY <1>5 DEF XStoreFlush, NoFlush, FlushGet, Stop, Tick, ReadRecord, Crash, vars, writer, reader
  <2>2. Stored' = Stored
    BY <2>1 DEF Stored
  <2>3. ~(PutRecord \/ PutGet)
    BY <1>1, <1>5 DEF XStoreFlush, NoFlush, FlushGet, Stop, Tick, ReadRecord, Crash, vars, writer,
       PutRecord, PutGet, TypeOK
  <2> QED BY <2>2, <2>3
<1> QED
  BY <1>2, <1>3, <1>4, <1>5 DEF Next, WriterStep, PutRetry, Read, ReadNone

(* Every step keeps the stream: only a put adds to it, and only its record. *)
LEMMA NextStream ==
  ASSUME StoreAssumption, StoreInv, [Next]_vars
  PROVE  StreamKept'
<1>1. TypeOK /\ EntryExact /\ StreamKept /\ ReaderExact
  BY DEF StoreInv
<1>2. /\ used \in Nat /\ size \in Nat /\ Space \in Nat /\ Room \in Nat /\ Room <= Space
      /\ accepted \in Nat /\ dropped \subseteq 1 .. accepted /\ Stored \in Seq(Record)
  BY <1>1, FlatTypes DEF TypeOK, StoreAssumption
<1>3. CASE XStoreFlush
  <2>1. /\ wpc = "idle" /\ accepted' = accepted + 1 /\ used' = used
        /\ \/ dropped' = dropped \cup {accepted + 1} /\ wpc' = "timer"
           \/ dropped' = dropped /\ wpc' = "put" /\ ~(size' > Room)
    BY <1>3 DEF XStoreFlush
  <2>2. Stored' = Stored
    <3>1. ~(PutRecord \/ PutGet)
      BY <2>1 DEF PutRecord, PutGet
    <3> QED BY <3>1, StoredStep
  <2>3. size' \in Nat
    BY <1>3 DEF XStoreFlush, StoreAssumption
  <2>4. ToSet(Stored) = Kept
    BY <1>1, <2>1 DEF StreamKept
  <2>5. accepted + 1 \notin 1 .. accepted /\ 1 .. accepted + 1 = (1 .. accepted) \cup {accepted + 1}
    BY <1>2
  <2>6. CASE wpc' = "timer"
    <3>1. Kept' = Kept
      BY <1>2, <2>1, <2>5, <2>6 DEF Kept
    <3> QED BY <1>1, <2>1, <2>2, <2>4, <2>6, <3>1 DEF StreamKept
  <2>7. CASE wpc' = "put"
    <3>1. Kept' = Kept \cup {accepted'} /\ accepted' \notin Kept
      BY <1>2, <2>1, <2>5, <2>7 DEF Kept
    <3>2. size' <= Room
      BY <1>2, <2>1, <2>3, <2>7
    <3>3. ToSet(Stored') = Kept' \ {accepted'}
      BY <2>2, <2>4, <3>1
    <3> QED BY <1>1, <2>1, <2>2, <2>7, <3>1, <3>2, <3>3 DEF StreamKept
  <2> QED BY <2>1, <2>6, <2>7
<1>4. CASE PutRecord \/ PutGet
  <2>1. wpc = "put" /\ wpc' = "timer" /\ UNCHANGED <<accepted, dropped>> /\ used' <= Space
    BY <1>1, <1>2, <1>4 DEF PutRecord, PutGet, StreamKept
  <2>2. accepted \in Kept /\ ToSet(Stored) = Kept \ {accepted} /\ Increasing(Stored)
    BY <1>1, <2>1 DEF StreamKept
  <2>3. Stored' = Append(Stored, accepted)
    BY <1>4, StoredStep
  <2>4. accepted \in Record
    BY <1>1, <2>2 DEF TypeOK, Kept, Record
  <2>5. ToSet(Stored') = Kept
    <3>1. ToSet(Append(Stored, accepted)) = ToSet(Stored) \cup {accepted}
      BY <1>2, <2>4, ElementsAppend
    <3> QED BY <2>2, <2>3, <3>1
  <2>6. Increasing(Stored')
    <3>1. Stored \in Seq(Nat)
      BY <1>2, SeqMonotonic DEF Record
    <3>2. \A r \in ToSet(Stored) : r < accepted
      BY <1>2, <2>2 DEF Kept
    <3> QED BY <1>2, <2>2, <2>3, <3>1, <3>2, IncreasingAppend
  <2>7. Kept' = Kept
    BY <2>1 DEF Kept
  <2> QED BY <2>1, <2>5, <2>6, <2>7 DEF StreamKept
<1>5. CASE /\ ~XStoreFlush /\ ~(PutRecord \/ PutGet)
  <2>1. UNCHANGED <<accepted, dropped>> /\ (used' = used \/ used' = 0)
        /\ (wpc' = "put" => wpc = "put" /\ size' = size)
        /\ (wpc \in {"put", "ended"} => wpc' \in {wpc, "ended"})
    BY <1>5 DEF Next, WriterStep, PutCommit, NoFlush, FlushCommit, FlushGet, PutRetry, Stop, Tick,
       Read, ReadRecord, ReadEnd, ReadNone, Close, Crash, vars, writer, reader, Release
  <2>2. Stored' = Stored
    BY <1>5, StoredStep
  <2>3. Kept' = Kept
    BY <2>1 DEF Kept
  <2>4. used' <= Space
    BY <1>1, <1>2, <2>1 DEF StreamKept
  <2> QED BY <1>1, <2>1, <2>2, <2>3, <2>4 DEF StreamKept
<1> QED BY <1>3, <1>4, <1>5

(* The steps of the writer. *)
LEMMA WriterReader ==
  ASSUME StoreAssumption, StoreInv, [Next]_vars, UNCHANGED reader
  PROVE  ReaderExact'
<1>1. TypeOK /\ EntryExact /\ StreamKept /\ ReaderExact
  BY DEF StoreInv
<1>2. UNCHANGED <<reading, rcount, closes, crashes, delivered, released>>
  BY DEF reader
<1>3. /\ queue \in Seq(Seq(Record)) /\ cur \in Seq(Record)
      /\ Stored \in Seq(Record) /\ Pending \in Seq(Record)
      /\ FlattenSeq(queue) \in Seq(Record) /\ accepted \in Nat
  BY <1>1, FlatTypes DEF TypeOK
<1>4. queue # <<>> => queue' # <<>> /\ Head(queue') = Head(queue)
  <2>1. queue' = queue \/ queue' = Append(queue, cur) \/ released' # released
    BY DEF Next, WriterStep, XStoreFlush, PutRecord, PutCommit, PutGet, NoFlush, FlushCommit, FlushGet,
       PutRetry, Stop, Tick, Read, ReadRecord, ReadEnd, ReadNone, Close, Crash, Release, vars, reader
  <2>2. queue # <<>> => Append(queue, cur) # <<>> /\ Head(Append(queue, cur)) = Head(queue)
    <3> SUFFICES ASSUME NEW T, NEW q \in Seq(T), NEW c \in T, q # <<>>
                 PROVE  Append(q, c) # <<>> /\ Head(Append(q, c)) = Head(q)
      BY <1>3
    <3> QED BY HeadTailAppend, AppendProperties
  <2> QED BY <1>2, <2>1, <2>2
<1>5. RecordsRead' = RecordsRead
  BY <1>2 DEF RecordsRead
<1>6. reading' => queue' # <<>> /\ rcount' <= Len(Head(queue'))
  BY <1>1, <1>2, <1>4 DEF ReaderExact
<1>7. CASE PutRecord \/ PutGet
  <2>1. Stored' = Append(Stored, accepted) /\ Pending' = Append(Pending, accepted)
    BY <1>7, StoredStep
  <2>2. wpc = "put"
    BY <1>7 DEF PutRecord, PutGet
  <2>3. accepted \in Kept /\ ToSet(Stored) = Kept \ {accepted}
    BY <1>1, <2>2 DEF StreamKept
  <2>4. accepted \in Record
    BY <1>1, <2>3 DEF TypeOK, Kept, Record
  <2>5. ToSet(Append(Stored, accepted)) = ToSet(Stored) \cup {accepted}
    BY <1>3, <2>4, ElementsAppend
  <2>6. ToSet(delivered') \subseteq ToSet(Stored')
    BY <1>1, <1>2, <2>1, <2>5 DEF ReaderExact
  <2>7. ASSUME crashes' = 0, NEW r \in ToSet(delivered'), NEW i \in 1 .. Len(Pending'), i > RecordsRead'
        PROVE  r < Pending'[i]
    <3>1. r \in ToSet(delivered) /\ crashes = 0 /\ i > RecordsRead
      BY <1>2, <1>5, <2>7
    <3>2. /\ i \in 1 .. Len(Pending) \/ i = Len(Pending) + 1
          /\ \A j \in 1 .. Len(Pending) : Append(Pending, accepted)[j] = Pending[j]
          /\ Append(Pending, accepted)[Len(Pending) + 1] = accepted
      BY <1>3, <2>1, <2>4, AppendProperties
    <3>3. CASE i \in 1 .. Len(Pending)
      <4>1. r < Pending[i]
        BY <1>1, <3>1, <3>3 DEF ReaderExact
      <4> QED BY <2>1, <3>2, <3>3, <4>1
    <3>4. CASE i = Len(Pending) + 1
      <4>1. r \in Kept /\ r # accepted
        BY <1>1, <2>3, <3>1 DEF ReaderExact
      <4>2. r < accepted
        BY <1>3, <4>1 DEF Kept
      <4> QED BY <2>1, <3>2, <3>4, <4>2
    <3> QED BY <3>2, <3>3, <3>4
  <2>8. crashes' = 0 => Increasing(delivered')
    BY <1>1, <1>2 DEF ReaderExact
  <2>9. closes' = 0 =>
          /\ ToSet(FlattenSeq(released')) \subseteq ToSet(delivered')
          /\ \A i \in 1 .. RecordsRead' : Head(queue')[i] \in ToSet(delivered')
    <3>1. queue' = queue
      BY <1>7 DEF PutRecord, PutGet
    <3> QED BY <1>1, <1>2, <1>5, <3>1 DEF ReaderExact
  <2> QED BY <1>6, <2>6, <2>7, <2>8, <2>9 DEF ReaderExact
<1>8. CASE ~(PutRecord \/ PutGet)
  <2>1. Stored' = Stored
    BY <1>8, StoredStep
  <2>2. Pending' = Pending
    <3>1. CASE PutCommit \/ FlushCommit
      <4>1. queue' = Append(queue, cur) /\ cur' = <<>> /\ released' = released
        BY <1>2, <3>1 DEF PutCommit, FlushCommit
      <4> QED BY <1>1, <4>1, CommitEffect
    <3>2. CASE ~(PutCommit \/ FlushCommit)
      <4>1. (queue' = queue /\ cur' = cur) \/ released' # released
        BY <1>8, <3>2 DEF Next, WriterStep, XStoreFlush, NoFlush, FlushGet, PutRetry, Stop, Tick,
           Read, ReadRecord, ReadEnd, ReadNone, Close, Crash, Release, vars, writer, reader
      <4> QED BY <1>2, <4>1 DEF Pending
    <3> QED BY <3>1, <3>2
  <2>3. ToSet(delivered') \subseteq ToSet(Stored')
    BY <1>1, <1>2, <2>1 DEF ReaderExact
  <2>4. crashes' = 0 =>
          /\ Increasing(delivered')
          /\ \A r \in ToSet(delivered'), i \in 1 .. Len(Pending') : i > RecordsRead' => r < Pending'[i]
    BY <1>1, <1>2, <1>5, <2>2 DEF ReaderExact
  <2>5. closes' = 0 =>
          /\ ToSet(FlattenSeq(released')) \subseteq ToSet(delivered')
          /\ \A i \in 1 .. RecordsRead' : Head(queue')[i] \in ToSet(delivered')
    <3>1. ASSUME NEW i \in 1 .. RecordsRead' PROVE Head(queue')[i] = Head(queue)[i]
      <4>1. reading
        BY <1>1, <1>5 DEF RecordsRead, TypeOK
      <4> QED BY <1>1, <1>4, <4>1 DEF ReaderExact
    <3> QED BY <1>1, <1>2, <1>5, <3>1 DEF ReaderExact
  <2> QED BY <1>6, <2>3, <2>4, <2>5 DEF ReaderExact
<1> QED BY <1>7, <1>8

(* The next record is handed out. *)
LEMMA ReadReader ==
  ASSUME StoreAssumption, StoreInv, ReadRecord
  PROVE  ReaderExact'
<1>1. TypeOK /\ EntryExact /\ StreamKept /\ ReaderExact
  BY DEF StoreInv
<1> DEFINE h == Head(queue)
           n == RecordsRead + 1
<1>2. /\ n \in Nat /\ n \in 1 .. Len(h) /\ RecordsRead \in Nat /\ RecordsRead' = n
      /\ reading' /\ rcount' = n
      /\ delivered' = Append(delivered, h[n])
      /\ UNCHANGED <<queue, cur, closes, crashes, released>>
  BY <1>1 DEF ReadRecord, RecordsRead, TypeOK, writer
<1>3. queue # <<>> /\ h \in Seq(Record) /\ Tail(queue) \in Seq(Seq(Record))
  BY <1>1, HasHead DEF ReadRecord
<1>4. h[n] \in Record
  BY <1>2, <1>3
<1>5. Stored' = Stored /\ Pending' = Pending
  BY <1>2 DEF Stored, Pending
<1>6. Pending \in Seq(Record) /\ Stored \in Seq(Record) /\ Stored = FlattenSeq(released) \o Pending
      /\ FlattenSeq(released) \in Seq(Record) /\ delivered \in Seq(Record)
  BY <1>1, FlatTypes DEF TypeOK
<1> HIDE DEF n
<1>7. n \in 1 .. Len(Pending) /\ Pending[n] = h[n]
  <2> DEFINE rest == FlattenSeq(Tail(queue)) \o cur
  <2>1. rest \in Seq(Record)
    <3>1. ASSUME NEW q \in Seq(Seq(Record)) PROVE FlattenSeq(q) \in Seq(Record)
      BY FlattenType
    <3>2. FlattenSeq(Tail(queue)) \in Seq(Record) /\ cur \in Seq(Record)
      BY <1>1, <1>3, <3>1 DEF TypeOK
    <3> QED BY <3>2, ConcatProperties
  <2>2. Pending = h \o rest
    <3>1. FlattenSeq(queue) = h \o FlattenSeq(Tail(queue))
      BY <1>1, <1>3, FlattenHead DEF TypeOK
    <3>2. \A a, b, c \in Seq(Record) : (a \o b) \o c = a \o (b \o c)
      BY ConcatAssociative
    <3>3. ASSUME NEW q \in Seq(Seq(Record)) PROVE FlattenSeq(q) \in Seq(Record)
      BY FlattenType
    <3>4. FlattenSeq(Tail(queue)) \in Seq(Record) /\ cur \in Seq(Record)
      BY <1>1, <1>3, <3>3 DEF TypeOK
    <3>5. (h \o FlattenSeq(Tail(queue))) \o cur = h \o rest
      BY <1>3, <3>2, <3>4, Zenon
    <3> QED BY <3>1, <3>5, Zenon DEF Pending
  <2> HIDE DEF rest, h
  <2>3. /\ Len(h \o rest) = Len(h) + Len(rest)
        /\ \A i \in 1 .. Len(h) + Len(rest) : (h \o rest)[i] = IF i <= Len(h) THEN h[i] ELSE rest[i - Len(h)]
    BY <1>3, <2>1, ConcatProperties
  <2>4. n \in 1 .. Len(h) + Len(rest) /\ n <= Len(h)
    BY <1>2, <1>3, <2>1
  <2> QED BY <2>2, <2>3, <2>4
<1>8. ToSet(delivered') = ToSet(delivered) \cup {h[n]}
  <2>1. \A s \in Seq(Record), e \in Record : ToSet(Append(s, e)) = ToSet(s) \cup {e}
    BY ElementsAppend
  <2> QED BY <1>2, <1>4, <1>6, <2>1, Zenon
<1>9. ToSet(delivered') \subseteq ToSet(Stored')
  <2>1. \A s, u \in Seq(Record) : ToSet(s \o u) = ToSet(s) \cup ToSet(u)
    BY ElementsConcat
  <2>2. ToSet(Stored) = ToSet(FlattenSeq(released)) \cup ToSet(Pending)
    BY <1>6, <2>1, Zenon
  <2>3. h[n] \in ToSet(Pending)
    BY <1>6, <1>7 DEF ToSet
  <2> QED BY <1>1, <1>5, <1>8, <2>2, <2>3 DEF ReaderExact
<1>10. ASSUME crashes' = 0 PROVE Increasing(delivered')
  <2>1. Increasing(delivered) /\ \A r \in ToSet(delivered) : r < Pending[n]
    <3>1. n > RecordsRead /\ crashes = 0
      BY <1>2, <1>10 DEF n
    <3> QED BY <1>1, <1>7, <3>1 DEF ReaderExact
  <2>2. delivered \in Seq(Nat) /\ h[n] \in Nat
    <3>1. Record \subseteq Nat
      BY DEF Record
    <3> QED BY <1>4, <1>6, <3>1, SeqMonotonic
  <2> QED BY <1>2, <1>7, <2>1, <2>2, IncreasingAppend
<1>11. ASSUME crashes' = 0, NEW r \in ToSet(delivered'), NEW i \in 1 .. Len(Pending'), i > RecordsRead'
      PROVE  r < Pending'[i]
  <2>1. i \in 1 .. Len(Pending) /\ i > n /\ i > RecordsRead /\ crashes = 0
    BY <1>2, <1>5, <1>11 DEF n
  <2>2. CASE r \in ToSet(delivered)
    BY <1>1, <1>5, <2>1, <2>2 DEF ReaderExact
  <2>3. CASE r = h[n]
    <3>1. Increasing(Pending)
      <4>1. \A s, u \in Seq(Nat) : Increasing(s \o u) => Increasing(u)
        BY IncreasingParts
      <4>2. Record \subseteq Nat
        BY DEF Record
      <4>3. FlattenSeq(released) \in Seq(Nat) /\ Pending \in Seq(Nat)
        BY <1>6, <4>2, SeqMonotonic
      <4>4. Increasing(FlattenSeq(released) \o Pending)
        BY <1>1, <1>6 DEF StreamKept
      <4> QED BY <4>1, <4>3, <4>4, Zenon
    <3>2. n \in DOMAIN Pending /\ i \in DOMAIN Pending /\ n < i
      BY <1>2, <1>6, <1>7, <2>1
    <3> QED BY <1>5, <1>7, <2>3, <3>1, <3>2 DEF Increasing
  <2> QED BY <1>8, <1>11, <2>2, <2>3
<1>12. ASSUME closes' = 0
       PROVE  /\ ToSet(FlattenSeq(released')) \subseteq ToSet(delivered')
              /\ \A i \in 1 .. RecordsRead' : Head(queue')[i] \in ToSet(delivered')
  <2>1. ASSUME NEW i \in 1 .. n PROVE h[i] \in ToSet(delivered')
    <3>1. i \in 1 .. RecordsRead \/ i = n
      BY <1>2 DEF n
    <3>2. CASE i \in 1 .. RecordsRead
      BY <1>1, <1>2, <1>8, <1>12, <3>2 DEF ReaderExact
    <3>3. CASE i = n
      BY <1>8, <3>3
    <3> QED BY <3>1, <3>2, <3>3
  <2>2. ToSet(FlattenSeq(released')) \subseteq ToSet(delivered')
    BY <1>1, <1>2, <1>8, <1>12 DEF ReaderExact
  <2> QED BY <1>2, <2>1, <2>2
<1>13. reading' => queue' # <<>> /\ rcount' <= Len(Head(queue'))
  BY <1>2, <1>3
<1> QED BY <1>9, <1>10, <1>11, <1>12, <1>13 DEF ReaderExact

(* The head is released: the reader was within it, and if it does not close *)
(* it was at its end.                                                       *)
LEMMA ReleaseReader ==
  ASSUME StoreAssumption, StoreInv, ReadEnd \/ Close
  PROVE  ReaderExact'
<1>1. TypeOK /\ EntryExact /\ StreamKept /\ ReaderExact
  BY DEF StoreInv
<1> DEFINE h == Head(queue)
<1>2. /\ HasEntry /\ Release /\ UNCHANGED <<cur, crashes, delivered>>
      /\ ~reading' /\ RecordsRead' = 0
      /\ closes' = 0 => closes = 0 /\ ReadEnd
  BY <1>1 DEF ReadEnd, Close, HasEntry, Release, writer, RecordsRead, TypeOK
<1>3. queue # <<>> /\ h \in Seq(Record) /\ Tail(queue) \in Seq(Seq(Record))
  BY <1>1, <1>2, HasHead
<1>4. Stored' = Stored /\ Pending = h \o Pending'
  BY <1>1, <1>2, <1>3, ReleaseEffect
<1>5. Pending' \in Seq(Record)
  <2>1. ASSUME NEW q \in Seq(Seq(Record)) PROVE FlattenSeq(q) \in Seq(Record)
    BY FlattenType
  <2>2. FlattenSeq(Tail(queue)) \in Seq(Record) /\ cur \in Seq(Record)
    BY <1>1, <1>3, <2>1 DEF TypeOK
  <2>3. Pending' = FlattenSeq(Tail(queue)) \o cur
    BY <1>2 DEF Release, Pending
  <2> QED BY <2>2, <2>3, ConcatProperties
<1>6. RecordsRead \in 0 .. Len(h)
  BY <1>1, <1>3 DEF RecordsRead, ReaderExact, TypeOK
<1>7. ToSet(delivered') \subseteq ToSet(Stored')
  BY <1>1, <1>2, <1>4 DEF ReaderExact
<1>8. ASSUME crashes' = 0, NEW r \in ToSet(delivered'), NEW i \in 1 .. Len(Pending')
      PROVE  r < Pending'[i]
  <2> DEFINE p == Pending'
  <2> HIDE DEF h, p
  <2>1. /\ Len(h \o p) = Len(h) + Len(p)
        /\ \A j \in 1 .. Len(h) + Len(p) : (h \o p)[j] = IF j <= Len(h) THEN h[j] ELSE p[j - Len(h)]
    BY <1>3, <1>5, ConcatProperties DEF p
  <2>2. /\ Len(h) + i \in 1 .. Len(h) + Len(p) /\ ~(Len(h) + i <= Len(h))
        /\ (Len(h) + i) - Len(h) = i /\ Len(h) + i > RecordsRead
    BY <1>3, <1>5, <1>6, <1>8 DEF p
  <2>3. Len(h) + i \in 1 .. Len(Pending) /\ Pending[Len(h) + i] = p[i]
    BY <1>4, <2>1, <2>2 DEF p
  <2>4. crashes = 0 /\ r \in ToSet(delivered)
    BY <1>2, <1>8
  <2>5. r < Pending[Len(h) + i]
    BY <1>1, <2>2, <2>3, <2>4 DEF ReaderExact
  <2> QED BY <2>3, <2>5 DEF p
<1>9. crashes' = 0 => Increasing(delivered')
  BY <1>1, <1>2 DEF ReaderExact
<1>10. ASSUME closes' = 0 PROVE ToSet(FlattenSeq(released')) \subseteq ToSet(delivered')
  <2>1. closes = 0 /\ RecordsRead = Len(h)
    BY <1>2, <1>3, <1>6, <1>10 DEF ReadEnd
  <2>2. ToSet(h) \subseteq ToSet(delivered)
    BY <1>1, <1>3, <2>1 DEF ReaderExact, ToSet
  <2>3. released \in Seq(Seq(Record)) /\ FlattenSeq(released) \in Seq(Record)
    BY <1>1, FlatTypes DEF TypeOK
  <2>4. ASSUME NEW e \in Seq(Record) PROVE FlattenSeq(Append(released, e)) = FlattenSeq(released) \o e
    BY <2>3, FlattenAppend
  <2>5. FlattenSeq(released') = FlattenSeq(released) \o h
    BY <1>2, <1>3, <2>4 DEF Release
  <2>6. \A s, u \in Seq(Record) : ToSet(s \o u) = ToSet(s) \cup ToSet(u)
    BY ElementsConcat
  <2>7. ToSet(FlattenSeq(released) \o h) = ToSet(FlattenSeq(released)) \cup ToSet(h)
    BY <1>3, <2>3, <2>6, Zenon
  <2>8. ToSet(FlattenSeq(released)) \subseteq ToSet(delivered)
    BY <1>1, <2>1 DEF ReaderExact
  <2> QED BY <1>2, <2>2, <2>5, <2>7, <2>8
<1>11. \A i \in 1 .. RecordsRead' : Head(queue')[i] \in ToSet(delivered')
  BY <1>2
<1> QED BY <1>2, <1>7, <1>8, <1>9, <1>10, <1>11 DEF ReaderExact

(* Every step keeps what the reader has handed out and released. *)
LEMMA NextReader ==
  ASSUME StoreAssumption, StoreInv, [Next]_vars
  PROVE  ReaderExact'
<1>1. CASE UNCHANGED reader
  BY <1>1, WriterReader
<1>2. CASE ReadRecord
  BY <1>2, ReadReader
<1>3. CASE ReadEnd \/ Close
  BY <1>3, ReleaseReader
<1>4. CASE Crash
  <2>1. /\ crashes' # 0 /\ ~reading' /\ RecordsRead' = 0
        /\ UNCHANGED <<queue, cur, closes, delivered, released>>
    BY <1>4 DEF Crash, RecordsRead, StoreInv, TypeOK, writer
  <2>2. Stored' = Stored
    BY <2>1 DEF Stored
  <2> QED BY <2>1, <2>2 DEF StoreInv, ReaderExact
<1> QED
  BY <1>1, <1>2, <1>3, <1>4 DEF Next, WriterStep, XStoreFlush, PutRecord, PutCommit, PutGet, NoFlush,
     FlushCommit, FlushGet, PutRetry, Stop, Tick, Read, ReadNone, vars

(* What holds at every moment of a run of the store and its reader. *)
LEMMA Invariance ==
  ASSUME StoreAssumption
  PROVE  Spec => []StoreInv
<1>1. Init => StoreInv
  BY InitInv
<1>2. StoreInv /\ [Next]_vars => StoreInv'
  BY NextType, NextEntry, NextStream, NextReader DEF StoreInv
<1> QED BY <1>1, <1>2, PTL DEF Spec

-----------------------------------------------------------------------------
(* The theorems. *)

(* The variables of the store and the reader keep their types, whatever     *)
(* records arrive and whenever either side dies.                            *)
THEOREM TypeCorrect == Spec => []TypeOK
<1>1. StoreInv => TypeOK
  BY DEF StoreInv
<1> QED BY <1>1, StoreAssumption, Invariance, PTL

(* xm_shm_entry_record_put and the flush timer neither lose, repeat nor     *)
(* reorder a record, and no entry gets more than it has room for.           *)
THEOREM StreamExactAlways == Spec => []StreamExact
<1>1. StoreInv => StreamExact
  <2> SUFFICES ASSUME StoreInv PROVE StreamExact
    OBVIOUS
  <2>1. StreamKept /\ wpc \in {"idle", "put", "timer", "flush", "ended"}
    BY DEF StoreInv, TypeOK
  <2> QED BY <2>1 DEF StreamKept, StreamExact
<1> QED BY <1>1, StoreAssumption, Invariance, PTL

(* XMapEntryReader hands out a record at most once, in order, unless the    *)
(* reader process dies inside an entry.                                     *)
THEOREM AtMostOnceAlways == Spec => []AtMostOnce
<1>1. StoreInv => AtMostOnce
  BY DEF StoreInv, ReaderExact, AtMostOnce
<1> QED BY <1>1, StoreAssumption, Invariance, PTL

(* XMapEntryReader hands out every record of an entry before it releases    *)
(* the entry, unless it is closed inside it.                                *)
THEOREM AtLeastOnceAlways == Spec => []AtLeastOnce
<1>1. StoreInv => AtLeastOnce
  BY DEF StoreInv, ReaderExact, AtLeastOnce
<1> QED BY <1>1, StoreAssumption, Invariance, PTL

(* The store keeps to the contract of the segment, xm_shm_interface.h: it   *)
(* commits only entries it has got, of records in order, and the reader     *)
(* releases the oldest.                                                     *)
THEOREM Refinement == Spec => QueueSpec
<1>1. Init => Q!Init
  <2> SUFFICES ASSUME Init PROVE Q!Init
    OBVIOUS
  <2>1. <<>> \in Seq(Record) /\ Increasing(<<>>)
    BY DEF Increasing
  <2>2. <<>> \in Entry
    BY <2>1, StoreAssumption, IncreasingIsEntry DEF StoreAssumption
  <2> QED BY <2>2 DEF Init, Q!Init
<1>2. StoreInv /\ StoreInv' /\ [Next]_vars => [Q!Next]_Q!qvars
  <2> SUFFICES ASSUME StoreInv, StoreInv', [Next]_vars PROVE [Q!Next]_Q!qvars
    OBVIOUS
  <2>1. TypeOK /\ EntryExact /\ StreamKept /\ ReaderExact /\ TypeOK'
    BY DEF StoreInv
  <2>2. CASE PutCommit \/ FlushCommit
    <3>1. Len(queue) < Capacity /\ queue' = Append(queue, cur) /\ released' = released
      BY <2>1, <2>2 DEF PutCommit, FlushCommit, EntryExact, reader
    <3>2. cur \in Entry
      <4>1. Increasing(cur)
        <5>1. \A s, u \in Seq(Nat) : Increasing(s \o u) => Increasing(u)
          BY IncreasingParts
        <5>2. /\ FlattenSeq(released) \in Seq(Record) /\ FlattenSeq(queue) \in Seq(Record)
              /\ cur \in Seq(Record) /\ Record \subseteq Nat
          <6>1. cur \in Seq(Record)
            BY <2>1 DEF TypeOK
          <6>2. Record \subseteq Nat
            BY DEF Record
          <6> QED BY <2>1, <6>1, <6>2, FlatTypes
        <5>3. FlattenSeq(released) \o FlattenSeq(queue) \in Seq(Record)
          BY <5>2, ConcatProperties
        <5>4. FlattenSeq(released) \o FlattenSeq(queue) \in Seq(Nat) /\ cur \in Seq(Nat)
          BY <5>2, <5>3, SeqMonotonic
        <5>5. Increasing((FlattenSeq(released) \o FlattenSeq(queue)) \o cur)
          BY <2>1 DEF StreamKept, Stored
        <5> QED BY <5>1, <5>4, <5>5, Zenon
      <4>2. cur \in Seq(Record) /\ MaxRecords \in Nat
        BY <2>1, StoreAssumption DEF TypeOK, StoreAssumption
      <4> QED BY <4>1, <4>2, IncreasingIsEntry
    <3>3. Q!Commit
      BY <3>1, <3>2 DEF Q!Commit
    <3> QED BY <3>3 DEF Q!Next
  <2>3. CASE ReadEnd \/ Close
    <3>1. HasEntry /\ Release
      BY <2>3 DEF ReadEnd, Close, HasEntry
    <3>2. queue # <<>>
      BY <2>1, <3>1, HasHead
    <3>3. released' # <<>> /\ Last(released') = Head(queue)
      <4>1. ASSUME NEW T, NEW r \in Seq(T), NEW e \in T
            PROVE  Append(r, e) # <<>> /\ Last(Append(r, e)) = e
        BY AppendProperties DEF Last
      <4>2. released \in Seq(Seq(Record)) /\ Head(queue) \in Seq(Record)
        BY <2>1, <3>1, HasHead DEF TypeOK
      <4> QED BY <3>1, <4>1, <4>2 DEF Release
    <3>4. Q!Release
      BY <3>1, <3>2, <3>3 DEF Q!Release, Release
    <3> QED BY <3>4 DEF Q!Next
  <2>4. CASE ~(PutCommit \/ FlushCommit) /\ ~(ReadEnd \/ Close)
    <3>1. queue' = queue /\ released' = released
      BY <2>4 DEF Next, WriterStep, XStoreFlush, PutRecord, PutGet, NoFlush, FlushGet, PutRetry, Stop, Tick,
         Read, ReadRecord, ReadNone, Crash, vars, reader
    <3> QED BY <3>1 DEF Q!qvars
  <2> QED BY <2>2, <2>3, <2>4
<1> QED BY <1>1, <1>2, StoreAssumption, Invariance, PTL DEF Spec, QueueSpec, Q!Spec
=============================================================================
