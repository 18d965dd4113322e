---------------------------- MODULE ShmRingProofs ----------------------------
(***************************************************************************)
(* Proofs about ShmRing, for every size of the ring and of the word.       *)
(***************************************************************************)
EXTENDS ShmRing, TLAPS

(* Arithmetic of the positions and of the count. *)
LEMMA NextPosStep ==
  ASSUME RingAssumption, NEW p \in Index
  PROVE  /\ NextPos(p) = IF p + 1 = Entries THEN 0 ELSE p + 1
         /\ NextPos(p) \in Index
  BY DEF RingAssumption, Index, NextPos

(* The count does not wrap while it is within the ring. *)
LEMMA CountPlusStep ==
  ASSUME RingAssumption, NEW c \in Counter
  PROVE  /\ CountPlus(c, 1) \in Counter
         /\ CountPlus(c, -1) \in Counter
         /\ c < Entries => CountPlus(c, 1) = c + 1
         /\ c > 0 => CountPlus(c, -1) = c - 1
<1>1. Word \in Nat \ {0} /\ Entries \in Nat \ {0} /\ Entries < Word /\ c \in 0 .. Word - 1
  BY DEF RingAssumption, Counter
<1>2. CountPlus(c, 1) \in Counter /\ CountPlus(c, -1) \in Counter
  BY <1>1 DEF CountPlus, Counter
<1>3. ASSUME c < Entries PROVE CountPlus(c, 1) = c + 1
  BY <1>1, <1>3 DEF CountPlus
<1>4. ASSUME c > 0 PROVE CountPlus(c, -1) = c - 1
  BY <1>1, <1>4 DEF CountPlus
<1>5. QED
  BY <1>2, <1>3, <1>4

-----------------------------------------------------------------------------
(* Type correctness. *)

(* The initial state has the right types. *)
LEMMA InitType == RingAssumption /\ Init => TypeOK
<1> SUFFICES ASSUME RingAssumption, Init PROVE TypeOK
  OBVIOUS
<1>1. 0 \in Index /\ 0 \in Counter /\ 0 \in Content
  BY DEF RingAssumption, Index, Counter, Content
<1>2. 0 \in 0 .. MaxStarts /\ 0 \in 0 .. MaxCrashes
  BY DEF RingAssumption
<1>3. slots \in [Index -> Content]
  BY <1>1 DEF Init
<1>4. countCur \in Counter /\ writePos \in Index /\ readPos \in Index
  BY <1>1 DEF Init
<1>5. wpc \in WriterPC /\ wreg \in Counter /\ wseq \in Content /\ starts \in 0 .. MaxStarts
  BY <1>1, <1>2 DEF Init, WriterPC
<1>6. rpc \in ReaderPC /\ rreg \in Counter /\ ridx \in Index /\ rval \in Content
  BY <1>1 DEF Init, ReaderPC
<1>7. crashes \in 0 .. MaxCrashes /\ (wpc = "filling" => wseq < MaxWrites)
  BY <1>2 DEF Init
<1>8. queue \in Seq(Content) /\ last \in Content /\ broken \in BOOLEAN
  BY <1>1 DEF Init
<1>9. QED
  BY <1>3, <1>4, <1>5, <1>6, <1>7, <1>8 DEF TypeOK

(* Every step keeps them. *)
LEMMA NextType == RingAssumption /\ TypeOK /\ [Next]_vars => TypeOK'
<1> SUFFICES ASSUME RingAssumption, TypeOK, [Next]_vars PROVE TypeOK'
  OBVIOUS
<1> USE DEF TypeOK, WriterPC, ReaderPC, history, reader, writer, header
<1>1. 0 \in Index /\ 0 \in Counter /\ 0 \in Content /\ Content \subseteq Nat
  BY DEF RingAssumption, Index, Counter, Content
<1>2. CASE WStart
  BY <1>1, <1>2 DEF WStart, RingAssumption
<1>3. CASE WInitWritePos
  BY <1>1, <1>3 DEF WInitWritePos
<1>4. CASE WInitReadPos
  BY <1>1, <1>4 DEF WInitReadPos
<1>5. CASE WGet
  BY <1>5 DEF WGet
<1>6. CASE WFill
  <2>1. wseq' \in Content
    BY <1>6 DEF WFill, Content, RingAssumption
  <2>2. QED
    BY <1>6, <2>1 DEF WFill
<1>7. CASE WAdvance
  BY <1>7, NextPosStep DEF WAdvance
<1>8. CASE WLoad
  BY <1>8 DEF WLoad
<1>9. CASE WStore
  BY <1>9, CountPlusStep DEF WStore
<1>10. CASE WCrash
  BY <1>10 DEF WCrash
<1>11. CASE RCheck
  BY <1>11 DEF RCheck
<1>12. CASE RFetch
  BY <1>12 DEF RFetch
<1>13. CASE RRead
  BY <1>13 DEF RRead
<1>14. CASE RAdvance
  BY <1>14, NextPosStep DEF RAdvance
<1>15. CASE RLoad
  BY <1>15 DEF RLoad
<1>16. CASE RStore
  BY <1>16, CountPlusStep DEF RStore
<1>17. CASE RCrash
  BY <1>17 DEF RCrash, RingAssumption
<1>18. CASE UNCHANGED vars
  BY <1>18 DEF vars
<1>19. QED
  BY <1>2, <1>3, <1>4, <1>5, <1>6, <1>7, <1>8, <1>9, <1>10, <1>11, <1>12, <1>13,
     <1>14, <1>15, <1>16, <1>17, <1>18
     DEF Next, WriterNext, ReaderNext, ReaderStep, WRefused, RRefused

(* Every variable of the segment and of the two processes keeps its range. *)
THEOREM TypeCorrect == Spec => []TypeOK
<1>1. Init => TypeOK
  BY InitType, RingAssumption
<1>2. TypeOK /\ [Next]_vars => TypeOK'
  BY NextType, RingAssumption
<1>3. QED
  BY <1>1, <1>2, PTL DEF Spec

-----------------------------------------------------------------------------
(* The exactness of the ring while it is not broken. *)

(* What the types say, in the form the arithmetic below needs. *)
LEMMA TypeFacts ==
  ASSUME RingAssumption, TypeOK
  PROVE  /\ Entries \in Nat /\ Entries > 0
         /\ countCur \in Nat /\ wseq \in Nat /\ last \in Nat
         /\ writePos \in 0 .. Entries - 1 /\ readPos \in 0 .. Entries - 1
         /\ Len(queue) \in Nat
         /\ \A i \in 1 .. Len(queue) : queue[i] \in Nat
         /\ Oldest \in 0 .. Entries - 1
         /\ slots \in [0 .. Entries - 1 -> Nat]
  BY DEF RingAssumption, TypeOK, Index, Counter, Content, Oldest, WriterPC, ReaderPC

(* The slots of the window, counted from a slot p, are distinct, and moving *)
(* a position forward moves it to the next one.                             *)
LEMMA SlotAfterFacts ==
  ASSUME RingAssumption, NEW p \in Index
  PROVE  /\ SlotAfter(p, 0) = p
         /\ \A i \in 0 .. Entries : SlotAfter(p, i) \in Index
         /\ \A i, j \in 0 .. Entries - 1 : SlotAfter(p, i) = SlotAfter(p, j) => i = j
         /\ \A i \in 0 .. Entries - 1 : NextPos(SlotAfter(p, i)) = SlotAfter(p, i + 1)
         /\ \A i \in 0 .. Entries - 1 : SlotAfter(NextPos(p), i) = SlotAfter(p, i + 1)
<1>1. Entries \in Nat \ {0} /\ p \in 0 .. Entries - 1
  BY DEF RingAssumption, Index
<1>2. SlotAfter(p, 0) = p
  BY <1>1 DEF SlotAfter
<1>3. \A i \in 0 .. Entries : SlotAfter(p, i) \in Index
  BY <1>1 DEF SlotAfter, Index
<1>4. \A i, j \in 0 .. Entries - 1 : SlotAfter(p, i) = SlotAfter(p, j) => i = j
  BY <1>1 DEF SlotAfter
<1>5. ASSUME NEW i \in 0 .. Entries - 1
      PROVE  NextPos(SlotAfter(p, i)) = SlotAfter(p, i + 1)
  <2>1. SlotAfter(p, i) \in Index
    BY <1>1, <1>3
  <2>2. NextPos(SlotAfter(p, i)) = IF SlotAfter(p, i) + 1 = Entries THEN 0 ELSE SlotAfter(p, i) + 1
    BY <2>1, NextPosStep
  <2>3. QED
    BY <1>1, <2>2 DEF SlotAfter
<1>6. ASSUME NEW i \in 0 .. Entries - 1
      PROVE  SlotAfter(NextPos(p), i) = SlotAfter(p, i + 1)
  BY <1>1, NextPosStep DEF SlotAfter
<1>7. QED
  BY <1>2, <1>3, <1>4, <1>5, <1>6

(* The initial state satisfies the inductive invariant. *)
LEMMA InitInv == RingAssumption /\ Init => RingInv
  BY DEF Init, RingInv, CountExact, WindowExact, WriterExact, ReaderExact, Ordered,
         WriterRunning, RingAssumption

(* Every step preserves it, one case per action of either process. *)
LEMMA NextInv == RingAssumption /\ TypeOK /\ TypeOK' /\ RingInv /\ [Next]_vars => RingInv'
<1> SUFFICES ASSUME RingAssumption, TypeOK, TypeOK', RingInv, [Next]_vars, broken' = FALSE
             PROVE  (CountExact /\ WindowExact /\ WriterExact /\ ReaderExact /\ Ordered)'
  BY DEF RingInv, TypeOK
<1> USE DEF history, reader, writer, header
<1>1. /\ Entries \in Nat /\ Entries > 0
      /\ countCur \in Nat /\ wseq \in Nat /\ last \in Nat
      /\ writePos \in 0 .. Entries - 1 /\ readPos \in 0 .. Entries - 1
      /\ Len(queue) \in Nat
      /\ \A i \in 1 .. Len(queue) : queue[i] \in Nat
      /\ Oldest \in 0 .. Entries - 1
      /\ slots \in [0 .. Entries - 1 -> Nat]
  BY TypeFacts
<1>2. ~broken
  BY DEF Next, WriterNext, ReaderNext, ReaderStep, vars, TypeOK,
         WStart, WInitWritePos, WInitReadPos, WGet, WRefused, WFill, WAdvance, WLoad, WStore,
         WCrash, RCheck, RRefused, RFetch, RRead, RAdvance, RLoad, RStore, RCrash
<1>3. CountExact /\ WindowExact /\ WriterExact /\ ReaderExact /\ Ordered
  BY <1>1, <1>2 DEF RingInv
<1>4. /\ Oldest \in Index
      /\ Len(queue) \in 0 .. Entries
      /\ \A i \in 1 .. Len(queue) : i - 1 \in 0 .. Entries - 1
  BY <1>1, <1>3 DEF CountExact, Index
<1>5. CASE WStart
  <2>1. countCur' = 0 /\ queue' = <<>> /\ Len(queue') = 0 /\ rpc' = "idle" /\ wpc' = "init1"
    BY <1>1, <1>5 DEF WStart
  <2>2. (CountExact /\ WindowExact)'
    BY <1>1, <2>1 DEF CountExact, WindowExact
  <2>3. (WriterExact /\ ReaderExact)'
    BY <1>1, <2>1 DEF WriterExact, ReaderExact, WriterRunning
  <2>4. Ordered'
    BY <1>1, <1>3, <1>5, <2>1 DEF WStart, Ordered
  <2>5. QED
    BY <1>1, <2>2, <2>3, <2>4
<1>6. CASE WInitWritePos
  BY <1>1, <1>3, <1>6 DEF WInitWritePos, CountExact, WindowExact, WriterExact, ReaderExact, Ordered,
     Oldest, WriterRunning
<1>7. CASE WInitReadPos
  BY <1>1, <1>3, <1>7 DEF WInitReadPos, CountExact, WindowExact, WriterExact, ReaderExact, Ordered,
     Oldest, WriterRunning, Span, SlotAfter
<1>8. CASE WGet
  BY <1>1, <1>3, <1>8 DEF WGet, shm_full, CountExact, WindowExact, WriterExact, ReaderExact, Ordered,
     Oldest, WriterRunning, Span
<1>9. CASE WFill
  <2>1. /\ wpc = "filling" /\ wpc' = "filled" /\ wseq' = wseq + 1
        /\ slots' = [slots EXCEPT ![writePos] = wseq + 1]
        /\ UNCHANGED <<countCur, writePos, readPos, rpc, ridx, rval, queue, last>>
    BY <1>1, <1>9 DEF WFill
  <2>2. Oldest' = Oldest /\ countCur < Entries /\ writePos = SlotAfter(Oldest, countCur)
    BY <1>1, <1>3, <2>1 DEF Oldest, WriterExact, WriterRunning, Span
  <2>3. ASSUME NEW i \in 1 .. Len(queue)
        PROVE  SlotAfter(Oldest, i - 1) # writePos /\ SlotAfter(Oldest, i - 1) \in Index
    <3>1. i - 1 \in 0 .. Entries - 1 /\ countCur \in 0 .. Entries - 1 /\ i - 1 # countCur
      BY <1>1, <1>3, <2>2 DEF CountExact
    <3>2. \A a, b \in 0 .. Entries - 1 : SlotAfter(Oldest, a) = SlotAfter(Oldest, b) => a = b
      BY <1>1, <1>4, SlotAfterFacts
    <3>3. SlotAfter(Oldest, i - 1) \in Index
      BY <1>1, <1>4, <3>1, SlotAfterFacts
    <3>4. QED
      BY <1>1, <2>2, <3>1, <3>2, <3>3
  <2>4. (CountExact /\ WindowExact)'
    BY <1>1, <1>3, <2>1, <2>2, <2>3 DEF CountExact, WindowExact, Index
  <2>5. WriterExact'
    BY <1>1, <1>3, <2>1, <2>2 DEF WriterExact, WriterRunning, Span
  <2>6. ReaderExact' /\ Ordered'
    BY <1>1, <1>3, <2>1 DEF ReaderExact, Ordered
  <2>7. QED
    BY <1>1, <2>4, <2>5, <2>6
<1>10. CASE WAdvance
  <2>1. /\ wpc = "filled" /\ wpc' = "load" /\ writePos' = NextPos(writePos)
        /\ UNCHANGED <<slots, countCur, readPos, rpc, ridx, rval, queue, last, wseq>>
    BY <1>1, <1>10 DEF WAdvance
  <2>2. Oldest' = Oldest /\ countCur \in 0 .. Entries - 1 /\ writePos = SlotAfter(Oldest, countCur)
    BY <1>1, <1>3, <2>1 DEF Oldest, WriterExact, WriterRunning, Span
  <2>3. writePos' = SlotAfter(Oldest, countCur + 1)
    BY <1>1, <1>4, <2>1, <2>2, SlotAfterFacts
  <2>4. WriterExact'
    BY <1>1, <1>3, <2>1, <2>2, <2>3 DEF WriterExact, WriterRunning, Span
  <2>5. QED
    BY <1>1, <1>3, <2>1, <2>2, <2>4 DEF CountExact, WindowExact, ReaderExact, Ordered
<1>11. CASE WLoad
  BY <1>1, <1>3, <1>11 DEF WLoad, CountExact, WindowExact, WriterExact, ReaderExact, Ordered,
     Oldest, WriterRunning, Span
<1>12. CASE WStore
  <2>1. /\ wpc = "store" /\ wpc' = "idle" /\ wreg = countCur
        /\ countCur' = CountPlus(wreg, 1) /\ queue' = Append(queue, wseq)
        /\ UNCHANGED <<slots, writePos, readPos, rpc, ridx, rval, last, wseq>>
    BY <1>1, <1>12 DEF WStore
  <2>2. countCur < Entries /\ countCur' = countCur + 1
    BY <1>1, <1>3, <2>1, CountPlusStep DEF WriterExact, TypeOK
  <2>3. /\ Len(queue') = Len(queue) + 1
        /\ \A i \in 1 .. Len(queue) : queue'[i] = queue[i]
        /\ queue'[Len(queue) + 1] = wseq
    BY <1>1, <2>1 DEF TypeOK
  <2>4. CountExact'
    BY <1>1, <1>3, <2>2, <2>3 DEF CountExact
  <2>5. Oldest' = Oldest
    BY <1>1, <2>1 DEF Oldest
  <2>6. WindowExact'
    <3>1. slots[SlotAfter(Oldest, countCur)] = wseq
      BY <1>1, <1>3, <2>1 DEF WriterExact
    <3>2. ASSUME NEW i \in 1 .. Len(queue')
          PROVE  slots[SlotAfter(Oldest, i - 1)] = queue'[i]
      <4>1. CASE i = Len(queue) + 1
        BY <1>1, <1>3, <2>3, <3>1, <4>1 DEF CountExact
      <4>2. CASE i # Len(queue) + 1
        <5>1. i \in 1 .. Len(queue)
          BY <1>1, <2>3, <4>2
        <5>2. QED
          BY <1>3, <2>3, <5>1 DEF WindowExact
      <4>3. QED
        BY <1>1, <4>1, <4>2
    <3>3. QED
      BY <1>1, <2>1, <2>5, <3>2 DEF WindowExact
  <2>7. WriterExact'
    BY <1>1, <1>3, <2>1, <2>2, <2>5 DEF WriterExact, WriterRunning, Span
  <2>8. ReaderExact'
    BY <1>1, <1>3, <2>1, <2>2, <2>3 DEF ReaderExact, CountExact
  <2>9. Ordered'
    <3>1. /\ last < wseq /\ \A i \in 1 .. Len(queue) : queue[i] < wseq
          /\ \A i \in 1 .. Len(queue) : last < queue[i]
          /\ \A i, j \in 1 .. Len(queue) : i < j => queue[i] < queue[j]
      BY <1>1, <1>3, <2>1 DEF Ordered
    <3>2. ASSUME NEW i \in 1 .. Len(queue')
          PROVE  last < queue'[i] /\ queue'[i] <= wseq
      <4>1. CASE i = Len(queue) + 1
        BY <1>1, <2>3, <3>1, <4>1
      <4>2. CASE i \in 1 .. Len(queue)
        BY <1>1, <2>3, <3>1, <4>2
      <4>3. QED
        BY <1>1, <2>3, <4>1, <4>2
    <3>3. ASSUME NEW i \in 1 .. Len(queue'), NEW j \in 1 .. Len(queue'), i < j
          PROVE  queue'[i] < queue'[j]
      <4>1. i \in 1 .. Len(queue)
        BY <1>1, <2>3, <3>3
      <4>2. CASE j = Len(queue) + 1
        BY <1>1, <2>3, <3>1, <4>1, <4>2
      <4>3. CASE j \in 1 .. Len(queue)
        BY <1>1, <2>3, <3>1, <3>3, <4>1, <4>3
      <4>4. j \in 1 .. Len(queue) \/ j = Len(queue) + 1
        BY <1>1, <2>3
      <4>5. QED
        BY <4>2, <4>3, <4>4
    <3>4. QED
      BY <1>1, <2>1, <3>1, <3>2, <3>3 DEF Ordered
  <2>10. QED
    BY <1>1, <2>4, <2>6, <2>7, <2>8, <2>9
<1>13. CASE WCrash
  BY <1>1, <1>3, <1>13 DEF WCrash, CountExact, WindowExact, WriterExact, ReaderExact, Ordered,
     Oldest, WriterRunning, Span
<1>14. CASE RCheck
  BY <1>1, <1>3, <1>14 DEF RCheck, shm_empty, CountExact, WindowExact, WriterExact, ReaderExact, Ordered,
     Oldest, WriterRunning, Span
<1>15. CASE RFetch
  BY <1>1, <1>3, <1>15 DEF RFetch, CountExact, WindowExact, WriterExact, ReaderExact, Ordered,
     Oldest, WriterRunning, Span
<1>16. CASE RRead
  <2>1. /\ rpc = "reading" /\ rpc' = "read" /\ rval' = slots[ridx]
        /\ UNCHANGED <<slots, countCur, writePos, readPos, wpc, wseq, ridx, queue, last>>
    BY <1>1, <1>16 DEF RRead
  <2>2. Oldest' = Oldest /\ Oldest = readPos /\ ridx = readPos /\ Len(queue) > 0
    BY <1>1, <1>3, <2>1 DEF Oldest, ReaderExact, CountExact
  <2>3. SlotAfter(Oldest, 1 - 1) = readPos
    BY <1>1, <1>4, <2>2, SlotAfterFacts
  <2>4. rval' = queue[1]
    BY <1>1, <1>3, <2>1, <2>2, <2>3 DEF WindowExact
  <2>5. QED
    BY <1>1, <1>3, <2>1, <2>2, <2>4 DEF CountExact, WindowExact, WriterExact, ReaderExact, Ordered,
       WriterRunning, Span
<1>17. CASE RAdvance
  <2>1. /\ rpc = "read" /\ rpc' = "load" /\ readPos' = NextPos(readPos)
        /\ UNCHANGED <<slots, countCur, writePos, wpc, wseq, rval, ridx, queue, last>>
    BY <1>1, <1>17 DEF RAdvance
  <2>2. Oldest = readPos /\ Oldest' = readPos
    <3>1. readPos' = IF readPos + 1 = Entries THEN 0 ELSE readPos + 1
      BY <1>1, <2>1, NextPosStep DEF TypeOK
    <3>2. QED
      BY <1>1, <2>1, <3>1 DEF Oldest
  <2>3. QED
    BY <1>1, <1>3, <2>1, <2>2 DEF CountExact, WindowExact, WriterExact, ReaderExact, Ordered,
       WriterRunning, Span
<1>18. CASE RLoad
  BY <1>1, <1>3, <1>18 DEF RLoad, CountExact, WindowExact, WriterExact, ReaderExact, Ordered,
     Oldest, WriterRunning, Span
<1>19. CASE RStore
  <2>1. /\ rpc = "store" /\ rpc' = "idle" /\ rreg = countCur
        /\ countCur' = CountPlus(rreg, -1) /\ last' = rval
        /\ queue' = IF queue = <<>> THEN <<>> ELSE Tail(queue)
        /\ UNCHANGED <<slots, writePos, readPos, wpc, wseq, rval>>
    BY <1>1, <1>19 DEF RStore
  <2>2. countCur > 0 /\ countCur' = countCur - 1 /\ rval = queue[1]
    BY <1>1, <1>3, <2>1, CountPlusStep DEF ReaderExact, TypeOK
  <2>3. /\ Len(queue') = Len(queue) - 1
        /\ \A i \in 1 .. Len(queue) - 1 : queue'[i] = queue[i + 1]
    <3>1. queue \in Seq(Content) /\ Len(queue) = countCur
      BY <1>1, <1>3 DEF TypeOK, CountExact
    <3>2. queue # <<>> /\ queue' = Tail(queue)
      BY <2>1, <2>2, <3>1
    <3>3. QED
      BY <3>1, <3>2
  <2>4. CountExact'
    BY <1>1, <1>3, <2>2, <2>3 DEF CountExact
  <2>5. Oldest' = readPos /\ readPos = NextPos(Oldest)
    <3>1. NextPos(Oldest) = IF Oldest + 1 = Entries THEN 0 ELSE Oldest + 1
      BY <1>1, <1>4, NextPosStep
    <3>2. QED
      BY <1>1, <2>1, <3>1 DEF Oldest
  <2>6. \A i \in 0 .. Entries - 1 : SlotAfter(Oldest', i) = SlotAfter(Oldest, i + 1)
    BY <1>1, <1>4, <2>5, SlotAfterFacts
  <2>7. WindowExact'
    <3>1. ASSUME NEW i \in 1 .. Len(queue')
          PROVE  slots[SlotAfter(Oldest', i - 1)] = queue'[i]
      <4>1. i \in 1 .. Len(queue) - 1 /\ i - 1 \in 0 .. Entries - 1 /\ i + 1 \in 1 .. Len(queue)
        BY <1>1, <1>4, <2>3
      <4>2. SlotAfter(Oldest', i - 1) = SlotAfter(Oldest, (i + 1) - 1)
        BY <1>1, <2>6, <4>1
      <4>3. QED
        BY <1>1, <1>3, <2>3, <4>1, <4>2 DEF WindowExact
    <3>2. QED
      BY <1>1, <2>1, <3>1 DEF WindowExact
  <2>8. WriterExact'
    <3>1. ASSUME NEW n \in 0 .. Entries - 1
          PROVE  SlotAfter(Oldest', n) = SlotAfter(Oldest, n + 1)
      BY <1>1, <2>6
    <3>2. Span \in 1 .. Entries /\ Span' = Span - 1
      <4>1. countCur \in 1 .. Entries /\ (wpc \in {"load", "store"} => countCur < Entries)
        BY <1>1, <1>3, <2>2 DEF WriterExact, CountExact
      <4>2. QED
        BY <1>1, <2>1, <2>2, <4>1 DEF Span
    <3>3. WriterRunning' => writePos' = SlotAfter(Oldest', Span')
      BY <1>1, <1>3, <2>1, <3>1, <3>2 DEF WriterExact, WriterRunning
    <3>4. wpc' \in {"filled", "load", "store"} => slots'[SlotAfter(Oldest', countCur')] = wseq'
      <4>1. countCur' \in 0 .. Entries - 1 /\ countCur' + 1 = countCur
        BY <1>1, <1>3, <2>2 DEF CountExact
      <4>2. SlotAfter(Oldest', countCur') = SlotAfter(Oldest, countCur)
        BY <1>1, <3>1, <4>1
      <4>3. QED
        BY <1>1, <1>3, <2>1, <4>2 DEF WriterExact
    <3>5. QED
      BY <1>1, <1>3, <2>1, <2>2, <3>3, <3>4 DEF WriterExact
  <2>9. ReaderExact'
    BY <1>1, <2>1 DEF ReaderExact
  <2>10. Ordered'
    <3>1. Len(queue) > 0 /\ last' = queue[1] /\ last' <= wseq
      BY <1>1, <1>3, <2>1, <2>2 DEF CountExact, Ordered
    <3>2. \A i \in 1 .. Len(queue') : i + 1 \in 1 .. Len(queue) /\ queue'[i] = queue[i + 1]
      BY <1>1, <2>3
    <3>3. \A i \in 1 .. Len(queue') : last' < queue'[i] /\ queue'[i] <= wseq
      <4>1. 1 \in 1 .. Len(queue)
        BY <1>1, <3>1
      <4>2. ASSUME NEW i \in 1 .. Len(queue')
            PROVE  queue[1] < queue[i + 1] /\ queue[i + 1] <= wseq
        <5>1. i + 1 \in 1 .. Len(queue) /\ 1 < i + 1
          BY <1>1, <3>2
        <5>2. QED
          BY <1>3, <4>1, <5>1 DEF Ordered
      <4>3. QED
        BY <3>1, <3>2, <4>2
    <3>4. \A i, j \in 1 .. Len(queue') : i < j => queue'[i] < queue'[j]
      BY <1>1, <1>3, <3>2 DEF Ordered
    <3>5. wpc \in {"filled", "load", "store"} =>
            last' < wseq /\ \A i \in 1 .. Len(queue') : queue'[i] < wseq
      BY <1>1, <1>3, <3>1, <3>2 DEF Ordered
    <3>6. QED
      BY <1>1, <2>1, <3>1, <3>3, <3>4, <3>5 DEF Ordered
  <2>11. QED
    BY <1>1, <2>4, <2>7, <2>8, <2>9, <2>10
<1>20. CASE RCrash
  BY <1>1, <1>3, <1>20 DEF RCrash, CountExact, WindowExact, WriterExact, ReaderExact, Ordered,
     Oldest, WriterRunning, Span
<1>21. CASE UNCHANGED vars
  BY <1>1, <1>3, <1>21 DEF vars, CountExact, WindowExact, WriterExact, ReaderExact, Ordered,
     Oldest, WriterRunning, Span
<1>22. QED
  BY <1>1, <1>5, <1>6, <1>7, <1>8, <1>9, <1>10, <1>11, <1>12, <1>13, <1>14, <1>15, <1>16,
     <1>17, <1>18, <1>19, <1>20, <1>21
     DEF Next, WriterNext, ReaderNext, ReaderStep, WRefused, RRefused

(* The inductive invariant holds throughout. *)
LEMMA InvAlways == Spec => [](TypeOK /\ RingInv)
<1>1. Init => TypeOK /\ RingInv
  BY InitType, InitInv, RingAssumption
<1>2. TypeOK /\ RingInv /\ [Next]_vars => (TypeOK /\ RingInv)'
  BY NextType, NextInv, RingAssumption
<1>3. QED
  BY <1>1, <1>2, PTL DEF Spec

(* xm_shm_interface.h, xm_shm_entry_pos_update: until the ring is broken, the *)
(* count equals the number of unread entries and none of them is overwritten. *)
THEOREM RingExactAlways == Spec => []RingExact
<1>1. TypeOK /\ RingInv => RingExact
  BY DEF RingInv, RingExact
<1>2. QED
  BY <1>1, InvAlways, PTL

(* Until the ring is broken the reader never releases an entry twice, nor an  *)
(* older one after a newer one, whoever restarts.                             *)
THEOREM InOrderAlways == Spec => InOrder
<1> DEFINE Newer == rpc = "store" /\ rpc' = "idle" /\ ~broken' => last' > last
<1>1. TypeOK /\ RingInv /\ [Next]_vars => [Newer]_vars
  <2> SUFFICES ASSUME TypeOK, RingInv, [Next]_vars, rpc = "store", rpc' = "idle", ~broken'
               PROVE  last' > last
    OBVIOUS
  <2>1. RStore
    BY DEF Next, WriterNext, ReaderNext, ReaderStep, vars, reader, TypeOK,
           WStart, WInitWritePos, WInitReadPos, WGet, WRefused, WFill, WAdvance, WLoad,
           WStore, WCrash, RCheck, RRefused, RFetch, RRead, RAdvance, RLoad, RStore, RCrash
  <2>2. ~broken
    BY <2>1 DEF RStore
  <2>3. CountExact /\ ReaderExact /\ Ordered
    BY <2>2 DEF RingInv
  <2>4. last' = queue[1] /\ Len(queue) > 0
    BY <2>1, <2>3, TypeFacts, RingAssumption DEF RStore, ReaderExact, CountExact
  <2>5. last \in Nat /\ queue[1] \in Nat /\ last < queue[1]
    BY <2>3, <2>4, TypeFacts, RingAssumption DEF Ordered
  <2>6. QED
    BY <2>4, <2>5
<1>2. QED
  BY <1>1, InvAlways, PTL DEF Spec, InOrder

-----------------------------------------------------------------------------
(* Refinement. *)

(* While the ring is not broken, what the header shows is the history. *)
LEMMA VisibleIsQueue ==
  ASSUME TypeOK, RingInv, ~broken
  PROVE  Visible = queue
<1>1. countCur = Len(queue) /\ \A i \in 1 .. Len(queue) : slots[SlotAfter(Oldest, i - 1)] = queue[i]
  BY DEF RingInv, CountExact, WindowExact
<1>2. queue = [i \in 1 .. Len(queue) |-> queue[i]]
  BY DEF TypeOK
<1>3. QED
  BY <1>1, <1>2 DEF Visible

(* The step of the abstract queue that each step of the ring takes. *)
LEMMA StepRefines ==
  ASSUME TypeOK, RingInv, TypeOK', RingInv', [Next]_vars
  PROVE  [Q!Next]_(Q!qvars)
<1>1. CASE broken'
  <2>1. Visible' = <<>> /\ broken' = TRUE /\ last' \in Content
    BY <1>1 DEF Visible, TypeOK
  <2>2. QED
    BY <2>1 DEF Q!Next, Q!Fail
<1>2. CASE ~broken'
  <2>1. ~broken /\ broken = FALSE /\ broken' = FALSE
    BY <1>2 DEF Next, WriterNext, ReaderNext, ReaderStep, vars, history, TypeOK,
         WStart, WInitWritePos, WInitReadPos, WGet, WRefused, WFill, WAdvance, WLoad, WStore,
         WCrash, RCheck, RRefused, RFetch, RRead, RAdvance, RLoad, RStore, RCrash
  <2>2. Visible = queue /\ Visible' = queue'
    <3>1. Visible = queue
      BY <2>1, VisibleIsQueue
    <3>2. (TypeOK /\ RingInv /\ ~broken => Visible = queue)'
      <4>1. TypeOK /\ RingInv /\ ~broken => Visible = queue
        BY VisibleIsQueue
      <4>2. QED
        BY VisibleIsQueue, PTL
    <3>3. QED
      BY <1>2, <3>1, <3>2
  <2>3. CASE WStart
    <3>1. queue' = <<>> /\ last' = last
      BY <2>3 DEF WStart
    <3>2. QED
      BY <2>1, <2>2, <3>1 DEF Q!Next, Q!Restart
  <2>4. CASE WStore
    <3>1. queue' = Append(queue, wseq) /\ wseq \in Content /\ last' = last
      BY <2>4 DEF WStore, TypeOK
    <3>2. Len(queue) < Entries
      BY <2>1, <2>4 DEF WStore, RingInv, CountExact, WriterExact
    <3>3. QED
      BY <2>1, <2>2, <3>1, <3>2 DEF Q!Next, Q!Commit
  <2>5. CASE RStore
    <3>1. queue # <<>>
      BY <2>1, <2>5, TypeFacts, RingAssumption DEF RStore, RingInv, CountExact, ReaderExact
    <3>2. rval = queue[1] /\ queue[1] = Head(queue)
      BY <2>1, <2>5, <3>1 DEF RStore, RingInv, ReaderExact, TypeOK
    <3>3. queue' = Tail(queue) /\ last' = Head(queue)
      BY <2>5, <3>1, <3>2 DEF RStore
    <3>4. QED
      BY <2>1, <2>2, <3>1, <3>3 DEF Q!Next, Q!Release
  <2>6. CASE ~WStart /\ ~WStore /\ ~RStore
    <3>1. queue' = queue /\ last' = last
      BY <2>6 DEF Next, WriterNext, ReaderNext, ReaderStep, vars, history,
           WInitWritePos, WInitReadPos, WGet, WRefused, WFill, WAdvance, WLoad,
           WCrash, RCheck, RRefused, RFetch, RRead, RAdvance, RLoad, RCrash
    <3>2. QED
      BY <2>1, <2>2, <3>1 DEF Q!qvars
  <2>7. QED
    BY <2>3, <2>4, <2>5, <2>6
<1>3. QED
  BY <1>1, <1>2

(* xm_shm_interface.c and .h implement the bounded queue of ShmQueue until an *)
(* event breaks the ring: entries come out once, in order, none overwritten.  *)
THEOREM Refinement == Spec => QueueSpec
<1>1. Init => Q!Init
  <2> SUFFICES ASSUME Init PROVE Q!Init
    OBVIOUS
  <2>1. Visible = <<>>
    BY DEF Init, Visible
  <2>2. QED
    BY <2>1, RingAssumption DEF Init, Q!Init, Content, RingAssumption
<1>2. TypeOK /\ RingInv /\ TypeOK' /\ RingInv' /\ [Next]_vars => [Q!Next]_(Q!qvars)
  BY StepRefines
<1>3. QED
  BY <1>1, <1>2, InvAlways, PTL DEF Spec, QueueSpec, Q!Spec
=============================================================================
