------------------------- MODULE SourceReaderProofs -------------------------
(***************************************************************************)
(* Proofs about SourceReader, for any readers, segments, filters and ids,  *)
(* and any number of starts.                                               *)
(***************************************************************************)
EXTENDS SourceReader, DataLemmas

-----------------------------------------------------------------------------
(* Types.  A context whose pool exists is that of a reader with its number, *)
(* and inside an entry if it has an iterator: Tail is then defined.         *)
Content == Record \cup {Nothing}
Places == {"none", "idle", "read", "next", "filter", "parse", "dead"}
Slot == 0 .. MaxContexts - 1
EntryType == [record : Content, data : Content, taken : BOOLEAN]
Pools == Readers \X Nat
Context == [pool : Pools \cup {NoPool}, reader : Readers \cup {"none"}, eiter : Nat]

ContextOf(i, c) ==
  c.pool \in live => /\ c.reader \in Readers /\ id[c.reader] = i
                     /\ c.eiter # 0 => segment[c.reader] # <<>>

ReaderTypes ==
  /\ id \in [Readers -> Nat] /\ filter \in [Readers -> Filters]
  /\ segment \in [Readers -> Seq(Seq(Record))]
  /\ context \in [Slot -> Context]
  /\ live \subseteq Pools
  /\ started \in [Readers -> 0 .. MaxStarts]
  /\ app \in [Readers -> {"new", "failed", "started", "stopped"}]
  /\ task \in [Readers -> [Starts -> Places]]
  /\ entry \in [Readers -> EntryType]
  /\ processed \in [Readers -> Seq(Content)]
  /\ stops \in BOOLEAN /\ broken \in BOOLEAN

(* Pools are made once: none beyond the last start exists or is in use.     *)
PoolsMade ==
  /\ \A r \in Readers, k \in Nat : <<r, k>> \in live => k <= started[r]
  /\ \A i \in Slot, r \in Readers, k \in Nat : context[i].pool = <<r, k>> => k <= started[r]
  /\ \A i \in Slot : ContextOf(i, context[i])
  /\ \A r \in Readers : (app[r] = "started" \/ \E k \in Starts : task[r][k] # "none") => id[r] \in Slot

TypeInv == ReaderTypes /\ PoolsMade

(* In the beginning there are no pools. *)
LEMMA InitTypes == Init => TypeInv
<1> SUFFICES ASSUME Init PROVE TypeInv
  OBVIOUS
<1>1. segment \in [Readers -> Seq(Seq(Record))] /\ 0 \in 0 .. MaxStarts
  BY ReaderAssumption DEF Init
<1>2. ReaderTypes
  <2>1. id \in [Readers -> Nat] /\ filter \in [Readers -> Filters] /\ live \subseteq Pools
    BY ReaderAssumption DEF Init
  <2>2. context \in [Slot -> Context]
    BY DEF Init, Slot, Context
  <2>3. started \in [Readers -> 0 .. MaxStarts]
    BY <1>1 DEF Init
  <2>4. app \in [Readers -> {"new", "failed", "started", "stopped"}]
    BY DEF Init
  <2>5. task \in [Readers -> [Starts -> Places]]
    BY DEF Init, Places
  <2>6. NoEntry \in EntryType
    BY DEF NoEntry, Content, EntryType
  <2>7. entry \in [Readers -> EntryType]
    BY <2>6 DEF Init
  <2>8. processed \in [Readers -> Seq(Content)] /\ stops \in BOOLEAN /\ broken \in BOOLEAN
    <3>1. <<>> \in Seq(Content)
      OBVIOUS
    <3> QED BY <3>1 DEF Init
  <2> QED BY <1>1, <2>1, <2>2, <2>3, <2>4, <2>5, <2>7, <2>8 DEF ReaderTypes
<1>3. \A i \in Slot : context[i].pool = NoPool /\ context[i].pool \notin live
  BY DEF Init, Slot
<1>4. PoolsMade
  <2>1. \A r \in Readers, k \in Nat : <<r, k>> # NoPool
    BY DEF NoPool
  <2>2. \A i \in Slot : ContextOf(i, context[i])
    BY <1>3 DEF ContextOf
  <2>3. live = {} /\ \A r \in Readers : app[r] # "started" /\ \A k \in Starts : task[r][k] = "none"
    BY DEF Init
  <2> QED BY <1>3, <2>1, <2>2, <2>3 DEF PoolsMade
<1> QED BY <1>2, <1>4 DEF TypeInv

(* What a task of a reader changes: its place, its entry, its output, and   *)
(* of the context it uses the iterator and the first entry of the segment.  *)
IteratorStep(r) ==
  LET c == context[id[r]] IN
  \/ context' = context /\ segment' = segment
  \/ \E n \in Nat :
       /\ context' = [context EXCEPT ![id[r]].eiter = n]
       /\ n # 0 => segment' = segment /\ segment[c.reader] # <<>>
       /\ n = 0 => Commit(c) /\ c.pool \in live /\ c.eiter # 0

TaskEffect(r, k) ==
  /\ UNCHANGED <<id, filter, live, started, app, good, stops>>
  /\ task[r][k] \in {"idle", "read", "next", "filter", "parse"}
  /\ \E p \in Places \ {"none"} : Go(r, k, p)
  /\ \E e \in EntryType : entry' = [entry EXCEPT ![r] = e]
  /\ processed' = processed \/ \E x \in Content : processed' = [processed EXCEPT ![r] = Append(@, x)]
  /\ broken' \in BOOLEAN
  /\ IteratorStep(r)

(* Every step of a task is one of these. *)
LEMMA TaskStepEffect ==
  ASSUME TypeInv, NEW r \in Readers, NEW k \in Starts, TaskStep(r, k)
  PROVE  TaskEffect(r, k)
<1> DEFINE c == context[id[r]]
<1>1. /\ entry[r] \in EntryType /\ entry[r].record \in Content /\ entry[r].data \in Content
      /\ task[r][k] \in Places /\ entry = [entry EXCEPT ![r] = entry[r]]
      /\ task = [task EXCEPT ![r][k] = task[r][k]]
  BY DEF TypeInv, ReaderTypes, EntryType
<1>2. task[r][k] # "none" => id[r] \in Slot
  BY DEF TypeInv, PoolsMade
<1>3. task[r][k] # "none" => c.eiter \in Nat
  BY <1>2 DEF TypeInv, ReaderTypes, Context
<1>4. \A e \in EntryType :
        /\ [e EXCEPT !.taken = TRUE] \in EntryType
        /\ readEnd(e) \in EntryType
        /\ \A x \in Content :
             [e EXCEPT !.record = x] \in EntryType
        /\ \A x, y \in Content :
             [e EXCEPT !.record = x, !.data = y] \in EntryType
  BY DEF readEnd, EntryType
<1>5. Filtered(r) \in EntryType
  BY <1>1, <1>4 DEF Filtered
<1>6. broken \in BOOLEAN
  BY DEF TypeInv, ReaderTypes
<1>7. CASE Tick(r, k)
  BY <1>1, <1>6, <1>7 DEF Tick, TaskEffect, IteratorStep, At, fixed, Places
<1>8. CASE Prepare(r, k)
  <2>1. id[r] \in Slot
    BY <1>2, <1>8 DEF Prepare, At
  <2>2. /\ UNCHANGED <<fixed, segment, entry, processed>> /\ task[r][k] = "read"
    BY <1>8 DEF Prepare, At
  <2>3. \E p \in Places \ {"none"} : Go(r, k, p)
    <3>1. task' = task \/ Go(r, k, "next") \/ Go(r, k, "idle")
      BY <1>8 DEF Prepare
    <3>2. task' = task => Go(r, k, "read")
      BY <1>1, <2>2 DEF Go
    <3> QED BY <3>1, <3>2 DEF Places
  <2>4. broken' \in BOOLEAN
    BY <1>6, <1>8 DEF Prepare
  <2>5. \/ context' = context
        \/ context' = [context EXCEPT ![id[r]].eiter = 1] /\ segment[c.reader] # <<>>
    BY <1>8 DEF Prepare
  <2>6. IteratorStep(r)
    <3>1. segment' = segment
      BY <2>2
    <3>2. CASE context' = context
      BY <3>1, <3>2 DEF IteratorStep
    <3>3. CASE context' = [context EXCEPT ![id[r]].eiter = 1] /\ segment[c.reader] # <<>>
      <4>1. 1 \in Nat /\ 1 # 0
        OBVIOUS
      <4> QED BY <3>1, <3>3, <4>1 DEF IteratorStep
    <3> QED BY <2>5, <3>2, <3>3
  <2>7. entry' = [entry EXCEPT ![r] = entry[r]]
    BY <1>1, <2>2
  <2> QED BY <1>1, <2>2, <2>3, <2>4, <2>6, <2>7 DEF TaskEffect, fixed
<1>9. CASE Next_record(r, k)
  <2>1. id[r] \in Slot /\ c.eiter \in Nat
    BY <1>2, <1>3, <1>9 DEF Next_record, At
  <2>2. /\ UNCHANGED <<fixed, segment, processed, broken>> /\ task[r][k] = "next"
        /\ Go(r, k, "filter") /\ c.pool \in live /\ c.eiter # 0
        /\ c.eiter <= Len(segment[c.reader][1])
        /\ context' = [context EXCEPT ![id[r]].eiter = @ + 1]
    BY <1>9 DEF Next_record, At
  <2>3. c.reader \in Readers /\ segment[c.reader] # <<>>
    BY <2>1, <2>2 DEF TypeInv, PoolsMade, ContextOf
  <2>4. segment[c.reader] \in Seq(Seq(Record)) /\ segment[c.reader][1] \in Seq(Record)
    <3>1. segment[c.reader] \in Seq(Seq(Record))
      BY <2>3 DEF TypeInv, ReaderTypes
    <3> QED BY <2>3, <3>1
  <2>5. segment[c.reader][1][c.eiter] \in Content
    BY <2>1, <2>2, <2>4 DEF Content
  <2>6. \E e \in EntryType : entry' = [entry EXCEPT ![r] = e]
    <3> DEFINE x == segment[c.reader][1][c.eiter]
               y == IF x.kind = "large" THEN entry[r].data ELSE x
    <3>1. entry' = [entry EXCEPT ![r] = [entry[r] EXCEPT !.record = x, !.data = y]]
      BY <1>9 DEF Next_record
    <3>2. x \in Content /\ y \in Content
      BY <1>1, <2>5
    <3> HIDE DEF x, y
    <3> QED BY <1>1, <1>4, <3>1, <3>2
  <2>7. context' = [context EXCEPT ![id[r]].eiter = c.eiter + 1] /\ c.eiter + 1 \in Nat /\ c.eiter + 1 # 0
    BY <2>1, <2>2
  <2>8. IteratorStep(r)
    BY <2>2, <2>3, <2>7 DEF IteratorStep, fixed
  <2> QED BY <1>6, <2>2, <2>3, <2>6, <2>8 DEF TaskEffect, fixed, Places
<1>10. CASE Next_none(r, k)
  BY <1>1, <1>6, <1>10 DEF Next_none, TaskEffect, IteratorStep, At, fixed, Places
<1>11. CASE Next_freed(r, k)
  BY <1>1, <1>6, <1>11 DEF Next_freed, TaskEffect, IteratorStep, At, fixed, Places, Go
<1>12. CASE TurnDown(r, k)
  BY <1>1, <1>4, <1>5, <1>6, <1>12 DEF TurnDown, Done, TaskEffect, IteratorStep, At, fixed, Places
<1>13. CASE FilterThrows(r, k)
  BY <1>1, <1>6, <1>13 DEF FilterThrows, TaskEffect, IteratorStep, At, fixed, Places
<1>14. CASE Accept(r, k)
  BY <1>1, <1>5, <1>6, <1>14 DEF Accept, TaskEffect, IteratorStep, At, fixed, Places
<1>15. CASE Process(r, k) \/ ProcessRest(r, k) \/ Ignore(r, k)
  <2>1. processed' = processed \/ \E x \in Content : processed' = [processed EXCEPT ![r] = Append(@, x)]
    BY <1>1, <1>15 DEF Process, ProcessRest, Ignore, Content
  <2>2. task[r][k] = "parse" /\ Done(r, k, [entry[r] EXCEPT !.taken = TRUE])
    BY <1>15 DEF Process, ProcessRest, Ignore, At
  <2>3. /\ UNCHANGED <<fixed, segment, context, broken>> /\ Go(r, k, "read")
        /\ entry' = [entry EXCEPT ![r] = readEnd([entry[r] EXCEPT !.taken = TRUE])]
    BY <2>2 DEF Done
  <2>4. IteratorStep(r)
    BY <2>3 DEF IteratorStep
  <2>5. \E e \in EntryType : entry' = [entry EXCEPT ![r] = e]
    BY <1>1, <1>4, <2>3
  <2> QED BY <1>6, <2>1, <2>2, <2>3, <2>4, <2>5 DEF TaskEffect, fixed, Places
<1> QED
  BY <1>7, <1>8, <1>9, <1>10, <1>11, <1>12, <1>13, <1>14, <1>15 DEF TaskStep

(* A step of a task keeps the types. *)
LEMMA TaskTypes ==
  ASSUME TypeInv, NEW r \in Readers, NEW k \in Starts, TaskEffect(r, k)
  PROVE  TypeInv'
<1> DEFINE c == context[id[r]]
<1>1. ReaderTypes /\ PoolsMade
  BY DEF TypeInv
<1>2. /\ UNCHANGED <<id, filter, live, started, app, good, stops>>
      /\ id' = id /\ live' = live /\ started' = started /\ app' = app
      /\ task[r][k] # "none"
  BY DEF TaskEffect
<1>3. id[r] \in Slot
  BY <1>1, <1>2 DEF PoolsMade
<1>4. task' \in [Readers -> [Starts -> Places]]
  <2>1. PICK p \in Places \ {"none"} : Go(r, k, p)
    BY DEF TaskEffect
  <2> QED BY <1>1, <2>1 DEF Go, ReaderTypes
<1>5. entry' \in [Readers -> EntryType]
  BY <1>1 DEF TaskEffect, ReaderTypes
<1>6. processed' \in [Readers -> Seq(Content)]
  <2>1. CASE processed' = processed
    BY <1>1, <2>1 DEF ReaderTypes
  <2>2. CASE \E x \in Content : processed' = [processed EXCEPT ![r] = Append(@, x)]
    <3>1. PICK x \in Content : processed' = [processed EXCEPT ![r] = Append(processed[r], x)]
      BY <2>2
    <3>2. Append(processed[r], x) \in Seq(Content)
      BY <1>1 DEF ReaderTypes
    <3> QED BY <1>1, <3>1, <3>2 DEF ReaderTypes
  <2> QED BY <2>1, <2>2 DEF TaskEffect
<1>7. /\ context' \in [Slot -> Context]
      /\ \A i \in Slot : context'[i].pool = context[i].pool /\ context'[i].reader = context[i].reader
      /\ \A i \in Slot : i # id[r] => context'[i] = context[i]
  <2>1. CASE context' = context
    BY <1>1, <2>1 DEF ReaderTypes
  <2>2. CASE \E n \in Nat : context' = [context EXCEPT ![id[r]].eiter = n]
    <3>1. PICK n \in Nat : context' = [context EXCEPT ![id[r]] = [c EXCEPT !.eiter = n]]
      BY <2>2
    <3> DEFINE x == [c EXCEPT !.eiter = n]
    <3>2. c \in Context
      BY <1>1, <1>3 DEF ReaderTypes
    <3>3. x \in Context /\ x.pool = c.pool /\ x.reader = c.reader
      BY <3>2 DEF Context
    <3> HIDE DEF x
    <3>4. /\ context' \in [Slot -> Context] /\ context'[id[r]] = x
          /\ \A i \in Slot : i # id[r] => context'[i] = context[i]
      <4>1. context' = [context EXCEPT ![id[r]] = x]
        BY <3>1 DEF x
      <4> HIDE DEF c
      <4> QED BY <1>1, <1>3, <3>3, <4>1 DEF ReaderTypes
    <3> QED BY <3>3, <3>4
  <2> QED BY <2>1, <2>2 DEF TaskEffect, IteratorStep
<1>8. /\ segment' \in [Readers -> Seq(Seq(Record))]
      /\ \A i \in Slot : context[i].pool \in live /\ context'[i].eiter # 0 =>
           segment'[context[i].reader] # <<>>
  <2>1. \A i \in Slot : context[i].pool \in live =>
           /\ context[i].reader \in Readers /\ id[context[i].reader] = i
           /\ context[i].eiter # 0 => segment[context[i].reader] # <<>>
    BY <1>1 DEF PoolsMade, ContextOf
  <2>2. CASE context' = context /\ segment' = segment
    BY <1>1, <2>1, <2>2 DEF ReaderTypes
  <2>3. CASE ~(context' = context /\ segment' = segment)
    <3>1. PICK n \in Nat : /\ context' = [context EXCEPT ![id[r]].eiter = n]
                           /\ n # 0 => segment' = segment /\ segment[c.reader] # <<>>
                           /\ n = 0 => Commit(c) /\ c.pool \in live /\ c.eiter # 0
      BY <2>3 DEF TaskEffect, IteratorStep
    <3>2. context'[id[r]].eiter = n
      BY <1>1, <1>3, <3>1 DEF ReaderTypes
    <3>3. CASE n # 0
      BY <1>1, <1>7, <2>1, <3>1, <3>3 DEF ReaderTypes
    <3>4. CASE n = 0
      <4>1. /\ segment' = [segment EXCEPT ![c.reader] = Tail(segment[c.reader])]
            /\ c.reader \in Readers /\ id[c.reader] = id[r] /\ segment[c.reader] # <<>>
        BY <1>3, <2>1, <3>1, <3>4 DEF Commit
      <4>2. segment[c.reader] \in Seq(Seq(Record))
        BY <1>1, <4>1 DEF ReaderTypes
      <4>3. Tail(segment[c.reader]) \in Seq(Seq(Record))
        BY <4>1, <4>2
      <4>4. segment' \in [Readers -> Seq(Seq(Record))]
        BY <1>1, <4>1, <4>3 DEF ReaderTypes
      <4>5. ASSUME NEW i \in Slot, context[i].pool \in live, context'[i].eiter # 0
            PROVE  segment'[context[i].reader] # <<>>
        <5>1. i # id[r] /\ context'[i] = context[i]
          BY <1>7, <3>2, <3>4, <4>5
        <5>2. context[i].reader # c.reader
          BY <2>1, <4>1, <4>5, <5>1
        <5> QED BY <1>1, <2>1, <4>1, <4>5, <5>1, <5>2 DEF ReaderTypes
      <4> QED BY <4>4, <4>5
    <3> QED BY <3>3, <3>4
  <2> QED BY <2>2, <2>3
<1>9. ReaderTypes'
  BY <1>1, <1>2, <1>4, <1>5, <1>6, <1>7, <1>8 DEF ReaderTypes, TaskEffect, Slot, Pools, Places, Content,
     EntryType, Starts
<1>10. PoolsMade'
  <2>1. \A i \in Slot : ContextOf(i, context[i])'
    BY <1>1, <1>2, <1>7, <1>8 DEF PoolsMade, ContextOf
  <2>2. \A q \in Readers, j \in Starts : task'[q][j] # "none" => id[q] \in Slot
    <3> SUFFICES ASSUME NEW q \in Readers, NEW j \in Starts, task'[q][j] # "none"
                 PROVE  id[q] \in Slot
      OBVIOUS
    <3>1. q # r => task'[q] = task[q]
      BY <1>1 DEF TaskEffect, Go, ReaderTypes
    <3> QED BY <1>1, <1>3, <3>1 DEF PoolsMade
  <2>3. \A q \in Readers, j \in Nat : <<q, j>> \in live' => j <= started'[q]
    BY <1>1, <1>2 DEF PoolsMade
  <2>4. \A i \in Slot, q \in Readers, j \in Nat : context'[i].pool = <<q, j>> => j <= started'[q]
    BY <1>1, <1>2, <1>7 DEF PoolsMade
  <2>5. \A q \in Readers :
            (app'[q] = "started" \/ \E j \in Starts : task'[q][j] # "none") => id'[q] \in Slot
    BY <1>1, <1>2, <2>2 DEF PoolsMade
  <2> QED BY <2>1, <2>3, <2>4, <2>5 DEF PoolsMade, Slot, Starts
<1> QED BY <1>9, <1>10 DEF TypeInv

(* A step of the application keeps the types. *)
LEMMA AppTypes ==
  ASSUME TypeInv, NEW r \in Readers, Start(r) \/ StartFails(r) \/ Stop(r)
  PROVE  TypeInv'
<1> DEFINE p == <<r, started[r] + 1>>
<1>1. ReaderTypes /\ PoolsMade
  BY DEF TypeInv
<1>2. MaxStarts \in Nat /\ started[r] \in 0 .. MaxStarts
  BY <1>1, ReaderAssumption DEF ReaderTypes
<1>3. CASE Start(r) \/ StartFails(r)
  <2>1. /\ started[r] < MaxStarts /\ started' = [started EXCEPT ![r] = started[r] + 1]
        /\ id' = id /\ filter' = filter /\ segment' = segment /\ entry' = entry
        /\ processed' = processed /\ stops' = stops /\ broken' = broken
    BY <1>3 DEF Start, StartFails, MayStart
  <2>2. /\ started' \in [Readers -> 0 .. MaxStarts] /\ started'[r] = started[r] + 1
        /\ started'[r] \in Starts /\ p \in Pools
        /\ \A q \in Readers : q # r => started'[q] = started[q]
    BY <1>1, <1>2, <2>1 DEF ReaderTypes, Starts, Pools
  <2>3. live' \in {live, live \cup {p}}
    BY <1>3, <2>1, <2>2 DEF Start, StartFails
  <2>4. \A q \in Readers, k \in Nat : k <= started[q] => k <= started'[q] /\ <<q, k>> # p
    BY <1>1, <1>2, <2>2 DEF ReaderTypes
  <2>5. \A i \in Slot : context[i].pool \in live' => context[i].pool \in live
    <3> SUFFICES ASSUME NEW i \in Slot, context[i].pool = p PROVE FALSE
      BY <2>3
    <3>1. started[r] + 1 <= started[r]
      BY <1>1, <1>2 DEF PoolsMade
    <3> QED BY <1>2, <3>1
  <2>6. \A q \in Readers, k \in Nat : <<q, k>> \in live' => k <= started'[q]
    <3> SUFFICES ASSUME NEW q \in Readers, NEW k \in Nat, <<q, k>> \in live' PROVE k <= started'[q]
      OBVIOUS
    <3>1. CASE <<q, k>> \in live
      BY <1>1, <2>4, <3>1 DEF PoolsMade
    <3>2. CASE <<q, k>> = p
      BY <1>2, <2>2, <3>2
    <3> QED BY <2>3, <3>1, <3>2
  <2>7. CASE StartFails(r)
    <3>1. context' = context /\ task' = task /\ app' = [app EXCEPT ![r] = "failed"]
      BY <2>7 DEF StartFails
    <3>2. ReaderTypes'
      BY <1>1, <2>1, <2>2, <2>3, <3>1 DEF ReaderTypes, Slot, Pools, Context,
         Places, Content, EntryType, Starts
    <3>3. \A i \in Slot : ContextOf(i, context[i])'
      BY <1>1, <2>1, <2>5, <3>1 DEF PoolsMade, ContextOf
    <3>4. \A i \in Slot, q \in Readers, k \in Nat : context'[i].pool = <<q, k>> => k <= started'[q]
      BY <1>1, <2>4, <3>1 DEF PoolsMade
    <3>5. \A q \in Readers :
            (app'[q] = "started" \/ \E j \in Starts : task'[q][j] # "none") => id'[q] \in Slot
      BY <1>1, <2>1, <3>1 DEF PoolsMade, ReaderTypes
    <3>6. PoolsMade'
      BY <2>6, <3>3, <3>4, <3>5 DEF PoolsMade, Slot, Starts
    <3> QED BY <3>2, <3>6 DEF TypeInv
  <2>8. CASE Start(r)
    <3> DEFINE x == [pool |-> p, reader |-> r, eiter |-> 0]
               k == started[r] + 1
    <3>1. /\ context' = [context EXCEPT ![id[r]] = x] /\ task' = [task EXCEPT ![r][k] = "idle"]
          /\ app' = [app EXCEPT ![r] = "started"] /\ id[r] < MaxContexts /\ k \in Starts
      BY <2>2, <2>8 DEF Start
    <3>2. id[r] \in Slot
      <4>1. id[r] \in Nat /\ MaxContexts \in Nat
        BY <1>1, ReaderAssumption DEF ReaderTypes
      <4> QED BY <3>1, <4>1 DEF Slot
    <3>3. x \in Context
      BY <2>2 DEF Context
    <3>4. x.pool = p /\ x.reader = r /\ x.eiter = 0
      OBVIOUS
    <3> HIDE DEF x, k
    <3>5. /\ context' \in [Slot -> Context]
          /\ context'[id[r]] = x /\ \A i \in Slot : i # id[r] => context'[i] = context[i]
      BY <1>1, <3>1, <3>2, <3>3 DEF ReaderTypes
    <3>6. /\ task' \in [Readers -> [Starts -> Places]]
          /\ app' \in [Readers -> {"new", "failed", "started", "stopped"}]
      BY <1>1, <3>1 DEF ReaderTypes, Places
    <3>7. ReaderTypes'
      BY <1>1, <2>1, <2>2, <2>3, <3>5, <3>6 DEF ReaderTypes, Slot, Pools, Context,
         Places, Content, EntryType, Starts
    <3>8. ASSUME NEW i \in Slot PROVE ContextOf(i, context[i])'
      <4>1. CASE i = id[r]
        BY <2>1, <3>4, <3>5, <4>1 DEF ContextOf
      <4>2. CASE i # id[r]
        BY <1>1, <2>1, <2>5, <3>5, <4>2 DEF PoolsMade, ContextOf
      <4> QED BY <4>1, <4>2
    <3>9. \A i \in Slot, q \in Readers, j \in Nat : context'[i].pool = <<q, j>> => j <= started'[q]
      <4> SUFFICES ASSUME NEW i \in Slot, NEW q \in Readers, NEW j \in Nat, context'[i].pool = <<q, j>>
                   PROVE  j <= started'[q]
        OBVIOUS
      <4>1. CASE i = id[r]
        <5>1. <<q, j>> = <<r, started[r] + 1>>
          BY <3>4, <3>5, <4>1
        <5> QED BY <1>2, <2>2, <5>1
      <4>2. CASE i # id[r]
        BY <1>1, <2>4, <3>5, <4>2 DEF PoolsMade
      <4> QED BY <4>1, <4>2
    <3>10. \A q \in Readers :
            (app'[q] = "started" \/ \E j \in Starts : task'[q][j] # "none") => id'[q] \in Slot
      BY <1>1, <2>1, <3>1, <3>2 DEF PoolsMade, ReaderTypes
    <3>11. PoolsMade'
      BY <2>6, <3>8, <3>9, <3>10 DEF PoolsMade, Slot, Starts
    <3> QED BY <3>7, <3>11 DEF TypeInv
  <2> QED BY <1>3, <2>7, <2>8
<1>4. CASE Stop(r)
  <2> DEFINE c == context[id[r]]
  <2>1. /\ app[r] = "started" /\ app' = [app EXCEPT ![r] = "stopped"] /\ stops' = TRUE
        /\ broken' \in BOOLEAN /\ live' = live \ {c.pool}
        /\ id' = id /\ filter' = filter /\ context' = context /\ started' = started
        /\ task' = task /\ entry' = entry /\ processed' = processed
        /\ IF c.pool \in live /\ c.eiter # 0 THEN Commit(c) ELSE segment' = segment
    BY <1>4 DEF Stop
  <2>2. id[r] \in Slot
    BY <1>1, <2>1 DEF PoolsMade
  <2>3. \A i \in Slot : context[i].pool \in live =>
           /\ context[i].reader \in Readers /\ id[context[i].reader] = i
           /\ context[i].eiter # 0 => segment[context[i].reader] # <<>>
    BY <1>1 DEF PoolsMade, ContextOf
  <2>4. /\ segment' \in [Readers -> Seq(Seq(Record))]
        /\ \A i \in Slot : context[i].pool \in live' /\ context[i].eiter # 0 =>
             segment'[context[i].reader] # <<>>
    <3>1. CASE segment' = segment
      BY <1>1, <2>1, <2>3, <3>1 DEF ReaderTypes
    <3>2. CASE c.pool \in live /\ c.eiter # 0 /\ Commit(c)
      <4>1. /\ segment' = [segment EXCEPT ![c.reader] = Tail(segment[c.reader])]
            /\ c.reader \in Readers /\ id[c.reader] = id[r] /\ segment[c.reader] # <<>>
        BY <2>2, <2>3, <3>2 DEF Commit
      <4>2. segment[c.reader] \in Seq(Seq(Record))
        BY <1>1, <4>1 DEF ReaderTypes
      <4>3. Tail(segment[c.reader]) \in Seq(Seq(Record))
        BY <4>1, <4>2
      <4>4. segment' \in [Readers -> Seq(Seq(Record))]
        BY <1>1, <4>1, <4>3 DEF ReaderTypes
      <4>5. ASSUME NEW i \in Slot, context[i].pool \in live', context[i].eiter # 0
            PROVE  segment'[context[i].reader] # <<>>
        <5>1. context[i].pool \in live /\ i # id[r]
          BY <2>1, <4>5
        <5>2. context[i].reader # c.reader
          BY <2>3, <4>1, <5>1
        <5> QED BY <1>1, <2>3, <4>1, <4>5, <5>1, <5>2 DEF ReaderTypes
      <4> QED BY <4>4, <4>5
    <3> QED BY <2>1, <3>1, <3>2
  <2>5. ReaderTypes'
    BY <1>1, <2>1, <2>4 DEF ReaderTypes, Slot, Pools, Context,
         Places, Content, EntryType, Starts
  <2>6. \A i \in Slot : ContextOf(i, context[i])'
    BY <2>1, <2>3, <2>4 DEF ContextOf
  <2>7. \A q \in Readers :
            (app'[q] = "started" \/ \E j \in Starts : task'[q][j] # "none") => id'[q] \in Slot
    BY <1>1, <2>1, <2>2 DEF PoolsMade, ReaderTypes
  <2>8. PoolsMade'
    BY <1>1, <2>1, <2>6, <2>7 DEF PoolsMade, Slot, Starts
  <2> QED BY <2>5, <2>8 DEF TypeInv
<1> QED BY <1>3, <1>4

(* Every step keeps the types. *)
LEMMA TypeStep == TypeInv /\ [Next]_vars => TypeInv'
<1> SUFFICES ASSUME TypeInv, [Next]_vars PROVE TypeInv'
  OBVIOUS
<1>1. CASE UNCHANGED vars
  BY <1>1 DEF TypeInv, ReaderTypes, PoolsMade, ContextOf, vars
<1>2. ASSUME NEW r \in Readers, Start(r) \/ StartFails(r) \/ Stop(r) PROVE TypeInv'
  BY <1>2, AppTypes
<1>3. ASSUME NEW r \in Readers, NEW k \in Starts, TaskStep(r, k) PROVE TypeInv'
  BY <1>3, TaskStepEffect, TaskTypes
<1> QED BY <1>1, <1>2, <1>3 DEF Next

(* The variables keep their types, and no entry is released that is not     *)
(* there, whatever readers share a context and whenever they are stopped.   *)
THEOREM TypeCorrect == Spec => []TypeInv
BY InitTypes, TypeStep, PTL DEF Spec

-----------------------------------------------------------------------------
(* What a reader with one task and an id of its own has processed.          *)

(* The records the task of r has not read yet have numbers above m.         *)
Ahead(r, m) ==
  \A i \in DOMAIN segment[r] : \A a \in DOMAIN segment[r][i] :
    (i = 1 => context[id[r]].eiter <= a) => m < segment[r][i][a].n

(* The task of r after its last start. *)
Place(r) == task[r][started[r]]

(* The records processed, the one in the buffer and those ahead follow one  *)
(* another; the buffer is not taken, and has the data of its record.        *)
Stream(r) ==
  /\ ~entry[r].taken
  /\ \A i \in DOMAIN processed[r] : processed[r][i].kind = "good" /\ Ahead(r, processed[r][i].n)
  /\ \A i, j \in DOMAIN processed[r] : i < j => processed[r][i].n < processed[r][j].n
  /\ Place(r) \in {"filter", "parse"} =>
       /\ entry[r].record \in Record /\ Ahead(r, entry[r].record.n)
       /\ entry[r].record.kind # "large" => entry[r].data = entry[r].record
       /\ \A i \in DOMAIN processed[r] : processed[r][i].n < entry[r].record.n
  /\ Place(r) = "parse" => ~Unwanted(r)

(* Not started yet, as often as it may have failed to. *)
Waiting(r) ==
  /\ app[r] \in {"new", "failed"} /\ processed[r] = <<>> /\ ~entry[r].taken
  /\ \A k \in Starts : task[r][k] = "none"

(* Started, with a context of its own and one task. *)
Working(r) ==
  /\ app[r] = "started" /\ started[r] \in Starts /\ id[r] \in Slot
  /\ context[id[r]].pool = <<r, started[r]>> /\ <<r, started[r]>> \in live
  /\ context[id[r]].reader = r
  /\ Place(r) # "none" /\ \A k \in Starts : k # started[r] => task[r][k] = "none"
  /\ Place(r) = "next" => context[id[r]].eiter # 0
  /\ filter[r] # "reads" => Stream(r)

(* What is left of this when there are no more reads: the record task k has *)
(* in its hands comes after those processed.                                *)
InHand(r, k) ==
  /\ ~entry[r].taken
  /\ \A i \in DOMAIN processed[r] : processed[r][i].kind = "good"
  /\ \A i, j \in DOMAIN processed[r] : i < j => processed[r][i].n < processed[r][j].n
  /\ task[r][k] \in {"filter", "parse"} =>
       /\ entry[r].record \in Record
       /\ entry[r].record.kind # "large" => entry[r].data = entry[r].record
       /\ \A i \in DOMAIN processed[r] : processed[r][i].n < entry[r].record.n
  /\ task[r][k] = "parse" => ~Unwanted(r)

(* Stopped: its one task may finish with the record it has, but must not    *)
(* read.                                                                    *)
Stopped(r) ==
  /\ stops /\ app[r] \in {"stopped", "failed"} /\ started[r] \in Starts /\ id[r] \in Slot
  /\ context[id[r]].pool \notin live
  /\ \E k \in Starts :
       /\ k <= started[r] /\ task[r][k] # "none" /\ \A j \in Starts : j # k => task[r][j] = "none"
       /\ filter[r] # "reads" => InHand(r, k)

(* Started again: several tasks poll one context, which is its own.         *)
Own(r) ==
  context[id[r]].pool \in live =>
    context[id[r]].reader = r /\ \E n \in Nat : context[id[r]].pool = <<r, n>>

Several(r) == stops /\ started[r] \in Starts /\ id[r] \in Slot /\ Own(r) /\ ~OneTask(r)

ReaderExact(r) ==
  \/ Numbered(segment[r]) /\ (Waiting(r) \/ Working(r))
  \/ Stopped(r) \/ Several(r)

ReaderInv ==
  ~Clash => /\ ~stops => ~broken
            /\ ~broken => \A r \in Readers : ReaderExact(r)

(* All wait in the beginning. *)
LEMMA InitReaders == Init => ReaderInv
<1> SUFFICES ASSUME Init PROVE ReaderInv
  OBVIOUS
<1>1. \A r \in Readers : Numbered(segment[r])
  BY ReaderAssumption DEF Init
<1>2. \A r \in Readers : Waiting(r)
  BY DEF Init, Waiting, NoEntry
<1> QED BY <1>1, <1>2 DEF ReaderInv, ReaderExact, Init

(* A reader that does not wait has been started, and its context is its own. *)
LEMMA BusyOwns ==
  ASSUME TypeInv, NEW r \in Readers, ReaderExact(r), ~Waiting(r)
  PROVE  started[r] > 0 /\ id[r] \in Slot /\ Own(r)
<1>1. CASE Working(r)
  <2>1. started[r] \in Nat
    BY <1>1 DEF Working, Starts
  <2> QED BY <1>1, <2>1 DEF Working, Starts, Own
<1>2. CASE Stopped(r)
  BY <1>2 DEF Stopped, Starts, Own
<1>3. CASE Several(r)
  BY <1>3 DEF Several, Starts
<1> QED BY <1>1, <1>2, <1>3 DEF ReaderExact

(* A reader whose variables a step leaves alone.                            *)
LEMMA LeftAlone ==
  ASSUME NEW r \in Readers, ReaderExact(r), id' = id, filter' = filter, stops => stops',
         segment'[r] = segment[r], started'[r] = started[r], app'[r] = app[r], task'[r] = task[r],
         entry'[r] = entry[r], processed'[r] = processed[r],
         ~Waiting(r) => /\ context'[id[r]] = context[id[r]]
                        /\ context[id[r]].pool \in live' <=> context[id[r]].pool \in live
  PROVE  ReaderExact(r)'
<1>1. Numbered(segment[r]) => Numbered(segment[r])'
  BY DEF Numbered
<1>2. CASE Waiting(r)
  <2>1. Waiting(r)'
    BY <1>2 DEF Waiting, Starts
  <2>2. Numbered(segment[r])
    BY <1>2 DEF ReaderExact, Waiting, Stopped, Several, OneTask
  <2> QED BY <1>1, <2>1, <2>2 DEF ReaderExact
<1>3. CASE Working(r)
  <2>1. \A m : Ahead(r, m) => Ahead(r, m)'
    BY <1>3 DEF Ahead, Working, Waiting
  <2>2. Place(r)' = Place(r) /\ (Unwanted(r) <=> Unwanted(r)')
    BY DEF Place, Unwanted
  <2>3. Stream(r) => Stream(r)'
    BY <2>1, <2>2 DEF Stream
  <2>4. context'[id[r]] = context[id[r]] /\ context[id[r]].pool \in live'
    BY <1>3 DEF Working, Waiting
  <2>5. Working(r)'
    BY <1>3, <2>2, <2>3, <2>4 DEF Working, Slot, Starts
  <2>6. Numbered(segment[r])
    BY <1>3 DEF ReaderExact, Working, Stopped, Several, OneTask
  <2> QED BY <1>1, <2>5, <2>6 DEF ReaderExact
<1>4. CASE Stopped(r) /\ ~Waiting(r)
  <2>1. \A k : InHand(r, k) => InHand(r, k)'
    BY DEF InHand, Unwanted
  <2>2. Stopped(r)'
    BY <1>4, <2>1 DEF Stopped, Slot, Starts
  <2> QED BY <2>2 DEF ReaderExact
<1>5. CASE Several(r) /\ ~Waiting(r)
  <2>1. Several(r)'
    BY <1>5 DEF Several, Own, OneTask, Slot, Starts
  <2> QED BY <2>1 DEF ReaderExact
<1> QED BY <1>2, <1>3, <1>4, <1>5 DEF ReaderExact

(* The stream of a reader when its task goes to a place where it has no     *)
(* record, and what is ahead is ahead as before.                            *)
LEMMA StreamRests ==
  ASSUME NEW r, Stream(r), processed'[r] = processed[r], ~entry'[r].taken,
         \A m : Ahead(r, m) => Ahead(r, m)', Place(r)' \notin {"filter", "parse"}
  PROVE  Stream(r)'
BY DEF Stream

(* A step of its task keeps the stream of a reader.                         *)
LEMMA TaskStream ==
  ASSUME TypeInv, NEW r \in Readers, NEW k \in Starts, Working(r), Numbered(segment[r]),
         k = started[r], filter[r] # "reads", TaskStep(r, k)
  PROVE  Stream(r)'
<1> DEFINE c == context[id[r]]
           s == segment[r]
<1>1. /\ Stream(r) /\ c.reader = r /\ c.eiter \in Nat /\ c \in Context /\ id[r] \in Slot
      /\ entry[r] \in EntryType /\ s \in Seq(Seq(Record)) /\ processed[r] \in Seq(Content)
  BY DEF Working, TypeInv, ReaderTypes, Context
<1>2. TaskEffect(r, k)
  BY TaskStepEffect
<1>3. /\ id' = id /\ started' = started /\ filter' = filter
      /\ \A p : Go(r, k, p) => Place(r)' = p
  BY <1>2 DEF TaskEffect, Place, Go, TypeInv, ReaderTypes
<1>4. segment' = segment /\ context' = context => \A m : Ahead(r, m) => Ahead(r, m)'
  BY <1>3 DEF Ahead
<1>5. /\ context = [context EXCEPT ![id[r]].eiter = c.eiter]
      /\ \A n : context' = [context EXCEPT ![id[r]].eiter = n] => context'[id[r]].eiter = n
  BY <1>1 DEF TypeInv, ReaderTypes, Context
<1>6. CASE Tick(r, k)
  <2>1. /\ segment' = segment /\ context' = context /\ entry' = entry /\ processed' = processed
        /\ Go(r, k, "read")
    BY <1>6 DEF Tick, fixed
  <2> QED BY <1>1, <1>3, <1>4, <2>1, StreamRests DEF Stream
<1>7. CASE Prepare(r, k)
  <2>1. /\ segment' = segment /\ entry' = entry /\ processed' = processed /\ task[r][k] = "read"
        /\ \/ task' = task /\ context' = context
           \/ Go(r, k, "next") \/ Go(r, k, "idle")
        /\ \/ context' = context
           \/ c.eiter = 0 /\ context' = [context EXCEPT ![id[r]].eiter = 1]
    BY <1>7 DEF Prepare, fixed, At
  <2>2. Place(r)' \in {"read", "next", "idle"}
    BY <1>3, <2>1 DEF Place
  <2>3. \A m : Ahead(r, m) => Ahead(r, m)'
    <3>1. CASE context' = context
      BY <1>4, <2>1, <3>1
    <3>2. CASE c.eiter = 0 /\ context' = [context EXCEPT ![id[r]].eiter = 1]
      <4>1. context'[id[r]].eiter = 1
        BY <1>5, <3>2
      <4>2. ASSUME NEW m, Ahead(r, m), NEW i \in DOMAIN s, NEW a \in DOMAIN s[i]
            PROVE  m < s[i][a].n
        <5>1. s[i] \in Seq(Record) /\ a \in Nat
          BY <1>1
        <5> QED BY <3>2, <4>2, <5>1 DEF Ahead
      <4> QED BY <1>3, <2>1, <4>1, <4>2 DEF Ahead
    <3> QED BY <2>1, <3>1, <3>2
  <2> QED BY <1>1, <2>1, <2>2, <2>3, StreamRests DEF Stream
<1>8. CASE Next_record(r, k)
  <2>1. PICK x : x = s[1][c.eiter]
    OBVIOUS
  <2>2. /\ c.eiter # 0 /\ c.pool \in live /\ c.eiter <= Len(s[1])
        /\ context' = [context EXCEPT ![id[r]].eiter = c.eiter + 1]
        /\ entry' = [entry EXCEPT ![r].record = x,
                                  ![r].data = IF x.kind = "large" THEN entry[r].data ELSE x]
        /\ Go(r, k, "filter") /\ segment' = segment /\ processed' = processed
    BY <1>1, <1>8, <2>1 DEF Next_record, fixed
  <2>3. s # <<>>
    BY <1>1, <2>2 DEF TypeInv, PoolsMade, ContextOf
  <2>4. s[1] \in Seq(Record) /\ 1 \in DOMAIN s /\ c.eiter \in DOMAIN s[1] /\ x \in Record
    <3>1. 1 \in DOMAIN s /\ s[1] \in Seq(Record)
      BY <1>1, <2>3
    <3>2. c.eiter \in 1 .. Len(s[1])
      BY <1>1, <2>2, <3>1
    <3> QED BY <2>1, <3>1, <3>2
  <2>5. context'[id[r]].eiter = c.eiter + 1
    BY <1>5, <2>2
  <2>6. Ahead(r, x.n)'
    <3> SUFFICES ASSUME NEW i \in DOMAIN s, NEW a \in DOMAIN s[i], i = 1 => c.eiter + 1 <= a
                 PROVE  x.n < s[i][a].n
      BY <1>3, <2>2, <2>5 DEF Ahead
    <3>1. 1 < i \/ (1 = i /\ c.eiter < a)
      <4>1. i \in Nat /\ 1 <= i
        BY <1>1
      <4>2. i = 1 => a \in Nat
        BY <2>4
      <4> QED BY <1>1, <4>1, <4>2
    <3> QED BY <2>1, <2>4, <3>1 DEF Numbered
  <2>7. \A m : Ahead(r, m) => m < x.n /\ Ahead(r, m)'
    <3> SUFFICES ASSUME NEW m, Ahead(r, m) PROVE m < x.n /\ Ahead(r, m)'
      OBVIOUS
    <3>1. m < x.n
      BY <1>1, <2>1, <2>4 DEF Ahead
    <3>2. ASSUME NEW i \in DOMAIN s, NEW a \in DOMAIN s[i], i = 1 => c.eiter + 1 <= a
          PROVE  m < s[i][a].n
      <4>1. i = 1 => a \in Nat
        BY <2>4
      <4>2. i = 1 => c.eiter <= a
        BY <1>1, <3>2, <4>1
      <4> QED BY <4>2 DEF Ahead
    <3> QED BY <1>3, <2>2, <2>5, <3>1, <3>2 DEF Ahead
  <2>8. entry'[r].record = x /\ (x.kind # "large" => entry'[r].data = x) /\ ~entry'[r].taken
    <3>1. ~entry[r].taken
      BY <1>1 DEF Stream
    <3>2. entry \in [Readers -> EntryType]
      BY DEF TypeInv, ReaderTypes
    <3> QED BY <2>2, <3>1, <3>2 DEF EntryType
  <2>9. Place(r)' = "filter"
    BY <1>3, <2>2
  <2>10. \A i \in DOMAIN processed[r] : /\ processed[r][i].kind = "good"
                                        /\ Ahead(r, processed[r][i].n)
                                        /\ processed[r][i].n < x.n
    BY <1>1, <2>7 DEF Stream
  <2>11. ASSUME NEW i \in DOMAIN processed[r] PROVE Ahead(r, processed[r][i].n)'
    <3>1. PICK m : m = processed[r][i].n
      OBVIOUS
    <3>2. Ahead(r, m)'
      BY <2>7, <2>10, <3>1
    <3> QED BY <2>2, <3>1, <3>2 DEF Ahead
  <2>12. Ahead(r, entry[r].record.n)'
    BY <2>6, <2>8 DEF Ahead
  <2>13. \A i, j \in DOMAIN processed[r] : i < j => processed[r][i].n < processed[r][j].n
    BY <1>1 DEF Stream
  <2> QED BY <2>2, <2>4, <2>8, <2>9, <2>10, <2>11, <2>12, <2>13 DEF Stream
<1>9. CASE Next_none(r, k)
  <2>1. /\ c.eiter # 0 /\ c.pool \in live /\ c.eiter > Len(s[1])
        /\ segment' = [segment EXCEPT ![r] = Tail(s)]
        /\ context' = [context EXCEPT ![id[r]].eiter = 0]
        /\ entry' = entry /\ processed' = processed /\ Go(r, k, "idle")
    BY <1>1, <1>9 DEF Next_none, Commit
  <2>2. s # <<>>
    BY <1>1, <2>1 DEF TypeInv, PoolsMade, ContextOf
  <2>3. /\ segment'[r] = Tail(s) /\ Len(s) \in Nat /\ DOMAIN s = 1 .. Len(s)
        /\ \A i \in DOMAIN Tail(s) : i + 1 \in DOMAIN s /\ i + 1 # 1 /\ Tail(s)[i] = s[i + 1]
    <3>1. segment'[r] = Tail(s)
      BY <2>1 DEF TypeInv, ReaderTypes
    <3> QED BY <1>1, <2>2, <3>1
  <2>4. \A m : Ahead(r, m) => Ahead(r, m)'
    BY <2>3 DEF Ahead
  <2> QED BY <1>1, <1>3, <2>1, <2>4, StreamRests DEF Stream
<1>10. CASE Next_freed(r, k)
  BY <1>1, <1>10 DEF Next_freed, Working, Place, At
<1>11. CASE TurnDown(r, k)
  <2>1. /\ segment' = segment /\ context' = context /\ processed' = processed /\ Go(r, k, "read")
        /\ entry' = [entry EXCEPT ![r] = readEnd(Filtered(r))]
    BY <1>11 DEF TurnDown, Done
  <2>2. ~entry'[r].taken
    <3>1. Filtered(r) = entry[r]
      BY DEF Filtered
    <3>2. entry'[r] = [entry[r] EXCEPT !.taken = FALSE]
      BY <2>1, <3>1 DEF readEnd, TypeInv, ReaderTypes
    <3> QED BY <1>1, <3>2 DEF EntryType
  <2> QED BY <1>1, <1>3, <1>4, <2>1, <2>2, StreamRests
<1>12. CASE FilterThrows(r, k)
  <2>1. /\ segment' = segment /\ context' = context /\ entry' = entry /\ processed' = processed
        /\ Go(r, k, "dead")
    BY <1>12 DEF FilterThrows
  <2> QED BY <1>1, <1>3, <1>4, <2>1, StreamRests DEF Stream
<1>13. CASE Accept(r, k)
  <2>1. /\ segment' = segment /\ context' = context /\ processed' = processed /\ Go(r, k, "parse")
        /\ entry' = [entry EXCEPT ![r] = entry[r]] /\ ~Unwanted(r) /\ Place(r) = "filter"
    BY <1>13 DEF Accept, Filtered, At, Place
  <2>2. entry' = entry
    BY <2>1 DEF TypeInv, ReaderTypes
  <2>3. ~Unwanted(r)'
    BY <1>3, <2>1, <2>2 DEF Unwanted
  <2> QED BY <1>1, <1>3, <1>4, <2>1, <2>2, <2>3 DEF Stream
<1>14. ASSUME Place(r) = "parse", Done(r, k, [entry[r] EXCEPT !.taken = TRUE])
       PROVE  /\ ~entry'[r].taken /\ Place(r)' = "read" /\ \A m : Ahead(r, m) => Ahead(r, m)'
  <2>1. entry'[r] = [entry[r] EXCEPT !.taken = FALSE]
    BY <1>1, <1>14 DEF Done, readEnd, TypeInv, ReaderTypes, EntryType
  <2>2. segment' = segment /\ context' = context /\ Go(r, k, "read")
    BY <1>14 DEF Done
  <2> QED BY <1>1, <1>3, <1>4, <2>1, <2>2 DEF EntryType
<1>15. CASE Process(r, k)
  <2>1. PICK y : y = entry[r].data
    OBVIOUS
  <2>2. /\ Place(r) = "parse" /\ Done(r, k, [entry[r] EXCEPT !.taken = TRUE]) /\ y = entry[r].record
        /\ entry[r].record.kind \in {"good", "unwanted"} /\ filter[r] # "null"
        /\ processed' = [processed EXCEPT ![r] = Append(processed[r], y)]
    BY <1>15, <2>1 DEF Process, At, Place, Unpacked
  <2>3. /\ y.kind = "good" /\ y \in Content /\ Ahead(r, y.n)
        /\ \A i \in DOMAIN processed[r] : processed[r][i].n < y.n
    BY <1>1, <2>2 DEF Stream, Unwanted, Content
  <2>4. processed'[r] = Append(processed[r], y)
    BY <2>2 DEF TypeInv, ReaderTypes
  <2>5. /\ ~entry'[r].taken /\ Place(r)' = "read" /\ \A m : Ahead(r, m) => Ahead(r, m)'
    BY <1>14, <2>2
  <2>6. /\ Len(processed[r]) \in Nat /\ DOMAIN processed[r] = 1 .. Len(processed[r])
        /\ DOMAIN processed'[r] = 1 .. Len(processed[r]) + 1
        /\ processed'[r][Len(processed[r]) + 1] = y
        /\ \A i \in 1 .. Len(processed[r]) : processed'[r][i] = processed[r][i]
    BY <1>1, <2>3, <2>4
  <2>7. ASSUME NEW i \in DOMAIN processed'[r]
        PROVE  processed'[r][i].kind = "good" /\ Ahead(r, processed[r][i].n)'
    <3>1. i = Len(processed[r]) + 1 \/ i \in DOMAIN processed[r]
      BY <2>6
    <3>2. PICK x : x = processed'[r][i]
      OBVIOUS
    <3>3. x.kind = "good" /\ Ahead(r, x.n)
      BY <1>1, <2>3, <2>6, <3>1, <3>2 DEF Stream
    <3>4. Ahead(r, x.n)'
      BY <2>5, <3>3
    <3> QED BY <3>2, <3>3, <3>4 DEF Ahead
  <2>8. \A i, j \in DOMAIN processed'[r] : i < j => processed'[r][i].n < processed'[r][j].n
    <3> SUFFICES ASSUME NEW i \in DOMAIN processed'[r], NEW j \in DOMAIN processed'[r], i < j
                 PROVE  processed'[r][i].n < processed'[r][j].n
      OBVIOUS
    <3>1. i \in DOMAIN processed[r] /\ (j = Len(processed[r]) + 1 \/ j \in DOMAIN processed[r])
      BY <2>6
    <3> QED BY <1>1, <2>3, <2>6, <3>1 DEF Stream
  <2> QED BY <2>5, <2>7, <2>8 DEF Stream
<1>16. CASE ProcessRest(r, k)
  BY <1>1, <1>16 DEF ProcessRest, At, Place, Unpacked, Stream
<1>17. CASE Ignore(r, k)
  <2>1. Place(r) = "parse" /\ Done(r, k, [entry[r] EXCEPT !.taken = TRUE]) /\ processed' = processed
    BY <1>17 DEF Ignore, At, Place
  <2> QED BY <1>1, <1>14, <2>1, StreamRests
<1> QED
  BY <1>6, <1>7, <1>8, <1>9, <1>10, <1>11, <1>12, <1>13, <1>15, <1>16, <1>17 DEF TaskStep

(* The records of a segment without its first entry. *)
LEMMA TailNumbered ==
  ASSUME NEW s \in Seq(Seq(Record)), s # <<>>, Numbered(s)
  PROVE  Numbered(Tail(s))
<1>1. \A i \in DOMAIN Tail(s) : i \in Nat /\ i + 1 \in DOMAIN s /\ Tail(s)[i] = s[i + 1]
  OBVIOUS
<1>2. SUFFICES ASSUME NEW i \in DOMAIN Tail(s), NEW j \in DOMAIN Tail(s),
                      NEW a \in DOMAIN s[i + 1], NEW b \in DOMAIN s[j + 1],
                      i < j \/ (i = j /\ a < b)
               PROVE  s[i + 1][a].n < s[j + 1][b].n
  BY <1>1 DEF Numbered
<1>3. i + 1 < j + 1 \/ (i + 1 = j + 1 /\ a < b)
  BY <1>1, <1>2
<1> QED BY <1>1, <1>3 DEF Numbered

(* A step of a task uses no pool that does not exist, and its reader works  *)
(* on: its pool is its own, and it has an iterator when it reads.           *)
LEMMA TaskWorks ==
  ASSUME TypeInv, NEW r \in Readers, NEW k \in Starts, ~broken, Working(r), Numbered(segment[r]),
         TaskStep(r, k)
  PROVE  ~broken' /\ ReaderExact(r)'
<1> DEFINE c == context[id[r]]
<1>1. TaskEffect(r, k)
  BY TaskStepEffect
<1>2. Working(r) /\ k = started[r] /\ Numbered(segment[r])
  BY <1>1 DEF TaskEffect, Working
<1>3. /\ id[r] \in Slot /\ c.pool \in live /\ c.reader = r /\ c.pool = <<r, started[r]>>
      /\ c \in Context /\ segment[r] \in Seq(Seq(Record))
      /\ task[r][k] = "next" => c.eiter # 0
  BY <1>2 DEF Working, Place, TypeInv, ReaderTypes
<1>4. ~broken'
  BY <1>3 DEF TaskStep, Tick, Prepare, Next_record, Next_none, Next_freed, TurnDown, FilterThrows,
     Accept, Process, ProcessRest, Ignore, Done, At
<1>5. /\ id' = id /\ filter' = filter /\ live' = live /\ started' = started /\ app' = app
  BY <1>1 DEF TaskEffect
<1>6. PICK p \in Places \ {"none"} : Go(r, k, p)
  BY <1>1 DEF TaskEffect
<1>7. task'[r][k] = p /\ \A j \in Starts : j # k => task'[r][j] = task[r][j]
  BY <1>6 DEF Go, TypeInv, ReaderTypes
<1>8. context'[id[r]].pool = c.pool /\ context'[id[r]].reader = r
  <2>1. CASE context' = context
    BY <1>3, <2>1
  <2>2. CASE \E m \in Nat : context' = [context EXCEPT ![id[r]].eiter = m]
    <3>1. PICK m \in Nat : context' = [context EXCEPT ![id[r]] = [c EXCEPT !.eiter = m]]
      BY <2>2
    <3>2. context'[id[r]] = [c EXCEPT !.eiter = m]
      BY <1>3, <3>1 DEF TypeInv, ReaderTypes
    <3> HIDE DEF c
    <3> QED BY <1>3, <3>2 DEF Context
  <2> QED BY <1>1, <2>1, <2>2 DEF TaskEffect, IteratorStep
<1>9. Numbered(segment'[r])
  <2>1. CASE segment' = segment
    BY <1>2, <2>1
  <2>2. CASE segment' # segment
    <3>1. Commit(c) /\ c.eiter # 0
      BY <1>1, <2>2 DEF TaskEffect, IteratorStep
    <3>2. segment[r] # <<>>
      BY <1>3, <3>1 DEF TypeInv, PoolsMade, ContextOf
    <3>3. segment'[r] = Tail(segment[r])
      BY <1>3, <3>1 DEF Commit, TypeInv, ReaderTypes
    <3> QED BY <1>2, <1>3, <3>2, <3>3, TailNumbered
  <2> QED BY <2>1, <2>2
<1>10. p = "next" => context'[id[r]].eiter # 0
  <2>1. p = "next" => Prepare(r, k) \/ Next_freed(r, k)
    <3>1. \A q : Go(r, k, q) => q = p
      BY <1>7 DEF Go, TypeInv, ReaderTypes
    <3>2. \/ Prepare(r, k) \/ Next_freed(r, k)
          \/ Go(r, k, "read") \/ Go(r, k, "filter") \/ Go(r, k, "idle") \/ Go(r, k, "dead")
          \/ Go(r, k, "parse")
      BY DEF TaskStep, Tick, Next_record, Next_none, TurnDown, FilterThrows, Accept, Process,
         ProcessRest, Ignore, Done
    <3> QED BY <3>1, <3>2
  <2>2. ~Next_freed(r, k)
    BY <1>3 DEF Next_freed, At
  <2>3. ASSUME Prepare(r, k), p = "next" PROVE context'[id[r]].eiter # 0
    <3>1. \/ c.eiter # 0 /\ context' = context
          \/ context' = [context EXCEPT ![id[r]].eiter = 1]
      BY <1>3, <1>4, <1>7, <2>3 DEF Prepare, Go, TypeInv, ReaderTypes
    <3> QED BY <1>3, <3>1 DEF TypeInv, ReaderTypes, Context
  <2> QED BY <2>1, <2>2, <2>3
<1>11. filter'[r] # "reads" => Stream(r)'
  BY <1>2, <1>5, TaskStream
<1>12. Place(r)' = p
  BY <1>2, <1>5, <1>7 DEF Place
<1>13. Working(r)'
  BY <1>2, <1>3, <1>5, <1>7, <1>8, <1>10, <1>11, <1>12 DEF Working, Slot, Starts
<1>14. Numbered(segment[r])'
  BY <1>9 DEF Numbered
<1> QED BY <1>2, <1>4, <1>13, <1>14 DEF ReaderExact

(* The task of a stopped reader ends with the record it has; if it reads,   *)
(* it uses a pool that does not exist.                                      *)
LEMMA TaskStops ==
  ASSUME TypeInv, NEW r \in Readers, NEW k \in Starts, Stopped(r), TaskStep(r, k), ~broken'
  PROVE  Stopped(r)'
<1> DEFINE c == context[id[r]]
<1>1. TaskEffect(r, k)
  BY TaskStepEffect
<1>2. /\ k <= started[r] /\ task[r][k] # "none" /\ \A j \in Starts : j # k => task[r][j] = "none"
      /\ filter[r] # "reads" => InHand(r, k)
  BY <1>1 DEF Stopped, TaskEffect
<1>3. /\ id' = id /\ filter' = filter /\ live' = live /\ started' = started /\ app' = app /\ stops' = stops
  BY <1>1 DEF TaskEffect
<1>4. /\ entry[r] \in EntryType /\ processed[r] \in Seq(Content) /\ c.pool \notin live
  BY DEF Stopped, TypeInv, ReaderTypes
<1>5. ~Prepare(r, k) /\ ~Next_record(r, k) /\ ~Next_none(r, k) /\ ~Next_freed(r, k)
  BY <1>4 DEF Prepare, Next_record, Next_none, Next_freed
<1>6. PICK p \in Places \ {"none"} : Go(r, k, p)
  BY <1>1 DEF TaskEffect
<1>7. task'[r][k] = p /\ \A j \in Starts : j # k => task'[r][j] = task[r][j]
  BY <1>6 DEF Go, TypeInv, ReaderTypes
<1>8. \A q : Go(r, k, q) => q = p
  BY <1>7 DEF Go, TypeInv, ReaderTypes
<1>9. context' = context
  BY <1>5 DEF TaskStep, Tick, TurnDown, FilterThrows, Accept, Process, ProcessRest, Ignore, Done
<1>10. ASSUME filter[r] # "reads" PROVE InHand(r, k)'
  <2>1. InHand(r, k)
    BY <1>2, <1>10
  <2>2. ASSUME processed'[r] = processed[r], ~entry'[r].taken, p \notin {"filter", "parse"}
        PROVE  InHand(r, k)'
    BY <1>7, <2>1, <2>2 DEF InHand
  <2>3. CASE Tick(r, k)
    <3>1. entry' = entry /\ processed' = processed /\ p = "read"
      BY <1>8, <2>3 DEF Tick
    <3> QED BY <2>1, <2>2, <3>1 DEF InHand
  <2>4. CASE TurnDown(r, k)
    <3>1. processed' = processed /\ p = "read" /\ entry' = [entry EXCEPT ![r] = readEnd(Filtered(r))]
      BY <1>8, <2>4 DEF TurnDown, Done
    <3>2. Filtered(r) = entry[r]
      BY <1>10 DEF Filtered
    <3>3. entry'[r] = [entry[r] EXCEPT !.taken = FALSE]
      BY <3>1, <3>2 DEF readEnd, TypeInv, ReaderTypes
    <3>4. ~entry'[r].taken
      BY <1>4, <3>3 DEF EntryType
    <3> QED BY <2>2, <3>1, <3>4
  <2>5. CASE FilterThrows(r, k)
    <3>1. entry' = entry /\ processed' = processed /\ p = "dead"
      BY <1>8, <2>5 DEF FilterThrows
    <3> QED BY <2>1, <2>2, <3>1 DEF InHand
  <2>6. CASE Accept(r, k)
    <3>1. /\ processed' = processed /\ p = "parse" /\ task[r][k] = "filter" /\ ~Unwanted(r)
          /\ entry' = [entry EXCEPT ![r] = entry[r]]
      BY <1>8, <1>10, <2>6 DEF Accept, Filtered, At
    <3>2. entry' = entry
      BY <3>1 DEF TypeInv, ReaderTypes
    <3>3. ~Unwanted(r)'
      BY <1>3, <3>1, <3>2 DEF Unwanted
    <3> QED BY <2>1, <3>1, <3>2, <3>3 DEF InHand
  <2>7. ASSUME Process(r, k) \/ ProcessRest(r, k) \/ Ignore(r, k)
        PROVE  ~entry'[r].taken /\ p = "read" /\ task[r][k] = "parse"
    <3>1. Done(r, k, [entry[r] EXCEPT !.taken = TRUE]) /\ task[r][k] = "parse"
      BY <2>7 DEF Process, ProcessRest, Ignore, At
    <3>2. entry'[r] = [entry[r] EXCEPT !.taken = FALSE] /\ Go(r, k, "read")
      BY <1>4, <3>1 DEF Done, readEnd, TypeInv, ReaderTypes, EntryType
    <3> QED BY <1>4, <1>8, <3>1, <3>2 DEF EntryType
  <2>8. CASE Process(r, k)
    <3>1. PICK y : y = entry[r].data
      OBVIOUS
    <3>2. /\ y = entry[r].record /\ y.kind \in {"good", "unwanted"} /\ filter[r] # "null"
          /\ processed' = [processed EXCEPT ![r] = Append(processed[r], y)]
      BY <2>8, <3>1 DEF Process, Unpacked
    <3>3. /\ y.kind = "good" /\ y \in Content
          /\ \A i \in DOMAIN processed[r] : processed[r][i].n < y.n
      BY <2>1, <2>7, <2>8, <3>2 DEF InHand, Unwanted, Content
    <3>4. processed'[r] = Append(processed[r], y)
      BY <3>2 DEF TypeInv, ReaderTypes
    <3>5. /\ Len(processed[r]) \in Nat /\ DOMAIN processed[r] = 1 .. Len(processed[r])
          /\ DOMAIN processed'[r] = 1 .. Len(processed[r]) + 1
          /\ processed'[r][Len(processed[r]) + 1] = y
          /\ \A i \in 1 .. Len(processed[r]) : processed'[r][i] = processed[r][i]
      BY <1>4, <3>3, <3>4
    <3>6. ASSUME NEW i \in DOMAIN processed'[r] PROVE processed'[r][i].kind = "good"
      <4>1. i = Len(processed[r]) + 1 \/ i \in DOMAIN processed[r]
        BY <3>5
      <4> QED BY <2>1, <3>3, <3>5, <4>1 DEF InHand
    <3>7. \A i, j \in DOMAIN processed'[r] : i < j => processed'[r][i].n < processed'[r][j].n
      <4> SUFFICES ASSUME NEW i \in DOMAIN processed'[r], NEW j \in DOMAIN processed'[r], i < j
                   PROVE  processed'[r][i].n < processed'[r][j].n
        OBVIOUS
      <4>1. i \in DOMAIN processed[r] /\ (j = Len(processed[r]) + 1 \/ j \in DOMAIN processed[r])
        BY <3>5
      <4> QED BY <2>1, <3>3, <3>5, <4>1 DEF InHand
    <3> QED BY <1>7, <2>7, <2>8, <3>6, <3>7 DEF InHand
  <2>9. CASE ProcessRest(r, k)
    BY <2>1, <2>7, <2>9 DEF ProcessRest, Unpacked, InHand
  <2>10. CASE Ignore(r, k)
    <3>1. processed' = processed
      BY <2>10 DEF Ignore
    <3> QED BY <2>2, <2>7, <2>10, <3>1
  <2> QED BY <1>5, <2>3, <2>4, <2>5, <2>6, <2>8, <2>9, <2>10 DEF TaskStep
<1> QED BY <1>2, <1>3, <1>6, <1>7, <1>9, <1>10 DEF Stopped, Slot, Starts

(* A task that is one of several stays one.                                 *)
LEMMA TaskOfSeveral ==
  ASSUME TypeInv, NEW r \in Readers, NEW k \in Starts, Several(r), TaskStep(r, k)
  PROVE  Several(r)'
<1>1. TaskEffect(r, k)
  BY TaskStepEffect
<1>2. /\ id' = id /\ live' = live /\ started' = started /\ stops' = stops
  BY <1>1 DEF TaskEffect
<1>3. PICK p \in Places \ {"none"} : Go(r, k, p)
  BY <1>1 DEF TaskEffect
<1>4. \A j \in Starts : task[r][j] # "none" => task'[r][j] # "none"
  BY <1>3 DEF Go, TypeInv, ReaderTypes
<1>5. /\ context'[id[r]].pool = context[id[r]].pool /\ context'[id[r]].reader = context[id[r]].reader
  <2>1. context[id[r]] \in Context /\ id[r] \in Slot
    BY DEF Several, TypeInv, ReaderTypes
  <2>2. CASE context' = context
    BY <2>2
  <2>3. CASE \E m \in Nat : context' = [context EXCEPT ![id[r]].eiter = m]
    <3>1. PICK m \in Nat : context' = [context EXCEPT ![id[r]] = [context[id[r]] EXCEPT !.eiter = m]]
      BY <2>3
    <3>2. context'[id[r]] = [context[id[r]] EXCEPT !.eiter = m]
      BY <2>1, <3>1 DEF TypeInv, ReaderTypes
    <3> QED BY <2>1, <3>2 DEF Context
  <2> QED BY <1>1, <2>2, <2>3 DEF TaskEffect, IteratorStep
<1>6. Own(r)'
  BY <1>2, <1>5 DEF Several, Own
<1>7. ~OneTask(r)'
  BY <1>4 DEF Several, OneTask, Starts
<1> QED BY <1>2, <1>6, <1>7 DEF Several, Slot, Starts

(* The other readers have other contexts, and are left alone by it. *)
LEMMA TaskLeaves ==
  ASSUME TypeInv, NEW r \in Readers, NEW k \in Starts, ~Clash, ReaderExact(r), TaskStep(r, k),
         NEW q \in Readers, q # r, ReaderExact(q)
  PROVE  ReaderExact(q)'
<1> DEFINE c == context[id[r]]
<1>1. TaskEffect(r, k)
  BY TaskStepEffect
<1>2. started[r] > 0 /\ id[r] \in Slot /\ Own(r)
  <2>1. ~Waiting(r)
    BY <1>1 DEF TaskEffect, Waiting
  <2> QED BY <2>1, BusyOwns
<1>3. /\ id' = id /\ filter' = filter /\ live' = live /\ started' = started /\ app' = app /\ stops' = stops
  BY <1>1 DEF TaskEffect
<1>4. task'[q] = task[q] /\ entry'[q] = entry[q] /\ processed'[q] = processed[q]
  BY <1>1 DEF TaskEffect, Go, TypeInv, ReaderTypes
<1>5. segment'[q] = segment[q]
  <2>1. segment' = segment \/ (Commit(c) /\ c.pool \in live)
    BY <1>1 DEF TaskEffect, IteratorStep
  <2>2. Commit(c) /\ c.pool \in live => segment'[q] = segment[q]
    BY <1>2 DEF Own, Commit, TypeInv, ReaderTypes
  <2> QED BY <2>1, <2>2
<1>6. ~Waiting(q) => context'[id[q]] = context[id[q]]
  <2> SUFFICES ASSUME ~Waiting(q) PROVE context'[id[q]] = context[id[q]]
    OBVIOUS
  <2>1. id[q] # id[r] /\ id[q] \in Slot
    <3>1. started[q] > 0 /\ id[q] \in Slot
      BY BusyOwns
    <3> QED BY <1>2, <3>1 DEF Clash
  <2> QED BY <1>1, <2>1 DEF TaskEffect, IteratorStep, TypeInv, ReaderTypes
<1> QED BY <1>3, <1>4, <1>5, <1>6, LeftAlone

(* A reader that starts, or fails to, leaves the others alone.              *)
LEMMA StartLeaves ==
  ASSUME TypeInv, NEW r \in Readers, Start(r) \/ StartFails(r), ~Clash',
         NEW q \in Readers, q # r, ReaderExact(q)
  PROVE  ReaderExact(q)'
<1>1. PICK n : n = started[r] + 1
  OBVIOUS
<1>2. MayStart(r)
  BY DEF Start, StartFails
<1>3. /\ id' = id /\ filter' = filter /\ segment' = segment /\ entry' = entry /\ stops' = stops
      /\ processed' = processed /\ started' = [started EXCEPT ![r] = n]
  BY <1>1, <1>2 DEF MayStart
<1>4. started'[q] = started[q] /\ started'[r] = n /\ started[r] \in Nat
  BY <1>3 DEF TypeInv, ReaderTypes
<1>5. app'[q] = app[q] /\ task'[q] = task[q] /\ live' \in {live, live \cup {<<r, n>>}}
  BY <1>4 DEF Start, StartFails, TypeInv, ReaderTypes
<1>6. ASSUME ~Waiting(q)
      PROVE  /\ context'[id[q]] = context[id[q]]
             /\ context[id[q]].pool \in live' <=> context[id[q]].pool \in live
  <2>1. started[q] > 0 /\ id[q] \in Slot
    BY <1>6, BusyOwns
  <2>2. n > 0 /\ n \in Nat /\ ~(n <= started[r])
    BY <1>1, <1>4
  <2>3. id[q] # id[r]
    BY <1>3, <1>4, <2>1, <2>2 DEF Clash
  <2>4. context'[id[q]] = context[id[q]]
    BY <2>1, <2>3 DEF Start, StartFails, TypeInv, ReaderTypes
  <2>5. context[id[q]].pool # <<r, n>>
    BY <2>1, <2>2 DEF TypeInv, PoolsMade
  <2> QED BY <1>5, <2>4, <2>5
<1> QED BY <1>3, <1>4, <1>5, <1>6, LeftAlone

(* A reader that starts for the first time has a context of its own and one *)
(* task; one that fails to waits on.                                        *)
LEMMA StartWorks ==
  ASSUME TypeInv, NEW r \in Readers, Start(r) \/ StartFails(r), Waiting(r), Numbered(segment[r])
  PROVE  ReaderExact(r)'
<1>1. PICK n : n = started[r] + 1
  OBVIOUS
<1>2. MayStart(r)
  BY DEF Start, StartFails
<1>3. /\ id' = id /\ filter' = filter /\ segment' = segment /\ entry' = entry
      /\ processed' = processed /\ started' = [started EXCEPT ![r] = n]
      /\ app[r] # "started" /\ started[r] < MaxStarts
  BY <1>1, <1>2 DEF MayStart
<1>4. Waiting(r) /\ Numbered(segment[r])'
  BY <1>3 DEF Numbered
<1>5. started'[r] = n /\ n \in Starts
  BY <1>1, <1>3, ReaderAssumption DEF TypeInv, ReaderTypes, Starts
<1>6. CASE StartFails(r)
  <2>1. app'[r] = "failed" /\ task' = task
    BY <1>6 DEF StartFails, TypeInv, ReaderTypes
  <2>2. Waiting(r)'
    BY <1>3, <1>4, <2>1 DEF Waiting, Starts
  <2> QED BY <1>4, <2>2 DEF ReaderExact
<1>7. CASE Start(r)
  <2>1. /\ id[r] < MaxContexts /\ live' = live \cup {<<r, n>>}
        /\ context' = [context EXCEPT ![id[r]] = [pool |-> <<r, n>>, reader |-> r, eiter |-> 0]]
        /\ task' = [task EXCEPT ![r][n] = "idle"] /\ app' = [app EXCEPT ![r] = "started"]
    BY <1>5, <1>7 DEF Start
  <2>2. id[r] \in Slot
    <3>1. id[r] \in Nat /\ MaxContexts \in Nat
      BY ReaderAssumption DEF TypeInv, ReaderTypes
    <3> QED BY <2>1, <3>1 DEF Slot
  <2>3. context'[id[r]].pool = <<r, n>> /\ context'[id[r]].reader = r /\ app'[r] = "started"
    BY <2>1, <2>2 DEF TypeInv, ReaderTypes
  <2>4. task'[r][n] = "idle" /\ \A k \in Starts : k # n => task'[r][k] = "none"
    BY <1>4, <1>5, <2>1 DEF Waiting, TypeInv, ReaderTypes
  <2>5. Place(r)' = "idle"
    BY <1>5, <2>4 DEF Place
  <2>6. processed'[r] = <<>> /\ ~entry'[r].taken
    BY <1>3, <1>4 DEF Waiting
  <2>7. Stream(r)'
    BY <2>5, <2>6 DEF Stream
  <2>8. Working(r)'
    BY <1>3, <1>5, <2>1, <2>2, <2>3, <2>4, <2>5, <2>7 DEF Working, Slot, Starts
  <2> QED BY <1>4, <2>8 DEF ReaderExact
<1> QED BY <1>6, <1>7

(* One that was stopped has two tasks then, or one whose pool is gone.      *)
LEMMA StartAgain ==
  ASSUME TypeInv, NEW r \in Readers, Start(r) \/ StartFails(r), Stopped(r) \/ Several(r)
  PROVE  ReaderExact(r)'
<1>1. PICK n : n = started[r] + 1
  OBVIOUS
<1>2. MayStart(r)
  BY DEF Start, StartFails
<1>3. /\ id' = id /\ filter' = filter /\ segment' = segment /\ entry' = entry /\ stops' = stops
      /\ processed' = processed /\ started' = [started EXCEPT ![r] = n]
      /\ app[r] # "started" /\ started[r] < MaxStarts
  BY <1>1, <1>2 DEF MayStart
<1>4. /\ started'[r] = n /\ n \in Starts /\ n \in Nat /\ started[r] \in Nat
      /\ ~(n <= started[r]) /\ \A k \in Starts : k <= started[r] => k <= n /\ k # n
  BY <1>1, <1>3, ReaderAssumption DEF TypeInv, ReaderTypes, Starts
<1>5. id[r] \in Slot /\ context[id[r]].pool # <<r, n>> /\ stops /\ started[r] \in Starts
  <2>1. id[r] \in Slot /\ stops /\ started[r] \in Starts
    BY DEF Stopped, Several
  <2> QED BY <1>4, <2>1 DEF TypeInv, PoolsMade
<1>6. CASE StartFails(r)
  <2>1. /\ app'[r] = "failed" /\ task' = task /\ context' = context
        /\ live' \in {live, live \cup {<<r, n>>}}
    BY <1>4, <1>6 DEF StartFails, TypeInv, ReaderTypes
  <2>2. context[id[r]].pool \in live' <=> context[id[r]].pool \in live
    BY <1>5, <2>1
  <2>3. CASE Stopped(r)
    <3>1. \A k : InHand(r, k) => InHand(r, k)'
      BY <1>3, <2>1 DEF InHand, Unwanted
    <3>2. PICK k \in Starts : /\ k <= started[r] /\ task[r][k] # "none"
                              /\ \A j \in Starts : j # k => task[r][j] = "none"
                              /\ filter[r] # "reads" => InHand(r, k)
      BY <2>3 DEF Stopped
    <3>3. /\ k <= started'[r] /\ task'[r][k] # "none" /\ \A j \in Starts : j # k => task'[r][j] = "none"
          /\ filter'[r] # "reads" => InHand(r, k)'
      BY <1>3, <1>4, <2>1, <3>1, <3>2
    <3>4. Stopped(r)'
      BY <1>3, <1>4, <1>5, <2>1, <2>2, <2>3, <3>3 DEF Stopped, Slot, Starts
    <3> QED BY <3>4 DEF ReaderExact
  <2>4. CASE Several(r)
    <3>1. Several(r)'
      BY <1>3, <1>4, <1>5, <2>1, <2>2, <2>4 DEF Several, Own, OneTask, Slot, Starts
    <3> QED BY <3>1 DEF ReaderExact
  <2> QED BY <2>3, <2>4
<1>7. CASE Start(r)
  <2>1. /\ context' = [context EXCEPT ![id[r]] = [pool |-> <<r, n>>, reader |-> r, eiter |-> 0]]
        /\ task' = [task EXCEPT ![r][n] = "idle"]
    BY <1>4, <1>7 DEF Start
  <2>2. context'[id[r]].pool = <<r, n>> /\ context'[id[r]].reader = r
    BY <1>5, <2>1 DEF TypeInv, ReaderTypes
  <2>3. task'[r][n] = "idle" /\ \A k \in Starts : k # n => task'[r][k] = task[r][k]
    BY <1>4, <2>1 DEF TypeInv, ReaderTypes
  <2>4. Own(r)'
    BY <1>3, <1>4, <2>2 DEF Own
  <2>5. ~OneTask(r)'
    <3>1. CASE Stopped(r)
      <4>1. PICK k \in Starts : k <= started[r] /\ task[r][k] # "none"
        BY <3>1 DEF Stopped
      <4>2. k # n /\ task'[r][k] # "none" /\ task'[r][n] # "none"
        BY <1>4, <2>3, <4>1
      <4> QED BY <1>4, <4>2 DEF OneTask, Starts
    <3>2. CASE Several(r)
      <4>1. \A k \in Starts : task[r][k] # "none" => task'[r][k] # "none"
        BY <2>3
      <4> QED BY <3>2, <4>1 DEF Several, OneTask, Starts
    <3> QED BY <3>1, <3>2
  <2>6. Several(r)'
    BY <1>3, <1>4, <1>5, <2>4, <2>5 DEF Several, Slot, Starts
  <2> QED BY <2>6 DEF ReaderExact
<1> QED BY <1>6, <1>7

(* A reader that is stopped keeps its task, and the record it has.          *)
LEMMA StopStops ==
  ASSUME TypeInv, NEW r \in Readers, Stop(r), ReaderExact(r)
  PROVE  ReaderExact(r)'
<1>1. /\ app[r] = "started" /\ app' = [app EXCEPT ![r] = "stopped"] /\ stops'
      /\ live' = live \ {context[id[r]].pool}
      /\ id' = id /\ filter' = filter /\ context' = context /\ started' = started
      /\ task' = task /\ entry' = entry /\ processed' = processed
  BY DEF Stop
<1>2. app'[r] = "stopped" /\ context'[id[r]].pool \notin live'
  BY <1>1 DEF TypeInv, ReaderTypes
<1>3. CASE Working(r)
  <2>1. /\ started[r] \in Starts /\ id[r] \in Slot /\ task[r][started[r]] # "none"
        /\ \A k \in Starts : k # started[r] => task[r][k] = "none"
        /\ filter[r] # "reads" => Stream(r)
    BY <1>3 DEF Working, Place
  <2>2. Stream(r) => InHand(r, started[r])
    BY DEF Stream, InHand, Place
  <2>3. InHand(r, started[r]) => InHand(r, started[r])'
    BY <1>1 DEF InHand, Unwanted
  <2>4. started[r] <= started[r]
    BY <2>1 DEF Starts
  <2>5. PICK k \in Starts : k = started[r]
    BY <2>1
  <2>6. /\ k <= started'[r] /\ task'[r][k] # "none" /\ \A j \in Starts : j # k => task'[r][j] = "none"
        /\ filter'[r] # "reads" => InHand(r, k)'
    <3>1. InHand(r, started[r])' => InHand(r, k)'
      BY <1>1, <2>5 DEF InHand
    <3> QED BY <1>1, <2>1, <2>2, <2>3, <2>4, <2>5, <3>1
  <2>7. Stopped(r)'
    BY <1>1, <1>2, <2>1, <2>6 DEF Stopped, Slot, Starts
  <2> QED BY <2>7 DEF ReaderExact
<1>4. CASE Several(r)
  <2>1. Several(r)'
    BY <1>1, <1>2, <1>4 DEF Several, Own, OneTask, Slot, Starts
  <2> QED BY <2>1 DEF ReaderExact
<1> QED BY <1>1, <1>3, <1>4 DEF ReaderExact, Waiting, Stopped

(* The other readers keep their pools and their entries.                    *)
LEMMA StopLeaves ==
  ASSUME TypeInv, NEW r \in Readers, Stop(r), ~Clash, ReaderExact(r),
         NEW q \in Readers, q # r, ReaderExact(q)
  PROVE  ReaderExact(q)'
<1> DEFINE c == context[id[r]]
<1>1. /\ app[r] = "started" /\ app' = [app EXCEPT ![r] = "stopped"] /\ stops'
      /\ live' = live \ {c.pool}
      /\ id' = id /\ filter' = filter /\ context' = context /\ started' = started
      /\ task' = task /\ entry' = entry /\ processed' = processed
      /\ segment' = segment \/ (c.pool \in live /\ Commit(c))
  BY DEF Stop
<1>2. ~Waiting(r)
  BY <1>1 DEF Waiting
<1>3. Own(r)
  BY <1>2, BusyOwns
<1>4. app'[q] = app[q]
  BY <1>1 DEF TypeInv, ReaderTypes
<1>5. segment'[q] = segment[q]
  <2>1. c.pool \in live /\ Commit(c) => segment'[q] = segment[q]
    BY <1>3 DEF Own, Commit, TypeInv, ReaderTypes
  <2> QED BY <1>1, <2>1
<1>6. ASSUME ~Waiting(q)
      PROVE  context[id[q]].pool \in live' <=> context[id[q]].pool \in live
  <2>1. Own(q)
    BY <1>6, BusyOwns
  <2>2. context[id[q]].pool \in live => context[id[q]].pool # c.pool
    BY <1>3, <2>1 DEF Own
  <2> QED BY <1>1, <2>2
<1> QED BY <1>1, <1>4, <1>5, <1>6, LeftAlone

(* Every step keeps the invariant.                                          *)
LEMMA ReaderStep == TypeInv /\ ReaderInv /\ [Next]_vars => ReaderInv'
<1> SUFFICES ASSUME TypeInv, ReaderInv, [Next]_vars, ~Clash'
             PROVE  /\ ~stops' => ~broken'
                    /\ ~broken' => \A q \in Readers : ReaderExact(q)'
  BY DEF ReaderInv
<1>1. CASE UNCHANGED vars
  <2>1. ~Clash /\ broken' = broken /\ stops' = stops
    BY <1>1 DEF Clash, vars
  <2>2. ASSUME ~broken PROVE \A q \in Readers : ReaderExact(q)'
    <3>1. \A q \in Readers : ReaderExact(q)
      BY <2>1, <2>2 DEF ReaderInv
    <3> QED BY <1>1, <3>1, LeftAlone DEF vars
  <2> QED BY <2>1, <2>2 DEF ReaderInv
<1>2. ASSUME NEW r \in Readers, Start(r) \/ StartFails(r)
      PROVE  ~broken' /\ \A q \in Readers : ReaderExact(q)'
  <2>1. MayStart(r)
    BY <1>2 DEF Start, StartFails
  <2>2. /\ id' = id /\ broken' = broken /\ ~broken
        /\ started' = [started EXCEPT ![r] = started[r] + 1]
    BY <2>1 DEF MayStart
  <2>3. \A q \in Readers : started[q] \in Nat /\ (started[q] > 0 => started'[q] > 0)
    BY <2>2 DEF TypeInv, ReaderTypes
  <2>4. ~Clash
    BY <2>2, <2>3 DEF Clash
  <2>5. \A q \in Readers : ReaderExact(q)
    BY <2>2, <2>4 DEF ReaderInv
  <2>6. ReaderExact(r)'
    <3>1. ~Working(r)
      BY <2>1 DEF MayStart, Working
    <3> QED BY <1>2, <2>5, <3>1, StartWorks, StartAgain DEF ReaderExact
  <2> QED BY <1>2, <2>2, <2>5, <2>6, StartLeaves
<1>3. ASSUME NEW r \in Readers, Stop(r)
      PROVE  stops' /\ \A q \in Readers : ReaderExact(q)'
  <2>1. id' = id /\ started' = started /\ ~broken /\ stops'
    BY <1>3 DEF Stop
  <2>2. ~Clash
    BY <2>1 DEF Clash
  <2>3. \A q \in Readers : ReaderExact(q)
    BY <2>1, <2>2 DEF ReaderInv
  <2> QED BY <1>3, <2>1, <2>2, <2>3, StopStops, StopLeaves
<1>4. ASSUME NEW r \in Readers, NEW k \in Starts, TaskStep(r, k)
      PROVE  /\ ~stops' => ~broken'
             /\ ~broken' => \A q \in Readers : ReaderExact(q)'
  <2>1. TaskEffect(r, k)
    BY <1>4, TaskStepEffect
  <2>2. id' = id /\ stops' = stops /\ started' = started /\ ~Waiting(r)
    BY <2>1 DEF TaskEffect, Waiting
  <2>3. ~Clash /\ ~broken
    <3>1. ~broken
      BY <1>4 DEF TaskStep, Tick, Prepare, Next_record, Next_none, Next_freed, TurnDown, FilterThrows,
         Accept, Process, ProcessRest, Ignore, At
    <3> QED BY <2>2, <3>1 DEF Clash
  <2>4. \A q \in Readers : ReaderExact(q)
    BY <2>3 DEF ReaderInv
  <2>5. ASSUME ~broken' PROVE ReaderExact(r)'
    <3>1. CASE Working(r) /\ Numbered(segment[r])
      BY <1>4, <2>3, <3>1, TaskWorks
    <3>2. CASE Stopped(r)
      BY <1>4, <2>5, <3>2, TaskStops DEF ReaderExact
    <3>3. CASE Several(r)
      BY <1>4, <3>3, TaskOfSeveral DEF ReaderExact
    <3> QED BY <2>2, <2>4, <3>1, <3>2, <3>3 DEF ReaderExact
  <2>6. ASSUME NEW q \in Readers, q # r PROVE ReaderExact(q)'
    BY <1>4, <2>3, <2>4, <2>6, TaskLeaves
  <2>7. ~stops => ~broken'
    <3>1. ~stops => Working(r) /\ Numbered(segment[r])
      BY <2>2, <2>4 DEF ReaderExact, Stopped, Several
    <3> QED BY <1>4, <2>3, <3>1, TaskWorks
  <2> QED BY <2>2, <2>5, <2>6, <2>7
<1>5. CASE broken /\ UNCHANGED vars
  BY <1>1, <1>5
<1> QED BY <1>1, <1>2, <1>3, <1>4, <1>5 DEF Next

(* Unless two readers have one id, no pool is used that does not exist      *)
(* before one is stopped; and until it is, a reader with one task processes *)
(* good records, each once and in order, whenever it is stopped.            *)
THEOREM ProcessedExactAlways == Spec => []ProcessedExact
<1>1. ReaderInv => ProcessedExact
  <2> SUFFICES ASSUME ReaderInv, ~Clash
               PROVE  /\ ~stops => ~broken
                      /\ ~broken => \A r \in Readers : filter[r] # "reads" /\ OneTask(r) =>
                           /\ \A i \in DOMAIN processed[r] : processed[r][i].kind = "good"
                           /\ \A i, j \in DOMAIN processed[r] :
                                i < j => processed[r][i].n < processed[r][j].n
    BY DEF ProcessedExact
  <2>1. ~stops => ~broken
    BY DEF ReaderInv
  <2>2. ASSUME ~broken, NEW r \in Readers, filter[r] # "reads", OneTask(r)
        PROVE  /\ \A i \in DOMAIN processed[r] : processed[r][i].kind = "good"
               /\ \A i, j \in DOMAIN processed[r] : i < j => processed[r][i].n < processed[r][j].n
    <3>1. CASE Waiting(r)
      BY <3>1 DEF Waiting
    <3>2. CASE Working(r)
      BY <2>2, <3>2 DEF Working, Stream
    <3>3. CASE Stopped(r)
      BY <2>2, <3>3 DEF Stopped, InHand
    <3> QED BY <2>2, <3>1, <3>2, <3>3 DEF ReaderInv, ReaderExact, Several
  <2> QED BY <2>1, <2>2
<1> QED BY <1>1, InitTypes, InitReaders, TypeStep, ReaderStep, PTL DEF Spec
=============================================================================
