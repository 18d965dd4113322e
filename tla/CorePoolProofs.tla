--------------------------- MODULE CorePoolProofs ---------------------------
(***************************************************************************)
(* Proofs about CorePool, for every number of cores and tasks and every    *)
(* set of core masks.                                                      *)
(***************************************************************************)
EXTENDS CorePool, WellFoundedInduction, TLAPS

(* A set of naturals that is not empty has a least element. *)
LEMMA LeastExists ==
  ASSUME NEW S, S \subseteq Nat, S # {}
  PROVE  Least(S) \in S /\ \A d \in S : Least(S) <= d
<1> DEFINE R == OpToRel(<, Nat)
<1>1. R = {ss \in Nat \X Nat : ss[1] < ss[2]}
  BY DEF OpToRel
<1>2. IsWellFoundedOn(R, Nat)
  BY NatLessThanWellFounded
<1> HIDE DEF R
<1>3. \E x \in S : \A y \in S : <<y, x>> \notin R
  BY <1>2, WFMin
<1>4. PICK x \in S : \A y \in S : <<y, x>> \notin R
  BY <1>3
<1>5. ASSUME NEW y \in S PROVE x <= y
  <2>1. x \in Nat /\ y \in Nat
    OBVIOUS
  <2>2. ~ (y < x)
    BY <1>1, <1>4, <2>1
  <2>3. QED
    BY <2>1, <2>2
<1>6. QED
  BY <1>5 DEF Least

(* What a step of CPOOL_CORE_FOREACH_SLAVE finds: the next slave core up. *)
IsNext(idx, n) ==
  \/ n = None /\ \A c \in Slaves : c <= idx
  \/ n \in Slaves /\ n > idx /\ \A c \in Slaves : c > idx => c >= n

(* What xm_next_core_get returns: the slave that follows, or none is left. *)
LEMMA NextCore ==
  ASSUME PoolAssumption, enabled \subseteq Core, NEW idx \in Int
  PROVE  IsNext(idx, xm_next_core_get(idx)) /\ xm_next_core_get(idx) \in Core \cup {None}
<1> DEFINE later == { c \in Slaves : c > idx }
<1>1. Slaves \subseteq Nat /\ Slaves \subseteq Core /\ None \in Nat
  <2>1. Core \subseteq Nat /\ None \in Nat
    BY DEF Core, PoolAssumption, None
  <2>2. Slaves \subseteq Core
    BY DEF Slaves
  <2>3. QED
    BY <2>1, <2>2
<1>2. CASE later = {}
  <2>1. xm_next_core_get(idx) = None
    BY <1>2 DEF xm_next_core_get
  <2>2. \A c \in Slaves : c <= idx
    BY <1>1, <1>2
  <2>3. QED
    BY <2>1, <2>2 DEF IsNext
<1>3. CASE later # {}
  <2>1. xm_next_core_get(idx) = Least(later)
    BY <1>3 DEF xm_next_core_get
  <2>2. Least(later) \in later /\ \A d \in later : Least(later) <= d
    BY <1>1, <1>3, LeastExists
  <2>3. QED
    BY <1>1, <2>1, <2>2 DEF IsNext
<1>4. QED
  BY <1>2, <1>3

-----------------------------------------------------------------------------
(* The initial state satisfies the inductive invariant. *)
LEMMA InitInv == PoolAssumption /\ Init => TypeOK /\ PoolInv
  BY DEF PoolAssumption, Init, TypeOK, PoolInv, BoundOnce, Untouched, TaskStatus, Core, Task, None,
         MasterPC, SlavePC, Slaves

(* A step of a slave thread. *)
LEMMA SlaveInv ==
  ASSUME PoolAssumption, TypeOK, PoolInv, NEW c \in Core, SlaveStep(c)
  PROVE  TypeOK' /\ PoolInv'
<1> USE DEF TypeOK, SlavePC, MasterPC
<1>1. /\ c \in Slaves /\ Stage(c) /\ mpc \notin {"create", "failed", "done"}
      /\ UNCHANGED <<enabled, mpc, cur, bound, tsk>>
      /\ Slaves' = Slaves
  BY DEF SlaveStep, ReadCommand, SetRunning, SendAck, NoTask, RunTask, TaskReturns, SetFinished,
         Alive, PoolInv, Slaves, master_core
<1>2. c \in Int /\ cur \in Int /\ tsk[c] \in 0 .. Tasks /\ (tsk[c] # 0 => tsk[c] \in Task)
  BY DEF Core, None, PoolAssumption, Task
<1>3. ASSUME NEW d \in Slaves, d # c, tsk[d] # 0, tsk[c] # 0 PROVE tsk[d] # tsk[c]
  BY <1>1, <1>3 DEF PoolInv, BoundOnce, Slaves
<1>4. TypeOK' /\ Stage(c)'
  <2>1. CASE ReadCommand(c)
    BY <1>1, <1>2, <2>1 DEF ReadCommand, Stage, Acked, Working, Commanded, Untouched, Waited, TaskStatus
  <2>2. CASE SetRunning(c)
    BY <1>1, <1>2, <2>2 DEF SetRunning, Stage, Acked, Working, Commanded, Untouched, Waited, TaskStatus
  <2>3. CASE SendAck(c)
    BY <1>1, <1>2, <2>3 DEF SendAck, Stage, Acked, Working, Commanded, Untouched, Waited, TaskStatus
  <2>4. CASE NoTask(c)
    BY <1>1, <1>2, <2>4 DEF NoTask, Stage, Acked, Working, Commanded, Untouched, Waited, TaskStatus
  <2>5. CASE RunTask(c)
    BY <1>1, <1>2, <2>5 DEF RunTask, Stage, Acked, Working, Commanded, Untouched, Waited, TaskStatus
  <2>6. CASE TaskReturns(c)
    BY <1>1, <1>2, <2>6 DEF TaskReturns, Stage, Acked, Working, Commanded, Untouched, Waited, TaskStatus
  <2>7. CASE SetFinished(c)
    BY <1>1, <1>2, <2>7 DEF SetFinished, Stage, Acked, Working, Commanded, Untouched, Waited, TaskStatus
  <2>8. QED
    BY <2>1, <2>2, <2>3, <2>4, <2>5, <2>6, <2>7 DEF SlaveStep
<1>5. ASSUME NEW d \in Slaves, d # c PROVE Stage(d)'
  <2>1. /\ UNCHANGED <<state[d], m2s[d], s2m[d], spc[d], tsk[d]>>
        /\ tsk[d] # 0 => status'[tsk[d]] = status[tsk[d]]
    BY <1>1, <1>2, <1>3, <1>5 DEF SlaveStep, ReadCommand, SetRunning, SendAck, NoTask, RunTask,
       TaskReturns, SetFinished, Core, Task, Slaves
  <2>2. Stage(d)
    BY <1>1 DEF PoolInv
  <2>3. QED
    BY <1>1, <2>1, <2>2 DEF Stage, Acked, Working, Commanded, Untouched, Waited, TaskStatus
<1>6. BoundOnce'
  <2>1. \A t \in Task : t > bound => status'[t] = status[t]
    BY <1>1, <1>2 DEF SlaveStep, ReadCommand, SetRunning, SendAck, NoTask, RunTask,
       TaskReturns, SetFinished, PoolInv, BoundOnce, Task
  <2>2. QED
    BY <1>1, <2>1 DEF PoolInv, BoundOnce
<1>7. QED
  BY <1>1, <1>4, <1>5, <1>6 DEF PoolInv

(* A step of the master thread. *)
LEMMA MasterInv ==
  ASSUME PoolAssumption, TypeOK, PoolInv, MasterStep
  PROVE  TypeOK' /\ PoolInv'
<1> USE DEF TypeOK, SlavePC, MasterPC
<1>1. Slaves \subseteq Core /\ Slaves \subseteq Nat /\ cur \in Nat /\ None \in Nat
  <2>1. Core \subseteq Nat /\ None \in Nat
    BY DEF Core, PoolAssumption, None
  <2>2. QED
    BY <2>1 DEF Slaves
<1>2. \A t \in Task : t <= bound \/ t > bound
  BY PoolAssumption DEF Task, PoolAssumption
<1>3. mpc = "bind" => \A t \in Task : status[t] = "idle"
  <2> SUFFICES ASSUME mpc = "bind", NEW t \in Task PROVE status[t] = "idle"
    OBVIOUS
  <2>1. CASE t > bound
    BY <2>1 DEF PoolInv, BoundOnce
  <2>2. CASE t <= bound
    <3>1. PICK c \in Slaves : tsk[c] = t
      BY <2>2 DEF PoolInv, BoundOnce, Task, PoolAssumption
    <3>2. Untouched(c)
      BY <3>1 DEF PoolInv, Stage
    <3>3. QED
      BY <3>1, <3>2 DEF Untouched, TaskStatus, Task, PoolAssumption
  <2>3. QED
    BY <1>2, <2>1, <2>2
<1>4. CASE Create
  <2>1. mpc = "create" /\ bound = 0 /\ UNCHANGED <<cur, bound, slaves>>
    BY <1>4 DEF Create, PoolInv
  <2>2. \A c \in Core : tsk[c] = 0
    BY <2>1 DEF PoolInv, BoundOnce
  <2>3. PICK m \in Masks : IF MaskAccepted(m)
                            THEN enabled' = _parse_coremask(m) /\ mpc' = "bind"
                            ELSE enabled' = {} /\ mpc' = "failed"
    BY <1>4 DEF Create
  <2>4. enabled' \subseteq Core /\ mpc' \in {"bind", "failed"} /\ (mpc' = "bind" => enabled' # {})
    BY <2>3 DEF _parse_coremask, MaskAccepted
  <2>5. Slaves' \subseteq Core
    BY <2>4 DEF Slaves
  <2>6. TypeOK'
    BY <2>1, <2>4 DEF slaves
  <2>7. BoundOnce'
    BY <2>1, <2>2 DEF slaves, PoolInv, BoundOnce
  <2>8. ASSUME NEW c \in Slaves', mpc' = "bind" PROVE Stage(c)'
    BY <2>1, <2>5, <2>8 DEF Stage, slaves, PoolInv, Untouched, TaskStatus
  <2>9. QED
    BY <2>1, <2>4, <2>6, <2>7, <2>8 DEF PoolInv, slaves
<1>5. CASE BindTask
  <2>1. /\ mpc = "bind" /\ bound < Tasks
        /\ UNCHANGED <<enabled, cur, state, m2s, s2m, spc, status>> /\ Slaves' = Slaves
    BY <1>5 DEF BindTask, Slaves, master_core
  <2>2. CASE _alloc_core = {}
    <3>1. mpc' = "failed" /\ UNCHANGED <<bound, tsk>>
      BY <1>5, <2>2 DEF BindTask
    <3>2. QED
      BY <1>3, <2>1, <3>1 DEF PoolInv, BoundOnce
  <2>3. CASE _alloc_core # {}
    <3> DEFINE n == Least(_alloc_core)
    <3>1. _alloc_core \subseteq Nat
      BY <1>1 DEF _alloc_core
    <3>2. n \in Slaves /\ tsk[n] = 0
      BY <2>3, <3>1, LeastExists DEF _alloc_core
    <3>3. UNCHANGED mpc /\ bound' = bound + 1 /\ tsk' = [tsk EXCEPT ![n] = bound + 1]
      BY <1>5, <2>3 DEF BindTask
    <3> HIDE DEF n
    <3>4. TypeOK'
      BY <1>1, <2>1, <3>2, <3>3 DEF PoolAssumption
    <3>5. BoundOnce'
      <4>1. \A c \in Core : tsk[c] # bound + 1 /\ tsk[c] \in Int
        BY <2>1 DEF PoolInv, BoundOnce, PoolAssumption
      <4>2. ASSUME NEW t \in 1 .. bound' PROVE \E c \in Slaves' : tsk'[c] = t
        <5>1. CASE t = bound + 1
          BY <1>1, <2>1, <3>2, <3>3, <5>1
        <5>2. CASE t # bound + 1
          <6>1. t \in 1 .. bound
            BY <2>1, <3>3, <5>2 DEF PoolAssumption
          <6>2. PICK c \in Slaves : tsk[c] = t
            BY <6>1 DEF PoolInv, BoundOnce
          <6>3. tsk'[c] = t
            BY <1>1, <3>2, <3>3, <6>1, <6>2
          <6>4. QED
            BY <2>1, <6>3
        <5>3. QED
          BY <5>1, <5>2
      <4>3. \A c \in Core : tsk'[c] # 0 => c \in Slaves' /\ tsk'[c] <= bound'
        BY <2>1, <3>2, <3>3, <4>1 DEF PoolInv, BoundOnce
      <4>4. \A c, d \in Core : tsk'[c] = tsk'[d] /\ tsk'[c] # 0 => c = d
        BY <2>1, <3>2, <3>3, <4>1 DEF PoolInv, BoundOnce
      <4>5. \A t \in Task : t > bound' => status'[t] = "idle"
        BY <1>3, <2>1
      <4>6. QED
        BY <4>2, <4>3, <4>4, <4>5 DEF BoundOnce
    <3>6. ASSUME NEW c \in Slaves PROVE Untouched(c)'
      <4>1. Untouched(c)
        BY <2>1 DEF PoolInv, Stage
      <4>2. tsk'[c] # 0 => tsk'[c] \in Task
        BY <1>1, <3>4 DEF Task
      <4>3. QED
        BY <1>3, <2>1, <4>1, <4>2 DEF Untouched, TaskStatus
    <3>7. \A c \in Slaves' : Stage(c)'
      BY <2>1, <3>3, <3>6 DEF Stage
    <3>8. QED
      BY <2>1, <3>3, <3>4, <3>5, <3>7 DEF PoolInv
  <2>4. QED
    BY <2>2, <2>3
<1>6. CASE WorkCreated
  <2>1. \A c \in Slaves : Stage(c)'
    BY <1>6 DEF WorkCreated, PoolInv, Stage, slaves, Untouched, TaskStatus
  <2>2. QED
    BY <1>6, <2>1 DEF WorkCreated, PoolInv, slaves, BoundOnce, Slaves, master_core
<1>7. CASE Setup
  <2>1. \A c \in Slaves : Untouched(c)
    BY <1>7 DEF Setup, PoolInv, Stage
  <2>2. /\ mpc = "setup" /\ mpc' = "launch" /\ cur' = xm_next_core_get(-1)
        /\ UNCHANGED <<enabled, bound, slaves>> /\ Slaves' = Slaves
    BY <1>7, <2>1 DEF Setup, Untouched, Slaves, master_core
  <2>3. IsNext(-1, cur') /\ cur' \in Core \cup {None}
    BY <2>2, NextCore
  <2>4. ASSUME NEW c \in Slaves PROVE ~ (c < cur') /\ Untouched(c)'
    BY <1>1, <2>1, <2>2, <2>3 DEF IsNext, Untouched, TaskStatus, slaves
  <2>5. \A c \in Slaves : Stage(c)'
    BY <2>2, <2>4 DEF Stage
  <2>6. BoundOnce'
    BY <2>2 DEF PoolInv, BoundOnce, slaves
  <2>7. QED
    BY <2>2, <2>3, <2>5, <2>6 DEF PoolInv, slaves, IsNext
<1>8. CASE Launch
  <2>1. mpc = "launch" /\ cur \in Core /\ cur # None
    BY <1>8 DEF Launch
  <2>2. cur \in Slaves
    BY <1>8 DEF Launch, PoolInv
  <2>3. Untouched(cur)
    BY <1>1, <2>1, <2>2 DEF PoolInv, Stage
  <2>4. /\ mpc' = "ack" /\ m2s' = [m2s EXCEPT ![cur] = @ + 1]
        /\ UNCHANGED <<enabled, cur, bound, tsk, state, s2m, spc, status>> /\ Slaves' = Slaves
    BY <1>8, <2>3 DEF Launch, Untouched, Slaves, master_core
  <2>5. TypeOK' /\ Commanded(cur)'
    BY <2>1, <2>3, <2>4 DEF Untouched, Commanded, TaskStatus
  <2>6. ASSUME NEW c \in Slaves PROVE Stage(c)'
    <3>1. Stage(c)
      BY <2>1 DEF PoolInv
    <3>2. CASE c = cur
      BY <1>1, <2>4, <2>5, <3>2 DEF Stage
    <3>3. CASE c # cur
      <4>1. UNCHANGED <<state[c], m2s[c], s2m[c], spc[c], tsk[c], status>>
        BY <1>1, <2>1, <2>4, <3>3
      <4>2. QED
        BY <1>1, <2>1, <2>4, <3>1, <3>3, <4>1 DEF Stage, Acked, Working, Untouched, TaskStatus
    <3>4. QED
      BY <3>2, <3>3
  <2>7. BoundOnce'
    BY <2>4 DEF PoolInv, BoundOnce
  <2>8. QED
    BY <2>1, <2>2, <2>4, <2>5, <2>6, <2>7 DEF PoolInv
<1>9. CASE Acknowledged
  <2>1. /\ mpc = "ack" /\ mpc' = "launch" /\ s2m[cur] > 0 /\ s2m' = [s2m EXCEPT ![cur] = @ - 1]
        /\ cur' = xm_next_core_get(cur) /\ cur \in Slaves
        /\ UNCHANGED <<enabled, bound, tsk, state, m2s, spc, status>> /\ Slaves' = Slaves
    BY <1>9 DEF Acknowledged, PoolInv, Slaves, master_core
  <2>2. IsNext(cur, cur') /\ cur' \in Core \cup {None}
    BY <1>1, <2>1, NextCore
  <2>3. Commanded(cur)
    BY <1>1, <2>1 DEF PoolInv, Stage
  <2>4. TypeOK'
    BY <1>1, <2>1, <2>2, <2>3 DEF Commanded
  <2>5. ASSUME NEW c \in Slaves PROVE Stage(c)'
    <3>1. Stage(c)
      BY <2>1 DEF PoolInv
    <3>2. c < cur' <=> c <= cur
      BY <1>1, <2>1, <2>2, <2>5 DEF IsNext, None, PoolAssumption, Core
    <3>3. CASE c = cur
      <4>1. Acked(c)'
        BY <1>1, <2>1, <2>3, <3>3 DEF Commanded, Acked, Working, TaskStatus
      <4>2. c < cur'
        BY <1>1, <3>2, <3>3
      <4>3. QED
        BY <2>1, <4>1, <4>2 DEF Stage
    <3>4. CASE c # cur
      <4>1. UNCHANGED <<state[c], m2s[c], s2m[c], spc[c], tsk[c], status>>
        BY <1>1, <2>1, <3>4
      <4>2. QED
        BY <1>1, <2>1, <3>1, <3>2, <3>4, <4>1 DEF Stage, Acked, Working, Untouched, TaskStatus
    <3>5. QED
      BY <3>3, <3>4
  <2>6. BoundOnce'
    BY <2>1 DEF PoolInv, BoundOnce
  <2>7. QED
    BY <2>1, <2>2, <2>4, <2>5, <2>6 DEF PoolInv, IsNext
<1>10. CASE AllLaunched
  <2>1. /\ mpc = "launch" /\ cur = None /\ mpc' = "wait" /\ cur' = xm_next_core_get(-1)
        /\ UNCHANGED <<enabled, bound, slaves>> /\ Slaves' = Slaves
    BY <1>10 DEF AllLaunched, Slaves, master_core
  <2>2. IsNext(-1, cur') /\ cur' \in Core \cup {None}
    BY <2>1, NextCore
  <2>3. ASSUME NEW c \in Slaves PROVE Stage(c)'
    <3>1. c < cur /\ ~ (c < cur')
      BY <1>1, <2>1, <2>2 DEF IsNext, None, Core, PoolAssumption
    <3>2. Acked(c)
      BY <2>1, <3>1 DEF PoolInv, Stage
    <3>3. QED
      BY <2>1, <3>1, <3>2 DEF Stage, Acked, Working, TaskStatus, slaves
  <2>4. BoundOnce'
    BY <2>1 DEF PoolInv, BoundOnce, slaves
  <2>5. QED
    BY <2>1, <2>2, <2>3, <2>4 DEF PoolInv, slaves, IsNext
<1>11. CASE _wait_core
  <2>1. /\ mpc = "wait" /\ cur \in Slaves /\ state[cur] \in {"WAITING", "FINISHED"}
        /\ state' = [state EXCEPT ![cur] = "WAITING"] /\ cur' = xm_next_core_get(cur)
        /\ UNCHANGED <<enabled, mpc, bound, tsk, m2s, s2m, spc, status>> /\ Slaves' = Slaves
    BY <1>11 DEF _wait_core, PoolInv, Slaves, master_core
  <2>2. IsNext(cur, cur') /\ cur' \in Core \cup {None}
    BY <1>1, <2>1, NextCore
  <2>3. Acked(cur)
    BY <1>1, <2>1 DEF PoolInv, Stage
  <2>4. TypeOK'
    BY <1>1, <2>1, <2>2, <2>3
  <2>5. ASSUME NEW c \in Slaves PROVE Stage(c)'
    <3>1. Stage(c)
      BY <2>1 DEF PoolInv
    <3>2. c < cur' <=> c <= cur
      BY <1>1, <2>1, <2>2, <2>5 DEF IsNext, None, PoolAssumption, Core
    <3>3. CASE c = cur
      <4>1. Waited(c)'
        BY <1>1, <2>1, <2>3, <3>3 DEF Acked, Working, Waited, TaskStatus
      <4>2. c < cur'
        BY <1>1, <3>2, <3>3
      <4>3. QED
        BY <2>1, <4>1, <4>2 DEF Stage
    <3>4. CASE c # cur
      <4>1. UNCHANGED <<state[c], m2s[c], s2m[c], spc[c], tsk[c], status>>
        BY <1>1, <2>1, <3>4
      <4>2. QED
        BY <1>1, <2>1, <3>1, <3>2, <3>4, <4>1 DEF Stage, Acked, Working, Waited, TaskStatus
    <3>5. QED
      BY <3>3, <3>4
  <2>6. BoundOnce'
    BY <2>1 DEF PoolInv, BoundOnce
  <2>7. QED
    BY <2>1, <2>2, <2>4, <2>5, <2>6 DEF PoolInv, IsNext
<1>12. CASE AllWaited
  <2>1. /\ mpc = "wait" /\ cur = None /\ mpc' = "done"
        /\ UNCHANGED <<enabled, cur, bound, slaves>> /\ Slaves' = Slaves
    BY <1>12 DEF AllWaited, Slaves, master_core
  <2>2. ASSUME NEW c \in Slaves PROVE Stage(c)'
    <3>1. c < cur
      BY <1>1, <2>1 DEF None, Core, PoolAssumption
    <3>2. Waited(c)
      BY <2>1, <3>1 DEF PoolInv, Stage
    <3>3. QED
      BY <2>1, <3>2 DEF Stage, Waited, TaskStatus, slaves
  <2>3. BoundOnce'
    BY <2>1 DEF PoolInv, BoundOnce, slaves
  <2>4. QED
    BY <2>1, <2>2, <2>3 DEF PoolInv, slaves
<1>13. QED
  BY <1>4, <1>5, <1>6, <1>7, <1>8, <1>9, <1>10, <1>11, <1>12 DEF MasterStep

(* Every step preserves it. *)
LEMMA NextInv ==
  ASSUME PoolAssumption, TypeOK, PoolInv, [Next]_vars
  PROVE  TypeOK' /\ PoolInv'
<1>1. CASE MasterStep
  BY <1>1, MasterInv
<1>2. CASE \E c \in Core : SlaveStep(c)
  BY <1>2, SlaveInv
<1>3. CASE UNCHANGED vars
  <2>1. UNCHANGED <<enabled, mpc, cur, bound, tsk, state, m2s, s2m, spc, status>> /\ Slaves' = Slaves
    BY <1>3 DEF vars, Slaves, master_core
  <2>2. \A c : Untouched(c)' = Untouched(c) /\ Acked(c)' = Acked(c) /\ Commanded(c)' = Commanded(c)
                /\ Waited(c)' = Waited(c)
    BY <2>1 DEF Untouched, Acked, Commanded, Waited, Working, TaskStatus
  <2>3. TypeOK'
    BY <2>1 DEF TypeOK
  <2>4. PoolInv'
    BY <2>1, <2>2 DEF PoolInv, BoundOnce, Stage
  <2>5. QED
    BY <2>3, <2>4
<1>4. QED
  BY <1>1, <1>2, <1>3 DEF Next, Spin, Ended

(* It holds throughout. *)
LEMMA InvAlways == Spec => [](TypeOK /\ PoolInv)
<1>1. Init => TypeOK /\ PoolInv
  BY InitInv, PoolAssumption
<1>2. TypeOK /\ PoolInv /\ [Next]_vars => (TypeOK /\ PoolInv)'
  BY NextInv, PoolAssumption
<1>3. QED
  BY <1>1, <1>2, PTL DEF Spec

(* The fields keep their ranges, and no pipe ever holds two bytes. *)
THEOREM TypeCorrect == Spec => []TypeOK
  BY InvAlways, PTL

(* It says that all tasks have returned when the master is done. *)
LEMMA DoneMeansFinished == PoolAssumption /\ TypeOK /\ PoolInv => WaitSound
<1> SUFFICES ASSUME PoolAssumption, TypeOK, PoolInv, mpc = "done", NEW t \in Task
             PROVE  status[t] = "finished"
  BY DEF WaitSound
<1>1. bound = Tasks
  BY DEF PoolInv
<1>2. PICK c \in Slaves : tsk[c] = t
  BY <1>1 DEF PoolInv, BoundOnce, Task
<1>3. Waited(c)
  BY DEF PoolInv, Stage
<1>4. QED
  BY <1>2, <1>3 DEF Waited, TaskStatus

(* xm_core_pool_wait_for_slaves returns only after every task has returned, *)
(* for any machine, any mask and any number of tasks.                       *)
THEOREM WaitSoundAlways == Spec => []WaitSound
<1>1. TypeOK /\ PoolInv => WaitSound
  BY DoneMeansFinished, PoolAssumption
<1>2. QED
  BY <1>1, InvAlways, PTL

-----------------------------------------------------------------------------
(* The step of the abstract fork and join that each step of the pool takes. *)
LEMMA StepForks ==
  ASSUME PoolAssumption, TypeOK, PoolInv, PoolInv', WaitSound', [Next]_vars
  PROVE  [FJ!Next]_(FJ!fvars)
<1> USE DEF FJ!Next, FJ!fvars, FJ!Start, FJ!Finish, FJ!Join, FJ!Abort
<1>1. CASE Create
  BY <1>1 DEF Create, PoolInv, slaves
<1>2. CASE BindTask
  <2>1. CASE mpc' = "failed"
    BY <1>2, <2>1 DEF BindTask, PoolInv
  <2>2. CASE mpc' # "failed"
    BY <1>2, <2>2 DEF BindTask
  <2>3. QED
    BY <2>1, <2>2
<1>3. CASE WorkCreated
  BY <1>3 DEF WorkCreated, slaves
<1>4. CASE Setup
  BY <1>4 DEF Setup, PoolInv, slaves
<1>5. CASE Launch
  BY <1>5 DEF Launch, PoolInv
<1>6. CASE Acknowledged
  BY <1>6 DEF Acknowledged
<1>7. CASE AllLaunched
  BY <1>7 DEF AllLaunched, slaves
<1>8. CASE _wait_core
  BY <1>8 DEF _wait_core
<1>9. CASE AllWaited
  BY <1>9 DEF AllWaited, WaitSound, slaves
<1>10. ASSUME NEW c \in Core, SlaveStep(c) PROVE [FJ!Next]_(FJ!fvars)
  <2>1. c \in Slaves /\ mpc \notin {"create", "done", "failed"} /\ mpc' = mpc
    BY <1>10 DEF SlaveStep, ReadCommand, SetRunning, SendAck, NoTask, RunTask, TaskReturns,
       SetFinished, Alive
  <2>2. c \in Int /\ cur \in Int /\ mpc \in MasterPC
    BY DEF TypeOK, Core, None, PoolAssumption
  <2>3. CASE ReadCommand(c) \/ SetRunning(c) \/ SendAck(c) \/ NoTask(c) \/ SetFinished(c)
    BY <2>3 DEF ReadCommand, SetRunning, SendAck, NoTask, SetFinished
  <2>4. CASE RunTask(c) \/ TaskReturns(c)
    <3>1. tsk[c] # 0 /\ tsk[c] \in Task
      <4>1. tsk[c] \in 0 .. Tasks
        BY DEF TypeOK
      <4>2. Stage(c)
        BY <2>1 DEF PoolInv
      <4>3. tsk[c] # 0
        BY <2>1, <2>2, <2>4, <4>2 DEF MasterPC, Stage, RunTask, TaskReturns, Acked, Working, Commanded, Untouched, Waited
      <4>4. QED
        BY <4>1, <4>3 DEF Task, PoolAssumption
    <3>2. CASE RunTask(c)
      <4>1. status[tsk[c]] = "idle"
        BY <2>1, <2>2, <3>1, <3>2 DEF MasterPC, RunTask, PoolInv, Stage, Acked, Working, Commanded, Untouched, Waited, TaskStatus
      <4>2. FJ!Start(tsk[c])
        BY <2>1, <3>2, <4>1 DEF RunTask
      <4>3. QED
        BY <3>1, <4>2
    <3>3. CASE TaskReturns(c)
      <4>1. status[tsk[c]] = "running"
        BY <2>1, <2>2, <3>1, <3>3 DEF MasterPC, TaskReturns, PoolInv, Stage, Acked, Working, Commanded, Untouched, Waited, TaskStatus
      <4>2. FJ!Finish(tsk[c])
        BY <2>1, <3>3, <4>1 DEF TaskReturns
      <4>3. QED
        BY <3>1, <4>2
    <3>4. QED
      BY <2>4, <3>2, <3>3
  <2>5. QED
    BY <1>10, <2>3, <2>4 DEF SlaveStep
<1>11. CASE UNCHANGED vars
  BY <1>11 DEF vars
<1>12. QED
  BY <1>1, <1>2, <1>3, <1>4, <1>5, <1>6, <1>7, <1>8, <1>9, <1>10, <1>11 DEF Next, MasterStep, Spin, Ended

(* The pool implements the fork and join of ForkJoin: each task starts once, *)
(* and the master gets past the wait only when all have finished.            *)
THEOREM Refinement == Spec => FJSpec
<1>1. Init => FJ!Init
  BY DEF Init, FJ!Init
<1>2. TypeOK /\ PoolInv /\ PoolInv' /\ WaitSound' /\ [Next]_vars => [FJ!Next]_(FJ!fvars)
  BY StepForks, PoolAssumption
<1>3. QED
  BY <1>1, <1>2, InvAlways, WaitSoundAlways, PTL DEF Spec, FJSpec, FJ!Spec
=============================================================================
