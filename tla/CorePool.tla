------------------------------ MODULE CorePool ------------------------------
(***************************************************************************)
(* lib/thread/xm_core_pool.{h,c} and xm_task.c, driven as src/xm_work.c    *)
(* drives them: the master creates the pool from the core mask, binds the  *)
(* tasks (the senders, then the receiver) to slave cores, tells every      *)
(* slave to go over a pair of pipes, and waits for the slaves by spinning  *)
(* on their state.                                                         *)
(*                                                                         *)
(* A slave is a thread pinned to its core that loops: read a byte from its *)
(* pipe, state := RUNNING, acknowledge, run the task, state := FINISHED.   *)
(* The states are plain integers; the pool is compiled without             *)
(* optimisation, so each access is one load or one store.  What a task     *)
(* does is left out: xm_task_run calls it until it returns TASK_RETURN_EXIT *)
(* (or its init fails), which is one step here.  Sockets, affinity, thread *)
(* names and the failure of system calls are left out.                     *)
(***************************************************************************)
EXTENDS Integers, Sequences, FiniteSets

CONSTANTS
  Cores,   (* sys_core_count: the cores of the machine are 0 .. Cores - 1    *)
  Tasks,   (* how many tasks xm_work_create binds: the senders + 1           *)
  Masks    (* core masks given on the command line: sequences of hex digits, *)
           (* the most significant first; 16 is a character that is no digit *)

ASSUME PoolAssumption ==
  /\ Cores \in Nat \ {0}
  /\ Tasks \in Nat \ {0}
  /\ Masks \subseteq Seq(0 .. 16)

VARIABLES
  enabled,  (* the cores the mask selects                        *)
  mpc,      (* where the master thread is                        *)
  cur,      (* the core a loop of the master has reached         *)
  bound,    (* how many tasks are bound                          *)
  tsk,      (* tsk[c]: the task bound to core c, 0 for none      *)
  state,    (* state[c]: the state field of core c               *)
  m2s,      (* m2s[c]: bytes in core c's pipe from the master    *)
  s2m,      (* s2m[c]: bytes in core c's pipe to the master      *)
  spc,      (* spc[c]: where the thread of core c is             *)
  status    (* history: status[t] of task t                      *)

vars == <<enabled, mpc, cur, bound, tsk, state, m2s, s2m, spc, status>>

Core == 0 .. Cores - 1
Task == 1 .. Tasks
None == Cores    (* xm_next_core_get returns NULL *)

MasterPC == {"create", "bind", "setup", "launch", "ack", "wait", "done", "failed"}
SlavePC == {"read", "running", "ack", "check", "task", "finish", "exited"}

Least(S) == CHOOSE c \in S : \A d \in S : c <= d

-----------------------------------------------------------------------------
(* The core mask. *)

Bit(d, j) == (d \div 2^j) % 2 = 1

(* How many digits, from the right, the loop over the detected cores reads. *)
DigitsRead(m) == IF 4 * Len(m) <= Cores THEN Len(m) ELSE (Cores + 3) \div 4

(* The digit that holds the bit of core c, if the mask is that long. *)
DigitOf(m, c) == m[Len(m) - (c \div 4)]

(* _parse_coremask: a digit for cores the machine does not have must be 0. *)
_parse_coremask(m) == { c \in Core : c \div 4 < Len(m) /\ Bit(DigitOf(m, c), c % 4) }

MaskAccepted(m) ==
  /\ m # <<>>
  /\ \A i \in 1 .. Len(m) : IF i > Len(m) - DigitsRead(m) THEN m[i] < 16 ELSE m[i] = 0
  /\ _parse_coremask(m) # {}

-----------------------------------------------------------------------------
(* The first enabled core is the master's. *)
master_core == Least(enabled)

Slaves == enabled \ {master_core}

(* xm_next_core_get with skip_master, as CPOOL_CORE_FOREACH_SLAVE calls it. *)
xm_next_core_get(idx) ==
  LET later == { c \in Slaves : c > idx }
  IN  IF later = {} THEN None ELSE Least(later)

Init ==
  /\ enabled = {}
  /\ mpc = "create" /\ cur = None /\ bound = 0
  /\ tsk = [c \in Core |-> 0]
  /\ state = [c \in Core |-> "WAITING"]
  /\ m2s = [c \in Core |-> 0]
  /\ s2m = [c \in Core |-> 0]
  /\ spc = [c \in Core |-> "read"]
  /\ status = [t \in Task |-> "idle"]

slaves == <<tsk, state, m2s, s2m, spc, status>>

-----------------------------------------------------------------------------
(* The master thread. *)

(* xm_core_pool_create: the slave threads are started and read their pipes. *)
Create ==
  /\ mpc = "create"
  /\ \E m \in Masks :
       IF MaskAccepted(m)
       THEN enabled' = _parse_coremask(m) /\ mpc' = "bind"
       ELSE enabled' = {} /\ mpc' = "failed"
  /\ UNCHANGED <<cur, bound, slaves>>

(* xm_core_pool_bind_task: the first slave without a task, or an error. *)
_alloc_core == { c \in Slaves : tsk[c] = 0 }

BindTask ==
  /\ mpc = "bind" /\ bound < Tasks
  /\ IF _alloc_core = {}
     THEN mpc' = "failed" /\ UNCHANGED <<bound, tsk>>
     ELSE /\ bound' = bound + 1
          /\ tsk' = [tsk EXCEPT ![Least(_alloc_core)] = bound + 1]
          /\ UNCHANGED mpc
  /\ UNCHANGED <<enabled, cur, state, m2s, s2m, spc, status>>

WorkCreated ==
  /\ mpc = "bind" /\ bound = Tasks
  /\ mpc' = "setup"
  /\ UNCHANGED <<enabled, cur, bound, slaves>>

(* xm_core_pool_slaves_setup: every slave must be WAITING. *)
Setup ==
  /\ mpc = "setup"
  /\ IF \A c \in Slaves : state[c] = "WAITING"
     THEN mpc' = "launch" /\ cur' = xm_next_core_get(-1)
     ELSE mpc' = "failed" /\ UNCHANGED cur
  /\ UNCHANGED <<enabled, bound, slaves>>

(* _core_remote_launch: send the command ... *)
Launch ==
  /\ mpc = "launch" /\ cur # None
  /\ IF state[cur] = "WAITING"
     THEN mpc' = "ack" /\ m2s' = [m2s EXCEPT ![cur] = @ + 1]
     ELSE mpc' = "failed" /\ UNCHANGED m2s
  /\ UNCHANGED <<enabled, cur, bound, tsk, state, s2m, spc, status>>

(* ... and block until it is acknowledged. *)
Acknowledged ==
  /\ mpc = "ack" /\ s2m[cur] > 0
  /\ s2m' = [s2m EXCEPT ![cur] = @ - 1]
  /\ cur' = xm_next_core_get(cur)
  /\ mpc' = "launch"
  /\ UNCHANGED <<enabled, bound, tsk, state, m2s, spc, status>>

AllLaunched ==
  /\ mpc = "launch" /\ cur = None
  /\ mpc' = "wait" /\ cur' = xm_next_core_get(-1)
  /\ UNCHANGED <<enabled, bound, slaves>>

(* _wait_core: return at once for WAITING, otherwise spin until FINISHED. *)
_wait_core ==
  /\ mpc = "wait" /\ cur # None
  /\ state[cur] \in {"WAITING", "FINISHED"}
  /\ state' = [state EXCEPT ![cur] = "WAITING"]
  /\ cur' = xm_next_core_get(cur)
  /\ UNCHANGED <<enabled, mpc, bound, tsk, m2s, s2m, spc, status>>

Spin ==
  /\ mpc = "wait" /\ cur # None /\ state[cur] = "RUNNING"
  /\ UNCHANGED vars

AllWaited ==
  /\ mpc = "wait" /\ cur = None
  /\ mpc' = "done"
  /\ UNCHANGED <<enabled, cur, bound, slaves>>

(* main returns, which ends the process and its threads. *)
Ended == mpc \in {"done", "failed"} /\ UNCHANGED vars

-----------------------------------------------------------------------------
(* The thread of slave core c: _thread_loop. *)

Alive(c) == mpc \notin {"create", "done", "failed"} /\ c \in Slaves

ReadCommand(c) ==
  /\ Alive(c) /\ spc[c] = "read" /\ m2s[c] > 0
  /\ m2s' = [m2s EXCEPT ![c] = @ - 1]
  /\ spc' = [spc EXCEPT ![c] = "running"]
  /\ UNCHANGED <<enabled, mpc, cur, bound, tsk, state, s2m, status>>

(* Mutant: the state stays WAITING. *)
SetRunning_unset(c) ==
  /\ Alive(c) /\ spc[c] = "running"
  /\ spc' = [spc EXCEPT ![c] = "ack"]
  /\ UNCHANGED <<enabled, mpc, cur, bound, tsk, state, m2s, s2m, status>>

SetRunning(c) ==
  /\ Alive(c) /\ spc[c] = "running"
  /\ state' = [state EXCEPT ![c] = "RUNNING"]
  /\ spc' = [spc EXCEPT ![c] = "ack"]
  /\ UNCHANGED <<enabled, mpc, cur, bound, tsk, m2s, s2m, status>>

SendAck(c) ==
  /\ Alive(c) /\ spc[c] = "ack"
  /\ s2m' = [s2m EXCEPT ![c] = @ + 1]
  /\ spc' = [spc EXCEPT ![c] = "check"]
  /\ UNCHANGED <<enabled, mpc, cur, bound, tsk, state, m2s, status>>

(* A core without a task leaves the loop; its state stays RUNNING. *)
NoTask(c) ==
  /\ Alive(c) /\ spc[c] = "check" /\ tsk[c] = 0
  /\ spc' = [spc EXCEPT ![c] = "exited"]
  /\ UNCHANGED <<enabled, mpc, cur, bound, tsk, state, m2s, s2m, status>>

(* xm_task_run begins ... *)
RunTask(c) ==
  /\ Alive(c) /\ spc[c] = "check" /\ tsk[c] # 0
  /\ spc' = [spc EXCEPT ![c] = "task"]
  /\ status' = [status EXCEPT ![tsk[c]] = "running"]
  /\ UNCHANGED <<enabled, mpc, cur, bound, tsk, state, m2s, s2m>>

(* ... and returns. *)
TaskReturns(c) ==
  /\ Alive(c) /\ spc[c] = "task"
  /\ spc' = [spc EXCEPT ![c] = "finish"]
  /\ status' = [status EXCEPT ![tsk[c]] = "finished"]
  /\ UNCHANGED <<enabled, mpc, cur, bound, tsk, state, m2s, s2m>>

(* Mutant: the thread runs its task again instead of reading its pipe. *)
SetFinished_again(c) ==
  /\ Alive(c) /\ spc[c] = "finish"
  /\ state' = [state EXCEPT ![c] = "FINISHED"]
  /\ spc' = [spc EXCEPT ![c] = "check"]
  /\ UNCHANGED <<enabled, mpc, cur, bound, tsk, m2s, s2m, status>>

(* Mutant: the state stays RUNNING. *)
SetFinished_unset(c) ==
  /\ Alive(c) /\ spc[c] = "finish"
  /\ spc' = [spc EXCEPT ![c] = "read"]
  /\ UNCHANGED <<enabled, mpc, cur, bound, tsk, state, m2s, s2m, status>>

SetFinished(c) ==
  /\ Alive(c) /\ spc[c] = "finish"
  /\ state' = [state EXCEPT ![c] = "FINISHED"]
  /\ spc' = [spc EXCEPT ![c] = "read"]
  /\ UNCHANGED <<enabled, mpc, cur, bound, tsk, m2s, s2m, status>>

-----------------------------------------------------------------------------
MasterStep == \/ Create \/ BindTask \/ WorkCreated \/ Setup \/ Launch
              \/ Acknowledged \/ AllLaunched \/ _wait_core \/ AllWaited

SlaveStep(c) == \/ ReadCommand(c) \/ SetRunning(c) \/ SendAck(c) \/ NoTask(c)
                \/ RunTask(c) \/ TaskReturns(c) \/ SetFinished(c)

Next == MasterStep \/ Spin \/ Ended \/ \E c \in Core : SlaveStep(c)

Spec == Init /\ [][Next]_vars

(* Every thread has a core of its own, so each keeps running; a task that   *)
(* runs returns eventually.                                                 *)
FairSpec == Spec /\ WF_vars(MasterStep) /\ \A c \in Core : WF_vars(SlaveStep(c))

-----------------------------------------------------------------------------
(* Properties. *)

(* The ranges of the variables; a pipe never holds more than one byte. *)
TypeOK ==
  /\ enabled \subseteq Core
  /\ mpc \in MasterPC /\ cur \in Core \cup {None} /\ bound \in 0 .. Tasks
  /\ tsk \in [Core -> 0 .. Tasks]
  /\ state \in [Core -> {"WAITING", "RUNNING", "FINISHED"}]
  /\ m2s \in [Core -> {0, 1}] /\ s2m \in [Core -> {0, 1}]
  /\ spc \in [Core -> SlavePC]
  /\ status \in [Task -> {"idle", "running", "finished"}]

(* xm_core_pool_wait_for_slaves returns only when every task has returned:  *)
(* a task is neither still running nor not yet started when main returns    *)
(* and the process ends.                                                    *)
WaitSound == mpc = "done" => \A t \in Task : status[t] = "finished"

(* The inductive invariant behind it.  A slave is in one of four stages of  *)
(* its exchange with the master, which the master's place in its loops      *)
(* tells; the state field is trustworthy only because RUNNING is written    *)
(* before the acknowledgement.                                              *)
TaskStatus(c, s) == tsk[c] # 0 => status[tsk[c]] = s

Untouched(c) ==
  /\ spc[c] = "read" /\ state[c] = "WAITING" /\ m2s[c] = 0 /\ s2m[c] = 0
  /\ TaskStatus(c, "idle")

Working(c) ==
  /\ m2s[c] = 0
  /\ \/ spc[c] = "check" /\ state[c] = "RUNNING" /\ TaskStatus(c, "idle")
     \/ spc[c] = "exited" /\ state[c] = "RUNNING" /\ tsk[c] = 0
     \/ spc[c] = "task" /\ state[c] = "RUNNING" /\ tsk[c] # 0 /\ TaskStatus(c, "running")
     \/ spc[c] = "finish" /\ state[c] = "RUNNING" /\ tsk[c] # 0 /\ TaskStatus(c, "finished")
     \/ spc[c] = "read" /\ state[c] = "FINISHED" /\ tsk[c] # 0 /\ TaskStatus(c, "finished")

Commanded(c) ==
  \/ spc[c] = "read" /\ state[c] = "WAITING" /\ m2s[c] = 1 /\ s2m[c] = 0 /\ TaskStatus(c, "idle")
  \/ spc[c] = "running" /\ state[c] = "WAITING" /\ m2s[c] = 0 /\ s2m[c] = 0 /\ TaskStatus(c, "idle")
  \/ spc[c] = "ack" /\ state[c] = "RUNNING" /\ m2s[c] = 0 /\ s2m[c] = 0 /\ TaskStatus(c, "idle")
  \/ s2m[c] = 1 /\ Working(c)

Waited(c) ==
  /\ spc[c] = "read" /\ state[c] = "WAITING" /\ m2s[c] = 0 /\ s2m[c] = 0
  /\ tsk[c] # 0 /\ TaskStatus(c, "finished")

(* Every bound task has a slave core of its own. *)
BoundOnce ==
  /\ \A t \in 1 .. bound : \E c \in Slaves : tsk[c] = t
  /\ \A c \in Core : tsk[c] # 0 => c \in Slaves /\ tsk[c] <= bound
  /\ \A c, d \in Core : tsk[c] = tsk[d] /\ tsk[c] # 0 => c = d
  /\ \A t \in Task : t > bound => status[t] = "idle"

Acked(c) == Working(c) /\ s2m[c] = 0

Stage(c) ==
  /\ mpc \in {"bind", "setup"} => Untouched(c)
  /\ mpc = "launch" => IF c < cur THEN Acked(c) ELSE Untouched(c)
  /\ mpc = "ack" => /\ c < cur => Acked(c)
                    /\ c = cur => Commanded(c)
                    /\ c > cur => Untouched(c)
  /\ mpc = "wait" => IF c < cur THEN Waited(c) ELSE Acked(c)
  /\ mpc = "done" => Waited(c)

PoolInv ==
  /\ BoundOnce
  /\ mpc \notin {"create", "failed"} => enabled # {}
  /\ mpc = "create" => bound = 0
  /\ mpc \in {"create", "failed"} => \A t \in Task : status[t] = "idle"
  /\ mpc = "create" => \A c \in Core : Untouched(c)
  /\ mpc \in {"setup", "launch", "ack", "wait", "done"} => bound = Tasks
  /\ mpc = "ack" => cur \in Slaves
  /\ mpc \in {"launch", "wait"} => cur \in Slaves \cup {None}
  /\ mpc \notin {"create", "failed"} => \A c \in Slaves : Stage(c)

(* The pool implements the abstract fork and join. *)
FJ == INSTANCE ForkJoin WITH
        Tasks <- Task,
        phase <- IF mpc = "done" THEN "joined"
                 ELSE IF mpc = "failed" THEN "aborted" ELSE "open"
FJSpec == FJ!Spec

(* xm_core_pool.c:426-428, "Wait until a lcore finished its job": once all  *)
(* slaves are launched the wait ends, because every task does.              *)
WaitReturns == mpc = "wait" ~> mpc = "done"

(* The same where every slave has a task.                                   *)
Busy == \A c \in Slaves : tsk[c] # 0
BusyWaitReturns == mpc = "wait" /\ Busy ~> mpc = "done"
=============================================================================
