------------------------------ MODULE ForkJoin ------------------------------
(***************************************************************************)
(* What the core pool promises xm_work_start: every task runs once, and    *)
(* the caller gets past xm_core_pool_wait_for_slaves only after all of     *)
(* them have returned.  CorePool is shown to implement it.                 *)
(***************************************************************************)
CONSTANT Tasks

VARIABLES status,  (* status[t]: "idle", "running" or "finished" *)
          phase    (* "open", "joined" or "aborted"              *)

fvars == <<status, phase>>

Init == /\ status = [t \in Tasks |-> "idle"]
        /\ phase = "open"

Start(t) == /\ phase = "open"
            /\ status[t] = "idle"
            /\ status' = [status EXCEPT ![t] = "running"]
            /\ UNCHANGED phase

Finish(t) == /\ phase = "open"
             /\ status[t] = "running"
             /\ status' = [status EXCEPT ![t] = "finished"]
             /\ UNCHANGED phase

(* The caller continues: nothing is running and nothing was left out. *)
Join == /\ phase = "open"
        /\ \A t \in Tasks : status[t] = "finished"
        /\ phase' = "joined"
        /\ UNCHANGED status

(* The caller gives up before any task has started or been waited for. *)
Abort == /\ phase = "open"
         /\ \A t \in Tasks : status[t] = "idle"
         /\ phase' = "aborted"
         /\ UNCHANGED status

Next == (\E t \in Tasks : Start(t) \/ Finish(t)) \/ Join \/ Abort

Spec == Init /\ [][Next]_fvars
=============================================================================
