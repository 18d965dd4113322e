------------------------------ MODULE ShmQueue ------------------------------
(***************************************************************************)
(* What the shared-memory segment between xmap and its reader promises: a  *)
(* bounded first-in first-out queue of entries that loses an entry only    *)
(* when a new writer reinitialises it.  ShmRing, the translation of        *)
(* lib/shm/xm_shm_interface.c, is shown to implement this specification    *)
(* until the first event it does not protect itself against (failed).      *)
(***************************************************************************)
EXTENDS Naturals, Sequences

CONSTANTS Capacity,  (* how many entries the segment holds *)
          Values     (* what an entry may contain          *)

VARIABLES queue,   (* entries committed by the writer and not yet released *)
          last,    (* the entry the reader released most recently          *)
          failed   (* the segment has left its contract for good           *)

qvars == <<queue, last, failed>>

Init == /\ queue = <<>>
        /\ last \in Values
        /\ failed = FALSE

(* The writer publishes an entry; it may not when the queue is full. *)
Commit == /\ ~failed
          /\ Len(queue) < Capacity
          /\ \E v \in Values : queue' = Append(queue, v)
          /\ UNCHANGED <<last, failed>>

(* The reader consumes the oldest entry, exactly once. *)
Release == /\ ~failed
           /\ queue # <<>>
           /\ last' = Head(queue)
           /\ queue' = Tail(queue)
           /\ UNCHANGED failed

(* A writer starts: whatever was not read is discarded. *)
Restart == /\ ~failed
           /\ queue' = <<>>
           /\ UNCHANGED <<last, failed>>

(* From here on the queue promises nothing. *)
Fail == /\ failed' = TRUE
        /\ queue' = <<>>
        /\ last' \in Values

Next == Commit \/ Release \/ Restart \/ Fail

Spec == Init /\ [][Next]_qvars
=============================================================================
