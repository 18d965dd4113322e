------------------------------ MODULE RecvTask ------------------------------
(***************************************************************************)
(* src/xm_recv_task.c: the receive task of an instance of xmap.  It takes  *)
(* one packet at a time from the capture, drops what is no answer to a     *)
(* probe, stores the first answer of every address (filter_duplicates is   *)
(* always set) and ends when it has max_results of them.                   *)
(*                                                                         *)
(* A packet is the address probe_validate_packet leaves in src_ip, where   *)
(* it comes from or, for an ICMP error, where it went to, and whether it   *)
(* is accepted.  Nothing sets xsend.complete, so neither the cooldown      *)
(* counters nor the cooldown time ever matter.                             *)
(***************************************************************************)
EXTENDS Naturals, Sequences

CONSTANTS
  Receivers,  (* the instances of xmap                         *)
  Hosts,      (* the addresses src_ip may be                   *)
  MaxResults  (* context->max_results as given, 0 for no limit *)

VARIABLES
  rpc,             (* where the task is                                     *)
  recv_ready,      (* recv_ready of the context                             *)
  seen,            (* the addresses that have answered                      *)
  success_unique,  (* counters of xrecv                                     *)
  filter_success,
  results,         (* the addresses stored, in order                        *)
  complete         (* xrecv.complete                                        *)

recvVars == <<rpc, recv_ready, seen, success_unique, filter_success, results, complete>>

RecvInit ==
  /\ rpc = [n \in Receivers |-> "start"]
  /\ recv_ready = [n \in Receivers |-> FALSE]
  /\ seen = [n \in Receivers |-> {}]
  /\ success_unique = [n \in Receivers |-> 0]
  /\ filter_success = [n \in Receivers |-> 0]
  /\ results = [n \in Receivers |-> <<>>]
  /\ complete = [n \in Receivers |-> FALSE]

Ready(n) ==
  /\ rpc[n] = "start"
  /\ recv_ready' = [recv_ready EXCEPT ![n] = TRUE]
  /\ rpc' = [rpc EXCEPT ![n] = "receive"]
  /\ UNCHANGED <<seen, success_unique, filter_success, results, complete>>

Arrives(n) ==
  /\ rpc[n] = "receive"
  /\ rpc' = [rpc EXCEPT ![n] = "check"]

(* _recv_packet_handle: no IP packet, or no answer to a probe. *)
Rejected(n) ==
  /\ Arrives(n)
  /\ UNCHANGED <<recv_ready, seen, success_unique, filter_success, results, complete>>

(* An answer of an address that has answered before. *)
Repeated(n, h) ==
  /\ Arrives(n) /\ h \in seen[n]
  /\ UNCHANGED <<recv_ready, seen, success_unique, filter_success, results, complete>>

(* Its first one: count it and store it. *)
Answered(n, h) ==
  /\ Arrives(n) /\ h \notin seen[n]
  /\ seen' = [seen EXCEPT ![n] = @ \cup {h}]
  /\ success_unique' = [success_unique EXCEPT ![n] = @ + 1]
  /\ filter_success' = [filter_success EXCEPT ![n] = @ + 1]
  /\ results' = [results EXCEPT ![n] = Append(@, h)]
  /\ UNCHANGED <<recv_ready, complete>>

(* Mutant: one result more. *)
Enough_late(n) == MaxResults # 0 /\ filter_success[n] > MaxResults

(* max_results; without one the limit is 2^32 - 1, more than there are hosts. *)
Enough(n) == MaxResults # 0 /\ filter_success[n] >= MaxResults

Again(n) ==
  /\ rpc[n] = "check" /\ ~Enough(n)
  /\ rpc' = [rpc EXCEPT ![n] = "receive"]
  /\ UNCHANGED <<recv_ready, seen, success_unique, filter_success, results, complete>>

Complete(n) ==
  /\ rpc[n] = "check" /\ Enough(n)
  /\ complete' = [complete EXCEPT ![n] = TRUE]
  /\ rpc' = [rpc EXCEPT ![n] = "done"]
  /\ UNCHANGED <<recv_ready, seen, success_unique, filter_success, results>>

Receive(n, h) == Repeated(n, h) \/ Answered(n, h)

RecvStep(n) == Ready(n) \/ Again(n) \/ Complete(n)
=============================================================================
