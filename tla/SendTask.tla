------------------------------ MODULE SendTask ------------------------------
(***************************************************************************)
(* src/xm_send_task.c: the send tasks of all the instances of one scan,    *)
(* started with the same seed.  Each task makes a cycle of its own from    *)
(* the instance's random stream, so task t has the same cycle in every     *)
(* instance but tasks of one instance have different ones; it then probes  *)
(* the targets of its subshard one by one until it is told to stop.        *)
(*                                                                         *)
(* A probe is a number of packets to one address, each tried again when    *)
(* sending fails; the task counts the address and walks on in any case, so *)
(* a probe that failed differs from one that was lost only in a counter    *)
(* nothing reads (failures).  The rate limit, the making of packets and    *)
(* the choice of the source address are left out.                          *)
(***************************************************************************)
EXTENDS Shard

CONSTANTS
  Listed,     (* addresses of the list-of-ips file, Stray included if it has it *)
  HasList,    (* whether there is such a file                                   *)
  MaxRuntime, (* whether max_runtime is set                                     *)
  Fresh       (* what a counter that is not initialised may start with          *)

ASSUME SendAssumption ==
  /\ Listed \subseteq Address \cup {Stray}
  /\ HasList \in BOOLEAN /\ MaxRuntime \in BOOLEAN
  /\ Fresh \subseteq Nat

VARIABLES
  cycle,     (* cycle[t]: generator and offset of the cycle of the tasks t   *)
  current,   (* current[s]: the element of subshard s                        *)
  ip,        (* ip[s]: current_ip of its task                                *)
  spc,       (* spc[s]: where the task is                                    *)
  sent,      (* sent[s], tried_sent[s]: counters of the subshard; nothing    *)
  tried_sent,(* initialises them                                             *)
  complete,  (* complete[n]: xrecv.complete of instance n                    *)
  probed,    (* history: how many probes were made for an address            *)
  late       (* history: probes of a task since its instance is complete     *)

taskVars == <<current, ip, spc, sent, tried_sent, probed, late>>
sendVars == <<cycle, complete, taskVars>>

Instance == 0 .. Shards - 1
Sub == Instance \X (1 .. Senders)

(* current_ip when the walk is over; no allowed address is 0.0.0.0. *)
NoAddress == -1

Index(s) == sub_idx(s[1], s[2])

generator(s) == cycle[s[2]].generator
first(s, c) == Pow(c[s[2]].generator, exponent_begin(Index(s), c[s[2]].offset))
last(s, c) == Pow(c[s[2]].generator, exponent_end(Index(s), c[s[2]].offset))

(* xm_make_cycle and xm_shard_create for every task, in xm_work_create. *)
SendInit ==
  /\ cycle \in [1 .. Senders -> [generator : Generators, offset : 0 .. Prime - 1]]
  /\ current = [s \in Sub |->
       shard_roll_to_valid(first(s, cycle), cycle[s[2]].generator, last(s, cycle))]
  /\ ip = [s \in Sub |-> NoAddress]
  /\ spc = [s \in Sub |-> "start"]
  /\ sent \in [Sub -> Fresh] /\ tried_sent \in [Sub -> Fresh]
  /\ complete = [n \in Instance |-> FALSE]
  /\ probed = [a \in Address \cup {Stray} |-> 0]
  /\ late = [s \in Sub |-> 0]

-----------------------------------------------------------------------------
(* Where the task goes with address a: with a list of addresses, one that   *)
(* is not on it is passed over.                                             *)
Destination == IF HasList THEN "seek" ELSE "check"

NextElem(s) == xm_shard_get_next_ip(current[s], generator(s), last(s, cycle))

Walk(s) ==
  /\ current' = [current EXCEPT ![s] = NextElem(s)]
  /\ ip' = [ip EXCEPT ![s] = IF NextElem(s) = XM_SHARD_DONE THEN NoAddress ELSE Target(NextElem(s))]

(* The first address of the subshard. *)
Start(s) ==
  /\ spc[s] = "start"
  /\ ip' = [ip EXCEPT ![s] = Target(current[s])]
  /\ spc' = [spc EXCEPT ![s] = Destination]
  /\ UNCHANGED <<cycle, complete, current, sent, tried_sent, probed, late>>

(* Mutant: the list is not looked at. *)
OnList_any(s) ==
  /\ spc[s] = "seek"
  /\ spc' = [spc EXCEPT ![s] = "check"]
  /\ UNCHANGED <<cycle, complete, current, ip, sent, tried_sent, probed, late>>

(* A turn of the loops over the addresses that are not on the list. *)
OnList(s) ==
  /\ spc[s] = "seek" /\ ip[s] \in Listed
  /\ spc' = [spc EXCEPT ![s] = "check"]
  /\ UNCHANGED <<cycle, complete, current, ip, sent, tried_sent, probed, late>>

(* Mutant: an address that is not on the list ends the task. *)
NotOnList_ends(s) ==
  /\ spc[s] = "seek" /\ ip[s] \notin Listed
  /\ Walk(s)
  /\ tried_sent' = [tried_sent EXCEPT ![s] = @ + 1]
  /\ spc' = [spc EXCEPT ![s] = "done"]
  /\ UNCHANGED <<cycle, complete, sent, probed, late>>

NotOnList(s) ==
  /\ spc[s] = "seek" /\ ip[s] \notin Listed
  /\ Walk(s)
  /\ tried_sent' = [tried_sent EXCEPT ![s] = @ + 1]
  /\ spc' = [spc EXCEPT ![s] = IF NextElem(s) = XM_SHARD_DONE THEN "done" ELSE "seek"]
  /\ UNCHANGED <<cycle, complete, sent, probed, late>>

(* Mutant: one target more. *)
QuotaReached_late(s) ==
  LET quota == max_targets_this_shard(Index(s))
  IN  quota # 0 /\ (sent[s] > quota \/ tried_sent[s] > quota)

(* tried_sent is counted with sent, or alone for an address off the list.   *)
QuotaReached(s) ==
  LET quota == max_targets_this_shard(Index(s))
  IN  quota # 0 /\ (sent[s] >= quota \/ tried_sent[s] >= quota)

(* Mutant: the receiver is not listened to. *)
Finishes_deaf(s) == QuotaReached(s) \/ MaxRuntime \/ ip[s] = NoAddress

(* All the ways a send thread could finish.  xsend.start stays 0, so the    *)
(* time a limit is compared with is the time since 1970.                    *)
Finishes(s) == complete[s[1]] \/ QuotaReached(s) \/ MaxRuntime \/ ip[s] = NoAddress

(* Mutant: only the receiver ends the task. *)
Finish_complete(s) ==
  /\ spc[s] = "check" /\ complete[s[1]]
  /\ spc' = [spc EXCEPT ![s] = "done"]
  /\ UNCHANGED <<cycle, complete, current, ip, sent, tried_sent, probed, late>>

(* Mutant: a task that is told to stop waits instead. *)
Finish_waits(s) ==
  /\ spc[s] = "check" /\ Finishes(s) /\ ~complete[s[1]]
  /\ spc' = [spc EXCEPT ![s] = "done"]
  /\ UNCHANGED <<cycle, complete, current, ip, sent, tried_sent, probed, late>>

Finish(s) ==
  /\ spc[s] = "check" /\ Finishes(s)
  /\ spc' = [spc EXCEPT ![s] = "done"]
  /\ UNCHANGED <<cycle, complete, current, ip, sent, tried_sent, probed, late>>

Continue(s) ==
  /\ spc[s] = "check" /\ ~Finishes(s)
  /\ spc' = [spc EXCEPT ![s] = "send"]
  /\ UNCHANGED <<cycle, complete, current, ip, sent, tried_sent, probed, late>>

(* Probe the address, count it, and walk on. *)
Send(s) ==
  /\ spc[s] = "send"
  /\ probed' = [probed EXCEPT ![ip[s]] = @ + 1]
  /\ late' = IF complete[s[1]] THEN [late EXCEPT ![s] = @ + 1] ELSE late
  /\ sent' = [sent EXCEPT ![s] = @ + 1]
  /\ tried_sent' = [tried_sent EXCEPT ![s] = @ + 1]
  /\ Walk(s)
  /\ spc' = [spc EXCEPT ![s] = IF NextElem(s) = XM_SHARD_DONE THEN "check" ELSE Destination]
  /\ UNCHANGED <<cycle, complete>>

SendStep(s) == \/ Start(s) \/ OnList(s) \/ NotOnList(s)
               \/ Finish(s) \/ Continue(s) \/ Send(s)

SendNext == \E s \in Sub : SendStep(s)

AllSent == \A s \in Sub : spc[s] = "done"

-----------------------------------------------------------------------------
(* The send tasks alone: no receiver ever completes. *)
Done == AllSent /\ UNCHANGED sendVars

Spec == SendInit /\ [][SendNext \/ Done]_sendVars /\ \A s \in Sub : WF_sendVars(SendStep(s))

-----------------------------------------------------------------------------
(* Properties. *)

(* What a scan may probe. *)
Wanted == IF HasList THEN Listed \cap Address ELSE Address

(* No host is probed twice in a scan, by whatever task of whatever instance *)
(* (xm_cyclic.c:4, "we connect to every host once in a scan execution").    *)
OnlyOnce == \A a \in Address : probed[a] <= 1

(* When all tasks have returned every wanted address has been probed        *)
(* (the same line).                                                         *)
Coverage == AllSent => \A a \in Wanted : probed[a] > 0

(* Nothing else is probed: the whitelist and the list constrain the scan    *)
(* (xopt.ggo:15).                                                           *)
OnlyWanted == \A a \in DOMAIN probed : probed[a] > 0 => a \in Wanted

ProbesMade ==
  LET sum[n \in 0 .. MaxIndex + 1] == IF n = 0 THEN 0 ELSE sum[n - 1] + probed[n - 1]
  IN  sum[MaxIndex + 1]

(* All the tasks together probe at most max-targets addresses               *)
(* (xopt.ggo:32, "Cap number of targets to probe").                         *)
CapRespected == ProbesMade <= MaxTargets

(* Every task returns, though nobody stops it.                              *)
AllReturn == <>AllSent
=============================================================================
