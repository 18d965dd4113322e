-------------------------------- MODULE Scan --------------------------------
(***************************************************************************)
(* A scan by one instance of xmap: its send tasks (SendTask) and its       *)
(* receive task (RecvTask), which share the context, and the network.      *)
(*                                                                         *)
(* A host that has been probed may answer any number of times, late and in *)
(* any order, or not at all; other packets reach the capture too.  An ICMP *)
(* probe may also come back in an error, of the host or of a router, which *)
(* the probe module takes for an answer of the scanner's own address.  The *)
(* receiver tells the senders to stop through xrecv.complete, which they   *)
(* read without a lock.  What they tell the receiver is xsend.complete,    *)
(* which nobody ever sets.                                                 *)
(***************************************************************************)
EXTENDS SendTask, Sequences

CONSTANTS
  MaxResults,  (* context->max_results                                     *)
  Mine         (* the source addresses an error may be for; none if the    *)
               (* probes are TCP, whose modules accept no ICMP             *)

VARIABLES rpc, recv_ready, seen, success_unique, filter_success, results

(* What may have been probed, and the addresses answers are stored under. *)
Probed == Address \cup {Stray}
Answering == Probed \cup Mine

R == INSTANCE RecvTask WITH Receivers <- Instance, Hosts <- Answering

ownRecvVars == <<rpc, recv_ready, seen, success_unique, filter_success, results>>
vars == <<sendVars, ownRecvVars>>

me == 0

(* The receivers of several instances share nothing. *)
ASSUME ScanAssumption == Shards = 1 /\ MaxResults \in Nat

Init == SendInit /\ R!RecvInit

Sender(s) == SendStep(s) /\ UNCHANGED ownRecvVars

Receiver == R!RecvStep(me) /\ UNCHANGED <<cycle, taskVars>>

(* A packet that is no answer, or whose validation fails. *)
Noise == R!Rejected(me) /\ UNCHANGED <<cycle, taskVars>>

(* An answer of a host that was probed. *)
Answer ==
  /\ \E h \in Probed : probed[h] > 0 /\ R!Receive(me, h)
  /\ UNCHANGED <<cycle, taskVars>>

(* An error about a probe: *sip becomes the address the error was sent to,  *)
(* any of them, since get_src_ip gives each probe one.                      *)
Error ==
  /\ \E h \in Probed : probed[h] > 0
  /\ \E m \in Mine : R!Receive(me, m)
  /\ UNCHANGED <<cycle, taskVars>>

(* Both sides have returned. *)
Over == AllSent /\ rpc[me] = "done" /\ UNCHANGED vars

Next == (\E s \in Sub : Sender(s)) \/ Receiver \/ Noise \/ Answer \/ Error \/ Over

ScanSpec == Init /\ [][Next]_vars

(* Every task has a core of its own and packets of some kind keep coming.   *)
FairScan ==
  /\ ScanSpec
  /\ \A s \in Sub : WF_vars(Sender(s))
  /\ WF_vars(Receiver) /\ WF_vars(Noise \/ Answer \/ Error)

-----------------------------------------------------------------------------
(* Properties. *)

(* An address is stored at most once, and only if it was probed or, for an  *)
(* error, is the scanner's own and a probe was made; so there is one result *)
(* at most for every address probed and every source address.  The counters *)
(* say how many were stored, whatever the order and number of the answers,  *)
(* and there are never more than wanted (xopt.ggo:38, "Cap number of        *)
(* results to return").                                                     *)
ResultsExact ==
  /\ MaxResults # 0 => Len(results[me]) <= MaxResults
  /\ \A i, j \in DOMAIN results[me] : results[me][i] = results[me][j] => i = j
  /\ \A i \in DOMAIN results[me] :
       \/ results[me][i] \in Probed /\ probed[results[me][i]] > 0
       \/ results[me][i] \in Mine /\ \E h \in Probed : probed[h] > 0
  /\ filter_success[me] = Len(results[me]) /\ success_unique[me] = Len(results[me])

(* xrecv.complete is read before a probe is built and the probe is sent     *)
(* after it: a sender makes at most one probe once the receiver is done.    *)
LateBounded == \A s \in Sub : late[s] <= 1

(* A receiver that has enough ends the whole scan: all senders return.      *)
CompleteStops == complete[me] ~> AllSent

=============================================================================
