------------------------------ MODULE Interface ------------------------------
(***************************************************************************)
(* src/src/interface: the drivers behind --interface-send-type and         *)
(* --interface-recv-type, their creation by xm_context.c and by the tasks, *)
(* and the packets of a send task (xm_send_task.c), which it tries to send *)
(* several times.  The devices and the PF_RING library are external.       *)
(***************************************************************************)
EXTENDS Integers, Sequences, FiniteSets

CONSTANTS
  Senders, Hosts,        (* tasks, and hosts each of them probes           *)
  Streams, Retries,      (* packet_streams, num_retries                    *)
  TxPerNBuf, TxQueueLen  (* of the PF_RING configuration                   *)

Types == {"dpdk", "pfring", "libpcap", "linux", "unknown"}

VARIABLES
  type,     (* type.send and type.recv                                     *)
  cfname,   (* whether their configurations can be read (module Config)    *)
  pc,
  made,     (* the private data of the drivers that were created           *)
  task,     (* task[t]: the packet it is sending and what it has counted   *)
  queue,    (* queue[t]: its PF_RING send queue, as indices of send_bufs   *)
  log       (* log[t][s]: what the attempts to send packet s returned      *)

ifVars == <<type, cfname, pc, made, task, queue, log>>

Sender == 1 .. Senders

(* The packets of a task: the streams of every host. *)
Slots == (1 .. Hosts) \X (1 .. Streams)

(* _context_set refuses a negative number of retries; --probes is not 0,   *)
(* or no host would be sent anything.                                       *)
InterfaceAssumption == Senders \in Nat /\ Hosts \in Nat /\ Streams \in Nat \ {0} /\ Retries \in Nat

(* The drivers, and what they can do.  _make_driver makes none for dpdk.   *)
Known == {"pfring", "libpcap", "linux"}
create_rx_private_data == {"pfring", "libpcap"}
create_tx_private_data == {"pfring", "linux"}
NeedsConfig == {"pfring", "libpcap"}

Idle == [host |-> 1, stream |-> 1, attempt |-> 1, ok |-> FALSE, idx |-> 0, sent |-> 0, failures |-> 0]

Init ==
  /\ type \in [send : Types, recv : Types]
  /\ cfname \in [send : BOOLEAN, recv : BOOLEAN]
  /\ pc = "send_interface" /\ made = {}
  /\ task = [t \in Sender |-> Idle] /\ queue = [t \in Sender |-> <<>>]
  /\ log = [t \in Sender |-> [s \in Slots |-> <<>>]]

Goto(to) == pc' = to /\ UNCHANGED <<type, cfname, task, queue, log>>

(* xm_if_create: the interface has an address, the type has a driver and   *)
(* the driver its configuration.                                           *)
xm_if_create(role, to) ==
  LET t == IF role = "send" THEN type.send ELSE type.recv
      c == IF role = "send" THEN cfname.send ELSE cfname.recv
  IN  /\ UNCHANGED made
      /\ \/ Goto("refused")
         \/ t \in Known /\ (t \in NeedsConfig => c) /\ Goto(to)

(* The private data of a driver: none can be made of a function that is    *)
(* not there, and the device or its memory may refuse.                     *)
Create(d, t, able, to) ==
  IF t \notin able THEN Goto("crash") /\ UNCHANGED made
  ELSE \/ Goto("refused") /\ UNCHANGED made
       \/ Goto(to) /\ made' = made \cup {d}

SendInterface == pc = "send_interface" /\ xm_if_create("send", "recv_interface")
RecvInterface == pc = "recv_interface" /\ xm_if_create("recv", "tasks")

(* xm_send_task_create for every sender, then xm_recv_task_create.         *)
SendTask ==
  LET n == Cardinality(made) IN
  /\ pc = "tasks" /\ n < Senders
  /\ Create(n + 1, type.send, create_tx_private_data, "tasks")

RecvTask ==
  /\ pc = "tasks" /\ Cardinality(made) = Senders
  /\ Create(Senders + 1, type.recv, create_rx_private_data, "run")

-----------------------------------------------------------------------------
(* attempts *)
Attempts == Retries + 1

(* What send returns: a raw socket may fail.  PF_RING copies the packet to *)
(* a buffer of its own and spins until the queue has room for it; nothing  *)
(* takes packets from the queue, which belongs to no device.               *)
Result(t) ==
  IF type.send = "linux" THEN {"ok", "failed"}
  ELSE IF Len(queue[t]) < TxQueueLen THEN {"ok"} ELSE {}

(* Mutant: a packet that was sent is tried again all the same.             *)
Last_all(p, result) == p.attempt = Attempts

(* No further attempt follows this one.                                    *)
Last(p, result) == result = "ok" \/ p.attempt = Attempts

Counted(p, ok) ==
  LET q == [p EXCEPT !.attempt = 1, !.ok = FALSE, !.failures = IF ok THEN @ ELSE @ + 1,
                     !.idx = (@ + 1) % 256]
  IN  IF p.stream < Streams THEN [q EXCEPT !.stream = @ + 1]
      ELSE [q EXCEPT !.stream = 1, !.host = @ + 1, !.sent = @ + 1]

(* One attempt to send one packet. *)
Attempt(t) ==
  LET p == task[t] IN
  /\ pc = "run" /\ p.host <= Hosts
  /\ \E r \in Result(t) :
       LET ok == p.ok \/ r = "ok"
       IN /\ log' = [log EXCEPT ![t][<<p.host, p.stream>>] = Append(@, r)]
          /\ queue' = IF type.send = "linux" THEN queue
                      ELSE [queue EXCEPT ![t] = Append(@, p.idx % TxPerNBuf)]
          /\ task' = [task EXCEPT ![t] = IF Last(p, r) THEN Counted(p, ok)
                                         ELSE [p EXCEPT !.attempt = @ + 1, !.ok = ok]]
  /\ UNCHANGED <<type, cfname, pc, made>>

Next == SendInterface \/ RecvInterface \/ SendTask \/ RecvTask \/ \E t \in Sender : Attempt(t)

Spec == Init /\ [][Next]_ifVars

-----------------------------------------------------------------------------
(* Property. *)

(* With the types that are documented no task calls what its driver does   *)
(* not have.  A packet is sent at most once, and only after fewer failures *)
(* than there are attempts; every one that was given up has been tried     *)
(* --retries times more and is counted as a failure; a task goes on to its *)
(* next host only when all packets of this one are settled.                *)
SendsSettled ==
  /\ type.send \in create_tx_private_data /\ type.recv \in create_rx_private_data => pc # "crash"
  /\ \A t \in Sender :
       LET p == task[t]
           settled == { s \in Slots : s[1] < p.host \/ (s[1] = p.host /\ s[2] < p.stream) }
           good(s) == { i \in DOMAIN log[t][s] : log[t][s][i] = "ok" }
       IN /\ \A s \in settled :
               \/ good(s) = {Len(log[t][s])} /\ Len(log[t][s]) <= Retries + 1
               \/ good(s) = {} /\ Len(log[t][s]) = Retries + 1
          /\ p.failures = Cardinality({ s \in settled : good(s) = {} })
          /\ p.sent = p.host - 1
          /\ p.idx = Cardinality(settled) % 256
=============================================================================
