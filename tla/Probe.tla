------------------------------- MODULE Probe -------------------------------
(***************************************************************************)
(* src/probe, src/xm_validate.c and what the send and receive tasks do     *)
(* with them: a probe carries words computed from its addresses, and an    *)
(* answer is believed when it brings them back.                            *)
(*                                                                         *)
(* xm_validate_gen encrypts a static buffer.  All send tasks and the       *)
(* receive task call it without a lock, so a call is its two writes and    *)
(* the two reads of the cipher, interleaved with those of other calls.     *)
(* What it returns is a pair of addresses: equal pairs give equal words    *)
(* and different pairs different ones.  Only the word that ports are made  *)
(* of is a number (key), because its arithmetic matters.                   *)
(***************************************************************************)
EXTENDS Integers, Sequences, FiniteSets

CONSTANTS
  Senders,      (* send tasks                                              *)
  Targets,      (* Targets[s]: the hosts task s probes, in order           *)
  Sources,      (* source_ip_addresses, a sequence                         *)
  HostIndex,    (* HostIndex[h]: host h as a number, plus srcip_offset     *)
  Router,       (* a host that reports errors about others                 *)
  Streams,      (* packet_streams                                          *)
  NumPorts,     (* source_port_last - source_port_first + 1                *)
  Word,         (* 2^32                                                    *)
  Keys,         (* what validation[1] of every pair may be                 *)
  Kinds,        (* the probe modules to choose from                        *)
  MaxCaptures   (* bound: packets the receive task gets                    *)

Hosts == UNION { { Targets[s][i] : i \in DOMAIN Targets[s] } : s \in Senders }
Mine == { Sources[i] : i \in DOMAIN Sources }
Pairs == (Mine \cup Hosts \cup {Router}) \X (Mine \cup Hosts \cup {Router})
Receiver == "receiver"
Callers == Senders \cup {Receiver}
None == "none"

(* There is an address, a port and a stream; streams may outnumber ports.   *)
ProbeAssumption ==
  /\ Receiver \notin Senders /\ None \notin Mine \cup Hosts \cup {Router}
  /\ Len(Sources) \in Nat \ {0} /\ DOMAIN Sources = 1 .. Len(Sources)
  /\ \A s \in Senders : Len(Targets[s]) \in Nat /\ DOMAIN Targets[s] = 1 .. Len(Targets[s])
  /\ \A h \in Hosts : HostIndex[h] \in Nat
  /\ NumPorts \in Nat \ {0} /\ Word \in Nat \ {0} /\ Streams \in Nat \ {0}
  /\ \A k \in Keys : \A v \in DOMAIN k : k[v] \in Nat
  /\ Kinds \subseteq {"tcp_synscan", "tcp_synackscan", "icmp_echoscan", "icmp_echo_time"}

VARIABLES
  probe,       (* context->probe                                           *)
  key,         (* the key of xm_validate_init: validation[1] of each pair  *)
  aes_input,   (* the static buffer                                        *)
  gpc,         (* gpc[c]: where caller c is in xm_validate_gen             *)
  args,        (* args[c]: the addresses it was called with                *)
  validation,  (* validation[c]: what it returned                          *)
  at, stream,  (* at[s], stream[s]: the host and the stream sender s is at *)
  net,         (* the probes on the network                                *)
  packet,      (* the packet in the hands of the receive task              *)
  regen,       (* whether its validation was computed a second time        *)
  captures,    (* packets captured so far                                  *)
  seen,        (* addresses that have answered                             *)
  stored       (* the packets stored, with their success                   *)

genVars == <<aes_input, gpc, args, validation>>
sendVars == <<at, stream, net>>
recvVars == <<packet, regen, captures, seen, stored>>
vars == <<probe, key, genVars, sendVars, recvVars>>

-----------------------------------------------------------------------------
(* xm_validate_gen, called by c for a pair of addresses. *)

(* The call and its first write. *)
Call(c, src, dst) ==
  /\ args' = [args EXCEPT ![c] = <<src, dst>>]
  /\ aes_input' = [aes_input EXCEPT ![1] = src]
  /\ gpc' = [gpc EXCEPT ![c] = "dst"]
  /\ UNCHANGED validation

(* The caller is done with what it got. *)
Return(c) ==
  /\ gpc' = [gpc EXCEPT ![c] = "idle"]
  /\ args' = [args EXCEPT ![c] = <<None, None>>]
  /\ validation' = [validation EXCEPT ![c] = <<None, None>>]
  /\ UNCHANGED aes_input

WriteWord(c) ==
  /\ gpc[c] = "dst"
  /\ aes_input' = [aes_input EXCEPT ![2] = args[c][2]]
  /\ gpc' = [gpc EXCEPT ![c] = "enc0"]
  /\ UNCHANGED <<args, validation>>

(* rijndaelEncrypt reads the block word by word; the other two are 0. *)
ReadWord(c) ==
  \/ /\ gpc[c] = "enc0"
     /\ validation' = [validation EXCEPT ![c] = <<aes_input[1], None>>]
     /\ gpc' = [gpc EXCEPT ![c] = "enc1"]
     /\ UNCHANGED <<aes_input, args>>
  \/ /\ gpc[c] = "enc1"
     /\ validation' = [validation EXCEPT ![c] = <<@[1], aes_input[2]>>]
     /\ gpc' = [gpc EXCEPT ![c] = "made"]
     /\ UNCHANGED <<aes_input, args>>

Gen(c) ==
  /\ WriteWord(c) \/ ReadWord(c)
  /\ UNCHANGED <<probe, key, sendVars, recvVars>>

Exact(c) == validation[c] = args[c]

(* validation[1]; a pair that no probe is made for does not matter. *)
Number(v) == IF v \in DOMAIN key THEN key[v] ELSE 0

-----------------------------------------------------------------------------
(* xm_packet.h: source ports are offsets from source_port_first here. *)

xm_get_src_port(v, probe_num) == ((Number(v) + probe_num) % Word) % NumPorts

(* % of C *)
Rem(a, n) == IF a < 0 THEN -((-a) % n) ELSE a % n

xm_check_dst_port(port, v) ==
  LET min == Number(v) % NumPorts
      max == ((Number(v) + Streams - 1) % Word) % NumPorts
  IN  /\ port \in 0 .. NumPorts - 1
      /\ Rem(max - min, NumPorts) >= Rem(port - min, NumPorts)

(* When the ports of the streams do not follow one another. *)
PortsWrap(v) ==
  \/ (Number(v) % NumPorts) + Streams - 1 >= NumPorts
  \/ Number(v) + Streams - 1 >= Word

-----------------------------------------------------------------------------
(* Packets.  A sequence number, an acknowledgement and the id and sequence  *)
(* of an echo are a validation and what is added to it.                     *)

Sum(v, n) == <<v, n>>
Zero == Sum(<<None, None>>, 0)

Tcp == probe \in {"tcp_synscan", "tcp_synackscan"}

(* probe_make_packet: th_ack is 0 in either TCP probe. *)
Made(src, dst, v, i) ==
  [src |-> src, dst |-> dst, port |-> IF Tcp THEN xm_get_src_port(v, i) ELSE 0,
   seq |-> Sum(v, 0), exact |-> v = <<src, dst>>]

(* A packet that arrives: of is the probe it answers, which no code sees.   *)
TcpPacket(flags, p, ack, seq) ==
  [type |-> flags, src |-> p.dst, dst |-> p.src, service |-> TRUE, port |-> p.port,
   ack |-> ack, seq |-> seq, hl |-> 5, inner |-> p.dst, of |-> p]

IcmpPacket(type, src, hl, p) ==
  [type |-> type, src |-> src, dst |-> p.src, service |-> FALSE, port |-> 0,
   ack |-> p.seq, seq |-> p.seq, hl |-> hl, inner |-> p.dst, of |-> p]

(* What comes back for a probe p: for a SYN a SYN-ACK or a reset, for a     *)
(* SYN-ACK a reset with the acknowledgement of the probe, which is 0, as    *)
(* its sequence number, or one made by a firewall; for an echo request the  *)
(* reply, or an error of the host or of a router, all with or without IP    *)
(* options.                                                                 *)
Answers(p) ==
  LET ack(n) == Sum(p.seq[1], n) IN
  CASE probe = "tcp_synscan" ->
         {TcpPacket("synack", p, ack(1), Zero), TcpPacket("rst", p, ack(1), Zero),
          TcpPacket("rst", p, ack(0), Zero)}
    [] probe = "tcp_synackscan" ->
         {TcpPacket("rst", p, Zero, Zero), TcpPacket("rst", p, ack(1), Zero)}
    [] OTHER ->
         { IcmpPacket("echoreply", p.dst, hl, p) : hl \in {5, 6} }
         \cup { IcmpPacket("error", s, hl, p) : s \in {p.dst, Router}, hl \in {5, 6} }

(* Packets that answer no probe: other traffic of the hosts. *)
Noise ==
  LET nothing(h) == [src |-> Sources[1], dst |-> h, port |-> 0, seq |-> Zero, exact |-> FALSE]
  IN  { IF Tcp THEN TcpPacket("synack", nothing(h), Zero, Zero)
               ELSE IcmpPacket("echoreply", h, 5, nothing(h)) : h \in Hosts }

(* ICMP_TIMXCEED or ICMP_UNREACH, which are treated alike *)
IsError(p) == p.type = "error"

-----------------------------------------------------------------------------
(* probe_validate_packet of the modules, for a packet p and validation v.   *)

synscan_probe_validate_packet(p, v) ==
  /\ p.service /\ xm_check_dst_port(p.port, v)
  /\ p.ack \in IF p.type = "rst" THEN {Sum(v, 0), Sum(v, 1)} ELSE {Sum(v, 1)}

(* The sequence number of a reset is compared with validation[2], which no  *)
(* probe carries.                                                           *)
synackscan_probe_validate_packet(p, v) ==
  /\ p.service /\ xm_check_dst_port(p.port, v)
  /\ p.ack = Sum(v, 1)

(* Mutant: an echo is believed whatever its id. *)
icmp_probe_validate_packet_any(p, v) == TRUE

(* The header of the probe inside an error is looked for behind an IP       *)
(* header as long as the outer one; its own has no options.                 *)
icmp_probe_validate_packet(p, v) ==
  /\ IsError(p) => p.hl = 5
  /\ p.seq = Sum(v, 0)

(* The same code. *)
icmp_time_probe_validate_packet(p, v) == icmp_probe_validate_packet(p, v)

Validates(p, v) ==
  \/ probe = "tcp_synscan" /\ synscan_probe_validate_packet(p, v)
  \/ probe = "tcp_synackscan" /\ synackscan_probe_validate_packet(p, v)
  \/ probe = "icmp_echoscan" /\ icmp_probe_validate_packet(p, v)
  \/ probe = "icmp_echo_time" /\ icmp_time_probe_validate_packet(p, v)

(* Mutant: an error counts as an answer of the host it is about. *)
Answerer_inner(p) == IF IsError(p) THEN p.inner ELSE p.src

(* *sip after validation: for an error the address of the scanner. *)
Answerer(p) == IF IsError(p) THEN p.dst ELSE p.src

(* The second validation of an error is for the probe inside it. *)
NeedsRegen(p) == ~Tcp /\ IsError(p) /\ ~regen

(* "success" of probe_process_packet. *)
synscan_success(p) == p.type # "rst"
synackscan_success(p) == TRUE
icmp_success(p) == p.type = "echoreply"

Success(p) ==
  CASE probe = "tcp_synscan" -> synscan_success(p)
    [] probe = "tcp_synackscan" -> synackscan_success(p)
    [] OTHER -> icmp_success(p)

-----------------------------------------------------------------------------
(* The send tasks. *)

(* get_src_ip *)
get_src_ip(h, i) == Sources[((HostIndex[h] + i) % Len(Sources)) + 1]

Host(s) == Targets[s][at[s]]

Validate(s) ==
  /\ gpc[s] = "idle" /\ at[s] <= Len(Targets[s])
  /\ Call(s, get_src_ip(Host(s), stream[s]), Host(s))
  /\ UNCHANGED <<probe, key, sendVars, recvVars>>

(* Make the packet, send it, and go on to the next stream or host. *)
Send(s) ==
  /\ gpc[s] = "made"
  /\ net' = net \cup {Made(args[s][1], args[s][2], validation[s], stream[s])}
  /\ stream' = [stream EXCEPT ![s] = (@ + 1) % Streams]
  /\ at' = [at EXCEPT ![s] = IF stream[s] = Streams - 1 THEN @ + 1 ELSE @]
  /\ Return(s)
  /\ UNCHANGED <<probe, key, recvVars>>

-----------------------------------------------------------------------------
(* The receive task. *)

(* _recv_packet_handle, up to the first xm_validate_gen *)
Capture(p) ==
  /\ gpc[Receiver] = "idle" /\ captures < MaxCaptures
  /\ packet' = p /\ regen' = FALSE /\ captures' = captures + 1
  /\ Call(Receiver, p.dst, p.src)
  /\ UNCHANGED <<probe, key, sendVars, seen, stored>>

(* The inner probe of an error is validated instead. *)
Regenerate ==
  /\ gpc[Receiver] = "made" /\ NeedsRegen(packet)
  /\ regen' = TRUE
  /\ Call(Receiver, packet.dst, packet.inner)
  /\ UNCHANGED <<probe, key, sendVars, packet, captures, seen, stored>>

Judges == gpc[Receiver] = "made" /\ ~NeedsRegen(packet)

Drop ==
  /\ packet' = None /\ regen' = FALSE
  /\ Return(Receiver)
  /\ UNCHANGED <<probe, key, sendVars, captures>>

Refuse ==
  /\ Judges /\ ~Validates(packet, validation[Receiver])
  /\ Drop /\ UNCHANGED <<seen, stored>>

Result(p) == [packet |-> p, success |-> Success(p)]

(* Store the first packet of every answerer. *)
Believe ==
  /\ Judges /\ Validates(packet, validation[Receiver])
  /\ seen' = seen \cup {Answerer(packet)}
  /\ stored' = IF Answerer(packet) \in seen THEN stored ELSE stored \cup {Result(packet)}
  /\ Drop

-----------------------------------------------------------------------------
Init ==
  /\ probe \in Kinds /\ key \in Keys
  /\ aes_input = <<None, None>>
  /\ gpc = [c \in Callers |-> "idle"]
  /\ args = [c \in Callers |-> <<None, None>>]
  /\ validation = [c \in Callers |-> <<None, None>>]
  /\ at = [s \in Senders |-> 1] /\ stream = [s \in Senders |-> 0]
  /\ net = {}
  /\ packet = None /\ regen = FALSE /\ captures = 0
  /\ seen = {} /\ stored = {}

(* The network delivers an answer to any probe sent, any number of times.   *)
Deliver == \E p \in Noise \cup UNION { Answers(q) : q \in net } : Capture(p)

Over ==
  /\ \A s \in Senders : at[s] > Len(Targets[s])
  /\ gpc[Receiver] = "idle" /\ captures = MaxCaptures
  /\ UNCHANGED vars

Next ==
  \/ \E c \in Callers : Gen(c)
  \/ \E s \in Senders : Validate(s) \/ Send(s)
  \/ Deliver \/ Regenerate \/ Refuse \/ Believe
  \/ Over

Spec == Init /\ [][Next]_vars

-----------------------------------------------------------------------------
(* Properties. *)

(* A packet is believed only if it answers a probe this scan has sent to    *)
(* the host it speaks of, however the calls of xm_validate_gen interleave:  *)
(* words of two hosts mixed up never make a third packet an answer.         *)
OnlyAnswers ==
  Judges /\ Validates(packet, validation[Receiver]) =>
    packet.of \in net /\ packet.inner = packet.of.dst

(* An answer is refused only for one of these reasons: the words of its     *)
(* probe, or those it is compared with, were mixed with another call's; the *)
(* ports of the streams wrap; it is an error with IP options; or it is the  *)
(* reset a host sends to a SYN-ACK.                                         *)
MissedOnly ==
  Judges /\ packet.of \in net /\ ~Validates(packet, validation[Receiver]) =>
    \/ ~packet.of.exact \/ ~Exact(Receiver)
    \/ Tcp /\ PortsWrap(packet.of.seq[1])
    \/ IsError(packet) /\ packet.hl # 5
    \/ probe = "tcp_synackscan" /\ packet.ack = Zero

(* One packet is stored of each host, and one of all the errors that reach  *)
(* an address of the scanner; and an error never hides a host's own answer: *)
(* of every host that answered an answer of its own is stored.              *)
StoredOnce ==
  /\ \A r, q \in stored :
       \/ r = q
       \/ IF IsError(r.packet) THEN r.packet.dst # q.packet.dst \/ ~IsError(q.packet)
                              ELSE r.packet.src # q.packet.src \/ IsError(q.packet)
  /\ \A h \in seen \ Mine : \E r \in stored : ~IsError(r.packet) /\ r.packet.src = h

=============================================================================
