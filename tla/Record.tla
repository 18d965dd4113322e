------------------------------- MODULE Record -------------------------------
(***************************************************************************)
(* One result on its way from a believed packet to a Java object: what     *)
(* xm_probe_ip_store and probe_process_packet write with xm_store.h to the *)
(* message buffer, xm_store_flush that puts the buffer as one record, and  *)
(* XMapSourceEntryParser with the entry classes that read it.              *)
(*                                                                         *)
(* A message is a sequence of tokens: <<"map", n>>, <<"str", s>> and       *)
(* <<"int", i>>.  The address, number and name of a field are opaque, but  *)
(* for the type, success and the message of the result.                    *)
(***************************************************************************)
EXTENDS Naturals, Sequences, SequencesExt

CONSTANTS
  Packets    (* bound: packets in one run                                  *)

VARIABLES
  probe,     (* context->probe                                             *)
  packet,    (* the packet the receiver stores                             *)
  pk_buf,    (* xstore->pk_buf, a sequence of tokens                       *)
  records,   (* records put to the segment, with their type                *)
  stored,    (* history: the packets of these records                      *)
  step,      (* of the receiver: "ip", "probe", "put" or "idle"            *)
  entries    (* the Java objects, Null for a record that is not understood *)

vars == <<probe, packet, pk_buf, records, stored, step, entries>>

Null == [type |-> 0]
Probes == {"tcp_synscan", "tcp_synackscan", "icmp_echoscan", "icmp_echo_time"}

(* Mutant: the time probe has a number of its own in the Java classes. *)
probe_type_next(p) ==
  CASE p = "icmp_echoscan" -> 2 [] p = "icmp_echo_time" -> 4 [] OTHER -> 1

probe_type(p) ==
  CASE p = "icmp_echoscan" -> 2 [] p = "icmp_echo_time" -> 3 [] OTHER -> 1

IsTcp(p) == probe_type(p) = 1

(* What the receiver looks at of a packet; any other field f is <<f, n>>.   *)
PacketTypes(p) ==
  IF IsTcp(p) THEN {"rst", "synack"}
  ELSE {"echoreply", "unreach", "sourcequench", "redirect", "timxceed", "other"}

Field(p, f) == <<f, p.n>>

-----------------------------------------------------------------------------
(* xm_store.h: a key, if there is one, and a value. *)

Key(k) == IF k = "" THEN <<>> ELSE << <<"str", k>> >>

xm_store_map_start(k, n) == Key(k) \o << <<"map", n>> >>
xm_store_write_uint(k, v) == Key(k) \o << <<"int", v>> >>
xm_store_write_kv(k, v) == << <<"str", k>>, <<"str", v>> >>

Uints(p, names) ==
  FlattenSeq([i \in DOMAIN names |-> xm_store_write_uint(names[i], Field(p, names[i]))])

(* Mutant: the order of the fields is that of IPScanEntry.append2String. *)
xm_probe_ip_store_ttl(p) ==
  xm_store_map_start("", 3) \o xm_store_write_uint("type", probe_type(probe))
  \o xm_store_map_start("ip", 4) \o Uints(p, <<"srcIP", "dstIP", "ttl", "ipid">>)

xm_probe_ip_store(p) ==
  xm_store_map_start("", 3) \o xm_store_write_uint("type", probe_type(probe))
  \o xm_store_map_start("ip", 4) \o Uints(p, <<"srcIP", "dstIP", "ipid", "ttl">>)

Success(p) == IF p.type \in {"synack", "echoreply"} THEN 1 ELSE 0

(* synscan_probe_process_packet *)
synscan_probe_process_packet(p) ==
  xm_store_map_start("tcp", 7)
  \o xm_store_write_uint("success", Success(p))
  \o xm_store_write_kv("msg", IF p.type = "rst" THEN "rst" ELSE "synacn")
  \o Uints(p, <<"sport", "dport", "seqnum", "acknum", "window">>)

(* Here a reset is a success, too. *)
synackscan_probe_process_packet(p) ==
  xm_store_map_start("tcp", 7)
  \o xm_store_write_uint("success", 1)
  \o xm_store_write_kv("msg", IF p.type = "rst" THEN "rst" ELSE "synack")
  \o Uints(p, <<"sport", "dport", "seqnum", "acknum", "window">>)

IcmpFields(p) ==
  xm_store_write_uint("success", Success(p)) \o xm_store_write_kv("msg", p.type)
  \o Uints(p, <<"type", "code", "id", "seq">>)

icmp_probe_process_packet(p) ==
  xm_store_map_start("icmp", 6) \o IcmpFields(p)

icmp_time_probe_process_packet(p) ==
  xm_store_map_start("icmpTime", 9) \o IcmpFields(p)
  \o Uints(p, <<"sentTimestampTS", "sentTimestampUS", "dstRaw">>)

Processed(p) ==
  CASE probe = "tcp_synscan" -> synscan_probe_process_packet(p)
    [] probe = "tcp_synackscan" -> synackscan_probe_process_packet(p)
    [] probe = "icmp_echoscan" -> icmp_probe_process_packet(p)
    [] probe = "icmp_echo_time" -> icmp_time_probe_process_packet(p)

-----------------------------------------------------------------------------
(* The receiver. *)

Init ==
  /\ probe \in Probes
  /\ packet = [n |-> 0, type |-> "none"] /\ pk_buf = <<>>
  /\ records = <<>> /\ stored = <<>> /\ step = "idle" /\ entries = <<>>

Receive ==
  /\ step = "idle" /\ Len(stored) < Packets
  /\ \E t \in PacketTypes(probe) : packet' = [n |-> Len(stored) + 1, type |-> t]
  /\ step' = "ip"
  /\ UNCHANGED <<probe, pk_buf, records, stored, entries>>

StoreIp ==
  /\ step = "ip" /\ step' = "probe"
  /\ pk_buf' = pk_buf \o xm_probe_ip_store(packet)
  /\ UNCHANGED <<probe, packet, records, stored, entries>>

ProcessPacket ==
  /\ step = "probe" /\ step' = "put"
  /\ pk_buf' = pk_buf \o Processed(packet)
  /\ UNCHANGED <<probe, packet, records, stored, entries>>

(* xm_store_flush, of a record that fits *)
Put ==
  /\ step = "put" /\ step' = "idle"
  /\ records' = Append(records, [type |-> probe_type(probe), data |-> pk_buf])
  /\ stored' = Append(stored, packet)
  /\ pk_buf' = <<>>
  /\ UNCHANGED <<probe, packet, entries>>

-----------------------------------------------------------------------------
(* The reader.  A cursor c is the data that is left and whether something   *)
(* was thrown; a field is read whatever its name is.                        *)

Throw(c) == [c EXCEPT !.threw = TRUE]
Advance(c, k) == [c EXCEPT !.left = SubSeq(@, k + 1, Len(@))]
IsA(c, i, kind) == ~c.threw /\ i <= Len(c.left) /\ c.left[i][1] = kind

parseMapHeader(c, hasName) ==
  LET k == IF hasName THEN 2 ELSE 1 IN
  IF (hasName => IsA(c, 1, "str")) /\ IsA(c, k, "map") THEN Advance(c, k) ELSE Throw(c)

(* parseInt, parseLong and parseText, into field f *)
Parse(c, f, kind) ==
  IF IsA(c, 1, "str") /\ IsA(c, 2, kind)
  THEN [Advance(c, 2) EXCEPT !.fields = [g \in DOMAIN @ \cup {f} |-> IF g = f THEN c.left[2][2] ELSE @[g]]]
  ELSE Throw(c)

ParseInts(c, names) == FoldLeft(LAMBDA d, f : Parse(d, f, "int"), c, names)

(* The class of the field comes first: ICMPScanEntry hides type and id.     *)
IPScanEntry(data) ==
  LET c == [left |-> data, threw |-> FALSE, fields |-> <<>>]
      typed == Parse(parseMapHeader(c, FALSE), "ip.type", "int")
  IN  ParseInts(parseMapHeader(typed, TRUE), <<"ip.srcIP", "ip.dstIP", "ip.id", "ip.ttl">>)

SuccessAndMsg(c) == Parse(Parse(parseMapHeader(c, TRUE), "success", "int"), "msg", "str")

TCPSYNScanEntry(data) ==
  ParseInts(SuccessAndMsg(IPScanEntry(data)), <<"srcPort", "dstPort", "seq", "ack", "window">>)

ICMPScanEntry(data) ==
  ParseInts(SuccessAndMsg(IPScanEntry(data)), <<"type", "code", "id", "seq">>)

ICMPTimeScanEntry(data) ==
  ParseInts(ICMPScanEntry(data), <<"sentTimeTS", "sentTimeUS", "dstRawIP">>)

(* XMapSourceEntryParser.parse *)
parse(r) ==
  LET done(c) == IF c.threw THEN Null ELSE [type |-> r.type, fields |-> c.fields] IN
  CASE r.type = 1 -> done(TCPSYNScanEntry(r.data))
    [] r.type = 2 -> done(ICMPScanEntry(r.data))
    [] r.type = 3 -> done(ICMPTimeScanEntry(r.data))
    [] OTHER -> Null

Read ==
  /\ Len(entries) < Len(records)
  /\ entries' = Append(entries, parse(records[Len(entries) + 1]))
  /\ UNCHANGED <<probe, packet, pk_buf, records, stored, step>>

Over ==
  /\ step = "idle" /\ Len(stored) = Packets /\ Len(entries) = Len(records)
  /\ UNCHANGED vars

Next == Receive \/ StoreIp \/ ProcessPacket \/ Put \/ Read \/ Over

Spec == Init /\ [][Next]_vars

-----------------------------------------------------------------------------
(* Properties. *)

(* The names the Java classes give to the fields the probes write. *)
JavaName(f) ==
  CASE f = "srcIP" -> "ip.srcIP" [] f = "dstIP" -> "ip.dstIP"
    [] f = "ipid" -> "ip.id" [] f = "ttl" -> "ip.ttl"
    [] f = "sport" -> "srcPort" [] f = "dport" -> "dstPort"
    [] f = "seqnum" -> "seq" [] f = "acknum" -> "ack"
    [] f = "sentTimestampTS" -> "sentTimeTS" [] f = "sentTimestampUS" -> "sentTimeUS"
    [] f = "dstRaw" -> "dstRawIP" [] OTHER -> f

Written(p) ==
  {"srcIP", "dstIP", "ipid", "ttl"} \cup
  (IF IsTcp(p) THEN {"sport", "dport", "seqnum", "acknum", "window"}
   ELSE {"type", "code", "id", "seq"} \cup
        IF p = "icmp_echo_time" THEN {"sentTimestampTS", "sentTimestampUS", "dstRaw"} ELSE {})

(* The maps of a message have as many entries as their headers say. *)
Entries(data) ==
  LET top == 1 IN
  /\ data[top] = <<"map", 3>> /\ data[5] = <<"map", 4>>
  /\ data[15][1] = "map" /\ Len(data) = 15 + 2 * data[15][2]

(* Every record becomes a Java object in which every field has the value it *)
(* has in the packet of that record, whatever was stored before it; the     *)
(* reader goes by position alone, so both sides must agree on the order.    *)
EntryExact ==
  /\ \A i \in DOMAIN records : Entries(records[i].data)
  /\ \A i \in DOMAIN entries :
       LET e == entries[i] p == stored[i] IN
       /\ e # Null
       /\ \A f \in Written(probe) : e.fields[JavaName(f)] = Field(p, f)
       /\ e.fields["ip.type"] = probe_type(probe)
       /\ e.fields["success"] = IF p.type = "rst" /\ probe = "tcp_synackscan" THEN 1 ELSE Success(p)
=============================================================================
