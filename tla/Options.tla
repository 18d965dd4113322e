------------------------------- MODULE Options -------------------------------
(***************************************************************************)
(* The options of both programs: the generated parsers (src/xopt.c,        *)
(* src/xitopt.c), main, and the context xmap makes of what they return     *)
(* (src/xm_context.c).  An argument is a list of numbers or no number:     *)
(*   <<>> none, <<n>> a number or a name, <<a, b>> a range of ports, and   *)
(*   <<a, b, c, d, ..>> ranges of source addresses; Junk is any other text *)
(* Abbreviated names and the layout of a line are left out.                *)
(***************************************************************************)
EXTENDS Integers, Sequences, FiniteSets, SequencesExt

CONSTANTS
  W8, W16, W32,  (* 2^8, 2^16, 2^32                                        *)
  MaxSources,    (* 256, the length of source_ip_addresses                 *)
  CommandLines,  (* sequences of [opt, val]                                *)
  Files          (* Files[f]: what file f may hold, sequences of lines, or *)
                 (* Absent; no file includes itself                        *)

VARIABLES
  program,  (* "xmap" or "xiterate"                                        *)
  cmdline,  (* its arguments                                               *)
  file,     (* file[f]: the lines of file f: 0 is the default one, 1       *)
            (* another one, 2 one that they may include                    *)
  args,     (* gengetopt_args_info: given and arg of every option          *)
  pc, context

optVars == <<program, cmdline, file, args, pc, context>>

Junk == <<-1, -1, -1>>
Absent == << <<"absent">> >>
Number(v) == Len(v) = 1

(* name, type and default of the options, section by section *)
Basic == {<<"target-port", "int", <<>>>>, <<"blacklist-file", "string", <<>>>>,
          <<"whitelist-file", "string", <<>>>>, <<"list-of-ips-file", "string", <<>>>>,
          <<"core-mask", "string", <<>>>>}
ScanOptions == {<<"rate", "int", <<>>>>, <<"bandwidth", "string", <<>>>>,
          <<"max-targets", "string", <<>>>>, <<"max-runtime", "int", <<>>>>,
          <<"max-results", "int", <<>>>>, <<"probes", "int", <<1>>>>,
          <<"cooldown-time", "int", <<8>>>>, <<"seed", "int", <<>>>>}
Network == {<<"source-port", "string", <<>>>>, <<"source-ip", "string", <<>>>>,
          <<"gateway-mac", "string", <<>>>>, <<"interface-send", "string", <<>>>>,
          <<"interface-recv", "string", <<>>>>, <<"iplayer", "flag", <<>>>>}
Additional == {<<"probe-module", "string", <<0>>>>, <<"log-level", "string", <<0>>>>,
          <<"log-file", "string", <<>>>>, <<"config", "string", <<0>>>>,
          <<"sender-threads", "int", <<1>>>>, <<"help", "flag", <<>>>>, <<"version", "flag", <<>>>>}
LongOnly == {<<"retries", "int", <<10>>>>, <<"shards", "int", <<1>>>>, <<"shard", "int", <<0>>>>,
          <<"source-mac", "string", <<>>>>, <<"interface-send-type", "string", <<>>>>,
          <<"interface-recv-type", "string", <<>>>>, <<"interface-send-cfname", "string", <<>>>>,
          <<"interface-recv-cfname", "string", <<>>>>, <<"probe-args", "string", <<>>>>}
LongOnlyToo == {<<"probe-ttl", "int", <<255>>>>, <<"list-probe-modules", "flag", <<>>>>,
          <<"max-sendto-failures", "int", <<-1>>>>, <<"min-hitrate", "int", <<0>>>>,
          <<"shm-fname", "string", <<0>>>>, <<"shm-fsize", "int", <<4294967>>>>,
          <<"shm-fentry-size", "int", <<65536>>>>, <<"shm-flush-timeout", "int", <<60>>>>,
          <<"ignore-invalid-hosts", "flag", <<>>>>, <<"ignore-blacklist-errors", "flag", <<>>>>}
XitShort == {<<"blacklist-file", "string", <<>>>>, <<"whitelist-file", "string", <<>>>>,
          <<"log-file", "string", <<>>>>, <<"verbosity", "int", <<3>>>>, <<"seed", "int", <<>>>>,
          <<"max-targets", "string", <<>>>>, <<"help", "flag", <<>>>>, <<"version", "flag", <<>>>>}
XitLong == {<<"ignore-blacklist-errors", "flag", <<>>>>, <<"shards", "int", <<1>>>>,
          <<"shard", "int", <<0>>>>}

XmapOptions == Basic \cup ScanOptions \cup Network \cup Additional \cup LongOnly \cup LongOnlyToo
Table == IF program = "xmap" THEN XmapOptions ELSE XitShort \cup XitLong
Names == { o[1] : o \in Table }
Option(n) == CHOOSE o \in Table : o[1] = n

(* clear_given and clear_args *)
clear_given == [n \in Names |-> 0]
clear_args == [n \in Names |-> Option(n)[3]]

(* override is 0: what an earlier source gave stays.                       *)
Kept(p, n) == p.given[n] > 0

(* One option of a source.  p.local counts those of the source itself.     *)
update_arg(p, it) ==
  LET n == it.opt
      wrong == \/ n \notin Names
               \/ (Option(n)[2] = "flag") # (it.val = <<>>)
               \/ p.local[n] > 0
               \/ ~Kept(p, n) /\ Option(n)[2] = "int" /\ ~Number(it.val)
  IN  IF p.failed \/ wrong THEN [p EXCEPT !.failed = TRUE]
      ELSE IF Kept(p, n) THEN p
      ELSE [p EXCEPT !.local[n] = 1, !.given[n] = 1, !.arg[n] = it.val]

cmdline_parser_internal(argv) ==
  FoldLeft(update_arg, [given |-> args.given, arg |-> args.arg,
                        local |-> clear_given, failed |-> FALSE], argv)

(* The options of a file and of what it includes; a bad line ends it, and  *)
(* the result of an include replaces that of all lines before.             *)
ReadLines(f, included) ==
  IF f = Absent THEN [argv |-> <<>>, failed |-> TRUE]
  ELSE LET step(r, line) ==
             IF r.ended THEN r
             ELSE CASE line[1] = "bad" -> [r EXCEPT !.failed = TRUE, !.ended = TRUE]
                    [] line[1] = "item" -> [r EXCEPT !.argv = Append(@, line[2])]
                    [] OTHER -> LET i == included[line[2]] IN
                         [r EXCEPT !.argv = @ \o i.argv, !.failed = i.failed]
       IN  FoldLeft(step, [argv |-> <<>>, failed |-> FALSE, ended |-> FALSE], f)

(* Bound: an included file includes no other. *)
NoMore == [g \in DOMAIN file |-> [argv |-> <<>>, failed |-> TRUE]]
Included == [g \in DOMAIN file |-> ReadLines(file[g], NoMore)]

_cmdline_parser_configfile(f) == ReadLines(file[f], Included)

-----------------------------------------------------------------------------
given(n) == args.given[n] > 0
arg(n) == args.arg[n][1]

(* SET_IF_GIVEN: what the context keeps of an option.                      *)
Given(n, initial) == IF given(n) THEN arg(n) ELSE initial

(* add_to_array and xm_parse_source_ip_addresses: every range up to its    *)
(* last address, through the end of the address space if it must, until    *)
(* there are MaxSources of them.                                           *)
add_to_array(list, a) == IF Len(list) >= MaxSources THEN list ELSE Append(list, a)

xm_parse_source_ip_addresses(v) ==
  LET range(i) == [k \in 1 .. ((v[2 * i] + 1 - v[2 * i - 1]) % W32) |-> (v[2 * i - 1] + k - 1) % W32]
      part(list, i) == FoldLeft(add_to_array, list, range(i))
  IN  FoldLeft(part, <<>>, [i \in 1 .. Len(v) \div 2 |-> i])

(* xm_parse_max_hosts, without percentages *)
xm_parse_max_hosts(v) ==
  CASE ~Number(v) -> 0 [] v[1] <= 0 -> 0 [] v[1] >= W32 -> W32 - 1 [] OTHER -> v[1]

max_targets == IF given("max-targets") THEN xm_parse_max_hosts(args.arg["max-targets"]) ELSE W32 - 1

(* A probe that uses ports is 0; the first port of a range is wrapped      *)
(* before it is compared with its bounds.                                  *)
port_args == arg("probe-module") = 0
SourcePorts ==
  LET v == args.arg["source-port"] IN
  IF ~(port_args /\ given("source-port")) THEN <<32768 % W16, 61000 % W16>>
  ELSE IF Len(v) = 2 THEN <<v[1] % W16, v[2] % W16>> ELSE <<v[1], v[1]>>

(* Mutant: only a shard number without a number of shards is refused.      *)
ShardingRefused_half ==
  \/ (given("shard") \/ given("shards")) /\ ~given("seed")
  \/ given("shard") /\ ~given("shards")
  \/ given("shards") /\ arg("shards") \notin 1 .. W16 - 1

ShardingRefused ==
  \/ (given("shard") \/ given("shards")) /\ ~given("seed")
  \/ given("shard") # given("shards")
  \/ given("shard") /\ arg("shard") \notin 0 .. W16 - 2
  \/ given("shards") /\ arg("shards") \notin 1 .. W16 - 1
  \/ Given("shard", 0) >= Given("shards", 1)

PortsRefused ==
  port_args /\
  \/ given("source-port") /\ ~Number(args.arg["source-port"]) /\ SourcePorts[1] > SourcePorts[2]
  \/ given("source-port") /\ Number(args.arg["source-port"]) /\ arg("source-port") \notin 0 .. W16 - 1
  \/ ~given("target-port")
  \/ given("target-port") /\ arg("target-port") \notin 0 .. W16 - 1

Refused ==
  \/ arg("probe-module") \notin {0, 1}
  \/ Given("retries", 0) < 0
  \/ PortsRefused \/ ShardingRefused
  \/ given("bandwidth") /\ ~Number(args.arg["bandwidth"])

senders ==
  LET n == Given("sender-threads", 1) % W8
      most == max_targets
  IN  IF 2 * n >= most THEN 1 ELSE n

(* own: the address of the interface. *)
Context(own) ==
  LET sources == xm_parse_source_ip_addresses(args.arg["source-ip"])
      positive(n, default) == IF Given(n, 0) = 0 THEN default ELSE arg(n)
  IN [target_port |-> IF port_args THEN arg("target-port") ELSE 0, source_ports |-> SourcePorts,
      sources |-> IF sources = <<>> THEN <<own>> ELSE sources,
      num_retries |-> Given("retries", 0), packet_streams |-> Given("probes", 1),
      cooldown_secs |-> arg("cooldown-time"), probe_ttl |-> Given("probe-ttl", 255) % W8,
      shard_num |-> Given("shard", 0), total_shards |-> Given("shards", 1),
      max_targets |-> max_targets, max_results |-> Given("max-results", 0), senders |-> senders,
      max_sendto_failures |-> Given("max-sendto-failures", -1),
      shm_flush_timeout |-> positive("shm-flush-timeout", 60),
      shm_fentry_size |-> positive("shm-fentry-size", 65536)]

-----------------------------------------------------------------------------
Nothing == [target_port |-> 0]

Init ==
  /\ program \in {"xmap", "xiterate"}
  /\ cmdline \in CommandLines
  /\ file \in { f \in [0 .. 2 -> UNION { Files[g] : g \in 0 .. 2 }] :
                 \A g \in 0 .. 2 : f[g] \in IF program = "xmap" THEN Files[g] ELSE {Absent} }
  /\ args = [given |-> clear_given, arg |-> clear_args]
  /\ pc = "command" /\ context = Nothing

Exit(to) == pc' = to /\ UNCHANGED <<program, cmdline, file, context>>

CommandLine ==
  LET p == cmdline_parser_internal(cmdline) IN
  /\ pc = "command"
  /\ args' = [given |-> p.given, arg |-> p.arg]
  /\ Exit(CASE p.failed -> "failure" [] program = "xmap" -> "file" [] OTHER -> "options")

(* A file that is named must exist, the default one need not.              *)
ConfigFile ==
  LET f == arg("config")
      r == _cmdline_parser_configfile(f)
      p == cmdline_parser_internal(r.argv)
      read == given("config") \/ file[f] # Absent
  IN /\ pc = "file"
     /\ args' = IF read /\ ~r.failed THEN [given |-> p.given, arg |-> p.arg] ELSE args
     /\ Exit(IF read /\ (r.failed \/ p.failed) THEN "failure" ELSE "options")

Asks == \/ given("help") \/ given("version")
        \/ program = "xmap" /\ given("list-probe-modules")

Help == pc = "options" /\ Asks /\ Exit("exit") /\ UNCHANGED args

(* The options are good; xiterate goes on as module Xiterate says.         *)
Create ==
  /\ pc = "options" /\ ~Asks
  /\ program = "xmap" => ~Refused
  /\ pc' = "ready"
  /\ IF program = "xmap" THEN \E own \in 0 .. 1 : context' = Context(own) ELSE UNCHANGED context
  /\ UNCHANGED <<program, cmdline, file, args>>

(* Also when a list cannot be read or allows nothing, or the interface     *)
(* has no address or no gateway.                                           *)
CreateFails == pc = "options" /\ ~Asks /\ Exit("failure") /\ UNCHANGED args

Next == CommandLine \/ ConfigFile \/ Help \/ Create \/ CreateFails

Spec == Init /\ [][Next]_optVars

-----------------------------------------------------------------------------
(* Property. *)

Items(s) == { s[i] : i \in DOMAIN s }
(* The options of the file that was read, if one was. *)
FileItems ==
  LET f == arg("config") IN
  IF program = "xiterate" \/ file[f] = Absent THEN {} ELSE
  LET lines == Items(file[f])
      own == { l[2] : l \in { m \in lines : m[1] = "item" } }
      more == { l \in IF file[2] = Absent THEN {} ELSE Items(file[2]) : l[1] = "item" }
  IN  own \cup IF \E l \in lines : l[1] = "include" THEN { l[2] : l \in more } ELSE {}

(* Once the options have been read, each has the value of the command line *)
(* if it is there, else that of the file, else its default, and none is    *)
(* given twice in one place.  main reads the file in a second pass that    *)
(* must not replace what the first one found.                              *)
Precedence ==
  pc \in {"options", "ready"} =>
  /\ \A i, j \in DOMAIN cmdline : cmdline[i].opt = cmdline[j].opt => i = j
  /\ \A n \in Names :
       LET line == { it.val : it \in { c \in Items(cmdline) : c.opt = n } }
           lower == { it.val : it \in { c \in FileItems : c.opt = n } }
           most == IF line # {} THEN line ELSE IF lower # {} /\ n # "config" THEN lower ELSE {Option(n)[3]}
       IN  n = "config" \/ (Cardinality(most) = 1 /\ args.arg[n] \in most
                            /\ given(n) = (line # {} \/ lower # {}))

(* What the other parts take for granted of a context that was accepted:   *)
(* an existing shard of a cycle that its seed fixes, a range of ports, a   *)
(* source address, a number of senders that 2^8 does not wrap to 0, and    *)
(* the documented default of every option that was not given, but for      *)
(* --retries, whose default of 10 does not reach the context.              *)
Accepted ==
  pc = "ready" /\ program = "xmap" =>
  LET c == context IN
  /\ c.shard_num \in 0 .. c.total_shards - 1
  /\ c.total_shards > 1 => given("seed") /\ given("shard")
  /\ c.source_ports[1] \in 0 .. c.source_ports[2] /\ c.source_ports[2] < W16
  /\ Len(c.sources) \in 1 .. MaxSources
  /\ port_args => given("target-port")
  /\ c.senders \in 1 .. W8 - 1 \/ Given("sender-threads", 1) % W8 = 0
  /\ c.senders > 1 => 2 * c.senders < c.max_targets
  /\ \A d \in {<<"probes", c.packet_streams>>, <<"cooldown-time", c.cooldown_secs>>,
               <<"shm-flush-timeout", c.shm_flush_timeout>>, <<"shard", c.shard_num>>,
               <<"shm-fentry-size", c.shm_fentry_size>>, <<"shards", c.total_shards>>,
               <<"max-sendto-failures", c.max_sendto_failures>>} :
       ~given(d[1]) => d[2] = Option(d[1])[3][1]

OptionsExact == Precedence /\ Accepted
=============================================================================
