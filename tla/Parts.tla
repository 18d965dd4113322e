-------------------------------- MODULE Parts --------------------------------
(***************************************************************************)
(* One instance of every part that is checked alone.  A behaviour is that  *)
(* of one part, whose variables are v1, v2, ...; the others stay unused.   *)
(***************************************************************************)
EXTENDS Integers, Sequences, FiniteSets, TLC

CONSTANTS
  Threads, Half, Amounts, MaxCounts,                        (* of Locks    *)
  Senders, Targets, Sources, HostIndex, Router, Streams,    (* of Probe    *)
  NumPorts, Word, PairKeys, Kinds, MaxCaptures,
  ALIGNMENT, PoolSizes, MaxAlloc, PoolHeader, DataHeader,   (* of Pools    *)
  LargeRecord, CleanupRecord, AskedSizes, FailLimit, ReuseLimit,
  ObjectMem, ObjectHeaders, ObjectSizes, Limits, PoolCalls,
  SendTasks, HostsEach, Retries, TxPerNBuf, TxQueueLen,     (* of Interface *)
  Bits, BinNumbers, BinStrings, BinSizes, BinWrites         (* of BinFormat *)

VARIABLES part, v1, v2, v3, v4, v5, v6, v7, v8, v9, v10, v11, v12, v13, v14

(* The arguments of --max-targets: hundredths, percentages and no number.  *)
Texts ==
  { [hundredths |-> h, percent |-> p, junk |-> FALSE] : h \in {50, 200, 1300}, p \in BOOLEAN }
  \cup {[hundredths |-> 0, percent |-> FALSE, junk |-> TRUE]}

(* Options: good and bad ones, alone, in pairs and behind good ones; files *)
(* that are missing, empty, bad, or include another one.                   *)
It(n, v) == [opt |-> n, val |-> v]
Words ==
  {It("target-port", <<1>>), It("target-port", <<70>>), It("shards", <<3>>), It("shard", <<2>>),
   It("shard", <<3>>), It("seed", <<5>>), It("source-port", <<2, 4>>), It("source-port", <<4, 2>>),
   It("sender-threads", <<6>>), It("max-targets", <<6>>), It("source-ip", <<14, 1, 3, 3>>),
   It("config", <<1>>), It("probe-module", <<1>>), It("help", <<>>), It("unknown", <<1>>)}
Lines ==
  {<<"item", It("target-port", <<2>>)>>, <<"item", It("seed", <<6>>)>>, <<"item", It("seed", <<-1, -1, -1>>)>>,
   <<"include", 2>>, <<"bad">>}
Missing == << <<"absent">> >>
Sharding ==
  {It("shards", <<3>>), It("shard", <<2>>), It("shard", <<3>>), It("source-port", <<2, 4>>),
   It("sender-threads", <<6>>), It("max-targets", <<6>>), It("config", <<1>>), It("help", <<>>)}
CommandLines ==
  {<<>>} \cup {<<a>> : a \in Words}
  \cup {<<a, b>> : a \in Words, b \in {It("shard", <<2>>), It("seed", <<5>>), It("config", <<1>>)}}
  \cup {<<It("target-port", <<1>>), It("seed", <<5>>), a, b>> : a \in Words, b \in Sharding}
Files ==
  <<{Missing, << <<"item", It("target-port", <<2>>)>> >>},
    {Missing, << <<"bad">> >>, << <<"item", It("seed", <<6>>)>> >>}>>
  @@ (0 :> {Missing, <<>>} \cup {<<a>> : a \in Lines} \cup {<< <<"include", 2>>, a>> : a \in Lines}
           \cup {<<a, <<"include", 2>> >> : a \in Lines})

(* Configuration files: directives with and without arguments, includes of *)
(* a file, of two, of none and of themselves, a line that is too long.     *)
ConfigLines ==
  {<<"set", "SnapLen", <<1>>>>, <<"set", "SnapLen", <<2>>>>, <<"set", "SnapLen", <<>>>>,
   <<"set", "TXNQueue", <<1>>>>, <<"include", FALSE, FALSE, << <<2>> >> >>,
   <<"include", FALSE, TRUE, << <<2>>, <<3>> >> >>, <<"include", TRUE, TRUE, <<>> >>,
   <<"include", FALSE, TRUE, <<>> >>, <<"long">>}
Upto2(S) == {<<>>} \cup {<<a>> : a \in S} \cup {<<a, b>> : a, b \in S}
Systems ==
  {<<f, g, h>> :
     f \in Upto2(ConfigLines),
     g \in {<< <<"missing">> >>, <<>>} \cup {<<a>> : a \in ConfigLines}
           \cup {<< <<"include", FALSE, FALSE, << <<3>> >> >>, a>> : a \in ConfigLines},
     h \in {<< <<"missing">> >>, << <<"set", "SnapLen", <<3>>>> >>, << <<"set", "WaitMS", <<3>>>> >>,
           << <<"include", FALSE, FALSE, << <<1>> >> >> >>}}

(* Two spellings of a key, another with the first four bytes, and a fourth *)
(* in another bucket.                                                      *)
Keys == {"Accept", "ACCEPT", "Access", "Host"}
Fold == [k \in Keys |-> IF k = "Host" THEN 3 ELSE IF k = "Access" THEN 2 ELSE 1]
Hash == [k \in Keys |-> IF k = "Host" THEN 8 ELSE 1]

(* Files with one of each way to open them, longer than the buffer or not  *)
(* there; patterns of wildcards, brackets and separators.                  *)
OpenFlags ==
  {{"read", "buffered"}, {"read"}, {"read", "write", "buffered"}, {"read", "write"},
   {"write", "create", "append"}, {"read", "write", "append", "buffered"},
   {"write", "create", "truncate", "buffered"},
   {"write", "create", "excl", "buffered", "delonclose"}, {"read", "excl"}, {"create"}}
UpTo(T, n) == UNION {[1..k -> T] : k \in 0..n}
ASCII ==
  (" " :> 32) @@ ("!" :> 33) @@ ("*" :> 42) @@ ("-" :> 45) @@ ("." :> 46) @@ ("/" :> 47)
  @@ ("?" :> 63) @@ ("B" :> 66) @@ ("[" :> 91) @@ ("\\" :> 92) @@ ("]" :> 93) @@ ("^" :> 94)
  @@ ("a" :> 97) @@ ("b" :> 98)
Patterns ==
  UpTo({"*", "?", "a", "/"}, 3) \cup UpTo({"*", ".", "/", "\\"}, 3)
  \cup {<<"*", "a", "b">> \o t : t \in UpTo({"*", "a"}, 2)}
  \cup {<<"[">> \o t : t \in UpTo({"]", "!", "-", "\\", "a", "B"}, 3)}
Strings == UpTo({"a", "/", "."}, 3) \cup {<<"b">>, <<"[", "a">>, <<"a", "a", "b">>, <<"a", "a", "b", "a">>}
MatchFlags == {{}, {"noescape", "pathname", "period"}, {"pathname", "nocase"}}

Iterator == INSTANCE IpIterator WITH Prime <- 7, Primroot <- 3, Factors <- {2, 3}, Limit <- 16,
  MaxIndex <- 5, Shards <- 1, Senders <- 1, MaxTargets <- 4, Objects <- {"o1", "o2"}, MaxPools <- 2,
  context <- v1, pools <- v2, live <- v3, object <- v4, got <- v5, overlap <- v6, broken <- v7, written <- v8
Xit == INSTANCE Xiterate WITH Prime <- 7, Primroot <- 3, Factors <- {2, 3}, Limit <- 16, MaxIndex <-
  5, Shards <- 4, Senders <- 1, MaxTargets <- 4, Width16 <- 6, Texts <- Texts, args <- v1, seeded <-
  v2, pc <- v3, walk <- v4, out <- v5
Bin == INSTANCE BinFormat WITH Numbers <- BinNumbers, Strings <- BinStrings, Sizes <- BinSizes,
  MaxWrites <- BinWrites, which <- v1, size <- v2, bytes <- v3, written <- v4, calls <-
  v5, pos <- v6, got <- v7
Rec == INSTANCE Record WITH Packets <- 2, probe <- v1, packet <- v2, pk_buf <- v3, records <- v4,
  stored <- v5, step <- v6, entries <- v7
Opt == INSTANCE Options WITH W8 <- 4, W16 <- 8, W32 <- 16, MaxSources <- 4, CommandLines <-
  CommandLines, Files <- Files, program <- v1, cmdline <- v2, file <- v3, args <- v4, pc <- v5,
  context <- v6
Conf == INSTANCE Config WITH Systems <- Systems, Main <- 1, MaxNested <- 3, directives <- v1, fs <-
  v2, ari <- v3, arr <- v4, parms <- v5, pc <- v6, applied <- v7
If == INSTANCE Interface WITH Senders <- SendTasks, Hosts <- HostsEach, type <- v1, cfname <- v2,
  pc <- v3, made <- v4, task <- v5, queue <- v6, log <- v7
Lock == INSTANCE Locks WITH cnt <- v1, locked <- v2, pc <- v3, x <- v4, width <- v5, num <- v6,
  answer <- v7, total <- v8, counts <- v9
Link == INSTANCE Links WITH Heads <- {"h1", "h2"}, Elems <- {"e1", "e2", "e3"}, NULL <- "NULL", kind
  <- v1, mem <- v2, list <- v3, dead <- v4, walk <- v5
Tab == INSTANCE Tables WITH Tabs <- {"a", "b"}, Keys <- Keys, Fold <- Fold, Hash <- Hash, Sum <-
  Hash, Vals <- {<<1>>, <<2>>}, MaxElts <- 5, MaxOps <- 4, tab <- v1, abs <- v2, ops <- v3
Pool == INSTANCE Pools WITH Sizes <- AskedSizes, MaxCalls <- PoolCalls, use <- v1, pool <- v2,
  given <- v3, heap <- v4, ran <- v5, objs <- v6, calls <- v7
Prb == INSTANCE Probe WITH Keys <- PairKeys, probe <- v1, key <- v2, aes_input <- v3, gpc <- v4,
  args <- v5, validation <- v6, at <- v7, stream <- v8, net <- v9, packet <- v10, regen <- v11,
  captures <- v12, seen <- v13, stored <- v14
Fil == INSTANCE File WITH Contents <- {<<"absent">>, <<1, 9, 3, 9, 5>>}, ABSENT <- <<"absent">>, NewLine <- 9,
  Writes <- {<<>>, <<6>>, <<7, 8, 6>>}, FlagSets <- OpenFlags, BufSize <- 2, Amounts <- {1, 3},
  MaxFailures <- 1, MaxCalls <- 4, flags <- v1, f <- v2, state <- v3, text <- v4, place <- v5,
  last <- v6, drift <- v7, harm <- v8, failures <- v9, calls <- v10
Fnm == INSTANCE Fnmatch WITH Patterns <- Patterns, Strings <- Strings, FlagSets <- MatchFlags,
  ASCII <- ASCII, args <- v1, pc <- v2, p <- v3, s <- v4, strendseg <- v5, wild <- v6, result <- v7
Paged == INSTANCE Pbm WITH Base <- 4, Byte <- 2, Values <- {0, 1, 3, 6}, BAD <- -1, NULL <- <<>>,
  Files <- {<<0, 6>>, <<-1>>, <<3, -1>>}, MaxCalls <- 3, b <- v1, set <- v2, stray <- v3,
  calls <- v4

ASSUME PartsAssumption ==
  /\ Lock!LocksAssumption /\ Prb!ProbeAssumption /\ Pool!PoolsAssumption
  /\ If!InterfaceAssumption /\ Bin!BinAssumption
-----------------------------------------------------------------------------

Unused10 == v11 = "unused" /\ v12 = "unused" /\ v13 = "unused" /\ v14 = "unused"
After10 == <<v11, v12, v13, v14>>
Unused9 == v10 = "unused" /\ Unused10
After9 == <<v10, v11, v12, v13, v14>>
Unused8 == v9 = "unused" /\ Unused9
After8 == <<v9, v10, v11, v12, v13, v14>>
Unused7 == v8 = "unused" /\ Unused8
After7 == <<v8, v9, v10, v11, v12, v13, v14>>
Unused6 == v7 = "unused" /\ Unused7
After6 == <<v7, v8, v9, v10, v11, v12, v13, v14>>
Unused5 == v6 = "unused" /\ Unused6
After5 == <<v6, v7, v8, v9, v10, v11, v12, v13, v14>>
Unused4 == v5 = "unused" /\ Unused5
After4 == <<v5, v6, v7, v8, v9, v10, v11, v12, v13, v14>>
Unused3 == v4 = "unused" /\ v5 = "unused" /\ Unused5
After3 == <<v4, v5, v6, v7, v8, v9, v10, v11, v12, v13, v14>>

Init ==
  \/ part = "IpIterator" /\ Iterator!Init /\ Unused8
  \/ part = "Xiterate" /\ Xit!Init /\ Unused5
  \/ part = "BinFormat" /\ Bin!Init /\ Unused7
  \/ part = "Record" /\ Rec!Init /\ Unused7
  \/ part = "Options" /\ Opt!Init /\ Unused6
  \/ part = "Config" /\ Conf!Init /\ Unused7
  \/ part = "Interface" /\ If!Init /\ Unused7
  \/ part = "Locks" /\ Lock!Init /\ Unused9
  \/ part = "Links" /\ Link!Init /\ Unused5
  \/ part = "Tables" /\ Tab!Init /\ Unused3
  \/ part = "Pools" /\ Pool!Init /\ Unused7
  \/ part = "Probe" /\ Prb!Init
  \/ part = "File" /\ Fil!Init /\ Unused10
  \/ part = "Fnmatch" /\ Fnm!Init /\ Unused7
  \/ part = "Pbm" /\ Paged!Init /\ Unused4

Next ==
  \/ part = "IpIterator" /\ Iterator!Next /\ UNCHANGED <<part, After8>>
  \/ part = "Xiterate" /\ Xit!Next /\ UNCHANGED <<part, After5>>
  \/ part = "BinFormat" /\ Bin!Next /\ UNCHANGED <<part, After7>>
  \/ part = "Record" /\ Rec!Next /\ UNCHANGED <<part, After7>>
  \/ part = "Options" /\ Opt!Next /\ UNCHANGED <<part, After6>>
  \/ part = "Config" /\ Conf!Next /\ UNCHANGED <<part, After7>>
  \/ part = "Interface" /\ If!Next /\ UNCHANGED <<part, After7>>
  \/ part = "Locks" /\ Lock!Next /\ UNCHANGED <<part, After9>>
  \/ part = "Links" /\ Link!Next /\ UNCHANGED <<part, After5>>
  \/ part = "Tables" /\ Tab!Next /\ UNCHANGED <<part, After3>>
  \/ part = "Pools" /\ Pool!Next /\ UNCHANGED <<part, After7>>
  \/ part = "Probe" /\ Prb!Next /\ UNCHANGED part
  \/ part = "File" /\ Fil!Next /\ UNCHANGED <<part, After10>>
  \/ part = "Fnmatch" /\ Fnm!Next /\ UNCHANGED <<part, After7>>
  \/ part = "Pbm" /\ Paged!Next /\ UNCHANGED <<part, After4>>

partVars == <<part, v1, v2, v3, v4, v5, v6, v7, v8, v9, v10, v11, v12, v13, v14>>

Spec == Init /\ [][Next]_partVars
-----------------------------------------------------------------------------
(* As long as the iterations of two Java objects do not overlap, an object
   gets every allowed address exactly once and then 0 for ever, and no
   pool is used after it was destroyed or left behind
   (xm_ip_iterator.c:63-202).  Processes of xiterate that share a seed
   print no allowed address twice and all of them together, each within
   its --max-targets; one with an empty share prints a stray address and
   nothing else (xiterate.c:206-262). *)
IterationsExact ==
  /\ part = "IpIterator" => Iterator!WalkExact /\ Iterator!PoolsExact
  /\ part = "Xiterate" => Xit!SharesExact /\ Xit!LimitKept

(* Writes never pass the end of a buffer, and what is read back is what
   was written, across refused writes and growth (xm_bin_format.h:83-643,
   xm_data_output.h:51-331). *)
BinExact == part = "BinFormat" => Bin!ReadsBack

(* Each record of the receiver becomes the Java object of its packet,
   field by field; writer and reader agree by position alone
   (xm_recv_task.c:134-138, XMapSourceEntryParser.java:11-35). *)
RecordExact == part = "Record" => Rec!EntryExact

(* An option on the command line wins over one in the file, one in the
   file over its default, and a context that is created has values that
   the checks accept (xmap.c:50-90, xm_context.c:266-720). *)
OptionsExact == part = "Options" => Opt!OptionsExact

(* A configuration that is accepted has had every directive of every
   included file invoked, in the order of the text, and inclusion ends
   (xm_config.c:485-881). *)
ConfigExact == part = "Config" => Conf!ConfigExact

(* Every packet of a host is sent once or given up after all attempts and
   counted, before the task goes on (xm_send_task.c:185-248,
   interface/xm_if.c:46-117). *)
InterfaceExact == part = "Interface" => If!SendsSettled

(* A writer excludes all others and a spin lock has one owner, and the
   atomic counters lose nothing (xm_rwlock.h:49-115, xm_spinlock.h:43-97,
   xm_atomic.h:60-652). *)
LocksExact == part = "Locks" => Lock!Exclusion /\ Lock!CountExact

(* After any series of calls every list and ring runs through just its
   elements in both directions, and a safe loop visits each once
   (xm_ring.h:167-433, xm_list.h:41-765). *)
LinksExact == part = "Links" => Link!LinksExact

(* After any series of calls a table holds the entries its caller
   believes, and its index finds every one (xm_tables.c:366-1210). *)
TablesExact == part = "Tables" => Tab!TablesExact

(* No two callers share memory, everything is freed once, and an object is
   free or in use, never both, and counted, if there is room for one in a
   memory (xm_mpool.c:13-298, xm_object_pool.c:14-154). *)
PoolsExact == part = "Pools" => Pool!PoolExact /\ Pool!ObjectsExact

(* A packet is believed only if it answers a probe this scan sent to the
   host it speaks of, however calls of xm_validate_gen interleave, and an
   answer is refused only for a reason on the list: the words of two
   probes mixed, ports that wrap, an error that quotes IP options, a reset
   that answers a SYN-ACK (xm_recv_task.c:53-141, xm_validate.c:41-48,
   xm_probe_tcpsynscan.c:81-123, xm_probe_icmp.c:82-137). *)
AnswersExact == part = "Probe" => Prb!OnlyAnswers /\ Prb!MissedOnly

(* One packet is stored for a host and one for all the errors that reach
   an address of this scan, and an error never hides a host's own answer
   (xm_recv_task.c:89-141, xm_probe_icmp.c:120). *)
StoredOnce == part = "Probe" => Prb!StoredOnce

(* A buffered file is the bytes its calls mean, at the places they mean,
   across blocks, turns between reading and writing and flushes that fail
   before or after their first byte, but for closing without a flush and a
   turn inside a block after filePtr has lost the kernel's place
   (xm_file_readwrite.c:14-387). *)
FileExact == part = "File" => Fil!FileExact

(* A wildcard pattern matches just what it stands for, though the code
   looks ahead and goes back, and one that xm_fnmatch_test lets pass as a
   plain name matches that name alone (xm_fnmatch.c:141-382).  So does the
   map of addresses hold what was set alone (xm_pbm.c:36-100). *)
NamesExact ==
  /\ part = "Fnmatch" => Fnm!MatchExact /\ Fnm!TestSound
  /\ part = "Pbm" => Paged!PbmExact
=============================================================================
