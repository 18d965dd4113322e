# A verification project for xmap

xmap is a network scanner derived from ZMap. It sends one probe to every address of a scan in a
pseudo-random order, receives the answers, and hands them through a shared-memory file to Java
programs that read them while the scan goes on. This directory holds TLA+ models of its core,
the TLC runs that check them on small instances, and TLAPS proofs of what matters most for
instances of every size. File names below are relative to the repository (the directory that
`PROJECT.json` calls `src/`): `src/xm_shard.c`, `lib/shm/...`, `lib/thread/...`, `api/java/...`.

## 1. Inventory

| component | code | state | operations | interacts with |
|---|---|---|---|---|
| main, work | `src/xmap.c`, `src/xm_work.c` | the pool, the tasks | create, start | creates and runs everything below |
| core pool | `lib/thread/xm_core_pool.*` | per core: state, task, two pipes | create, bind, setup, wait, slave loop | pipes and a state field between master and slaves |
| task | `lib/thread/xm_task.c` | - | run until it exits | called by the slave loop |
| cyclic group | `src/xm_cyclic.*` | table of groups | find a generator, make a cycle | draws from the random stream |
| shard | `src/xm_shard.*` | first, last, current, counters, quota | create, next address | cycle, white list; owned by a send task |
| send task | `src/xm_send_task.*` | the shard, current address | run | reads `xrecv.complete`, calls probe and driver |
| receive task | `src/xm_recv_task.*` | seen set, counters | run, handle a packet | sets `xrecv.complete`, reads `xsend.complete`, stores results |
| white list, IP tree | `src/xm_wblist.*`, `lib/common/xm_iptree.*` | tree of prefixes, radix | add, paint, count, lookup by index, check | read by shard and send task |
| paged bitmap | `lib/common/xm_pbm.*` | pages of bits | set, check, load a file | duplicate filter of the receive task, list of addresses of the send tasks |
| result store | `src/xm_store.*` | a buffer, the time of the last flush | store a record, flush | called by the receive task |
| record format | `lib/shm/xm_shm_format.*`, `xm_shm_entry_record.*`, `xm_bin_format.h` | the entry being written or read | put, flush, iterate | between store or JNI reader and the ring |
| shared-memory ring | `lib/shm/xm_shm_interface.*` | header: count, two positions; entries | init, get, commit | shared by the xmap process and the reader process |
| segment backends | `lib/shm/xm_shm_mmap.*`, `xm_shm_memory.*` | a file or a SysV segment | create, map an entry | under the ring |
| JNI entry reader | `api/java/jni/xm_entry_reader.c` | per reader: pool, format, iterator | open, read, close | called from Java |
| Java source reader | `api/java/.../AbstractSourceReader.java` | executor, runnable | start, stop, poll | calls the JNI reader from two threads |
| IP iterator, xiterate | `api/java/jni/xm_ip_iterator.c`, `src/xiterate.c` | a shard, in one static context for all Java objects | prepare, next address, write a file; print all | shard and cycle |
| options, context | `src/xopt.c`, `xitopt.c`, `xm_context.*`, `xmap.c` | what is given, where it came from | parse command line and files, check, create | read by all |
| validation, random stream | `src/xm_validate.c`, `src/xm_aesrand.c` | static AES input, stream state | make a validation, next word | all tasks; only at creation |
| probes, packets, records | `src/probe/*`, `src/xm_packet.*`, Java record classes | the record being packed | make, validate, process; parse | called by the tasks; read in Java by position |
| interfaces | `src/interface/*` | queues, buffers, sockets | create, send, flush, receive | called by the tasks, set up by main |
| configuration | `lib/common/xm_config.*` | open files, directives, parameters | read, include, invoke | sets up the interfaces |
| memory and object pools | `lib/common/xm_mpool.*`, `xm_object_pool.*` | blocks, large memory, cleanups; free and used objects | allocate, free, reset, destroy | under everything |
| lists, rings, locks, atomics, tables | `lib/common/xm_list.h`, `xm_ring.h`, `xm_rwlock.h`, `xm_spinlock.h`, `xm_atomic.h`, `xm_tables.*` | pointers, a counter, entries with an index | insert, remove, splice; lock; merge, overlay | under everything |
| buffers of numbers and strings | `lib/common/xm_bin_format.h`, `xm_data_output.h` | a position in memory | write, read, grow | result store, Java reader |
| files, patterns | `lib/common/xm_file*`, `xm_fnmatch.c` | a buffer used for reading or writing | open, read, write, flush, seek, match | configuration, log |

The hard behaviours: two processes update one header without locks, and either may die or start
again at any point; the master and the slave threads talk through pipes and an unprotected state
field; senders and receiver of a scan talk through plain flags; a scan may be divided over
instances and threads, which must neither overlap nor leave a gap; the flush of results depends
on time and on arrivals; arithmetic in 32 and 64 bits meets a prime above 2^32; all tasks make
validations in one static buffer; Java threads share native contexts by number. `PROJECT.json`
lists each such hazard with its line and the properties aimed at it.

What makes each component correct, in a sentence:

* ring: a bounded first-in first-out queue between two processes;
* format, store and reader: every accepted record reaches a reader once, in order, in finite
  time;
* core pool: the wait is a join, sound (no task is left running or unstarted) and terminating;
* cyclic group: what it returns generates the whole group, and it returns;
* shard and send task: all tasks of all instances together probe every wanted address exactly
  once, nothing else, and no more than the limit;
* receive task and scan: every result is a probed host or, for ICMP errors, an address of the
  scanner, stored once, within the limit, and either side ends when the other has ended;
* validation, probes: only an answer to a probe of this scan is believed, and is attributed to
  the host that gave it;
* records: what the receiver packs for a host is what the Java object of that host says;
* Java reader: records are processed once, in order, with their own bytes, until it is stopped;
* iterators: every allowed address once, then the end;
* options, configuration: of several sources of a value the right one wins, and every directive
  is invoked once, in order;
* interfaces: every packet of a host is sent once or given up, and then counted;
* pools, lists, locks, tables, buffers, files, patterns: each is what its abstract counterpart
  (disjoint memory, a sequence, mutual exclusion, a map, a byte string, a language) says;
* IP tree and white list: the last entry that contains an address decides whether it is allowed,
  and index to address is the enumeration of the allowed addresses.

## 2. Modules

| module | models | composed of |
|---|---|---|
| `ShmQueue` | abstract: a bounded queue that may fail for good | - |
| `ShmRing` | `xm_shm_interface.{h,c}`, the attach of `xm_shm_mmap.c` | implements `ShmQueue` |
| `ShmRingProofs` | proofs about `ShmRing` | `ShmRing` |
| `ForkJoin` | abstract: tasks run once each, then the join | - |
| `CorePool`, `MCCorePool` | `xm_core_pool.{h,c}`, `xm_task.c` as `xm_work.c` drives them; core masks | implements `ForkJoin` |
| `CorePoolProofs` | proofs about `CorePool` | `CorePool` |
| `ShmStore` | `xm_store.c`, `xm_shm_format.c`, `xm_shm_entry_record.c`, `xm_entry_reader.c`, the polling loop | implements `ShmQueue` |
| `ShmStoreProofs` | proofs about `ShmStore` | `ShmStore`, `DataLemmas` |
| `Cyclic` | group arithmetic of `xm_cyclic.c` | - |
| `Shard` | `xm_shard.c` | `Cyclic` |
| `SendTask` | `xm_send_task.c`, for all tasks of all instances | `Shard` |
| `RecvTask` | `xm_recv_task.c` | - |
| `Scan` | senders, receiver and network of one instance | `SendTask`, `RecvTask` |
| `ScanProofs` | proofs about `SendTask` and `Scan` | `Scan`, `DataLemmas` |
| `IpTree` | `xm_iptree.c` and `xm_wblist.c` | - |
| `IpTreeProofs` | proofs about `IpTree` | `IpTree`, `DataLemmas` |
| `SourceReader`, `MCSourceReader` | `AbstractSourceReader.java`, `xm_entry_reader.c` with its table of contexts; the segments of the runs | - |
| `SourceReaderProofs` | proofs about `SourceReader` | `SourceReader`, `DataLemmas` |
| `DataLemmas` | lemmas about sequences, sums, powers of two, remainders, digits | - |
| `IpIterator` | `xm_ip_iterator.c` and its Java class | `Shard` |
| `Xiterate` | `xiterate.c` | `Shard` |
| `Options` | `xopt.c`, `xitopt.c`, `xmap.c`, `xm_context.c` | - |
| `Config` | `xm_config.c` and the tables of `src/interface` | - |
| `Interface` | `src/interface/*`, the sending of one host's packets in `xm_send_task.c` | - |
| `Probe` | `xm_validate.c`, `src/probe/*`, the judgement in `xm_recv_task.c` | - |
| `Record` | from `xm_recv_task.c` and the probes to the Java record classes | - |
| `BinFormat` | `xm_bin_format.h`, `xm_data_output.h` | - |
| `Locks` | `xm_rwlock.h`, `xm_spinlock.h`, `xm_atomic.h` | - |
| `Links` | `xm_ring.h`, `xm_list.h` | - |
| `Tables` | `xm_tables.c` with its arrays | - |
| `Pools` | `xm_mpool.c`, `xm_object_pool.*` | - |
| `File` | `xm_file_open.c`, `xm_file_readwrite.c`, `xm_file_fullrw.c` | - |
| `Fnmatch` | `xm_fnmatch.c` | - |
| `Pbm` | `xm_pbm.*` | - |
| `Parts` | instances of the fifteen modules `IpIterator` .. `Pbm` but `SourceReader`, one of which runs in a behaviour; the constants of `Locks`, `Probe`, `Pools`, `Interface` and `BinFormat` are its own | all of these |
| `MCParts` | values of these constants | `Parts` |
| `PartsProofs` | proofs about `Locks`, `Probe`, `Pools`, `Interface` and `BinFormat` as parts | `Parts`, `DataLemmas` |

Definitions keep the names of the code (`_wait_core`, `xm_shard_get_next_ip`, `has_header` as
`hasHeader`); `PROJECT.json` maps each to its lines. A variable marked "history" in its comment
exists only to state a property. A definition whose comment begins with "Mutant:" is a faulty
version of the definition that follows it (a dropped test, an off-by-one, a missing reset). No
action uses it: substituted for the right one, it makes TLC refute a property, which shows that
the property can fail. `PROJECT.json` says which goes with which.

### ShmRing

The writer (xmap) goes through `WStart`, `WInitWritePos`, `WInitReadPos` (the three stores of
`_shm_header_init` that matter), then for each entry `WGet`, `WFill`, `WAdvance`, `WLoad`,
`WStore`; the reader through `RCheck`, `RFetch`, `RRead`, `RAdvance`, `RLoad`, `RStore`.
`shm_entries_count_cur += c` is two actions, the load and the store, because two processes do it
on one word without a lock. `WCrash` and `RCrash` stop a process between any two steps; a writer
that starts again reinitialises the segment, a reader that starts again does not. Counts are
taken modulo `Word`, the 2^64 of the code.

The code protects the ring against none of three events: the load and the store of one side
around those of the other, a writer that starts while a reader is inside an operation, and a
reader that dies between its two stores. The history variable `broken` records them. Until then,
`RingExact` says, the count is the number of unread entries and these are intact; `QueueSpec`,
that the segment as it can be read from the header is the queue of `ShmQueue`. `FullRefused`
states what a comment of the code says of the test for full, without that exception, and is
refuted; the same collision can leave the count too high, and lets the reader into an empty
ring.

### ShmStore

Here the segment is a queue of entries and an entry a sequence of records. `XStoreFlush` is a
call of `xm_store_flush`; its parts `PutRecord`, `PutCommit`, `PutGet`, `PutRetry` are the loop
of `xm_shm_entry_record_put`, and `NoFlush`, `FlushCommit`, `FlushGet` the flush timer. They are
separate actions because the reader runs in between. `ReadRecord`, `ReadEnd`, `ReadNone` are the
three results of the JNI `read`; `Close` and `Crash` end a reader properly or not. The
configured entry size (`Room`) and the size after alignment (`Space`) are different constants,
because the code uses one to discard records and the other to fill entries. A record is its
number and size. The collisions of `ShmRing` do not occur here: this is what the format layer
achieves over a ring that is not broken.

### CorePool

The master goes through `Create` (with `_parse_coremask` over hexadecimal digits), `BindTask`
for each task, `Setup`, then `Launch` and `Acknowledged` for each slave, then `_wait_core` for
each slave. A slave is `ReadCommand`, `SetRunning`, `SendAck`, `NoTask` or `RunTask`,
`TaskReturns`, `SetFinished`. Each access to the state field is an action: it is a plain `int`,
and the directory is built with -O0, so the accesses happen as written.

### Cyclic, Shard, SendTask

The group is that of a small prime, whose generators and offsets are all tried: the search for a
generator is modelled by the set of its results. `Limit` stands for 2^32, so that primes above
and below it can be tried. Addresses are the indices 0 .. `MaxIndex` - 1 of the white list;
`Stray` is whatever the list returns for an index it does not have. The tasks of all instances
run interleaved; as the code makes a cycle for each task from a stream with the same seed, task
t has the same cycle in every instance and different tasks of an instance have unrelated ones.
An action is one pass of a loop of `_send_task_run`, cut where the code reads something another
thread writes: `OnList` and `NotOnList` for the list of addresses, `Finish` and `Continue` for
the tests, `Send` for the probe with its counters and the walk to the next address.

### RecvTask, Scan

A packet is rejected, repeated or answered (`_recv_packet_handle`), after which the loop tests
`max_results`. `Scan` adds the network: what was probed may answer any number of times from then
on or never, and other packets come at any time. An ICMP error about a probe (`Error`) passes
the validation of the icmp probes, which put the address it was sent to, one of the scanner's own
(`Mine`), in the place of the host's (`xm_probe_icmp.c:120`): the receive task then stores and
counts the scanner as a result. `ResultsExact` says so: a result is an address that was probed or,
once for each, one of `Mine`. With TCP probes `Mine` is empty. How an error is told from other
packets is in `Probe`.

### IpTree

A tree is the set of its leaves, each the sequence of bits on the way to it, with their values:
internal nodes carry nothing, and none ever becomes a leaf again. `Whitelist(p)` and
`Blacklist(p)` add an entry to the lists (`xm_iptree_add`), `Whitelisted` goes from one list to
the other, and `Blacklisted` excludes 0.0.0.0, paints the tree and counts. What lookups answer
from then on are operators: `xm_iptree_lookup_ip` for an address, `xm_iptree_lookup_index` for
an index. An entry without a prefix length has the length 256 (`PlainLength`): its path goes on
below the last bit of an address, always to the left, where lookups go too. The loop that paints
the radix array and the walk of a lookup are recursive functions (`Radix`, `_lookup_index`).

Two history variables say what the lists asked for: `given`, the value of the last entry that
contains an address, and `covered`, that an entry was added over longer ones.
`GivenUnlessCovered` relates the tree to them, and `BlacklistHolds` states a comment of the code
that makes no such exception. `IndexExact` leaves out what only a whitelist entry without a
length allows: such a leaf is neither in the radix array nor, its size rounding to 0, in a
count, so a whitelist of such entries alone is refused. `ZeroExcluded` matters to the send task,
which takes address 0 for the end of its shard. `Shard` and `SendTask` keep to the indices that
`IndexExact` justifies.

### SourceReader

A reader has an application side, `Start`, `StartFails` (the segment cannot be opened) and
`Stop`, and one scheduled task for each start. `Tick` and `Prepare` begin a round of the task;
`Next_record`, `Next_none` and `Next_freed` are the results of the native read, whose parts
(`readEnd`, reset, close) work on the table of contexts that all readers of the process share
(`xm_entry_reader.c:13-60`). `TurnDown`, `FilterThrows` and `Accept` are the filter; `Process`,
`ProcessRest` and `Ignore` what becomes of the record. `stop` closes the native context from
another thread and gives `remove` the runnable and not the executor's task
(`AbstractSourceReader.java:45`), so the task polls on with a freed context; a reader whose id
is beyond the table, or is another reader's, has no context or that of the other. Both are in
the model, and `broken` records the use of a freed pool. Until then a stop, wherever it meets the
task, takes nothing from what `ProcessedExact` says of the records processed. A reader that is
started again has two tasks, which share one entry object and may mix their records: the property
is about readers with one task (`OneTask`). A null filter throws inside the `try`, after the test that means to allow it, so nothing
is ever processed; a filter that throws ends the periodic task for ever; a filter that takes the
data of an entry leaves nothing to the parser. A failed open leaks its pool.

### IpIterator, Xiterate

Both walk over a shard that is the only one of its cycle. All Java objects share one static
context: `Prepare` replaces whatever another object was doing (`overlap`, history),
`PrepareFails` destroys the pool and leaves it in the context (`xm_ip_iterator.c:93`).
`Generate` writes the file of all addresses with a shard of its own. `WalkExact` holds for
iterations that do not overlap. In `xiterate` each process has a shard of one cycle; limits
below 1 mean no limit, as 0 does. It looks its first address up without asking whether the shard
has one (`NewWalk`, `xiterate.c:248`): a process whose part of the cycle is empty looks up index
2^64-1 and prints whatever that gives, here `Stray`, before it ends. `SharesExact` says that this
is all such a process prints. `Stray` is none of the allowed addresses, so that the property can
tell them apart; nothing in the code keeps it from being one. The Java utility prints an address
low byte first.

### Options

`CommandLine`, `ConfigFile`, `Help`, `Create` and `CreateFails` are the passes of `main`. An
option has a count of how often it was given and an argument, as in the generated structures;
the file is read with `override` 0, so what the command line gave stays. The model shows several
things that no help text says, and follows the code in each: the default of `--retries` never
reaches the context; the ports of a range are narrowed to 16 bits before they are checked;
`--max-targets` that is no number means 0; `--sender-threads` is narrowed to 8 bits, so 256
senders are none; a source range that ends one before it begins adds no address and other
reversed ranges wrap; negative segment sizes become very large; the result of an include
replaces the errors of the lines before it; a `config` option in the file is never read again.
The bandwidth, `--max-sendto-failures` and `--min-hitrate` are stored and never used.

### Config

Files to open and files that wait for an include are two stacks (`ari`, `arr`); `Directive` and
`Include` take a line of the file on top, `xm_pcfg_openfile`, `Resume` and `xm_cfg_closefile`
move between files, and `Done` invokes the directives. `MaxNested` is the code's own limit. A
line longer than the buffer ends its file without an error; files of a pattern are read from the
last to the first; an optional include of one plain file that does not exist is an error after
all. The tables of directives have no last record, so an unknown directive is looked up behind
the table: such lines are left out.

### Interface

`SendInterface` to `RecvTask` are the creation of the drivers by `main` and by the tasks, for
every combination of types; `Attempt` is one pass of the loop of `xm_send_task.c:185-248` over
the packets of a host with one call of the driver. With the documented types no task calls a
function a driver does not have; libpcap for sending and a socket for receiving are
undocumented, and do. The queue of PF_RING is never attached to a device: what is queued is not
sent and a full queue is waited for in a loop that never ends, so `Attempt` has no result. The
dpdk type has no driver. `_fin` is never called. `SendsSettled` is about what the driver answers:
what becomes of a buffer after the driver has queued it is not in it. `xm_send_task_create` does
not look at the result of the driver's `init` (`xm_send_task.c:308`); drivers whose `init` failed
are left out. `log` (history) holds, for each packet of each
host (`Slots`), the answers the driver gave.

### Probe, Record

In `Probe` a call of `xm_validate_gen` is four steps, the writes of both addresses to the static
buffer and the cipher's reads of them (`Gen`), which calls of other tasks interleave with. What
the cipher returns tells pairs of addresses apart; one word is a number, because ports are made
of it. `Send` puts the probe on the network. `Deliver` gives the receiver an answer to any
probe, or noise, any number of times; `Regenerate` is the second validation, for the probe an
ICMP error quotes; `Refuse` and `Believe` the judgement and the duplicate filter. `OnlyAnswers`
holds in spite of the shared buffer: mixed words match no other probe. `MissedOnly` lists what
the sharing and other traits cost: answers whose words were mixed, ports that wrap in their
range, an error that quotes IP options (the code finds the inner header with the length of the
outer one), the reset a host sends to a SYN-ACK. For an error the address the filter sees is the
scanner's own, so one error is stored for each address of the scanner; `StoredOnce` says that
this hides no answer of a host. Both kinds of answer to a SYN-ACK count as success, which the
help text of that probe does not say.

`Record` follows one result from there: `StoreIp` and `ProcessPacket` pack the fields, `Put`
hands the buffer over, `Read` is the Java side, which knows a field by its position. An error's
record holds the id, sequence number and time of the outer header, and the synscan probe, not the
synackscan one, misspells the text of a SYN-ACK ("synacn", `xm_probe_tcpsynscan.c:143`): the model
has both.

### BinFormat, Tables, Links, Locks, Pools, File, Fnmatch, Pbm

These model data structures against what their callers believe, which is a variable of the model
next to the memory: a byte string, a sequence of entries, a list, a count, the regions handed
out, a file, a set. Each action is one function of the code.

* `BinFormat`: `bf` refuses what does not fit, `dout` grows. A byte has `Bits` bits and the types
  have the number of bytes they have in C. The length of a string that is read
  is not compared with the end, so reading is tried only on what was written; 16-bit lengths
  that wrap, float and double are left out.
* `Links`: a macro is a sequence of assignments to pointers. `Start`, `Body` and `Advance` run a
  loop over a list whose body deletes the element it is at, in the safe form that allows it.
* `Locks`: the load and the compare-and-set of a lock are two steps. The 16- and 32-bit add and
  subtract call a misspelt builtin and would not link, so they are left out. The scanner itself
  uses none of this.
* `Tables`: an overlay with an empty base shares its elements with it (`xm_tables.c:327-333`),
  and from then on an addition to one may appear in the other; the guard `Alone` keeps to tables
  that do not share.
* `Pools`: callers are given intervals of a block. The size of a block is assumed a multiple of
  the alignment: otherwise the room, an unsigned difference, becomes huge. A reset keeps the
  handlers in their list while their records become free memory (`older`); destroying the pool
  runs them too, whatever these records hold by then, so the property is about the handlers
  added since. A memory of the object pool may be too small for one object: then the head of the
  empty free list is given as one (`ListHead`), `n_frees` goes below 0 and `list_del` destroys the
  list (`xm_object_pool.c:125-137`). The model does the same and ends there; `ObjectsExact` says
  what the counters are, and claims that free objects are counted for other sizes only. The limit
  is compared with `>`, per page.
* `File`: one buffer serves reading and writing. `text` and `place` are what the calls mean: the
  bytes of the file and the place of the next one. A write that fills the buffer flushes it and
  goes on; any flush may fail before its first byte or halfway (`WriteBuffered`), after which the
  bytes before the one that had no room are meant, and those the flush had written come twice,
  because the code keeps the whole buffer (`Repeated`). `drift` says that the kernel's place
  is not the one the code remembers, which a turn to writing inside a block, a buffered `writev`
  and a flush that failed halfway bring about (`xm_file_readwrite.c:130`, `:178`, `:238`). Another
  turn inside a block then seeks to a wrong place: this, unless the file is opened to append, and
  closing without a flush are the two exceptions of `FileExact` (`harm`). The scanner reads
  its configuration and appends to its log, which meets neither.
* `Fnmatch`: one action for one round of each loop. The configuration sets the flag that makes a
  backslash ordinary, while the test for wildcards always takes it as an escape. A pattern is
  compared with the recursive function `Stands`.
* `Pbm`: a line that is no address sets whatever the uninitialised `addr` holds (`stray`).

`Parts` runs these and the preceding modules as one specification whose first variable, `part`,
says which of them a behaviour is of. The parts share no state in the code, so nothing is lost
by not interleaving them.


## 3. Runs

All runs but the last two of the table take less than half a minute; these take one to two
minutes.

| run | what it shows | bounds, and why they are enough |
|---|---|---|
| `ShmRing_safety` | `RingExact`, `InOrder`, refinement of `ShmQueue`, `Drained` | 2 entries and 4 writes: the positions wrap twice and the ring fills; 2 starts and 1 crash: a restart over a live reader and one over a dead one. 437,000 states; the proofs remove the bounds for all but `Drained` |
| `ShmRing_full` | refuted: a lost update lets the writer into a full ring | 2 entries, 5 writes, no restart or crash: the collision alone is to blame |
| `CorePool_safety` | `WaitSound`, refinement of `ForkJoin`, `BusyWaitReturns` | 8 cores, 3 tasks, 14 masks: too few, enough and too many slaves, gaps, refused masks |
| `CorePool_spin` | refuted: `WaitReturns` under the default mask | 8 cores, 2 tasks |
| `ShmStore_safety` | `StreamExact`, `AtMostOnce`, `AtLeastOnce`, refinement of `ShmQueue`, `PutReturns`, `Consumed` | 2 entries of size 3 configured as 2, records of sizes 1, 2 and 4: one that only the aligned size admits next to others, one discarded; 4 records fill both entries and the writer's own; a close and a crash of the reader |
| `SendTask_whole` | `OnlyOnce`, `Coverage`, `OnlyWanted`, `AllReturn` | prime 13, 6 of 9 addresses and the stray one on the list, 3 instances with one sender, 12 divisible by 3; every generator and offset |
| `SendTask_threads` | refuted: `Coverage` with two senders in an instance | prime 7, 5 addresses |
| `Scan_safety` | `ResultsExact`, `LateBounded`, `CapRespected`, `CompleteStops` | prime 7, 5 addresses, 2 senders, one source address for errors, at most 4 targets and 2 results: each limit stops the scan in some behaviour |
| `IpTree_safety` | `IndexExact`, `GivenUnlessCovered`, `ZeroExcluded` | addresses of 3 bits, a radix of 2, plain entries of length 5, so entries end above, at and below the radix and beyond an address; 3 entries: one above, one below and one beside another, on either list |
| `IpTree_overwrite` | refuted: `BlacklistHolds` | the same |
| `SourceReader_tasks` | `ProcessedExact`, `Consumed` | 2 readers and room for 2 contexts: a context each, one for both, or none for the second; an entry with a record that is too large and one with an unwanted record; 4 kinds of filter; each started once and stopped. 1.1 million states |
| `Parts_safety` | the properties below | 3.6 million states |

`Parts_safety` has one invariant for each kind of thing that can go wrong in the parts:

| invariant | module | instance |
|---|---|---|
| `IterationsExact` | `IpIterator`, `Xiterate` | prime 7, 5 addresses, every generator and offset; 2 objects, 2 preparations; 4 processes, which do not divide the order 6 |
| `BinExact` | `BinFormat` | bytes of 2 bits, so that numbers take several, are negative and are cut; buffers of 3 and 12 |
| `RecordExact` | `Record` | 4 probes, 2 packets of every type |
| `OptionsExact` | `Options` | words of 4, 8 and 16; 180 command lines, two files and a third one that is included, which may be missing, malformed or contradict each other |
| `ConfigExact` | `Config` | 3 files that include each other, themselves, a pattern or nothing; nesting of 3 |
| `InterfaceExact` | `Interface` | 2 senders, 2 hosts, 2 packets each, 2 attempts, a queue of 3 and buffers of 2 |
| `LocksExact` | `Locks` | 3 threads; counters that wrap |
| `LinksExact` | `Links` | 2 heads, 3 elements: every call from every arrangement, no bound on their number |
| `TablesExact` | `Tables` | 2 tables, 4 keys of which 3 share a bucket and 2 differ in case, 4 calls |
| `PoolsExact` | `Pools` | blocks of 10, sizes 0, 1 and 6, 5 calls: a block fills, is given up and is chained |
| `AnswersExact`, `StoredOnce` | `Probe` | 2 senders and the receiver, 2 hosts, a router, 2 packets per host, 3 ports in a word of 5, 2 captures |
| `FileExact` | `File` | a file of 5 bytes or none, a buffer of 2, 10 ways to open it, one failure, 4 calls: a write of 3 crosses blocks from an empty, a half full and a full buffer, a flush fails before or after its first byte, and each turn between reading and writing happens |
| `NamesExact` | `Fnmatch`, `Pbm` | patterns of up to 5 characters of 11, 3 settings of the flags; addresses of 4 by 4 bits |

Deadlock is checked in every run except those of `IpTree`, whose `xm_wblist_create` is a
function that returns, of `Parts`, whose parts are functions and programs that end, and of
`SourceReader`, whose tasks end by an exception or have nothing left to do when the writer has
stopped.

`SendTask_whole` holds under conditions that are part of what it shows; `SendTask_threads` drops
the first. The others are constants too, and TLC refutes the property in the table when one is
changed:

| condition | when it is dropped | code |
|---|---|---|
| one send task in an instance | `Coverage` fails: the tasks walk parts of different cycles | `xm_send_task.c:284` |
| the subshards divide the order of the group | with `Prime` = 7, `Shards` = 4, `OnlyOnce` fails: subshards are numbered from 1, and the last one overlaps | `xm_work.c:46` |
| all elements fit in 32 bits (`Limit` > `Prime`) | with `Prime` = 19, `Limit` = 16, `OnlyOnce` fails: a last element above the limit is never met | `xm_shard.c:129` |
| every subshard contains an address | with `Prime` = 7, `MaxIndex` = 1, `Shards` = 2, `OnlyWanted` fails: index -1 is looked up | `xm_shard.c:110` |
| the counters start at 0 | with `Fresh` = {0, 9} and `MaxTargets` = 8, `Coverage` fails: `xm_shard_create` does not set them | `xm_shard.c:23` |
| no fewer targets than subshards | with `Shards` = 2, `MaxTargets` = 1, `CapRespected` fails: a quota of 0 is no limit | `xm_shard.c:85` |
| no limit on time | with `MaxRuntime` no probe is ever sent: the start time is never recorded | `xm_send_task.c:175` |

### Fairness

* `ShmRing`: weak fairness of the reader's steps. `AbstractSourceReader` polls from a scheduled
  executor for ever. Nothing is assumed of the writer.
* `ShmStore`: weak fairness of the reader, of the writer's steps inside a call (it is a running
  thread) and of the clock. No record need ever arrive.
* `CorePool`: weak fairness of the master and of each slave. Each is a thread pinned to a core
  of its own, and a task that runs returns.
* `SendTask`: weak fairness of each task, a pinned thread whose loop does not block.
* `SourceReader`: weak fairness of each task, for which its executor has a thread. `start` and
  `stop` need never be called.
* `Scan`: that, and that packets of some kind keep arriving (`Noise \/ Answer \/ Error`): the receiver
  tests its conditions only after a packet, because the pcap driver blocks until there is one.
  No host is assumed to answer.

## 4. What the violations show

Each refuted property is what an option's help text or a comment says; `PROJECT.json` quotes it.

* `FullRefused`: the unlocked counter (`xm_shm_interface.h:92`).
* `WaitReturns` with idle slaves: a slave without a task stays RUNNING (`xm_core_pool.c:326`).
  `BusyWaitReturns`, the same property when every slave has a task, holds.
* `Coverage` with several senders: a cycle for each task (`xm_send_task.c:284`).
* `BlacklistHolds`: a prefix over longer ones is not set, as `_convert_to_leaf` tests for a leaf
  where it means the opposite (`xm_iptree.c:45`): with a /2 and then the /1 around it on the
  blacklist, the other half of the /1 is scanned.

Three disagreements are visible in the models without a run of their own:

* The flush timeout is looked at only when a record has just been stored (`xm_store.c:84`): in
  `ShmStore`, `NoFlush` and `FlushCommit` follow a put, so the last records before a silence
  stay in the writer's entry, whatever `xopt.ggo:165` ("store results shm flush timeout,default
  1min") says. `Consumed` is therefore about committed records.
* `xsend.complete`, on which the cooldown depends, is read at `xm_recv_task.c:169` and set by
  nobody: in `Scan` a receiver whose limit is not reached never ends, whatever `xopt.ggo:45`
  says of the cooldown.
* `xm_check_dst_port` (`xm_packet.h:88`) computes the range without its wrap, which is why
  `MissedOnly` lists ports that wrap.

And two more concern arithmetic the models keep out: the candidate for a generator is narrower
than the largest prime and wraps to 0 (`xm_cyclic.c:105`); a segment file of an earlier, smaller
configuration is not resized (`xm_shm_mmap.c:51`), and a failed `mmap` is not recognised
(`xm_shm_mmap.c:29`).

## 5. Proofs

`ShmRingProofs` proves, from `RingAssumption` (at least one entry, fewer entries than the
counter can count), for every number of entries, writes, starts and crashes:

* `TypeCorrect`: the ranges of all variables (`TypeOK`);
* `RingExactAlways`: `Spec => []RingExact`;
* `InOrderAlways`: the action property `InOrder`;
* `Refinement`: `Spec => QueueSpec`, the refinement of `ShmQueue`.

`RingExact` is not inductive. What the reader is about to commit is not in its statement, nor
that the writer's slot is free. `RingInv` adds where the positions are relative to each other
(`Span` slots apart, counted from the oldest unread slot), which differs by one while a side is
between its two stores; that a side inside an operation has made sure of its entry; and that
contents increase. Each of the actions that touch the header then preserves it, unless it is one
of the three events that set `broken`.

`CorePoolProofs` proves, from `PoolAssumption`, for every number of cores and tasks and every
set of masks:

* `TypeCorrect`: the ranges of all variables, so no pipe holds two bytes;
* `WaitSoundAlways`: the master gets past the wait only when all tasks have returned;
* `Refinement`: `Spec => FJSpec`.

The invariant `PoolInv` says, for each slave, which of four stages of its exchange with the
master it is in (untouched, commanded, working, waited for), as a function of the master's place
in its loops. The order RUNNING before acknowledgement is what makes it inductive.

`IpTreeProofs` proves, from `TreeAssumption`, for addresses and prefixes of every length, a radix
of every length and lists of any number of entries:

* `GivenUnlessCoveredAlways`: lookup answers what the last entry that contains the address says,
  unless an entry was added over longer ones;
* `IndexExactAlways`: `Spec => []IndexExact`, the radix array and the painted tree together number
  the allowed addresses below the count, each once;
* `ZeroExcludedAlways`: address 0 is never allowed once the list is made.

A lookup follows one path, so the invariant `TreeInv` needs the shape of the tree: no leaf is a
prefix of another, and every address has one on its walk. That a split preserves this rests on
where the siblings of a path are (`SplitShape`, from `SiblingsApart` and `WalkLeaves`).
`ZeroExcluded` adds `ReadyInv`, what the last step of the creation leaves.

`IndexExact` is a statement about the finished tree, so `TreeInv` implies it, by arithmetic over
the leaves. An inner node is a block of addresses (`NodeBlock`), its children are the halves of
it, and the count painted on it is the sum of theirs (`Counts`). The walk of a lookup
from a node numbers the allowed addresses below it that are not in the radix array (`Numbers`,
`Under`): a leaf does (`NumbersLeaf`), and a node does if its children do (`NumbersNode`), hence
all nodes do, from the longest up to the root (`NumbersAll`). The array holds the blocks
that one leaf covers (`RadixBlocks`, `BlockPath`), and so numbers their addresses (`RadixNumbers`).
No address is in both (`Halves`), and `IndexNumbers` puts them together.

`PartsProofs` proves, from `PartsAssumption` and `Spec` of `Parts`, about five of the parts:

* `LocksExactAlways`: `Spec => []LocksExact`, for any finite number of threads and counters of any
  width whose halves are more than one number. A writer is alone, the word of the lock is the
  number of readers or -1, and the spin lock has one owner. The word is read in one step and
  compared and set in another, so the invariant `LocksInv` adds that what a reader has loaded is
  not negative: the comparison then fails whenever a writer has come in between. Without
  the test for a writer in `read_lock_load` the proof fails. A counter is the exact number, cut to
  its width: that the cut may come before an addition as well as after it is `SignedPlus`, and
  that only 0 is cut to 0, one step from the range, is `SignedZero`.
* `AnswersExactAlways`: `Spec => []AnswersExact`, for any senders, targets, addresses, port range,
  streams, width of the word and key. Words of two calls may be mixed in any way, so the
  invariant `ProbeInv` says little about them: the first word a call has read is some address
  (`CallsExact`), which no stray packet carries (`NoiseRefused`), and the receive task asked for
  the pair of the packet it holds, or of what is inside an error (`PacketExact`). An exact probe
  then brings its own words back, to a port that `PortAccepted` puts in the range unless the ports
  wrap; that the streams may outnumber the ports needs no assumption, since they wrap then.
* `StoredOnceAlways`: `Spec => []StoredOnce`, from `StoreExact`: stored packets have different
  answerers, and the answerer of an error is an address of this scan.
* `PoolsExactAlways`: `Spec => []PoolsExact`, for any headers, alignment, sizes of blocks, requests
  and limits and any series of calls. What callers were given are intervals of blocks. The
  invariant `PoolInv` says that they are inside the block, behind its header and before its
  `last` (`Inside`), and apart (`GivenApart`); an allocation adds one at what was `last`
  (`Grown`, `Fresh`), in an old block or in a new one. `LargeExact` says that each
  malloc of a caller is in just one record, so it is freed once. An object pool is either in
  order (`ObjectsOk`: no free object twice or in use, all counted, and none at all if a memory
  holds none) or has just given the head of its list away (`Ruined`).
* `InterfaceExactAlways`: `Spec => []InterfaceExact`, for any number of tasks, hosts, packets of a
  host and retries. The invariant `IfInv` gives each task `TaskInv`: a packet behind it (`Settled`)
  was sent once, at the last of its attempts, or failed in all the attempts there are; the one it is
  at has only failed; those ahead have no attempt; and the counters are the sizes of these sets, the
  index of the packet modulo 256.
* `BinExactAlways`: `Spec => []BinExact`, for bytes of any number of bits, any numbers, strings and
  sizes of buffers and any series of calls. The invariant `BinInv` says that there are offsets
  at which the entries written begin (`Layout`), that the bytes between two of them are those
  of the entry (`Fits`) and that the reader stands at one of them (`Cursor`). An
  entry keeps its bytes when others come behind it (`FitsKept`, `FitsMoved`). That the bytes
  of a number make the number again, negative ones included, is `ValueOfBytes`, from the digits of
  `DataLemmas`: what `Number` has read of the first i bytes is the number divided by what
  the others count, up to the size of the type (`DigitsRead`).

What is assumed of the constants the code has. Pools are made of 1024 and 4096 bytes with an
alignment of 16, so a block is a multiple of the alignment and a record fits in it, and the header of
a first block is longer than that of the others (`PoolsAssumption`). A host has one packet at
least (`InterfaceAssumption`). A byte string is shorter than its length can say (`BinAssumption`).

The module extends `Parts`, whose variables have numbers for names, and gives them back the names
they have in the modules of the parts. `Parts` passes its constants on to these five; the
other parts have fixed ones, and are only model-checked.

`ShmStoreProofs` proves, from `StoreAssumption`, for any sizes of records, entries and segment and
any number of records, closes and crashes:

* `TypeCorrect`: the ranges of all variables;
* `StreamExactAlways`, `AtMostOnceAlways`, `AtLeastOnceAlways`: the three invariants of the run;
* `Refinement`: `Spec => QueueSpec`.

The records are numbered in the order of the calls, so all three are about one sequence, `Stored`:
the entries that were released, those in the segment and the writer's own, one after another.
`StreamKept` says it increases and holds what was accepted but for the record being put;
`ReaderExact` that what was handed out comes before all of it that has still to be. Commits
and releases only move entries within `Stored` (`CommitEffect`, `ReleaseEffect`).

`ScanProofs` proves, for `SendTask`, from `GroupAssumption` and `ShardAssumption`:

* `OnlyOnceAlways` and `CoverageAlways`: with any prime, root, generator, offset, addresses, list
  and number of instances, every wanted address is probed exactly once when all tasks have
  returned. Their conditions, the rows of the second table of section 3, are these:
  `OneCycle` says that the constant `Primroot` is a root, which the table of groups in `xm_cyclic.c`
  promises, that an instance has one task, that elements fit in 32 bits and that the subshards
  divide the order; `Uncapped`, that what a counter starts with leaves a quota that no subshard
  reaches; and there is no limit on time.
* `OnlyWantedListed` and `OnlyWantedBegun`: only wanted addresses are probed, with a list and any
  walk at all, or under `OneCycle` if every subshard begins with an address (`Begun`).
* `CapRespectedAlways`: no more than `MaxTargets` addresses, for any number of tasks that does not
  exceed it.

The walk rests on what `Pow` computes. `PowSquared` shows that the function exists, and from it
`PowNext`, `PowSum` and `PowPower` are the laws of exponents. `GeneratorPrimitive` shows that an
exponent which `check_coprime` accepts gives a generator whose powers are all the elements, each
once: a common factor with the order would have a prime one, which the test finds
(`CommonFactor`). Hence the elements of a subshard are `Stride` powers in a row (`FirstLast`),
every element belongs to one place of one subshard (`Apart`, `Everywhere`), and
`xm_shard_get_next_ip` goes to the next place with an address (`NextAt`). The inductive
invariant `WalkKept` then gives each task a place: all addresses before it have been probed once
if wanted, and none behind it. For the cap, `CapKept` divides the probes made among the tasks,
each within its quota, and `QuotasSum` adds the quotas up.

For `Scan`, from `ScanAssumption`, whatever answers, errors and noise arrive, and whatever
addresses the scanner has:

* `TypeCorrect`, `ResultsExactAlways`, `LateBoundedAlways`, and `ScanCap`, the cap when there is a
  receiver. What is needed beside the properties is where a task may be with a late probe
  (`LateKept`), and that results, seen addresses and counters agree at each place of the loop
  and are of addresses something may have been heard from (`ResultsKept`, `Heard`).

`SourceReaderProofs` proves, from `ReaderAssumption` (the records of a segment are numbered in
order), for any readers, segments, filters, ids and number of starts:

* `TypeCorrect`: the ranges of all variables; and that a context whose pool exists and which is
  inside an entry is that of a segment that has one, so a commit never lacks its entry;
* `ProcessedExactAlways`: `Spec => []ProcessedExact`.

The inductive invariant `ReaderInv` says of a reader whose id no other has that it is `Waiting`,
however often it has failed to open its segment, or `Working`, with a pool and a context of its
own and one task, or `Stopped`, when its task may finish with the record it has and cannot read
another, or started again with several tasks (`Several`), of which nothing more is said than that
its context is its own. `Stream` relates four places a record may be in: those that were processed come before
the one in the buffer, which is the record the entry describes and is not taken, and this
before what the iterator has not passed. That other readers leave all of it alone needs that no
two started ones have one id (`TaskLeaves`, `StartLeaves`).

`DataLemmas` holds what these proofs share: least elements and induction for sets of numbers
(`SmallestOf`, `InductiveSet`), flattening, sums over a function and over a set, powers of two,
division and remainders, the digits of a number, and pieces of sequences. The operators of the
library are defined by recursion; the lemmas show first that the recursive function exists and
then argue over it by a set of numbers, because the prover cannot instantiate the induction
theorems of its library.

Only model-checked: every liveness property, since fairness and ENABLED are out of the prover's
reach; and the other modules of `Parts`. Of these, the patterns of `Fnmatch` have the meaning a
recursion gives them, which cannot be argued about here for every pattern; the command lines,
files and records of `Options`, `Config` and `Record` are fixed sets of data, which TLC enumerates,
so a theorem would say little more; the lists, tables and files of `Links`, `Tables` and `File`
would need an invariant about each of their many operations, as large as the proofs about all of the
above parts; and the iterators would need the walk of `ScanProofs` once more. The inductive
invariants (`RingInv`, `PoolInv`, `StoreInv`, `WalkKept`, `ReaderInv`, `BinInv` and the others) are
not in the runs, since they are proved.

## 6. Not modelled

* The bytes of packets, msgpack, checksums and the cipher: words that tell their inputs apart
  stand for them.
* Failing system calls (pipe, mmap, affinity, pcap) and the geometry of the segment. A slave
  whose affinity cannot be set would leave the master waiting for an acknowledgement
  (`xm_core_pool.c:292`).
* The adaptive rate limit of the sender, which delays and never decides, and the limit on time
  in the runs.
* The choice of a group by the size of the white list (`xm_get_cyclic_group`), which is the
  constant `Prime`.
* The syntax of lines: abbreviated option names, quotes, list entries, paths. What a line says
  is data.
* Text, path, URI and time utilities, `xm_printf.c`, `xm_util.c`, logging: conversions without
  state and thin layers over system calls, copied from other projects and most of them unused by
  the scanner.
* `xm_mpool_agent.h`, which does not compile; directory reading of `xm_match_glob`; array joins
  to strings.
* Memory order between processes other than the order of the code: on the machines xmap is built
  for, stores of one thread are seen in order.

## 7. Plan

Done, in this order: the ring and its proofs, the core pool and its proofs, the store, the
group, the shard and the send tasks, the receive task, the scan, the address tree and its proof;
then the Java reader, the iterators, options and configuration, the interfaces, probes and
records, and the data structures below them.

Done after that: the proofs about the store, the send tasks, the scan, the Java reader, the index
of the address tree, and of the parts the locks, the answers to probes, the pools, the interfaces
and the numbers and strings in buffers.

Next, proofs:

1. `Coverage` for subshards that do not divide the order, which cover it twice in part.
2. `IpIterator` and `Xiterate` from the walk of `ScanProofs`, stated for a shard alone.
3. `Tables` and `Links`, one group of operations at a time.

Next, models: failing system calls in `CorePool`, and the choice of a group in `Cyclic`.
