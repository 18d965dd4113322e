------------------------------ MODULE ShmStore ------------------------------
(***************************************************************************)
(* The result store: src/xm_store.c over lib/shm/xm_shm_format.c and       *)
(* xm_shm_entry_record.c on xmap's side, and api/java/jni/xm_entry_reader.c *)
(* with the loop of AbstractSourceReader.java on the reader's.             *)
(*                                                                         *)
(* The receiver stores one record per answer.  Records are packed into the *)
(* entry the writer holds; the entry is committed when the next record     *)
(* does not fit, or by the flush timer, which is looked at only after a    *)
(* record has been stored.  The reader hands out the records of the oldest *)
(* entry one by one and then releases the entry.                           *)
(*                                                                         *)
(* A record is its number of arrival with a size; an entry is the sequence *)
(* of its records.  The segment is the queue of ShmQueue: a get tests the  *)
(* queue, a commit appends to it or takes its head (ShmRing is the detail, *)
(* and says when that view of the segment stops being true).  Sizes are in *)
(* any unit, without the header of an entry.  The clock only goes forward. *)
(***************************************************************************)
EXTENDS Integers, Sequences, SequencesExt

CONSTANTS
  Capacity,    (* entries in the segment                                      *)
  Room,        (* shm_fentry_size less the entry header: the largest record   *)
  Space,       (* the same after xm_shm_mmap_create has aligned the entry size *)
  Sizes,       (* sizes of records                                            *)
  Timeout,     (* shm_flush_timeout                                           *)
  MaxRecords,  (* bound: records that arrive                                  *)
  MaxCloses,   (* bound: times the reader closes and opens again              *)
  MaxCrashes   (* bound: times the reader dies and starts again               *)

ASSUME StoreAssumption ==
  /\ Capacity \in Nat \ {0}
  /\ Room \in Nat /\ Space \in Nat /\ Room <= Space
  /\ Sizes \subseteq Nat \ {0}
  /\ Timeout \in Nat
  /\ MaxRecords \in Nat /\ MaxCloses \in Nat /\ MaxCrashes \in Nat

VARIABLES
  queue,      (* entries committed and not released, oldest first   *)
  wpc,        (* where the receiver is in xm_store_flush            *)
  size,       (* the size of the record it is storing               *)
  hasHeader,  (* has_header: the writer holds an entry              *)
  cur,        (* the records in that entry                          *)
  used,       (* their sizes together                               *)
  elapsed,    (* time since shm_last_time, up to Timeout + 1        *)
  accepted,   (* how many records have arrived                      *)
  dropped,    (* those discarded as too large                       *)
  reading,    (* the reader holds the head of the queue (eiter)     *)
  rcount,     (* entries_count: how many records of it it has read  *)
  closes, crashes,
  delivered,  (* history: the records the reader has handed out     *)
  released    (* history: the entries it has released               *)

writer == <<wpc, size, hasHeader, cur, used, elapsed, accepted, dropped>>
reader == <<reading, rcount, closes, crashes, delivered, released>>
vars == <<queue, writer, reader>>

Init ==
  /\ queue = <<>>
  /\ wpc = "idle" /\ size = 0 /\ hasHeader = FALSE /\ cur = <<>> /\ used = 0
  /\ elapsed = 0 /\ accepted = 0 /\ dropped = {}
  /\ reading = FALSE /\ rcount = 0 /\ closes = 0 /\ crashes = 0
  /\ delivered = <<>> /\ released = <<>>

-----------------------------------------------------------------------------
(* The receiver of xmap. *)

(* xm_store_flush hands over a record; one that is too large is discarded   *)
(* and xm_shm_entry_record_put returns at once.                             *)
XStoreFlush ==
  /\ wpc = "idle" /\ accepted < MaxRecords
  /\ accepted' = accepted + 1
  /\ \E s \in Sizes :
       /\ size' = s
       /\ IF s > Room
          THEN dropped' = dropped \cup {accepted + 1} /\ wpc' = "timer"
          ELSE wpc' = "put" /\ UNCHANGED dropped
  /\ UNCHANGED <<queue, hasHeader, cur, used, elapsed, reader>>

(* xm_shm_format_put: the record fits in the entry the writer holds. *)
PutRecord ==
  /\ wpc = "put" /\ hasHeader /\ used + size <= Space
  /\ cur' = Append(cur, accepted) /\ used' = used + size
  /\ wpc' = "timer"
  /\ UNCHANGED <<queue, size, hasHeader, elapsed, accepted, dropped, reader>>

(* It does not: _shm_entry_header_create commits the entry ... *)
PutCommit ==
  /\ wpc = "put" /\ hasHeader /\ used + size > Space
  /\ queue' = Append(queue, cur)
  /\ hasHeader' = FALSE /\ cur' = <<>> /\ used' = 0
  /\ UNCHANGED <<wpc, size, elapsed, accepted, dropped, reader>>

(* Mutant: the record that made the entry overflow is not written. *)
PutGet_unwritten ==
  /\ wpc = "put" /\ ~hasHeader /\ Len(queue) < Capacity
  /\ hasHeader' = TRUE
  /\ wpc' = "timer"
  /\ UNCHANGED <<queue, size, cur, used, elapsed, accepted, dropped, reader>>

(* ... and gets the next one, for the record; if there is none, the call    *)
(* fails and xm_shm_entry_record_put tries again.                           *)
PutGet ==
  /\ wpc = "put" /\ ~hasHeader /\ Len(queue) < Capacity
  /\ hasHeader' = TRUE /\ cur' = <<accepted>> /\ used' = size
  /\ wpc' = "timer"
  /\ UNCHANGED <<queue, size, elapsed, accepted, dropped, reader>>

PutRetry ==
  /\ wpc = "put" /\ ~hasHeader /\ Len(queue) >= Capacity
  /\ UNCHANGED vars

(* _xstore_shm_flush: not yet time, or nothing to commit. *)
NoFlush ==
  /\ wpc = "timer" /\ (elapsed <= Timeout \/ ~hasHeader)
  /\ elapsed' = IF elapsed > Timeout THEN 0 ELSE elapsed
  /\ wpc' = "idle"
  /\ UNCHANGED <<queue, size, hasHeader, cur, used, accepted, dropped, reader>>

(* xm_shm_format_flush commits the entry, even if no record is in it ... *)
FlushCommit ==
  /\ wpc = "timer" /\ elapsed > Timeout /\ hasHeader
  /\ queue' = Append(queue, cur)
  /\ hasHeader' = FALSE /\ cur' = <<>> /\ used' = 0
  /\ elapsed' = 0
  /\ wpc' = "flush"
  /\ UNCHANGED <<size, accepted, dropped, reader>>

(* Mutant: the writer believes it has an entry when the get has failed. *)
FlushGet_unreset ==
  /\ wpc = "flush"
  /\ hasHeader' = TRUE
  /\ wpc' = "idle"
  /\ UNCHANGED <<queue, size, cur, used, elapsed, accepted, dropped, reader>>

(* ... and gets the next one, or goes on without. *)
FlushGet ==
  /\ wpc = "flush"
  /\ hasHeader' = (Len(queue) < Capacity)
  /\ wpc' = "idle"
  /\ UNCHANGED <<queue, size, cur, used, elapsed, accepted, dropped, reader>>

(* The process ends, by itself between two records or killed anywhere; the  *)
(* entry it holds is not committed.                                         *)
Stop ==
  /\ wpc # "ended"
  /\ wpc' = "ended"
  /\ UNCHANGED <<queue, size, hasHeader, cur, used, elapsed, accepted, dropped, reader>>

Tick ==
  /\ elapsed <= Timeout
  /\ elapsed' = elapsed + 1
  /\ UNCHANGED <<queue, wpc, size, hasHeader, cur, used, accepted, dropped, reader>>

-----------------------------------------------------------------------------
(* The reader.  A call of XMapEntryReader.read takes the head of the queue, *)
(* unless it has it already.                                                *)

(* Mutant: empty one entry too early. *)
HasEntry_early == reading \/ Len(queue) > 1

HasEntry == reading \/ queue # <<>>

RecordsRead == IF reading THEN rcount ELSE 0

(* The call returns the next record ... *)
ReadRecord ==
  /\ HasEntry /\ RecordsRead < Len(Head(queue))
  /\ reading' = TRUE
  /\ rcount' = RecordsRead + 1
  /\ delivered' = Append(delivered, Head(queue)[RecordsRead + 1])
  /\ UNCHANGED <<queue, writer, closes, crashes, released>>

Release ==
  /\ released' = Append(released, Head(queue))
  /\ queue' = Tail(queue)
  /\ reading' = FALSE /\ rcount' = 0

(* Mutant: the last record is left out. *)
ReadEnd_early ==
  /\ HasEntry /\ RecordsRead + 1 >= Len(Head(queue))
  /\ Release
  /\ UNCHANGED <<writer, closes, crashes, delivered>>

(* Mutant: the entry is not released. *)
ReadEnd_unreleased ==
  /\ HasEntry /\ RecordsRead >= Len(Head(queue))
  /\ UNCHANGED vars

(* ... or releases the entry and returns -1 ... *)
ReadEnd ==
  /\ HasEntry /\ RecordsRead >= Len(Head(queue))
  /\ Release
  /\ UNCHANGED <<writer, closes, crashes, delivered>>

(* ... or returns -2. *)
ReadNone == ~HasEntry /\ UNCHANGED vars

(* Mutant: close leaves the entry to the next reader. *)
Close_unreleased ==
  /\ reading /\ closes < MaxCloses
  /\ reading' = FALSE /\ rcount' = 0
  /\ closes' = closes + 1
  /\ UNCHANGED <<queue, writer, crashes, delivered, released>>

(* close releases the entry as it is; the reader opens the segment again. *)
Close ==
  /\ reading /\ closes < MaxCloses
  /\ Release
  /\ closes' = closes + 1
  /\ UNCHANGED <<writer, crashes, delivered>>

(* The reader dies inside an entry and starts again with the same entry. *)
Crash ==
  /\ reading /\ crashes < MaxCrashes
  /\ crashes' = crashes + 1
  /\ reading' = FALSE /\ rcount' = 0
  /\ UNCHANGED <<queue, writer, closes, delivered, released>>

-----------------------------------------------------------------------------
WriterStep == \/ PutRecord \/ PutCommit \/ PutGet
              \/ NoFlush \/ FlushCommit \/ FlushGet

Read == ReadRecord \/ ReadEnd

Next == \/ XStoreFlush \/ WriterStep \/ PutRetry \/ Stop \/ Tick
        \/ Read \/ ReadNone \/ Close \/ Crash

Spec == Init /\ [][Next]_vars

(* Time passes, the reader polls for ever (scheduleAtFixedRate), and the    *)
(* receiver goes on with the record it has.  Nothing makes a record arrive. *)
FairSpec == Spec /\ WF_vars(WriterStep) /\ WF_vars(Read) /\ WF_vars(Tick)

-----------------------------------------------------------------------------
(* Properties. *)

Record == 1 .. MaxRecords

Increasing(s) == \A i, j \in DOMAIN s : i < j => s[i] < s[j]

(* What an entry may contain: records in the order of their arrival. *)
Entry == { s \in SeqOf(Record, MaxRecords) : Increasing(s) }

(* What the segment and the writer's entry hold, from the first record on. *)
Stored == FlattenSeq(released) \o FlattenSeq(queue) \o cur

(* The records the store accepts. *)
Kept == (1 .. accepted) \ dropped

(* Commits, retries and flushes neither lose a record nor store one twice   *)
(* nor change the order: what has been released, what is committed and what *)
(* the writer holds are together the records accepted so far, but for the   *)
(* one being stored.  The records of an entry never take more than it has,  *)
(* though the writer compares a record with the configured size first and   *)
(* with the aligned size of the entry later.                                *)
StreamExact ==
  /\ used <= Space
  /\ Increasing(Stored)
  /\ ToSet(Stored) \in {Kept, Kept \ {accepted}}
  /\ wpc # "ended" => (accepted \in Kept \ ToSet(Stored) <=> wpc = "put")

(* A reader that does not die gets every record at most once, in order,     *)
(* whenever the entries are committed and whenever it closes.               *)
AtMostOnce == crashes = 0 => Increasing(delivered)

(* A reader that does not close gets every record of every entry it         *)
(* releases, however often it dies.                                         *)
AtLeastOnce ==
  closes = 0 => ToSet(FlattenSeq(released)) \subseteq ToSet(delivered)

(* xm_shm_entry_record_put returns, because the reader makes room. *)
PutReturns == wpc = "put" ~> wpc # "put"

(* Every record in a committed entry is released in the end. *)
Consumed ==
  \A r \in Record : r \in ToSet(FlattenSeq(queue)) ~> r \in ToSet(FlattenSeq(released))

(* The writer keeps to the contract of the segment: it commits only an      *)
(* entry it got, so the queue never exceeds the capacity.                   *)
Q == INSTANCE ShmQueue WITH
       Values <- Entry,
       last <- IF released = <<>> THEN <<>> ELSE Last(released),
       failed <- FALSE
QueueSpec == Q!Spec
=============================================================================
