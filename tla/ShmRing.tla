------------------------------- MODULE ShmRing -------------------------------
(***************************************************************************)
(* The ring of entries in the shared-memory segment through which xmap     *)
(* (the writer process) hands scan results to the Java reader (another     *)
(* process): lib/shm/xm_shm_interface.{h,c} and the writer start of        *)
(* xm_shm_mmap.c.                                                          *)
(*                                                                         *)
(* Both processes map the same header.  Each owns its position, but both   *)
(* update shm_entries_count_cur with a plain "+=", which the compiler      *)
(* turns into a load and a store: the two halves are separate actions      *)
(* here.  A starting writer reinitialises the header, field by field,      *)
(* whether or not a reader is attached (xm_shm_mmap_create opens an        *)
(* existing file and calls xm_shm_init); a reader reinitialises nothing.   *)
(*                                                                         *)
(* An entry's content is one number, the position of the entry in the      *)
(* writer's output.  The segment's geometry, the time stamps of the header *)
(* and the mapping of one entry into memory are left out.                  *)
(***************************************************************************)
EXTENDS Integers, Sequences

CONSTANTS
  Entries,      (* shm_entries_count                                      *)
  Word,         (* the modulus of uint64_t arithmetic: 2^64 in the code   *)
  MaxWrites,    (* bound: entries filled in a behaviour                   *)
  MaxStarts,    (* bound: writer starts                                   *)
  MaxCrashes    (* bound: reader crashes                                  *)

ASSUME RingAssumption ==
  /\ Entries \in Nat \ {0}
  /\ Word \in Nat /\ Entries < Word
  /\ MaxWrites \in Nat /\ MaxStarts \in Nat /\ MaxCrashes \in Nat

VARIABLES
  slots,     (* the content of each entry; 0 before anything was written    *)
  countCur,  (* shm_entries_count_cur                                       *)
  writePos,  (* shm_write_entry_pos                                         *)
  readPos,   (* shm_read_entry_pos                                          *)
  wpc,       (* where the writer process is                                 *)
  wreg,      (* the count the writer has loaded and not stored              *)
  rpc,       (* where the reader process is                                 *)
  rreg,      (* the count the reader has loaded and not stored              *)
  ridx,      (* entry_index of the reader's xm_shm_entry_t                  *)
  rval,      (* what the reader read in that entry                          *)
  wseq,      (* entries filled so far                                       *)
  starts,    (* writer starts so far                                        *)
  crashes,   (* reader crashes so far                                       *)
  queue,     (* history: contents committed and not released, oldest first  *)
  last,      (* history: the content the reader released last               *)
  broken     (* history: the ring met an event it has no protection against *)

header == <<countCur, writePos, readPos>>
writer == <<wpc, wreg, wseq, starts>>
reader == <<rpc, rreg, ridx, rval, crashes>>
history == <<queue, last, broken>>
vars == <<slots, header, writer, reader, history>>

Index == 0 .. Entries - 1
Counter == 0 .. Word - 1
Content == 0 .. MaxWrites

WriterPC == {"down", "init1", "init2", "idle", "filling", "filled", "load", "store"}
ReaderPC == {"idle", "checked", "reading", "read", "load", "store"}

(* The segment is created filled with zeros; no writer has started yet. *)
Init ==
  /\ slots = [i \in Index |-> 0]
  /\ countCur = 0 /\ writePos = 0 /\ readPos = 0
  /\ wpc = "down" /\ wreg = 0 /\ wseq = 0 /\ starts = 0
  /\ rpc = "idle" /\ rreg = 0 /\ ridx = 0 /\ rval = 0 /\ crashes = 0
  /\ queue = <<>> /\ last = 0 /\ broken = FALSE

-----------------------------------------------------------------------------
(* Header operations, shared by both sides. *)

shm_empty == countCur = 0
(* Mutant: full one entry too late. *)
shm_full_late == countCur > Entries

shm_full == countCur = Entries

(* A position moves by one, modulo the number of entries. *)
NextPos(pos) == (pos + 1) % Entries

(* shm_entries_count_cur + c in uint64_t *)
CountPlus(c, n) == (c + n) % Word

-----------------------------------------------------------------------------
(* The writer process. *)

(* xm_shm_init: the count is reset first ... *)
WStart ==
  /\ wpc = "down" /\ starts < MaxStarts
  /\ starts' = starts + 1
  /\ countCur' = 0
  /\ wpc' = "init1"
  /\ queue' = <<>>
  /\ broken' = (broken \/ rpc # "idle")
  /\ UNCHANGED <<slots, writePos, readPos, wreg, wseq, reader, last>>

(* ... then the writer's position ... *)
WInitWritePos ==
  /\ wpc = "init1"
  /\ writePos' = 0
  /\ wpc' = "init2"
  /\ UNCHANGED <<slots, countCur, readPos, wreg, wseq, starts, reader, history>>

(* Mutant: the reader's position survives the start of a writer. *)
WInitReadPos_kept ==
  /\ wpc = "init2"
  /\ wpc' = "idle"
  /\ UNCHANGED <<slots, header, wreg, wseq, starts, reader, history>>

(* ... then the reader's. *)
WInitReadPos ==
  /\ wpc = "init2"
  /\ readPos' = 0
  /\ wpc' = "idle"
  /\ UNCHANGED <<slots, countCur, writePos, wreg, wseq, starts, reader, history>>

(* xm_shm_entry_get by the writer: the entry at the write position. *)
WGet ==
  /\ wpc = "idle" /\ wseq < MaxWrites
  /\ ~shm_full
  /\ wpc' = "filling"
  /\ UNCHANGED <<slots, header, wreg, wseq, starts, reader, history>>

(* xm_shm_entry_get by the writer returns -1. *)
WRefused ==
  /\ wpc = "idle" /\ shm_full
  /\ UNCHANGED vars

(* The caller writes the entry in place. *)
WFill ==
  /\ wpc = "filling"
  /\ wseq' = wseq + 1
  /\ slots' = [slots EXCEPT ![writePos] = wseq + 1]
  /\ wpc' = "filled"
  /\ UNCHANGED <<header, wreg, starts, reader, history>>

(* xm_shm_entry_commit: the position ... *)
WAdvance ==
  /\ wpc = "filled"
  /\ writePos' = NextPos(writePos)
  /\ wpc' = "load"
  /\ UNCHANGED <<slots, countCur, readPos, wreg, wseq, starts, reader, history>>

(* ... then the count, which is loaded ... *)
WLoad ==
  /\ wpc = "load"
  /\ wreg' = countCur
  /\ wpc' = "store"
  /\ UNCHANGED <<slots, header, wseq, starts, reader, history>>

(* ... and stored: the entry becomes visible to the reader. *)
WStore ==
  /\ wpc = "store"
  /\ countCur' = CountPlus(wreg, 1)
  /\ queue' = Append(queue, wseq)
  /\ broken' = (broken \/ wreg # countCur)
  /\ wpc' = "idle"
  /\ UNCHANGED <<slots, writePos, readPos, wreg, wseq, starts, reader, last>>

(* The process stops, between any two of its steps. *)
WCrash ==
  /\ wpc # "down"
  /\ wpc' = "down"
  /\ UNCHANGED <<slots, header, wreg, wseq, starts, reader, history>>

-----------------------------------------------------------------------------
(* The reader process. *)

(* xm_shm_entry_get by the reader: the test for an entry ... *)
RCheck ==
  /\ rpc = "idle"
  /\ ~shm_empty
  /\ rpc' = "checked"
  /\ UNCHANGED <<slots, header, writer, rreg, ridx, rval, crashes, history>>

(* xm_shm_entry_get by the reader returns -1. *)
RRefused ==
  /\ rpc = "idle" /\ shm_empty
  /\ UNCHANGED vars

(* ... and then its index. *)
RFetch ==
  /\ rpc = "checked"
  /\ ridx' = readPos
  /\ rpc' = "reading"
  /\ UNCHANGED <<slots, header, writer, rreg, rval, crashes, history>>

(* The caller reads the entry. *)
RRead ==
  /\ rpc = "reading"
  /\ rval' = slots[ridx]
  /\ rpc' = "read"
  /\ UNCHANGED <<slots, header, writer, rreg, ridx, crashes, history>>

(* Mutant: the reader commits without moving its position. *)
RAdvance_still ==
  /\ rpc = "read"
  /\ rpc' = "load"
  /\ UNCHANGED <<slots, header, writer, rreg, ridx, rval, crashes, history>>

(* Mutant: the reader moves on without lowering the count. *)
RAdvance_uncounted ==
  /\ rpc = "read"
  /\ readPos' = NextPos(readPos)
  /\ rpc' = "idle"
  /\ UNCHANGED <<slots, countCur, writePos, writer, rreg, ridx, rval, crashes, history>>

(* xm_shm_entry_commit: the position (the header's, not entry_index) ... *)
RAdvance ==
  /\ rpc = "read"
  /\ readPos' = NextPos(readPos)
  /\ rpc' = "load"
  /\ UNCHANGED <<slots, countCur, writePos, writer, rreg, ridx, rval, crashes, history>>

(* ... then the count, which is loaded ... *)
RLoad ==
  /\ rpc = "load"
  /\ rreg' = countCur
  /\ rpc' = "store"
  /\ UNCHANGED <<slots, header, writer, ridx, rval, crashes, history>>

(* ... and stored: the entry is free for the writer. *)
RStore ==
  /\ rpc = "store"
  /\ countCur' = CountPlus(rreg, -1)
  /\ last' = rval
  /\ queue' = IF queue = <<>> THEN <<>> ELSE Tail(queue)
  /\ broken' = (broken \/ rreg # countCur)
  /\ rpc' = "idle"
  /\ UNCHANGED <<slots, writePos, readPos, writer, rreg, ridx, rval, crashes>>

(* The reader process is killed and started again: it attaches to the     *)
(* header as it is, so a commit it had half done is never completed.      *)
RCrash ==
  /\ rpc # "idle" /\ crashes < MaxCrashes
  /\ crashes' = crashes + 1
  /\ rpc' = "idle"
  /\ broken' = (broken \/ rpc \in {"load", "store"})
  /\ UNCHANGED <<slots, header, writer, rreg, ridx, rval, queue, last>>

-----------------------------------------------------------------------------
WriterNext == \/ WStart \/ WInitWritePos \/ WInitReadPos
              \/ WGet \/ WRefused \/ WFill \/ WAdvance \/ WLoad \/ WStore
              \/ WCrash

ReaderStep == RCheck \/ RFetch \/ RRead \/ RAdvance \/ RLoad \/ RStore

ReaderNext == ReaderStep \/ RRefused \/ RCrash

Next == WriterNext \/ ReaderNext

Spec == Init /\ [][Next]_vars

(* The reader polls for ever (the loop of AbstractSourceReader.run), so a  *)
(* step it can take is eventually taken.  Nothing is assumed of the writer *)
(* or of crashes.                                                          *)
FairSpec == Spec /\ WF_vars(ReaderStep)

-----------------------------------------------------------------------------
(* Properties. *)

(* Every variable keeps to its range: the positions index an entry and the *)
(* count is a machine word, whatever the two processes do to each other.   *)
TypeOK ==
  /\ slots \in [Index -> Content]
  /\ countCur \in Counter /\ writePos \in Index /\ readPos \in Index
  /\ wpc \in WriterPC /\ wreg \in Counter /\ wseq \in Content /\ starts \in 0 .. MaxStarts
  /\ rpc \in ReaderPC /\ rreg \in Counter /\ ridx \in Index /\ rval \in Content
  /\ crashes \in 0 .. MaxCrashes
  /\ wpc = "filling" => wseq < MaxWrites
  /\ queue \in Seq(Content) /\ last \in Content /\ broken \in BOOLEAN

(* The slot i places after slot p, for i \in 0 .. Entries. *)
SlotAfter(p, i) == IF p + i < Entries THEN p + i ELSE p + i - Entries

(* The slot of the oldest entry not released: the reader moves its position *)
(* before it lowers the count.                                              *)
Oldest == IF rpc \in {"load", "store"}
          THEN (IF readPos = 0 THEN Entries - 1 ELSE readPos - 1)
          ELSE readPos

WriterRunning == wpc \notin {"down", "init1", "init2"}

(* Entries between the two positions. *)
Span == countCur + (IF wpc \in {"load", "store"} THEN 1 ELSE 0)

(* The count is the number of committed entries, and never exceeds the ring. *)
CountExact == countCur = Len(queue) /\ countCur <= Entries

(* The slots between the positions hold the committed contents, in order:  *)
(* the writer has not run over an entry the reader still owes.             *)
WindowExact == \A i \in 1 .. Len(queue) : slots[SlotAfter(Oldest, i - 1)] = queue[i]

(* Unless the two commits collide, a writer starts under a reader that     *)
(* holds an entry, or the reader dies inside a commit, the header tells    *)
(* the truth: the count is the number of unread entries and the unread     *)
(* entries are intact (xm_shm_interface.h, xm_shm_entry_pos_update).       *)
RingExact == ~broken => CountExact /\ WindowExact

(* xm_shm_interface.c:64: the writer is refused when the ring is full.  It *)
(* gets an entry only when one is free.                                    *)
FullRefused ==
  [][wpc = "idle" /\ wpc' = "filling" => Len(queue) < Entries]_vars

(* The reader never releases the same entry twice nor an older one after a *)
(* newer one, across writer restarts and its own crashes, unless broken.   *)
(* An entry it had fetched and not released it may fetch again.            *)
InOrder ==
  [][rpc = "store" /\ rpc' = "idle" /\ ~broken' => last' > last]_vars

(* Every committed entry is eventually released by the reader or discarded *)
(* by a starting writer, unless the ring is broken.                        *)
Drained ==
  \A v \in 1 .. MaxWrites :
    (\E i \in 1 .. Len(queue) : queue[i] = v)
      ~> (broken \/ \A i \in 1 .. Len(queue) : queue[i] # v)

(* The inductive invariant behind RingExact and InOrder.  What it adds: the *)
(* positions are Span entries apart, which of them are still owed while a   *)
(* side is inside its operation, and the order of the contents.             *)
WriterExact ==
  /\ WriterRunning => writePos = SlotAfter(Oldest, Span)
  /\ wpc \in {"filling", "filled", "load", "store"} => countCur < Entries
  /\ wpc \in {"filled", "load", "store"} => slots[SlotAfter(Oldest, countCur)] = wseq
  /\ wpc \in {"init1", "init2"} => countCur = 0
  /\ wpc = "init2" => writePos = 0

ReaderExact ==
  /\ rpc # "idle" => countCur > 0
  /\ rpc \in {"reading", "read"} => ridx = readPos
  /\ rpc \in {"read", "load", "store"} => rval = queue[1]

Ordered ==
  /\ last <= wseq
  /\ \A i \in 1 .. Len(queue) : last < queue[i] /\ queue[i] <= wseq
  /\ \A i, j \in 1 .. Len(queue) : i < j => queue[i] < queue[j]
  /\ wpc \in {"filled", "load", "store"} =>
       last < wseq /\ \A i \in 1 .. Len(queue) : queue[i] < wseq

RingInv ==
  ~broken => CountExact /\ WindowExact /\ WriterExact /\ ReaderExact /\ Ordered

(* The queue a process attached to the segment sees in the header and the   *)
(* entries: countCur contents from the oldest slot on.                      *)
Visible == IF broken THEN <<>>
           ELSE [i \in 1 .. countCur |-> slots[SlotAfter(Oldest, i - 1)]]

(* The ring implements the bounded queue until it is broken: whatever the   *)
(* interleaving of the two halves of the commits, an entry appears at the   *)
(* tail of the visible queue and leaves it at the head.                     *)
Q == INSTANCE ShmQueue WITH
       Capacity <- Entries, Values <- Content,
       queue <- Visible, failed <- broken
QueueSpec == Q!Spec
=============================================================================
