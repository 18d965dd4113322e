---------------------------- MODULE SourceReader ----------------------------
(***************************************************************************)
(* The threads of the Java reader: AbstractSourceReader with its scheduled *)
(* task, XMapEntry and XMapEntryReader, and the table of native contexts   *)
(* below them (api/java/jni/xm_entry_reader.c).                            *)
(*                                                                         *)
(* The segment of a reader is the entries that have been committed to it   *)
(* and not been released, each a sequence of records.  A record is of a    *)
(* kind: "good", "unwanted" (the filter turns it down), "unknown" (no scan *)
(* type), "large" (beyond the buffer) or "bad" (parsing or processing it   *)
(* throws).                                                                *)
(***************************************************************************)
EXTENDS Naturals, Sequences, SequencesExt

CONSTANTS
  Readers,    (* readers, each with a segment of its own                   *)
  Segments,   (* what their segments may hold: sequences of entries        *)
  Filters,    (* filters to choose from: "null", "plain", "reads" (takes   *)
              (* the data of an entry) and "throws" (on unwanted entries)  *)
  Ids,        (* ids that they may have been given, as functions of the    *)
              (* reader; an id below MaxContexts has a context             *)
  MaxContexts,(* MAX_ENTRY_RCD_CONTEXT_N                                   *)
  MaxStarts   (* bound: calls of start of a reader                         *)

Record == [n : Nat, kind : {"good", "unwanted", "unknown", "large", "bad"}]

(* The records of a segment have numbers in their order.                   *)
Numbered(s) ==
  \A i, j \in DOMAIN s : \A a \in DOMAIN s[i], b \in DOMAIN s[j] :
    i < j \/ (i = j /\ a < b) => s[i][a].n < s[j][b].n

ASSUME ReaderAssumption ==
  /\ \A s \in Segments : s \in Seq(Seq(Record)) /\ Numbered(s)
  /\ Filters \subseteq {"null", "plain", "reads", "throws"}
  /\ Ids \subseteq [Readers -> Nat] /\ MaxContexts \in Nat /\ MaxStarts \in Nat

VARIABLES
  id, filter, segment,
  context,    (* entry_rcd_contexts: pool, the reader whose segment is     *)
              (* open, and eiter, the number of its next record or 0       *)
  live,       (* pools that exist; a pool is its reader and start          *)
  started,    (* started[r]: calls of start                                *)
  app,        (* app[r]: "new", "failed", "started" or "stopped"           *)
  task,       (* task[r][k]: where the task of start k is                  *)
  entry,      (* entry[r]: the XMapEntry of r: the record it describes,    *)
              (* the record in its buffer and whether that was read        *)
  good,       (* history: good[r] is how many good records r has           *)
  processed,  (* processed[r]: what SourceProcess got                      *)
  stops,      (* history: whether stop was called                          *)
  broken      (* a pool was used or destroyed that does not exist          *)

vars == <<id, filter, segment, context, live, started, app, task, entry, good, processed, stops, broken>>

Starts == 1 .. MaxStarts
NoPool == <<>>
Nothing == [n |-> 0, kind |-> "none"]
NoEntry == [record |-> Nothing, data |-> Nothing, taken |-> FALSE]

(* How many of the records s are good. *)
Good(s) == Len(SelectSeq(s, LAMBDA x : x.kind = "good"))

Init ==
  /\ id \in Ids
  /\ filter \in [Readers -> Filters]
  /\ segment \in [Readers -> Segments]
  /\ context = [i \in 0 .. MaxContexts - 1 |-> [pool |-> NoPool, reader |-> "none", eiter |-> 0]]
  /\ live = {}
  /\ started = [r \in Readers |-> 0] /\ app = [r \in Readers |-> "new"]
  /\ task = [r \in Readers |-> [k \in Starts |-> "none"]]
  /\ entry = [r \in Readers |-> NoEntry]
  /\ good = [r \in Readers |-> Good(FlattenSeq(segment[r]))]
  /\ processed = [r \in Readers |-> <<>>]
  /\ stops = FALSE /\ broken = FALSE

-----------------------------------------------------------------------------
(* The application. *)

MayStart(r) ==
  /\ ~broken /\ app[r] # "started" /\ started[r] < MaxStarts
  /\ started' = [started EXCEPT ![r] = @ + 1]
  /\ UNCHANGED <<id, filter, segment, entry, good, processed, stops, broken>>

(* open returns -1: no context of this id, no name, or no format, in which  *)
(* case the pool is left behind.                                            *)
StartFails(r) ==
  /\ MayStart(r)
  /\ live' \in {live, live \cup {<<r, started'[r]>>}}
  /\ app' = [app EXCEPT ![r] = "failed"]
  /\ UNCHANGED <<context, task>>

(* start: openMMap or openSHM, and the task is scheduled. *)
Start(r) ==
  /\ MayStart(r) /\ id[r] < MaxContexts
  /\ live' = live \cup {<<r, started'[r]>>}
  /\ context' = [context EXCEPT ![id[r]] =
       [pool |-> <<r, started'[r]>>, reader |-> r, eiter |-> 0]]
  /\ task' = [task EXCEPT ![r][started'[r]] = "idle"]
  /\ app' = [app EXCEPT ![r] = "started"]

(* The entry an iterator is on is committed. *)
Commit(c) ==
  segment' = [segment EXCEPT ![c.reader] = Tail(@)]

(* stop: close, inside an entry with a commit.  The task stays scheduled:   *)
(* remove looks for the runnable, and the queue holds what was made of it.  *)
Stop(r) ==
  LET c == context[id[r]] IN
  /\ ~broken /\ app[r] = "started"
  /\ app' = [app EXCEPT ![r] = "stopped"]
  /\ stops' = TRUE
  /\ broken' = (c.pool \notin live)
  /\ IF c.pool \in live /\ c.eiter # 0 THEN Commit(c) ELSE UNCHANGED segment
  /\ live' = live \ {c.pool}
  /\ UNCHANGED <<id, filter, context, started, task, entry, good, processed>>

-----------------------------------------------------------------------------
(* The task: SourceReadRunnable. *)

At(r, k, place) == ~broken /\ task[r][k] = place

Go(r, k, place) == task' = [task EXCEPT ![r][k] = place]

fixed == <<id, filter, live, started, app, good, stops>>

Tick(r, k) ==
  /\ At(r, k, "idle") /\ Go(r, k, "read")
  /\ UNCHANGED <<fixed, segment, context, entry, processed, broken>>

(* _prepare_iter_ok *)
Prepare(r, k) ==
  LET c == context[id[r]] IN
  /\ At(r, k, "read")
  /\ \/ c.pool \notin live /\ broken' = TRUE /\ UNCHANGED <<task, context>>
     \/ c.pool \in live /\ c.eiter # 0 /\ Go(r, k, "next") /\ UNCHANGED <<context, broken>>
     \/ /\ c.pool \in live /\ c.eiter = 0 /\ segment[c.reader] # <<>>
        /\ context' = [context EXCEPT ![id[r]].eiter = 1]
        /\ Go(r, k, "next") /\ UNCHANGED broken
     \/ /\ c.pool \in live /\ c.eiter = 0 /\ segment[c.reader] = <<>>
        /\ Go(r, k, "idle") /\ UNCHANGED <<context, broken>>
  /\ UNCHANGED <<fixed, segment, entry, processed>>

(* The rest of read, when a record is left: its type and size are set in    *)
(* any case, its data is copied to the start of the buffer if it fits.      *)
Next_record(r, k) ==
  LET c == context[id[r]]
      record == segment[c.reader][1][c.eiter] IN
  /\ At(r, k, "next") /\ c.pool \in live /\ c.eiter # 0
  /\ c.eiter <= Len(segment[c.reader][1])
  /\ context' = [context EXCEPT ![id[r]].eiter = @ + 1]
  /\ entry' = [entry EXCEPT ![r].record = record,
                            ![r].data = IF record.kind = "large" THEN @ ELSE record]
  /\ Go(r, k, "filter")
  /\ UNCHANGED <<fixed, segment, processed, broken>>

(* Mutant: the entry is not released after its last record. *)
Next_none_kept(r, k) ==
  LET c == context[id[r]] IN
  /\ At(r, k, "next") /\ c.pool \in live
  /\ c.eiter # 0 /\ c.eiter > Len(segment[c.reader][1])
  /\ Go(r, k, "idle")
  /\ UNCHANGED <<fixed, segment, context, entry, processed, broken>>

(* No record is left: the entry is released and the task is over. *)
Next_none(r, k) ==
  LET c == context[id[r]] IN
  /\ At(r, k, "next") /\ c.pool \in live
  /\ c.eiter # 0 /\ c.eiter > Len(segment[c.reader][1])
  /\ Commit(c)
  /\ context' = [context EXCEPT ![id[r]].eiter = 0]
  /\ Go(r, k, "idle")
  /\ UNCHANGED <<fixed, entry, processed, broken>>

(* The pool was destroyed between the two steps of a read, or another task  *)
(* of the reader has set eiter to NULL.                                     *)
Next_freed(r, k) ==
  /\ At(r, k, "next")
  /\ context[id[r]].pool \notin live \/ context[id[r]].eiter = 0
  /\ broken' = TRUE
  /\ UNCHANGED <<fixed, segment, context, task, entry, processed>>

(* Mutant: an entry that is done is not reset. *)
readEnd_never(e) == e

(* XMapEntry.reset *)
readEnd(e) == [e EXCEPT !.taken = FALSE]

Done(r, k, e) ==
  /\ entry' = [entry EXCEPT ![r] = readEnd(e)]
  /\ Go(r, k, "read")
  /\ UNCHANGED <<fixed, segment, context, broken>>

(* filter.isAccept(mapEntry), outside of the try: an exception ends the     *)
(* periodic task for ever.                                                  *)
Filtered(r) ==
  IF filter[r] = "reads" THEN [entry[r] EXCEPT !.taken = TRUE] ELSE entry[r]

Unwanted(r) == filter[r] # "null" /\ entry[r].record.kind = "unwanted"

TurnDown(r, k) ==
  /\ At(r, k, "filter") /\ Unwanted(r) /\ filter[r] # "throws"
  /\ Done(r, k, Filtered(r)) /\ UNCHANGED processed

FilterThrows(r, k) ==
  /\ At(r, k, "filter") /\ Unwanted(r) /\ filter[r] = "throws"
  /\ Go(r, k, "dead")
  /\ UNCHANGED <<fixed, segment, context, entry, processed, broken>>

Accept(r, k) ==
  /\ At(r, k, "filter") /\ ~Unwanted(r)
  /\ entry' = [entry EXCEPT ![r] = Filtered(r)]
  /\ Go(r, k, "parse")
  /\ UNCHANGED <<fixed, segment, context, processed, broken>>

(* getMessageUnpacker: the data is taken from where the buffer is. *)
Unpacked(e) == ~e.taken /\ e.record = e.data

(* Parsed, and processed if the filter is not null: calling a null filter   *)
(* throws inside the try, after the test that allows it.                    *)
Process(r, k) ==
  /\ At(r, k, "parse")
  /\ Unpacked(entry[r]) /\ entry[r].record.kind \in {"good", "unwanted"} /\ filter[r] # "null"
  /\ processed' = [processed EXCEPT ![r] = Append(@, entry[r].data)]
  /\ Done(r, k, [entry[r] EXCEPT !.taken = TRUE])

(* The data is not that of the record: it is too short, or it is parsed as  *)
(* it is.                                                                   *)
ProcessRest(r, k) ==
  /\ At(r, k, "parse") /\ ~Unpacked(entry[r]) /\ filter[r] # "null"
  /\ entry[r].record.kind \notin {"unknown", "large"}
  /\ processed' = [processed EXCEPT ![r] = Append(@, Nothing)]
  /\ Done(r, k, [entry[r] EXCEPT !.taken = TRUE])

(* parse returns null, or something throws. *)
Ignore(r, k) ==
  /\ At(r, k, "parse")
  /\ \/ entry[r].record.kind \in {"unknown", "large", "bad"}
     \/ filter[r] = "null" \/ ~Unpacked(entry[r])
  /\ Done(r, k, [entry[r] EXCEPT !.taken = TRUE])
  /\ UNCHANGED processed

TaskStep(r, k) ==
  \/ Tick(r, k) \/ Prepare(r, k)
  \/ Next_record(r, k) \/ Next_none(r, k) \/ Next_freed(r, k)
  \/ TurnDown(r, k) \/ FilterThrows(r, k) \/ Accept(r, k)
  \/ Process(r, k) \/ ProcessRest(r, k) \/ Ignore(r, k)

Next ==
  \/ \E r \in Readers : Start(r) \/ StartFails(r) \/ Stop(r)
  \/ \E r \in Readers, k \in Starts : TaskStep(r, k)
  \/ broken /\ UNCHANGED vars

(* The executor of every start has a thread. *)
Fairness == \A r \in Readers, k \in Starts : WF_vars(TaskStep(r, k))

Spec == Init /\ [][Next]_vars /\ Fairness

-----------------------------------------------------------------------------
(* Properties. *)

(* Two readers were started with one id: the second took the context over.  *)
Clash == \E r, q \in Readers : r # q /\ id[r] = id[q] /\ started[r] > 0 /\ started[q] > 0

Undisturbed == ~stops /\ ~Clash

(* A reader that was stopped and started again has two: the first polls on. *)
OneTask(r) == \A k, l \in Starts : task[r][k] # "none" /\ task[r][l] # "none" => k = l

(* Unless two readers have one id, the native side uses no pool that does   *)
(* not exist before one of them is stopped; and until it does, wherever a   *)
(* stop has met the task, what a reader with one task and a filter that     *)
(* leaves the data alone has processed are good records of its own segment, *)
(* each once and in order and with its own bytes, whatever throws, is       *)
(* unknown or too large in between (AbstractSourceReader.java:32-89).       *)
ProcessedExact ==
  ~Clash =>
    /\ ~stops => ~broken
    /\ ~broken => \A r \in Readers : filter[r] # "reads" /\ OneTask(r) =>
         /\ \A i \in DOMAIN processed[r] : processed[r][i].kind = "good"
         /\ \A i, j \in DOMAIN processed[r] : i < j => processed[r][i].n < processed[r][j].n

(* A reader that has been started takes all entries of its segment unless   *)
(* it is disturbed or an exception of its filter ends the task, and has     *)
(* then processed all good records if its filter is neither null nor reads. *)
Consumed ==
  \A r \in Readers :
    app[r] = "started" /\ Undisturbed ~>
      \/ ~Undisturbed \/ \E k \in Starts : task[r][k] = "dead"
      \/ /\ segment[r] = <<>>
         /\ filter[r] \in {"plain", "throws"} => Good(processed[r]) = good[r]
=============================================================================
