-------------------------------- MODULE File --------------------------------
(***************************************************************************)
(* src/lib/common/xm_file_open.c, xm_file_readwrite.c, xm_file_fullrw.c: a *)
(* file with one buffer for both reading and writing, over the calls of    *)
(* the kernel.  Next to it goes what the calls mean: the bytes of the file *)
(* and the place where the next one is read or written.                    *)
(***************************************************************************)
EXTENDS Integers, Sequences
LOCAL INSTANCE SequencesExt

CONSTANTS
  Contents,          (* of the file before it is opened; ABSENT is none    *)
  ABSENT, NewLine,
  Writes,            (* sequences of bytes to write                        *)
  FlagSets,          (* of "read", "write", "create", "excl", "truncate",  *)
                     (* "append", "buffered", "delonclose"                 *)
  BufSize,           (* XM_FILE_DEFAULT_BUFSIZE                            *)
  Amounts,           (* bytes to read                                      *)
  MaxFailures, MaxCalls

VARIABLES
  flags, f,          (* the xm_file_t and, as disk and off, the kernel's   *)
                     (* file and its place in it                           *)
  state,             (* "none", "open", "refused" or "closed"              *)
  text, place,       (* what the calls mean                                *)
  last,              (* what a read has given, and should have given       *)
  drift,             (* filePtr is not the kernel's place any more         *)
  harm,              (* why the file is another, "no" if it is not         *)
  failures, calls

fileVars == <<flags, f, state, text, place, last, drift, harm, failures, calls>>

buffered == "buffered" \in flags
Piece(d, from, n) == SubSeq(d, from + 1, IF from + n < Len(d) THEN from + n ELSE Len(d))
(* The file d with the bytes b at a place; the kernel fills a gap.         *)
Over(d, at, b) ==
  LET n == IF at + Len(b) > Len(d) THEN at + Len(b) ELSE Len(d)
  IN  [i \in 1..n |-> IF i \in (at + 1)..(at + Len(b)) THEN b[i - at]
                      ELSE IF i <= Len(d) THEN d[i] ELSE 0]

(* The kernel's read and write; the latter takes the first k bytes of b.   *)
read(g, n) == Piece(g.disk, g.off, n)
write(g, b, k) ==
  LET at == IF "append" \in flags THEN Len(g.disk) ELSE g.off
  IN  IF k = 0 THEN g ELSE [g EXCEPT !.disk = Over(@, at, Piece(b, 0, k)), !.off = at + Len(Piece(b, 0, k))]

(* A write of n bytes takes all of them or fails after k.                  *)
Fates(n) == {n} \cup (IF failures < MaxFailures THEN 0..(n - 1) ELSE {})
Pending(g) == IF g.direction = 1 THEN g.bufpos ELSE 0

(* As if a failed flush kept only what was not written; it does not.       *)
Flush_forgets(g, k) ==
  LET n == Pending(g)
      h == write(g, g.buffer, k)
  IN  IF n = 0 THEN [g EXCEPT !.rv = 0]
      ELSE IF k < n THEN [h EXCEPT !.rv = 1, !.bufpos = 0]
      ELSE [h EXCEPT !.rv = 0, !.filePtr = @ + n, !.bufpos = 0]

(* On failure all of the buffer stays, what was written of it included.    *)
xm_file_flush_locked(g, k) ==
  LET n == Pending(g)
      h == write(g, g.buffer, k)
  IN  IF n = 0 THEN [g EXCEPT !.rv = 0]
      ELSE IF k < n THEN [h EXCEPT !.rv = 1]
      ELSE [h EXCEPT !.rv = 0, !.filePtr = @ + n, !.bufpos = 0]

(* Reading after writing.                                                  *)
ToReading(g, k) ==
  IF g.direction = 0 THEN [g EXCEPT !.rv = 0]
  ELSE LET h == xm_file_flush_locked(g, k)
       IN  IF h.rv # 0 THEN h ELSE [h EXCEPT !.bufpos = 0, !.dataRead = 0, !.direction = 0]

(* Where the next byte is read or written.                                 *)
Offset(g) == g.filePtr - g.dataRead + g.bufpos
Seek(g) ==
  [IF Offset(g) # g.filePtr THEN [g EXCEPT !.off = Offset(g)] ELSE g EXCEPT !.bufpos = 0, !.dataRead = 0]
ToWriting(g) == IF g.direction = 1 THEN g ELSE [Seek(g) EXCEPT !.direction = 1]

(* One byte of file_read_buffered: pushed back, of the buffer, or of the   *)
(* buffer filled again.                                                    *)
Take(g, i) ==
  LET b == read(g, BufSize)
  IN  IF g.rv # 0 THEN g
      ELSE IF g.ungetchar # -1
        THEN [g EXCEPT !.ungetchar = -1, !.out = Append(@, g.ungetchar)]
      ELSE IF g.bufpos < g.dataRead
        THEN [g EXCEPT !.out = Append(@, g.buffer[g.bufpos + 1]), !.bufpos = @ + 1]
      ELSE IF b = <<>> THEN [g EXCEPT !.eof_hit = TRUE, !.rv = 2]
      ELSE [g EXCEPT !.buffer = b, !.dataRead = Len(b), !.filePtr = @ + Len(b), !.bufpos = 1,
                     !.off = @ + Len(b), !.out = Append(@, b[1])]

Given(g) == [g EXCEPT !.rv = IF g.out # <<>> THEN 0 ELSE @]
file_read_buffered(g, n, k) ==
  LET h == ToReading([g EXCEPT !.out = <<>>], k)
  IN  IF h.rv # 0 THEN h ELSE Given(FoldLeft(Take, h, [i \in 1..n |-> i]))

(* Without a buffer: a byte pushed back at the end of the file is given    *)
(* with XM_EOF.                                                            *)
ReadPlain(g, n) ==
  LET back == IF g.ungetchar # -1 THEN <<g.ungetchar>> ELSE <<>>
      b    == read(g, n - Len(back))
      h    == [g EXCEPT !.ungetchar = -1, !.out = back \o b, !.off = @ + Len(b)]
  IN  IF n > Len(back) /\ b = <<>> THEN [h EXCEPT !.eof_hit = TRUE, !.rv = 2]
      ELSE [h EXCEPT !.rv = 0]

ReadWith(g, n, k) == IF buffered THEN file_read_buffered(g, n, k) ELSE ReadPlain(g, n)

(* A line: bytes one by one until a newline, n of them or an error.        *)
Line(g, n, k) ==
  LET Char(h, i) ==
        LET c == ReadWith(h, 1, k)
        IN  IF h.rv # 0 \/ (h.out # <<>> /\ h.out[Len(h.out)] = NewLine) THEN h
            ELSE [c EXCEPT !.out = h.out \o @]
      start == [IF buffered THEN ToReading(g, k) ELSE [g EXCEPT !.rv = 0] EXCEPT !.out = <<>>]
  IN  Given(FoldLeft(Char, start, [i \in 1..n |-> i]))

(* The bytes of b into the buffer, which is flushed when it is full: that  *)
(* writes all of it, but k bytes and no more before byte cut, where the    *)
(* loop ends then.                                                         *)
WriteBuffered(g, b, cut, k) ==
  LET Put(h, i) ==
        LET m == IF h.bufpos = BufSize THEN xm_file_flush_locked(h, IF i = cut THEN k ELSE BufSize) ELSE h
        IN  IF h.rv # 0 THEN h ELSE IF m.rv # 0 THEN m
            ELSE [m EXCEPT !.buffer = Append(SubSeq(@, 1, m.bufpos), b[i]), !.bufpos = @ + 1]
  IN  FoldLeft(Put, [ToWriting(g) EXCEPT !.rv = 0], [i \in DOMAIN b |-> i])
-----------------------------------------------------------------------------

NoFile == [disk |-> <<>>, off |-> 0, filePtr |-> 0, bufpos |-> 0, dataRead |-> 0, direction |-> 0,
           buffer |-> <<>>, ungetchar |-> -1, eof_hit |-> FALSE, rv |-> 0, out |-> <<>>]

Init ==
  /\ flags \in FlagSets /\ text \in Contents
  /\ f = NoFile /\ state = "none" /\ place = 0 /\ last = <<<<>>, <<>>>>
  /\ drift = FALSE /\ harm = "no" /\ failures = 0 /\ calls = 0

Refused ==
  \/ {"read", "write"} \cap flags = {}
  \/ "excl" \in flags /\ "create" \notin flags
  \/ text = ABSENT /\ "create" \notin flags
  \/ text # ABSENT /\ "excl" \in flags
xm_file_open ==
  /\ state = "none"
  /\ IF Refused THEN state' = "refused" /\ UNCHANGED <<f, text>>
     ELSE /\ state' = "open"
          /\ text' = IF text = ABSENT \/ "truncate" \in flags THEN <<>> ELSE text
          /\ f' = [NoFile EXCEPT !.disk = text']
  /\ UNCHANGED <<flags, place, last, drift, harm, failures, calls>>

Call(op) == state = "open" /\ op \in flags /\ calls < MaxCalls /\ calls' = calls + 1 /\ UNCHANGED flags

Means(t) == text' = t.text /\ place' = t.place
Meant == [text |-> text, place |-> place]
After(b) ==
  LET at == IF "append" \in flags THEN Len(text) ELSE place
  IN  IF b = <<>> THEN Meant ELSE [text |-> Over(text, at, b), place |-> at + Len(b)]

(* A flush of the last n bytes that fails after k of them leaves all in    *)
(* the buffer: those k will be in the file twice.                          *)
Repeated(t, n, k) ==
  IF k \notin 1..(n - 1) THEN t
  ELSE [text |-> Over(t.text, t.place - n + k, SubSeq(t.text, t.place - n + 1, t.place)),
        place |-> t.place + k]

(* The kernel's place is k bytes ahead of filePtr then.                    *)
Settle(n, k) ==
  /\ failures' = (IF k < n THEN failures + 1 ELSE failures)
  /\ drift' = (drift \/ k \in 1..(n - 1))

Expected(n) ==
  IF f.ungetchar = -1 THEN Piece(text, place, n) ELSE <<f.ungetchar>> \o Piece(text, place, n - 1)
Moved(given) == place + Len(given) - (IF f.ungetchar = -1 THEN 0 ELSE 1)

Gave(given) == last' = <<f'.out, given>> /\ place' = Moved(given) /\ UNCHANGED text
Failed(k) == last' = <<<<>>, <<>>>> /\ Means(Repeated(Meant, Pending(f), k))

xm_file_read ==
  /\ Call("read")
  /\ \E n \in Amounts, k \in Fates(Pending(f)) :
       /\ f' = ReadWith(f, n, k) /\ Settle(Pending(f), k)
       /\ IF k < Pending(f) THEN Failed(k) ELSE Gave(Expected(n))
  /\ UNCHANGED <<state, harm>>

FirstLine(b) ==
  IF \E i \in 1..Len(b) : b[i] = NewLine
  THEN SubSeq(b, 1, CHOOSE i \in 1..Len(b) : b[i] = NewLine /\ \A j \in 1..(i - 1) : b[j] # NewLine)
  ELSE b
xm_file_gets ==
  /\ Call("read")
  /\ \E n \in Amounts, k \in Fates(Pending(f)) :
       /\ f' = Line(f, n, k) /\ Settle(Pending(f), k)
       /\ IF k < Pending(f) THEN Failed(k) ELSE Gave(FirstLine(Expected(n)))
  /\ UNCHANGED <<state, harm>>

xm_file_ungetc ==
  /\ Call("read") /\ f' = [f EXCEPT !.ungetchar = NewLine]
  /\ UNCHANGED <<state, text, place, last, drift, harm, failures>>

(* Writing where reading is inside a block: the kernel is told the place,  *)
(* filePtr is not moved there, so the next time it is the wrong one.  What *)
(* is appended needs no place.                                             *)
Turns == buffered /\ f.direction = 0
Seeks == Turns /\ Offset(f) # f.filePtr
Harmed == harm' = IF drift /\ Seeks /\ "append" \notin flags THEN "drift" ELSE harm

(* With a buffer all is taken, or what is before a byte that had no room;  *)
(* without, the kernel takes part of it, and nothing if it fails.          *)
xm_file_write ==
  /\ Call("write")
  /\ \E b \in Writes :
       IF buffered
       THEN \E cut \in 0..Len(b), k \in Fates(BufSize) :
              /\ f' = WriteBuffered(f, b, cut, k)
              /\ IF f'.rv = 0 THEN Means(After(b)) /\ drift' = (drift \/ Seeks) /\ UNCHANGED failures
                 ELSE /\ Means(Repeated(After(SubSeq(b, 1, cut - 1)), BufSize, k))
                      /\ failures' = failures + 1 /\ drift' = (drift \/ Seeks \/ k > 0)
       ELSE \E k \in Fates(Len(b)) :
              /\ f' = [write(f, b, k) EXCEPT !.rv = 0] /\ Means(After(Piece(b, 0, k)))
              /\ failures' = (IF k < Len(b) THEN failures + 1 ELSE failures) /\ UNCHANGED drift
  /\ Harmed /\ UNCHANGED <<state, last>>

(* Until all is written or a write fails; puts, printf and the log.        *)
xm_file_write_full ==
  /\ Call("write") /\ ~buffered
  /\ \E b \in Writes : \E k \in Fates(Len(b)) :
       /\ f' = [write(f, b, k) EXCEPT !.rv = IF k < Len(b) THEN 1 ELSE 0]
       /\ Means(After(Piece(b, 0, k))) /\ failures' = (IF k < Len(b) THEN failures + 1 ELSE failures)
  /\ UNCHANGED <<state, last, drift, harm>>

(* Around the buffer; the rest of a short write goes through it.           *)
xm_file_writev_full ==
  /\ Call("write")
  /\ \E b \in Writes, k \in Fates(Pending(f)) :
       LET g == IF buffered THEN xm_file_flush_locked(f, k) ELSE f
           h == IF Turns THEN Seek(g) ELSE g
       IN  IF k < Pending(f)
           THEN f' = g /\ Settle(Pending(f), k) /\ Means(Repeated(Meant, Pending(f), k)) /\ UNCHANGED harm
           ELSE \E m \in Fates(Len(b)) :
                  LET w == write(h, b, m)
                      rest == SubSeq(b, m + 1, Len(b))
                  IN  /\ f' = IF m \in {0, Len(b)} THEN w
                              ELSE IF buffered THEN WriteBuffered(w, rest, 0, BufSize)
                              ELSE write(w, rest, Len(rest))
                      /\ Means(After(IF m = 0 THEN <<>> ELSE b)) /\ drift' = (drift \/ buffered)
                      /\ failures' = (IF m < Len(b) THEN failures + 1 ELSE failures)
                      /\ Harmed
  /\ UNCHANGED <<state, last>>

(* Also sync, datasync and file_info_get.                                  *)
xm_file_flush ==
  /\ Call("write") /\ buffered
  /\ \E k \in Fates(Pending(f)) :
       /\ f' = xm_file_flush_locked(f, k) /\ Settle(Pending(f), k)
       /\ Means(Repeated(Meant, Pending(f), k))
  /\ UNCHANGED <<state, last, harm>>

(* xm_file_close does not flush, xm_unix_file_cleanup does.                *)
xm_file_close ==
  /\ state = "open" /\ state' = "closed"
  /\ harm' = IF Pending(f) > 0 /\ harm = "no" THEN "closed" ELSE harm
  /\ UNCHANGED <<flags, f, text, place, last, drift, failures, calls>>
xm_unix_file_cleanup ==
  /\ state = "open" /\ state' = "closed"
  /\ \E k \in Fates(Pending(f)) :
       /\ LET g == xm_file_flush_locked(f, k)
          IN  f' = IF "delonclose" \in flags THEN [g EXCEPT !.disk = ABSENT] ELSE g
       /\ failures' = (IF k < Pending(f) THEN failures + 1 ELSE failures)
       /\ harm' = IF k < Pending(f) /\ harm = "no" THEN "closed" ELSE harm
  /\ text' = IF "delonclose" \in flags THEN ABSENT ELSE text
  /\ UNCHANGED <<flags, place, last, drift, calls>>

Next ==
  \/ xm_file_open \/ xm_file_read \/ xm_file_gets \/ xm_file_ungetc \/ xm_file_write
  \/ xm_file_write_full \/ xm_file_writev_full \/ xm_file_flush \/ xm_file_close
  \/ xm_unix_file_cleanup

Spec == Init /\ [][Next]_fileVars
-----------------------------------------------------------------------------

(* Through the buffer a file is the bytes its calls mean and reads at their
   place, whatever is flushed, in however many blocks, and wherever reading
   turns into writing.  A flush that fails loses nothing: what it has
   written is written twice, and a write it cuts short has left a prefix.
   The exceptions: closing without a flush, and turning to writing inside a
   block, not to append, once filePtr has lost the kernel's place, by such a
   turn, a writev or a flush that failed halfway (xm_file_readwrite.c:14-387). *)
FileExact ==
  harm = "no" /\ state \in {"open", "closed"} =>
    /\ last[1] = last[2]
    /\ state = "closed" => f.disk = text
    /\ state = "open" =>
         LET at == IF "append" \in flags THEN Len(f.disk) ELSE f.off
         IN  text = IF Pending(f) = 0 THEN f.disk ELSE Over(f.disk, at, SubSeq(f.buffer, 1, f.bufpos))
=============================================================================
