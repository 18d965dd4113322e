------------------------------- MODULE Config --------------------------------
(***************************************************************************)
(* xm_process_command_config (src/lib/common/xm_config.c): directives of a *)
(* file and of the files it includes, for the contexts of the drivers      *)
(* (src/src/interface).  The files to open are a stack, and so are the     *)
(* files that wait for one they include.  A line is                        *)
(*   <<"set", directive, words>>, or                                       *)
(*   <<"include", optional, wildcard, files>> with the files that match,   *)
(*   a directory as the sequence of its files, or <<"long">>, one longer   *)
(*   than the buffer.  Quotes, continuations and paths are left out.       *)
(***************************************************************************)
EXTENDS Integers, Sequences, FiniteSets, SequencesExt

CONSTANTS
  Systems,    (* possible file systems: for every name a sequence of lines, *)
              (* or Missing                                                *)
  Main,       (* the file the driver names                                 *)
  MaxNested   (* 1024                                                      *)

VARIABLES
  directives, (* names and args_how of the directives of the driver        *)
  fs, ari, arr, parms, pc, applied

configVars == <<directives, fs, ari, arr, parms, pc, applied>>

Missing == << <<"missing">> >>
Absent(f) == fs[f] # <<>> /\ fs[f][1][1] = "missing"
NoFile == [file |-> 0, at |-> 0]

(* The directives of libpcap, all of one argument.                         *)
pcap_context_directives ==
  [n \in {"SnapLen", "WaitMS", "PromiscMode", "FilterText"} |-> "TAKE1"]

(* Those of PF_RING. *)
pfring_context_directives ==
  [n \in {"RXNQueue", "TXNQueue", "RXPerNBuf", "TXPerNBuf", "RXBufSize", "TXBufSize",
          "RXQueueLen", "TXQueueLen", "MaxCardSlots", "ClusterID", "MntDir"} |-> "TAKE1"]

(* The calls a directive is made into, as the words of each; the numbers   *)
(* of words that are no error.                                             *)
Accepts(how, n) ==
  CASE how = "NO_ARGS" -> n = 0        [] how = "TAKE1" -> n = 1   [] how = "TAKE2" -> n = 2
    [] how = "TAKE12" -> n \in 1 .. 2  [] how = "TAKE3" -> n = 3   [] how = "TAKE23" -> n \in 2 .. 3
    [] how = "TAKE123" -> n \in 1 .. 3 [] how = "TAKE13" -> n \in {1, 3}
    [] how = "ITERATE2" -> n >= 2      [] OTHER -> TRUE

invoke_cmd(how, words) ==
  CASE how = "ITERATE" -> [i \in DOMAIN words |-> <<words[i]>>]
    [] how = "ITERATE2" -> [i \in 1 .. Len(words) - 1 |-> <<words[1], words[i + 1]>>]
    [] OTHER -> <<words>>

(* The files of the matches of an include, in the order of their names.    *)
xm_process_resource_config(entries) == FlattenSeq(entries)

xm_populate_include_files(line) ==
  [files |-> IF line[3] THEN xm_process_resource_config(line[4]) ELSE line[4][1],
   error |-> line[3] /\ line[4] = <<>> /\ ~line[2]]

-----------------------------------------------------------------------------
Init ==
  /\ directives \in {pcap_context_directives, pfring_context_directives}
  /\ fs \in Systems
  /\ ari = <<Main>> /\ arr = <<>>
  /\ parms = NoFile /\ pc = "open" /\ applied = <<>>

Fail(to) == pc' = to /\ ari' = <<>> /\ arr' = <<>> /\ parms' = NoFile /\ UNCHANGED applied

(* A file to open, if there is one, is read before those that wait.        *)
xm_pcfg_openfile ==
  /\ pc = "open" /\ ari # <<>>
  /\ UNCHANGED <<directives, fs>>
  /\ IF Absent(Last(ari)) \/ Len(arr) >= MaxNested THEN Fail("error")
     ELSE /\ parms' = [file |-> Last(ari), at |-> 1]
          /\ ari' = Front(ari) /\ pc' = "read" /\ UNCHANGED <<arr, applied>>

Resume ==
  /\ pc = "open" /\ ari = <<>> /\ arr # <<>>
  /\ parms' = Last(arr) /\ arr' = Front(arr) /\ pc' = "read"
  /\ UNCHANGED <<directives, fs, ari, applied>>

Done ==
  /\ pc = "open" /\ ari = <<>> /\ arr = <<>>
  /\ pc' = "done" /\ UNCHANGED <<directives, fs, ari, arr, parms, applied>>

Line == fs[parms.file][parms.at]
Advanced == [parms EXCEPT !.at = @ + 1]

(* xm_cfg_getline: a line that does not fit ends the file like its end.    *)
AtEnd == parms.at \in DOMAIN fs[parms.file] => Line[1] = "long"

xm_cfg_closefile ==
  /\ pc = "read" /\ AtEnd
  /\ pc' = "open" /\ parms' = NoFile /\ UNCHANGED <<directives, fs, ari, arr, applied>>

(* The tables of the drivers have no last record: a directive that is not  *)
(* in the table is looked for behind it, where nothing says what there is. *)
Directive ==
  /\ pc = "read" /\ ~AtEnd /\ Line[1] = "set"
  /\ UNCHANGED <<directives, fs>>
  /\ IF Line[2] \notin DOMAIN directives THEN Fail("error") \/ Fail("crash")
     ELSE LET how == directives[Line[2]] IN
          IF ~Accepts(how, Len(Line[3])) THEN Fail("error")
          ELSE /\ applied' = applied \o [i \in DOMAIN invoke_cmd(how, Line[3]) |->
                                          <<Line[2], invoke_cmd(how, Line[3])[i]>>]
               /\ parms' = Advanced /\ UNCHANGED <<ari, arr, pc>>

(* Mutant: the file that includes is not resumed. *)
Waiting_dropped == arr

Waiting == Append(arr, Advanced)

Include ==
  /\ pc = "read" /\ ~AtEnd /\ Line[1] = "include"
  /\ UNCHANGED <<directives, fs>>
  /\ LET p == xm_populate_include_files(Line) IN
     IF p.error THEN Fail("error")
     ELSE /\ ari' = ari \o p.files /\ arr' = Waiting
          /\ parms' = NoFile /\ pc' = "open" /\ UNCHANGED applied

Next == xm_pcfg_openfile \/ Resume \/ Done \/ xm_cfg_closefile \/ Directive \/ Include

Spec == Init /\ [][Next]_configVars

-----------------------------------------------------------------------------
(* Property. *)

(* The text of file f with its includes put in their places, d deep.       *)
Text[d \in 0 .. MaxNested] ==
  [f \in DOMAIN fs |->
     IF d = 0 \/ Absent(f) THEN <<>> ELSE
     LET read == SelectInSeq(fs[f], LAMBDA l : l[1] = "long")
         lines == IF read = 0 THEN fs[f] ELSE SubSeq(fs[f], 1, read - 1)
         of(l) == IF l[1] = "set" THEN << <<l[2], l[3]>> >>
                  ELSE FlattenSeq([i \in DOMAIN xm_populate_include_files(l).files |->
                                     Text[d - 1][xm_populate_include_files(l).files[i]]])
     IN  FlattenSeq([i \in DOMAIN lines |-> of(lines[i])])]

Occurrences(s, x) == Cardinality({ i \in DOMAIN s : s[i] = x })

OneEach ==
  \A f \in DOMAIN fs : ~Absent(f) =>
    \A i \in DOMAIN fs[f] : fs[f][i][1] = "include" =>
      Len(xm_populate_include_files(fs[f][i]).files) <= 1

(* A configuration that is accepted has had every directive of every file  *)
(* invoked as often as the text has it, and in the order of the text if no *)
(* include names several files; files that a wildcard names are read last  *)
(* to first, and before the rest of the first one that includes another.   *)
(* A file that includes itself ends in an error and never in a loop.       *)
ConfigExact ==
  /\ Len(arr) <= MaxNested
  /\ pc = "done" =>
       LET text == Text[MaxNested][Main] IN
       /\ \A i \in DOMAIN text : Occurrences(applied, text[i]) = Occurrences(text, text[i])
       /\ Len(applied) = Len(text)
       /\ OneEach => applied = text
=============================================================================
