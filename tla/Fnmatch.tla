-------------------------------- MODULE Fnmatch --------------------------------
(***************************************************************************)
(* src/lib/common/xm_fnmatch.c: which file names a wildcard pattern        *)
(* stands for.  xm_fnmatch walks pattern and string by two pointers and    *)
(* goes back to the last "*" when a comparison fails; a step is one round  *)
(* of one of its loops.                                                    *)
(***************************************************************************)
EXTENDS Integers, Sequences, FiniteSets

CONSTANTS
  Patterns, Strings,   (* sequences of characters                          *)
  FlagSets,            (* of "noescape", "pathname", "period", "nocase"    *)
  ASCII                (* the code of every character; an upper case one   *)
                       (* is 32 below its lower case one                   *)

VARIABLES
  args,     (* the pattern, the string and the flags                       *)
  pc, p, s, (* where the call is, *pattern and *string                     *)
  strendseg,
  wild,     (* the last "*": is it open, strstartseg, mismatch, matchlen   *)
  result    (* 0 or XM_FNM_NOMATCH                                         *)

fnVars == <<args, pc, p, s, strendseg, wild, result>>

EOS == "EOS"
At(text, i) == IF i <= Len(text) THEN text[i] ELSE EOS
escape == "noescape" \notin args.flags
slash == "pathname" \in args.flags
nocase == "nocase" \in args.flags
P(i) == At(args.pattern, i)
S(i) == At(args.string, i)

Upper(c) == ASCII[c] \in 65..90
tolower(c) == IF Upper(c) THEN ASCII[c] + 32 ELSE ASCII[c]

Same(c, d) ==
  \/ c = d
  \/ nocase /\ (Upper(c) \/ Upper(d)) /\ tolower(c) = tolower(d)
Between(lo, c, hi) ==
  \/ ASCII[c] \in ASCII[lo]..ASCII[hi]
  \/ /\ nocase /\ \E d \in {lo, c, hi} : Upper(d)
     /\ tolower(c) \in tolower(lo)..tolower(hi)

(* "/", or an escaped one, ends a segment of the pattern, as its end does. *)
EscapedSlash(i) == escape /\ P(i) = "\\" /\ P(i + 1) = "/"
Separator(i) == slash /\ (P(i) = "/" \/ EscapedSlash(i))

(* The body of "[...]" from i: where the pattern goes on, 0 if it does not *)
(* end properly, and whether c is one of its characters.                   *)
Body(c, from) ==
  LET leads == P(from) = "]"
      body[i \in from..(Len(args.pattern) + 1)] ==
        LET skips == escape /\ P(i) = "\\" /\ ~(leads /\ i = from)
            j     == IF skips THEN i + 1 ELSE i
            k     == IF escape /\ P(j + 2) = "\\" THEN j + 3 ELSE j + 2
            Open(n) == P(n) = EOS \/ (slash /\ P(n) = "/")
            Then(hit, n) == [body[n] EXCEPT !.hit = @ \/ hit]
        IN  IF P(i) = "]" /\ ~(leads /\ i = from) THEN [next |-> i + 1, hit |-> FALSE]
            ELSE IF Open(j) THEN [next |-> 0, hit |-> FALSE]
            ELSE IF P(j + 1) = "-" /\ P(j + 2) # "]"
                 THEN IF Open(k) THEN [next |-> 0, hit |-> FALSE]
                      ELSE Then(Between(P(j), c, P(k)), k + 1)
            ELSE Then(Same(c, P(j)), j + 1)
  IN  body[from]

(* One character against the pattern: the pattern after it, whether it     *)
(* matches, and whether the string is advanced.                            *)
fnmatch_ch(i, c) ==
  LET negate  == P(i + 1) \in {"!", "^"}
      bracket == Body(c, IF negate THEN i + 2 ELSE i + 1)
      j       == IF escape /\ P(i) = "\\" /\ P(i + 1) # EOS THEN i + 1 ELSE i
      stays   == P(j) = EOS \/ (slash /\ (c = "/" \/ P(j) = "/"))
  IN  IF P(i) = "[" /\ bracket.next # 0
        THEN [next |-> bracket.next, hit |-> bracket.hit # negate, moved |-> TRUE]
      ELSE IF P(i) = "?"
        THEN [next |-> i + 1, hit |-> ~(slash /\ c = "/"), moved |-> TRUE]
      ELSE [next |-> IF stays THEN j ELSE j + 1, hit |-> Same(c, P(j)), moved |-> ~stays]

(* The characters from i up to the next "*" or the end of the segment.     *)
Fixed(from) ==
  LET fixed[i \in from..(Len(args.pattern) + 1)] ==
        IF P(i) = EOS \/ Separator(i) THEN [len |-> 0, last |-> TRUE]
        ELSE IF P(i) = "*" THEN [len |-> 0, last |-> FALSE]
        ELSE LET n == IF escape /\ P(i) = "\\" /\ P(i + 1) # EOS THEN i + 2
                      ELSE IF P(i) = "[" THEN fnmatch_ch(i, " ").next ELSE i + 1
             IN  [fixed[n] EXCEPT !.len = @ + 1]
  IN  fixed[from]

(* Where the run of "*" and "?" at i ends.                                 *)
RunEnd(i) == CHOOSE e \in i..(Len(args.pattern) + 1) :
  P(e) \notin {"*", "?"} /\ \A k \in i..(e - 1) : P(k) \in {"*", "?"}
-----------------------------------------------------------------------------

Init ==
  /\ args \in [pattern : Patterns, string : Strings, flags : FlagSets]
  /\ pc = IF P(1) = "*" THEN "segment" ELSE "loop"
  /\ p = 1 /\ s = 1 /\ strendseg = 1 /\ result = -1
  /\ wild = [on |-> FALSE, start |-> 0, pattern |-> 0, len |-> 0]

Goto(l) == pc' = l /\ UNCHANGED <<args, result>>
Return(r) == pc' = "done" /\ result' = r /\ UNCHANGED <<args, p, s, strendseg, wild>>
NOMATCH == Return(1)

(* While neither is at its end; the "/" of both are taken together.        *)
Loop ==
  /\ pc = "loop"
  /\ IF P(p) = EOS \/ S(s) = EOS THEN Return(IF P(p) = EOS /\ S(s) = EOS THEN 0 ELSE 1)
     ELSE LET i == IF slash /\ EscapedSlash(p) THEN p + 1 ELSE p
              n == IF slash /\ P(i) = "/" /\ S(s) = "/" THEN 1 ELSE 0
          IN  Goto("segment") /\ p' = i + n /\ s' = s + n /\ UNCHANGED <<strendseg, wild>>

EndOfSegment(from) ==
  CHOOSE e \in from..(Len(args.string) + 1) :
    /\ S(e) = EOS \/ (slash /\ S(e) = "/")
    /\ \A i \in from..(e - 1) : ~(slash /\ S(i) = "/")

(* A leading "." is matched by a "." only.                                 *)
Segment ==
  LET period == "period" \in args.flags /\ S(s) = "."
      dots   == IF P(p) = "." THEN 1 ELSE IF escape /\ P(p) = "\\" /\ P(p + 1) = "." THEN 2 ELSE 0
      from   == IF period THEN s + 1 ELSE s
  IN  /\ pc = "segment"
      /\ IF period /\ dots = 0 THEN NOMATCH
         ELSE /\ Goto("pattern") /\ p' = (IF period THEN p + dots ELSE p) /\ s' = from
              /\ strendseg' = EndOfSegment(from) /\ UNCHANGED wild

(* Whether a pattern that has come to the end of the segment fits there.   *)
LeaveSegment ==
  IF \/ S(s) # EOS /\ ~(slash /\ S(s) = "/")
     \/ P(p) # EOS /\ ~Separator(p)
  THEN NOMATCH
  ELSE Goto("loop") /\ UNCHANGED <<p, s, strendseg, wild>>

(* A run of "*" and "?": a character for every "?", and if there is a "*"  *)
(* what is left of the segment must hold the fixed characters behind it,   *)
(* at its very end if no "*" follows.                                      *)
Pattern ==
  LET e    == RunEnd(p)
      star == \E i \in p..(e - 1) : P(i) = "*"
      t    == s + Cardinality({i \in p..(e - 1) : P(i) = "?"})
      f    == Fixed(e)
  IN  /\ pc = "pattern"
      /\ IF P(p) = EOS \/ s > strendseg \/ (s = strendseg /\ P(p) # "*") \/ Separator(p)
           THEN LeaveSegment
         ELSE IF t > strendseg \/ (star /\ t + f.len > strendseg) THEN NOMATCH
         ELSE /\ Goto("match") /\ p' = e /\ UNCHANGED strendseg
              /\ s' = IF star /\ f.last THEN strendseg - f.len ELSE t
              /\ wild' = IF ~star THEN [wild EXCEPT !.on = FALSE]
                         ELSE [on |-> ~f.last, start |-> t, pattern |-> e, len |-> f.len]

(* A restart that forgets the characters the "*" has passed already.       *)
Match_restart ==
  LET ch == fnmatch_ch(p, S(s))
  IN  /\ pc = "match"
      /\ IF P(p) \in {EOS, "*"} \/ s >= strendseg \/ (slash /\ S(s) = "/") \/ Separator(p)
           THEN Goto("pattern") /\ UNCHANGED <<p, s, strendseg, wild>>
         ELSE IF ch.hit
           THEN /\ Goto("match") /\ p' = ch.next /\ s' = (IF ch.moved THEN s + 1 ELSE s)
                /\ UNCHANGED <<strendseg, wild>>
         ELSE IF ~wild.on \/ s + 1 + wild.len > strendseg THEN NOMATCH
         ELSE /\ Goto("match") /\ p' = wild.pattern /\ s' = s + 1
              /\ wild' = [wild EXCEPT !.start = s + 1] /\ UNCHANGED strendseg

(* Character by character; on a mismatch behind an open "*" the string     *)
(* goes on one character behind the last start.                            *)
Match ==
  LET ch == fnmatch_ch(p, S(s))
  IN  /\ pc = "match"
      /\ IF P(p) \in {EOS, "*"} \/ s >= strendseg \/ (slash /\ S(s) = "/") \/ Separator(p)
           THEN Goto("pattern") /\ UNCHANGED <<p, s, strendseg, wild>>
         ELSE IF ch.hit
           THEN /\ Goto("match") /\ p' = ch.next /\ s' = (IF ch.moved THEN s + 1 ELSE s)
                /\ UNCHANGED <<strendseg, wild>>
         ELSE IF ~wild.on \/ wild.start + 1 + wild.len > strendseg THEN NOMATCH
         ELSE /\ Goto("match") /\ p' = wild.pattern /\ s' = wild.start + 1
              /\ wild' = [wild EXCEPT !.start = @ + 1] /\ UNCHANGED strendseg

Next == Loop \/ Segment \/ Pattern \/ Match

Spec == Init /\ [][Next]_fnVars
-----------------------------------------------------------------------------

(* Is there a "*", "?" or "[...]" in the pattern?                          *)
xm_fnmatch_test(pattern) ==
  LET test[i \in 1..(Len(pattern) + 2), nesting \in BOOLEAN] ==
        CASE i > Len(pattern)       -> FALSE
          [] At(pattern, i) \in {"?", "*"} -> TRUE
          [] At(pattern, i) = "\\"  -> test[i + 2, nesting]
          [] At(pattern, i) = "["   -> test[i + 1, TRUE]
          [] At(pattern, i) = "]" /\ nesting -> TRUE
          [] OTHER                  -> test[i + 1, nesting]
  IN  test[1, FALSE]

(* What a pattern stands for, told from its characters alone: "*" is any   *)
(* number of characters of a segment, all else is one character, and the   *)
(* "." that begins a segment is matched by none but itself.                *)
Stands ==
  LET n == Len(args.pattern) + 1
      m == Len(args.string) + 1
      Leads(j) == "period" \in args.flags /\ S(j) = "." /\ (j = 1 \/ (slash /\ S(j - 1) = "/"))
      stands[i \in 1..n, j \in 1..m] ==
        CASE P(i) = EOS   -> S(j) = EOS
          [] P(i) = "*"   -> \/ stands[i + 1, j] /\ (Leads(j) => P(i + 1) = "/")
                             \/ /\ S(j) # EOS /\ ~(slash /\ S(j) = "/") /\ ~Leads(j)
                                /\ stands[i, j + 1]
          [] Separator(i) -> S(j) = "/" /\ stands[IF P(i) = "/" THEN i + 1 ELSE i + 2, j + 1]
          [] OTHER        -> /\ S(j) # EOS /\ ~(slash /\ S(j) = "/")
                             /\ Leads(j) => P(i) = "." \/ (escape /\ P(i) = "\\" /\ P(i + 1) = ".")
                             /\ fnmatch_ch(i, S(j)).hit
                             /\ stands[fnmatch_ch(i, S(j)).next, j + 1]
  IN  stands[1, 1]

(* xm_fnmatch finds a match exactly when there is one, whatever it has
   skipped and gone back to (xm_fnmatch.c:141-340). *)
MatchExact == pc = "done" => (result = 0) = Stands

(* A pattern without wildcards, as xm_fnmatch_test sees it, matches no
   string but its own characters (xm_fnmatch.c:352-382). *)
TestSound ==
  pc = "done" /\ result = 0 /\ ~xm_fnmatch_test(args.pattern) /\ escape /\ ~nocase =>
    args.string = SelectSeq(args.pattern, LAMBDA c : c # "\\")
=============================================================================
