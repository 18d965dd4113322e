-------------------------------- MODULE Pbm --------------------------------
(***************************************************************************)
(* src/lib/common/xm_pbm.c: a set of 32-bit addresses as a map of bits     *)
(* whose pages are allocated when an address of theirs is set.             *)
(***************************************************************************)
EXTENDS Integers, Sequences

CONSTANTS
  Base,        (* NUM_PAGES and PAGE_SIZE_IN_BITS, 0x10000                 *)
  Byte,        (* the bits of a byte, 8; it divides Base                   *)
  Values,      (* addresses                                                *)
  Files,       (* sequences of lines: an address, or BAD, which is none    *)
  BAD, NULL,
  MaxCalls

VARIABLES
  b,           (* the pages: NULL, or the set bits of each byte            *)
  set,         (* what the caller has set                                  *)
  stray,       (* what lines without an address have set                   *)
  calls

pbmVars == <<b, set, stray, calls>>

Clear == [i \in 0..(Base \div Byte - 1) |-> {}]
Top(v) == v \div Base
bm_set(bm, v) == [bm EXCEPT ![v \div Byte] = @ \cup {v % Byte}]
bm_check(bm, v) == v % Byte \in bm[v \div Byte]

xm_pbm_check(p, v) == p[Top(v)] # NULL /\ bm_check(p[Top(v)], v % Base)

xm_pbm_set(p, v) ==
  [p EXCEPT ![Top(v)] = bm_set(IF @ = NULL THEN Clear ELSE @, v % Base)]

Init == b = [t \in 0..(Base - 1) |-> NULL] /\ set = {} /\ stray = {} /\ calls = 0

Set ==
  /\ calls < MaxCalls
  /\ \E v \in Values : b' = xm_pbm_set(b, v) /\ set' = set \cup {v}
  /\ calls' = calls + 1 /\ UNCHANGED stray

(* A line that is no address is logged, and whatever the uninitialised     *)
(* addr holds is set.                                                      *)
xm_pbm_load_from_file ==
  /\ calls < MaxCalls /\ calls' = calls + 1
  /\ \E file \in Files : \E junk \in [1..Len(file) -> Values] :
       LET Address(i) == IF file[i] = BAD THEN junk[i] ELSE file[i]
           bad == {i \in 1..Len(file) : file[i] = BAD}
           load[i \in 0..Len(file)] == IF i = 0 THEN b ELSE xm_pbm_set(load[i - 1], Address(i))
       IN  /\ b' = load[Len(file)]
           /\ set' = set \cup {file[i] : i \in 1..Len(file) \ bad}
           /\ stray' = stray \cup {junk[i] : i \in bad}

Next == Set \/ xm_pbm_load_from_file

Spec == Init /\ [][Next]_pbmVars
-----------------------------------------------------------------------------

(* The map holds the addresses that were set and no others, those that
   share a page or a byte included, but for the one a line without an
   address leaves (xm_pbm.c:36-100). *)
PbmExact == \A v \in 0..(Base * Base - 1) : xm_pbm_check(b, v) <=> v \in set \cup stray
=============================================================================
