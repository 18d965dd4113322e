-------------------------------- MODULE Links --------------------------------
(***************************************************************************)
(* src/lib/common: the rings of xm_ring.h and the lists and hash chains of *)
(* xm_list.h, all of them pointers inside the elements.  A macro or a      *)
(* function takes the memory and gives the memory after its assignments,   *)
(* in their order; next to the memory goes what the caller believes to be  *)
(* on every list.  pprev, the address of a pointer, is the node whose      *)
(* pointer it is.                                                          *)
(***************************************************************************)
EXTENDS Integers, Sequences
LOCAL INSTANCE SequencesExt

CONSTANTS Heads, Elems, NULL

VARIABLES
  kind,   (* "list", of xm_ring.h and struct list_head, or "hlist"         *)
  mem,    (* mem.next and mem.prev (pprev) of every node; first is next    *)
  list,   (* list[h]: what the caller believes                             *)
  dead,   (* heads to be initialised before they are used again            *)
  walk    (* a loop over a list, and what it has visited                   *)

linkVars == <<kind, mem, list, dead, walk>>
Nodes == Heads \cup Elems

To(m, n, a) == [m EXCEPT !.next[n] = a]
Back(m, n, a) == [m EXCEPT !.prev[n] = a]

XM_RING_INIT(m, h) == Back(To(m, h, h), h, h)
XM_RING_EMPTY(m, h) == m.next[h] = h

XM_RING_SPLICE_BEFORE(m, lep, ep1, epN) ==
  LET m1 == Back(To(m, epN, lep), ep1, m.prev[lep])
  IN  Back(To(m1, m1.prev[lep], ep1), lep, epN)
XM_RING_SPLICE_AFTER(m, lep, ep1, epN) ==
  LET m1 == To(Back(m, ep1, lep), epN, m.next[lep])
  IN  To(Back(m1, m1.next[lep], epN), lep, ep1)

XM_RING_INSERT_BEFORE(m, lep, nep) == XM_RING_SPLICE_BEFORE(m, lep, nep, nep)
XM_RING_INSERT_AFTER(m, lep, nep) == XM_RING_SPLICE_AFTER(m, lep, nep, nep)

XM_RING_CONCAT(m, h1, h2) ==
  IF XM_RING_EMPTY(m, h2) THEN m
  ELSE XM_RING_INIT(XM_RING_SPLICE_BEFORE(m, h1, m.next[h2], m.prev[h2]), h2)
XM_RING_PREPEND(m, h1, h2) ==
  IF XM_RING_EMPTY(m, h2) THEN m
  ELSE XM_RING_INIT(XM_RING_SPLICE_AFTER(m, h1, m.next[h2], m.prev[h2]), h2)

XM_RING_UNSPLICE(m, ep1, epN) ==
  LET m1 == To(m, m.prev[ep1], m.next[epN]) IN Back(m1, m1.next[epN], m1.prev[ep1])

INIT_LIST_HEAD(m, h) == Back(To(m, h, h), h, h)
__list_add(m, entry, prev, next) ==
  To(Back(To(Back(m, next, entry), entry, next), entry, prev), prev, entry)
list_add(m, entry, head) == __list_add(m, entry, head, m.next[head])
list_add_tail(m, entry, head) == __list_add(m, entry, m.prev[head], head)

(* An entry list_del has taken off can be taken off again.                 *)
__list_del(m, prev, next) ==
  IF prev = NULL \/ next = NULL THEN m ELSE To(Back(m, next, prev), prev, next)
__list_del_entry(m, entry) == __list_del(m, m.prev[entry], m.next[entry])
list_del(m, entry) == Back(To(__list_del_entry(m, entry), entry, NULL), entry, NULL)
list_del_init(m, entry) == INIT_LIST_HEAD(__list_del_entry(m, entry), entry)

list_replace(m, old, entry) ==
  LET m1 == To(m, entry, m.next[old])
      m2 == Back(m1, m1.next[entry], entry)
      m3 == Back(m2, entry, m2.prev[old])
  IN  To(m3, m3.prev[entry], entry)
list_replace_init(m, old, entry) == INIT_LIST_HEAD(list_replace(m, old, entry), old)

list_move(m, entry, head) == list_add(__list_del_entry(m, entry), entry, head)
list_move_tail(m, entry, head) == list_add_tail(__list_del_entry(m, entry), entry, head)
list_is_last(m, entry, head) == m.next[entry] = head
list_is_singular(m, head) == m.next[head] # head /\ m.next[head] = m.prev[head]
list_rotate_left(m, head) ==
  IF m.next[head] = head THEN m ELSE list_move_tail(m, m.next[head], head)

__list_cut_position(m, to, head, entry) ==
  LET first == m.next[entry]
      m1 == To(m, to, m.next[head])
      m2 == To(Back(Back(m1, m1.next[to], to), to, entry), entry, to)
  IN  Back(To(m2, head, first), first, head)
list_cut_position(m, to, head, entry) ==
  IF m.next[head] = head \/ (list_is_singular(m, head) /\ entry \notin {head, m.next[head]}) THEN m
  ELSE IF entry = head THEN INIT_LIST_HEAD(m, to) ELSE __list_cut_position(m, to, head, entry)

(* The last node still pointing at the head it came from.                  *)
__list_splice_open(m, from, prev, next) ==
  Back(To(Back(m, m.next[from], prev), prev, m.next[from]), next, m.prev[from])

__list_splice(m, from, prev, next) ==
  LET m1 == To(Back(m, m.next[from], prev), prev, m.next[from])
  IN  Back(To(m1, m.prev[from], next), next, m.prev[from])
list_splice(m, from, head) ==
  IF m.next[from] = from THEN m ELSE __list_splice(m, from, head, m.next[head])
list_splice_tail(m, from, head) ==
  IF m.next[from] = from THEN m ELSE __list_splice(m, from, m.prev[head], head)

__hlist_del(m, n) ==
  LET m1 == To(m, m.prev[n], m.next[n])
  IN  IF m.next[n] # NULL THEN Back(m1, m.next[n], m.prev[n]) ELSE m1
INIT_HLIST_NODE(m, n) == Back(To(m, n, NULL), n, NULL)
hlist_unhashed(m, n) == m.prev[n] = NULL
hlist_del(m, n) == INIT_HLIST_NODE(__hlist_del(m, n), n)
hlist_del_init(m, n) == IF hlist_unhashed(m, n) THEN m ELSE hlist_del(m, n)

hlist_add_head(m, n, h) ==
  LET m1 == To(m, n, m.next[h])
      m2 == IF m.next[h] # NULL THEN Back(m1, m.next[h], n) ELSE m1
  IN  Back(To(m2, h, n), n, h)
hlist_add_before(m, n, next) ==
  LET m1 == Back(To(Back(m, n, m.prev[next]), n, next), next, n) IN To(m1, m1.prev[n], n)
hlist_add_behind(m, n, prev) ==
  LET m1 == Back(To(To(m, n, m.next[prev]), prev, n), n, prev)
  IN  IF m1.next[n] # NULL THEN Back(m1, m1.next[n], n) ELSE m1
hlist_add_fake(m, n) == Back(m, n, n)
hlist_move_list(m, old, new) ==
  LET m1 == To(m, new, m.next[old])
  IN  To(IF m1.next[new] # NULL THEN Back(m1, m1.next[new], new) ELSE m1, old, NULL)

On(h) == {list[h][i] : i \in 1 .. Len(list[h])}
Free == Elems \ UNION {On(h) : h \in Heads}
Where(h, e) == CHOOSE i \in 1 .. Len(list[h]) : list[h][i] = e
Live == Heads \ dead
InsertedAt(h, i, e) == [list EXCEPT ![h] = SubSeq(@, 1, i - 1) \o <<e>> \o SubSeq(@, i, Len(@))]
Without(e) == [h \in Heads |-> SelectSeq(list[h], LAMBDA f : f # e)]

Init ==
  /\ kind \in {"list", "hlist"}
  /\ mem = [next |-> [n \in Nodes |-> IF kind = "list" /\ n \in Heads THEN n ELSE NULL],
            prev |-> [n \in Nodes |-> IF kind = "list" /\ n \in Heads THEN n ELSE NULL]]
  /\ list = [h \in Heads |-> <<>>] /\ dead = {}
  /\ walk = [on |-> FALSE, whole |-> TRUE]

Done(m, l) == mem' = m /\ list' = l /\ UNCHANGED <<kind, walk>>
Idle(k) == kind = k /\ ~walk.on

(* A free element goes on a list: at an end, or next to one that is on it. *)
Insert(e, h) ==
  /\ Idle("list") /\ e \in Free /\ h \in Live /\ UNCHANGED dead
  /\ \/ \E m \in {XM_RING_INSERT_AFTER(mem, h, e), list_add(mem, e, h)} : Done(m, InsertedAt(h, 1, e))
     \/ \E m \in {XM_RING_INSERT_BEFORE(mem, h, e), list_add_tail(mem, e, h)} :
          Done(m, InsertedAt(h, Len(list[h]) + 1, e))
     \/ \E f \in On(h) :
          \/ Done(XM_RING_INSERT_BEFORE(mem, f, e), InsertedAt(h, Where(h, f), e))
          \/ Done(XM_RING_INSERT_AFTER(mem, f, e), InsertedAt(h, Where(h, f) + 1, e))

(* An element comes off: it keeps its pointers, loses them or points at    *)
(* itself, and only in the last two cases may it come off again.           *)
Removable(e) == e \notin Free \/ {mem.next[e], mem.prev[e]} \in {{NULL}, {e}}
TakeOff(e) ==
  /\ Idle("list") /\ UNCHANGED dead
  /\ \/ e \notin Free /\ Done(XM_RING_UNSPLICE(mem, e, e), Without(e))
     \/ Removable(e) /\ \E m \in {list_del(mem, e), list_del_init(mem, e)} : Done(m, Without(e))

Move(e, h) ==
  LET l == Without(e)
  IN  /\ Idle("list") /\ Removable(e) /\ h \in Live /\ UNCHANGED dead
      /\ \/ Done(list_move(mem, e, h), [l EXCEPT ![h] = <<e>> \o @])
         \/ Done(list_move_tail(mem, e, h), [l EXCEPT ![h] = Append(@, e)])

(* A run of a ring is taken out of it and put behind or before another     *)
(* place, of the ring or of another.                                       *)
MoveRun(h, first, last, to, g) ==
  LET i == Where(h, first)  j == Where(h, last)
      run == SubSeq(list[h], i, j)
      l == [list EXCEPT ![h] = SubSeq(@, 1, i - 1) \o SubSeq(@, j + 1, Len(@))]
      m == XM_RING_UNSPLICE(mem, first, last)
      p == IF to = g THEN 0 ELSE CHOOSE k \in 1 .. Len(l[g]) : l[g][k] = to
  IN  /\ i <= j /\ to \notin {run[k] : k \in 1 .. Len(run)} /\ UNCHANGED dead
      /\ \/ Done(XM_RING_SPLICE_AFTER(m, to, first, last),
                 [l EXCEPT ![g] = SubSeq(@, 1, p) \o run \o SubSeq(@, p + 1, Len(@))])
         \/ LET q == IF to = g THEN Len(l[g]) ELSE p - 1
            IN  Done(XM_RING_SPLICE_BEFORE(m, to, first, last),
                     [l EXCEPT ![g] = SubSeq(@, 1, q) \o run \o SubSeq(@, q + 1, Len(@))])

(* One element takes the place of another; a head takes a list over.       *)
Replace(old, new) ==
  /\ Idle("list")
  /\ \/ /\ \E h \in Live : old \in On(h)
        /\ new \in Free /\ UNCHANGED dead
        /\ \E m \in {list_replace(mem, old, new), list_replace_init(mem, old, new)} :
             Done(m, [h \in Heads |-> [i \in DOMAIN list[h] |-> IF list[h][i] = old THEN new ELSE list[h][i]]])
     \/ /\ old \in Live /\ new \in Heads \ {old} /\ list[new] = <<>>
        /\ LET l == [list EXCEPT ![old] = <<>>, ![new] = list[old]]
           IN  \/ Done(list_replace(mem, old, new), l) /\ dead' = (dead \cup {old}) \ {new}
               \/ Done(list_replace_init(mem, old, new), l) /\ dead' = dead \ {new}

(* One list goes before or behind another, and is empty then, or has to be *)
(* initialised; an empty list may take the first part of another.          *)
Join(from, h) ==
  LET front == [list EXCEPT ![from] = <<>>, ![h] = list[from] \o @]
      back == [list EXCEPT ![from] = <<>>, ![h] = @ \o list[from]]
  IN  /\ Idle("list") /\ from # h /\ {from, h} \subseteq Live
      /\ \/ dead' = (IF list[from] = <<>> THEN dead ELSE dead \cup {from})
            /\ (Done(list_splice(mem, from, h), front) \/ Done(list_splice_tail(mem, from, h), back))
         \/ UNCHANGED dead
            /\ (Done(XM_RING_PREPEND(mem, h, from), front) \/ Done(XM_RING_CONCAT(mem, h, from), back))

Cut(to, h, entry) ==
  LET n == IF entry = h THEN 0 ELSE Where(h, entry)
      kept == IF list[h] = <<>> THEN dead ELSE dead \ {to}
  IN  /\ Idle("list") /\ to # h /\ h \in Live /\ list[to] = <<>>
      /\ dead' = (IF list_is_singular(mem, h) /\ entry \notin {h, mem.next[h]} THEN dead ELSE kept)
      /\ Done(list_cut_position(mem, to, h, entry),
              [list EXCEPT ![to] = SubSeq(list[h], 1, n), ![h] = SubSeq(@, n + 1, Len(@))])

Renew(h) ==
  /\ Idle("list") /\ h \in dead
  /\ Done(INIT_LIST_HEAD(mem, h), list) /\ dead' = dead \ {h}
Rotate(h) ==
  /\ Idle("list") /\ h \in Live /\ list[h] # <<>> /\ UNCHANGED dead
  /\ Done(list_rotate_left(mem, h), [list EXCEPT ![h] = Append(Tail(@), Head(@))])

(* The hash chains.  A fake element is on none, and may be deleted.        *)
Hash(e, h) ==
  /\ Idle("hlist") /\ UNCHANGED dead
  /\ \/ /\ e \in Free
        /\ \/ Done(hlist_add_head(mem, e, h), InsertedAt(h, 1, e))
           \/ \E f \in On(h) :
                \/ Done(hlist_add_before(mem, e, f), InsertedAt(h, Where(h, f), e))
                \/ Done(hlist_add_behind(mem, e, f), InsertedAt(h, Where(h, f) + 1, e))
     \/ e \in Free /\ hlist_unhashed(mem, e) /\ Done(hlist_add_fake(mem, e), list)
     \/ ~hlist_unhashed(mem, e) /\ Done(hlist_del(mem, e), Without(e))
     \/ Done(hlist_del_init(mem, e), Without(e))
     \/ \E g \in Heads \ {h} :
          /\ list[g] = <<>>
          /\ Done(hlist_move_list(mem, h, g), [list EXCEPT ![h] = <<>>, ![g] = list[h]])

(* The loops.  The safe ones read the next element before the body, which  *)
(* may take the current one off or move it to another list.                *)
Start(h, back) ==
  LET step == IF back THEN mem.prev ELSE mem.next
      pos == step[h]
  IN  /\ ~walk.on /\ h \in Live /\ list[h] # <<>> /\ (kind = "hlist" => ~back)
      /\ walk' = [on |-> TRUE, h |-> h, back |-> back, pos |-> pos, n |-> step[pos], changed |-> FALSE,
                  seen |-> <<pos>>, all |-> IF back THEN Reverse(list[h]) ELSE list[h]]
      /\ UNCHANGED <<kind, mem, list, dead>>

Body(h) ==
  /\ walk.on /\ ~walk.changed /\ h # walk.h /\ h \in Live
  /\ \/ kind = "list" /\ list' = Without(walk.pos)
        /\ mem' \in {list_del(mem, walk.pos), list_del_init(mem, walk.pos), XM_RING_UNSPLICE(mem, walk.pos, walk.pos)}
     \/ kind = "list" /\ list' = [Without(walk.pos) EXCEPT ![h] = Append(@, walk.pos)]
        /\ mem' = list_move_tail(mem, walk.pos, h)
     \/ kind = "hlist" /\ list' = Without(walk.pos) /\ mem' = hlist_del(mem, walk.pos)
  /\ walk' = [walk EXCEPT !.changed = TRUE]
  /\ UNCHANGED <<kind, dead>>

Advance ==
  LET pos == walk.n
      end == pos = (IF kind = "list" THEN walk.h ELSE NULL)
  IN  /\ walk.on
      /\ walk' = IF end THEN [on |-> FALSE, whole |-> walk.seen = walk.all]
                 ELSE [walk EXCEPT !.pos = pos, !.changed = FALSE, !.seen = Append(@, pos),
                                   !.n = IF walk.back THEN mem.prev[pos] ELSE mem.next[pos]]
      /\ UNCHANGED <<kind, mem, list, dead>>

Next ==
  \/ \E e \in Elems, h \in Heads : Insert(e, h) \/ Move(e, h) \/ Hash(e, h)
  \/ \E e \in Elems : TakeOff(e)
  \/ \E h, g \in Live : \E a, b \in On(h), to \in On(g) \cup {g} : Idle("list") /\ MoveRun(h, a, b, to, g)
  \/ \E old, new \in Nodes : Replace(old, new)
  \/ \E h, g \in Heads : Join(g, h) \/ \E e \in On(h) \cup {h} : Cut(g, h, e)
  \/ \E h \in Heads : Renew(h) \/ Rotate(h) \/ Body(h) \/ (\E b \in BOOLEAN : Start(h, b))
  \/ Advance

Spec == Init /\ [][Next]_linkVars
-----------------------------------------------------------------------------
Chain(h) == <<h>> \o list[h] \o (IF kind = "list" THEN <<h>> ELSE <<NULL>>)

(* XM_RING_CHECK_CONSISTENCY asserts this of every element of a ring.      *)
XM_RING_CHECK_CONSISTENCY(h) ==
  \A n \in On(h) \cup {h} : mem.prev[mem.next[n]] = n /\ mem.next[mem.prev[n]] = n

(***************************************************************************)
(* Whatever is inserted, removed, moved, cut, spliced and joined, in any   *)
(* order: every list runs through just its elements, forwards and          *)
(* backwards, and a loop whose body takes the current element off visits   *)
(* what was on the list when it began, once and in order.                  *)
(***************************************************************************)
LinksExact ==
  /\ \A h \in Live :
       /\ \A i \in 1 .. Len(list[h]) + 1 :
            /\ mem.next[Chain(h)[i]] = Chain(h)[i + 1]
            /\ Chain(h)[i + 1] # NULL => mem.prev[Chain(h)[i + 1]] = Chain(h)[i]
       /\ kind = "list" => XM_RING_CHECK_CONSISTENCY(h)
       /\ kind = "list" => \A e \in On(h) : list_is_last(mem, e, h) <=> e = Last(list[h])
  /\ IF walk.on THEN IsPrefix(walk.seen, walk.all) ELSE walk.whole
=============================================================================
