-------------------------------- MODULE Tables --------------------------------
(***************************************************************************)
(* src/lib/common/xm_tables.c: arrays that grow, and tables of strings     *)
(* whose keys do not tell upper case from lower, with an index by the      *)
(* first byte of the key.  Next to every table goes what its caller        *)
(* believes to be in it, as a plain sequence of entries.  Positions count  *)
(* from 1; memory is never short (a pool).                                 *)
(***************************************************************************)
EXTENDS Integers, Sequences
LOCAL INSTANCE FiniteSetsExt
LOCAL INSTANCE SequencesExt

CONSTANTS
  Tabs,
  Keys, Fold, Hash, Sum,   (* of a key: its order without regard to case,  *)
                           (* TABLE_HASH and the checksum                  *)
  Vals,
  MaxElts, MaxOps

VARIABLES
  tab,    (* tab[t]: elts is the memory (nalloc cells), block whose it is  *)
  abs,    (* abs[t]: what the caller believes                              *)
  ops

tableVars == <<tab, abs, ops>>

Junk == [key |-> "junk", val |-> <<>>]
Cells(n) == [i \in 1 .. n |-> Junk]
Entry(key, val) == [key |-> key, val |-> val]
Used(t) == SubSeq(t.elts, 1, t.nelts)

make_array_core(nelts) == Cells(IF nelts < 1 THEN 1 ELSE nelts)

(* A full array gets twice the memory, its own.                            *)
Doubled(n) == IF n <= 0 THEN 1 ELSE n * 2
xm_array_push(t, e, own) ==
  LET u == IF t.nelts < Len(t.elts) THEN t
           ELSE [t EXCEPT !.elts = @ \o Cells(Doubled(Len(@)) - Len(@)), !.block = own]
  IN  [u EXCEPT !.elts[t.nelts + 1] = e, !.nelts = @ + 1]

(* The size doubles until both fit; src goes behind what dst holds.        *)
xm_array_cat(t, src, own) ==
  LET n == t.nelts + Len(src)
      Size[s \in Nat] == IF n > s THEN Size[s * 2] ELSE s
      u == IF n <= Len(t.elts) THEN t
           ELSE [t EXCEPT !.elts = @ \o Cells(Size[Doubled(Len(@))] - Len(@)), !.block = own]
  IN  [u EXCEPT !.elts = [i \in DOMAIN @ |-> IF i \in t.nelts + 1 .. n THEN src[i - t.nelts] ELSE @[i]],
                !.nelts = n]

copy_array_hdr_core(t) == [t EXCEPT !.elts = SubSeq(@, 1, t.nelts)]

Buckets == {Hash[k] : k \in Keys}
xm_table_make(nelts, own) ==
  [elts |-> make_array_core(nelts), nelts |-> 0, block |-> own,
   first |-> [b \in Buckets |-> 0], last |-> [b \in Buckets |-> 0], init |-> {}]

table_reindex(t) ==
  LET at(b) == {i \in 1 .. t.nelts : Hash[t.elts[i].key] = b}
  IN  [t EXCEPT !.init = {Hash[t.elts[i].key] : i \in 1 .. t.nelts},
                !.first = [b \in Buckets |-> IF at(b) = {} THEN @[b] ELSE Min(at(b))],
                !.last = [b \in Buckets |-> IF at(b) = {} THEN @[b] ELSE Max(at(b))]]

xm_table_clear(t) == [t EXCEPT !.nelts = 0, !.init = {}]

(* The entries of a key, between the first and the last of its bucket.     *)
Same(key, other) == Sum[key] = Sum[other] /\ Fold[key] = Fold[other]
Matches(t, key) ==
  IF Hash[key] \notin t.init THEN {}
  ELSE {i \in t.first[Hash[key]] .. t.last[Hash[key]] : Same(key, t.elts[i].key)}
xm_table_get(t, key) == IF Matches(t, key) = {} THEN <<>> ELSE t.elts[Min(Matches(t, key))].val

xm_table_add(t, key, val, own) ==
  LET h == Hash[key]
      u == [t EXCEPT !.last[h] = t.nelts + 1, !.init = @ \cup {h},
                     !.first[h] = IF h \in t.init THEN @ ELSE t.nelts + 1]
  IN  xm_array_push(u, Entry(key, val), own)

(* The entries behind the removed ones move up over them; the memory       *)
(* behind the last keeps what it held.                                     *)
Shifted(t, gone) ==
  LET kept == SelectSeq([i \in 1 .. t.nelts |-> i], LAMBDA i : i \notin gone)
  IN  [t EXCEPT !.elts = [i \in DOMAIN @ |-> IF i <= Len(kept) THEN @[kept[i]] ELSE @[i]],
                !.nelts = Len(kept)]

xm_table_set(t, key, val, own) ==
  LET found == Matches(t, key)
      u == [t EXCEPT !.elts[Min(found)].val = val]
  IN  IF found = {} THEN xm_table_add(t, key, val, own)
      ELSE IF found = {Min(found)} THEN u
      ELSE table_reindex(Shifted(u, found \ {Min(found)}))

(* The index left as it was after entries have moved.                      *)
Unset_stale(t, key) == Shifted(t, Matches(t, key))

xm_table_unset(t, key) ==
  IF Matches(t, key) = {} THEN t ELSE table_reindex(Shifted(t, Matches(t, key)))

xm_table_merge(t, key, val, own) ==
  LET found == Matches(t, key)
  IN  IF found = {} THEN xm_table_add(t, key, val, own)
      ELSE [t EXCEPT !.elts[Min(found)].val = @ \o val]

(* The same without copies of the strings.                                 *)
xm_table_setn(t, key, val, own) == xm_table_set(t, key, val, own)
xm_table_mergen(t, key, val, own) == xm_table_merge(t, key, val, own)
xm_table_addn(t, key, val, own) == xm_table_add(t, key, val, own)

xm_table_copy(t, own) ==
  [t EXCEPT !.elts = [i \in DOMAIN @ |-> IF i <= t.nelts THEN @[i] ELSE Junk], !.block = own]
xm_table_clone(t, own) ==
  FoldLeft(LAMBDA u, e : xm_table_add(u, e.key, e.val, own), xm_table_make(t.nelts, own), Used(t))

xm_table_overlay(overlay, base, own) ==
  table_reindex(xm_array_cat(copy_array_hdr_core(overlay), Used(base), own))

(* The entries given to the callback for a key: until it returns 0, which  *)
(* it does at its n-th call.                                               *)
xm_table_vdo(t, key, n) ==
  LET at == SetToSortSeq(Matches(t, key), <)
  IN  [i \in 1 .. (IF n < Len(at) THEN n ELSE Len(at)) |-> t.elts[at[i]]]
xm_table_getm(t, key) ==
  FlattenSeq([i \in DOMAIN xm_table_vdo(t, key, t.nelts + 1) |-> xm_table_vdo(t, key, t.nelts + 1)[i].val])

(* Positions, sorted by key bottom up: pairs are put in order, then blocks *)
(* are merged, the left one first where keys are equal.                    *)
table_mergesort(t) ==
  LET n == t.nelts
      le(i, j) == Fold[t.elts[i].key] <= Fold[t.elts[j].key]
      Merge[a \in Seq(Nat), b \in Seq(Nat)] ==
        IF a = <<>> THEN b ELSE IF b = <<>> THEN a
        ELSE IF le(a[1], b[1]) THEN <<a[1]>> \o Merge[Tail(a), b] ELSE <<b[1]>> \o Merge[a, Tail(b)]
      part(s, i, size) == SubSeq(s, i, IF i + size - 1 < n THEN i + size - 1 ELSE n)
      Pass[s \in Seq(Nat), i \in Nat, size \in Nat] ==
        IF i > n THEN <<>> ELSE Merge[part(s, i, size), part(s, i + size, size)] \o Pass[s, i + 2 * size, size]
      Sorted[s \in Seq(Nat), size \in Nat] == IF size >= n THEN s ELSE Sorted[Pass[s, 1, size], 2 * size]
  IN  Sorted[Pass[[i \in 1 .. n |-> i], 1, 1], 2]

(* Runs of one key in the sorted positions: the first entry stays, with    *)
(* all their values or with the last, and the others go.                   *)
xm_table_compress(t, merge) ==
  LET s == table_mergesort(t)
      run(i) == {j \in i .. t.nelts : \A k \in i .. j : Same(t.elts[s[k]].key, t.elts[s[i]].key)}
      firsts == {i \in 1 .. t.nelts : i = 1 \/ ~Same(t.elts[s[i]].key, t.elts[s[i - 1]].key)}
      val(i) == IF merge THEN FlattenSeq([k \in 1 .. Max(run(i)) - i + 1 |-> t.elts[s[i + k - 1]].val])
                ELSE t.elts[s[Max(run(i))]].val
      u == [t EXCEPT !.elts = [p \in DOMAIN @ |->
              IF \E i \in firsts : s[i] = p THEN [@[p] EXCEPT !.val = val(CHOOSE i \in firsts : s[i] = p)] ELSE @[p]]]
  IN  IF t.nelts <= 1 THEN t
      ELSE table_reindex(Shifted(u, (1 .. t.nelts) \ {s[i] : i \in firsts}))

xm_table_cat(t, s, own) ==
  LET n == t.nelts
      u == xm_array_cat(t, Used(s), own)
  IN  IF n = 0 THEN [u EXCEPT !.first = s.first, !.last = s.last, !.init = s.init]
      ELSE [u EXCEPT !.last = [b \in Buckets |-> IF b \in s.init THEN s.last[b] + n ELSE @[b]],
                     !.first = [b \in Buckets |-> IF b \in s.init \ t.init THEN s.first[b] + n ELSE @[b]],
                     !.init = @ \cup s.init]
xm_table_overlap(t, s, merge, own) ==
  IF t.nelts + s.nelts = 0 THEN t ELSE xm_table_compress(xm_table_cat(t, s, own), merge)
-----------------------------------------------------------------------------
(* The caller's view.                                                      *)
At(s, key) == {i \in DOMAIN s : Fold[s[i].key] = Fold[key]}
Dropped(s, gone) == [j \in 1 .. Len(s) - Cardinality(gone) |->
                       s[CHOOSE i \in DOMAIN s \ gone : Cardinality({k \in 1 .. i : k \notin gone}) = j]]
Set(s, key, val) ==
  IF At(s, key) = {} THEN Append(s, Entry(key, val))
  ELSE Dropped([s EXCEPT ![Min(At(s, key))].val = val], At(s, key) \ {Min(At(s, key))})
Merged(s, key, val) ==
  IF At(s, key) = {} THEN Append(s, Entry(key, val)) ELSE [s EXCEPT ![Min(At(s, key))].val = @ \o val]
AllOf(s, key) == FlattenSeq([i \in DOMAIN s |-> IF i \in At(s, key) THEN s[i].val ELSE <<>>])
Compressed(s, merge) ==
  LET u == [i \in DOMAIN s |-> Entry(s[i].key, IF merge THEN AllOf(s, s[i].key) ELSE s[Max(At(s, s[i].key))].val)]
  IN  Dropped(u, {i \in DOMAIN s : i # Min(At(s, s[i].key))})

Init ==
  /\ \E n \in 0 .. 1 : tab = [t \in Tabs |-> xm_table_make(n, t)]
  /\ abs = [t \in Tabs |-> <<>>] /\ ops = 0

(* A table whose memory is another's too is not written where it is; what  *)
(* goes behind its end goes to memory of its own.                          *)
Alone(t) == \A u \in Tabs \ {t} : tab[u].block # tab[t].block
Full(t) == tab[t].nelts = Len(tab[t].elts)

Do(t, v, s) ==
  /\ ops < MaxOps /\ Len(s) <= MaxElts
  /\ tab' = [tab EXCEPT ![t] = v] /\ abs' = [abs EXCEPT ![t] = s] /\ ops' = ops + 1

(* A block of its own: the name of a table none refers to.                 *)
Fresh(t) == \A u \in Tabs \ {t} : tab[u].block # t

Write(t) ==
  /\ Alone(t)
  /\ \E key \in Keys, v \in Vals :
       \/ \E u \in {xm_table_set(tab[t], key, v, t), xm_table_setn(tab[t], key, v, t)} :
            Do(t, u, Set(abs[t], key, v))
       \/ \E u \in {xm_table_merge(tab[t], key, v, t), xm_table_mergen(tab[t], key, v, t)} :
            Do(t, u, Merged(abs[t], key, v))
       \/ Do(t, xm_table_unset(tab[t], key), Dropped(abs[t], At(abs[t], key)))

Extend(t) ==
  /\ (Alone(t) \/ Full(t)) /\ Fresh(t)
  /\ \E key \in Keys, v \in Vals :
       \E u \in {xm_table_add(tab[t], key, v, t), xm_table_addn(tab[t], key, v, t)} :
         Do(t, u, Append(abs[t], Entry(key, v)))

Combine(t, s) ==
  /\ Alone(t)
  /\ \E merge \in BOOLEAN :
       \/ Do(t, xm_table_overlap(tab[t], tab[s], merge, t), Compressed(abs[t] \o abs[s], merge))
       \/ Do(t, xm_table_compress(tab[t], merge), Compressed(abs[t], merge))

Make(t, s) ==
  /\ Fresh(t) /\ t # s
  /\ \/ Do(t, xm_table_copy(tab[s], t), abs[s])
     \/ Do(t, xm_table_clone(tab[s], t), abs[s])
     \/ \E b \in Tabs \ {t} : Do(t, xm_table_overlay(tab[s], tab[b], t), abs[s] \o abs[b])
     \/ Alone(t) /\ Do(t, xm_table_clear(tab[t]), <<>>)

Next == \E t \in Tabs : Write(t) \/ Extend(t) \/ (\E s \in Tabs : Combine(t, s) \/ Make(t, s))

Spec == Init /\ [][Next]_tableVars
-----------------------------------------------------------------------------
(***************************************************************************)
(* After any series of calls a table holds just the entries its caller     *)
(* believes, and the index, which the lookups trust, finds every one: the  *)
(* first of a key, all of a key in order, and of a callback's calls no     *)
(* more than it asked for.                                                 *)
(***************************************************************************)
TablesExact ==
  \A t \in Tabs :
    /\ Used(tab[t]) = abs[t]
    /\ tab[t].init = {Hash[abs[t][i].key] : i \in DOMAIN abs[t]}
    /\ \A key \in Keys :
         LET at == At(abs[t], key)
         IN  /\ xm_table_get(tab[t], key) = IF at = {} THEN <<>> ELSE abs[t][Min(at)].val
             /\ xm_table_getm(tab[t], key) = AllOf(abs[t], key)
             /\ Len(xm_table_vdo(tab[t], key, 1)) = IF at = {} THEN 0 ELSE 1
=============================================================================
