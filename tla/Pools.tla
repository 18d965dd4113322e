-------------------------------- MODULE Pools --------------------------------
(***************************************************************************)
(* src/lib/common: the memory pool (xm_mpool.c) and the object pool        *)
(* (xm_object_pool.c).  A block of the pool is an interval of addresses    *)
(* from 0; what a caller was given of it is an interval of those.  malloc  *)
(* and memalign may have no memory.                                        *)
(***************************************************************************)
EXTENDS Integers, Sequences, FiniteSets

CONSTANTS
  ALIGNMENT,
  PoolSizes, MaxAlloc,         (* of xm_pool_create, XM_MAX_ALLOC_FROM_POOL *)
  PoolHeader, DataHeader,      (* sizeof xm_pool_t, xm_pool_data_t          *)
  LargeRecord, CleanupRecord,
  Sizes,                       (* asked of the pool                         *)
  FailLimit, ReuseLimit,       (* a block is given up, a search ends        *)
  ObjectMem, ObjectHeaders, ObjectSizes, Limits,
  MaxCalls

VARIABLES
  use,      (* "pool" or "objects"                                         *)
  pool,     (* size, max, current; blocks: last and failed; large: the     *)
            (* malloc of every record, 0 for none; its handlers, cleanup   *)
            (* since the last reset and older those from before it         *)
  given,    (* what callers hold: [blk, from, to, aligned]                 *)
  heap,     (* live mallocs                                                *)
  ran,      (* handlers run by xm_pool_destroy                             *)
  objs,     (* the object pool                                             *)
  calls

poolVars == <<use, pool, given, heap, ran, objs, calls>>

Aligned(m) == ((m + ALIGNMENT - 1) \div ALIGNMENT) * ALIGNMENT
Least(a, b) == IF a < b THEN a ELSE b

(* The sizes xm_mpool.h and its callers give: pools of 1024 bytes and more  *)
(* in whole words, whose header begins with that of the other blocks.       *)
PoolsAssumption ==
  /\ ALIGNMENT \in Nat \ {0} /\ MaxAlloc \in Nat /\ MaxCalls \in Nat
  /\ PoolHeader \in Nat /\ DataHeader \in Nat /\ Aligned(DataHeader) <= PoolHeader
  /\ LargeRecord \in Nat /\ CleanupRecord \in Nat
  /\ \A size \in PoolSizes :
       /\ size \in Nat /\ size % ALIGNMENT = 0
       /\ PoolHeader + LargeRecord <= size /\ PoolHeader + CleanupRecord <= size
  /\ Sizes \subseteq Nat /\ Limits \subseteq Nat /\ ObjectMem \in Nat

xm_pool_create(size) ==
  [size |-> size, max |-> Least(size - PoolHeader, MaxAlloc), current |-> 1, large |-> <<>>,
   cleanup |-> <<>>, older |-> <<>>, blocks |-> <<[last |-> PoolHeader, failed |-> 0]>>]

(* The place in a block for size bytes.                                    *)
Place(p, b, align) == IF align THEN Aligned(p.blocks[b].last) ELSE p.blocks[b].last

(* The bytes the alignment skips left out of the account.                  *)
Fits_unaligned(p, size, align) ==
  {b \in p.current .. Len(p.blocks) : p.size - p.blocks[b].last >= size}

(* The blocks with room.  What is left is unsigned: less than none would   *)
(* be plenty, but a size that is a multiple of ALIGNMENT leaves no less.   *)
Fits(p, size, align) ==
  {b \in p.current .. Len(p.blocks) : p.size - Place(p, b, align) \notin 0 .. size - 1}
Interval(b, from, size, align) == [blk |-> b, from |-> from, to |-> from + size, aligned |-> align]
None == [blk |-> 0]

(* A new block: those it was not in are counted as failed, and current     *)
(* moves behind a block that failed too often.                             *)
xm_palloc_block(p, size) ==
  LET n == Len(p.blocks)
      tried == p.current .. n - 1
      m == Aligned(DataHeader)
      given_up == {b \in tried : p.blocks[b].failed > FailLimit}
      counted == [b \in 1 .. n |-> IF b \in tried THEN [p.blocks[b] EXCEPT !.failed = @ + 1] ELSE p.blocks[b]]
  IN  [p |-> [p EXCEPT !.blocks = Append(counted, [last |-> m + size, failed |-> 0]),
                       !.current = IF given_up = {} THEN @
                                   ELSE 1 + CHOOSE b \in given_up : \A c \in given_up : c <= b],
       m |-> Interval(n + 1, m, size, TRUE)]

(* What xm_palloc_small may do: the first block from current with room, or *)
(* a new block, or no memory for one.                                      *)
xm_palloc_small(p, size, align) ==
  LET fits == Fits(p, size, align)
      b == CHOOSE c \in fits : \A d \in fits : c <= d
      m == Place(p, b, align)
  IN  IF fits # {} THEN {[p |-> [p EXCEPT !.blocks[b].last = m + size], m |-> Interval(b, m, size, align)]}
      ELSE {xm_palloc_block(p, size), [p |-> p, m |-> None]}

Init ==
  /\ use \in {"pool", "objects"}
  /\ \E size \in PoolSizes : pool = xm_pool_create(size)
  /\ given = {} /\ heap = {} /\ ran = {}
  /\ \E size \in ObjectSizes, limit \in Limits :
       objs = [size |-> size, limit |-> limit, free |-> <<>>, using |-> {}, n_objects |-> 0,
               n_frees |-> 0, n_using |-> 0, n_mms |-> 0, broken |-> FALSE]
  /\ calls = 0

Call(u) == use = u /\ calls < MaxCalls /\ calls' = calls + 1 /\ UNCHANGED use
Held(m) == IF m = None THEN {} ELSE {m}

(* xm_palloc, xm_pnalloc: what the pool's blocks can hold comes from them. *)
xm_palloc(size, align) ==
  /\ Call("pool") /\ size <= pool.max
  /\ \E r \in xm_palloc_small(pool, size, align) : pool' = r.p /\ given' = given \cup Held(r.m)
  /\ UNCHANGED <<heap, ran, objs>>

NewId == CHOOSE i \in 1 .. Cardinality(heap) + 1 : i \notin heap
Recorded(m) ==
  \E r \in xm_palloc_small(pool, LargeRecord, TRUE) :
    IF r.m = None THEN pool' = r.p /\ UNCHANGED <<given, heap>>
    ELSE /\ pool' = [r.p EXCEPT !.large = <<m>> \o @]
         /\ given' = given \cup {r.m} /\ heap' = heap \cup {m}

(* xm_palloc_large and xm_pmemalign: a malloc and a record of it, in one   *)
(* of the first records that have none, or a new one.                      *)
xm_palloc_large ==
  LET free == {i \in DOMAIN pool.large : pool.large[i] = 0 /\ i <= ReuseLimit}
      first == CHOOSE i \in free : \A j \in free : i <= j
  IN  /\ Call("pool")
      /\ IF free # {} THEN /\ pool' = [pool EXCEPT !.large[first] = NewId]
                           /\ heap' = heap \cup {NewId} /\ UNCHANGED given
         ELSE Recorded(NewId)
      /\ UNCHANGED <<ran, objs>>
xm_pmemalign == Call("pool") /\ Recorded(NewId) /\ UNCHANGED <<ran, objs>>

xm_pfree(id) ==
  /\ Call("pool") /\ id \in heap
  /\ \E i \in DOMAIN pool.large : pool.large[i] = id /\ pool' = [pool EXCEPT !.large[i] = 0]
  /\ heap' = heap \ {id}
  /\ UNCHANGED <<given, ran, objs>>

(* A handler and its data, both of the pool.                               *)
xm_pool_cleanup_add(size) ==
  /\ Call("pool") /\ size <= pool.max
  /\ \E r \in xm_palloc_small(pool, CleanupRecord, TRUE) :
       \E d \in (IF size = 0 \/ r.m = None THEN {[p |-> r.p, m |-> None]}
                 ELSE xm_palloc_small(r.p, size, TRUE)) :
         /\ given' = given \cup Held(r.m) \cup Held(d.m)
         /\ pool' = IF r.m = None \/ (size > 0 /\ d.m = None) THEN d.p
                    ELSE [d.p EXCEPT !.cleanup = <<r.m>> \o @]
  /\ UNCHANGED <<heap, ran, objs>>

(* The handlers' memory becomes free too, but they stay in the list.       *)
xm_pool_reset ==
  /\ Call("pool")
  /\ heap' = heap \ {pool.large[i] : i \in DOMAIN pool.large}
  /\ pool' = [pool EXCEPT !.large = <<>>, !.current = 1,
                          !.cleanup = <<>>, !.older = pool.cleanup \o @,
                          !.blocks = [b \in DOMAIN @ |-> [last |-> PoolHeader, failed |-> 0]]]
  /\ given' = {}
  /\ UNCHANGED <<ran, objs>>

xm_pool_destroy ==
  /\ use = "pool" /\ use' = "destroyed"
  /\ ran' = {pool.cleanup[i] : i \in DOMAIN pool.cleanup} \cup {pool.older[i] : i \in DOMAIN pool.older}
  /\ heap' = heap \ {pool.large[i] : i \in DOMAIN pool.large}
  /\ given' = {} /\ UNCHANGED <<pool, objs, calls>>
-----------------------------------------------------------------------------
(* The objects a memory of the object pool is cut into.                    *)
PerMem(size) == Cardinality({k \in 1 .. ObjectMem : ObjectHeaders + k * (size + ObjectHeaders) < ObjectMem})

(* The first free object, of a new memory if there is none and the limit   *)
(* allows.  A memory too small for one object leaves the list empty, and   *)
(* the list's head is taken for one: n_frees, a size_t, goes below 0, and  *)
(* list_del leaves no list that a later call could use.                    *)
ListHead == 0
Taken(o) ==
  IF o.free = <<>>
  THEN [o EXCEPT !.using = @ \cup {ListHead}, !.n_frees = @ - 1, !.n_using = @ + 1, !.broken = TRUE]
  ELSE [o EXCEPT !.free = Tail(@), !.using = @ \cup {Head(o.free)}, !.n_frees = @ - 1, !.n_using = @ + 1]
_new_memory(o) ==
  LET n == PerMem(o.size)
  IN  [o EXCEPT !.free = @ \o [i \in 1 .. n |-> o.n_objects + i], !.n_objects = @ + n,
                !.n_frees = @ + n, !.n_mms = @ + 1]

xm_object_pool_get ==
  /\ Call("objects") /\ ~objs.broken
  /\ IF objs.free # <<>> THEN objs' = Taken(objs)
     ELSE \/ UNCHANGED objs
          \/ ~(objs.limit > 0 /\ objs.n_objects > objs.limit) /\ objs' = Taken(_new_memory(objs))
  /\ UNCHANGED <<pool, given, heap, ran>>

xm_object_pool_put(obj) ==
  /\ Call("objects") /\ ~objs.broken /\ obj \in objs.using
  /\ objs' = [objs EXCEPT !.free = Append(@, obj), !.using = @ \ {obj}, !.n_frees = @ + 1, !.n_using = @ - 1]
  /\ UNCHANGED <<pool, given, heap, ran>>

Next ==
  \/ \E size \in Sizes :
       \/ \E align \in BOOLEAN : xm_palloc(size, align)
       \/ xm_pool_cleanup_add(size)
  \/ xm_palloc_large \/ xm_pmemalign \/ xm_pool_reset \/ xm_pool_destroy
  \/ \E id \in heap : xm_pfree(id)
  \/ xm_object_pool_get \/ \E obj \in objs.using : xm_object_pool_put(obj)

Spec == Init /\ [][Next]_poolVars
-----------------------------------------------------------------------------
(***************************************************************************)
(* No two callers are given the same memory, nor any memory outside a      *)
(* block or under its header; aligned is aligned; every malloc is in just  *)
(* one record, so destroying the pool frees it once; the record of every   *)
(* handler added since the last reset is still the handler's, for nobody   *)
(* else to write, when it is run.  An older one may be another caller's.   *)
(***************************************************************************)
PoolExact ==
  /\ \A g \in given :
       /\ g.from >= (IF g.blk = 1 THEN PoolHeader ELSE DataHeader) /\ g.to <= pool.size
       /\ g.to <= pool.blocks[g.blk].last
       /\ g.aligned => g.from % ALIGNMENT = 0
       /\ \A h \in given \ {g} : h.blk = g.blk => h.to <= g.from \/ g.to <= h.from
  /\ IF use = "destroyed" THEN heap = {}
     ELSE /\ \A id \in heap : \E i \in DOMAIN pool.large : pool.large[i] = id
          /\ \A i, j \in DOMAIN pool.large : pool.large[i] = pool.large[j] => i = j \/ pool.large[i] = 0
          /\ \A i \in DOMAIN pool.cleanup : pool.cleanup[i] \in given

(***************************************************************************)
(* An object is free or in use, never both, those in use and all of them   *)
(* are counted, and the limit is passed by at most one memory.  The free   *)
(* ones are counted and an object in use is of a memory, if a memory holds *)
(* an object of the size.  xm_object_pool_create accepts sizes of which it *)
(* holds none; then the head of the free list is all that is ever given.   *)
(***************************************************************************)
ObjectsExact ==
  /\ objs.n_using = Cardinality(objs.using) /\ objs.n_frees + objs.n_using = objs.n_objects
  /\ \A i, j \in DOMAIN objs.free : objs.free[i] = objs.free[j] => i = j
  /\ \A i \in DOMAIN objs.free : objs.free[i] \notin objs.using
  /\ objs.limit > 0 => objs.n_objects <= objs.limit + PerMem(objs.size)
  /\ IF PerMem(objs.size) > 0
     THEN objs.n_frees = Len(objs.free) /\ objs.using \subseteq 1 .. objs.n_objects
     ELSE objs.n_objects = 0 /\ objs.using \subseteq {ListHead}
=============================================================================
