----------------------------- MODULE IpIterator -----------------------------
(***************************************************************************)
(* api/java/jni/xm_ip_iterator.c: Java objects that walk over the allowed  *)
(* addresses.  The walk is a shard of its own, the only one of its cycle;  *)
(* its pool, its shard and the next address are one static context that    *)
(* all objects of the process share.                                       *)
(*                                                                         *)
(* An object calls prepareIterate, then getNextIP as often as it likes,    *)
(* then closeIterate, and that again; it does not close what it could not  *)
(* prepare.  Objects are not kept from overlapping.                        *)
(***************************************************************************)
EXTENDS Shard, Sequences

CONSTANTS
  Objects,   (* objects of class XMapIPIterator; Shards and Senders are 1  *)
  MaxPools   (* bound: how often an iteration is prepared                  *)

VARIABLES
  context,   (* xit_context: its pool, its shard and cur_ip                *)
  pools,     (* pools created so far                                       *)
  live,      (* those of them that exist                                   *)
  object,    (* object[o]: "new", "open" or "closed"                       *)
  got,       (* got[o]: what getNextIP returned to o since it prepared     *)
  written,   (* the addresses in the last file that iterate wrote          *)
  overlap,   (* history: an object prepared while another one was open     *)
  broken     (* a pool was used or destroyed that does not exist           *)

vars == <<context, pools, live, object, got, written, overlap, broken>>

NoAddress == -1
NoPool == 0

AddressOf(elem) == IF elem = XM_SHARD_DONE THEN NoAddress ELSE Target(elem)

(* xm_make_cycle and xm_shard_create for a generator and an offset *)
NewContext(pool, g, offset) ==
  LET begin == Pow(g, exponent_begin(0, offset))
      end == Pow(g, exponent_end(0, offset))
      elem == shard_roll_to_valid(begin, g, end)
  IN  [pool |-> pool, generator |-> g, last |-> end, current |-> elem, cur_ip |-> AddressOf(elem)]

Init ==
  /\ context = [pool |-> NoPool, generator |-> 0, last |-> 0, current |-> 0, cur_ip |-> NoAddress]
  /\ pools = 0 /\ live = {}
  /\ object = [o \in Objects |-> "new"] /\ got = [o \in Objects |-> <<>>] /\ written = <<>>
  /\ overlap = FALSE /\ broken = FALSE

Prepares(o) ==
  /\ ~broken /\ object[o] # "open" /\ pools < MaxPools
  /\ pools' = pools + 1
  /\ overlap' = (overlap \/ \E q \in Objects : object[q] = "open")
  /\ got' = [got EXCEPT ![o] = <<>>]
  /\ UNCHANGED <<written, broken>>

(* Mutant: the pool of a failed prepare stays. *)
PrepareFails_kept(o) ==
  /\ Prepares(o)
  /\ context' = [context EXCEPT !.pool = pools', !.cur_ip = NoAddress]
  /\ live' = live \cup {pools'}
  /\ object' = [object EXCEPT ![o] = "closed"]

(* The lists allow nothing or there is no random seed: the pool is          *)
(* destroyed, and the context keeps it.                                     *)
PrepareFails(o) ==
  /\ Prepares(o)
  /\ context' = [context EXCEPT !.pool = pools', !.cur_ip = NoAddress]
  /\ object' = [object EXCEPT ![o] = "closed"]
  /\ UNCHANGED live

(* _prepare; whatever the context held is overwritten. *)
Prepare(o) ==
  /\ Prepares(o)
  /\ \E g \in Generators, offset \in 0 .. Prime - 1 : context' = NewContext(pools', g, offset)
  /\ live' = live \cup {pools'}
  /\ object' = [object EXCEPT ![o] = "open"]

(* Bound: two calls after the end. *)
MayGetNext(o) == Len(got[o]) < MaxIndex + 2

(* get_next *)
GetNext(o) ==
  /\ ~broken /\ object[o] = "open" /\ MayGetNext(o)
  /\ IF context.pool \in live
     THEN LET elem == xm_shard_get_next_ip(context.current, context.generator, context.last)
          IN  /\ context' = [context EXCEPT !.current = elem, !.cur_ip = AddressOf(elem)]
              /\ got' = [got EXCEPT ![o] = Append(@, context.cur_ip)]
              /\ UNCHANGED broken
     ELSE broken' = TRUE /\ UNCHANGED <<context, got>>
  /\ UNCHANGED <<pools, live, object, written, overlap>>

(* closeIterate; the context keeps the pool. *)
Close(o) ==
  /\ ~broken /\ object[o] = "open"
  /\ live' = live \ {context.pool}
  /\ broken' = (context.pool \notin live)
  /\ object' = [object EXCEPT ![o] = "closed"]
  /\ UNCHANGED <<context, pools, got, written, overlap>>

(* _do_gen, behind both iterate: a walk of its own, to a file, whatever the *)
(* other objects do.                                                        *)
Generate ==
  /\ ~broken /\ pools < MaxPools /\ pools' = pools + 1
  /\ \E g \in Generators, offset \in 0 .. Prime - 1 :
       LET start == NewContext(pools', g, offset)
           walk[i \in 1 .. MaxIndex + 2] ==
             IF i = 1 THEN start.current
             ELSE IF walk[i - 1] = XM_SHARD_DONE THEN XM_SHARD_DONE
             ELSE xm_shard_get_next_ip(walk[i - 1], g, start.last)
       IN  written' = [i \in {j \in DOMAIN walk : walk[j] # XM_SHARD_DONE} |-> Target(walk[i])]
  /\ UNCHANGED <<context, live, object, got, overlap, broken>>

Over ==
  /\ broken \/ (pools = MaxPools /\ \A o \in Objects : object[o] # "open")
  /\ UNCHANGED vars

Next ==
  \/ \E o \in Objects : Prepare(o) \/ PrepareFails(o) \/ GetNext(o) \/ Close(o)
  \/ Generate
  \/ Over

Spec == Init /\ [][Next]_vars

-----------------------------------------------------------------------------
(* Properties. *)

Addresses(s) == SelectSeq(s, LAMBDA a : a # NoAddress)

(* As long as iterations do not overlap, an object gets every allowed       *)
(* address exactly once, for every generator and offset, and after the last *)
(* one 0 for ever; a file has every one of them once, whatever overlaps     *)
(* (xm_ip_iterator.c:118-202).                                              *)
WalkExact ==
  /\ ~overlap => \A o \in Objects :
       LET s == got[o] a == Addresses(s) IN
       /\ \A i, j \in DOMAIN a : a[i] = a[j] => i = j
       /\ \A i \in DOMAIN a : a[i] \in Address
       /\ \A i \in DOMAIN s : s[i] = NoAddress => i > MaxIndex /\ Len(a) = MaxIndex
  /\ written # <<>> => /\ DOMAIN written = 1 .. MaxIndex
                       /\ {written[i] : i \in DOMAIN written} = Address

(* As long as iterations do not overlap, no pool is used or destroyed that  *)
(* does not exist, and none is left when no object is open, whichever       *)
(* prepares fail.                                                           *)
PoolsExact ==
  ~overlap =>
    /\ ~broken
    /\ (\A o \in Objects : object[o] # "open") => live = {}
=============================================================================
