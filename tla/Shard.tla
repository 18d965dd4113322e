------------------------------- MODULE Shard -------------------------------
(***************************************************************************)
(* src/xm_shard.c: a subshard, the part of the cycle one send task walks.  *)
(* Instance n of xmap (--shard n) runs a subshard for each of its send     *)
(* tasks t, which xm_work_create numbers from 1.                           *)
(*                                                                         *)
(* An allowed address is its index in the whitelist; Stray stands for what *)
(* xm_wblist_lookup_index makes of an index that no address has.           *)
(***************************************************************************)
EXTENDS Cyclic

CONSTANTS
  MaxIndex,   (* xsend.max_index: how many addresses are allowed         *)
  Shards,     (* context->total_shards                                   *)
  Senders,    (* context->senders: send tasks of an instance             *)
  MaxTargets  (* xsend.max_targets, of all instances together            *)

ASSUME ShardAssumption ==
  /\ MaxIndex \in 1 .. Prime - 1 /\ MaxIndex < Limit
  /\ Shards \in Nat \ {0} /\ Senders \in Nat \ {0}
  /\ MaxTargets \in Nat \ {0}

XM_SHARD_DONE == 0

Address == 0 .. MaxIndex - 1
Stray == MaxIndex

order == Prime - 1
num_subshards == Shards * Senders

sub_idx(n, t) == n * Senders + t

(* The exponents of the first element and of the one to stop at. *)
exponent_begin(i, offset) == ((order \div num_subshards) * i + offset) % order

(* Mutant: one subshard too far. *)
exponent_end_next(i, offset) ==
  ((order \div num_subshards) * ((i + 2) % num_subshards) + offset) % order

exponent_end(i, offset) ==
  ((order \div num_subshards) * ((i + 1) % num_subshards) + offset) % order

(* The share of max_targets; 0 means no limit. *)
max_targets_this_shard(i) ==
  (MaxTargets \div num_subshards) + (IF i < MaxTargets % num_subshards THEN 1 ELSE 0)

(* candidate - 1 < max_index; an element above the addresses is skipped. *)
Selects(elem) == elem - 1 < MaxIndex

(* xm_shard_get_cur_ip; current may be XM_SHARD_DONE, or an element above   *)
(* the addresses.                                                           *)
Target(elem) == IF elem \in 1 .. MaxIndex THEN elem - 1 ELSE Stray

(* xm_shard_get_next_ip: walk on to the next element that fits in 32 bits   *)
(* and is either the one to stop at or the element of an address.  The      *)
(* result is the new current, XM_SHARD_DONE at the end.                     *)
xm_shard_get_next_ip(current, factor, last) ==
  IF current = XM_SHARD_DONE THEN XM_SHARD_DONE
  ELSE LET Elem(k) == (current * Pow(factor, k)) % Prime
           Stops(k) == Elem(k) < Limit /\ (Elem(k) = last \/ Selects(Elem(k)))
           k == CHOOSE k \in 1 .. order : Stops(k) /\ \A j \in 1 .. k - 1 : ~Stops(j)
       IN  IF Elem(k) = last THEN XM_SHARD_DONE ELSE Elem(k)

(* shard_roll_to_valid *)
shard_roll_to_valid(current, factor, last) ==
  IF Selects(current) THEN current ELSE xm_shard_get_next_ip(current, factor, last)
=============================================================================
