------------------------------ MODULE Xiterate ------------------------------
(***************************************************************************)
(* src/xiterate.c: the program that prints the allowed addresses.  Several *)
(* processes may share the work: process p is given --shard p.  Processes  *)
(* share nothing, so they run one after the other here.                    *)
(***************************************************************************)
EXTENDS Shard, Sequences

CONSTANTS
  Width16,  (* 2^16: shard_num and total_shards are a uint16_t             *)
  Texts     (* arguments of --max-targets: hundredths of a number, whether *)
            (* a % follows it, and whether it is no number at all          *)

Whole == INSTANCE Shard WITH Shards <- 1

VARIABLES
  args,   (* the options of all processes but for their --shard            *)
  seeded, (* the cycle the seed of the options gives                       *)
  pc,     (* pc[p]: "start", "print", "done" or "refused"                  *)
  walk,   (* walk[p]: the shard of process p, and next_int, the address to *)
          (* print next                                                    *)
  out     (* out[p]: what it printed                                       *)

vars == <<args, seeded, pc, walk, out>>

Process == 0 .. Shards - 1
Cycles == [generator : Generators, offset : 0 .. Prime - 1]
(* next_int when the walk is over; no allowed address is 0.0.0.0. *)
NoAddress == -1

Nowhere == [generator |-> 0, last |-> 0, current |-> XM_SHARD_DONE, next_int |-> NoAddress]

(* _parse_max_hosts, in a uint32_t *)
_parse_max_hosts(t) ==
  LET v == IF t.percent THEN (t.hundredths * Limit) \div 100 ELSE t.hundredths
  IN  IF t.junk \/ v <= 0 THEN 0 ELSE IF v >= Limit * 100 THEN Limit - 1 ELSE v \div 100

(* 0 is no limit. *)
max_hosts == IF args.max_given THEN _parse_max_hosts(args.max) ELSE 0

shard_num(p) == IF args.shard_given THEN (p + args.shift) % Width16 ELSE 0
total_shards == IF args.shards_given THEN Shards ELSE 1

(* What main checks of the sharding options. *)
Refuses(p) ==
  \/ (args.shard_given \/ args.shards_given) /\ ~args.seed_given
  \/ args.shard_given # args.shards_given
  \/ shard_num(p) >= total_shards

(* _create_shard *)
begin(p, c) ==
  Pow(c.generator, IF total_shards = 1 THEN Whole!exponent_begin(0, c.offset)
                   ELSE exponent_begin(sub_idx(shard_num(p), 0), c.offset))
end(p, c) ==
  Pow(c.generator, IF total_shards = 1 THEN Whole!exponent_end(0, c.offset)
                   ELSE exponent_end(sub_idx(shard_num(p), 0), c.offset))

(* The first address is looked up without asking whether there is one. *)
NewWalk(p, c) ==
  LET current == shard_roll_to_valid(begin(p, c), c.generator, end(p, c))
  IN  [generator |-> c.generator, last |-> end(p, c), current |-> current, next_int |-> Target(current)]

(* Without --shard there is only one process. *)
Runs == { p \in Process : args.shard_given \/ p = 0 }

Init ==
  /\ args \in [shard_given : BOOLEAN, shards_given : BOOLEAN, seed_given : BOOLEAN,
               shift : {-1, 0}, max_given : {TRUE}, max : Texts]
              \cup [shard_given : BOOLEAN, shards_given : BOOLEAN, seed_given : BOOLEAN,
               shift : {-1, 0}, max_given : {FALSE}]
  /\ seeded \in Cycles
  /\ pc = [p \in Process |-> IF p \in Runs THEN "start" ELSE "done"]
  /\ walk = [p \in Process |-> Nowhere]
  /\ out = [p \in Process |-> <<>>]

Ended(p) == pc[p] \in {"done", "refused"}

Turn(p) == \A q \in 0 .. p - 1 : Ended(q)

(* The options, or a list that cannot be read, or lists that allow nothing. *)
Refuse(p) ==
  /\ pc[p] = "start" /\ Turn(p)
  /\ pc' = [pc EXCEPT ![p] = "refused"]
  /\ UNCHANGED <<args, seeded, walk, out>>

(* Without --seed the cycle is random. *)
Start(p) ==
  /\ pc[p] = "start" /\ Turn(p) /\ ~Refuses(p)
  /\ \E c \in IF args.seed_given THEN {seeded} ELSE Cycles :
       walk' = [walk EXCEPT ![p] = NewWalk(p, c)]
  /\ pc' = [pc EXCEPT ![p] = "print"]
  /\ UNCHANGED <<args, seeded, out>>

(* Mutant: one address more. *)
Enough_late(p) == max_hosts # 0 /\ Len(out[p]) > max_hosts

Enough(p) == max_hosts # 0 /\ Len(out[p]) >= max_hosts

WriteOut(p) ==
  LET w == walk[p]
      next == xm_shard_get_next_ip(w.current, w.generator, w.last)
  IN
  /\ pc[p] = "print" /\ w.next_int # NoAddress /\ ~Enough(p)
  /\ out' = [out EXCEPT ![p] = Append(@, w.next_int)]
  /\ walk' = [walk EXCEPT ![p].current = next,
                          ![p].next_int = IF next = XM_SHARD_DONE THEN NoAddress ELSE Target(next)]
  /\ UNCHANGED <<args, seeded, pc>>

Return(p) ==
  /\ pc[p] = "print" /\ (walk[p].next_int = NoAddress \/ Enough(p))
  /\ pc' = [pc EXCEPT ![p] = "done"]
  /\ UNCHANGED <<args, seeded, walk, out>>

Over == (\A p \in Process : Ended(p)) /\ UNCHANGED vars

Next == (\E p \in Process : Refuse(p) \/ Start(p) \/ WriteOut(p) \/ Return(p)) \/ Over

Spec == Init /\ [][Next]_vars

-----------------------------------------------------------------------------
(* Properties. *)

(* Processes that share a seed never print the same allowed address, and    *)
(* when all of them end without a limit they have printed every allowed     *)
(* one, whether or not the order of the group is divisible by their number. *)
(* An address that is not allowed is printed by a process whose part of the *)
(* cycle has none, and is all that it prints.                               *)
SharesExact ==
  LET all == Process \X (1 .. MaxIndex)
      printed == { x \in all : x[2] \in DOMAIN out[x[1]] }
      value(x) == out[x[1]][x[2]]
      empty == { p \in Process : out[p] = <<Stray>> } IN
  /\ \A p \in Process : \A i, j \in DOMAIN out[p] : out[p][i] = out[p][j] => i = j
  /\ \A x \in printed : value(x) \in Address \/ x[1] \in empty
  /\ args.shard_given => \A x, y \in printed : value(x) = value(y) => x = y \/ x[1] \in empty
  /\ max_hosts = 0 /\ (\A p \in Process : pc[p] = "done") =>
       { value(x) : x \in printed } \ {Stray} = Address

(* --max-targets is a number of hosts or a share of 2^32: a process prints  *)
(* no more, and less only if it has no more.  A limit below 1 is none.      *)
LimitKept ==
  args.max_given /\ ~args.max.junk =>
    LET share == IF args.max.percent THEN args.max.hundredths * Limit ELSE args.max.hundredths * 100
    IN  \A p \in Process :
          /\ share >= 10000 => Len(out[p]) * 10000 <= share
          /\ pc[p] = "done" /\ walk[p].next_int # NoAddress => (Len(out[p]) + 1) * 10000 > share
=============================================================================
