-------------------------------- MODULE Locks --------------------------------
(***************************************************************************)
(* src/lib/common: the reader-writer lock (xm_rwlock.h), the spin lock     *)
(* (xm_spinlock.h) and the counters of 16, 32 and 64 bits (xm_atomic.h).   *)
(* A locked instruction is one step; a load and the compare-and-set that   *)
(* follows it are two.                                                     *)
(***************************************************************************)
EXTENDS Integers, FiniteSets

CONSTANTS
  Threads,
  Half,        (* Half[w]: half of what a counter of w bits can count      *)
  Amounts,     (* what is added and subtracted                             *)
  MaxCounts    (* bound on the operations on the counter                   *)

VARIABLES
  cnt,      (* of the reader-writer lock                                   *)
  locked,   (* of the spin lock                                            *)
  pc,
  x,        (* x[t]: what the thread loaded of cnt                         *)
  width,    (* of the counter                                              *)
  num,      (* the counter                                                 *)
  answer,   (* what the last operation on it returned                      *)
  total,    (* what the counter would be if it had no width                *)
  counts

lockVars == <<cnt, locked, pc, x, width, num, answer, total, counts>>
counterVars == <<width, num, answer, total, counts>>

(* Each half of a counter is more than one number.                          *)
LocksAssumption ==
  /\ IsFiniteSet(Threads)
  /\ \A w \in DOMAIN Half : Half[w] \in Nat \ {0, 1}
  /\ Amounts \subseteq Int

Init ==
  /\ cnt = 0 /\ locked = 0
  /\ pc = [t \in Threads |-> "idle"] /\ x = [t \in Threads |-> 0]
  /\ width \in DOMAIN Half
  /\ num = 0 /\ answer = [op |-> "set", value |-> 0] /\ total = 0 /\ counts = 0

Go(t, from, to) == pc[t] = from /\ pc' = [pc EXCEPT ![t] = to]

(* The exchange without the comparison.                                    *)
xm_atomic32_xchg(word, exp, src) == src

(* cmpxchg: the word changes, and the call succeeds, if it is as expected. *)
xm_atomic32_cmpset(word, exp, src) == IF word = exp THEN src ELSE word

(* A call of read_lock, write_lock, lock or trylock begins.  The counter    *)
(* shares nothing with the locks: a behaviour uses it or them.             *)
Begin(t) ==
  /\ counts = 0
  /\ \E to \in {"read_lock", "write_lock", "lock", "trylock"} : Go(t, "idle", to)
  /\ UNCHANGED <<cnt, locked, x, counterVars>>

(* read_lock waits while a writer holds the lock, then counts itself.      *)
read_lock_load(t) ==
  /\ cnt >= 0
  /\ Go(t, "read_lock", "read_cmpset")
  /\ x' = [x EXCEPT ![t] = cnt]
  /\ UNCHANGED <<cnt, locked, counterVars>>

read_lock_cmpset(t) ==
  /\ Go(t, "read_cmpset", IF cnt = x[t] THEN "reading" ELSE "read_lock")
  /\ cnt' = xm_atomic32_cmpset(cnt, x[t], x[t] + 1)
  /\ UNCHANGED <<locked, x, counterVars>>

read_unlock(t) ==
  /\ Go(t, "reading", "idle")
  /\ cnt' = cnt - 1
  /\ UNCHANGED <<locked, x, counterVars>>

(* write_lock waits for the lock to be free.                               *)
write_lock_load(t) ==
  /\ cnt = 0
  /\ Go(t, "write_lock", "write_cmpset")
  /\ x' = [x EXCEPT ![t] = cnt]
  /\ UNCHANGED <<cnt, locked, counterVars>>

write_lock_cmpset(t) ==
  /\ Go(t, "write_cmpset", IF cnt = 0 THEN "writing" ELSE "write_lock")
  /\ cnt' = xm_atomic32_cmpset(cnt, 0, -1)
  /\ UNCHANGED <<locked, x, counterVars>>


write_unlock(t) ==
  /\ Go(t, "writing", "idle")
  /\ cnt' = cnt + 1
  /\ UNCHANGED <<locked, x, counterVars>>

(* lock exchanges a 1 for what is there; if that was 1 too it watches the  *)
(* word until it is 0 and tries again.  trylock gives up at once.          *)
spinlock_lock(t) ==
  /\ \/ Go(t, "lock", IF locked = 0 THEN "inside" ELSE "watch")
     \/ Go(t, "trylock", IF locked = 0 THEN "inside" ELSE "idle")
  /\ locked' = 1
  /\ UNCHANGED <<cnt, x, counterVars>>

spinlock_watch(t) ==
  /\ locked = 0
  /\ Go(t, "watch", "lock")
  /\ UNCHANGED <<cnt, locked, x, counterVars>>

spinlock_unlock(t) ==
  /\ Go(t, "inside", "idle")
  /\ locked' = 0
  /\ UNCHANGED <<cnt, x, counterVars>>

(* A number in the two's complement of a counter.                          *)
Signed(n) == ((n + Half[width]) % (2 * Half[width])) - Half[width]

(* add and sub of 16 and 32 bits call a builtin that does not exist.       *)
atomic16 == {"inc", "dec", "add_return", "sub_return", "inc_and_test", "dec_and_test",
             "test_and_set", "set", "clear"}
atomic64 == atomic16 \cup {"add", "sub"}
Ops == IF width = 64 THEN atomic64 ELSE atomic16

(* What an operation leaves, of a word and an amount ...                   *)
Changed(op, v, n) ==
  CASE op \in {"inc", "inc_and_test"} -> v + 1
    [] op \in {"dec", "dec_and_test"} -> v - 1
    [] op \in {"add", "add_return"}   -> v + n
    [] op \in {"sub", "sub_return"}   -> v - n
    [] op = "test_and_set"            -> xm_atomic32_cmpset(v, 0, 1)
    [] op = "set"                     -> n
    [] op = "clear"                   -> 0

(* ... and what it returns, of the word before.                            *)
Returned(op, v, n) ==
  CASE op \in {"add_return", "sub_return"}      -> Changed(op, v, n)
    [] op \in {"inc_and_test", "dec_and_test"} -> IF Changed(op, v, n) = 0 THEN 1 ELSE 0
    [] op = "test_and_set"                      -> IF v = 0 THEN 1 ELSE 0
    [] OTHER                                    -> 0

Atomic(op, n) ==
  /\ counts < MaxCounts /\ \A t \in Threads : pc[t] = "idle"
  /\ counts' = counts + 1
  /\ num' = Signed(Changed(op, num, n))
  /\ answer' = [op |-> op, value |-> Signed(Returned(op, num, n))]
  /\ total' = IF op = "test_and_set" THEN num' ELSE Changed(op, total, n)
  /\ UNCHANGED <<cnt, locked, pc, x, width>>

Next ==
  \/ \E t \in Threads :
       \/ Begin(t)
       \/ read_lock_load(t) \/ read_lock_cmpset(t) \/ read_unlock(t)
       \/ write_lock_load(t) \/ write_lock_cmpset(t) \/ write_unlock(t)
       \/ spinlock_lock(t) \/ spinlock_watch(t) \/ spinlock_unlock(t)
  \/ \E op \in Ops, n \in Amounts : Atomic(op, n)

Spec == Init /\ [][Next]_lockVars
-----------------------------------------------------------------------------
At(place) == {t \in Threads : pc[t] = place}

(***************************************************************************)
(* A writer is alone in the reader-writer lock, whose word counts the      *)
(* readers or is -1; one thread at a time is inside the spin lock, whose   *)
(* word says whether one is.                                               *)
(***************************************************************************)
Exclusion ==
  /\ cnt = Cardinality(At("reading")) - Cardinality(At("writing"))
  /\ At("writing") # {} => Cardinality(At("writing")) = 1 /\ At("reading") = {}
  /\ locked = Cardinality(At("inside"))

(* The counter is what was counted, as far as its width can tell, and the  *)
(* answer of an operation is about the counter it left.                    *)
CountExact ==
  /\ num = Signed(total)
  /\ answer.op \in {"add_return", "sub_return"} => answer.value = num
  /\ answer.op \in {"inc_and_test", "dec_and_test"} => (answer.value = 1 <=> num = 0)
  /\ answer.op = "test_and_set" /\ answer.value = 1 => num = 1
=============================================================================
