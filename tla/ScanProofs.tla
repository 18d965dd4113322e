----------------------------- MODULE ScanProofs -----------------------------
(***************************************************************************)
(* Proofs about SendTask and Scan, for every size of the scan, every list  *)
(* of addresses and every cap, and for any number of instances and tasks   *)
(* and of answers: first the types and limits of the send tasks, then the  *)
(* arithmetic of the group and the walk of all tasks through it, and last  *)
(* the receiver beside them.                                               *)
(***************************************************************************)
EXTENDS Scan, DataLemmas, FiniteSetTheorems

-----------------------------------------------------------------------------
(* Types.  Which elements of the cycle the subshards are at does not matter *)
(* here: whatever they are, xm_shard_get_cur_ip makes addresses of them.    *)
States == {"start", "seek", "check", "send", "done"}
Addresses == Address \cup {Stray}

SendTypes ==
  /\ ip \in [Sub -> Addresses \cup {NoAddress}]
  /\ spc \in [Sub -> States]
  /\ sent \in [Sub -> Nat] /\ tried_sent \in [Sub -> Nat]
  /\ complete \in [Instance -> BOOLEAN]
  /\ probed \in [Addresses -> Nat]
  /\ late \in [Sub -> Nat]
  /\ \A s \in Sub : spc[s] = "send" => ip[s] # NoAddress

(* Every element is an address, or stands for none. *)
LEMMA TargetType ==
  ASSUME NEW elem
  PROVE  Target(elem) \in Addresses /\ Target(elem) # NoAddress
BY ShardAssumption, GroupAssumption DEF Target, Address, Addresses, Stray, NoAddress

(* A step along the cycle changes the address of its task only.             *)
LEMMA WalkType ==
  ASSUME NEW s \in Sub, ip \in [Sub -> Addresses \cup {NoAddress}], Walk(s)
  PROVE  /\ ip' \in [Sub -> Addresses \cup {NoAddress}]
         /\ (NextElem(s) = XM_SHARD_DONE => ip'[s] = NoAddress)
         /\ (NextElem(s) # XM_SHARD_DONE => ip'[s] # NoAddress)
         /\ \A t \in Sub : t # s => ip'[t] = ip[t]
<1> DEFINE a == IF NextElem(s) = XM_SHARD_DONE THEN NoAddress ELSE Target(NextElem(s))
<1>1. /\ a \in Addresses \cup {NoAddress}
      /\ (NextElem(s) = XM_SHARD_DONE => a = NoAddress)
      /\ (NextElem(s) # XM_SHARD_DONE => a # NoAddress)
  BY TargetType
<1>2. ip' = [ip EXCEPT ![s] = a]
  BY DEF Walk
<1> HIDE DEF a
<1> QED BY <1>1, <1>2

(* The tasks begin with values of these types. *)
LEMMA SendTypesInit == SendInit => SendTypes
<1> SUFFICES ASSUME SendInit PROVE SendTypes
  OBVIOUS
<1>1. ip \in [Sub -> Addresses \cup {NoAddress}] /\ spc \in [Sub -> States]
  BY DEF SendInit, States
<1>2. Fresh \subseteq Nat
  BY SendAssumption
<1>3. sent \in [Sub -> Nat] /\ tried_sent \in [Sub -> Nat]
  BY <1>2 DEF SendInit
<1>4. complete \in [Instance -> BOOLEAN] /\ probed \in [Addresses -> Nat] /\ late \in [Sub -> Nat]
  BY DEF SendInit, Addresses
<1>5. \A s \in Sub : spc[s] # "send"
  BY DEF SendInit
<1> QED BY <1>1, <1>3, <1>4, <1>5 DEF SendTypes

(* A step of a task keeps them. *)
LEMMA SendTypesStep ==
  ASSUME SendTypes, NEW s \in Sub, SendStep(s)
  PROVE  SendTypes'
<1> USE DEF SendTypes
<1>1. CASE Start(s)
  <2>1. Target(current[s]) \in Addresses /\ Target(current[s]) # NoAddress
    BY TargetType
  <2>2. /\ ip' \in [Sub -> Addresses \cup {NoAddress}] /\ ip'[s] # NoAddress
        /\ \A t \in Sub : t # s => ip'[t] = ip[t]
    BY <1>1, <2>1 DEF Start
  <2>3. spc' \in [Sub -> States] /\ \A t \in Sub : t # s => spc'[t] = spc[t]
    BY <1>1 DEF Start, States, Destination
  <2> QED BY <1>1, <2>2, <2>3 DEF Start
<1>2. CASE OnList(s)
  BY <1>2 DEF OnList, States
<1>3. CASE NotOnList(s)
  <2>1. /\ ip' \in [Sub -> Addresses \cup {NoAddress}]
        /\ \A t \in Sub : t # s => ip'[t] = ip[t]
    BY <1>3, WalkType DEF NotOnList
  <2>2. /\ spc' \in [Sub -> States] /\ spc'[s] # "send"
        /\ \A t \in Sub : t # s => spc'[t] = spc[t]
    BY <1>3 DEF NotOnList, States
  <2>3. tried_sent' \in [Sub -> Nat]
    BY <1>3 DEF NotOnList
  <2> QED BY <1>3, <2>1, <2>2, <2>3 DEF NotOnList
<1>4. CASE Finish(s)
  BY <1>4 DEF Finish, States
<1>5. CASE Continue(s)
  BY <1>5 DEF Continue, States, Finishes
<1>6. CASE Send(s)
  <2>1. /\ ip' \in [Sub -> Addresses \cup {NoAddress}]
        /\ \A t \in Sub : t # s => ip'[t] = ip[t]
    BY <1>6, WalkType DEF Send
  <2>2. /\ spc' \in [Sub -> States] /\ spc'[s] # "send"
        /\ \A t \in Sub : t # s => spc'[t] = spc[t]
    BY <1>6 DEF Send, States, Destination
  <2>3. sent' \in [Sub -> Nat] /\ tried_sent' \in [Sub -> Nat]
    BY <1>6 DEF Send
  <2>4. late' \in [Sub -> Nat]
    BY <1>6 DEF Send
  <2>5. ip[s] \in Addresses /\ probed' = [probed EXCEPT ![ip[s]] = @ + 1]
    BY <1>6 DEF Send
  <2>6. probed' \in [Addresses -> Nat]
    BY <2>5
  <2> QED BY <1>6, <2>1, <2>2, <2>3, <2>4, <2>6 DEF Send
<1> QED BY <1>1, <1>2, <1>3, <1>4, <1>5, <1>6 DEF SendStep

(* Probes are not taken back. *)
LEMMA ProbedGrows ==
  ASSUME SendTypes, NEW s \in Sub, SendStep(s)
  PROVE  \A a \in Addresses : probed[a] > 0 => probed'[a] > 0
<1>1. CASE Send(s)
  BY <1>1 DEF Send, SendTypes
<1>2. CASE ~Send(s)
  BY <1>2 DEF SendStep, Start, OnList, NotOnList, Finish, Continue
<1> QED BY <1>1, <1>2

(* A task that is about to probe has not probed since the end of the        *)
(* receiver, for it would have ended instead.                               *)
LateKept ==
  \A s \in Sub : /\ late[s] <= 1
                 /\ spc[s] = "send" \/ ~complete[s[1]] => late[s] = 0

(* A task probes at most once after the end of the receiver: to get to the  *)
(* next probe it would look at complete first.                              *)
LEMMA SenderLate ==
  ASSUME SendTypes, LateKept, NEW s \in Sub, SendStep(s)
  PROVE  LateKept'
<1> USE DEF SendTypes, LateKept
<1>1. complete' = complete
  BY DEF SendStep, Start, OnList, NotOnList, Finish, Continue, Send
<1>2. CASE Send(s)
  <2>1. late[s] = 0 /\ late[s] \in Nat
    BY <1>2 DEF Send
  <2>2. /\ \A t \in Sub : t # s => late'[t] = late[t] /\ spc'[t] = spc[t]
        /\ late'[s] = IF complete[s[1]] THEN 1 ELSE 0
        /\ spc'[s] # "send"
    BY <1>2, <2>1 DEF Send, Destination
  <2> QED BY <1>1, <2>2
<1>3. CASE Continue(s)
  <2>1. ~complete[s[1]] /\ late' = late
    BY <1>3 DEF Continue, Finishes
  <2>2. \A t \in Sub : t # s => spc'[t] = spc[t]
    BY <1>3 DEF Continue
  <2> QED BY <1>1, <2>1, <2>2
<1>4. CASE Start(s) \/ OnList(s) \/ NotOnList(s) \/ Finish(s)
  <2>1. late' = late
    BY <1>4 DEF Start, OnList, NotOnList, Finish
  <2>2. spc'[s] # "send" /\ \A t \in Sub : t # s => spc'[t] = spc[t]
    BY <1>4 DEF Start, OnList, NotOnList, Finish, Destination
  <2> QED BY <1>1, <2>1, <2>2
<1> QED BY <1>2, <1>3, <1>4 DEF SendStep

-----------------------------------------------------------------------------
(* The cap on the targets.                                                  *)

(* Every task of every instance has a subshard of its own. *)
LEMMA IndexExact ==
  /\ num_subshards \in Nat \ {0}
  /\ \A s \in Sub : Index(s) \in 1 .. num_subshards
  /\ \A s, t \in Sub : Index(s) = Index(t) => s = t
<1>1. /\ Shards \in Nat \ {0} /\ Senders \in Nat \ {0} /\ num_subshards = Shards * Senders
  BY ShardAssumption DEF num_subshards
<1>2. num_subshards \in Nat \ {0}
  <2>1. Senders \in Nat /\ 1 \in Nat /\ Shards \in Nat /\ 1 <= Shards
    BY <1>1
  <2>2. 1 * Senders \in Nat /\ 1 * Senders <= Shards * Senders
    BY <2>1, ProductMonotone
  <2>3. Shards * Senders \in Nat
    BY <2>1, ProductMonotone
  <2> QED BY <1>1, <2>1, <2>2, <2>3
<1>3. ASSUME NEW n \in Instance, NEW t \in 1 .. Senders
      PROVE  /\ n \in Nat /\ n * Senders \in Nat
             /\ n * Senders + Senders <= num_subshards
  <2>1. n \in Nat /\ Shards - 1 \in Nat /\ n <= Shards - 1 /\ Senders \in Nat
    BY <1>1 DEF Instance
  <2>2. n * Senders \in Nat /\ n * Senders <= (Shards - 1) * Senders
    BY <2>1, ProductMonotone
  <2>3. (Shards - 1) * Senders + Senders = Shards * Senders
    BY <1>1
  <2>4. (Shards - 1) * Senders \in Nat /\ Shards * Senders \in Nat
    BY <1>1, <2>1, ProductMonotone
  <2> QED BY <1>1, <2>1, <2>2, <2>3, <2>4
<1>4. ASSUME NEW s \in Sub
      PROVE  Index(s) \in 1 .. num_subshards
  <2>1. s[1] \in Instance /\ s[2] \in 1 .. Senders
    BY DEF Sub
  <2>2. /\ s[1] * Senders \in Nat /\ s[1] * Senders + Senders <= num_subshards
        /\ num_subshards \in Int
    BY <1>2, <1>3, <2>1
  <2>3. Index(s) = s[1] * Senders + s[2]
    BY DEF Index, sub_idx
  <2> QED BY <1>1, <2>1, <2>2, <2>3
<1>5. ASSUME NEW a \in Instance, NEW b \in Instance, NEW t \in 1 .. Senders, NEW u \in 1 .. Senders,
             a < b
      PROVE  a * Senders + t < b * Senders + u
  <2>1. a \in Nat /\ b \in Nat /\ a + 1 \in Nat /\ a + 1 <= b /\ Senders \in Nat
    BY <1>1, <1>5 DEF Instance
  <2>2. (a + 1) * Senders \in Nat /\ (a + 1) * Senders <= b * Senders
    BY <2>1, ProductMonotone
  <2>3. (a + 1) * Senders = a * Senders + Senders
    BY <2>1
  <2>4. a * Senders \in Nat /\ b * Senders \in Nat
    BY <1>3
  <2> QED BY <2>1, <2>2, <2>3, <2>4
<1>6. ASSUME NEW s \in Sub, NEW t \in Sub, Index(s) = Index(t)
      PROVE  s = t
  <2>1. /\ s[1] \in Instance /\ s[2] \in 1 .. Senders /\ s = <<s[1], s[2]>>
        /\ t[1] \in Instance /\ t[2] \in 1 .. Senders /\ t = <<t[1], t[2]>>
    BY DEF Sub
  <2>2. s[1] * Senders + s[2] = t[1] * Senders + t[2]
    BY <1>6 DEF Index, sub_idx
  <2>3. s[1] * Senders \in Nat /\ t[1] * Senders \in Nat /\ s[1] \in Nat /\ t[1] \in Nat
    BY <1>3, <2>1
  <2>4. ~(s[1] < t[1]) /\ ~(t[1] < s[1])
    BY <1>1, <1>5, <2>1, <2>2, <2>3
  <2>5. s[1] = t[1]
    BY <2>3, <2>4
  <2>6. s[2] = t[2]
    BY <2>1, <2>2, <2>3, <2>5
  <2> QED BY <2>1, <2>5, <2>6
<1> QED BY <1>2, <1>4, <1>6

(* The quotas of the subshards, which are numbered from 1. *)
quotas == [k \in 0 .. num_subshards - 1 |-> max_targets_this_shard(k + 1)]

(* Together they are no more than the cap. *)
LEMMA QuotasSum ==
  /\ \A k \in 0 .. num_subshards - 1 : quotas[k] \in Nat
  /\ num_subshards <= MaxTargets => \A k \in 0 .. num_subshards - 1 : quotas[k] > 0
  /\ Total(quotas, num_subshards) <= MaxTargets
<1> DEFINE N == num_subshards
           q == MaxTargets \div N
           r == MaxTargets % N
<1>1. N \in Nat \ {0} /\ MaxTargets \in Nat
  BY IndexExact, ShardAssumption
<1>2. q \in Nat /\ r \in 0 .. N - 1 /\ MaxTargets = N * q + r
  BY <1>1, Division
<1>3. \A k \in 0 .. N - 1 : quotas[k] = q + (IF k + 1 < r THEN 1 ELSE 0)
  BY DEF quotas, max_targets_this_shard
<1> HIDE DEF N, q, r
<1>4. \A k \in 0 .. N - 1 : quotas[k] \in Nat
  BY <1>2, <1>3
<1>5. N <= MaxTargets => q > 0
  <2>1. ASSUME q = 0 PROVE MaxTargets < N
    <3>1. N * q = 0
      BY <1>1, <2>1
    <3> QED BY <1>1, <1>2, <3>1
  <2> QED BY <1>1, <1>2, <2>1
<1> DEFINE S == {k \in Nat : k <= N => /\ Total(quotas, k) \in Nat
                                      /\ Total(quotas, k) <= k * q + (IF k < r THEN k ELSE r)}
<1>6. 0 \in S
  <2>1. Total(quotas, 0) = 0 /\ 0 * q = 0
    BY <1>2, TotalStep
  <2> QED BY <1>2, <2>1
<1>7. ASSUME NEW k \in S PROVE k + 1 \in S
  <2>1. ASSUME k + 1 <= N
        PROVE  /\ Total(quotas, k + 1) \in Nat
               /\ Total(quotas, k + 1) <= (k + 1) * q + (IF k + 1 < r THEN k + 1 ELSE r)
    <3>1. k \in Nat /\ k <= N /\ k \in 0 .. N - 1
      BY <1>1, <2>1
    <3>2. /\ Total(quotas, k) \in Nat
          /\ Total(quotas, k) <= k * q + (IF k < r THEN k ELSE r)
      BY <3>1
    <3>3. Total(quotas, k + 1) = Total(quotas, k) + quotas[k]
      BY <3>1, TotalStep
    <3>4. quotas[k] = q + (IF k + 1 < r THEN 1 ELSE 0)
      BY <1>3, <3>1
    <3>5. (k + 1) * q = k * q + q /\ k * q \in Nat
      BY <1>2, <3>1
    <3> HIDE DEF S
    <3> QED BY <1>2, <3>1, <3>2, <3>3, <3>4, <3>5
  <2> QED BY <2>1
<1> HIDE DEF S
<1>8. S = Nat
  BY <1>6, <1>7, InductiveSet DEF S
<1>9. Total(quotas, N) <= N * q + r
  BY <1>1, <1>2, <1>8 DEF S
<1> QED BY <1>2, <1>3, <1>4, <1>5, <1>9 DEF N

(* The probes of every subshard, made, are within its quota and within its  *)
(* counter, which may have started above 0; one more is made only if the    *)
(* counter has not reached the quota.                                       *)
CapKept ==
  /\ \E made \in [0 .. num_subshards - 1 -> Nat] :
       /\ Total(probed, MaxIndex + 1) = Total(made, num_subshards)
       /\ \A k \in 0 .. num_subshards - 1 : made[k] <= quotas[k]
       /\ \A s \in Sub : made[Index(s) - 1] <= sent[s]
  /\ \A s \in Sub : spc[s] = "send" => sent[s] < quotas[Index(s) - 1]

(* No probe is made at the beginning. *)
LEMMA CapInit == SendInit => CapKept
<1> SUFFICES ASSUME SendInit PROVE CapKept
  OBVIOUS
<1> DEFINE made == [k \in 0 .. num_subshards - 1 |-> 0]
<1>1. made \in [0 .. num_subshards - 1 -> Nat] /\ \A k \in 0 .. num_subshards - 1 : made[k] = 0
  OBVIOUS
<1> HIDE DEF made
<1>2. \A k \in 0 .. MaxIndex : k \in Addresses /\ probed[k] = 0
  BY ShardAssumption DEF SendInit, Addresses, Address, Stray
<1>3. MaxIndex + 1 \in Nat /\ (MaxIndex + 1) - 1 = MaxIndex
  BY ShardAssumption, GroupAssumption
<1>4. Total(probed, MaxIndex + 1) = 0
  BY <1>2, <1>3, TotalZero
<1>5. Total(made, num_subshards) = 0
  BY <1>1, IndexExact, TotalZero
<1>6. \A s \in Sub : Index(s) - 1 \in 0 .. num_subshards - 1
  BY IndexExact
<1>7. \A s \in Sub : sent[s] \in Nat /\ spc[s] # "send"
  BY SendTypesInit DEF SendInit, SendTypes
<1>8. \A k \in 0 .. num_subshards - 1 : quotas[k] \in Nat
  BY QuotasSum
<1>9. /\ Total(probed, MaxIndex + 1) = Total(made, num_subshards)
      /\ \A k \in 0 .. num_subshards - 1 : made[k] <= quotas[k]
      /\ \A s \in Sub : made[Index(s) - 1] <= sent[s]
  BY <1>1, <1>4, <1>5, <1>6, <1>7, <1>8
<1>10. \A s \in Sub : spc[s] = "send" => sent[s] < quotas[Index(s) - 1]
  BY <1>7
<1> QED BY <1>1, <1>9, <1>10 DEF CapKept

(* A step of a task, if no quota is 0. *)
LEMMA CapStep ==
  ASSUME num_subshards <= MaxTargets, SendTypes, CapKept, NEW s \in Sub, SendStep(s)
  PROVE  CapKept'
<1>1. \A t \in Sub : /\ Index(t) - 1 \in 0 .. num_subshards - 1
                     /\ Index(t) - 1 = Index(s) - 1 => t = s
                     /\ max_targets_this_shard(Index(t)) = quotas[Index(t) - 1]
  BY IndexExact DEF quotas
<1>2. \A k \in 0 .. num_subshards - 1 : quotas[k] \in Nat /\ quotas[k] # 0
  BY QuotasSum
<1>3. \A t \in Sub : sent[t] \in Nat
  BY DEF SendTypes
<1>4. CASE Send(s)
  <2>1. PICK made \in [0 .. num_subshards - 1 -> Nat] :
             /\ Total(probed, MaxIndex + 1) = Total(made, num_subshards)
             /\ \A k \in 0 .. num_subshards - 1 : made[k] <= quotas[k]
             /\ \A t \in Sub : made[Index(t) - 1] <= sent[t]
    BY DEF CapKept
  <2> DEFINE i == Index(s) - 1
             more == [k \in 0 .. num_subshards - 1 |-> IF k = i THEN made[k] + 1 ELSE made[k]]
  <2>2. i \in 0 .. num_subshards - 1 /\ sent[s] < quotas[i] /\ made[i] <= sent[s]
    BY <1>1, <1>4, <2>1 DEF Send, CapKept
  <2>3. /\ \A t \in Sub : t # s => sent'[t] = sent[t]
        /\ sent'[s] = sent[s] + 1
    BY <1>4 DEF Send, SendTypes
  <2>4. /\ ip[s] \in 0 .. MaxIndex
        /\ \A a \in 0 .. MaxIndex :
             probed[a] \in Nat /\ probed'[a] = IF a = ip[s] THEN probed[a] + 1 ELSE probed[a]
    <3>1. Addresses = 0 .. MaxIndex
      BY ShardAssumption, GroupAssumption DEF Addresses, Address, Stray
    <3>2. ip[s] \in Addresses
      BY <1>4 DEF Send, SendTypes
    <3> QED BY <1>4, <3>1, <3>2 DEF Send, SendTypes
  <2>5. MaxIndex + 1 \in Nat /\ (MaxIndex + 1) - 1 = MaxIndex
    BY ShardAssumption, GroupAssumption
  <2>6. Total(probed', MaxIndex + 1) = Total(probed, MaxIndex + 1) + 1
    <3>1. /\ ip[s] \in 0 .. (MaxIndex + 1) - 1
          /\ \A a \in 0 .. (MaxIndex + 1) - 1 :
               probed[a] \in Nat /\ probed'[a] = IF a = ip[s] THEN probed[a] + 1 ELSE probed[a]
      BY <2>4, <2>5
    <3> QED BY <2>5, <3>1, TotalIncrement
  <2>7. /\ more \in [0 .. num_subshards - 1 -> Nat]
        /\ \A k \in 0 .. num_subshards - 1 :
             made[k] \in Nat /\ more[k] = IF k = i THEN made[k] + 1 ELSE made[k]
    BY <2>1
  <2> HIDE DEF more, i
  <2>8. Total(more, num_subshards) = Total(made, num_subshards) + 1
    BY <2>2, <2>7, IndexExact, TotalIncrement
  <2>9. \A k \in 0 .. num_subshards - 1 : more[k] <= quotas[k]
    BY <1>2, <1>3, <2>1, <2>2, <2>7
  <2>10. \A t \in Sub : more[Index(t) - 1] <= sent'[t]
    <3> SUFFICES ASSUME NEW t \in Sub PROVE more[Index(t) - 1] <= sent'[t]
      OBVIOUS
    <3>1. CASE t = s
      BY <1>3, <2>2, <2>3, <2>7, <3>1 DEF i
    <3>2. CASE t # s
      <4>1. Index(t) - 1 \in 0 .. num_subshards - 1 /\ Index(t) - 1 # i
        BY <1>1, <3>2 DEF i
      <4> QED BY <2>1, <2>3, <2>7, <3>2, <4>1
    <3> QED BY <3>1, <3>2
  <2>11. \A t \in Sub : spc'[t] = "send" => sent'[t] < quotas[Index(t) - 1]
    <3>1. spc'[s] # "send" /\ \A t \in Sub : t # s => spc'[t] = spc[t]
      BY <1>4 DEF Send, SendTypes, Destination
    <3> QED BY <2>3, <3>1 DEF CapKept
  <2>12. Total(probed', MaxIndex + 1) = Total(more, num_subshards)
    BY <2>1, <2>6, <2>8
  <2> QED BY <2>7, <2>9, <2>10, <2>11, <2>12 DEF CapKept
<1>5. CASE Continue(s)
  <2>1. sent[s] < quotas[Index(s) - 1]
    BY <1>1, <1>2, <1>3, <1>5 DEF Continue, Finishes, QuotaReached
  <2>2. UNCHANGED <<probed, sent>> /\ \A t \in Sub : t # s => spc'[t] = spc[t]
    BY <1>5 DEF Continue, SendTypes
  <2> QED BY <2>1, <2>2 DEF CapKept
<1>6. CASE Start(s) \/ OnList(s) \/ NotOnList(s) \/ Finish(s)
  <2>1. UNCHANGED <<probed, sent>>
    BY <1>6 DEF Start, OnList, NotOnList, Finish
  <2>2. spc'[s] # "send" /\ \A t \in Sub : t # s => spc'[t] = spc[t]
    BY <1>6 DEF Start, OnList, NotOnList, Finish, Destination, SendTypes
  <2> QED BY <2>1, <2>2 DEF CapKept
<1> QED BY <1>4, <1>5, <1>6 DEF SendStep

(* Within their quotas the tasks are within the cap. *)
LEMMA CapEnough ==
  ASSUME SendTypes, CapKept
  PROVE  CapRespected
<1>1. PICK made \in [0 .. num_subshards - 1 -> Nat] :
           /\ Total(probed, MaxIndex + 1) = Total(made, num_subshards)
           /\ \A k \in 0 .. num_subshards - 1 : made[k] <= quotas[k]
  BY DEF CapKept
<1>2. ProbesMade = Total(probed, MaxIndex + 1)
  BY DEF ProbesMade, Total
<1>3. \A k \in 0 .. num_subshards - 1 : made[k] \in Nat /\ quotas[k] \in Nat /\ made[k] <= quotas[k]
  BY <1>1, QuotasSum
<1>4. num_subshards \in Nat
  BY IndexExact
<1>5. Total(made, num_subshards) <= Total(quotas, num_subshards)
  BY <1>3, <1>4, TotalMonotone
<1>6. Total(made, num_subshards) \in Nat /\ Total(quotas, num_subshards) \in Nat
  BY <1>3, <1>4, TotalType
<1>7. Total(quotas, num_subshards) <= MaxTargets
  BY QuotasSum
<1> QED BY <1>1, <1>2, <1>5, <1>6, <1>7, ShardAssumption DEF CapRespected

(* All the tasks of all the instances together probe no more addresses than *)
(* max-targets allows, whatever their counters started with: the quotas of  *)
(* xm_shard_create add up to it.  There must be a target for every subshard,*)
(* for a quota of 0 is no limit.                                            *)
THEOREM CapRespectedAlways ==
  ASSUME num_subshards <= MaxTargets
  PROVE  Spec => []CapRespected
<1>1. SendInit => SendTypes /\ CapKept
  BY SendTypesInit, CapInit
<1>2. SendTypes /\ CapKept /\ [SendNext \/ Done]_sendVars => (SendTypes /\ CapKept)'
  <2> SUFFICES ASSUME SendTypes, CapKept, [SendNext \/ Done]_sendVars
               PROVE  SendTypes' /\ CapKept'
    OBVIOUS
  <2>1. CASE SendNext
    BY <2>1, SendTypesStep, CapStep DEF SendNext
  <2>2. CASE UNCHANGED sendVars
    BY <2>2 DEF sendVars, taskVars, SendTypes, CapKept
  <2> QED BY <2>1, <2>2 DEF Done
<1>3. SendTypes /\ CapKept => CapRespected
  BY CapEnough
<1> QED BY <1>1, <1>2, <1>3, PTL DEF Spec

-----------------------------------------------------------------------------
(* The list of addresses.                                                   *)

(* A task that has found an address on the list keeps to it. *)
WantedKept ==
  /\ \A s \in Sub : spc[s] \in {"check", "send"} => ip[s] \in Listed \cup {NoAddress}
  /\ \A a \in Addresses : probed[a] > 0 => a \in Listed

(* A step of a task when there is a list. *)
LEMMA WantedStep ==
  ASSUME HasList, SendTypes, WantedKept, NEW s \in Sub, SendStep(s)
  PROVE  WantedKept'
<1> USE DEF SendTypes, WantedKept
<1>1. CASE Start(s)
  <2>1. spc'[s] = "seek" /\ probed' = probed
    BY <1>1 DEF Start, Destination
  <2>2. \A t \in Sub : t # s => spc'[t] = spc[t] /\ ip'[t] = ip[t]
    BY <1>1 DEF Start
  <2> QED BY <2>1, <2>2
<1>2. CASE OnList(s)
  BY <1>2 DEF OnList
<1>3. CASE NotOnList(s)
  <2>1. spc'[s] \in {"seek", "done"} /\ probed' = probed
    BY <1>3 DEF NotOnList
  <2>2. \A t \in Sub : t # s => spc'[t] = spc[t] /\ ip'[t] = ip[t]
    BY <1>3, WalkType DEF NotOnList
  <2> QED BY <2>1, <2>2
<1>4. CASE Finish(s)
  BY <1>4 DEF Finish
<1>5. CASE Continue(s)
  BY <1>5 DEF Continue
<1>6. CASE Send(s)
  <2>1. Walk(s)
    BY <1>6 DEF Send
  <2>2. spc'[s] \in {"seek", "check"} /\ (spc'[s] = "check" => ip'[s] = NoAddress)
    BY <1>6, <2>1, WalkType DEF Send, Destination
  <2>3. \A t \in Sub : t # s => spc'[t] = spc[t] /\ ip'[t] = ip[t]
    BY <1>6, <2>1, WalkType DEF Send
  <2>4. ip[s] \in Listed /\ \A a \in Addresses : a # ip[s] => probed'[a] = probed[a]
    BY <1>6 DEF Send
  <2> QED BY <2>2, <2>3, <2>4
<1> QED BY <1>1, <1>2, <1>3, <1>4, <1>5, <1>6 DEF SendStep

(* With a list of addresses only addresses on it are probed, whatever the   *)
(* cycle and the subshards, if what a task without an address begins with   *)
(* is not on the list itself.                                               *)
THEOREM OnlyWantedListed ==
  ASSUME HasList, Stray \notin Listed
  PROVE  Spec => []OnlyWanted
<1>1. SendInit => SendTypes /\ WantedKept
  <2>1. SendInit => WantedKept
    BY DEF SendInit, WantedKept, Addresses
  <2> QED BY <2>1, SendTypesInit
<1>2. SendTypes /\ WantedKept /\ [SendNext \/ Done]_sendVars => (SendTypes /\ WantedKept)'
  <2> SUFFICES ASSUME SendTypes, WantedKept, [SendNext \/ Done]_sendVars
               PROVE  SendTypes' /\ WantedKept'
    OBVIOUS
  <2>1. CASE SendNext
    BY <2>1, SendTypesStep, WantedStep DEF SendNext
  <2>2. CASE UNCHANGED sendVars
    BY <2>2 DEF sendVars, taskVars, SendTypes, WantedKept
  <2> QED BY <2>1, <2>2 DEF Done
<1>3. SendTypes /\ WantedKept => OnlyWanted
  <2>1. Listed \subseteq Address
    BY SendAssumption
  <2>2. SendTypes => DOMAIN probed = Addresses
    BY DEF SendTypes
  <2> QED BY <2>1, <2>2 DEF WantedKept, OnlyWanted, Wanted
<1> QED BY <1>1, <1>2, <1>3, PTL DEF Spec
-----------------------------------------------------------------------------
(* Powers modulo the prime.                                                 *)

(* One step of the recursive function of Pow, and the function up to n. *)
Squared(b, h, i) == (h * h * (IF i % 2 = 1 THEN b ELSE 1)) % Prime

Powers(p, b, n) == p = [i \in 0 .. n |-> IF i = 0 THEN 1 ELSE Squared(b, p[i \div 2], i)]

(* Half a number. *)
LEMMA Half ==
  ASSUME NEW i \in Nat, i # 0
  PROVE  i \div 2 \in Nat /\ i \div 2 < i
OBVIOUS

(* The function exists up to any n. *)
LEMMA PowersExist ==
  ASSUME NEW b
  PROVE  \A n \in Nat : \E p : Powers(p, b, n)
<1> DEFINE S == {n \in Nat : \E p : Powers(p, b, n)}
<1>1. 0 \in S
  <2> DEFINE p == [i \in 0 .. 0 |-> 1]
  <2>1. p = [i \in 0 .. 0 |-> IF i = 0 THEN 1 ELSE Squared(b, p[i \div 2], i)]
    <3>1. \A i \in 0 .. 0 : i = 0
      OBVIOUS
    <3> QED BY <3>1
  <2> HIDE DEF p
  <2> QED BY <2>1 DEF Powers
<1>2. ASSUME NEW n \in S PROVE n + 1 \in S
  <2>1. PICK p : Powers(p, b, n)
    OBVIOUS
  <2>2. n \in Nat
    OBVIOUS
  <2> DEFINE h == [i \in 0 .. n + 1 |-> IF i = n + 1 THEN Squared(b, p[i \div 2], i) ELSE p[i]]
  <2>3. ASSUME NEW i \in 0 .. n + 1
        PROVE  h[i] = IF i = 0 THEN 1 ELSE Squared(b, h[i \div 2], i)
    <3>1. i # 0 => i \div 2 \in 0 .. n /\ i \div 2 # n + 1 /\ i \div 2 \in 0 .. n + 1
      BY <2>2, Half
    <3>2. i # 0 => h[i \div 2] = p[i \div 2]
      BY <3>1
    <3>3. CASE i = n + 1
      BY <2>2, <3>2, <3>3
    <3>4. CASE i # n + 1
      <4>1. i \in 0 .. n
        BY <2>2, <3>4
      <4>2. p[i] = IF i = 0 THEN 1 ELSE Squared(b, p[i \div 2], i)
        BY <2>1, <4>1 DEF Powers
      <4>3. h[i] = p[i]
        BY <3>4
      <4> QED BY <3>2, <4>2, <4>3
    <3> QED BY <3>3, <3>4
  <2>4. h = [i \in 0 .. n + 1 |-> h[i]]
    OBVIOUS
  <2> HIDE DEF h
  <2>5. Powers(h, b, n + 1)
    BY <2>3, <2>4 DEF Powers
  <2> QED BY <2>2, <2>5
<1> HIDE DEF S
<1>3. S = Nat
  BY <1>1, <1>2, InductiveSet DEF S
<1> QED BY <1>3 DEF S

(* Two of them agree as far as both go. *)
LEMMA PowersAgree ==
  ASSUME NEW b, NEW m \in Nat, NEW n \in Nat, NEW p, NEW q, Powers(p, b, m), Powers(q, b, n)
  PROVE  \A i \in Nat : i <= m /\ i <= n => p[i] = q[i]
<1> DEFINE S == {i \in Nat : \A j \in 0 .. i : j <= m /\ j <= n => p[j] = q[j]}
<1>1. 0 \in S
  <2>1. 0 \in 0 .. m /\ 0 \in 0 .. n
    OBVIOUS
  <2>2. p[0] = 1 /\ q[0] = 1
    BY <2>1 DEF Powers
  <2> QED BY <2>2
<1>2. ASSUME NEW i \in S PROVE i + 1 \in S
  <2>1. ASSUME NEW j \in 0 .. i + 1, j <= m, j <= n PROVE p[j] = q[j]
    <3>1. CASE j \in 0 .. i
      BY <2>1, <3>1
    <3>2. CASE j \notin 0 .. i
      <4>1. i \in Nat /\ j = i + 1 /\ j # 0 /\ j \in 0 .. m /\ j \in 0 .. n
        BY <2>1, <3>2
      <4>2. j \div 2 \in 0 .. i /\ j \div 2 <= m /\ j \div 2 <= n
        BY <2>1, <4>1, Half
      <4>3. p[j \div 2] = q[j \div 2]
        BY <4>2
      <4>4. p[j] = Squared(b, p[j \div 2], j)
        BY <4>1 DEF Powers
      <4>5. q[j] = Squared(b, q[j \div 2], j)
        BY <4>1 DEF Powers
      <4> QED BY <4>3, <4>4, <4>5
    <3> QED BY <3>1, <3>2
  <2> QED BY <2>1
<1> HIDE DEF S
<1>3. S = Nat
  BY <1>1, <1>2, InductiveSet DEF S
<1> QED BY <1>3 DEF S

(* Pow squares and multiplies. *)
LEMMA PowSquared ==
  ASSUME NEW b
  PROVE  Pow(b, 0) = 1 /\ \A i \in Nat : i # 0 => Pow(b, i) = Squared(b, Pow(b, i \div 2), i)
<1> DEFINE P(n) == CHOOSE p : Powers(p, b, n)
           p == [i \in Nat |-> P(i)[i]]
           W(r) == r = [i \in Nat |-> IF i = 0 THEN 1 ELSE Squared(b, r[i \div 2], i)]
           r == CHOOSE f : W(f)
<1>1. \A n \in Nat : Powers(P(n), b, n)
  BY PowersExist
<1> HIDE DEF P
<1>2. ASSUME NEW i \in Nat PROVE p[i] = IF i = 0 THEN 1 ELSE Squared(b, p[i \div 2], i)
  <2>1. Powers(P(i), b, i) /\ i \in 0 .. i /\ p[i] = P(i)[i]
    BY <1>1
  <2>2. P(i)[i] = IF i = 0 THEN 1 ELSE Squared(b, P(i)[i \div 2], i)
    BY <2>1 DEF Powers
  <2>3. CASE i # 0
    <3>1. i \div 2 \in Nat /\ i \div 2 <= i
      BY <2>3, Half
    <3>2. Powers(P(i \div 2), b, i \div 2)
      BY <1>1, <3>1
    <3>3. P(i \div 2)[i \div 2] = P(i)[i \div 2]
      BY <2>1, <3>1, <3>2, PowersAgree
    <3>4. p[i \div 2] = P(i \div 2)[i \div 2]
      BY <3>1
    <3> QED BY <2>1, <2>2, <3>3, <3>4
  <2> QED BY <2>1, <2>2, <2>3
<1>3. p = [i \in Nat |-> p[i]]
  OBVIOUS
<1> HIDE DEF p
<1>4. W(p)
  BY <1>2, <1>3
<1>5. W(r)
  BY <1>4
<1>6. \A i \in Nat : Pow(b, i) = r[i]
  BY DEF Pow, Squared
<1> HIDE DEF r
<1>7. \A i \in Nat : r[i] = IF i = 0 THEN 1 ELSE Squared(b, r[i \div 2], i)
  BY <1>5
<1>8. \A i \in Nat : i # 0 => i \div 2 \in Nat
  BY Half
<1> QED BY <1>6, <1>7, <1>8

(* Powers are remainders. *)
LEMMA PowType ==
  ASSUME NEW b \in Nat
  PROVE  \A n \in Nat : Pow(b, n) \in 0 .. Prime - 1
<1> DEFINE S == {n \in Nat : \A j \in 0 .. n : Pow(b, j) \in 0 .. Prime - 1}
<1>1. Prime \in Nat \ {0} /\ 1 \in 0 .. Prime - 1
  BY GroupAssumption
<1>2. 0 \in S
  <2>1. \A j \in 0 .. 0 : j = 0
    OBVIOUS
  <2> QED BY <1>1, <2>1, PowSquared
<1>3. ASSUME NEW n \in S PROVE n + 1 \in S
  <2>1. ASSUME NEW j \in 0 .. n + 1 PROVE Pow(b, j) \in 0 .. Prime - 1
    <3>1. CASE j \in 0 .. n
      BY <3>1
    <3>2. CASE j \notin 0 .. n
      <4>1. j \in Nat /\ j # 0 /\ j = n + 1
        BY <3>2
      <4>2. j \div 2 \in 0 .. n
        BY <4>1, Half
      <4> DEFINE h == Pow(b, j \div 2)
                 c == IF j % 2 = 1 THEN b ELSE 1
      <4>3. h \in Nat /\ c \in Nat
        BY <1>1, <4>2
      <4>4. Pow(b, j) = (h * h * c) % Prime
        BY <4>1, PowSquared DEF Squared
      <4> HIDE DEF h, c
      <4>5. h * h \in Nat
        BY <4>3, ProductMonotone
      <4>6. h * h * c \in Nat
        BY <4>3, <4>5, ProductMonotone
      <4> QED BY <1>1, <4>4, <4>6, Division
    <3> QED BY <3>1, <3>2
  <2> QED BY <2>1
<1> HIDE DEF S
<1>4. S = Nat
  BY <1>2, <1>3, InductiveSet DEF S
<1>5. ASSUME NEW n \in Nat PROVE Pow(b, n) \in 0 .. Prime - 1
  BY <1>4 DEF S
<1> QED BY <1>5

(* A number is twice its half, or one more. *)
LEMMA Halves ==
  ASSUME NEW n \in Nat
  PROVE  \E m \in Nat :
           \/ n = 2 * m /\ n \div 2 = m /\ n % 2 = 0 /\ (n + 1) \div 2 = m /\ (n + 1) % 2 = 1
           \/ n = 2 * m + 1 /\ n \div 2 = m /\ n % 2 = 1 /\ (n + 1) \div 2 = m + 1 /\ (n + 1) % 2 = 0
<1>1. n \div 2 \in Nat
  OBVIOUS
<1> QED BY <1>1

(* A power more is the base once more. *)
LEMMA PowNext ==
  ASSUME NEW b \in Nat
  PROVE  \A n \in Nat : Pow(b, n + 1) = (Pow(b, n) * b) % Prime
<1> DEFINE Good(n) == Pow(b, n + 1) = (Pow(b, n) * b) % Prime
           S == {n \in Nat : \A j \in 0 .. n : Good(j)}
<1>1. Prime \in Nat \ {0} /\ \A n \in Nat : Pow(b, n) \in Nat
  BY GroupAssumption, PowType
<1>2. Pow(b, 0) = 1
  BY PowSquared
<1>3. ASSUME NEW i \in Nat, NEW h, NEW c, i # 0, h = Pow(b, i \div 2),
              c = IF i % 2 = 1 THEN b ELSE 1
       PROVE  Pow(b, i) = (h * h * c) % Prime
  <2>1. Pow(b, i) = Squared(b, h, i)
    BY <1>3, PowSquared
  <2> QED BY <1>3, <2>1 DEF Squared
<1>4. ASSUME NEW n \in Nat, \A j \in 0 .. n - 1 : Good(j) PROVE Good(n)
  <2>1. PICK m \in Nat :
           \/ n = 2 * m /\ n \div 2 = m /\ n % 2 = 0 /\ (n + 1) \div 2 = m /\ (n + 1) % 2 = 1
           \/ n = 2 * m + 1 /\ n \div 2 = m /\ n % 2 = 1 /\ (n + 1) \div 2 = m + 1 /\ (n + 1) % 2 = 0
    BY Halves
  <2> DEFINE h == Pow(b, m)
  <2>2. h \in Nat /\ h * h \in Nat /\ h * b \in Nat /\ h * h * b \in Nat
    <3>1. h \in Nat
      BY <1>1
    <3> HIDE DEF h
    <3>2. h * h \in Nat /\ h * b \in Nat
      BY <3>1, ProductMonotone
    <3> QED BY <3>1, <3>2, ProductMonotone
  <2>3. CASE n = 0
    <3>1. m = 0 /\ (n + 1) \div 2 = 0 /\ (n + 1) % 2 = 1
      BY <2>1, <2>3
    <3>2. Pow(b, 0) = 1 /\ Pow(b, n + 1) = (1 * 1 * b) % Prime
      BY <1>2, <1>3, <2>3, <3>1
    <3> QED BY <2>3, <3>2
  <2>4. CASE n # 0 /\ n = 2 * m
    <3>1. n \div 2 = m /\ n % 2 = 0 /\ (n + 1) \div 2 = m /\ (n + 1) % 2 = 1 /\ n + 1 # 0
      BY <2>1, <2>4
    <3>2. Pow(b, n) = (h * h * 1) % Prime
      BY <1>3, <2>4, <3>1
    <3>3. Pow(b, n + 1) = (h * h * b) % Prime
      <4>1. n + 1 \in Nat
        OBVIOUS
      <4> QED BY <1>3, <3>1, <4>1
    <3> HIDE DEF h
    <3>4. Pow(b, n) = (h * h) % Prime
      BY <2>2, <3>2
    <3>5. (((h * h) % Prime) * b) % Prime = (h * h * b) % Prime
      BY <1>1, <2>2, RemainderTimes
    <3> QED BY <3>3, <3>4, <3>5
  <2>5. CASE n # 2 * m
    <3>1. /\ n = 2 * m + 1 /\ n # 0 /\ n + 1 # 0
          /\ n \div 2 = m /\ n % 2 = 1 /\ (n + 1) \div 2 = m + 1 /\ (n + 1) % 2 = 0
          /\ m \in 0 .. n - 1
      BY <2>1, <2>5
    <3> DEFINE g == Pow(b, m + 1)
    <3>2. g \in Nat /\ g = (h * b) % Prime
      BY <1>1, <1>4, <3>1
    <3>3. Pow(b, n) = (h * h * b) % Prime
      BY <1>3, <3>1
    <3>4. Pow(b, n + 1) = (g * g * 1) % Prime
      <4>1. n + 1 \in Nat
        OBVIOUS
      <4> QED BY <1>3, <3>1, <4>1
    <3> HIDE DEF h, g
    <3>5. (((h * h * b) % Prime) * b) % Prime = ((h * h * b) * b) % Prime
      BY <1>1, <2>2, RemainderTimes
    <3>6. (((h * b) % Prime) * g) % Prime = ((h * b) * g) % Prime
      BY <1>1, <2>2, <3>2, RemainderTimes
    <3>7. (((h * b) % Prime) * (h * b)) % Prime = ((h * b) * (h * b)) % Prime
      BY <1>1, <2>2, RemainderTimes
    <3>8. (h * h * b) * b = (h * b) * (h * b) /\ (h * b) * g = g * (h * b)
      BY <2>2, <3>2
    <3>9. g * g * 1 = g * g
      BY <3>2
    <3>10. (g * g) % Prime = ((h * b) * (h * b)) % Prime
      BY <3>2, <3>6, <3>7, <3>8
    <3> QED BY <3>3, <3>4, <3>5, <3>8, <3>9, <3>10
  <2> QED BY <2>3, <2>4, <2>5
<1> HIDE DEF Good
<1>5. 0 \in S
  <2>1. Good(0)
    BY <1>4
  <2> QED BY <2>1
<1>6. ASSUME NEW n \in S PROVE n + 1 \in S
  <2>1. Good(n + 1)
    <3>1. n + 1 \in Nat /\ \A j \in 0 .. (n + 1) - 1 : Good(j)
      OBVIOUS
    <3> HIDE DEF S
    <3> QED BY <1>4, <3>1
  <2> QED BY <2>1
<1> HIDE DEF S
<1>7. S = Nat
  BY <1>5, <1>6, InductiveSet DEF S
<1>8. \A n \in Nat : Good(n)
  BY <1>7 DEF S
<1> QED BY <1>8 DEF Good

(* Exponents add. *)
LEMMA PowSum ==
  ASSUME NEW b \in Nat
  PROVE  \A m, n \in Nat : Pow(b, m + n) = (Pow(b, m) * Pow(b, n)) % Prime
<1>1. Prime \in Nat \ {0} /\ \A n \in Nat : Pow(b, n) \in 0 .. Prime - 1
  BY GroupAssumption, PowType
<1> SUFFICES ASSUME NEW m \in Nat
             PROVE  \A n \in Nat : Pow(b, m + n) = (Pow(b, m) * Pow(b, n)) % Prime
  OBVIOUS
<1> DEFINE S == {n \in Nat : Pow(b, m + n) = (Pow(b, m) * Pow(b, n)) % Prime}
<1>2. 0 \in S
  <2>1. Pow(b, 0) = 1 /\ m + 0 = m
    BY PowSquared
  <2>2. Pow(b, m) \in Nat /\ Pow(b, m) <= Prime - 1 /\ Pow(b, m) * 1 = Pow(b, m)
    BY <1>1
  <2>3. (Pow(b, m) * 1) % Prime = Pow(b, m)
    BY <1>1, <2>2
  <2> QED BY <2>1, <2>3
<1>3. ASSUME NEW n \in S PROVE n + 1 \in S
  <2> DEFINE x == Pow(b, m)
             y == Pow(b, n)
  <2>1. n \in Nat /\ m + n \in Nat /\ m + (n + 1) = (m + n) + 1
    OBVIOUS
  <2>2. Pow(b, m + n) = (x * y) % Prime
    OBVIOUS
  <2>3. Pow(b, (m + n) + 1) = (Pow(b, m + n) * b) % Prime
    BY <2>1, PowNext
  <2>4. Pow(b, n + 1) = (y * b) % Prime
    BY <2>1, PowNext
  <2>5. x \in Nat /\ y \in Nat
    BY <1>1, <2>1
  <2> HIDE DEF x, y, S
  <2>6. x * y \in Nat /\ y * b \in Nat
    BY <2>5, ProductMonotone
  <2>7. (((x * y) % Prime) * b) % Prime = ((x * y) * b) % Prime
    BY <1>1, <2>6, RemainderTimes
  <2>8. (((y * b) % Prime) * x) % Prime = ((y * b) * x) % Prime
    BY <1>1, <2>5, <2>6, RemainderTimes
  <2>9. (x * y) * b = (y * b) * x /\ x * Pow(b, n + 1) = Pow(b, n + 1) * x
    <3>1. Pow(b, n + 1) \in Nat
      BY <1>1, <2>1
    <3> QED BY <2>5, <3>1
  <2>10. Pow(b, m + (n + 1)) = (x * Pow(b, n + 1)) % Prime
    BY <2>1, <2>2, <2>3, <2>4, <2>7, <2>8, <2>9
  <2> QED BY <2>1, <2>10 DEF x, S
<1> HIDE DEF S
<1>4. S = Nat
  BY <1>2, <1>3, InductiveSet DEF S
<1> QED BY <1>4 DEF S

(* The group has at least two elements. *)
LEMMA OrderType == order \in Nat \ {0} /\ Prime = order + 1 /\ Prime \in Nat \ {0}
BY GroupAssumption DEF order

(* Powers that come to 1 at the order repeat with it. *)
LEMMA PowRepeats ==
  ASSUME NEW g \in Element, Pow(g, order) = 1
  PROVE  \A x, q \in Nat : Pow(g, order * q + x) = Pow(g, x)
<1>1. g \in Nat /\ Pow(g, order) = 1 /\ order \in Nat /\ Prime \in Nat \ {0}
  BY OrderType DEF Element
<1>2. ASSUME NEW x \in Nat PROVE Pow(g, order + x) = Pow(g, x)
  <2>1. Pow(g, order + x) = (1 * Pow(g, x)) % Prime
    BY <1>1, PowSum
  <2>2. Pow(g, x) \in 0 .. Prime - 1
    BY <1>1, PowType
  <2>3. (1 * Pow(g, x)) % Prime = Pow(g, x)
    BY <1>1, <2>2
  <2> QED BY <2>1, <2>3
<1> SUFFICES ASSUME NEW x \in Nat PROVE \A q \in Nat : Pow(g, order * q + x) = Pow(g, x)
  OBVIOUS
<1> DEFINE S == {q \in Nat : Pow(g, order * q + x) = Pow(g, x)}
<1>3. 0 \in S
  <2>1. order * 0 + x = x
    BY <1>1
  <2> QED BY <2>1
<1>4. ASSUME NEW q \in S PROVE q + 1 \in S
  <2>1. q \in Nat /\ order * q \in Nat
    BY <1>1, ProductMonotone
  <2>2. order * (q + 1) + x = order + (order * q + x) /\ order * q + x \in Nat
    BY <1>1, <2>1
  <2>3. Pow(g, order * (q + 1) + x) = Pow(g, order * q + x)
    BY <1>2, <2>2
  <2> QED BY <2>1, <2>3
<1> HIDE DEF S
<1>5. S = Nat
  BY <1>3, <1>4, InductiveSet DEF S
<1> QED BY <1>5 DEF S

(* So an exponent counts modulo the order. *)
LEMMA PowModulo ==
  ASSUME NEW g \in Element, Pow(g, order) = 1, NEW x \in Nat
  PROVE  Pow(g, x % order) = Pow(g, x) /\ x % order \in 0 .. order - 1
<1>1. /\ x \div order \in Nat /\ x % order \in 0 .. order - 1
      /\ x = order * (x \div order) + (x % order)
  BY OrderType, Division
<1> DEFINE d == x \div order
           r == x % order
<1> HIDE DEF d, r
<1>2. d \in Nat /\ r \in Nat /\ x = order * d + r
  BY <1>1 DEF d, r
<1>3. Pow(g, order * d + r) = Pow(g, r)
  BY <1>2, PowRepeats
<1> QED BY <1>1, <1>2, <1>3 DEF r

(* They are elements of the group. *)
LEMMA PowNonzero ==
  ASSUME NEW g \in Element, Pow(g, order) = 1, NEW x \in Nat
  PROVE  Pow(g, x) \in Element
<1>1. Pow(g, x % order) = Pow(g, x) /\ x % order \in 0 .. order - 1
  BY PowModulo
<1>2. g \in Nat /\ Pow(g, order) = 1
  BY DEF Element
<1>3. Pow(g, x) \in 0 .. Prime - 1
  BY <1>2, PowType
<1>4. ASSUME Pow(g, x) = 0 PROVE FALSE
  <2> DEFINE r == x % order
  <2>1. Pow(g, r) = 0 /\ r \in 0 .. order - 1
    BY <1>1, <1>4
  <2> HIDE DEF r
  <2>2. r \in Nat /\ order - r \in Nat /\ r + (order - r) = order
    BY <2>1, OrderType
  <2>3. Pow(g, r + (order - r)) = (Pow(g, r) * Pow(g, order - r)) % Prime
    BY <1>2, <2>2, PowSum
  <2>4. Pow(g, order - r) \in Nat
    BY <1>2, <2>2, PowType
  <2>5. (0 * Pow(g, order - r)) % Prime = 0
    BY <2>4, OrderType
  <2> QED BY <1>2, <2>1, <2>2, <2>3, <2>5
<1> QED BY <1>3, <1>4, GroupAssumption DEF Element

(* Exponents multiply. *)
LEMMA PowPower ==
  ASSUME NEW b \in Nat, NEW c \in Nat
  PROVE  \A n \in Nat : Pow(Pow(b, c), n) = Pow(b, c * n)
<1> DEFINE g == Pow(b, c)
           S == {n \in Nat : Pow(g, n) = Pow(b, c * n)}
<1>1. g \in Nat
  BY PowType, OrderType
<1>2. 0 \in S
  <2>1. c * 0 = 0
    OBVIOUS
  <2> QED BY <2>1, PowSquared
<1>3. ASSUME NEW n \in S PROVE n + 1 \in S
  <2>1. n \in Nat /\ Pow(g, n) = Pow(b, c * n)
    OBVIOUS
  <2> HIDE DEF g, S
  <2>2. Pow(g, n + 1) = (Pow(g, n) * g) % Prime
    BY <1>1, <2>1, PowNext
  <2>3. c * n \in Nat /\ c * (n + 1) = c * n + c
    BY <2>1, ProductMonotone
  <2>4. Pow(b, c * n + c) = (Pow(b, c * n) * Pow(b, c)) % Prime
    BY <2>3, PowSum
  <2>5. Pow(g, n + 1) = Pow(b, c * (n + 1))
    BY <2>1, <2>2, <2>3, <2>4 DEF g
  <2> QED BY <2>1, <2>5 DEF S
<1> HIDE DEF S
<1>4. S = Nat
  BY <1>2, <1>3, InductiveSet DEF S
<1> QED BY <1>4 DEF S

(* The known root of the group is one: its powers come to 1 at the order    *)
(* and not before.                                                          *)
Root == /\ Pow(Primroot, order) = 1
        /\ \A k \in 1 .. order - 1 : Pow(Primroot, k) # 1

(* The powers of a primitive element are those of the group, each once,     *)
(* and begin again with 1.                                                  *)
Primitive(g) ==
  /\ g \in Element
  /\ Pow(g, order) = 1
  /\ \A x \in Element : \E e \in 0 .. order - 1 : x = Pow(g, e)
  /\ \A e, f \in 0 .. order - 1 : Pow(g, e) = Pow(g, f) => e = f

(* The powers of a primitive element do. *)
LEMMA PowPeriodic ==
  ASSUME NEW g, Primitive(g)
  PROVE  \A x, q \in Nat : Pow(g, order * q + x) = Pow(g, x)
BY PowRepeats DEF Primitive

(* And their exponents count modulo the order. *)
LEMMA PowReduced ==
  ASSUME NEW g, Primitive(g), NEW x \in Nat
  PROVE  Pow(g, x % order) = Pow(g, x) /\ x % order \in 0 .. order - 1
BY PowModulo DEF Primitive

(* Less than the order apart they are different elements. *)
LEMMA PowInjective ==
  ASSUME NEW g, Primitive(g), NEW x \in Nat, NEW y \in Nat, x <= y, y < x + order,
         Pow(g, x) = Pow(g, y)
  PROVE  x = y
<1>1. Pow(g, x % order) = Pow(g, x) /\ x % order \in 0 .. order - 1
  BY PowReduced
<1>2. Pow(g, y % order) = Pow(g, y) /\ y % order \in 0 .. order - 1
  BY PowReduced
<1>3. x % order = y % order
  BY <1>1, <1>2 DEF Primitive
<1> QED BY <1>3, OrderType, RemainderWindow

(* And they are elements of the group. *)
LEMMA PowElement ==
  ASSUME NEW g, Primitive(g), NEW x \in Nat
  PROVE  Pow(g, x) \in Element
BY PowNonzero DEF Primitive

(* xm_make_cycle draws primitive elements only: a power of the root whose   *)
(* exponent check_coprime accepts.                                          *)
LEMMA GeneratorPrimitive ==
  ASSUME Root, Prime <= Limit, NEW g \in Generators
  PROVE  Primitive(g)
<1>1. PICK c \in 1 .. Prime - 1 : check_coprime(c) /\ g = xm_isomorphism(c)
  BY DEF Generators
<1>2. /\ order \in Nat \ {0} /\ Prime = order + 1 /\ Limit \in Nat \ {0}
      /\ Primroot \in Element /\ Primroot \in Nat /\ c \in 1 .. order /\ c \in Nat \ {0}
  BY <1>1, OrderType, GroupAssumption DEF Element
<1>3. Pow(Primroot, order) = 1
  BY DEF Root
<1>4. Pow(Primroot, c) \in Element
  BY <1>2, <1>3, PowNonzero
<1>5. g = Pow(Primroot, c)
  <2>1. Pow(Primroot, c) \in Nat /\ Pow(Primroot, c) < Limit
    BY <1>2, <1>4 DEF Element
  <2>2. Pow(Primroot, c) % Limit = Pow(Primroot, c)
    BY <1>2, <2>1
  <2> QED BY <1>1, <2>2 DEF xm_isomorphism
<1>6. g \in Element /\ g \in Nat
  BY <1>4, <1>5 DEF Element
<1>7. \A n \in Nat : Pow(g, n) = Pow(Primroot, c * n)
  BY <1>2, <1>5, PowPower
<1>8. Pow(g, order) = 1
  <2>1. Pow(g, order) = Pow(Primroot, c * order)
    BY <1>2, <1>7
  <2>2. c * order = order * c + 0
    BY <1>2
  <2>3. Pow(Primroot, order * c + 0) = Pow(Primroot, 0)
    BY <1>2, <1>3, PowRepeats
  <2> QED BY <2>1, <2>2, <2>3, PowSquared
<1>9. ASSUME NEW k \in 1 .. order - 1 PROVE Pow(g, k) # 1
  <2> SUFFICES ASSUME Pow(g, k) = 1 PROVE FALSE
    OBVIOUS
  <2>1. k \in Nat /\ c * k \in Nat
    BY <1>2, ProductMonotone
  <2>2. Pow(Primroot, c * k) = 1
    BY <1>7, <2>1
  <2>3. /\ Pow(Primroot, (c * k) % order) = Pow(Primroot, c * k)
        /\ (c * k) % order \in 0 .. order - 1
    BY <1>2, <1>3, <2>1, PowModulo
  <2>4. (c * k) % order = 0
    BY <1>2, <2>2, <2>3 DEF Root
  <2>5. PICK p \in 2 .. order : /\ order % p = 0 /\ c % p = 0
                                /\ \A d \in 2 .. p - 1 : p % d # 0
    <3>1. order \in Nat \ {0} /\ c \in Nat \ {0}
      BY <1>2
    <3> QED BY <2>4, <3>1, CommonFactor
  <2>6. p \in Factors
    BY <1>2, <2>5, GroupAssumption
  <2>7. ~(p > c)
    <3>1. ASSUME p > c PROVE c % p = c
      <4>1. p \in Nat \ {0} /\ c \in Nat
        BY <1>2
      <4> QED BY <3>1, <4>1
    <3> QED BY <1>2, <2>5, <3>1
  <2> QED BY <1>1, <1>2, <2>5, <2>6, <2>7 DEF check_coprime
<1>10. ASSUME NEW e \in 0 .. order - 1, NEW f \in 0 .. order - 1, e < f, Pow(g, e) = Pow(g, f)
       PROVE  FALSE
  <2>1. /\ e \in Nat /\ f \in Nat /\ order - e \in Nat /\ f - e \in 1 .. order - 1 /\ f - e \in Nat
        /\ e + (order - e) = order /\ f + (order - e) = order * 1 + (f - e)
    BY <1>2, <1>10
  <2>2. Pow(g, e + (order - e)) = (Pow(g, e) * Pow(g, order - e)) % Prime
    BY <1>6, <2>1, PowSum
  <2>3. Pow(g, f + (order - e)) = (Pow(g, f) * Pow(g, order - e)) % Prime
    BY <1>6, <2>1, PowSum
  <2>4. Pow(g, order * 1 + (f - e)) = Pow(g, f - e)
    BY <1>6, <1>8, <2>1, PowRepeats
  <2>5. Pow(g, f - e) = 1
    BY <1>8, <1>10, <2>1, <2>2, <2>3, <2>4
  <2> QED BY <1>9, <2>1, <2>5
<1>11. \A e, f \in 0 .. order - 1 : Pow(g, e) = Pow(g, f) => e = f
  <2> SUFFICES ASSUME NEW e \in 0 .. order - 1, NEW f \in 0 .. order - 1, Pow(g, e) = Pow(g, f)
               PROVE  e = f
    OBVIOUS
  <2>1. ~(e < f) /\ ~(f < e)
    BY <1>10
  <2> QED BY <1>2, <2>1
<1>12. \A x \in Element : \E e \in 0 .. order - 1 : x = Pow(g, e)
  <2> DEFINE h == [e \in 0 .. order - 1 |-> Pow(g, e)]
  <2>1. \A e \in 0 .. order - 1 : Pow(g, e) \in Element
    BY <1>2, <1>6, <1>8, PowNonzero
  <2>2. h \in [0 .. order - 1 -> Element] /\ \A e \in 0 .. order - 1 : h[e] = Pow(g, e)
    BY <2>1
  <2> HIDE DEF h
  <2>3. h \in Injection(0 .. order - 1, Element)
    BY <1>11, <2>2 DEF Injection, IsInjective
  <2>4. IsFiniteSet(Element) /\ Cardinality(Element) = order /\ Cardinality(0 .. order - 1) = order
    <3>1. Element = 1 .. order /\ 0 \in Int /\ 1 \in Int /\ order \in Int /\ order - 1 \in Int
      BY <1>2 DEF Element
    <3>2. /\ IsFiniteSet(1 .. order)
          /\ Cardinality(1 .. order) = IF 1 > order THEN 0 ELSE order - 1 + 1
      BY <3>1, FS_Interval
    <3>3. Cardinality(0 .. order - 1) = IF 0 > order - 1 THEN 0 ELSE (order - 1) - 0 + 1
      BY <3>1, FS_Interval
    <3> QED BY <1>2, <3>1, <3>2, <3>3
  <2>5. h \in Surjection(0 .. order - 1, Element)
    BY <2>3, <2>4, FS_Injection
  <2> QED BY <2>2, <2>5 DEF Surjection
<1> QED BY <1>6, <1>8, <1>11, <1>12 DEF Primitive

-----------------------------------------------------------------------------
(* The subshards of one cycle.                                              *)

(* All the tasks walk one cycle: an instance has one task, its group is     *)
(* smaller than 2^32, and the subshards are of one size.                    *)
OneCycle ==
  /\ Root
  /\ Senders = 1
  /\ Prime <= Limit
  /\ order % num_subshards = 0

Cycles == [1 .. Senders -> [generator : Generators, offset : 0 .. Prime - 1]]

(* The elements of subshard s, Stride of them, from 0 on. *)
Stride == order \div num_subshards
Exponent(s, j) == cycle[s[2]].offset + (Stride * Index(s) + j)
At(s, j) == Pow(generator(s), Exponent(s, j))

(* Every subshard has an element, and together they have them all. *)
LEMMA StrideExact ==
  ASSUME order % num_subshards = 0
  PROVE  Stride \in Nat \ {0} /\ num_subshards * Stride = order
<1>1. order \in Nat \ {0} /\ num_subshards \in Nat \ {0}
  BY OrderType, IndexExact
<1>2. Stride \in Nat /\ order = num_subshards * Stride + 0
  BY <1>1, Division DEF Stride
<1>3. num_subshards * Stride \in Nat
  BY <1>1, <1>2, ProductMonotone
<1>4. order = num_subshards * Stride
  BY <1>2, <1>3
<1>5. Stride # 0
  <2>1. num_subshards * 0 = 0
    BY <1>1
  <2> QED BY <1>1, <1>4, <2>1
<1> QED BY <1>2, <1>4, <1>5

(* Their exponents are numbers, and their bases primitive. *)
LEMMA SubshardType ==
  ASSUME OneCycle, cycle \in Cycles, NEW s \in Sub
  PROVE  /\ Primitive(generator(s)) /\ generator(s) \in Nat
         /\ cycle[s[2]].offset \in 0 .. order
         /\ s[2] = 1 /\ s[1] \in Nat /\ Index(s) = s[1] + 1
         /\ Index(s) \in 1 .. num_subshards /\ Stride * Index(s) \in Nat
         /\ \A j \in Nat : Exponent(s, j) \in Nat
<1>1. s[2] \in 1 .. Senders /\ s[1] \in Instance
  BY DEF Sub
<1>2. cycle[s[2]] \in [generator : Generators, offset : 0 .. Prime - 1]
  BY <1>1 DEF Cycles
<1>3. generator(s) \in Generators /\ cycle[s[2]].offset \in 0 .. Prime - 1
  BY <1>2 DEF generator
<1>4. Primitive(generator(s))
  BY <1>3, GeneratorPrimitive DEF OneCycle
<1>5. generator(s) \in Nat
  BY <1>4 DEF Primitive, Element
<1>6. cycle[s[2]].offset \in 0 .. order
  BY <1>3, OrderType
<1>7. s[2] = 1 /\ s[1] \in Nat /\ Senders = 1
  BY <1>1 DEF OneCycle, Instance
<1>8. Index(s) = s[1] + 1
  BY <1>7 DEF Index, sub_idx
<1>9. Index(s) \in 1 .. num_subshards
  BY IndexExact
<1>10. Stride * Index(s) \in Nat
  <2>1. Stride \in Nat /\ Index(s) \in Nat
    BY <1>9, StrideExact, IndexExact DEF OneCycle
  <2> QED BY <2>1, ProductMonotone
<1>11. \A j \in Nat : Exponent(s, j) \in Nat
  BY <1>6, <1>10, OrderType DEF Exponent
<1> QED BY <1>4, <1>5, <1>6, <1>7, <1>8, <1>9, <1>10, <1>11

(* They are elements of the group. *)
LEMMA AtElement ==
  ASSUME OneCycle, cycle \in Cycles, NEW s \in Sub, NEW j \in Nat
  PROVE  At(s, j) \in Element
BY SubshardType, PowElement DEF At

(* exponent_begin and exponent_end are the first exponent of a subshard and *)
(* the one after its last.                                                  *)
LEMMA FirstLast ==
  ASSUME OneCycle, cycle \in Cycles, NEW s \in Sub
  PROVE  first(s, cycle) = At(s, 0) /\ last(s, cycle) = At(s, Stride)
<1> DEFINE g == generator(s)
           o == cycle[s[2]].offset
           i == Index(s)
           N == num_subshards
<1>1. /\ Primitive(g) /\ o \in Nat /\ i \in 1 .. N /\ Stride * i \in Nat
      /\ Exponent(s, 0) \in Nat /\ Exponent(s, Stride) \in Nat
  BY SubshardType, StrideExact, OrderType DEF OneCycle
<1>2. order \in Nat /\ N \in Nat \ {0} /\ Stride \in Nat \ {0} /\ N * Stride = order
  BY OrderType, IndexExact, StrideExact DEF OneCycle
<1>3. first(s, cycle) = Pow(g, (Stride * i + o) % order)
  BY DEF first, exponent_begin, Stride, generator
<1>4. last(s, cycle) = Pow(g, (Stride * ((i + 1) % N) + o) % order)
  BY DEF last, exponent_end, Stride, generator
<1>5. Exponent(s, 0) = Stride * i + o /\ Exponent(s, Stride) = Stride * i + o + Stride
  BY <1>1, <1>2 DEF Exponent
<1>6. At(s, 0) = Pow(g, Exponent(s, 0)) /\ At(s, Stride) = Pow(g, Exponent(s, Stride))
  BY DEF At
<1> HIDE DEF g, o, i, N
<1>7. first(s, cycle) = At(s, 0)
  BY <1>1, <1>3, <1>5, <1>6, PowReduced
<1> DEFINE q == (i + 1) \div N
           r == (i + 1) % N
<1>8. i + 1 \in Nat /\ q \in Nat /\ r \in Nat /\ i + 1 = N * q + r
  <2>1. i + 1 \in Nat
    BY <1>1, <1>2
  <2>2. q \in Nat /\ r \in 0 .. N - 1 /\ i + 1 = N * q + r
    BY <1>2, <2>1, Division
  <2> QED BY <1>2, <2>1, <2>2
<1> HIDE DEF q, r
<1>9. Stride * r \in Nat /\ Stride * r + o \in Nat
  BY <1>1, <1>2, <1>8, ProductMonotone
<1>10. Stride * i + o + Stride = order * q + (Stride * r + o)
  <2>1. Stride * i + Stride = Stride * (i + 1)
    BY <1>1, <1>2
  <2>2. Stride * (N * q + r) = (N * Stride) * q + Stride * r
    BY <1>2, <1>8
  <2> QED BY <1>1, <1>2, <1>8, <1>9, <2>1, <2>2
<1>11. Pow(g, order * q + (Stride * r + o)) = Pow(g, Stride * r + o)
  BY <1>1, <1>8, <1>9, PowPeriodic
<1>12. Pow(g, (Stride * r + o) % order) = Pow(g, Stride * r + o)
  BY <1>1, <1>9, PowReduced
<1>13. last(s, cycle) = At(s, Stride)
  BY <1>4, <1>5, <1>6, <1>10, <1>11, <1>12 DEF r
<1> QED BY <1>7, <1>13

(* An element belongs to one place of one subshard. *)
LEMMA Apart ==
  ASSUME OneCycle, cycle \in Cycles, NEW s \in Sub, NEW t \in Sub,
         NEW j \in 0 .. Stride - 1, NEW l \in 0 .. Stride - 1, At(s, j) = At(t, l)
  PROVE  s = t /\ j = l
<1>1. /\ Stride \in Nat \ {0} /\ order \in Nat \ {0} /\ num_subshards \in Nat \ {0}
      /\ num_subshards * Stride = order
  BY OrderType, IndexExact, StrideExact DEF OneCycle
<1>2. j \in Nat /\ l \in Nat
  BY <1>1
<1> DEFINE a == Index(s)
           b == Index(t)
           o == cycle[1].offset
           g == generator(s)
<1>3. /\ a \in 1 .. num_subshards /\ b \in 1 .. num_subshards /\ o \in Nat
      /\ s[2] = 1 /\ t[2] = 1 /\ g = generator(t) /\ Primitive(g)
      /\ Exponent(s, j) \in Nat /\ Exponent(t, l) \in Nat
  BY <1>2, SubshardType, OrderType DEF generator
<1>4. Exponent(s, j) = o + (Stride * a + j) /\ Exponent(t, l) = o + (Stride * b + l)
  BY <1>3 DEF Exponent
<1>5. Pow(g, Exponent(s, j)) = Pow(g, Exponent(t, l))
  BY <1>3 DEF At
<1> HIDE DEF a, b, o, g
<1>6. ASSUME NEW c \in 1 .. num_subshards, NEW k \in 0 .. Stride - 1
      PROVE  /\ Stride * c + k \in Nat /\ Stride <= Stride * c + k
             /\ Stride * c + k < Stride + order
  <2>1. c \in Nat /\ 1 <= c /\ c <= num_subshards /\ Stride \in Nat /\ 1 \in Nat /\ num_subshards \in Nat
    BY <1>1
  <2>2. c * Stride \in Nat /\ 1 * Stride <= c * Stride /\ c * Stride <= num_subshards * Stride
    BY <2>1, ProductMonotone
  <2>3. c * Stride = Stride * c /\ 1 * Stride = Stride
    BY <2>1
  <2> QED BY <1>1, <2>1, <2>2, <2>3
<1>7. Stride * a + j = Stride * b + l
  <2> DEFINE x == Stride * a + j
             y == Stride * b + l
  <2>1. /\ x \in Nat /\ y \in Nat /\ Stride <= x /\ Stride <= y
        /\ x < Stride + order /\ y < Stride + order
    BY <1>3, <1>6
  <2>2. Exponent(s, j) = o + x /\ Exponent(t, l) = o + y
    BY <1>4
  <2> HIDE DEF x, y
  <2>3. CASE x <= y
    <3>1. Exponent(s, j) <= Exponent(t, l) /\ Exponent(t, l) < Exponent(s, j) + order
      BY <1>1, <1>3, <2>1, <2>2, <2>3
    <3>2. Exponent(s, j) = Exponent(t, l)
      BY <1>3, <1>5, <3>1, PowInjective
    <3> QED BY <1>3, <2>1, <2>2, <3>2 DEF x, y
  <2>4. CASE ~(x <= y)
    <3>1. Exponent(t, l) <= Exponent(s, j) /\ Exponent(s, j) < Exponent(t, l) + order
      BY <1>1, <1>3, <2>1, <2>2, <2>4
    <3>2. Exponent(s, j) = Exponent(t, l)
      BY <1>3, <1>5, <3>1, PowInjective
    <3> QED BY <1>3, <2>1, <2>2, <3>2 DEF x, y
  <2> QED BY <2>3, <2>4
<1>8. a \in Nat /\ b \in Nat
  BY <1>3
<1>9. (Stride * a + j) \div Stride = a /\ (Stride * a + j) % Stride = j
  BY <1>1, <1>8, Remainder
<1>10. (Stride * b + l) \div Stride = b /\ (Stride * b + l) % Stride = l
  BY <1>1, <1>8, Remainder
<1>11. a = b /\ j = l
  BY <1>7, <1>9, <1>10
<1> QED BY <1>11, IndexExact DEF a, b

(* The end of a subshard is none of the elements behind its first. *)
LEMMA EndApart ==
  ASSUME OneCycle, cycle \in Cycles, NEW s \in Sub, NEW j \in 1 .. Stride - 1
  PROVE  At(s, j) # At(s, Stride)
<1>1. Stride \in Nat \ {0} /\ order \in Nat \ {0} /\ num_subshards \in Nat \ {0}
      /\ num_subshards * Stride = order
  BY OrderType, IndexExact, StrideExact DEF OneCycle
<1>2. Stride <= order
  <2>1. 1 \in Nat /\ num_subshards \in Nat /\ Stride \in Nat /\ 1 <= num_subshards
    BY <1>1
  <2>2. 1 * Stride <= num_subshards * Stride
    BY <2>1, ProductMonotone
  <2> QED BY <1>1, <2>2
<1>3. j \in Nat /\ Stride \in Nat
  BY <1>1
<1>4. /\ Primitive(generator(s)) /\ cycle[s[2]].offset \in Nat /\ Stride * Index(s) \in Nat
      /\ Exponent(s, j) \in Nat /\ Exponent(s, Stride) \in Nat
  BY <1>3, SubshardType, OrderType
<1>5. Exponent(s, j) < Exponent(s, Stride) /\ Exponent(s, Stride) < Exponent(s, j) + order
  BY <1>1, <1>2, <1>4 DEF Exponent
<1>6. Exponent(s, j) <= Exponent(s, Stride) /\ Exponent(s, j) # Exponent(s, Stride)
  BY <1>4, <1>5
<1> QED BY <1>4, <1>5, <1>6, PowInjective DEF At

(* Every element belongs to a place of a subshard. *)
LEMMA Everywhere ==
  ASSUME OneCycle, cycle \in Cycles, NEW x \in Element
  PROVE  \E s \in Sub, j \in 0 .. Stride - 1 : x = At(s, j)
<1>1. /\ Stride \in Nat \ {0} /\ order \in Nat \ {0} /\ num_subshards \in Nat \ {0}
      /\ num_subshards * Stride = order /\ num_subshards = Shards
      /\ Senders = 1 /\ Shards \in Nat \ {0}
  <2>1. Shards \in Nat \ {0} /\ Senders = 1
    BY ShardAssumption DEF OneCycle
  <2>2. num_subshards = Shards
    BY <2>1 DEF num_subshards
  <2> QED BY <2>1, <2>2, OrderType, IndexExact, StrideExact DEF OneCycle
<1> DEFINE g == cycle[1].generator
           o == cycle[1].offset
<1>2. g \in Generators /\ o \in 0 .. Prime - 1
  BY <1>1 DEF Cycles
<1>3. Primitive(g) /\ o \in 0 .. order
  BY <1>2, OrderType, GeneratorPrimitive DEF OneCycle
<1>4. PICK e \in 0 .. order - 1 : x = Pow(g, e)
  BY <1>3 DEF Primitive
<1>5. Stride <= order
  <2>1. 1 \in Nat /\ num_subshards \in Nat /\ Stride \in Nat /\ 1 <= num_subshards
    BY <1>1
  <2>2. 1 * Stride <= num_subshards * Stride
    BY <2>1, ProductMonotone
  <2> QED BY <1>1, <2>2
<1> HIDE DEF g, o
<1> DEFINE w == (e + 2 * order) - (o + Stride)
           d == w % order
           m == w \div order
<1>6. w \in Nat
  BY <1>1, <1>3, <1>5
<1>7. d \in 0 .. order - 1 /\ m \in Nat /\ w = order * m + d
  BY <1>1, <1>6, Division
<1>8. (o + Stride) + w = e + 2 * order
  BY <1>1, <1>3
<1> HIDE DEF w, d, m
<1> DEFINE i == d \div Stride
           j == d % Stride
<1>9. i \in Nat /\ j \in 0 .. Stride - 1 /\ d = Stride * i + j
  BY <1>1, <1>7, Division
<1> HIDE DEF i, j
<1>10. i < Shards
  <2>1. ASSUME Shards <= i PROVE FALSE
    <3>1. Shards \in Nat /\ Stride \in Nat
      BY <1>1
    <3>2. Shards * Stride <= i * Stride
      BY <1>9, <2>1, <3>1, ProductMonotone
    <3>3. i * Stride = Stride * i /\ i * Stride \in Nat
      BY <1>9, <3>1, ProductMonotone
    <3> QED BY <1>1, <1>7, <1>9, <3>2, <3>3
  <2> QED BY <1>1, <1>9, <2>1
<1> DEFINE s == <<i, 1>>
<1>11. s \in Sub /\ s[1] = i /\ s[2] = 1
  BY <1>1, <1>9, <1>10 DEF Sub, Instance
<1>12. Index(s) = i + 1 /\ generator(s) = g
  BY <1>1, <1>9, <1>11 DEF Index, sub_idx, generator, g
<1>13. Exponent(s, j) = o + (Stride * (i + 1) + j)
  BY <1>11, <1>12 DEF Exponent, o
<1> HIDE DEF s
<1>14. Stride * (i + 1) + j = Stride + d
  BY <1>1, <1>9
<1>15. Exponent(s, j) \in Nat /\ order * m + Exponent(s, j) = order * 2 + e
  <2>1. order * m \in Nat
    BY <1>1, <1>7, ProductMonotone
  <2> QED BY <1>1, <1>3, <1>7, <1>8, <1>13, <1>14, <2>1
<1>16. Pow(g, Exponent(s, j)) = Pow(g, order * m + Exponent(s, j))
  BY <1>3, <1>7, <1>15, PowPeriodic
<1>17. Pow(g, order * 2 + e) = Pow(g, e)
  BY <1>3, PowPeriodic
<1>18. x = At(s, j)
  BY <1>4, <1>12, <1>15, <1>16, <1>17 DEF At
<1> QED BY <1>9, <1>11, <1>18

(* xm_shard_get_next_ip passes over the elements of no address up to the    *)
(* next one of an address, or to the end of the subshard.                   *)
LEMMA NextAt ==
  ASSUME OneCycle, cycle \in Cycles, NEW s \in Sub, NEW j \in 0 .. Stride - 1,
         NEW n, n = xm_shard_get_next_ip(At(s, j), generator(s), last(s, cycle))
  PROVE  \E m \in j + 1 .. Stride :
           /\ \A l \in j + 1 .. m - 1 : At(s, l) \notin 1 .. MaxIndex
           /\ \/ m = Stride /\ n = XM_SHARD_DONE
              \/ m < Stride /\ n = At(s, m) /\ n \in 1 .. MaxIndex
<1> DEFINE e == last(s, cycle)
           Elem(k) == (At(s, j) * Pow(generator(s), k)) % Prime
           Stops(k) == Elem(k) < Limit /\ (Elem(k) = e \/ Selects(Elem(k)))
           c == CHOOSE k \in 1 .. order : Stops(k) /\ \A l \in 1 .. k - 1 : ~Stops(l)
<1>1. /\ Stride \in Nat \ {0} /\ order \in Nat \ {0} /\ j \in Nat /\ Stride - j \in Nat
      /\ Stride <= order
  <2>1. Stride \in Nat \ {0} /\ num_subshards * Stride = order /\ num_subshards \in Nat \ {0}
    BY IndexExact, StrideExact DEF OneCycle
  <2>2. 1 \in Nat /\ num_subshards \in Nat /\ Stride \in Nat /\ 1 <= num_subshards
    BY <2>1
  <2>3. 1 * Stride <= num_subshards * Stride
    BY <2>2, ProductMonotone
  <2> QED BY <2>1, <2>3, OrderType
<1>2. e = At(s, Stride)
  BY FirstLast
<1>3. \A k \in Nat : At(s, j + k) \in Element
  BY <1>1, AtElement
<1>4. ASSUME NEW k \in Nat PROVE Elem(k) = At(s, j + k)
  <2>1. Exponent(s, j) \in Nat /\ Exponent(s, j + k) = Exponent(s, j) + k /\ generator(s) \in Nat
    <3>1. /\ generator(s) \in Nat /\ Exponent(s, j) \in Nat
          /\ cycle[s[2]].offset \in Nat /\ Stride * Index(s) \in Nat
      BY <1>1, SubshardType, OrderType
    <3> QED BY <1>1, <3>1 DEF Exponent
  <2>2. Pow(generator(s), Exponent(s, j) + k)
          = (Pow(generator(s), Exponent(s, j)) * Pow(generator(s), k)) % Prime
    BY <2>1, PowSum
  <2> QED BY <2>1, <2>2 DEF At
<1>5. n = IF Elem(c) = e THEN XM_SHARD_DONE ELSE Elem(c)
  <2>1. At(s, j) # XM_SHARD_DONE
    <3>1. At(s, j) \in Element
      BY <1>1, AtElement
    <3> QED BY <3>1 DEF Element, XM_SHARD_DONE
  <2> QED BY <2>1 DEF xm_shard_get_next_ip
<1> HIDE DEF e, Elem
<1>6. ASSUME NEW k \in Nat
      PROVE  Stops(k) <=> At(s, j + k) = At(s, Stride) \/ At(s, j + k) \in 1 .. MaxIndex
  <2> DEFINE x == At(s, j + k)
  <2>1. x \in Element
    BY <1>3
  <2>2. Prime <= Limit /\ Prime \in Nat /\ Limit \in Nat /\ MaxIndex \in Nat
    BY GroupAssumption, ShardAssumption DEF OneCycle
  <2> HIDE DEF x
  <2>3. x \in 1 .. Prime - 1
    BY <2>1 DEF Element
  <2>4. x < Limit /\ (Selects(x) <=> x \in 1 .. MaxIndex)
    BY <2>2, <2>3 DEF Selects
  <2> QED BY <1>2, <1>4, <2>4 DEF x
<1> HIDE DEF Stops
<1>7. Stops(Stride - j) /\ Stride - j \in 1 .. order
  <2>1. j + (Stride - j) = Stride /\ Stride - j \in Nat /\ Stride - j \in 1 .. order
    BY <1>1
  <2> QED BY <1>6, <2>1
<1>8. \E k \in 1 .. order : Stops(k) /\ \A l \in 1 .. k - 1 : ~Stops(l)
  <2> DEFINE S == {k \in 1 .. order : Stops(k)}
  <2>1. S \subseteq Nat /\ S # {}
    BY <1>7
  <2> HIDE DEF S
  <2>2. PICK k \in S : \A l \in S : k <= l
    BY <2>1, SmallestOf
  <2>3. k \in 1 .. order /\ Stops(k)
    BY <2>2 DEF S
  <2>4. ASSUME NEW l \in 1 .. k - 1, Stops(l) PROVE FALSE
    <3>1. l \in 1 .. order /\ ~(k <= l)
      BY <1>1, <2>3
    <3>2. l \in S
      BY <2>4, <3>1 DEF S
    <3> QED BY <2>2, <3>1, <3>2
  <2> QED BY <2>3, <2>4
<1>9. c \in 1 .. order /\ Stops(c) /\ \A l \in 1 .. c - 1 : ~Stops(l)
  BY <1>8
<1> HIDE DEF c
<1>10. c <= Stride - j
  <2>1. ASSUME Stride - j < c PROVE FALSE
    <3>1. Stride - j \in 1 .. c - 1
      BY <1>1, <1>7, <1>9, <2>1
    <3> QED BY <1>7, <1>9, <3>1
  <2> QED BY <1>1, <1>9, <2>1
<1> DEFINE m == j + c
<1>11. m \in j + 1 .. Stride /\ m \in Nat /\ c \in Nat
  BY <1>1, <1>9, <1>10
<1>12. \A l \in j + 1 .. m - 1 : At(s, l) \notin 1 .. MaxIndex
  <2> SUFFICES ASSUME NEW l \in j + 1 .. m - 1 PROVE At(s, l) \notin 1 .. MaxIndex
    OBVIOUS
  <2>1. l - j \in 1 .. c - 1 /\ l - j \in Nat /\ j + (l - j) = l
    BY <1>1, <1>9
  <2>2. ~Stops(l - j)
    BY <1>9, <2>1
  <2> QED BY <1>6, <2>1, <2>2
<1>13. n = IF At(s, m) = At(s, Stride) THEN XM_SHARD_DONE ELSE At(s, m)
  BY <1>2, <1>4, <1>5, <1>11
<1>14. At(s, m) = At(s, Stride) \/ At(s, m) \in 1 .. MaxIndex
  BY <1>6, <1>9, <1>11
<1> HIDE DEF m
<1>15. CASE m = Stride
  BY <1>11, <1>12, <1>13, <1>15
<1>16. CASE m # Stride
  <2>1. m \in 1 .. Stride - 1 /\ m < Stride
    BY <1>1, <1>11, <1>16
  <2>2. At(s, m) # At(s, Stride)
    BY <2>1, EndApart
  <2> QED BY <1>11, <1>12, <1>13, <1>14, <2>1, <2>2
<1> QED BY <1>15, <1>16
-----------------------------------------------------------------------------
(* The walks of the tasks.                                                  *)

(* Task s is at place j of its subshard, or at its end. *)
AtPlace(s, j) ==
  \/ j \in 0 .. Stride - 1 /\ current[s] = At(s, j) /\ current[s] \in 1 .. MaxIndex
  \/ j = Stride /\ current[s] = XM_SHARD_DONE

(* A task at place p goes to the address of its place; the addresses before *)
(* it have been probed, once, if they are wanted, and those from it on have *)
(* not.  Its counters have grown no faster than its place.                  *)
Walked(s, p) ==
  /\ AtPlace(s, p)
  /\ spc[s] # "start" => IF p < Stride THEN ip[s] = current[s] - 1
                                      ELSE ip[s] \in {Stray, NoAddress}
  /\ \A j \in 0 .. Stride - 1 : At(s, j) \in 1 .. MaxIndex =>
       IF p <= j THEN probed[At(s, j) - 1] = 0
       ELSE /\ probed[At(s, j) - 1] <= 1
            /\ At(s, j) - 1 \in Wanted => probed[At(s, j) - 1] = 1
  /\ \A f \in Nat : Fresh \subseteq 0 .. f /\ p < Stride =>
       sent[s] <= f + p /\ tried_sent[s] <= f + p

WalkKept ==
  /\ cycle \in Cycles
  /\ current \in [Sub -> 0 .. MaxIndex]
  /\ \A s \in Sub : spc[s] = "seek" => HasList
  /\ \E pos \in [Sub -> 0 .. Stride] : \A s \in Sub : Walked(s, pos[s])

(* Every task begins at the first address of its subshard, or at its end. *)
LEMMA WalkInit ==
  ASSUME OneCycle
  PROVE  SendInit => WalkKept
<1> SUFFICES ASSUME SendInit PROVE WalkKept
  OBVIOUS
<1>1. cycle \in Cycles
  BY DEF SendInit, Cycles
<1>2. Stride \in Nat \ {0} /\ MaxIndex \in Nat
  BY StrideExact, ShardAssumption, GroupAssumption DEF OneCycle
<1>3. ASSUME NEW s \in Sub
      PROVE  \E p \in 0 .. Stride : AtPlace(s, p) /\ \A l \in 0 .. p - 1 : At(s, l) \notin 1 .. MaxIndex
  <2> DEFINE n == xm_shard_get_next_ip(At(s, 0), generator(s), last(s, cycle))
  <2>1. current[s] = IF Selects(At(s, 0)) THEN At(s, 0) ELSE n
    BY <1>1, FirstLast DEF SendInit, shard_roll_to_valid, generator
  <2>2. At(s, 0) \in Nat /\ (Selects(At(s, 0)) <=> At(s, 0) \in 1 .. MaxIndex)
    <3>1. At(s, 0) \in 1 .. Prime - 1
      BY <1>1, AtElement DEF Element
    <3> QED BY <1>2, <3>1 DEF Selects
  <2>3. 0 \in 0 .. Stride - 1
    BY <1>2
  <2> HIDE DEF n
  <2>4. CASE Selects(At(s, 0))
    <3>1. AtPlace(s, 0)
      BY <2>1, <2>2, <2>3, <2>4 DEF AtPlace
    <3> QED BY <1>2, <3>1
  <2>5. CASE ~Selects(At(s, 0))
    <3>1. PICK m \in 0 + 1 .. Stride :
            /\ \A l \in 0 + 1 .. m - 1 : At(s, l) \notin 1 .. MaxIndex
            /\ \/ m = Stride /\ n = XM_SHARD_DONE
               \/ m < Stride /\ n = At(s, m) /\ n \in 1 .. MaxIndex
      BY <1>1, <2>3, NextAt DEF n
    <3>2. m \in 0 .. Stride /\ AtPlace(s, m)
      BY <1>2, <2>1, <2>5, <3>1 DEF AtPlace
    <3>3. \A l \in 0 .. m - 1 : l = 0 \/ l \in 0 + 1 .. m - 1
      BY <1>2
    <3> QED BY <2>2, <2>5, <3>1, <3>2, <3>3
  <2> QED BY <2>4, <2>5
<1> DEFINE First(s, p) == AtPlace(s, p) /\ \A l \in 0 .. p - 1 : At(s, l) \notin 1 .. MaxIndex
           pos == [s \in Sub |-> CHOOSE p \in 0 .. Stride : First(s, p)]
<1>4. \A s \in Sub : pos[s] \in 0 .. Stride /\ First(s, pos[s])
  BY <1>3
<1>5. pos \in [Sub -> 0 .. Stride]
  BY <1>4
<1> HIDE DEF pos
<1>6. ASSUME NEW s \in Sub PROVE Walked(s, pos[s])
  <2>1. AtPlace(s, pos[s]) /\ \A l \in 0 .. pos[s] - 1 : At(s, l) \notin 1 .. MaxIndex
    BY <1>4
  <2>2. spc[s] = "start"
    BY DEF SendInit
  <2>3. ASSUME NEW j \in 0 .. Stride - 1, At(s, j) \in 1 .. MaxIndex
        PROVE  pos[s] <= j /\ probed[At(s, j) - 1] = 0
    <3>1. ~(j \in 0 .. pos[s] - 1)
      BY <2>1, <2>3
    <3>2. At(s, j) - 1 \in Address
      BY <1>2, <2>3 DEF Address
    <3>3. pos[s] <= j
      BY <1>2, <1>4, <3>1
    <3> QED BY <3>2, <3>3 DEF SendInit
  <2>4. ASSUME NEW f \in Nat, Fresh \subseteq 0 .. f
        PROVE  sent[s] <= f + pos[s] /\ tried_sent[s] <= f + pos[s]
    <3>1. sent[s] \in 0 .. f /\ tried_sent[s] \in 0 .. f
      BY <2>4 DEF SendInit
    <3> QED BY <1>2, <1>4, <3>1
  <2> QED BY <2>1, <2>2, <2>3, <2>4 DEF Walked
<1>7. current \in [Sub -> 0 .. MaxIndex]
  <2>1. ASSUME NEW s \in Sub PROVE current[s] \in 0 .. MaxIndex
    <3>1. AtPlace(s, pos[s])
      BY <1>4
    <3> QED BY <1>2, <3>1 DEF AtPlace, XM_SHARD_DONE
  <2> QED BY <2>1 DEF SendInit
<1>8. \A s \in Sub : spc[s] # "seek"
  BY DEF SendInit
<1> QED BY <1>1, <1>5, <1>6, <1>7, <1>8 DEF WalkKept

(* A step of a task along its subshard. *)
LEMMA WalkAt ==
  ASSUME OneCycle, cycle \in Cycles, SendTypes, current \in [Sub -> 0 .. MaxIndex],
         NEW s \in Sub, NEW p, p \in 0 .. Stride, AtPlace(s, p), Walk(s), cycle' = cycle
  PROVE  \E m \in 0 .. Stride :
           /\ p < m \/ (p = Stride /\ m = Stride)
           /\ \A l \in p + 1 .. m - 1 : At(s, l) \notin 1 .. MaxIndex
           /\ AtPlace(s, m)'
           /\ (m < Stride => ip'[s] = current'[s] - 1) /\ (m = Stride => ip'[s] = NoAddress)
           /\ current' \in [Sub -> 0 .. MaxIndex]
           /\ \A t \in Sub : t # s => current'[t] = current[t] /\ ip'[t] = ip[t]
           /\ NextElem(s) = XM_SHARD_DONE <=> m = Stride
<1> DEFINE n == NextElem(s)
<1>1. Stride \in Nat \ {0} /\ MaxIndex \in Nat
  BY StrideExact, ShardAssumption, GroupAssumption DEF OneCycle
<1>2. \A j : At(s, j)' = At(s, j)
  BY DEF At, Exponent, generator
<1>3. /\ n \in 0 .. MaxIndex =>
           current'[s] = n /\ current' \in [Sub -> 0 .. MaxIndex]
      /\ \A t \in Sub : t # s => current'[t] = current[t]
  BY DEF Walk
<1>4. /\ ip'[s] = (IF n = XM_SHARD_DONE THEN NoAddress ELSE Target(n))
      /\ \A t \in Sub : t # s => ip'[t] = ip[t]
  BY DEF Walk, SendTypes
<1>5. n \in 1 .. MaxIndex => Target(n) = n - 1 /\ n # XM_SHARD_DONE
  BY DEF Target, XM_SHARD_DONE
<1>6. XM_SHARD_DONE = 0 /\ 0 \notin 1 .. MaxIndex
  BY DEF XM_SHARD_DONE
<1>7. CASE p = Stride
  <2>1. current[s] = XM_SHARD_DONE
    BY <1>1, <1>7 DEF AtPlace
  <2>2. n = XM_SHARD_DONE
    BY <2>1 DEF NextElem, xm_shard_get_next_ip
  <2>3. current'[s] = XM_SHARD_DONE /\ ip'[s] = NoAddress /\ current' \in [Sub -> 0 .. MaxIndex]
    BY <1>1, <1>3, <1>4, <1>6, <2>2
  <2>4. AtPlace(s, Stride)'
    BY <2>3 DEF AtPlace
  <2>5. Stride \in 0 .. Stride /\ ~(Stride < Stride) /\ \A l \in p + 1 .. Stride - 1 : FALSE
    BY <1>1, <1>7
  <2> QED BY <1>3, <1>4, <1>7, <2>2, <2>3, <2>4, <2>5
<1>8. CASE p # Stride
  <2>1. p \in 0 .. Stride - 1 /\ current[s] = At(s, p)
    BY <1>1, <1>8 DEF AtPlace
  <2>2. n = xm_shard_get_next_ip(At(s, p), generator(s), last(s, cycle))
    BY <2>1 DEF NextElem
  <2> HIDE DEF n
  <2>3. PICK m \in p + 1 .. Stride :
           /\ \A l \in p + 1 .. m - 1 : At(s, l) \notin 1 .. MaxIndex
           /\ \/ m = Stride /\ n = XM_SHARD_DONE
              \/ m < Stride /\ n = At(s, m) /\ n \in 1 .. MaxIndex
    BY <2>1, <2>2, NextAt
  <2>4. m \in 0 .. Stride /\ p < m
    BY <1>1, <2>1
  <2>5. n \in 0 .. MaxIndex
    BY <1>1, <1>6, <2>3
  <2>6. current'[s] = n /\ current' \in [Sub -> 0 .. MaxIndex]
    BY <1>3, <2>5
  <2>7. (m < Stride => n \in 1 .. MaxIndex /\ n = At(s, m)) /\ (m = Stride => n = XM_SHARD_DONE)
    BY <1>1, <2>3
  <2>8. AtPlace(s, m)'
    <3>1. CASE m = Stride
      BY <2>6, <2>7, <3>1 DEF AtPlace
    <3>2. CASE m # Stride
      <4>1. m \in 0 .. Stride - 1 /\ m < Stride
        BY <1>1, <2>4, <3>2
      <4>2. current'[s] = At(s, m)' /\ current'[s] \in 1 .. MaxIndex
        BY <1>2, <2>6, <2>7, <4>1
      <4> QED BY <4>1, <4>2 DEF AtPlace
    <3> QED BY <3>1, <3>2
  <2>9. n = XM_SHARD_DONE <=> m = Stride
    BY <1>1, <1>6, <2>4, <2>7
  <2>10. (m < Stride => ip'[s] = current'[s] - 1) /\ (m = Stride => ip'[s] = NoAddress)
    BY <1>4, <1>5, <2>6, <2>7
  <2> QED BY <1>3, <1>4, <2>3, <2>4, <2>6, <2>8, <2>9, <2>10 DEF n
<1> QED BY <1>7, <1>8

(* A task that stays where it is, and whose addresses nobody probes. *)
LEMMA Unmoved ==
  ASSUME NEW t \in Sub, NEW p, Walked(t, p), cycle' = cycle,
         current'[t] = current[t], ip'[t] = ip[t], spc[t] = "start" => spc'[t] = "start",
         sent'[t] = sent[t], tried_sent'[t] = tried_sent[t],
         \A j \in 0 .. Stride - 1 : At(t, j) \in 1 .. MaxIndex =>
           probed'[At(t, j) - 1] = probed[At(t, j) - 1]
  PROVE  Walked(t, p)'
<1>1. \A j : At(t, j)' = At(t, j)
  BY DEF At, Exponent, generator
<1>2. AtPlace(t, p)'
  BY <1>1 DEF Walked, AtPlace
<1>3. spc'[t] # "start" => IF p < Stride THEN ip'[t] = current'[t] - 1
                                        ELSE ip'[t] \in {Stray, NoAddress}
  BY DEF Walked
<1>4. ASSUME NEW j \in 0 .. Stride - 1, At(t, j)' \in 1 .. MaxIndex
      PROVE  IF p <= j THEN probed'[At(t, j)' - 1] = 0
             ELSE /\ probed'[At(t, j)' - 1] <= 1
                  /\ At(t, j)' - 1 \in Wanted => probed'[At(t, j)' - 1] = 1
  <2>1. At(t, j) \in 1 .. MaxIndex /\ probed'[At(t, j)' - 1] = probed[At(t, j) - 1]
    BY <1>1, <1>4
  <2> QED BY <1>1, <2>1 DEF Walked
<1>5. \A f \in Nat : Fresh \subseteq 0 .. f /\ p < Stride =>
        sent'[t] <= f + p /\ tried_sent'[t] <= f + p
  BY DEF Walked
<1> QED BY <1>2, <1>3, <1>4, <1>5 DEF Walked

(* An address belongs to one place. *)
LEMMA AddressApart ==
  ASSUME OneCycle, cycle \in Cycles, NEW s \in Sub, NEW t \in Sub,
         NEW j \in 0 .. Stride - 1, NEW l \in 0 .. Stride - 1,
         At(s, j) \in 1 .. MaxIndex, At(t, l) \in 1 .. MaxIndex, At(s, j) - 1 = At(t, l) - 1
  PROVE  s = t /\ j = l
<1>1. At(s, j) = At(t, l)
  BY ShardAssumption, GroupAssumption
<1> QED BY <1>1, Apart

(* A task that moves on from place p to place m. *)
LEMMA Moved ==
  ASSUME OneCycle, cycle \in Cycles, cycle' = cycle, SendTypes, NEW s \in Sub,
         NEW p, p \in 0 .. Stride, NEW m, m \in 0 .. Stride, Walked(s, p),
         p < m \/ (p = Stride /\ m = Stride),
         \A l \in p + 1 .. m - 1 : At(s, l) \notin 1 .. MaxIndex,
         AtPlace(s, m)',
         m < Stride => ip'[s] = current'[s] - 1, m = Stride => ip'[s] = NoAddress,
         sent'[s] <= sent[s] + 1, tried_sent'[s] <= tried_sent[s] + 1,
         sent'[s] \in Nat, tried_sent'[s] \in Nat,
         \A j \in 0 .. Stride - 1 : At(s, j) \in 1 .. MaxIndex /\ j # p =>
           probed'[At(s, j) - 1] = probed[At(s, j) - 1],
         p < Stride => /\ probed'[At(s, p) - 1] <= 1
                       /\ At(s, p) - 1 \in Wanted => probed'[At(s, p) - 1] = 1
  PROVE  Walked(s, m)'
<1>1. Stride \in Nat \ {0} /\ p \in Nat /\ m \in Nat
  BY StrideExact DEF OneCycle
<1>2. \A j : At(s, j)' = At(s, j)
  BY DEF At, Exponent, generator
<1>3. spc'[s] # "start" => IF m < Stride THEN ip'[s] = current'[s] - 1
                                        ELSE ip'[s] \in {Stray, NoAddress}
  BY <1>1
<1>4. ASSUME NEW j \in 0 .. Stride - 1, At(s, j)' \in 1 .. MaxIndex
      PROVE  IF m <= j THEN probed'[At(s, j)' - 1] = 0
             ELSE /\ probed'[At(s, j)' - 1] <= 1
                  /\ At(s, j)' - 1 \in Wanted => probed'[At(s, j)' - 1] = 1
  <2>1. At(s, j) \in 1 .. MaxIndex /\ At(s, j)' = At(s, j) /\ j \in Nat /\ j < Stride
    BY <1>1, <1>2, <1>4
  <2>2. CASE j = p
    <3>1. p < Stride /\ ~(m <= j)
      BY <1>1, <2>1, <2>2
    <3> QED BY <2>1, <2>2, <3>1
  <2>3. CASE j # p
    <3>1. probed'[At(s, j) - 1] = probed[At(s, j) - 1]
      BY <2>1, <2>3
    <3>2. IF p <= j THEN probed[At(s, j) - 1] = 0
          ELSE /\ probed[At(s, j) - 1] <= 1
               /\ At(s, j) - 1 \in Wanted => probed[At(s, j) - 1] = 1
      BY <2>1 DEF Walked
    <3>3. j \notin p + 1 .. m - 1
      BY <2>1
    <3>4. p <= j <=> m <= j
      BY <1>1, <2>1, <2>3, <3>3
    <3> QED BY <2>1, <3>1, <3>2, <3>4
  <2> QED BY <2>2, <2>3
<1>5. ASSUME NEW f \in Nat, Fresh \subseteq 0 .. f, m < Stride
      PROVE  sent'[s] <= f + m /\ tried_sent'[s] <= f + m
  <2>1. p < m /\ p < Stride
    BY <1>1, <1>5
  <2>2. sent[s] <= f + p /\ tried_sent[s] <= f + p /\ sent[s] \in Nat /\ tried_sent[s] \in Nat
    BY <1>5, <2>1 DEF Walked, SendTypes
  <2> QED BY <1>1, <2>1, <2>2
<1> QED BY <1>3, <1>4, <1>5 DEF Walked

(* A step of any task keeps all walks: what it probes is at its own place,  *)
(* and no other.                                                            *)
LEMMA WalkStep ==
  ASSUME OneCycle, SendTypes, WalkKept, NEW s \in Sub, SendStep(s)
  PROVE  WalkKept'
<1>1. PICK pos \in [Sub -> 0 .. Stride] : \A t \in Sub : Walked(t, pos[t])
  BY DEF WalkKept
<1>2. cycle \in Cycles /\ current \in [Sub -> 0 .. MaxIndex] /\ cycle' = cycle
  BY DEF WalkKept, SendStep, Start, OnList, NotOnList, Finish, Continue, Send
<1>3. Stride \in Nat \ {0} /\ MaxIndex \in Nat
  BY StrideExact, ShardAssumption, GroupAssumption DEF OneCycle
<1>4. spc \in [Sub -> States] /\ ip \in [Sub -> Addresses \cup {NoAddress}]
      /\ sent \in [Sub -> Nat] /\ tried_sent \in [Sub -> Nat] /\ probed \in [Addresses -> Nat]
  BY DEF SendTypes
<1>5. \A t \in Sub, j \in 0 .. Stride - 1 : At(t, j) \in 1 .. MaxIndex =>
        At(t, j) - 1 \in Addresses /\ At(t, j) - 1 \notin {Stray, NoAddress}
  BY <1>3 DEF Addresses, Address, Stray, NoAddress
<1> DEFINE p == pos[s]
<1>6. p \in 0 .. Stride /\ Walked(s, p) /\ AtPlace(s, p)
  BY <1>1 DEF Walked
<1>7. p < Stride => p \in 0 .. Stride - 1 /\ current[s] = At(s, p) /\ At(s, p) \in 1 .. MaxIndex
  BY <1>3, <1>6 DEF AtPlace
<1>8. ~(p < Stride) => p = Stride /\ current[s] = XM_SHARD_DONE
  BY <1>3, <1>6 DEF AtPlace
<1>9. ASSUME NEW m \in 0 .. Stride, Walked(s, m)',
             \A t \in Sub : t # s => Walked(t, pos[t])',
             current' \in [Sub -> 0 .. MaxIndex], \A t \in Sub : spc'[t] = "seek" => HasList
      PROVE  WalkKept'
  <2> DEFINE pos2 == [pos EXCEPT ![s] = m]
  <2>1. pos2 \in [Sub -> 0 .. Stride]
    BY <1>1
  <2>2. \A t \in Sub : pos2[t] = IF t = s THEN m ELSE pos[t]
    BY <1>1
  <2> HIDE DEF pos2
  <2>3. \A t \in Sub : Walked(t, pos2[t])'
    BY <1>9, <2>2
  <2>4. cycle' \in Cycles
    BY <1>2
  <2> QED BY <1>9, <2>1, <2>3, <2>4 DEF WalkKept
<1>10. ASSUME UNCHANGED <<current, sent, tried_sent, probed>>, spc[s] # "start", ip' = ip,
              \A t \in Sub : t # s => spc'[t] = spc[t], spc'[s] = "seek" => HasList
       PROVE  WalkKept'
  <2>1. \A t \in Sub : Walked(t, pos[t])'
    BY <1>1, <1>2, <1>10, Unmoved
  <2> QED BY <1>2, <1>6, <1>9, <1>10, <2>1 DEF WalkKept
<1>11. CASE Start(s)
  <2>1. /\ UNCHANGED <<current, sent, tried_sent, probed>> /\ ip'[s] = Target(current[s])
        /\ \A t \in Sub : t # s => ip'[t] = ip[t] /\ spc'[t] = spc[t]
    BY <1>11 DEF Start, SendTypes
  <2>2. spc'[s] = "seek" => HasList
    BY <1>4, <1>11 DEF Start, Destination
  <2>3. \A t \in Sub : t # s => Walked(t, pos[t])'
    BY <1>1, <1>2, <2>1, Unmoved
  <2>4. Walked(s, p)'
    <3>1. \A j : At(s, j)' = At(s, j)
      BY <1>2 DEF At, Exponent, generator
    <3>2. AtPlace(s, p)'
      BY <1>6, <2>1, <3>1 DEF AtPlace
    <3>3. IF p < Stride THEN ip'[s] = current'[s] - 1 ELSE ip'[s] \in {Stray, NoAddress}
      BY <1>7, <1>8, <2>1 DEF Target, XM_SHARD_DONE
    <3> QED BY <1>6, <2>1, <3>1, <3>2, <3>3 DEF Walked
  <2> QED BY <1>2, <1>6, <1>9, <2>1, <2>2, <2>3, <2>4 DEF WalkKept
<1>12. CASE OnList(s)
  BY <1>4, <1>10, <1>12 DEF OnList
<1>13. CASE Finish(s)
  BY <1>4, <1>10, <1>13 DEF Finish
<1>14. CASE Continue(s)
  BY <1>4, <1>10, <1>14 DEF Continue
<1>15. ASSUME Walk(s), \A t \in Sub : t # s => spc'[t] = spc[t] /\ sent'[t] = sent[t]
                                               /\ tried_sent'[t] = tried_sent[t],
              spc'[s] = "seek" => HasList,
              sent'[s] <= sent[s] + 1, tried_sent'[s] <= tried_sent[s] + 1,
              sent'[s] \in Nat, tried_sent'[s] \in Nat,
              \A t \in Sub, j \in 0 .. Stride - 1 :
                At(t, j) \in 1 .. MaxIndex /\ ~(t = s /\ j = p) =>
                  probed'[At(t, j) - 1] = probed[At(t, j) - 1],
              p < Stride => /\ probed'[At(s, p) - 1] <= 1
                            /\ At(s, p) - 1 \in Wanted => probed'[At(s, p) - 1] = 1
       PROVE  WalkKept'
  <2> HIDE DEF p
  <2>1. PICK m \in 0 .. Stride :
           /\ p < m \/ (p = Stride /\ m = Stride)
           /\ \A l \in p + 1 .. m - 1 : At(s, l) \notin 1 .. MaxIndex
           /\ AtPlace(s, m)'
           /\ (m < Stride => ip'[s] = current'[s] - 1) /\ (m = Stride => ip'[s] = NoAddress)
           /\ current' \in [Sub -> 0 .. MaxIndex]
           /\ \A t \in Sub : t # s => current'[t] = current[t] /\ ip'[t] = ip[t]
           /\ NextElem(s) = XM_SHARD_DONE <=> m = Stride
    BY <1>2, <1>6, <1>15, WalkAt
  <2>2. Walked(s, m)'
    BY <1>2, <1>6, <1>15, <2>1, Moved
  <2>3. \A t \in Sub : t # s => Walked(t, pos[t])'
    BY <1>1, <1>2, <1>15, <2>1, Unmoved
  <2>4. \A t \in Sub : spc'[t] = "seek" => HasList
    BY <1>15 DEF WalkKept
  <2> QED BY <1>9, <2>1, <2>2, <2>3, <2>4
<1>16. CASE NotOnList(s)
  <2>1. /\ Walk(s) /\ probed' = probed /\ sent' = sent /\ spc[s] = "seek" /\ ip[s] \notin Listed
        /\ tried_sent'[s] = tried_sent[s] + 1
        /\ \A t \in Sub : t # s => spc'[t] = spc[t] /\ tried_sent'[t] = tried_sent[t]
    BY <1>4, <1>16 DEF NotOnList
  <2>2. HasList /\ sent[s] \in Nat /\ tried_sent[s] \in Nat
    BY <1>4, <2>1 DEF WalkKept
  <2>3. ASSUME p < Stride
        PROVE  probed[At(s, p) - 1] = 0 /\ At(s, p) - 1 \notin Wanted
    <3>1. ip[s] = At(s, p) - 1
      BY <1>6, <1>7, <2>1, <2>3 DEF Walked
    <3>2. probed[At(s, p) - 1] = 0
      BY <1>6, <1>7, <2>3 DEF Walked
    <3> QED BY <2>1, <2>2, <3>1, <3>2 DEF Wanted
  <2> QED BY <1>15, <2>1, <2>2, <2>3
<1>17. CASE Send(s)
  <2>1. /\ Walk(s) /\ probed' = [probed EXCEPT ![ip[s]] = @ + 1] /\ spc[s] = "send"
        /\ sent'[s] = sent[s] + 1 /\ tried_sent'[s] = tried_sent[s] + 1
        /\ \A t \in Sub : t # s => spc'[t] = spc[t] /\ sent'[t] = sent[t]
                                   /\ tried_sent'[t] = tried_sent[t]
    BY <1>4, <1>17 DEF Send
  <2>2. sent[s] \in Nat /\ tried_sent[s] \in Nat /\ ip[s] \in Addresses
    BY <1>4, <2>1 DEF SendTypes
  <2>3. spc'[s] = "seek" => HasList
    BY <1>4, <1>17 DEF Send, Destination
  <2>4. /\ p < Stride => ip[s] = At(s, p) - 1 /\ probed[At(s, p) - 1] = 0
        /\ ~(p < Stride) => ip[s] \in {Stray, NoAddress}
    BY <1>6, <1>7, <2>1 DEF Walked
  <2>5. ASSUME NEW t \in Sub, NEW j \in 0 .. Stride - 1, At(t, j) \in 1 .. MaxIndex,
               ~(t = s /\ j = p)
        PROVE  probed'[At(t, j) - 1] = probed[At(t, j) - 1]
    <3>1. At(t, j) - 1 # ip[s]
      <4>1. CASE p < Stride
        BY <1>2, <1>7, <2>4, <2>5, <4>1, AddressApart
      <4>2. CASE ~(p < Stride)
        BY <1>5, <2>4, <2>5, <4>2
      <4> QED BY <4>1, <4>2
    <3> QED BY <1>4, <2>1, <3>1
  <2>6. p < Stride => probed'[At(s, p) - 1] = 1
    BY <1>4, <2>1, <2>2, <2>4
  <2> QED BY <1>15, <2>1, <2>2, <2>3, <2>5, <2>6
<1> QED BY <1>11, <1>12, <1>13, <1>14, <1>16, <1>17 DEF SendStep

(* The invariant of the walks. *)
LEMMA WalkInvariance ==
  ASSUME OneCycle
  PROVE  Spec => [](SendTypes /\ WalkKept)
<1>1. SendInit => SendTypes /\ WalkKept
  BY SendTypesInit, WalkInit
<1>2. SendTypes /\ WalkKept /\ [SendNext \/ Done]_sendVars => (SendTypes /\ WalkKept)'
  <2> SUFFICES ASSUME SendTypes, WalkKept, [SendNext \/ Done]_sendVars
               PROVE  SendTypes' /\ WalkKept'
    OBVIOUS
  <2>1. CASE SendNext
    BY <2>1, SendTypesStep, WalkStep DEF SendNext
  <2>2. CASE UNCHANGED sendVars
    <3>1. SendTypes'
      BY <2>2 DEF sendVars, taskVars, SendTypes
    <3>2. PICK pos \in [Sub -> 0 .. Stride] : \A t \in Sub : Walked(t, pos[t])
      BY DEF WalkKept
    <3>3. \A t \in Sub : Walked(t, pos[t])'
      BY <2>2, <3>2, Unmoved DEF sendVars, taskVars
    <3> QED BY <2>2, <3>1, <3>3 DEF sendVars, taskVars, WalkKept
  <2> QED BY <2>1, <2>2 DEF Done
<1> QED BY <1>1, <1>2, PTL DEF Spec

(* Where all elements have a place, so have all addresses. *)
LEMMA AddressPlace ==
  ASSUME OneCycle, cycle \in Cycles, NEW a \in Address
  PROVE  \E s \in Sub, j \in 0 .. Stride - 1 : At(s, j) = a + 1 /\ At(s, j) \in 1 .. MaxIndex
<1>1. a + 1 \in Element /\ a + 1 \in 1 .. MaxIndex
  BY ShardAssumption, GroupAssumption DEF Address, Element
<1>2. PICK s \in Sub, j \in 0 .. Stride - 1 : a + 1 = At(s, j)
  BY <1>1, Everywhere
<1> QED BY <1>1, <1>2

(* No host is probed twice, by whatever task of whatever instance of the    *)
(* scan and however the tasks interleave, for any size of the group, any    *)
(* whitelist and any number of instances.                                   *)
THEOREM OnlyOnceAlways ==
  ASSUME OneCycle
  PROVE  Spec => []OnlyOnce
<1>1. WalkKept => OnlyOnce
  <2> SUFFICES ASSUME WalkKept, NEW a \in Address PROVE probed[a] <= 1
    BY DEF OnlyOnce
  <2>1. PICK pos \in [Sub -> 0 .. Stride] : \A t \in Sub : Walked(t, pos[t])
    BY DEF WalkKept
  <2>2. PICK s \in Sub, j \in 0 .. Stride - 1 : At(s, j) = a + 1 /\ At(s, j) \in 1 .. MaxIndex
    BY AddressPlace DEF WalkKept
  <2>3. (a + 1) - 1 = a
    BY DEF Address
  <2>4. probed[a] = 0 \/ probed[a] <= 1
    BY <2>1, <2>2, <2>3 DEF Walked
  <2> QED BY <2>4
<1> QED BY <1>1, WalkInvariance, PTL

(* A task that returns has come to the end of its subshard, if there is     *)
(* nothing else to end it.                                                  *)
EndKept == /\ \A n \in Instance : ~complete[n]
           /\ \A s \in Sub : spc[s] = "done" => current[s] = XM_SHARD_DONE

(* A cap that no task can reach from where its counters started. *)
Uncapped == \E f \in Nat : Fresh \subseteq 0 .. f /\ f + Stride <= MaxTargets \div num_subshards

(* A step of a task ends it at the end of its subshard only. *)
LEMMA EndStep ==
  ASSUME OneCycle, ~MaxRuntime, Uncapped, SendTypes, WalkKept, EndKept, NEW s \in Sub, SendStep(s)
  PROVE  EndKept'
<1>1. PICK pos \in [Sub -> 0 .. Stride] : \A t \in Sub : Walked(t, pos[t])
  BY DEF WalkKept
<1>2. complete' = complete
  BY DEF SendStep, Start, OnList, NotOnList, Finish, Continue, Send
<1>3. Stride \in Nat \ {0} /\ MaxIndex \in Nat
  BY StrideExact, ShardAssumption, GroupAssumption DEF OneCycle
<1>4. spc \in [Sub -> States] /\ current \in [Sub -> 0 .. MaxIndex]
  BY DEF SendTypes, WalkKept
<1>5. \A t \in Sub : t # s => spc'[t] = spc[t] /\ current'[t] = current[t]
  BY <1>4 DEF SendStep, Start, OnList, NotOnList, Finish, Continue, Send, Walk
<1>6. SUFFICES ASSUME spc'[s] = "done" PROVE current'[s] = XM_SHARD_DONE
  BY <1>2, <1>5 DEF EndKept
<1>7. CASE Start(s) \/ OnList(s) \/ Continue(s) \/ Send(s)
  BY <1>4, <1>6, <1>7 DEF Start, OnList, Continue, Send, Destination
<1>8. CASE NotOnList(s)
  BY <1>4, <1>6, <1>8 DEF NotOnList, Walk
<1>9. CASE Finish(s)
  <2> DEFINE p == pos[s]
  <2>1. spc[s] = "check" /\ Finishes(s) /\ current' = current /\ p \in 0 .. Stride /\ Walked(s, p)
    BY <1>1, <1>9 DEF Finish
  <2> HIDE DEF p
  <2>2. CASE p < Stride
    <3>1. ip[s] = current[s] - 1 /\ current[s] \in 1 .. MaxIndex
      BY <1>3, <2>1, <2>2 DEF Walked, AtPlace
    <3>2. ip[s] # NoAddress
      BY <1>3, <3>1 DEF NoAddress
    <3>3. QuotaReached(s)
      <4>1. s[1] \in Instance
        BY DEF Sub
      <4> QED BY <2>1, <3>2, <4>1 DEF Finishes, EndKept
    <3>4. PICK f \in Nat : Fresh \subseteq 0 .. f /\ f + Stride <= MaxTargets \div num_subshards
      BY DEF Uncapped
    <3>5. sent[s] <= f + p /\ tried_sent[s] <= f + p /\ sent[s] \in Nat /\ tried_sent[s] \in Nat
      BY <2>1, <2>2, <3>4 DEF Walked, SendTypes
    <3>6. MaxTargets \div num_subshards \in Nat
      BY Division, IndexExact, ShardAssumption
    <3> DEFINE quota == max_targets_this_shard(Index(s))
    <3>7. quota \in Nat /\ MaxTargets \div num_subshards <= quota
      BY <3>6 DEF max_targets_this_shard
    <3>8. sent[s] >= quota \/ tried_sent[s] >= quota
      BY <3>3 DEF QuotaReached
    <3> HIDE DEF quota
    <3> QED BY <1>3, <2>1, <2>2, <3>4, <3>5, <3>6, <3>7, <3>8
  <2>3. CASE ~(p < Stride)
    BY <1>3, <2>1, <2>3 DEF Walked, AtPlace
  <2> QED BY <2>2, <2>3
<1> QED BY <1>7, <1>8, <1>9 DEF SendStep

(* When all tasks have returned every wanted address has been probed, if    *)
(* neither a cap nor a time limit ends the scan before.                     *)
THEOREM CoverageAlways ==
  ASSUME OneCycle, ~MaxRuntime, Uncapped
  PROVE  Spec => []Coverage
<1> DEFINE Inv == SendTypes /\ WalkKept
<1>1. SendInit => EndKept
  BY DEF SendInit, EndKept
<1>2. Inv /\ EndKept /\ [SendNext \/ Done]_sendVars => EndKept'
  <2> SUFFICES ASSUME SendTypes, WalkKept, EndKept, [SendNext \/ Done]_sendVars PROVE EndKept'
    OBVIOUS
  <2>1. CASE SendNext
    BY <2>1, EndStep DEF SendNext
  <2>2. CASE UNCHANGED sendVars
    BY <2>2 DEF sendVars, taskVars, EndKept
  <2> QED BY <2>1, <2>2 DEF Done
<1>3. Inv /\ EndKept => Coverage
  <2> SUFFICES ASSUME WalkKept, EndKept, AllSent, NEW a \in Wanted PROVE probed[a] > 0
    BY DEF Coverage
  <2>1. PICK pos \in [Sub -> 0 .. Stride] : \A t \in Sub : Walked(t, pos[t])
    BY DEF WalkKept
  <2>2. a \in Address /\ (a + 1) - 1 = a
    BY DEF Wanted, Address
  <2>3. PICK s \in Sub, j \in 0 .. Stride - 1 : At(s, j) = a + 1 /\ At(s, j) \in 1 .. MaxIndex
    BY <2>2, AddressPlace DEF WalkKept
  <2>4. current[s] = XM_SHARD_DONE
    BY DEF AllSent, EndKept
  <2>5. pos[s] = Stride
    BY <2>1, <2>4 DEF Walked, AtPlace, XM_SHARD_DONE
  <2>6. ~(pos[s] <= j)
    BY <2>5, StrideExact DEF OneCycle
  <2>7. probed[a] = 1
    BY <2>1, <2>2, <2>3, <2>6 DEF Walked
  <2> QED BY <2>7
<1>4. Spec => []Inv
  BY WalkInvariance
<1> QED BY <1>1, <1>2, <1>3, <1>4, PTL DEF Spec

(* No task begins at the end of its subshard: every subshard has an address.*)
Begun == \A s \in Sub : current[s] # XM_SHARD_DONE

(* Then no task ever has an address that stands for none. *)
BegunKept ==
  /\ \A a \in Addresses : probed[a] > 0 => a \in Wanted
  /\ \A s \in Sub :
       /\ ip[s] # Stray
       /\ spc[s] = "start" => current[s] # XM_SHARD_DONE
       /\ HasList /\ spc[s] \in {"check", "send"} => ip[s] \in Listed \cup {NoAddress}

(* A step of a task keeps to the addresses. *)
LEMMA BegunStep ==
  ASSUME OneCycle, SendTypes, WalkKept, BegunKept, NEW s \in Sub, SendStep(s)
  PROVE  BegunKept'
<1>1. PICK pos \in [Sub -> 0 .. Stride] : \A t \in Sub : Walked(t, pos[t])
  BY DEF WalkKept
<1>2. /\ cycle \in Cycles /\ current \in [Sub -> 0 .. MaxIndex] /\ cycle' = cycle
      /\ pos[s] \in 0 .. Stride /\ AtPlace(s, pos[s])
  BY <1>1 DEF WalkKept, Walked, SendStep, Start, OnList, NotOnList, Finish, Continue, Send
<1>3. Stride \in Nat \ {0} /\ MaxIndex \in Nat
  BY StrideExact, ShardAssumption, GroupAssumption DEF OneCycle
<1>4. spc \in [Sub -> States] /\ ip \in [Sub -> Addresses \cup {NoAddress}]
      /\ probed \in [Addresses -> Nat]
  BY DEF SendTypes
<1>5. ASSUME Walk(s)
      PROVE  /\ ip'[s] # Stray /\ (NextElem(s) = XM_SHARD_DONE => ip'[s] = NoAddress)
             /\ \A t \in Sub : t # s => ip'[t] = ip[t] /\ current'[t] = current[t]
  <2>1. PICK m \in 0 .. Stride :
           /\ AtPlace(s, m)'
           /\ (m < Stride => ip'[s] = current'[s] - 1) /\ (m = Stride => ip'[s] = NoAddress)
           /\ \A t \in Sub : t # s => current'[t] = current[t] /\ ip'[t] = ip[t]
           /\ NextElem(s) = XM_SHARD_DONE <=> m = Stride
    BY <1>2, <1>5, WalkAt
  <2>2. m < Stride => current'[s] \in 1 .. MaxIndex
    BY <1>3, <2>1 DEF AtPlace
  <2>3. ip'[s] # Stray
    BY <1>3, <2>1, <2>2 DEF Stray, NoAddress
  <2> QED BY <2>1, <2>3
<1>6. CASE Start(s)
  <2>1. current[s] \in 1 .. MaxIndex
    BY <1>2, <1>3, <1>6 DEF Start, BegunKept, XM_SHARD_DONE
  <2>2. ip'[s] = current[s] - 1
    BY <1>4, <1>6, <2>1 DEF Start, Target
  <2>3. ip'[s] # Stray /\ (HasList => spc'[s] = "seek") /\ spc'[s] # "start"
    BY <1>3, <1>4, <1>6, <2>1, <2>2 DEF Start, Stray, Destination
  <2>4. /\ UNCHANGED <<current, probed>>
        /\ \A t \in Sub : t # s => ip'[t] = ip[t] /\ spc'[t] = spc[t]
    BY <1>4, <1>6 DEF Start
  <2> QED BY <2>3, <2>4 DEF BegunKept
<1>7. CASE OnList(s)
  BY <1>4, <1>7 DEF OnList, BegunKept
<1>8. CASE Finish(s)
  BY <1>4, <1>8 DEF Finish, BegunKept
<1>9. CASE Continue(s)
  BY <1>4, <1>9 DEF Continue, BegunKept
<1>10. CASE NotOnList(s)
  <2>1. /\ Walk(s) /\ probed' = probed /\ spc'[s] \in {"seek", "done"}
        /\ \A t \in Sub : t # s => spc'[t] = spc[t]
    BY <1>4, <1>10 DEF NotOnList
  <2> QED BY <1>5, <2>1 DEF BegunKept
<1>11. CASE Send(s)
  <2>1. /\ Walk(s) /\ probed' = [probed EXCEPT ![ip[s]] = @ + 1]
        /\ spc[s] = "send" /\ spc'[s] \in {"seek", "check"}
        /\ HasList /\ spc'[s] = "check" => NextElem(s) = XM_SHARD_DONE
        /\ \A t \in Sub : t # s => spc'[t] = spc[t]
    BY <1>4, <1>11 DEF Send, Destination
  <2>2. ip[s] \in Address /\ (HasList => ip[s] \in Listed)
    BY <1>4, <2>1 DEF BegunKept, SendTypes, Addresses
  <2>3. ip[s] \in Wanted
    BY <2>2 DEF Wanted
  <2>4. \A a \in Addresses : probed'[a] > 0 => a \in Wanted
    BY <1>4, <2>1, <2>3 DEF BegunKept
  <2> QED BY <1>5, <2>1, <2>4 DEF BegunKept
<1> QED BY <1>6, <1>7, <1>8, <1>9, <1>10, <1>11 DEF SendStep

(* Nothing but what is wanted is probed, with or without a list, if every   *)
(* task begins at an address.                                               *)
THEOREM OnlyWantedBegun ==
  ASSUME OneCycle
  PROVE  Begun /\ Spec => []OnlyWanted
<1> DEFINE Inv == SendTypes /\ WalkKept
<1>1. Begun /\ SendInit => BegunKept
  BY ShardAssumption, GroupAssumption DEF Begun, SendInit, BegunKept, Addresses, Stray, NoAddress
<1>2. Inv /\ BegunKept /\ [SendNext \/ Done]_sendVars => BegunKept'
  <2> SUFFICES ASSUME SendTypes, WalkKept, BegunKept, [SendNext \/ Done]_sendVars PROVE BegunKept'
    OBVIOUS
  <2>1. CASE SendNext
    BY <2>1, BegunStep DEF SendNext
  <2>2. CASE UNCHANGED sendVars
    BY <2>2 DEF sendVars, taskVars, BegunKept
  <2> QED BY <2>1, <2>2 DEF Done
<1>3. Inv /\ BegunKept => OnlyWanted
  BY DEF SendTypes, BegunKept, OnlyWanted
<1>4. Spec => []Inv
  BY WalkInvariance
<1> QED BY <1>1, <1>2, <1>3, <1>4, PTL DEF Spec

-----------------------------------------------------------------------------
(* What the receiver has stored.                                            *)
RecvStates == {"start", "receive", "check", "done"}

RecvTypes ==
  /\ rpc \in [Instance -> RecvStates]
  /\ seen \in [Instance -> SUBSET Answering]
  /\ success_unique \in [Instance -> Nat] /\ filter_success \in [Instance -> Nat]
  /\ results \in [Instance -> Seq(Answering)]

(* What an answer may be stored under, as things are. *)
Heard(h) ==
  \/ h \in Probed /\ probed[h] > 0
  \/ h \in Mine /\ \E g \in Probed : probed[g] > 0

(* The receiver takes a packet only if there is room for its answer, and    *)
(* the hosts it has seen are the ones it has stored.                        *)
ResultsKept ==
  /\ ToSet(results[me]) = seen[me]
  /\ \A i, j \in DOMAIN results[me] : results[me][i] = results[me][j] => i = j
  /\ \A h \in seen[me] : Heard(h)
  /\ filter_success[me] = Len(results[me]) /\ success_unique[me] = Len(results[me])
  /\ MaxResults # 0 => /\ Len(results[me]) <= MaxResults
                       /\ rpc[me] = "receive" => Len(results[me]) < MaxResults
  /\ rpc[me] = "start" => results[me] = <<>>

(* The instance is the only one. *)
LEMMA Alone == me \in Instance /\ Instance = {me} /\ MaxResults \in Nat
BY ScanAssumption DEF Instance, me

(* The receiver begins with nothing stored. *)
LEMMA RecvInitInv == R!RecvInit => RecvTypes /\ ResultsKept
<1> SUFFICES ASSUME R!RecvInit PROVE RecvTypes /\ ResultsKept
  OBVIOUS
<1>1. RecvTypes
  BY DEF R!RecvInit, RecvTypes, RecvStates
<1>2. results[me] = <<>> /\ seen[me] = {} /\ rpc[me] = "start"
      /\ filter_success[me] = 0 /\ success_unique[me] = 0
  BY Alone DEF R!RecvInit
<1>3. ToSet(results[me]) = {} /\ Len(results[me]) = 0 /\ DOMAIN results[me] = {}
  BY <1>2 DEF ToSet
<1> QED BY <1>1, <1>2, <1>3, Alone DEF ResultsKept

(* The first answer of a host is stored after those of the others. *)
LEMMA AnsweredInv ==
  ASSUME RecvTypes, ResultsKept, NEW h \in Answering, Heard(h), R!Answered(me, h),
         probed' = probed
  PROVE  RecvTypes' /\ ResultsKept'
<1> USE DEF RecvTypes, ResultsKept
<1>1. rpc[me] = "receive" /\ h \notin seen[me] /\ me \in Instance /\ Instance = {me}
  BY Alone DEF R!Answered, R!Arrives
<1>2. /\ results'[me] = Append(results[me], h) /\ seen'[me] = seen[me] \cup {h}
      /\ filter_success'[me] = filter_success[me] + 1
      /\ success_unique'[me] = success_unique[me] + 1
      /\ rpc'[me] = "check"
  BY <1>1 DEF R!Answered, R!Arrives
<1>3. results[me] \in Seq(Answering) /\ Len(results'[me]) = Len(results[me]) + 1
      /\ Len(results[me]) \in Nat
  BY <1>1, <1>2
<1>4. RecvTypes'
  <2>1. rpc' \in [Instance -> RecvStates] /\ seen' \in [Instance -> SUBSET Answering]
    BY <1>1 DEF R!Answered, R!Arrives, RecvStates
  <2>2. success_unique' \in [Instance -> Nat] /\ filter_success' \in [Instance -> Nat]
    BY <1>1 DEF R!Answered
  <2>3. results' \in [Instance -> Seq(Answering)]
    BY <1>1, <1>3 DEF R!Answered
  <2> QED BY <2>1, <2>2, <2>3
<1>5. ToSet(results'[me]) = seen'[me]
  BY <1>2, <1>3, ElementsAppend
<1>6. \A i, j \in DOMAIN results'[me] : results'[me][i] = results'[me][j] => i = j
  <2> DEFINE u == results[me]
  <2>1. /\ u \in Seq(Answering) /\ h \notin ToSet(u)
        /\ \A i, j \in DOMAIN u : u[i] = u[j] => i = j
    BY <1>1, <1>3
  <2> HIDE DEF u, RecvTypes, ResultsKept
  <2>2. \A i, j \in DOMAIN Append(u, h) : Append(u, h)[i] = Append(u, h)[j] => i = j
    BY <2>1, InjectiveAppend
  <2>3. results'[me] = Append(u, h)
    BY <1>2 DEF u
  <2> QED BY <2>2, <2>3
<1>7. \A g \in seen'[me] : Heard(g)'
  BY <1>2 DEF Heard
<1>8. MaxResults # 0 => Len(results'[me]) <= MaxResults
  <2>1. MaxResults # 0 => Len(results[me]) < MaxResults
    BY <1>1
  <2>2. MaxResults \in Nat
    BY Alone
  <2> HIDE DEF RecvTypes, ResultsKept
  <2> QED BY <1>3, <2>1, <2>2
<1> QED BY <1>2, <1>3, <1>4, <1>5, <1>6, <1>7, <1>8

(* The steps of the receiver, and the answers of the hosts. *)
LEMMA RecvInv ==
  ASSUME RecvTypes, ResultsKept, Receiver \/ Noise \/ Answer \/ Error
  PROVE  RecvTypes' /\ ResultsKept'
<1> USE DEF RecvTypes, ResultsKept
<1>1. me \in Instance /\ Instance = {me} /\ MaxResults \in Nat
  BY Alone
<1>2. probed' = probed
  BY DEF Receiver, Noise, Answer, Error, taskVars
<1>3. \A h : Heard(h) => Heard(h)'
  BY <1>2 DEF Heard
<1>4. CASE R!Ready(me)
  <2>1. rpc' \in [Instance -> RecvStates] /\ rpc[me] = "start"
    BY <1>4 DEF R!Ready, RecvStates
  <2>2. Len(results[me]) = 0
    BY <2>1
  <2>3. RecvTypes'
    BY <1>4, <2>1 DEF R!Ready
  <2>4. results' = results /\ seen' = seen /\ filter_success' = filter_success
        /\ success_unique' = success_unique /\ rpc'[me] = "receive"
    BY <1>1, <1>4 DEF R!Ready
  <2> QED BY <1>1, <1>3, <2>2, <2>3, <2>4
<1>5. CASE R!Again(me)
  <2>1. rpc' \in [Instance -> RecvStates] /\ rpc'[me] = "receive"
    BY <1>1, <1>5 DEF R!Again, RecvStates
  <2>2. results' = results /\ seen' = seen /\ filter_success' = filter_success
        /\ success_unique' = success_unique
    BY <1>5 DEF R!Again
  <2>3. MaxResults # 0 => Len(results[me]) < MaxResults
    BY <1>1, <1>5 DEF R!Again, R!Enough
  <2> QED BY <1>1, <1>3, <2>1, <2>2, <2>3
<1>6. CASE R!Complete(me)
  <2>1. rpc' \in [Instance -> RecvStates] /\ rpc'[me] = "done"
    BY <1>1, <1>6 DEF R!Complete, RecvStates
  <2>2. results' = results /\ seen' = seen /\ filter_success' = filter_success
        /\ success_unique' = success_unique
    BY <1>6 DEF R!Complete
  <2> QED BY <1>1, <1>3, <2>1, <2>2
<1>7. ASSUME R!Arrives(me), UNCHANGED <<seen, success_unique, filter_success, results>>
      PROVE  RecvTypes' /\ ResultsKept'
  <2>1. rpc' \in [Instance -> RecvStates] /\ rpc'[me] = "check"
    BY <1>1, <1>7 DEF R!Arrives, RecvStates
  <2> QED BY <1>1, <1>3, <1>7, <2>1
<1>8. CASE Noise
  BY <1>7, <1>8 DEF Noise, R!Rejected
<1>9. ASSUME NEW h \in Answering, Heard(h), R!Receive(me, h) PROVE RecvTypes' /\ ResultsKept'
  <2>1. CASE R!Repeated(me, h)
    BY <1>7, <2>1 DEF R!Repeated
  <2>2. CASE R!Answered(me, h)
    BY <1>2, <1>9, <2>2, AnsweredInv
  <2> QED BY <1>9, <2>1, <2>2 DEF R!Receive
<1>10. CASE Answer
  BY <1>9, <1>10 DEF Answer, Answering, Heard
<1>11. CASE Error
  BY <1>9, <1>11 DEF Error, Answering, Heard
<1> QED BY <1>4, <1>5, <1>6, <1>8, <1>10, <1>11 DEF Receiver, R!RecvStep
-----------------------------------------------------------------------------
(* The senders and the receiver together.                                   *)
ScanInv == SendTypes /\ RecvTypes /\ ResultsKept /\ LateKept

(* A step of a task leaves what is stored alone. *)
LEMMA SenderResults ==
  ASSUME SendTypes, RecvTypes, ResultsKept, NEW s \in Sub, Sender(s)
  PROVE  RecvTypes' /\ ResultsKept'
<1>1. UNCHANGED ownRecvVars /\ SendStep(s)
  BY DEF Sender
<1>2. \A h \in Probed : probed[h] > 0 => probed'[h] > 0
  BY <1>1, ProbedGrows DEF Addresses, Probed
<1>3. \A h \in seen[me] : Heard(h)'
  BY <1>2 DEF Heard, ResultsKept
<1> QED BY <1>1, <1>2, <1>3 DEF ownRecvVars, RecvTypes, ResultsKept

(* The receiver only ever sets complete. *)
LEMMA RecvComplete ==
  ASSUME SendTypes, LateKept, Receiver \/ Noise \/ Answer \/ Error
  PROVE  SendTypes' /\ LateKept'
<1>1. UNCHANGED taskVars
  BY DEF Receiver, Noise, Answer, Error
<1>2. complete' = complete \/ complete' = [complete EXCEPT ![me] = TRUE]
  BY DEF Receiver, Noise, Answer, Error, R!RecvStep, R!Ready, R!Again, R!Complete,
         R!Rejected, R!Receive, R!Repeated, R!Answered
<1>3. complete' \in [Instance -> BOOLEAN] /\ \A n \in Instance : complete[n] => complete'[n]
  BY <1>2 DEF SendTypes
<1>4. SendTypes'
  BY <1>1, <1>3 DEF SendTypes, taskVars
<1>5. \A s \in Sub : s[1] \in Instance
  BY DEF Sub
<1> QED BY <1>1, <1>3, <1>4, <1>5 DEF LateKept, taskVars

(* The invariant of a scan. *)
LEMMA ScanInvariance == ScanSpec => []ScanInv
<1>1. Init => ScanInv
  <2>1. SendInit => LateKept
    BY DEF SendInit, LateKept
  <2> QED BY <2>1, SendTypesInit, RecvInitInv DEF Init, ScanInv
<1>2. ScanInv /\ [Next]_vars => ScanInv'
  <2> SUFFICES ASSUME ScanInv, [Next]_vars PROVE ScanInv'
    OBVIOUS
  <2>1. ASSUME NEW s \in Sub, Sender(s) PROVE ScanInv'
    <3>1. SendStep(s)
      BY <2>1 DEF Sender
    <3> QED BY <2>1, <3>1, SendTypesStep, SenderResults, SenderLate DEF ScanInv
  <2>2. CASE Receiver \/ Noise \/ Answer \/ Error
    BY <2>2, RecvInv, RecvComplete DEF ScanInv
  <2>3. CASE UNCHANGED vars
    BY <2>3 DEF vars, ownRecvVars, sendVars, taskVars,
                ScanInv, SendTypes, RecvTypes, ResultsKept, LateKept, Heard
  <2> QED BY <2>1, <2>2, <2>3 DEF Next, Over
<1> QED BY <1>1, <1>2, PTL DEF ScanSpec

(* Everything keeps its type: addresses to probe are addresses of the       *)
(* whitelist or none, and what is stored are such or the scanner's own.     *)
THEOREM TypeCorrect == ScanSpec => [](SendTypes /\ RecvTypes)
<1>1. ScanInv => SendTypes /\ RecvTypes
  BY DEF ScanInv
<1> QED BY <1>1, ScanInvariance, PTL

(* However hosts and routers answer, an address is stored once, only after  *)
(* it was probed or, for errors, if it is the scanner's own and something   *)
(* was probed, and the counters and the cap say how many                    *)
(* (_recv_packet_handle, xm_probe_icmp.c:120).                              *)
THEOREM ResultsExactAlways == ScanSpec => []ResultsExact
<1>1. ScanInv => ResultsExact
  <2> SUFFICES ASSUME ScanInv PROVE ResultsExact
    OBVIOUS
  <2>1. ASSUME NEW i \in DOMAIN results[me]
        PROVE  \/ results[me][i] \in Probed /\ probed[results[me][i]] > 0
               \/ results[me][i] \in Mine /\ \E h \in Probed : probed[h] > 0
    <3>1. results[me][i] \in seen[me]
      BY DEF ScanInv, ResultsKept, ToSet
    <3> QED BY <3>1 DEF ScanInv, ResultsKept, Heard
  <2> QED BY <2>1 DEF ScanInv, ResultsKept, ResultsExact
<1> QED BY <1>1, ScanInvariance, PTL

(* Whatever the order of the reads and writes of xrecv.complete, a task     *)
(* makes at most one probe after the receiver is done.                      *)
THEOREM LateBoundedAlways == ScanSpec => []LateBounded
<1>1. ScanInv => LateBounded
  BY DEF ScanInv, LateKept, LateBounded
<1> QED BY <1>1, ScanInvariance, PTL

(* The cap holds with a receiver too. *)
THEOREM ScanCap ==
  ASSUME num_subshards <= MaxTargets
  PROVE  ScanSpec => []CapRespected
<1>1. Init => CapKept
  BY CapInit DEF Init
<1>2. ScanInv /\ CapKept /\ [Next]_vars => CapKept'
  <2> SUFFICES ASSUME ScanInv, CapKept, [Next]_vars PROVE CapKept'
    OBVIOUS
  <2>1. ASSUME NEW s \in Sub, Sender(s) PROVE CapKept'
    BY <2>1, CapStep DEF ScanInv, Sender
  <2>2. CASE UNCHANGED taskVars
    BY <2>2 DEF taskVars, CapKept
  <2>3. Receiver \/ Noise \/ Answer \/ Error \/ UNCHANGED vars => UNCHANGED taskVars
    BY DEF Receiver, Noise, Answer, Error, vars, sendVars
  <2> QED BY <2>1, <2>2, <2>3 DEF Next, Over
<1>3. ScanInv /\ CapKept => CapRespected
  BY CapEnough DEF ScanInv
<1> QED BY <1>1, <1>2, <1>3, ScanInvariance, PTL DEF ScanSpec
=============================================================================
