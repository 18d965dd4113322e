------------------------------- MODULE IpTree -------------------------------
(***************************************************************************)
(* lib/common/xm_iptree.c as src/xm_wblist.c uses it: the binary tree of   *)
(* prefixes that says which addresses may be scanned and numbers them.     *)
(*                                                                         *)
(* A node is the sequence of bits on the way to it.  What matters of a     *)
(* tree is its leaves and their values: an internal node never becomes a   *)
(* leaf again, because _convert_to_leaf returns unless it is one already,  *)
(* so neither a prefix that ends at an internal node nor two equal         *)
(* children change anything.  An entry without a prefix length is given    *)
(* the length 256: its bits beyond the 32 of an address are zeros.  Names  *)
(* of hosts stand for entries of this kind, and files for their entries.   *)
(***************************************************************************)
EXTENDS Integers, SequencesExt

CONSTANTS
  Width,         (* 32: the bits of an address                             *)
  RADIX_LENGTH,  (* 20: prefixes up to this length are in the radix array  *)
  PlainLength,   (* 256: the prefix length of an entry without one         *)
  MaxEntries     (* bound: entries of the lists                            *)

ASSUME TreeAssumption ==
  /\ Width \in Nat \ {0} /\ RADIX_LENGTH \in 1 .. Width
  /\ PlainLength \in Nat /\ PlainLength > Width
  /\ MaxEntries \in Nat

VARIABLES
  tree,     (* the value of every leaf                                     *)
  radix,    (* the radix array, in use up to radix_len                     *)
  phase,    (* of xm_wblist_create: "white", "black", "ready" or "refused" *)
  entries,  (* entries read                                                *)
  given,    (* history: the value of the last entry an address is in       *)
  covered   (* history: an entry ended at an internal node                 *)

vars == <<tree, radix, phase, entries, given, covered>>

ADDR_DISALLOWED == 0
ADDR_ALLOWED == 1

Address == 0 .. 2 ^ Width - 1

(* The first n bits of an address, as prefix <<= 1 or mask >>= 1 finds them. *)
Path(a, n) ==
  [i \in 1 .. n |-> IF i <= Width /\ (a \div 2 ^ (Width - i)) % 2 = 1 THEN 1 ELSE 0]

EntryPath == { Path(a, n) : a \in Address, n \in 0 .. PlainLength }

(* The other child of the parent of the node at level i above p. *)
Sibling(p, i) == Append(SubSeq(p, 1, i - 1), 1 - p[i])

Siblings(leaf, p) == { Sibling(p, i) : i \in Len(leaf) + 1 .. Len(p) }

(* The leaf a walk along the bits of p meets, if it meets one. *)
LeavesOn(t, p) == { l \in DOMAIN t : IsPrefix(l, p) }

(* Mutant: the siblings get the new value. *)
Split_new(t, leaf, p, value) ==
  [ n \in (DOMAIN t \ {leaf}) \cup Siblings(leaf, p) \cup {p} |->
      IF n \in DOMAIN t \ {leaf} THEN t[n] ELSE value ]

(* The leaf becomes the internal node above p; the leaves beside the path   *)
(* keep its value.                                                          *)
Split(t, leaf, p, value) ==
  [ n \in (DOMAIN t \ {leaf}) \cup Siblings(leaf, p) \cup {p} |->
      IF n = p THEN value
      ELSE IF n \in DOMAIN t THEN t[n] ELSE t[leaf] ]

(* xm_iptree_add *)
xm_iptree_add(t, p, value) ==
  IF \E l \in LeavesOn(t, p) : t[l] # value
  THEN Split(t, CHOOSE l \in LeavesOn(t, p) : TRUE, p, value)
  ELSE t

(* xm_iptree_lookup_ip: beyond the last bit the walk goes left. *)
xm_iptree_lookup_ip(t, a) == t[CHOOSE l \in LeavesOn(t, Path(a, PlainLength)) : TRUE]

xm_wblist_is_allowed(a) == xm_iptree_lookup_ip(tree, a) = ADDR_ALLOWED

-----------------------------------------------------------------------------
(* Painting, counting and looking up an index. *)

Size(node) == 2 ^ Width \div 2 ^ Len(node)
BlockSize == 2 ^ (Width - RADIX_LENGTH)

(* Mutant: a prefix as long as the radix is counted too. *)
InRadix_longer(leaf) == Size(leaf) > BlockSize

InRadix(leaf) == Size(leaf) >= BlockSize

(* The count painted on a node: addresses below it that are not in radix. *)
Count(t, node) ==
  MapThenSumSet(Size, { l \in DOMAIN t : IsPrefix(node, l) /\ t[l] = ADDR_ALLOWED /\ ~InRadix(l) })

(* The blocks xm_iptree_paint_value finds to be of one value. *)
Radix(t) ==
  LET block(i) == (i - 1) * BlockSize
      one_value(i) == \E l \in LeavesOn(t, Path(block(i), RADIX_LENGTH)) : t[l] = ADDR_ALLOWED
      fill[i \in 0 .. 2 ^ RADIX_LENGTH] ==
        IF i = 0 THEN <<>> ELSE IF one_value(i) THEN Append(fill[i - 1], block(i)) ELSE fill[i - 1]
  IN  fill[2 ^ RADIX_LENGTH]

(* xm_iptree_count_ips of a painted tree, xm_wblist_count_allowed *)
xm_iptree_count_ips(t, r) == Count(t, <<>>) + Len(r) * BlockSize

Base(node) ==
  MapThenSumSet(LAMBDA i : node[i] * 2 ^ (Width - i), { i \in DOMAIN node : i <= Width })

(* The walk from a node to the address number n below it. *)
_lookup_index(t, index) ==
  LET walk[node \in Seq({0, 1})] ==
        [n \in Nat |->
           IF node \in DOMAIN t THEN Base(node) + n
           ELSE LET left == Count(t, Append(node, 0))
                IN  IF n < left THEN walk[Append(node, 0)][n] ELSE walk[Append(node, 1)][n - left]]
  IN  walk[<<>>][index]

(* For an index that is below the count. *)
xm_iptree_lookup_index(t, r, index) ==
  IF index \div BlockSize < Len(r)
  THEN r[(index \div BlockSize) + 1] + (index % BlockSize)
  ELSE _lookup_index(t, index - Len(r) * BlockSize)

-----------------------------------------------------------------------------
(* xm_wblist_create.  With a whitelist nothing else is allowed. *)
Init ==
  /\ phase \in {"white", "black"}
  /\ tree = [root \in {<<>>} |-> IF phase = "white" THEN ADDR_DISALLOWED ELSE ADDR_ALLOWED]
  /\ given = [a \in Address |-> tree[<<>>]]
  /\ radix = <<>> /\ entries = 0 /\ covered = FALSE

(* An entry of a file or of the command line. *)
Add(p, value) ==
  /\ tree' = xm_iptree_add(tree, p, value)
  /\ given' = [ a \in Address |-> IF IsPrefix(p, Path(a, PlainLength)) THEN value ELSE given[a] ]
  /\ covered' = (covered \/ LeavesOn(tree, p) = {})

Entry(p, value) ==
  /\ entries < MaxEntries /\ entries' = entries + 1
  /\ Add(p, value)
  /\ UNCHANGED <<radix, phase>>

Whitelist(p) == phase = "white" /\ Entry(p, ADDR_ALLOWED)

(* The whitelist is read; the blacklist follows. *)
Whitelisted ==
  /\ phase = "white" /\ phase' = "black"
  /\ UNCHANGED <<tree, radix, entries, given, covered>>

Blacklist(p) == phase = "black" /\ Entry(p, ADDR_DISALLOWED)

Painted ==
  /\ radix' = Radix(tree')
  /\ phase' = IF xm_iptree_count_ips(tree', radix') = 0 THEN "refused" ELSE "ready"
  /\ UNCHANGED entries

(* Mutant: 0.0.0.0 is forgotten. *)
Blacklisted_zero ==
  /\ phase = "black"
  /\ UNCHANGED <<tree, given, covered>>
  /\ Painted

(* Both lists are read: 0.0.0.0 is excluded and the tree is painted. *)
Blacklisted ==
  /\ phase = "black"
  /\ Add(Path(0, PlainLength), ADDR_DISALLOWED)
  /\ Painted

Next ==
  \/ \E p \in EntryPath : Whitelist(p) \/ Blacklist(p)
  \/ Whitelisted \/ Blacklisted

Spec == Init /\ [][Next]_vars

-----------------------------------------------------------------------------
(* Properties. *)

(* What an index below the count looks up.                                  *)
Indexes == 0 .. xm_iptree_count_ips(tree, radix) - 1
Looked(i) == xm_iptree_lookup_index(tree, radix, i)

(* Allowed, and not only by an entry longer than an address.                *)
Countable(a) ==
  /\ xm_wblist_is_allowed(a)
  /\ \E l \in LeavesOn(tree, Path(a, PlainLength)) : Len(l) <= Width

(* The walk for an address always meets one leaf, with any bits after it.   *)
(* The two halves of the numbering, the radix array and the tree, together  *)
(* number every allowed address exactly once, so a scan over the indices is *)
(* a scan over the addresses (xm_iptree.c:160-163).  Addresses a whitelist  *)
(* names without a prefix length are in neither.                            *)
IndexExact ==
  /\ \A a \in Address : Cardinality(LeavesOn(tree, Path(a, PlainLength))) = 1
  /\ phase = "ready" =>
       /\ { Looked(i) : i \in Indexes } = { a \in Address : Countable(a) }
       /\ \A i, j \in Indexes : Looked(i) = Looked(j) => i = j

(* An address is allowed as the last entry that contains it says, unless a  *)
(* prefix was added over longer ones (xm_iptree.c:101-102).                 *)
GivenUnlessCovered ==
  ~covered => \A a \in Address : xm_iptree_lookup_ip(tree, a) = given[a]

(* 0.0.0.0 is never scanned, whatever the lists say: the send task takes it *)
(* for the end of its shard.                                                *)
ZeroExcluded == phase = "ready" => \A i \in Indexes : Looked(i) # 0

(* xm_iptree.c:101-102, "Set the value for a given network prefix,          *)
(* overwriting any existing values on that prefix or subsets of it": no     *)
(* address the blacklist names last is allowed.                             *)
BlacklistHolds ==
  \A a \in Address : given[a] = ADDR_DISALLOWED => ~xm_wblist_is_allowed(a)
=============================================================================
