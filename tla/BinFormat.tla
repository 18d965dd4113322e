----------------------------- MODULE BinFormat -----------------------------
(***************************************************************************)
(* shm/xm_bin_format.h and common/xm_data_output.h: numbers and byte       *)
(* strings written big-endian, one after the other, to a buffer of fixed   *)
(* size (bf) or to one that grows (dout), and read back from it.           *)
(***************************************************************************)
EXTENDS Integers, Sequences

CONSTANTS
  Bits,      (* of a byte                                                  *)
  Numbers,   (* values to write                                            *)
  Strings,   (* strings of bytes to write                                  *)
  Sizes,     (* sizes of the buffer at the start                           *)
  MaxWrites  (* bound                                                      *)

VARIABLES
  which,     (* "bf" or "dout"                                             *)
  size,      (* end - start                                                *)
  bytes,     (* start .. pos                                               *)
  written,   (* history: the types and values of the writes that succeeded *)
  calls,     (* writes so far                                              *)
  pos,       (* where the reader is; -1 until there is one                 *)
  got        (* what it has read                                           *)

vars == <<which, size, bytes, written, calls, pos, got>>

(* The C types on LP64: bytes and sign. *)
CTypes ==
  [bool |-> <<1, FALSE>>, short |-> <<2, TRUE>>, int |-> <<4, TRUE>>, long |-> <<8, TRUE>>,
   ushort |-> <<2, FALSE>>, size |-> <<8, FALSE>>, ssize |-> <<8, TRUE>>]

FixedTypes ==
  [int8 |-> <<1, TRUE>>, int32 |-> <<4, TRUE>>, uint8 |-> <<1, FALSE>>,
   uint16 |-> <<2, FALSE>>, uint32 |-> <<4, FALSE>>, uint64 |-> <<8, FALSE>>]

SizeT == 8
String == <<0, FALSE>>

(* A string is a byte string whose length is a size_t. *)
BinAssumption ==
  /\ Bits \in Nat \ {0} /\ Numbers \subseteq Int /\ Sizes \subseteq Nat
  /\ \A s \in Strings : s \in Seq(0 .. (2 ^ Bits) - 1) /\ Len(s) < 2 ^ (Bits * SizeT)

(* DO_VALUE_WRITE: >> of a negative number keeps its sign, & 0xff. *)
Bytes(v, n) == [i \in 1 .. n |-> (v \div (2 ^ (Bits * (n - i)))) % (2 ^ Bits)]

(* What a value of a type is once it is in a variable of that type. *)
As(v, type) ==
  LET size_of == 2 ^ (Bits * type[1])
      n == v % size_of
  IN  IF type[2] /\ 2 * n >= size_of THEN n - size_of ELSE n

(* DO_VALUE_READ: the number that the bytes make. *)
Number(b) ==
  LET v[i \in 0 .. Len(b)] == IF i = 0 THEN 0 ELSE (2 ^ Bits) * v[i - 1] + b[i]
  IN  v[Len(b)]

(* Mutant: read as unsigned. *)
Value_unsigned(b, type) == Number(b)

(* In a variable of the type. *)
Value(b, type) == As(Number(b), type)

xm_bf_full(p, n) == p + n > size

-----------------------------------------------------------------------------
(* Writing. *)

Init ==
  /\ which \in {"bf", "dout"} /\ size \in Sizes
  /\ bytes = <<>> /\ written = <<>> /\ calls = 0
  /\ pos = -1 /\ got = <<>>

Writes == pos = -1 /\ calls < MaxWrites /\ calls' = calls + 1 /\ UNCHANGED <<which, pos, got>>

(* DO_CHECK and do_write: what does not fit is refused as a whole. *)
BfPut(b, entry) ==
  /\ which = "bf"
  /\ IF xm_bf_full(Len(bytes), Len(b))
     THEN UNCHANGED <<bytes, written>>
     ELSE bytes' = bytes \o b /\ written' = Append(written, entry)
  /\ UNCHANGED size

(* xm_dout_incr by four times what is to be written, if malloc succeeds *)
xm_dout_incr(n) == size' = size + 4 * n

(* DOUT_CHECK and dout_write *)
DoutPut(b, entry) ==
  /\ which = "dout"
  /\ \/ /\ IF xm_bf_full(Len(bytes), Len(b)) THEN xm_dout_incr(Len(b)) ELSE UNCHANGED size
        /\ bytes' = bytes \o b /\ written' = Append(written, entry)
     \/ /\ xm_bf_full(Len(bytes), Len(b))
        /\ UNCHANGED <<size, bytes, written>>

BfWriteC(t, v) ==
  Writes /\ BfPut(Bytes(v, CTypes[t][1]), <<CTypes[t], As(v, CTypes[t])>>)
BfWriteFixed(t, v) ==
  Writes /\ BfPut(Bytes(v, FixedTypes[t][1]), <<FixedTypes[t], As(v, FixedTypes[t])>>)
DoutWriteC(t, v) ==
  Writes /\ DoutPut(Bytes(v, CTypes[t][1]), <<CTypes[t], As(v, CTypes[t])>>)
DoutWriteFixed(t, v) ==
  Writes /\ DoutPut(Bytes(v, FixedTypes[t][1]), <<FixedTypes[t], As(v, FixedTypes[t])>>)

(* Strings are byte strings that end before their first 0. *)
BfWriteBytes(s) ==
  Writes /\ BfPut(Bytes(Len(s), SizeT) \o s, <<String, s>>)
DoutWriteBytes(s) ==
  Writes /\ DoutPut(Bytes(Len(s), SizeT) \o s, <<String, s>>)

(* xm_bf_reset *)
Reset ==
  /\ Writes /\ which = "bf"
  /\ bytes' = <<>> /\ written' = <<>>
  /\ UNCHANGED size

-----------------------------------------------------------------------------
(* Reading what was written, by the same types in the same order. *)

(* xm_bf_init over the buffer *)
Open ==
  /\ pos = -1 /\ pos' = 0
  /\ UNCHANGED <<which, size, bytes, written, calls, got>>

Following == written[Len(got) + 1]

Reads ==
  /\ pos # -1 /\ Len(got) < Len(written)
  /\ UNCHANGED <<which, size, bytes, written, calls>>

(* A number that does not fit any more is 0, and nothing is skipped. *)
ReadNumber(type) ==
  /\ Reads /\ Following[1] = type
  /\ IF xm_bf_full(pos, type[1])
     THEN got' = Append(got, 0) /\ UNCHANGED pos
     ELSE /\ got' = Append(got, Value(SubSeq(bytes, pos + 1, pos + type[1]), type))
          /\ pos' = pos + type[1]

BfReadC(t) == ReadNumber(CTypes[t])
BfReadFixed(t) == ReadNumber(FixedTypes[t])

BfReadBytes ==
  /\ Reads /\ Following[1] = String
  /\ LET n == Value(SubSeq(bytes, pos + 1, pos + SizeT), CTypes.size)
     IN  IF xm_bf_full(pos, SizeT)
         THEN got' = Append(got, <<>>) /\ UNCHANGED pos
         ELSE /\ got' = Append(got, SubSeq(bytes, pos + SizeT + 1, pos + SizeT + n))
              /\ pos' = pos + SizeT + n

(* xm_bf_skip, over a number *)
Skip ==
  /\ Reads /\ Following[1] # String
  /\ LET n == Following[1][1]
     IN  pos' = IF xm_bf_full(pos, n) THEN size ELSE pos + n
  /\ got' = Append(got, Following[2])

Over == pos # -1 /\ Len(got) = Len(written) /\ UNCHANGED vars

Next ==
  \/ \E v \in Numbers :
       \/ \E t \in DOMAIN CTypes : BfWriteC(t, v) \/ DoutWriteC(t, v)
       \/ \E t \in DOMAIN FixedTypes : BfWriteFixed(t, v) \/ DoutWriteFixed(t, v)
  \/ \E s \in Strings : BfWriteBytes(s) \/ DoutWriteBytes(s)
  \/ Reset \/ Open \/ BfReadBytes \/ Skip \/ Over
  \/ \E t \in DOMAIN CTypes : BfReadC(t)
  \/ \E t \in DOMAIN FixedTypes : BfReadFixed(t)

Spec == Init /\ [][Next]_vars

-----------------------------------------------------------------------------
(* Properties. *)

(* Nothing is written beyond the end of the buffer, in bf whatever is       *)
(* refused and in dout however often it grew; and what is read back is what *)
(* was written, with the sign of its type, across writes that were refused  *)
(* in between (xm_bin_format.h:83, xm_data_output.h:86).                    *)
ReadsBack ==
  /\ Len(bytes) <= size
  /\ \A i \in DOMAIN got : got[i] = written[i][2]
=============================================================================
