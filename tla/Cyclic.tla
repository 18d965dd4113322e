------------------------------- MODULE Cyclic -------------------------------
(***************************************************************************)
(* src/xm_cyclic.c: the multiplicative group modulo a prime whose elements *)
(* number the addresses to scan, and the random generator of a scan.       *)
(* Numbers are small here and the width of the C type that is too narrow   *)
(* for the largest group of the table (2^32 + 15) is a constant.           *)
(***************************************************************************)
EXTENDS Integers

CONSTANTS
  Prime,     (* group->prime                                       *)
  Primroot,  (* group->known_primroot                              *)
  Factors,   (* group->prime_factors: the prime factors of Prime-1 *)
  Limit      (* 2^32: what a uint32_t can count to                 *)

ASSUME GroupAssumption ==
  /\ Prime \in Nat /\ Prime > 2
  /\ Primroot \in 1 .. Prime - 1
  /\ Factors = { q \in 2 .. Prime - 1 :
                   (Prime - 1) % q = 0 /\ \A d \in 2 .. q - 1 : q % d # 0 }
  /\ Limit \in Nat \ {0}

Element == 1 .. Prime - 1

(* mpz_powm *)
Pow(base, e) ==
  LET p[i \in Nat] ==
        IF i = 0 THEN 1
        ELSE LET h == p[i \div 2]
             IN  (h * h * (IF i % 2 = 1 THEN base ELSE 1)) % Prime
  IN  p[e]

(* check_coprime; no argument is 0. *)
check_coprime(check) ==
  \A q \in Factors :
    /\ q > check => q % check # 0
    /\ q < check => check % q # 0
    /\ q # check

(* xm_isomorphism, as find_primroot returns it: in a uint32_t. *)
xm_isomorphism(additive_elt) == Pow(Primroot, additive_elt) % Limit

(* The generators a scan may draw. *)
Generators == { xm_isomorphism(c) : c \in { d \in 1 .. Prime - 1 : d < Limit /\ check_coprime(d) } }
=============================================================================
