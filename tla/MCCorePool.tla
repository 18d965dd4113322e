----------------------------- MODULE MCCorePool -----------------------------
(* Core masks for the model checker. *)
EXTENDS CorePool

(* Three slaves among eight cores, in several places. *)
ThreeSlaves == { <<15>>, <<0, 15>>, <<14, 1>>, <<9, 9>> }

(* Too few slaves, too many, no core at all, digits for cores the machine   *)
(* does not have, and characters that are no digits.                        *)
AnyMasks == ThreeSlaves \cup
  { <<1>>, <<3>>, <<1, 15>>, <<3, 9>>, <<0>>, <<1, 0, 15>>, <<0, 0, 7>>, <<16, 15>>, <<16, 0, 15>>, <<>> }

(* The default mask, "0xff". *)
DefaultMask == { <<15, 15>> }
=============================================================================
