--------------------------- MODULE MCSourceReader ---------------------------
(* Two entries of two records; unknown and bad records end as large ones.  *)
EXTENDS SourceReader

Entry(kinds, before) == [i \in DOMAIN kinds |-> [n |-> before + i, kind |-> kinds[i]]]

MCSegments ==
  { <<Entry(<<"good", "large">>, 0), Entry(<<"unwanted", "good">>, 2)>> }

(* A context each, one for both, and none for the second reader. *)
MCIds == { [r1 |-> 0, r2 |-> 1], [r1 |-> 1, r2 |-> 1], [r1 |-> 0, r2 |-> 2] }
=============================================================================
