------------------------------- MODULE MCParts -------------------------------
(* Counters, hosts and words for the model checker. *)
EXTENDS Parts

(* Counters of 16, 32 and 64 bits, with 2, 3 and 4 for half their range.   *)
Halves == [w \in {16, 32, 64} |-> IF w = 16 THEN 2 ELSE IF w = 32 THEN 3 ELSE 4]

(* One host for each of two send tasks, and one address to send from.      *)
OneEach == [s1 |-> <<"h1">>, s2 |-> <<"h2">>]
OneAddress == <<"a1">>
Indices == [h1 |-> 3, h2 |-> 6]

(* Ports that follow one another, wrap in their range or wrap in the word. *)
Wraps == {[p \in {"a1"} \X {"h1", "h2"} |-> IF p[2] = "h1" THEN 4 ELSE 2]}

(* Numbers to write, one that is negative and one that most types cut off; *)
(* and strings.                                                            *)
SomeNumbers == {-1, 0, 5, 200}
SomeStrings == {<<>>, <<3, 1>>}
=============================================================================
