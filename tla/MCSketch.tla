------------------------------ MODULE MCSketch ------------------------------
(***************************************************************************)
(* A small instance of Sketch.                                             *)
(***************************************************************************)
EXTENDS Sketch

Strings(S, n) == UNION {[1 .. k -> S] : k \in 0 .. n}

\* Every text of up to four brackets, additions, inputs and comments, matched or
\* not; loops one in another up to one more than the stack has room for; loops
\* that are repeated and left before others are entered; all that is written.
MCCodes ==
  Strings({"[", "]", "+", ","}, 4) \cup Strings({"#", "]", ","}, 2)
    \cup {<<",", "[">> \o b \o <<"]", ".">> : b \in Strings({"-", "<", ">", "."}, 3)}
    \cup {<<",", "[", "[", "-", "]", ">", ",", "]", "<", ".">>,
          <<"+", "[", "[", "[", "-", "]", "]", "]">>,
          <<"[", "[", "]", "]", "+", "[", "-", "[", "]", "]", "+", "[", "-", "]", ",", ".">>,
          <<"+", "[", "-", "]", "+", "[", "-", "]", "+", "[", "-", "]", "+", "[", "[", "-", "]", "]">>,
          <<",", "[", "-", ">", "+", "[", "[", ">", "]", ",", "]", "<", "]", ">", ".">>}

MCInputs == UNION {[1 .. n -> {1, 2}] : n \in 0 .. 2}
=============================================================================
