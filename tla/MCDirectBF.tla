----------------------------- MODULE MCDirectBF -----------------------------
(***************************************************************************)
(* A small instance of DirectBF.                                           *)
(***************************************************************************)
EXTENDS DirectBF

Strings(S, n) == UNION {[1 .. k -> S] : k \in 0 .. n}

\* Every text of up to four brackets, inputs and comments, matched or not, and
\* loops that move, write and nest.
MCSources ==
  Strings({"[", "]", ",", "#"}, 4)
    \cup {<<",", "[">> \o b \o <<"]", ".">> : b \in Strings({"-", "<", ">", "+"}, 3)}
    \cup {<<",", "[", "[", "-", "]", ">", ",", "]", "<", ".">>,
          <<",", "[", ">", ",", "[", "[", ",", "]", "<", "]", ">", ".", "]">>,
          <<"[", "[", ".", "]", "]", "-", "[", "+", "[", "]", "]">>}

MCInputs == UNION {[1 .. n -> {1, 3}] : n \in 0 .. 2}
=============================================================================
