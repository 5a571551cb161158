----------------------------- MODULE MCLockstep -----------------------------
(***************************************************************************)
(* Small instances of Lockstep.                                            *)
(***************************************************************************)
EXTENDS Lockstep

Strings(S, n) == UNION {[1 .. k -> S] : k \in 0 .. n}
Wrapped(before, bodies, after) ==
  {before \o <<"[">> \o b \o <<"]">> \o after : b \in bodies}

\* Every loop of up to four additions and moves, with cells read on both sides
\* of it; loops in loops; multiplications to several cells, in both forms, and
\* with runs that wrap around the tape.
MCSources ==
  Wrapped(<<",", ">", ",", "<">>, Strings(Arith \cup Moves, 4), <<".">>)
    \cup Wrapped(<<",", "[">>, Strings({"-", ">", "<"}, 3), <<",", "#", ".", "]">>)
    \cup {<<",", "[", "-", ">", "+", "+", ">", "-", "<", "<", "]", ">", ".", ">", ".">>,
          <<",", "[", "<", "-", "<", "-", ">", ">", "-", "]", "<", ".", "#">>,
          <<",", "[", "-", ">", "+", "<", "<", "<", "+", "+", ">", ">", "]", ">", ".">>,
          <<",", "[", ">", ",", "[", "<", "]", ">", "-", "]">>}

MCInputs == [1 .. 2 -> 0 .. CellMod - 1]

\* Loops that touch the cell they count down in the middle of their body.
HomeSources ==
  {<<",", "[", "-", ">", "<", "-", ">", "+", "<", "]">>,
   <<",", "[", "-", ">", ">", ">", ">", "+", "<", "<", "<", "<", "]">>}
=============================================================================
