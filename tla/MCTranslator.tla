---------------------------- MODULE MCTranslator ----------------------------
(***************************************************************************)
(* A small instance of Translator.                                         *)
(***************************************************************************)
EXTENDS Translator

Strings(S, n) == UNION {[1 .. k -> S] : k \in 0 .. n}

\* Every text of brackets, one instruction and one comment, matched or not.
BracketSources ==
  Strings({"[", "]", "+", "#"}, 4)
    \cup [1 .. 5 -> {"[", "]", "+"}] \cup [1 .. 6 -> {"[", "]"}]

\* Every loop with up to four additions and moves, inside another loop and
\* between other code, a few longer multiplication loops, and every pair of characters.
LoopSources ==
  LET bodies == Strings(Arith \cup Moves, 4)
      loops  == {<<"[">> \o b \o <<"]">> : b \in bodies}
  IN  {<<"[", ".">> \o l \o <<"]">> : l \in loops}
        \cup {<<",", ">">> \o l \o <<"+", "+", "#">> : l \in loops}
        \cup {<<"[", "-", ">", "+", ">", "-", "<", "<", "]">>,
              <<"[", "<", "+", "+", ">", ">", "-", "<", "-", "]">>,
              <<"[", "-", "-", ">", "+", "<", "]">>}
        \cup [1 .. 2 -> Char]

MCSources == BracketSources \cup LoopSources
=============================================================================
