----------------------------- MODULE MCBrainfunk -----------------------------
(***************************************************************************)
(* A small instance of Brainfunk: long and short programs, loops of every  *)
(* kind, and sources that are rejected at either end.                      *)
(***************************************************************************)
EXTENDS Brainfunk

MCSources ==
  {<<"+", ".", ">", "+", "<", ",">>,
   <<",", "[", "-", "[", "]", ".", "]">>,
   <<"[", "-", ">", "+", "<", "]", "[", ">", "]">>,
   <<"+", "[", ",", "]">>,
   <<"[", "-", "]", "#">>,
   <<>>, <<"+", "]">>, <<"[", "[", "]">>}

MCInputs == {<<>>, <<1>>, <<2, 0>>}
=============================================================================
