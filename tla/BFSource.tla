------------------------------ MODULE BFSource ------------------------------
(***************************************************************************)
(* Brainfuck source text as the translator and the direct interpreter see  *)
(* it: a sequence of characters.  The eight instruction characters matter  *)
(* one by one; every other character is a comment and one value stands for *)
(* all of them.                                                            *)
(***************************************************************************)
EXTENDS Integers, Sequences, FiniteSets

Arith == {"+", "-"}
Moves == {">", "<"}

\* is_brainfuck_instruction: the characters that mean something.
InstructionChar == Arith \cup Moves \cup {"[", "]", ".", ","}

\* "#" is any character that is not an instruction.
Char == InstructionChar \cup {"#"}

\* count_net restricted to the characters of t at the positions in I: the
\* number of `up` there minus the number of `down`.
Net(t, up, down, I) ==
  Cardinality({i \in I \cap DOMAIN t : t[i] = up})
    - Cardinality({i \in I \cap DOMAIN t : t[i] = down})

\* The number of brackets still open after the first k characters of t.
Depth(t, k) == Net(t, "[", "]", 1..k)

\* The reference definition of "every bracket is matched".
Balanced(t) ==
  /\ \A k \in 0..Len(t) : Depth(t, k) >= 0
  /\ Depth(t, Len(t)) = 0

\* The ']' at position j closes the '[' at position i.
Partners(t, i, j) ==
  /\ i < j /\ t[i] = "[" /\ t[j] = "]"
  /\ Depth(t, j) = Depth(t, i - 1)
  /\ \A k \in i .. j - 1 : Depth(t, k) > Depth(t, j)

\* The characters of t at the positions in I, in their order.
Picked(t, I) ==
  [n \in 1 .. Cardinality(I) |-> t[CHOOSE i \in I : Cardinality(I \cap 1 .. i) = n]]
=============================================================================
