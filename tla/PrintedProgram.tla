--------------------------- MODULE PrintedProgram ---------------------------
(***************************************************************************)
(* What the two programs that dump prints have in common: the bitcode they *)
(* are made from, a tape of their own and the standard streams.            *)
(***************************************************************************)
EXTENDS Bitcode

CONSTANTS
  Programs,   \* what bitcode_ may hold when dump is called
  Inputs      \* what stdin may hold

ASSUME ProgramsAssumption == Programs \subseteq Seq(Instruction)
ASSUME InputsAssumption == Inputs \subseteq Seq(Cell)

VARIABLES
  bitcode,         \* bitcode_
  stage,           \* what is being done
  ptr, memory,     \* the tape of the printed program
  input, output    \* what is left in stdin, and what the last action wrote

Dumped ==
  /\ bitcode \in Programs /\ input \in Inputs
  /\ ptr = 0 /\ memory = [a \in Address |-> 0] /\ output = <<>>

Current == memory[ptr]
NoIO == UNCHANGED input /\ output' = <<>>
=============================================================================
