------------------------------- MODULE Bitcode -------------------------------
(***************************************************************************)
(* The intermediate code of libbrainfunk: opcodes, instructions, the       *)
(* wrapping address arithmetic and the shape of a complete program.        *)
(*                                                                         *)
(* A program is a sequence of instructions; the address a of the code      *)
(* (an index of the vector bitcode_, from 0) is the position a + 1 of the  *)
(* sequence.  Jump operands are relative, so they are the same in both.    *)
(***************************************************************************)
EXTENDS Integers, Sequences

CONSTANTS
  CellMod,   \* number of values of memory_t (2^8 in the code)
  MemSize    \* memory_.size() (2^16 unless the constructor is told otherwise)

ASSUME CellModAssumption == CellMod \in Nat /\ CellMod > 1
\* The constructor throws on a memory of size zero.
ASSUME MemSizeAssumption == MemSize \in Nat \ {0}

Cell == 0 .. CellMod - 1
Address == 0 .. MemSize - 1

Opcode == {"X", "A", "S", "MUL", "F", "M", "JE", "JN", "IO", "H"}

\* An operand is nothing, an immediate, an offset or both; the fields an
\* opcode does not use are zero.
Instruction == [op : Opcode, imm : Cell, off : Int]
Instr(op, imm, off) == [op |-> op, imm |-> imm, off |-> off]

\* opcode_operand_type: what the constructor for an opcode takes.
HasImm(op)    == op \in {"A", "S", "IO", "MUL"}
HasOffset(op) == op \in {"F", "M", "JE", "JN", "MUL"}
ProperInstruction ==
  {i \in Instruction : /\ ~HasImm(i.op) => i.imm = 0
                       /\ ~HasOffset(i.op) => i.off = 0}

IO_IN  == 0
IO_OUT == 1

\* wrap_offset: both branches, because the arithmetic of the code is unsigned.
WrapOffset(address, offset, size) ==
  LET base     == address % size
      backward == -(offset + 1) + 1
  IN  IF size = 0 THEN 0
      ELSE IF offset >= 0 THEN (base + (offset % size)) % size
      ELSE (base + size - (backward % size)) % size

-----------------------------------------------------------------------------
(***************************************************************************)
(* What every consumer of a complete program relies on.                    *)
(***************************************************************************)

\* A jump and its partner point at each other.
Paired(code, i, partner) ==
  LET j == i + code[i].off
  IN  j \in DOMAIN code /\ code[j].op = partner /\ code[j].off = -code[i].off

JumpsMatched(code) ==
  \A i \in DOMAIN code :
    /\ code[i].op = "JE" => code[i].off > 0 /\ Paired(code, i, "JN")
    /\ code[i].op = "JN" => code[i].off < 0 /\ Paired(code, i, "JE")

\* No two loops overlap without one containing the other.
WellNested(code) ==
  \A i, j \in DOMAIN code :
    (code[i].op = "JE" /\ code[j].op = "JE" /\ i < j /\ j < i + code[i].off)
      => j + code[j].off < i + code[i].off

WellFormed(code) ==
  /\ code # <<>>
  /\ \A i \in DOMAIN code : code[i].op # "X"
  /\ \A i \in DOMAIN code : (code[i].op = "H") <=> (i = Len(code))
  /\ JumpsMatched(code)
  /\ WellNested(code)
=============================================================================
