----------------------------- MODULE MCAssemble -----------------------------
(***************************************************************************)
(* A small instance of Assemble: fields of 4 and 16 values, a pipe of two  *)
(* lines.                                                                  *)
(***************************************************************************)
EXTENDS Assemble, TLC

Text(op, imm, off) == [kind |-> "instruction", op |-> op, imm |-> imm, off |-> off]

\* Lines at both bounds of every field and just beyond them, and lines of all
\* the kinds that are no instruction.
Lines ==
  {Text("A", i, 0) : i \in {0, 3, 4}}
    \cup {Text("IO", 1, 0), Text("H", 0, 0)}
    \cup {Text("MUL", i, o) : i \in {0, 3}, o \in {-3, -2, -1, 1, 2}}
    \cup {Text(op, 0, o) : op \in {"M", "JE", "JN"}, o \in {-9, -8, -1, 7, 8}}
    \cup {[kind |-> k] : k \in {"blank", "malformed line", "unknown opcode",
                                "malformed operand"}}

MCListings == UNION {[1 .. n -> Lines] : n \in 0 .. 3}

H == Instr("H", 0, 0)

\* Programs with offsets that fit their field and with one that does not.
MCProgramsOut ==
  {<<H>>,
   <<Instr("IO", 0, 0), Instr("M", 0, -8), H>>,
   <<Instr("JE", 0, 3), Instr("A", 3, 0), Instr("MUL", 2, -2), Instr("JN", 0, -3), H>>,
   <<Instr("A", 1, 0), Instr("M", 0, 8), Instr("IO", 1, 0), H>>}

\* Two sources on the disk, one with comments and one that is rejected.
MCOriginals == ("a" :> <<"+", "#", ".">>) @@ ("b" :> <<"[">>)

Opt(o, a) == [opt |-> o, arg |-> a]
OptF(a) == Opt("f", a)

Options ==
  {OptF(a) : a \in {"a", "b", "c"}}
    \cup {Opt("s", <<"]", "#">>), Opt("s", <<>>)}
    \cup {Opt("m", a) : a \in {"bit", "bfc", "bf", "none"}}
    \cup {Opt("o", a) : a \in {"-", "a", "c", "d"}}
    \cup {Opt("h", ""), Opt("?", "")}

\* Every call with up to three options; behind a mode that prints, also some
\* with four.
MCArguments ==
  UNION {[1 .. n -> Options] : n \in 0 .. 3}
    \cup {<<Opt("m", "bit")>> \o t :
           t \in [1 .. 3 -> {OptF("a"), OptF("b"), Opt("s", <<"]", "#">>),
                             Opt("o", "-"), Opt("o", "a"), Opt("o", "c")}]}

MCUnwritable == {"d"}
=============================================================================
