----------------------------- MODULE MCPrograms -----------------------------
(***************************************************************************)
(* Small programs for the modules that read one: every complete program of *)
(* up to three instructions and an H, the empty program, and a few longer  *)
(* loops.                                                                  *)
(***************************************************************************)
EXTENDS Bitcode, FiniteSets

Simple ==
  {Instr("A", 1, 0), Instr("A", 3, 0), Instr("S", 0, 0), Instr("MUL", 2, -1),
   Instr("F", 0, 1), Instr("M", 0, 1), Instr("M", 0, -5),
   Instr("IO", IO_IN, 0), Instr("IO", IO_OUT, 0)}

Jumps == {Instr(op, 0, off) : op \in {"JE", "JN"}, off \in -2 .. 2}

H == Instr("H", 0, 0)

Short ==
  {code \in {body \o <<H>> : body \in UNION {[1 .. n -> Simple \cup Jumps] : n \in 0 .. 3}} :
     WellFormed(code)}

Read == Instr("IO", IO_IN, 0)
Loop(body) == <<Instr("JE", 0, Len(body) + 1)>> \o body \o <<Instr("JN", 0, -Len(body) - 1)>>

Write == Instr("IO", IO_OUT, 0)

\* Loops in loops, side by side, around every kind of instruction, and a loop the machine may never leave.
Long ==
  {<<Read>> \o Loop(<<Instr("A", 3, 0), Instr("M", 0, 1), Instr("A", 1, 0), Instr("M", 0, -1)>>) \o <<H>>,
   <<Read>> \o Loop(Loop(<<Instr("A", 3, 0)>>) \o <<Instr("M", 0, 1), Read>>) \o <<H>>,
   <<Read>> \o Loop(<<Instr("M", 0, 1)>> \o Loop(<<Read, Instr("M", 0, -1)>>)) \o Loop(<<Read>>) \o <<H>>,
   <<Read>> \o Loop(<<Write, Instr("A", 3, 0)>>) \o <<Write, H>>,
   <<Read, Instr("MUL", 3, 4), Instr("M", 0, -2)>>
     \o Loop(<<Read, Write>> \o Loop(<<Instr("S", 0, 0), Instr("F", 0, -2), Write>>))
     \o <<H>>,
   <<Read>> \o Loop(Loop(Loop(<<>>) \o <<Read>>) \o <<Instr("A", 1, 0)>>) \o <<H>>}

MCPrograms == {<<>>} \cup Short \cup Long
MCInputs == UNION {[1 .. n -> {0, 1, 3}] : n \in 0 .. 2}
=============================================================================
