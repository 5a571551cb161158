------------------------------ MODULE CProgram ------------------------------
(***************************************************************************)
(* The C program that dump prints with Format::C.                          *)
(*                                                                         *)
(* Each instruction becomes a call of a macro, on a line of its own.  JE   *)
(* is "while (memory[ptr] != 0) {" and JN is "}": the offsets of the jumps *)
(* are printed and ignored, and what a brace closes is a matter of nesting.*)
(***************************************************************************)
EXTENDS PrintedProgram, FiniteSetsExt

VARIABLES
  line,     \* the line of main control is at, from 0
  again     \* control is at the test of a while because its brace was reached

\* The stages are "idle", "running" and "returned".
cvars == <<bitcode, stage, line, again, ptr, memory, input, output>>

CInit == Dumped /\ stage = "idle" /\ line = 0 /\ again = FALSE

-----------------------------------------------------------------------------
(***************************************************************************)
(* Braces.                                                                 *)
(***************************************************************************)

Opened(code, I) == {i \in I : code[i].op = "JE"}
Closed(code, I) == {i \in I : code[i].op = "JN"}

\* Mutant: the first closing brace there is.
BugClosingBrace(code, i) == Min({j \in i + 1 .. Len(code) : code[j].op = "JN"})

\* The "}" of the while at position i.
ClosingBrace(code, i) ==
  Min({j \in i + 1 .. Len(code) :
         Cardinality(Opened(code, i .. j)) = Cardinality(Closed(code, i .. j))})

\* The while that the "}" at position j closes.
WhileOf(code, j) ==
  CHOOSE i \in 1 .. j : code[i].op = "JE" /\ ClosingBrace(code, i) = j

-----------------------------------------------------------------------------

CMain ==
  /\ stage = "idle"
  /\ stage' = "running"
  /\ UNCHANGED <<bitcode, line, again, ptr, memory, input, output>>

At(op) ==
  /\ stage = "running" /\ line < Len(bitcode)
  /\ bitcode[line + 1].op = op

Here == bitcode[line + 1]
NextLine == line' = line + 1 /\ UNCHANGED <<bitcode, stage, again>>

\* The macros A, S and MUL.
Assignment ==
  /\ NextLine /\ NoIO
  /\ \/ At("A") /\ memory' = [memory EXCEPT ![ptr] = (@ + Here.imm) % CellMod]
     \/ At("S") /\ memory' = [memory EXCEPT ![ptr] = Here.imm]
     \/ At("MUL") /\ memory' = [memory EXCEPT ![WrapOffset(ptr, Here.off, MemSize)] =
                                  (@ + Current * Here.imm) % CellMod]
  /\ UNCHANGED ptr

Move ==
  /\ At("M") /\ NextLine /\ NoIO
  /\ ptr' = WrapOffset(ptr, Here.off, MemSize)
  /\ UNCHANGED memory

\* F is a while of one statement; an action is one turn of it.
Find ==
  /\ At("F") /\ NoIO
  /\ IF Current # 0
       THEN ptr' = WrapOffset(ptr, Here.off, MemSize) /\ UNCHANGED line
       ELSE line' = line + 1 /\ UNCHANGED ptr
  /\ UNCHANGED <<bitcode, stage, again, memory>>

\* Position i is line i - 1, so the line behind the brace at i is line i.
WhileTest ==
  /\ At("JE") /\ NoIO
  /\ line' = IF Current # 0 THEN line + 1 ELSE ClosingBrace(bitcode, line + 1)
  /\ again' = FALSE
  /\ UNCHANGED <<bitcode, stage, ptr, memory>>

\* Nothing is written here, and what was written last is left to be seen until
\* the test that follows.
CloseBrace ==
  /\ At("JN") /\ UNCHANGED <<input, output>>
  /\ line' = WhileOf(bitcode, line + 1) - 1
  /\ again' = TRUE
  /\ UNCHANGED <<bitcode, stage, ptr, memory>>

\* brainfunk_io; getchar gives EOF at the end of stdin.
BrainfunkIO ==
  /\ At("IO") /\ NextLine
  /\ IF Here.imm = IO_IN
       THEN /\ memory' = [memory EXCEPT ![ptr] = IF input = <<>> THEN 0 ELSE Head(input)]
            /\ input' = IF input = <<>> THEN <<>> ELSE Tail(input)
            /\ output' = <<>>
       ELSE output' = <<Current>> /\ UNCHANGED <<memory, input>>
  /\ UNCHANGED ptr

\* H returns from main, and so does its end.  The macro X does nothing, but no
\* program that translate returns has one.
Return ==
  /\ stage = "running"
  /\ At("H") \/ line = Len(bitcode)
  /\ stage' = "returned" /\ NoIO
  /\ UNCHANGED <<bitcode, line, again, ptr, memory>>

CExecute ==
  \/ Assignment \/ Move \/ Find \/ WhileTest \/ CloseBrace \/ BrainfunkIO
  \/ Return

CNext == CMain \/ CExecute

\* A compiled program that was started runs on.
CSpec == CInit /\ [][CNext]_cvars /\ WF_cvars(CExecute)

-----------------------------------------------------------------------------
(***************************************************************************)
(* The C program implements the bitcode machine: its braces do what the    *)
(* offsets say.                                                            *)
(***************************************************************************)

\* The machine tests at JN what C tests when control is back at the while: up
\* to that test the machine is still at the JN.
MachinePc == IF again THEN ClosingBrace(bitcode, line + 1) - 1 ELSE line

MachineStatus ==
  CASE stage = "idle"     -> "idle"
    [] stage = "running"  -> "running"
    [] stage = "returned" -> "halted"

CInterpreter == INSTANCE Machine WITH pc <- MachinePc, status <- MachineStatus

\* Every run of the compiled program is a run of the library's machine on the
\* same bitcode: same tape, same input consumed, same output.
CObeysMachine == CInterpreter!Spec
=============================================================================
