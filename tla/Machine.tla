------------------------------- MODULE Machine -------------------------------
(***************************************************************************)
(* Bitcode::execute and Brainfunk::step, run and reset_state: the machine  *)
(* that interprets a program over a circular tape.                         *)
(*                                                                         *)
(* One action is one instruction, except that F, whose loop may never end, *)
(* is one action per turn of its loop.                                     *)
(***************************************************************************)
EXTENDS Bitcode

CONSTANTS
  Programs,   \* the contents bitcode_ may have when run is called
  Inputs      \* what the input stream may hold

ASSUME ProgramsAssumption == Programs \subseteq Seq(Instruction)
ASSUME InputsAssumption == Inputs \subseteq Seq(Cell)

VARIABLES
  bitcode,  \* bitcode_
  pc,       \* pc_, from 0
  ptr,      \* ptr_
  memory,   \* memory_
  input,    \* what is left in the input stream
  output,   \* what the last action wrote
  status    \* "idle" before run, "running" inside it, then "halted" or "threw"

mvars == <<bitcode, pc, ptr, memory, input, output, status>>

At == bitcode[pc + 1]
Current == memory[ptr]

\* memory_ is zero, ptr_ and pc_ point to its start.
BlankMemory == [a \in Address |-> 0]

ResetState == memory' = BlankMemory /\ ptr' = 0 /\ pc' = 0

-----------------------------------------------------------------------------
(***************************************************************************)
(* step: nothing happens past the end of the program; otherwise one        *)
(* instruction.                                                            *)
(***************************************************************************)

Executes(op) ==
  /\ status = "running"
  /\ pc < Len(bitcode)
  /\ At.op = op

Continue == pc' = pc + 1 /\ UNCHANGED <<bitcode, status>>
NoIO == UNCHANGED input /\ output' = <<>>

A ==
  /\ Executes("A") /\ Continue /\ NoIO
  /\ memory' = [memory EXCEPT ![ptr] = (@ + At.imm) % CellMod]
  /\ UNCHANGED ptr

S ==
  /\ Executes("S") /\ Continue /\ NoIO
  /\ memory' = [memory EXCEPT ![ptr] = At.imm]
  /\ UNCHANGED ptr

MUL ==
  /\ Executes("MUL") /\ Continue /\ NoIO
  /\ memory' = [memory EXCEPT ![WrapOffset(ptr, At.off, MemSize)] =
                                 (@ + Current * At.imm) % CellMod]
  /\ UNCHANGED ptr

\* The loop leaves when the current cell is zero and moves on otherwise.
F ==
  /\ Executes("F") /\ NoIO
  /\ IF Current = 0
       THEN pc' = pc + 1 /\ UNCHANGED ptr
       ELSE ptr' = WrapOffset(ptr, At.off, MemSize) /\ UNCHANGED pc
  /\ UNCHANGED <<bitcode, memory, status>>

\* Mutant: an offset that leaves the tape is added as it is.
BugM ==
  /\ Executes("M") /\ Continue /\ NoIO
  /\ ptr' = (ptr + At.off)
  /\ UNCHANGED memory

M ==
  /\ Executes("M") /\ Continue /\ NoIO
  /\ ptr' = WrapOffset(ptr, At.off, MemSize)
  /\ UNCHANGED memory

\* Mutant: a taken jump lands one instruction too far.
BugJE ==
  /\ Executes("JE") /\ NoIO
  /\ pc' = (IF Current = 0 THEN pc + At.off + 1 ELSE pc) + 1
  /\ UNCHANGED <<bitcode, ptr, memory, status>>

\* A taken jump lands behind the partner: pc is incremented all the same.
JE ==
  /\ Executes("JE") /\ NoIO
  /\ pc' = (IF Current = 0 THEN pc + At.off ELSE pc) + 1
  /\ UNCHANGED <<bitcode, ptr, memory, status>>

\* Mutant: the condition of JN is that of JE.
BugJN ==
  /\ Executes("JN") /\ NoIO
  /\ pc' = (IF Current = 0 THEN pc + At.off ELSE pc) + 1
  /\ UNCHANGED <<bitcode, ptr, memory, status>>

JN ==
  /\ Executes("JN") /\ NoIO
  /\ pc' = (IF Current # 0 THEN pc + At.off ELSE pc) + 1
  /\ UNCHANGED <<bitcode, ptr, memory, status>>

\* The end of the stream reads as zero.
IO ==
  /\ Executes("IO") /\ Continue
  /\ IF At.imm = IO_IN
       THEN /\ memory' = [memory EXCEPT ![ptr] = IF input = <<>> THEN 0 ELSE Head(input)]
            /\ input' = IF input = <<>> THEN <<>> ELSE Tail(input)
            /\ output' = <<>>
       ELSE output' = <<Current>> /\ UNCHANGED <<memory, input>>
  /\ UNCHANGED ptr

\* step returns false at H and past the end of the program; X throws.
Stop ==
  /\ status = "running"
  /\ pc < Len(bitcode) => At.op \in {"H", "X"}
  /\ status' = IF pc < Len(bitcode) /\ At.op = "X" THEN "threw" ELSE "halted"
  /\ NoIO
  /\ UNCHANGED <<bitcode, pc, ptr, memory>>

Step == A \/ S \/ MUL \/ F \/ M \/ JE \/ JN \/ IO \/ Stop

-----------------------------------------------------------------------------

Init ==
  /\ bitcode \in Programs /\ input \in Inputs
  /\ pc = 0 /\ ptr = 0 /\ memory = BlankMemory
  /\ output = <<>> /\ status = "idle"

\* run: reset_state and steps until one returns false.
Run ==
  /\ status # "running"
  /\ ResetState
  /\ input' \in Inputs /\ output' = <<>>
  /\ status' = "running"
  /\ UNCHANGED bitcode

Next == Run \/ Step

Spec == Init /\ [][Next]_mvars /\ WF_mvars(Step)

-----------------------------------------------------------------------------
(***************************************************************************)
(* Properties.                                                             *)
(***************************************************************************)

TypeOK ==
  /\ bitcode \in Seq(Instruction)
  /\ pc \in Nat
  /\ ptr \in Address
  /\ memory \in [Address -> Cell]
  /\ input \in Seq(Cell)
  /\ output \in Seq(Cell)
  /\ status \in {"idle", "running", "halted", "threw"}

\* A complete program never runs off its end: it stops only at its H, and the
\* exception for a placeholder is never raised.
StaysInProgram ==
  WellFormed(bitcode) =>
    /\ pc < Len(bitcode)
    /\ status # "threw"
    /\ status = "halted" => At.op = "H"

\* pc is behind the JE at position i and not yet behind its JN.
InLoop(i, a) == bitcode[i].op = "JE" /\ i <= a /\ a < i + bitcode[i].off

\* Jumps make loops and nothing else: control enters the body of a loop only
\* from its JE and leaves it only from its JN, the first with a cell that is
\* not zero and the second with one that is, and a JE that does not enter goes
\* behind its JN.  This is what lets dump print "while (memory[ptr] != 0) {"
\* for JE and "}" for JN.
LoopsAreStructured ==
  [][WellFormed(bitcode) /\ status = "running" =>
       \A i \in DOMAIN bitcode :
         /\ ~InLoop(i, pc) /\ InLoop(i, pc') => pc + 1 = i /\ Current # 0
         /\ InLoop(i, pc) /\ ~InLoop(i, pc') =>
              pc + 1 = i + bitcode[i].off /\ pc' = pc + 1 /\ Current = 0
         /\ bitcode[i].op = "JE" /\ pc + 1 = i /\ ~InLoop(i, pc') =>
              pc' = i + bitcode[i].off]_mvars
=============================================================================
