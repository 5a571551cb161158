------------------------------ MODULE Brainfunk ------------------------------
(***************************************************************************)
(* The class Brainfunk: one object that translates and executes, and a     *)
(* caller that uses its public operations in any order.                    *)
(*                                                                         *)
(* translate replaces bitcode_ and touches neither pc_ nor ptr_ nor        *)
(* memory_; run resets those three first, step does not.  So a step may    *)
(* start in a program with a pc_ left over from another one.               *)
(***************************************************************************)
EXTENDS Translator

CONSTANT Inputs   \* what the streams passed to run and step may hold

ASSUME InputsAssumption == Inputs \subseteq Seq(Cell)

VARIABLES
  call,                                    \* the operation in progress
  pc, ptr, memory, input, output, status   \* the machine

bvars == <<vars, call, pc, ptr, memory, input, output, status>>

M == INSTANCE Machine WITH Programs <- {}

BrainfunkInit ==
  /\ Init
  /\ call = "none"
  /\ pc = 0 /\ ptr = 0 /\ memory = M!BlankMemory
  /\ input = <<>> /\ output = <<>> /\ status = "idle"

-----------------------------------------------------------------------------

CallTranslate(s) ==
  /\ call = "none" /\ call' = "translate"
  /\ Begin(s)
  /\ UNCHANGED <<pc, ptr, memory, input, output, status>>

TranslateStep ==
  /\ call = "translate"
  /\ CallStep
  /\ call' = IF phase' \in Resting THEN "none" ELSE call
  /\ UNCHANGED <<pc, ptr, memory, input, output, status>>

\* Mutant: run starts where the last execution ended.
BugCallRun ==
  /\ call = "none" /\ call' = "run"
  /\ status' = "running"
  /\ input' \in Inputs /\ output' = <<>>
  /\ UNCHANGED <<vars, pc, ptr, memory>>

CallRun ==
  /\ call = "none" /\ call' = "run"
  /\ M!ResetState
  /\ status' = "running"
  /\ input' \in Inputs /\ output' = <<>>
  /\ UNCHANGED vars

RunStep ==
  /\ call = "run"
  /\ M!Step
  /\ call' = IF status' = "running" THEN call ELSE "none"
  /\ UNCHANGED <<src, phase, pos, open, stack>>

CallOneStep ==
  /\ call = "none" /\ call' = "step"
  /\ status' = "running"
  /\ input' \in Inputs /\ output' = <<>>
  /\ UNCHANGED <<vars, pc, ptr, memory>>

\* A step is one instruction: all the turns of the loop of an F.
OneStep ==
  /\ call = "step"
  /\ M!Step
  /\ call' = IF pc < Len(bitcode) /\ bitcode[pc + 1].op = "F" /\ memory[ptr] # 0
               THEN call ELSE "none"
  /\ UNCHANGED <<src, phase, pos, open, stack>>

CallResetState ==
  /\ call = "none"
  /\ M!ResetState
  /\ UNCHANGED <<vars, call, input, output, status>>

\* clear: reset_state, and the bitcode goes too.
Clear ==
  /\ call = "none"
  /\ M!ResetState
  /\ bitcode' = <<>>
  /\ UNCHANGED <<src, phase, pos, open, stack, call, input, output, status>>

BrainfunkNext ==
  \/ \E s \in Sources : CallTranslate(s)
  \/ TranslateStep
  \/ CallRun \/ RunStep
  \/ CallOneStep \/ OneStep
  \/ CallResetState \/ Clear

\* An operation that was called goes on; the caller need not call anything.
BrainfunkSpec ==
  /\ BrainfunkInit /\ [][BrainfunkNext]_bvars
  /\ WF_bvars(TranslateStep) /\ WF_bvars(RunStep) /\ WF_bvars(OneStep)

-----------------------------------------------------------------------------
(***************************************************************************)
(* Properties.                                                             *)
(***************************************************************************)

\* Every address an operation may use lies on the tape, pc_ never wraps below
\* zero, and a cell is a byte, whatever was called before.
MachineTypeOK ==
  /\ M!TypeOK
  /\ call \in {"none", "translate", "run", "step"}

\* Between operations the object holds no code or a complete program, even
\* after a translate that threw; so no execution throws.
NoHalfPrograms ==
  /\ call # "translate" => bitcode = <<>> \/ WellFormed(bitcode)
  /\ status # "threw"

\* A run of a program ends at its H, wherever earlier operations left pc_.
RunStaysInProgram ==
  (call = "run" /\ bitcode # <<>>) => pc < Len(bitcode)
=============================================================================
