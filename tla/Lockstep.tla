------------------------------ MODULE Lockstep ------------------------------
(***************************************************************************)
(* One source, translated and run by libbrainfunk and obeyed by the direct *)
(* interpreter, side by side.                                              *)
(*                                                                         *)
(* First the source is translated; `origin` records for each instruction   *)
(* how many characters had been consumed when it was emitted.  Then the    *)
(* two machines take turns: the bitcode machine runs to the next           *)
(* instruction that begins a new piece of source, and the interpreter runs *)
(* until it reaches that piece.  Whenever both are there, they must agree. *)
(*                                                                         *)
(* Both tapes have MemSize cells here; in the code bf has 2^20 and         *)
(* libbrainfunk 2^16 of them.                                              *)
(***************************************************************************)
EXTENDS Translator

CONSTANTS WordMod, Inputs

ASSUME InputsAssumption == Inputs \subseteq Seq(Cell)

\* As in DirectBF: the tape's size divides the range of bf's pointer.
ASSUME WordAssumption == WordMod \in Nat \ {0} /\ WordMod % MemSize = 0

VARIABLES
  origin,                               \* history: the source of each instruction
  turn,                                 \* whose turn it is
  target,                               \* where the interpreter has to get
  pc, ptr, memory, input, output, status,    \* the machine
  mode, c, dstack, dptr, dmemory, dinput, doutput,  \* the interpreter
  said                                  \* what the interpreter wrote this turn

mvars == <<pc, ptr, memory, input, output, status>>
dvars == <<mode, c, dstack, dptr, dmemory, dinput, doutput>>
lvars == <<vars, origin, turn, target, mvars, dvars, said>>

M == INSTANCE Machine WITH Programs <- {}
D == INSTANCE DirectBF WITH
       code <- src, stack <- dstack, ptr <- dptr, memory <- dmemory,
       input <- dinput, output <- doutput

LockstepInit ==
  /\ src \in Sources /\ phase = "validate" /\ pos = 0 /\ open = 0
  /\ bitcode = <<>> /\ stack = <<>>
  /\ origin = <<>> /\ turn = "translate" /\ target = 0 /\ said = <<>>
  /\ pc = 0 /\ ptr = 0 /\ memory = M!BlankMemory
  /\ input \in Inputs /\ output = <<>> /\ status = "idle"
  /\ mode = "options" /\ c = 0 /\ dstack = <<>>
  /\ dptr = 0 /\ dmemory = D!BlankTape /\ dinput = input /\ doutput = <<>>

Translate ==
  /\ turn = "translate"
  /\ CallStep
  /\ origin' = origin \o [i \in 1 .. Len(bitcode') - Len(bitcode) |-> pos]
  /\ UNCHANGED <<turn, target, mvars, dvars, said>>

StartBoth ==
  /\ turn = "translate" /\ phase = "done"
  /\ turn' = "machine"
  /\ M!ResetState /\ status' = "running" /\ UNCHANGED <<input, output>>
  /\ D!Start
  /\ UNCHANGED <<vars, origin, target, said>>

\* The instruction at address a is the first of its piece of source.
Boundary(a) == a = 0 \/ origin[a + 1] # origin[a]

\* A machine that stays at an F has done one turn of the source's loop, and the
\* interpreter is then at the ']' of that loop.
InScan == bitcode[pc + 1].op = "F" /\ memory[ptr] # 0

MachineStep ==
  /\ turn = "machine"
  /\ M!Step
  /\ turn' = IF status' = "running" /\ ~Boundary(pc') THEN "machine" ELSE "direct"
  /\ target' = IF InScan THEN D!MatchingClose(src, origin[pc + 1] + 1) - 1
                         ELSE origin[pc' + 1]
  /\ said' = <<>>
  /\ UNCHANGED <<src, phase, pos, open, stack, origin, dvars>>

\* A halted machine waits for the interpreter to finish.
DirectStep ==
  /\ turn = "direct"
  /\ D!Interprete
  /\ turn' = CASE mode' = "finished"                 -> "over"
               [] status = "running" /\ c' = target -> "machine"
               [] OTHER                              -> "direct"
  /\ said' = said \o doutput'
  /\ UNCHANGED <<phase, pos, open, bitcode, stack, origin, target, mvars>>

LockstepNext == Translate \/ StartBoth \/ MachineStep \/ DirectStep

LockstepSpec ==
  /\ LockstepInit /\ [][LockstepNext]_lvars
  /\ WF_lvars(Translate) /\ WF_lvars(StartBoth)
  /\ WF_lvars(MachineStep) /\ WF_lvars(DirectStep)

-----------------------------------------------------------------------------
(***************************************************************************)
(* Properties.                                                             *)
(***************************************************************************)

\* The two machines have the same tape, have read as much, and wrote the same.
Agree ==
  /\ ptr = dptr /\ memory = dmemory
  /\ input = dinput /\ output = said

Meeting == turn = "over" \/ (turn = "machine" /\ Boundary(pc))

\* A MUL that reads the cell it writes, the one the loop counts down.
HomeUntouched ==
  \A i \in DOMAIN bitcode :
    bitcode[i].op = "MUL" => bitcode[i].off % MemSize # 0

\* The optimised code does what the source says: at every point where both are
\* at the same piece of it, and when both have ended, they agree.
AgreeUnlessHomeTouched == (Meeting /\ HomeUntouched) => Agree

\* They also end together: the interpreter ends only when the machine has halted.
\* Under the same condition, as a MUL onto the cell its loop counts down may leave
\* one of them in a later loop that the other passes.
EndTogether == (turn = "over" /\ HomeUntouched) => status = "halted"

InterpreterFollows == (turn = "direct" /\ HomeUntouched) ~> (turn # "direct")

\* What a comparison implementation is for: the same program does the same in
\* both, whatever its loops look like.
AlwaysAgree == Meeting => Agree
=============================================================================
