------------------------------- MODULE Sketch -------------------------------
(***************************************************************************)
(* The Arduino interpreter: a program in flash memory, obeyed directly,    *)
(* with a loop stack of fixed size and the serial line as its stdin and    *)
(* stdout.  Nothing is validated: what a code must be for this to go well  *)
(* is Suits.  The banner and the LED are left out.                         *)
(***************************************************************************)
EXTENDS BFSource, Functions

CONSTANTS
  CellMod,    \* number of values of memory_t
  MemSize,    \* MEMSIZE
  WordMod,    \* number of values of arg_t
  StackSize,  \* STACKSIZE
  CR, LF,     \* '\r' and '\n'
  Codes,      \* the programs that may be compiled in
  Inputs      \* what may come over the serial line

ASSUME CellModAssumption == CellMod \in Nat /\ {CR, LF} \subseteq 0 .. CellMod - 1
ASSUME CodesAssumption == Codes \subseteq Seq(Char)
ASSUME InputsAssumption == Inputs \subseteq Seq(0 .. CellMod - 1)

\* MEMSIZE is a power of two, which makes the mask a remainder.
ASSUME MemSizeAssumption ==
  MemSize \in Nat \ {0} /\ WordMod \in Nat /\ WordMod % MemSize = 0
ASSUME StackSizeAssumption == StackSize \in 1 .. WordMod - 1

VARIABLES
  code,       \* code, without its '\0'
  mode,       \* "setup", "running", "done", "quit" or "undefined"
  pc,
  stack, stack_ptr,
  ptr, memory,
  coming,     \* bytes on the serial line
  rx,         \* bytes that have been received and not read
  output      \* what the sketch's last action wrote

machine == <<stack, stack_ptr, ptr, memory>>
sketchvars == <<code, mode, pc, machine, coming, rx, output>>

Init ==
  /\ code \in Codes /\ mode = "setup"
  /\ pc = 0 /\ ptr = 0 /\ stack_ptr = 0
  /\ memory = [a \in 0 .. MemSize - 1 |-> 0]
  /\ stack = [a \in 0 .. StackSize - 1 |-> 0]
  /\ coming \in Inputs /\ rx = <<>> /\ output = <<>>

Setup ==
  /\ mode = "setup" /\ mode' = "running"
  /\ UNCHANGED <<code, pc, machine, coming, rx, output>>

\* A byte that is received while the buffer is full is lost: it is not among
\* those that come.
Arrive ==
  /\ coming # <<>>
  /\ coming' = Tail(coming) /\ rx' = Append(rx, Head(coming))
  /\ UNCHANGED <<code, mode, pc, machine, output>>

-----------------------------------------------------------------------------
(***************************************************************************)
(* interprete, one action for each case.                                   *)
(***************************************************************************)

Reads(ch) == mode = "running" /\ pc < Len(code) /\ code[pc + 1] = ch
Silent == output' = <<>> /\ UNCHANGED <<coming, rx>>
NextChar == pc' = pc + 1 /\ UNCHANGED <<code, mode>>

Change(ch, d) ==
  /\ Reads(ch) /\ NextChar /\ Silent
  /\ memory' = [memory EXCEPT ![ptr] = (@ + d) % CellMod]
  /\ UNCHANGED <<stack, stack_ptr, ptr>>

Move(ch, d) ==
  /\ Reads(ch) /\ NextChar /\ Silent
  /\ ptr' = ((ptr + d) % WordMod) % MemSize
  /\ UNCHANGED <<stack, stack_ptr, memory>>

\* Mutant: level counts the brackets that open only.
BugExitLoop(p) ==
  CHOOSE q \in p .. Len(code) :
    /\ q = Len(code) \/ code[q + 1] = "]"
    /\ \A r \in p .. q - 1 : code[r + 1] # "]"

\* exit_loop from the '[' at p: the place of its ']', or of the '\0'.
ExitLoop(p) ==
  CHOOSE q \in p .. Len(code) :
    /\ q = Len(code) \/ Depth(code, q + 1) = Depth(code, p)
    /\ \A r \in p .. q - 1 : Depth(code, r + 1) > Depth(code, p)

Skip ==
  /\ Reads("[") /\ memory[ptr] = 0 /\ Silent
  /\ pc' = ExitLoop(pc) + 1
  /\ UNCHANGED <<code, mode, machine>>

\* Mutant: the place is stored before the pointer is moved.
BugPush ==
  /\ Reads("[") /\ memory[ptr] # 0 /\ Silent
  /\ stack' = [stack EXCEPT ![stack_ptr] = pc]
  /\ stack_ptr' = (stack_ptr + 1) % WordMod
  /\ NextChar
  /\ UNCHANGED <<ptr, memory>>

\* Slot 0 is used only after stack_ptr has gone below zero.
Push ==
  /\ Reads("[") /\ memory[ptr] # 0 /\ Silent
  /\ LET top == (stack_ptr + 1) % WordMod
     IN /\ stack_ptr' = top
        /\ IF top < StackSize
             THEN stack' = [stack EXCEPT ![top] = pc] /\ NextChar
             ELSE mode' = "undefined" /\ UNCHANGED <<code, pc, stack>>
  /\ UNCHANGED <<ptr, memory>>

Repeat ==
  /\ Reads("]") /\ memory[ptr] # 0 /\ Silent
  /\ IF stack_ptr < StackSize
       THEN pc' = stack[stack_ptr] + 1 /\ UNCHANGED mode
       ELSE mode' = "undefined" /\ UNCHANGED pc
  /\ UNCHANGED <<code, machine>>

\* Mutant: the loop is not dropped.
BugDrop ==
  /\ Reads("]") /\ memory[ptr] = 0 /\ NextChar /\ Silent
  /\ UNCHANGED machine

Drop ==
  /\ Reads("]") /\ memory[ptr] = 0 /\ NextChar /\ Silent
  /\ stack_ptr' = (stack_ptr - 1) % WordMod
  /\ UNCHANGED <<stack, ptr, memory>>

\* Mutant: readchar waits while there is one byte or none.
BugIn ==
  /\ Reads(",") /\ NextChar /\ Len(rx) > 1
  /\ memory' = [memory EXCEPT ![ptr] = Head(rx)]
  /\ rx' = Tail(rx) /\ output' = <<>>
  /\ UNCHANGED <<stack, stack_ptr, ptr, coming>>

\* readchar waits until there is a byte.
In ==
  /\ Reads(",") /\ NextChar /\ rx # <<>>
  /\ memory' = [memory EXCEPT ![ptr] = Head(rx)]
  /\ rx' = Tail(rx) /\ output' = <<>>
  /\ UNCHANGED <<stack, stack_ptr, ptr, coming>>

\* writechar.
Out ==
  /\ Reads(".") /\ NextChar
  /\ output' = IF memory[ptr] = LF THEN <<CR, LF>> ELSE <<memory[ptr]>>
  /\ UNCHANGED <<machine, coming, rx>>

\* The '\0', and every character that is no instruction: quit does not return.
Quit ==
  /\ mode = "running" /\ Silent
  /\ \/ pc = Len(code) /\ mode' = "done"
     \/ Reads("#") /\ mode' = "quit"
  /\ UNCHANGED <<code, pc, machine>>

\* exit_loop has stopped at the '\0' and pc was incremented.
PastTheEnd ==
  /\ mode = "running" /\ pc > Len(code)
  /\ mode' = "undefined" /\ Silent
  /\ UNCHANGED <<code, pc, machine>>

Interprete ==
  \/ Change("+", 1) \/ Change("-", -1) \/ Move(">", 1) \/ Move("<", -1)
  \/ Skip \/ Push \/ Repeat \/ Drop \/ In \/ Out
  \/ Quit \/ PastTheEnd

Next == Setup \/ Interprete \/ Arrive

Spec ==
  /\ Init /\ [][Next]_sketchvars
  /\ WF_sketchvars(Interprete) /\ WF_sketchvars(Arrive)

-----------------------------------------------------------------------------
(***************************************************************************)
(* Properties.                                                             *)
(***************************************************************************)

\* A code the sketch can run: instructions only, brackets matched, and no more
\* loops in one another than the stack has slots, of which one is never used.
Suits(t) ==
  /\ t \in Seq(InstructionChar) /\ Balanced(t)
  /\ \A k \in DOMAIN t : Depth(t, k) < StackSize

\* The tape and the stack keep their bounds for every code, suitable or not.
TypeOK ==
  /\ mode \in {"setup", "running", "done", "quit", "undefined"}
  /\ pc \in 0 .. Len(code) + 1
  /\ stack_ptr \in 0 .. WordMod - 1
  /\ stack \in [0 .. StackSize - 1 -> 0 .. Len(code)]
  /\ ptr \in 0 .. MemSize - 1
  /\ memory \in [0 .. MemSize - 1 -> 0 .. CellMod - 1]

\* interprete checks no access to the stack or to the code: no run of a suitable
\* code makes one that is out of bounds, however often its loops are entered;
\* the tape keeps its bounds for every code.
NothingUndefined == TypeOK /\ (Suits(code) => mode # "undefined")

\* Between two characters the used slots of the stack are the loops that pc is
\* in, the outermost first, whatever has been skipped and repeated.
StackIsOpenLoops ==
  Suits(code) =>
    /\ pc <= Len(code) => stack_ptr = Depth(code, pc)
    /\ \A i \in 1 .. stack_ptr :
         /\ stack[i] < pc /\ code[stack[i] + 1] = "["
         /\ Depth(code, stack[i] + 1) = i
         /\ ExitLoop(stack[i]) >= pc

Status ==
  CASE ~Suits(code)     -> "unsuited"
    [] mode = "setup"   -> "idle"
    [] mode = "running" -> "running"
    [] mode = "done"    -> "ended"
    [] OTHER            -> "wrong"

Lang ==
  INSTANCE Language WITH
    Programs <- Codes, InputEnds <- FALSE, status <- Status, at <- pc,
    input <- rx \o coming,
    output <- IF output = <<CR, LF>> THEN <<LF>> ELSE output

\* The sketch is an interpreter of Brainfuck for every code that suits it: a
\* byte is read once and in order however it arrives, '\n' is all that is
\* written otherwise, and it goes on unless it reads what nobody sends.
SuitedObeysLanguage ==
  /\ Suits(code) => Lang!Init
  /\ [][Suits(code) => Lang!Next]_(Lang!langvars)
  /\ Lang!Fairness
=============================================================================
