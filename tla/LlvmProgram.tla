---------------------------- MODULE LlvmProgram ----------------------------
(***************************************************************************)
(* dump_llvm_ir and the program it prints.                                 *)
(*                                                                         *)
(* The emitter prints one labelled block per instruction, in order: offsets*)
(* are reduced to the tape and relative jumps become labels while printing.*)
(* The printed function is then called once by llvm-ir-wrapper.c.          *)
(***************************************************************************)
EXTENDS PrintedProgram

CONSTANT WrapperTape   \* BRAINFUNK_TAPE_SIZE, the tape the wrapper allocates

VARIABLES
  blocks,   \* the blocks printed so far; the label inst.a is block a + 1
  result,   \* what brainfunk_program returned
  label     \* the block control is in

lvars == <<bitcode, blocks, stage, result, label, ptr, memory, input, output>>

\* "rejected" is an exception of the emitter.
Stages == {"emitting", "rejected", "emitted", "running", "returned"}

LlvmInit == Dumped /\ blocks = <<>> /\ stage = "emitting" /\ result = 0 /\ label = 0

-----------------------------------------------------------------------------
(***************************************************************************)
(* The emitter.                                                            *)
(***************************************************************************)

\* Mutant: the base is the jump, not the instruction behind it.
BugJumpTargets(pc, offset, count) ==
  IF offset >= 0 THEN {t \in {pc + offset} : pc < count /\ offset < count - pc}
                 ELSE {t \in {pc + offset} : -offset <= pc}

\* Mutant: one label too far.
FarJumpTargets(pc, offset, count) ==
  LET base == pc + 1
  IN  IF offset >= 0
        THEN {t \in {base + offset + 1} : base < count /\ offset < count - base}
        ELSE {t \in {base + offset} : -offset <= base}

\* Mutant: a jump to the last instruction is taken for one outside.
NearJumpTargets(pc, offset, count) ==
  LET base == pc + 1
  IN  IF offset >= 0
        THEN {t \in {base + offset} : base < count /\ offset < count - base - 1}
        ELSE {t \in {base + offset} : -offset <= base}

\* jump_target: one label, or none where the code throws.
JumpTargets(pc, offset, count) ==
  LET base == pc + 1
  IN  IF offset >= 0
        THEN {t \in {base + offset} : base < count /\ offset < count - base}
        ELSE {t \in {base + offset} : -offset <= base}

Normalized(offset) == WrapOffset(0, offset, MemSize)

\* What a block says; a block of JE or JN has one target, any other none.
Block(pc, targets) ==
  LET i == bitcode[pc + 1]
  IN  [op |-> i.op, imm |-> i.imm, off |-> Normalized(i.off), targets |-> targets]

Targets(pc) ==
  IF bitcode[pc + 1].op \in {"JE", "JN"}
    THEN JumpTargets(pc, bitcode[pc + 1].off, Len(bitcode))
    ELSE {}

\* "Cannot emit LLVM IR for empty bitcode"
RefuseEmpty ==
  /\ stage = "emitting" /\ bitcode = <<>>
  /\ stage' = "rejected"
  /\ UNCHANGED <<bitcode, blocks, result, label, ptr, memory, input, output>>

\* One turn of the loop; the exception leaves what is printed in the output.
EmitBlock ==
  /\ stage = "emitting" /\ Len(blocks) < Len(bitcode)
  /\ LET pc == Len(blocks)
     IN  IF bitcode[pc + 1].op \in {"JE", "JN"} /\ Targets(pc) = {}
           THEN stage' = "rejected" /\ UNCHANGED blocks
           ELSE blocks' = Append(blocks, Block(pc, Targets(pc))) /\ UNCHANGED stage
  /\ UNCHANGED <<bitcode, result, label, ptr, memory, input, output>>

EmitEnd ==
  /\ stage = "emitting" /\ bitcode # <<>> /\ Len(blocks) = Len(bitcode)
  /\ stage' = "emitted"
  /\ UNCHANGED <<bitcode, blocks, result, label, ptr, memory, input, output>>

-----------------------------------------------------------------------------
(***************************************************************************)
(* The printed program.                                                    *)
(***************************************************************************)

Returns(r) == stage' = "returned" /\ result' = r

\* main of the wrapper, and the blocks before inst.0.
LlvmMain ==
  /\ stage = "emitted"
  /\ IF WrapperTape = MemSize
       THEN stage' = "running" /\ UNCHANGED result
       ELSE Returns(1)
  /\ UNCHANGED <<bitcode, blocks, label, ptr, memory, input, output>>

In(op) == stage = "running" /\ blocks[label + 1].op = op
This == blocks[label + 1]
Target == CHOOSE t \in This.targets : TRUE
Stay == UNCHANGED <<bitcode, blocks, stage, result>>
Next1 == label' = label + 1 /\ Stay

Arithmetic ==
  /\ Next1 /\ NoIO
  /\ \/ In("A") /\ memory' = [memory EXCEPT ![ptr] = (@ + This.imm) % CellMod]
     \/ In("S") /\ memory' = [memory EXCEPT ![ptr] = This.imm]
     \/ In("MUL") /\ memory' = [memory EXCEPT ![(ptr + This.off) % MemSize] =
                                  (@ + Current * This.imm) % CellMod]
  /\ UNCHANGED ptr

MovePointer ==
  /\ In("M") /\ Next1 /\ NoIO
  /\ ptr' = (ptr + This.off) % MemSize
  /\ UNCHANGED memory

\* scan.test and, when it fails, scan.move.
Scan ==
  /\ In("F") /\ Stay /\ NoIO
  /\ IF Current = 0 THEN label' = label + 1 /\ UNCHANGED ptr
                    ELSE ptr' = (ptr + This.off) % MemSize /\ UNCHANGED label
  /\ UNCHANGED memory

Branch ==
  /\ \/ In("JE") /\ label' = IF Current = 0 THEN Target ELSE label + 1
     \/ In("JN") /\ label' = IF Current # 0 THEN Target ELSE label + 1
  /\ Stay /\ NoIO
  /\ UNCHANGED <<ptr, memory>>

\* getchar, behind read_byte.
EOF == -1
GetChar == IF input = <<>> THEN EOF ELSE Head(input)

ReadByte ==
  /\ In("IO") /\ This.imm = IO_IN /\ Next1
  /\ memory' = [memory EXCEPT ![ptr] = IF GetChar = EOF THEN 0 ELSE GetChar % CellMod]
  /\ input' = IF input = <<>> THEN <<>> ELSE Tail(input)
  /\ output' = <<>>
  /\ UNCHANGED ptr

WriteByte ==
  /\ In("IO") /\ This.imm # IO_IN /\ Next1
  /\ output' = <<Current>>
  /\ UNCHANGED <<ptr, memory, input>>

Ret ==
  /\ stage = "running" /\ This.op \in {"H", "X"}
  /\ Returns(IF This.op = "H" THEN 0 ELSE 2)
  /\ NoIO
  /\ UNCHANGED <<bitcode, blocks, label, ptr, memory>>

LlvmExecute ==
  Arithmetic \/ MovePointer \/ Scan \/ Branch \/ ReadByte \/ WriteByte \/ Ret

LlvmNext == RefuseEmpty \/ EmitBlock \/ EmitEnd \/ LlvmMain \/ LlvmExecute

\* A printed program that was called runs on.
LlvmSpec == LlvmInit /\ [][LlvmNext]_lvars /\ WF_lvars(LlvmExecute)

-----------------------------------------------------------------------------
(***************************************************************************)
(* Properties.                                                             *)
(***************************************************************************)

\* jump_target never throws for a complete program: the only program that is
\* refused is the empty one.
OnlyEmptyIsRefused ==
  WellFormed(bitcode) => stage # "rejected"

\* Every label a printed block branches to is printed too; a compiler refuses a
\* module with one that is not.
Successors(a) ==
  LET b == blocks[a + 1]
  IN  b.targets \cup (IF b.op \in {"H", "X"} THEN {} ELSE {a + 1})

LabelsExist ==
  stage = "emitted" =>
    \A a \in 0 .. Len(blocks) - 1 : Successors(a) \subseteq 0 .. Len(blocks) - 1

\* The compiled program does what the library's run does, instruction for
\* instruction, although it computes its jumps and offsets in another way.
LlvmStatus ==
  CASE stage = "running" -> "running"
    [] stage = "returned" /\ result = 0 -> "halted"
    [] stage = "returned" /\ result = 2 -> "threw"
    [] OTHER -> "idle"

LlvmInterpreter == INSTANCE Machine WITH pc <- label, status <- LlvmStatus

LlvmObeysMachine == LlvmInterpreter!Spec
=============================================================================
