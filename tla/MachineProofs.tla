---------------------------- MODULE MachineProofs ----------------------------
(***************************************************************************)
(* Proofs about the bitcode machine and the visualizer that shows it.      *)
(*                                                                         *)
(* Bitcode::execute, over a program translate can have left, keeps its     *)
(* types, never leaves the program and moves through its loops as          *)
(* structured code does.  The windows of the visualizer tile every         *)
(* terminal and always show where that machine is; its event loop loses no *)
(* input, makes no step nobody asked for and follows every resize.         *)
(***************************************************************************)
EXTENDS Layout, VisualBrainfunk, Lemmas, SequenceTheorems

\* What translate leaves in bitcode_: nothing, or a complete program.
Translated(code) == code = <<>> \/ WellFormed(code)

\* The address arithmetic stays on the tape.
LEMMA WrapOffsetType ==
  ASSUME NEW a \in Int, NEW off \in Int
  PROVE  WrapOffset(a, off, MemSize) \in Address
<1> DEFINE base == a % MemSize
           rest == (-(off + 1) + 1) % MemSize
<1>1. MemSize \in Nat /\ MemSize > 0
  BY MemSizeAssumption
<1>2. base \in Int /\ rest \in Int /\ off % MemSize \in Int
  BY <1>1
<1> HIDE DEF base, rest
<1>3. /\ (base + (off % MemSize)) % MemSize \in Address
      /\ (base + MemSize - rest) % MemSize \in Address
  BY <1>1, <1>2 DEF Address
<1>4. WrapOffset(a, off, MemSize)
        = IF off >= 0 THEN (base + (off % MemSize)) % MemSize
                      ELSE (base + MemSize - rest) % MemSize
  BY <1>1 DEF WrapOffset, base, rest
<1> QED
  BY <1>3, <1>4

\* Remainders fit a cell.
LEMMA CellRemainder ==
  ASSUME NEW x \in Int
  PROVE  x % CellMod \in Cell
  BY CellModAssumption DEF Cell

\* The ends of a loop.
LEMMA LoopEnds ==
  ASSUME NEW code \in Seq(Instruction), JumpsMatched(code), NEW i \in DOMAIN code
  PROVE  /\ i \in Nat \ {0} /\ i <= Len(code) /\ Len(code) \in Nat
         /\ code[i].off \in Int /\ code[i].imm \in Cell /\ code[i].op \in Opcode
         /\ code[i].op = "JE" =>
              /\ code[i].off > 0 /\ i + code[i].off \in DOMAIN code
              /\ code[i + code[i].off].op = "JN"
              /\ code[i + code[i].off].off = -code[i].off
         /\ code[i].op = "JN" =>
              /\ code[i].off < 0 /\ i + code[i].off \in DOMAIN code
              /\ code[i + code[i].off].op = "JE"
              /\ code[i + code[i].off].off = -code[i].off
<1>1. DOMAIN code = 1 .. Len(code) /\ Len(code) \in Nat
  BY LenProperties
<1>2. code[i] \in Instruction
  BY <1>1
<1>3. code[i].off \in Int /\ code[i].imm \in Cell /\ code[i].op \in Opcode
  BY <1>2 DEF Instruction
<1>4. i \in Nat \ {0} /\ i <= Len(code)
  BY <1>1
<1> QED
  BY <1>1, <1>3, <1>4 DEF JumpsMatched, Paired

-----------------------------------------------------------------------------
(***************************************************************************)
(* Types, and staying in the program.                                      *)
(***************************************************************************)

MInv == TypeOK /\ StaysInProgram /\ Translated(bitcode)

LEMMA InitMInv ==
  ASSUME \A code \in Programs : Translated(code), Init
  PROVE  MInv
<1>1. bitcode \in Seq(Instruction) /\ input \in Seq(Cell)
  BY ProgramsAssumption, InputsAssumption DEF Init
<1>2. 0 \in Address /\ BlankMemory \in [Address -> Cell]
  BY MemSizeAssumption, CellModAssumption DEF Address, Cell, BlankMemory
<1>3. TypeOK
  BY <1>1, <1>2 DEF Init, TypeOK
<1>4. WellFormed(bitcode) => 0 < Len(bitcode)
  BY <1>1, EmptySeq, LenProperties DEF WellFormed
<1> QED
  BY <1>3, <1>4 DEF Init, MInv, StaysInProgram

\* The instruction at pc, in a program that is not over.
LEMMA AtType ==
  ASSUME MInv, pc < Len(bitcode)
  PROVE  /\ pc + 1 \in DOMAIN bitcode
         /\ pc \in Nat /\ Len(bitcode) \in Nat
         /\ At.op \in Opcode /\ At.imm \in Cell /\ At.off \in Int
         /\ Current \in Cell
         /\ WellFormed(bitcode)
<1>1. bitcode \in Seq(Instruction) /\ pc \in Nat /\ ptr \in Address /\ memory \in [Address -> Cell]
  BY DEF MInv, TypeOK
<1>2. Len(bitcode) \in Nat /\ pc + 1 \in DOMAIN bitcode
  BY <1>1, LenProperties
<1>3. WellFormed(bitcode)
  BY <1>2 DEF MInv, Translated
<1> QED
  BY <1>1, <1>2, <1>3, LoopEnds DEF WellFormed, At, Current

\* An instruction that is not the last leaves pc in the program when it
\* goes on to the next one.
LEMMA NextPc ==
  ASSUME MInv, pc < Len(bitcode), At.op # "H"
  PROVE  pc + 1 < Len(bitcode)
<1>1. pc + 1 # Len(bitcode)
  BY AtType DEF WellFormed, At
<1> QED
  BY <1>1, AtType

\* A step that keeps the program, stays in it and keeps the types.
LEMMA StepKeeps ==
  ASSUME MInv, status = "running",
         bitcode' = bitcode, pc' \in Nat, pc' < Len(bitcode), status' = status,
         ptr' \in Address, memory' \in [Address -> Cell],
         input' \in Seq(Cell), output' \in Seq(Cell)
  PROVE  MInv'
<1>1. TypeOK'
  BY DEF MInv, TypeOK
<1>2. StaysInProgram'
  BY DEF StaysInProgram
<1>3. Translated(bitcode)'
  BY DEF MInv, Translated, WellFormed, JumpsMatched, WellNested, Paired
<1> QED
  BY <1>1, <1>2, <1>3 DEF MInv

LEMMA JumpKeeps ==
  ASSUME MInv, JE \/ JN
  PROVE  MInv'
<1>1. pc < Len(bitcode) /\ status = "running" /\ At.op \in {"JE", "JN"}
  BY DEF JE, JN, Executes
<1>2. pc + 1 < Len(bitcode) /\ pc \in Nat /\ Len(bitcode) \in Nat
  BY <1>1, NextPc, AtType
<1>3. /\ pc + 1 + At.off \in DOMAIN bitcode /\ At.off \in Int
      /\ bitcode[pc + 1 + At.off].op \in {"JE", "JN"}
      /\ DOMAIN bitcode = 1 .. Len(bitcode)
  <2>1. bitcode \in Seq(Instruction) /\ WellFormed(bitcode) /\ pc + 1 \in DOMAIN bitcode
    BY <1>1, AtType DEF MInv, TypeOK
  <2> QED
    BY <2>1, <1>1, LoopEnds, LenProperties DEF WellFormed, At
<1>4. pc + 1 + At.off # Len(bitcode)
  BY <1>1, <1>3, AtType DEF WellFormed
<1>5. pc + At.off + 1 \in Nat /\ pc + At.off + 1 < Len(bitcode)
  BY <1>2, <1>3, <1>4
<1>6. pc' \in {pc + At.off + 1, pc + 1}
  <2>1. CASE Current = 0
    BY <2>1 DEF JE, JN
  <2>2. CASE Current # 0
    BY <2>2 DEF JE, JN
  <2> QED
    BY <2>1, <2>2
<1>7. pc' \in Nat /\ pc' < Len(bitcode)
  BY <1>2, <1>5, <1>6
<1>8. /\ bitcode' = bitcode /\ status' = status /\ ptr' = ptr /\ memory' = memory
      /\ input' = input /\ output' = <<>>
  BY DEF JE, JN, NoIO
<1> QED
  BY <1>1, <1>7, <1>8, StepKeeps DEF MInv, TypeOK

LEMMA NextKeepsMInv ==
  ASSUME MInv, [Next]_mvars
  PROVE  MInv'
<1>1. /\ bitcode \in Seq(Instruction) /\ pc \in Nat /\ ptr \in Address
      /\ memory \in [Address -> Cell] /\ input \in Seq(Cell) /\ output \in Seq(Cell)
      /\ <<>> \in Seq(Cell)
      /\ Address \subseteq Int /\ Cell \subseteq Int
  BY DEF MInv, TypeOK, Address, Cell
<1>2. ASSUME NEW op \in Opcode \ {"H"}, Executes(op)
      PROVE  /\ status = "running" /\ pc + 1 \in Nat /\ pc + 1 < Len(bitcode)
             /\ pc < Len(bitcode)
             /\ At.imm \in Cell /\ At.off \in Int /\ Current \in Cell
             /\ WrapOffset(ptr, At.off, MemSize) \in Address
  BY <1>1, <1>2, AtType, NextPc, WrapOffsetType DEF Executes
<1>3. CASE A
  <2>1. memory[ptr] + At.imm \in Int
    <3>1. memory[ptr] \in Int
      BY <1>1
    <3>2. At.imm \in Int
      BY <1>1, <1>2, <1>3 DEF A, Opcode
    <3> QED
      BY <3>1, <3>2
  <2>2. memory' = [memory EXCEPT ![ptr] = (memory[ptr] + At.imm) % CellMod]
    BY <1>3 DEF A
  <2>3. (memory[ptr] + At.imm) % CellMod \in Cell
    BY <2>1, CellRemainder
  <2>4. memory' \in [Address -> Cell]
    BY <2>2, <2>3, <1>1
  <2> QED
    BY <2>4, <1>1, <1>2, <1>3, StepKeeps DEF A, Continue, NoIO, Opcode
<1>4. CASE S
  <2>1. memory' \in [Address -> Cell]
    BY <1>1, <1>2, <1>4 DEF S, Opcode
  <2> QED
    BY <2>1, <1>1, <1>2, <1>4, StepKeeps DEF S, Continue, NoIO, Opcode
<1>5. CASE MUL
  <2> DEFINE t == WrapOffset(ptr, At.off, MemSize)
  <2>1. t \in Address /\ Current \in Int /\ At.imm \in Int
    BY <1>1, <1>2, <1>5 DEF MUL, Opcode
  <2>2. memory' = [memory EXCEPT ![t] = (memory[t] + Current * At.imm) % CellMod]
    BY <1>5 DEF MUL
  <2> HIDE DEF t
  <2>3. Current * At.imm \in Int /\ memory[t] \in Int
    <3>1. memory[t] \in Int
      BY <2>1, <1>1
    <3>2. \A x, y \in Int : x * y \in Int
      OBVIOUS
    <3> QED
      BY <3>1, <3>2, <2>1
  <2>4. memory[t] + Current * At.imm \in Int
    BY <2>3
  <2>5. (memory[t] + Current * At.imm) % CellMod \in Cell
    BY <2>4, CellRemainder
  <2>6. memory' \in [Address -> Cell]
    BY <2>1, <2>2, <2>5, <1>1
  <2> QED
    BY <2>6, <1>1, <1>2, <1>5, StepKeeps DEF MUL, Continue, NoIO, Opcode
<1>6. CASE F
  <2>1. /\ status = "running" /\ pc + 1 \in Nat /\ pc + 1 < Len(bitcode) /\ pc < Len(bitcode)
        /\ WrapOffset(ptr, At.off, MemSize) \in Address
    BY <1>2, <1>6 DEF F, Opcode
  <2>2. pc' \in {pc, pc + 1} /\ ptr' \in {ptr, WrapOffset(ptr, At.off, MemSize)}
    BY <1>6 DEF F
  <2>3. pc' \in Nat /\ pc' < Len(bitcode) /\ ptr' \in Address
    BY <2>1, <2>2, <1>1
  <2>4. /\ bitcode' = bitcode /\ memory' = memory /\ status' = status
        /\ input' = input /\ output' = <<>>
    BY <1>6 DEF F, NoIO
  <2> QED
    BY <2>1, <2>3, <2>4, <1>1, StepKeeps
<1>7. CASE M
  BY <1>1, <1>2, <1>7, StepKeeps DEF M, Continue, NoIO, Opcode
<1>8. CASE JE \/ JN
  BY <1>8, JumpKeeps
<1>9. CASE IO
  <2>1. /\ status = "running" /\ pc + 1 \in Nat /\ pc + 1 < Len(bitcode)
        /\ Current \in Cell
    BY <1>2, <1>9 DEF IO, Opcode
  <2>2. /\ bitcode' = bitcode /\ status' = status /\ pc' = pc + 1 /\ ptr' = ptr
    BY <1>9 DEF IO, Continue
  <2>3. CASE At.imm = IO_IN
    <3>1. (IF input = <<>> THEN 0 ELSE Head(input)) \in Cell
      <4>1. 0 \in Cell
        BY CellModAssumption DEF Cell
      <4>2. input # <<>> => Head(input) \in Cell
        BY <1>1, HeadTailProperties
      <4> QED
        BY <4>1, <4>2
    <3>2. (IF input = <<>> THEN <<>> ELSE Tail(input)) \in Seq(Cell)
      BY <1>1, HeadTailProperties
    <3>3. /\ memory' \in [Address -> Cell] /\ input' \in Seq(Cell) /\ output' = <<>>
      BY <3>1, <3>2, <2>3, <1>1, <1>9 DEF IO
    <3> QED
      BY <3>3, <2>1, <2>2, <1>1, StepKeeps
  <2>4. CASE At.imm # IO_IN
    <3>1. memory' = memory /\ input' = input /\ output' = <<Current>>
      BY <2>4, <1>9 DEF IO
    <3>2. output' \in Seq(Cell)
      BY <3>1, <2>1
    <3> QED
      BY <3>1, <3>2, <2>1, <2>2, <1>1, StepKeeps
  <2> QED
    BY <2>3, <2>4
<1>10. CASE Stop
  <2>1. /\ bitcode' = bitcode /\ pc' = pc /\ ptr' = ptr /\ memory' = memory
        /\ input' = input /\ output' = <<>>
        /\ status' = IF pc < Len(bitcode) /\ At.op = "X" THEN "threw" ELSE "halted"
        /\ pc < Len(bitcode) => At.op \in {"H", "X"}
    BY <1>10 DEF Stop, NoIO
  <2>2. TypeOK'
    BY <2>1, <1>1 DEF TypeOK
  <2>3. WellFormed(bitcode) => pc < Len(bitcode) /\ At.op # "X"
    <3>1. WellFormed(bitcode) => pc < Len(bitcode)
      BY DEF MInv, StaysInProgram
    <3> QED
      BY <3>1, AtType DEF WellFormed, At
  <2>4. StaysInProgram'
    BY <2>1, <2>3 DEF StaysInProgram, At, WellFormed, JumpsMatched, WellNested, Paired
  <2>5. Translated(bitcode)'
    BY <2>1 DEF MInv, Translated, WellFormed, JumpsMatched, WellNested, Paired
  <2> QED
    BY <2>2, <2>4, <2>5 DEF MInv
<1>11. CASE Run
  <2>1. /\ bitcode' = bitcode /\ pc' = 0 /\ ptr' = 0 /\ memory' = BlankMemory
        /\ input' \in Inputs /\ output' = <<>> /\ status' = "running"
    BY <1>11 DEF Run, ResetState
  <2>2. 0 \in Address /\ BlankMemory \in [Address -> Cell]
    BY MemSizeAssumption, CellModAssumption DEF Address, Cell, BlankMemory
  <2>3. TypeOK'
    BY <2>1, <2>2, <1>1, InputsAssumption DEF TypeOK
  <2>4. WellFormed(bitcode) => 0 < Len(bitcode)
    BY <1>1, EmptySeq, LenProperties DEF WellFormed
  <2>5. StaysInProgram'
    BY <2>1, <2>4 DEF StaysInProgram, WellFormed, JumpsMatched, WellNested, Paired
  <2>6. Translated(bitcode)'
    BY <2>1 DEF MInv, Translated, WellFormed, JumpsMatched, WellNested, Paired
  <2> QED
    BY <2>3, <2>5, <2>6 DEF MInv
<1>12. CASE UNCHANGED mvars
  BY <1>12 DEF mvars, MInv, TypeOK, StaysInProgram, Translated, At,
     WellFormed, JumpsMatched, WellNested, Paired
<1> QED
  BY <1>3, <1>4, <1>5, <1>6, <1>7, <1>8, <1>9, <1>10, <1>11, <1>12 DEF Next, Step

\* A step that starts anywhere, as one does behind a pc_ left over from another
\* program: past the end nothing happens, inside the program it stays there.
LEMMA StepFromAnywhere ==
  ASSUME TypeOK, Translated(bitcode), Step
  PROVE  /\ TypeOK' /\ bitcode' = bitcode /\ status' # "threw"
         /\ pc < Len(bitcode) => pc' < Len(bitcode)
<1>1. status = "running" /\ bitcode' = bitcode
  BY DEF Step, A, S, MUL, F, M, JE, JN, IO, Stop, Executes, Continue
<1>2. CASE pc < Len(bitcode)
  <2>1. WellFormed(bitcode)
    BY <1>2 DEF Translated, TypeOK
  <2>2. MInv
    BY <1>1, <1>2, <2>1 DEF MInv, StaysInProgram
  <2>3. MInv'
    BY <2>2, NextKeepsMInv DEF Next
  <2>4. WellFormed(bitcode)'
    BY <1>1, <2>1 DEF WellFormed, JumpsMatched, WellNested, Paired
  <2> QED
    BY <1>1, <2>3, <2>4 DEF MInv, StaysInProgram
<1>3. CASE ~ (pc < Len(bitcode))
  <2>1. Stop
    BY <1>3 DEF Step, A, S, MUL, F, M, JE, JN, IO, Executes
  <2>2. /\ UNCHANGED <<pc, ptr, memory, input>> /\ output' = <<>> /\ status' = "halted"
    BY <1>3, <2>1 DEF Stop, NoIO
  <2>3. <<>> \in Seq(Cell)
    OBVIOUS
  <2> QED
    BY <1>1, <1>3, <2>2, <2>3 DEF TypeOK
<1> QED
  BY <1>2, <1>3

-----------------------------------------------------------------------------
(***************************************************************************)
(* Loops: what JE and JN do to every loop of the program.                  *)
(***************************************************************************)

\* The conclusion of LoopsAreStructured about the loop at i.
Structured(i, a, b) ==
  /\ ~InLoop(i, a) /\ InLoop(i, b) => a + 1 = i /\ Current # 0
  /\ InLoop(i, a) /\ ~InLoop(i, b) =>
       a + 1 = i + bitcode[i].off /\ b = a + 1 /\ Current = 0
  /\ bitcode[i].op = "JE" /\ a + 1 = i /\ ~InLoop(i, b) =>
       b = i + bitcode[i].off

\* Going on to the next instruction from one that is no jump, or staying.
LEMMA PlainIsStructured ==
  ASSUME MInv, pc < Len(bitcode), At.op \notin {"JE", "JN"},
         pc' \in {pc, pc + 1},
         NEW i \in DOMAIN bitcode
  PROVE  Structured(i, pc, pc')
<1>1. /\ bitcode \in Seq(Instruction) /\ JumpsMatched(bitcode) /\ pc \in Nat
  BY AtType DEF MInv, TypeOK, WellFormed
<1>2. SUFFICES ASSUME bitcode[i].op = "JE" PROVE Structured(i, pc, pc')
  BY DEF Structured, InLoop
<1>3. /\ i \in Nat /\ bitcode[i].off \in Int /\ bitcode[i].off > 0
      /\ bitcode[i + bitcode[i].off].op = "JN"
  BY <1>1, <1>2, LoopEnds
<1>4. pc + 1 # i /\ pc + 1 # i + bitcode[i].off
  BY <1>2, <1>3 DEF At
<1> QED
  BY <1>1, <1>3, <1>4 DEF Structured, InLoop

LEMMA JEIsStructured ==
  ASSUME MInv, JE, NEW i \in DOMAIN bitcode
  PROVE  Structured(i, pc, pc')
<1> DEFINE j == pc + 1
           e == i + bitcode[i].off
           f == j + bitcode[j].off
<1>1. pc < Len(bitcode) /\ bitcode[j].op = "JE"
      /\ pc' = IF Current = 0 THEN f ELSE j
  <2>1. pc \in Nat /\ bitcode[j].off \in Int /\ pc < Len(bitcode)
    BY AtType DEF JE, Executes, At
  <2>2. bitcode[j].op = "JE"
    BY DEF JE, Executes, At
  <2>3. pc' = (IF Current = 0 THEN pc + bitcode[j].off ELSE pc) + 1
    BY DEF JE, At
  <2>4. (pc + bitcode[j].off) + 1 = f
    BY <2>1
  <2> QED
    BY <2>1, <2>2, <2>3, <2>4
<1>2. /\ bitcode \in Seq(Instruction) /\ JumpsMatched(bitcode) /\ WellNested(bitcode)
      /\ pc \in Nat /\ j \in DOMAIN bitcode
  BY <1>1, AtType DEF MInv, TypeOK, WellFormed
<1>3. SUFFICES ASSUME bitcode[i].op = "JE" PROVE Structured(i, pc, pc')
  BY DEF Structured, InLoop
<1>4. i \in Nat /\ e \in Nat /\ i < e /\ e \in DOMAIN bitcode /\ bitcode[e].op = "JN"
  BY <1>2, <1>3, LoopEnds
<1>5. j \in Nat /\ f \in Nat /\ j < f /\ bitcode[f].op = "JN"
  BY <1>1, <1>2, LoopEnds
<1>6. i < j /\ j < e => f < e
  BY <1>1, <1>2, <1>3, <1>4, <1>5 DEF WellNested
<1>7. j < i /\ i < f => e < f
  BY <1>1, <1>2, <1>3, <1>4, <1>5 DEF WellNested
<1>8. j # e /\ i # f
  BY <1>1, <1>3, <1>4, <1>5
<1>9. /\ InLoop(i, pc) <=> i < j /\ j <= e
      /\ \A b \in Nat : InLoop(i, b) <=> i <= b /\ b < e
  BY <1>2, <1>3, <1>4 DEF InLoop
<1>10. pc' \in Nat /\ (InLoop(i, pc') <=> i <= pc' /\ pc' < e)
  BY <1>1, <1>5, <1>9
<1>11. i = j => e = f
  OBVIOUS
<1>12. j = pc + 1
  OBVIOUS
<1>13. Structured(i, pc, pc') <=>
        /\ ~InLoop(i, pc) /\ InLoop(i, pc') => j = i /\ Current # 0
        /\ InLoop(i, pc) /\ ~InLoop(i, pc') => j = e /\ pc' = j /\ Current = 0
        /\ j = i /\ ~InLoop(i, pc') => pc' = e
  BY <1>3 DEF Structured
<1> HIDE DEF j, e, f
<1>14. CASE Current = 0
  <2>1. pc' = f
    BY <1>14, <1>1
  <2> QED
    BY <2>1, <1>14, <1>4, <1>5, <1>6, <1>7, <1>8, <1>9, <1>10, <1>11, <1>13
<1>15. CASE Current # 0
  <2>1. pc' = j
    BY <1>15, <1>1
  <2> QED
    BY <2>1, <1>15, <1>4, <1>5, <1>6, <1>7, <1>8, <1>9, <1>10, <1>11, <1>13
<1> QED
  BY <1>14, <1>15

LEMMA JNIsStructured ==
  ASSUME MInv, JN, NEW i \in DOMAIN bitcode
  PROVE  Structured(i, pc, pc')
<1> DEFINE p == pc + 1
           e == i + bitcode[i].off
           q == p + bitcode[p].off
<1>1. pc < Len(bitcode) /\ bitcode[p].op = "JN"
      /\ pc' = IF Current # 0 THEN q ELSE p
  <2>1. pc \in Nat /\ bitcode[p].off \in Int /\ pc < Len(bitcode)
    BY AtType DEF JN, Executes, At
  <2>2. bitcode[p].op = "JN"
    BY DEF JN, Executes, At
  <2>3. pc' = (IF Current # 0 THEN pc + bitcode[p].off ELSE pc) + 1
    BY DEF JN, At
  <2>4. (pc + bitcode[p].off) + 1 = q
    BY <2>1
  <2> QED
    BY <2>1, <2>2, <2>3, <2>4
<1>2. /\ bitcode \in Seq(Instruction) /\ JumpsMatched(bitcode) /\ WellNested(bitcode)
      /\ pc \in Nat /\ p \in DOMAIN bitcode
  BY <1>1, AtType DEF MInv, TypeOK, WellFormed
<1>3. SUFFICES ASSUME bitcode[i].op = "JE" PROVE Structured(i, pc, pc')
  BY DEF Structured, InLoop
<1>4. /\ i \in Nat /\ e \in Nat /\ i < e /\ e \in DOMAIN bitcode /\ bitcode[e].op = "JN"
      /\ bitcode[i].off \in Int /\ bitcode[e].off = -bitcode[i].off
  BY <1>2, <1>3, LoopEnds
<1>5. /\ p \in Nat /\ q \in Nat /\ q < p /\ q \in DOMAIN bitcode /\ bitcode[q].op = "JE"
      /\ q + bitcode[q].off = p
  <2>1. /\ p \in Nat /\ bitcode[p].off \in Int /\ bitcode[p].off < 0
        /\ p + bitcode[p].off \in DOMAIN bitcode
        /\ bitcode[p + bitcode[p].off].op = "JE"
        /\ bitcode[p + bitcode[p].off].off = -bitcode[p].off
    BY <1>1, <1>2, LoopEnds
  <2>2. p + bitcode[p].off \in Nat
    BY <2>1, <1>2, LoopEnds
  <2>3. q = p + bitcode[p].off
    OBVIOUS
  <2> HIDE DEF p, q
  <2> QED
    BY <2>1, <2>2, <2>3
<1>6. i < q /\ q < e => p < e
  BY <1>2, <1>3, <1>4, <1>5 DEF WellNested
<1>7. q < i /\ i < p => e < p
  BY <1>2, <1>3, <1>4, <1>5 DEF WellNested
<1>8. (p = e <=> q = i) /\ p # i /\ q # e
  <2>1. p # i /\ q # e
    BY <1>1, <1>3, <1>4, <1>5
  <2>2. ASSUME p = e PROVE q = i
    <3>1. q = e + bitcode[e].off
      BY <2>2
    <3> QED
      BY <3>1, <1>4
  <2>3. ASSUME q = i PROVE p = e
    BY <2>3, <1>5
  <2> QED
    BY <2>1, <2>2, <2>3
<1>9. /\ InLoop(i, pc) <=> i < p /\ p <= e
      /\ \A b \in Nat : InLoop(i, b) <=> i <= b /\ b < e
  BY <1>2, <1>3, <1>4 DEF InLoop
<1>10. pc' \in Nat /\ (InLoop(i, pc') <=> i <= pc' /\ pc' < e)
  BY <1>1, <1>5, <1>9
<1>11. Structured(i, pc, pc') <=>
        /\ ~InLoop(i, pc) /\ InLoop(i, pc') => p = i /\ Current # 0
        /\ InLoop(i, pc) /\ ~InLoop(i, pc') => p = e /\ pc' = p /\ Current = 0
        /\ p = i /\ ~InLoop(i, pc') => pc' = e
  BY <1>3 DEF Structured
<1> HIDE DEF p, e, q
<1>12. CASE Current = 0
  <2>1. pc' = p
    BY <1>12, <1>1
  <2> QED
    BY <2>1, <1>12, <1>4, <1>5, <1>6, <1>7, <1>8, <1>9, <1>10, <1>11
<1>13. CASE Current # 0
  <2>1. pc' = q
    BY <1>13, <1>1
  <2> QED
    BY <2>1, <1>13, <1>4, <1>5, <1>6, <1>7, <1>8, <1>9, <1>10, <1>11
<1> QED
  BY <1>12, <1>13

LEMMA NextIsStructured ==
  ASSUME MInv, Next, status = "running"
  PROVE  \A i \in DOMAIN bitcode : Structured(i, pc, pc')
<1>1. CASE JE
  BY <1>1, JEIsStructured
<1>2. CASE JN
  BY <1>2, JNIsStructured
<1>3. CASE A \/ S \/ MUL \/ F \/ M \/ IO
  <2>1. pc < Len(bitcode) /\ At.op \notin {"JE", "JN"} /\ pc' \in {pc, pc + 1}
    BY <1>3 DEF A, S, MUL, F, M, IO, Executes, Continue
  <2> QED
    BY <2>1, PlainIsStructured
<1>4. CASE Stop
  <2> SUFFICES ASSUME NEW i \in DOMAIN bitcode PROVE Structured(i, pc, pc')
    OBVIOUS
  <2>1. pc' = pc /\ pc < Len(bitcode) /\ At.op \notin {"JE", "JN"}
    <3>1. pc < Len(bitcode)
      <4>1. bitcode \in Seq(Instruction) /\ bitcode # <<>>
        BY EmptySeq DEF MInv, TypeOK
      <4> QED
        BY <4>1 DEF MInv, Translated, StaysInProgram
    <3> QED
      BY <3>1, <1>4 DEF Stop
  <2> QED
    BY <2>1, PlainIsStructured
<1>5. CASE Run
  BY <1>5 DEF Run
<1> QED
  BY <1>1, <1>2, <1>3, <1>4, <1>5 DEF Next, Step

-----------------------------------------------------------------------------
(***************************************************************************)
(* The theorems, for every cell size, memory size and input, over what     *)
(* translate can have left in bitcode_.                                    *)
(***************************************************************************)

\* The machine's invariant holds in every reachable state.
THEOREM MachineInvariant ==
  ASSUME \A code \in Programs : Translated(code)
  PROVE  Spec => []MInv
<1>1. Init => MInv
  BY InitMInv
<1>2. MInv /\ [Next]_mvars => MInv'
  BY NextKeepsMInv
<1> QED
  BY <1>1, <1>2, PTL DEF Spec

\* ptr_ stays on the tape and every cell in memory_t.
THEOREM MachineTypeCorrect ==
  ASSUME \A code \in Programs : Translated(code)
  PROVE  Spec => []TypeOK
<1>1. MInv => TypeOK
  BY DEF MInv
<1> QED
  BY <1>1, MachineInvariant, PTL

\* pc_ stays inside a translated program and its end is its H.
THEOREM MachineStaysInProgram ==
  ASSUME \A code \in Programs : Translated(code)
  PROVE  Spec => []StaysInProgram
<1>1. MInv => StaysInProgram
  BY DEF MInv
<1> QED
  BY <1>1, MachineInvariant, PTL

\* Every jump of a translated program enters, repeats or leaves one loop.
THEOREM MachineIsStructured ==
  ASSUME \A code \in Programs : Translated(code)
  PROVE  Spec => LoopsAreStructured
<1>1. MInv /\ [Next]_mvars =>
        [WellFormed(bitcode) /\ status = "running" =>
           \A i \in DOMAIN bitcode :
             /\ ~InLoop(i, pc) /\ InLoop(i, pc') => pc + 1 = i /\ Current # 0
             /\ InLoop(i, pc) /\ ~InLoop(i, pc') =>
                  pc + 1 = i + bitcode[i].off /\ pc' = pc + 1 /\ Current = 0
             /\ bitcode[i].op = "JE" /\ pc + 1 = i /\ ~InLoop(i, pc') =>
                  pc' = i + bitcode[i].off]_mvars
  BY NextIsStructured DEF Structured
<1> QED
  BY <1>1, MachineInvariant, PTL DEF Spec, LoopsAreStructured

-----------------------------------------------------------------------------
(***************************************************************************)
(* The address arithmetic.                                                 *)
(***************************************************************************)

\* Whatever the sign of the offset, wrap_offset adds it around the tape.
LEMMA WrapIsPlus ==
  ASSUME NEW a \in Int, NEW off \in Int
  PROVE  WrapOffset(a, off, MemSize) = (a + off) % MemSize
<1>1. MemSize \in Nat \ {0}
  BY MemSizeAssumption
<1>2. WrapOffset(a, off, MemSize)
        = IF off >= 0 THEN ((a % MemSize) + (off % MemSize)) % MemSize
                      ELSE ((a % MemSize) + MemSize - ((-(off + 1) + 1) % MemSize)) % MemSize
  BY <1>1 DEF WrapOffset
<1>3. /\ off >= 0 => ((a % MemSize) + (off % MemSize)) % MemSize = (a + off) % MemSize
      /\ off < 0 => ((a % MemSize) + MemSize - ((-(off + 1) + 1) % MemSize)) % MemSize
                      = (a + off) % MemSize
  BY <1>1, WrapArithmetic
<1>4. off >= 0 \/ off < 0
  OBVIOUS
<1>5. off < 0 => ~(off >= 0)
  OBVIOUS
<1> QED
  BY <1>2, <1>3, <1>4, <1>5, Zenon

-----------------------------------------------------------------------------
(***************************************************************************)
(* The windows.                                                            *)
(***************************************************************************)

\* Every window gets at least a row and a column.
LEMMA WindowSizes ==
  ASSUME NEW s \in Screens
  PROVE  /\ s.rows \in Int /\ s.rows >= 18 /\ s.columns \in Int /\ s.columns >= 60
         /\ CodeHeight(s) \in Int /\ CodeHeight(s) >= 7 /\ CodeHeight(s) <= s.rows - 6
         /\ RightWidth(s) \in Int /\ RightWidth(s) >= 20 /\ RightWidth(s) <= s.columns - 1
<1>1. s.rows \in Nat \ 0 .. 17 /\ s.columns \in Nat \ 0 .. 59
  BY ScreensAssumption
<1>2. s.rows \in Int /\ s.rows >= 18 /\ s.columns \in Int /\ s.columns >= 60
  BY <1>1
<1> QED
  BY <1>2 DEF CodeHeight, RightWidth, Larger, Available, MemHeight, MessageHeight

\* The windows of every terminal rebuild_windows_ goes on with lie inside it,
\* do not overlap and leave no place of it out.
THEOREM WindowsTileTheTerminal == WindowsTile
<1> SUFFICES ASSUME NEW s \in Screens PROVE Tiled(s)
  BY DEF WindowsTile
<1> DEFINE R == s.rows
           C == s.columns
           c == CodeHeight(s)
           r == RightWidth(s)
           ws == Windows(s)
<1>1. /\ R \in Int /\ R >= 18 /\ C \in Int /\ C >= 60
      /\ c \in Int /\ c >= 7 /\ c <= R - 6
      /\ r \in Int /\ r >= 20 /\ r <= C - 1
  BY WindowSizes
<1>2. /\ DOMAIN ws = {"mem", "code", "reg", "io", "help", "msg"}
      /\ ws.mem  = [height |-> 4, width |-> C, y |-> 0, x |-> 0]
      /\ ws.code = [height |-> c, width |-> C - r, y |-> 4, x |-> 0]
      /\ ws.reg  = [height |-> c, width |-> r, y |-> 4, x |-> C - r]
      /\ ws.io   = [height |-> R - 4 - 1 - c, width |-> C - r, y |-> 4 + c, x |-> 0]
      /\ ws.help = [height |-> R - 4 - 1 - c, width |-> r, y |-> 4 + c, x |-> C - r]
      /\ ws.msg  = [height |-> 1, width |-> C, y |-> R - 1, x |-> 0]
  BY DEF Windows, Window, MemHeight, MessageHeight, IoHeight, Available, LeftWidth
<1> HIDE DEF R, C, c, r, ws
<1>3. \A n \in DOMAIN ws : Inside(ws[n], s)
  BY <1>1, <1>2 DEF Inside, R, C
<1>4. \A m, n \in DOMAIN ws : m # n => Apart(ws[m], ws[n])
  BY <1>1, <1>2 DEF Apart
<1>5. ASSUME NEW y \in 0 .. R - 1, NEW x \in 0 .. C - 1
      PROVE  \E n \in DOMAIN ws : Contains(ws[n], y, x)
  <2>1. CASE y < 4
    <3>1. Contains(ws.mem, y, x)
      BY <1>1, <1>2, <2>1 DEF Contains
    <3> QED
      BY <1>2, <3>1
  <2>2. CASE 4 <= y /\ y < 4 + c
    <3>1. Contains(ws.code, y, x) \/ Contains(ws.reg, y, x)
      BY <1>1, <1>2, <2>2 DEF Contains
    <3> QED
      BY <1>2, <3>1
  <2>3. CASE 4 + c <= y /\ y < R - 1
    <3>1. Contains(ws.io, y, x) \/ Contains(ws.help, y, x)
      BY <1>1, <1>2, <2>3 DEF Contains
    <3> QED
      BY <1>2, <3>1
  <2>4. CASE y = R - 1
    <3>1. Contains(ws.msg, y, x)
      BY <1>1, <1>2, <2>4 DEF Contains
    <3> QED
      BY <1>2, <3>1
  <2> QED
    BY <1>1, <2>1, <2>2, <2>3, <2>4
<1> QED
  BY <1>3, <1>4, <1>5 DEF Tiled, R, C, ws

-----------------------------------------------------------------------------
(***************************************************************************)
(* The views of the tape and of the program.                               *)
(***************************************************************************)

LEMMA TapeShownWhenTyped ==
  ASSUME TypeOK
  PROVE  TapeIsShown
<1>1. ptr \in 0 .. MemSize - 1 /\ MemSize \in Nat \ {0}
  BY MemSizeAssumption DEF TypeOK, Address
<1>2. SUFFICES ASSUME NEW s \in Screens
               PROVE  /\ 6 * Cardinality(Offsets(s)) <= s.columns
                      /\ ShownCell(0) = ptr
                      /\ \A o \in Offsets(s) :
                           o + 1 \in Offsets(s) => ShownCell(o + 1) = (ShownCell(o) + 1) % MemSize
  BY DEF TapeIsShown
<1> DEFINE h == Cells(s) \div 2
<1>3. h \in Int /\ h >= 0 /\ 6 * (2 * h + 1) <= s.columns
  BY WindowSizes DEF Cells, Larger
<1>4. Offsets(s) = -h .. h
  BY DEF Offsets
<1> HIDE DEF h
<1>5. Cardinality(Offsets(s)) = 2 * h + 1
  <2>1. Cardinality(-h .. h) = IF -h > h THEN 0 ELSE h - (-h) + 1
    BY <1>3, FS_Interval
  <2> QED
    BY <1>3, <1>4, <2>1
<1>6. ASSUME NEW o \in Int PROVE ShownCell(o) = (ptr + o) % MemSize
  BY <1>1, WrapIsPlus DEF ShownCell
<1>7. ShownCell(0) = ptr
  <2>1. ptr + 0 = ptr /\ ptr % MemSize = ptr
    BY <1>1
  <2> QED
    BY <2>1, <1>6
<1>8. ASSUME NEW o \in Offsets(s) PROVE ShownCell(o + 1) = (ShownCell(o) + 1) % MemSize
  <2> DEFINE a == ptr + o
  <2>1. o \in Int /\ a \in Int /\ o + 1 \in Int /\ a + 1 = ptr + (o + 1)
    BY <1>1, <1>3, <1>4
  <2>2. ShownCell(o) = a % MemSize /\ ShownCell(o + 1) = (a + 1) % MemSize
    BY <2>1, <1>6
  <2> DEFINE one == 1
  <2>3. one \in Int
    OBVIOUS
  <2> HIDE DEF a, one
  <2>4. ((a % MemSize) + one) % MemSize = (a + one) % MemSize
    BY <1>1, <2>1, <2>3, ModPlus
  <2> QED
    BY <2>2, <2>4 DEF one
<1> QED
  BY <1>3, <1>5, <1>7, <1>8

LEMMA CurrentShownInProgram ==
  ASSUME MInv
  PROVE  CurrentIsShown
<1>1. SUFFICES ASSUME bitcode # <<>>, NEW s \in Screens
               PROVE  /\ pc \in Listed(s)
                      /\ Len(bitcode) > CodeHeight(s) => Cardinality(Listed(s)) = CodeHeight(s)
  BY DEF CurrentIsShown
<1>2. pc \in Nat /\ Len(bitcode) \in Nat /\ pc < Len(bitcode)
  BY <1>1, LenProperties DEF MInv, TypeOK, Translated, StaysInProgram
<1> DEFINE lines == CodeHeight(s)
           first == FirstLine(s)
<1>3. lines \in Int /\ lines >= 7
  BY WindowSizes
<1>4. /\ first \in Int /\ 0 <= first /\ first <= pc /\ pc < first + lines
      /\ Len(bitcode) > lines => first + lines <= Len(bitcode)
  BY <1>2, <1>3 DEF FirstLine
<1>5. Listed(s) = {i \in first .. first + lines - 1 : i < Len(bitcode)}
  BY DEF Listed
<1> HIDE DEF lines, first
<1>6. pc \in Listed(s)
  BY <1>2, <1>3, <1>4, <1>5
<1>7. ASSUME Len(bitcode) > lines PROVE Cardinality(Listed(s)) = lines
  <2>1. Listed(s) = first .. first + lines - 1
    BY <1>2, <1>3, <1>4, <1>5, <1>7
  <2>2. Cardinality(first .. first + lines - 1)
          = IF first > first + lines - 1 THEN 0 ELSE (first + lines - 1) - first + 1
    BY <1>3, <1>4, FS_Interval
  <2> QED
    BY <1>3, <1>4, <2>1, <2>2
<1> QED
  BY <1>6, <1>7 DEF lines

\* Wherever ptr_ is, print_mem_ shows its cell between its neighbours.
THEOREM TapeIsAlwaysShown ==
  ASSUME \A code \in Programs : Translated(code)
  PROVE  Spec => []TapeIsShown
<1>1. TypeOK => TapeIsShown
  BY TapeShownWhenTyped
<1> QED
  BY <1>1, MachineTypeCorrect, PTL

\* Wherever pc_ is, print_code_ shows its instruction, in a full window.
THEOREM CurrentIsAlwaysShown ==
  ASSUME \A code \in Programs : Translated(code)
  PROVE  Spec => []CurrentIsShown
<1>1. MInv => CurrentIsShown
  BY CurrentShownInProgram
<1> QED
  BY <1>1, MachineInvariant, PTL

-----------------------------------------------------------------------------
(***************************************************************************)
(* The event loop: input, single steps and resizes.                        *)
(***************************************************************************)

\* The types of every variable, the terminal and the history included.
LoopTypes ==
  /\ VisualTypeOK
  /\ terminal \in [size : Sizes, typed : Nat, winch : BOOLEAN, hungup : BOOLEAN]
  /\ log \in [accepted : Seq(Bytes), delivered : Seq(Bytes), asked : Nat,
              singles : Nat, missed : BOOLEAN]

\* Only a program with no keys waiting for it prompts for one, and only a
\* hangup, behind which no key comes, ends the stream.
PromptInv ==
  /\ InputInOrder
  /\ loc = "prompt" => pending = <<>>
  /\ eof => terminal.hungup

\* An 's' that is not yet obeyed is one more than the steps it has to allow
\* for, and a paused program steps on nothing else.
StepInv ==
  /\ PausedStepsWereAsked
  /\ step_requested => log.singles < log.asked
  /\ (paused /\ loc \in {"step", "prompt", "after"}) => step_requested

\* curses knows the size of the terminal or has a resize to report, and the
\* windows have the size curses knows or are due to be made again.
ResizeInv ==
  /\ terminal.winch \/ known = terminal.size
  /\ loc = "ready" => built = known
  /\ (loc \in Looping \ {"small"} /\ ~log.missed) => built = known \/ resize_requested

LoopInv == LoopTypes /\ PromptInv /\ StepInv /\ ResizeInv

\* The types of the variables one by one.
LEMMA LoopTypesUnfold ==
  LoopTypes <=>
    /\ loc \in Locations /\ back \in {"ready", "drain", "input", "haltmsg"}
    /\ paused \in BOOLEAN /\ step_requested \in BOOLEAN /\ halted \in BOOLEAN
    /\ quit_requested \in BOOLEAN /\ resize_requested \in BOOLEAN
    /\ due \in BOOLEAN /\ eof \in BOOLEAN
    /\ delay \in Nat /\ pending \in Seq(Bytes) /\ keys \in Seq(Keys)
    /\ built \in Sizes /\ known \in Sizes
    /\ terminal \in [size : Sizes, typed : Nat, winch : BOOLEAN, hungup : BOOLEAN]
    /\ log \in [accepted : Seq(Bytes), delivered : Seq(Bytes), asked : Nat,
                singles : Nat, missed : BOOLEAN]
  BY DEF LoopTypes, VisualTypeOK

LEMMA InitLoop == VisualInit => LoopInv
<1> SUFFICES ASSUME VisualInit PROVE LoopInv
  OBVIOUS
<1>1. PICK big \in BOOLEAN :
        terminal = [size |-> [n |-> 0, big |-> big], typed |-> 0, winch |-> FALSE,
                    hungup |-> FALSE]
  BY DEF VisualInit
<1>2. terminal \in [size : Sizes, typed : Nat, winch : BOOLEAN, hungup : BOOLEAN]
  BY <1>1, BoundsAssumption DEF Sizes
<1>3. <<>> \in Seq(Bytes) /\ <<>> \in Seq(Keys)
  OBVIOUS
<1>4. log \in [accepted : Seq(Bytes), delivered : Seq(Bytes), asked : Nat,
               singles : Nat, missed : BOOLEAN]
  BY <1>3 DEF VisualInit
<1>5. loc \in {"ready", "small"}
  BY DEF VisualInit
<1>6. LoopTypes
  BY <1>2, <1>3, <1>4, <1>5, LoopTypesUnfold DEF VisualInit, Locations
<1>7. PromptInv
  <2>1. <<>> = <<>> \o <<>>
    OBVIOUS
  <2> QED
    BY <2>1, <1>5 DEF VisualInit, PromptInv, InputInOrder
<1>8. StepInv
  BY DEF VisualInit, StepInv, PausedStepsWereAsked
<1>9. ResizeInv
  BY DEF VisualInit, ResizeInv, Looping
<1> QED
  BY <1>6, <1>7, <1>8, <1>9 DEF LoopInv

-----------------------------------------------------------------------------

\* What wgetch leaves: a known size that is the terminal's or a resize to come.
LEMMA WgetchKeeps ==
  ASSUME LoopInv, NEW k, Wgetch(k)
  PROVE  /\ k \in Keys \cup {"resize"}
         /\ terminal' \in [size : Sizes, typed : Nat, winch : BOOLEAN, hungup : BOOLEAN]
         /\ known' \in Sizes /\ keys' \in Seq(Keys)
         /\ terminal'.winch \/ known' = terminal'.size
         /\ terminal'.hungup = terminal.hungup
         /\ k # "resize" => known' = known /\ keys # <<>>
         /\ keys = <<>> => keys' = <<>>
<1>1. /\ keys \in Seq(Keys) /\ known \in Sizes
      /\ terminal \in [size : Sizes, typed : Nat, winch : BOOLEAN, hungup : BOOLEAN]
      /\ terminal.winch \/ known = terminal.size
  BY LoopTypesUnfold DEF LoopInv, ResizeInv
<1>2. CASE k = "resize"
  <2>1. terminal' = [terminal EXCEPT !.winch = FALSE] /\ known' = terminal.size /\ keys' = keys
    BY <1>2 DEF Wgetch
  <2> QED
    BY <1>1, <1>2, <2>1
<1>3. CASE k # "resize"
  <2>1. /\ keys' = Tail(keys) /\ UNCHANGED <<terminal, known>>
        /\ keys # <<>> /\ k = Head(keys)
    BY <1>3 DEF Wgetch, Readable
  <2>2. Head(keys) \in Keys /\ Tail(keys) \in Seq(Keys)
    BY <1>1, <2>1
  <2> QED
    BY <1>1, <1>3, <2>1, <2>2
<1> QED
  BY <1>2, <1>3

\* At a screen whose window has no keypad it may leave characters behind.
LEMMA WgetchRawKeeps ==
  ASSUME LoopInv, NEW k, WgetchRaw(k)
  PROVE  /\ terminal' \in [size : Sizes, typed : Nat, winch : BOOLEAN, hungup : BOOLEAN]
         /\ known' \in Sizes /\ keys' \in Seq(Keys)
         /\ terminal'.winch \/ known' = terminal'.size
         /\ terminal'.hungup = terminal.hungup
         /\ k # "resize" => known' = known /\ keys # <<>>
         /\ keys = <<>> => keys' = <<>>
<1>1. CASE k \in {"up", "down"}
  <2>1. /\ k # "resize" /\ k \in Readable /\ UNCHANGED <<terminal, known>>
        /\ keys' = <<"x", "y">> \o Tail(keys)
    BY <1>1 DEF WgetchRaw
  <2>2. keys # <<>> /\ keys \in Seq(Keys)
    BY <2>1, LoopTypesUnfold DEF Readable, LoopInv
  <2>3. <<"x", "y">> \in Seq(Keys) /\ Tail(keys) \in Seq(Keys)
    BY <2>2 DEF Keys, Bytes
  <2>4. keys' \in Seq(Keys)
    BY <2>1, <2>3
  <2> QED
    BY <2>1, <2>2, <2>4, LoopTypesUnfold DEF LoopInv, ResizeInv
<1>2. CASE k \notin {"up", "down"}
  BY <1>2, WgetchKeeps DEF WgetchRaw
<1> QED
  BY <1>1, <1>2

\* What rebuild_windows_ leaves.
LEMMA RebuildKeeps ==
  ASSUME LoopInv, NEW size \in Sizes,
         NEW return \in {"ready", "drain", "input", "haltmsg"}, Rebuild(size, return)
  PROVE  /\ loc' \in {return, "small"} /\ loc' \in Locations
         /\ back' \in {"ready", "drain", "input", "haltmsg"} /\ built' \in Sizes
         /\ loc' # "small" => built' = size
  BY LoopTypesUnfold DEF LoopInv, Rebuild, Locations

LEMMA EnvironmentKeeps ==
  ASSUME LoopInv, Environment \/ Tick
  PROVE  LoopInv'
<1> USE DEF LoopInv
<1>1. CASE \E k \in Keys : Type(k)
  <2>1. PICK k \in Keys : Type(k)
    BY <1>1
  <2>2. /\ keys' = Append(keys, k) /\ terminal' = [terminal EXCEPT !.typed = @ + 1]
        /\ ~terminal.hungup
        /\ UNCHANGED <<control, resize_requested, delay, due, pending, eof, built, known, log>>
    BY <2>1 DEF Type
  <2>3. keys' \in Seq(Keys)
    BY <2>2, LoopTypesUnfold
  <2>4. /\ terminal' \in [size : Sizes, typed : Nat, winch : BOOLEAN, hungup : BOOLEAN]
        /\ terminal'.winch = terminal.winch /\ terminal'.size = terminal.size
        /\ ~terminal'.hungup
    <3>1. /\ terminal \in [size : Sizes, typed : Nat, winch : BOOLEAN, hungup : BOOLEAN]
          /\ terminal' = [terminal EXCEPT !.typed = terminal.typed + 1]
          /\ ~terminal.hungup
      BY <2>2, LoopTypesUnfold
    <3> HIDE DEF LoopInv
    <3> QED
      BY <3>1
  <2>5. LoopTypes'
    BY <2>2, <2>3, <2>4, LoopTypesUnfold DEF LoopTypes, VisualTypeOK, control
  <2> QED
    BY <2>2, <2>4, <2>5 DEF PromptInv, InputInOrder, StepInv, PausedStepsWereAsked,
       ResizeInv, control
<1>2. CASE \E big \in BOOLEAN : Resize(big)
  <2>1. PICK big \in BOOLEAN : Resize(big)
    BY <1>2
  <2>2. /\ terminal.size.n < MaxResizes /\ ~terminal.hungup
        /\ terminal' = [terminal EXCEPT !.size = [n |-> @.n + 1, big |-> big], !.winch = TRUE]
        /\ UNCHANGED <<control, resize_requested, delay, due, pending, eof, built, known,
                       keys, log>>
    BY <2>1 DEF Resize
  <2>3. [n |-> terminal.size.n + 1, big |-> big] \in Sizes
    BY <2>2, LoopTypesUnfold, BoundsAssumption DEF Sizes
  <2>4. /\ terminal' \in [size : Sizes, typed : Nat, winch : BOOLEAN, hungup : BOOLEAN]
        /\ terminal'.winch /\ ~terminal'.hungup
    BY <2>2, <2>3, LoopTypesUnfold
  <2>5. LoopTypes'
    BY <2>2, <2>4, LoopTypesUnfold DEF LoopTypes, VisualTypeOK, control
  <2> QED
    BY <2>2, <2>4, <2>5 DEF PromptInv, InputInOrder, StepInv, PausedStepsWereAsked,
       ResizeInv, control
<1>3. CASE Hangup
  <2>1. /\ terminal' = [terminal EXCEPT !.hungup = TRUE]
        /\ UNCHANGED <<control, resize_requested, delay, due, pending, eof, built, known,
                       keys, log>>
    BY <1>3 DEF Hangup
  <2>2. LoopTypes'
    BY <2>1, LoopTypesUnfold DEF LoopTypes, VisualTypeOK, control
  <2>3. /\ terminal'.winch = terminal.winch /\ terminal'.size = terminal.size
        /\ terminal'.hungup
    BY <2>1, LoopTypesUnfold
  <2> QED
    BY <2>1, <2>2, <2>3 DEF PromptInv, InputInOrder, StepInv, PausedStepsWereAsked,
       ResizeInv, control
<1>4. CASE Tick
  <2>1. /\ due' = TRUE
        /\ UNCHANGED <<control, resize_requested, delay, pending, eof, built, known,
                       terminal, keys, log>>
    BY <1>4 DEF Tick
  <2>2. LoopTypes'
    BY <2>1, LoopTypesUnfold DEF LoopTypes, VisualTypeOK, control
  <2> QED
    BY <2>1, <2>2 DEF PromptInv, InputInOrder, StepInv, PausedStepsWereAsked,
       ResizeInv, control
<1> QED
  BY <1>1, <1>2, <1>3, <1>4 DEF Environment

LEMMA TooSmallKeeps ==
  ASSUME LoopInv, NEW k, TooSmall(k)
  PROVE  LoopInv'
<1>1. /\ loc = "small" /\ Wgetch(k)
      /\ UNCHANGED <<paused, step_requested, halted, quit_requested,
                     resize_requested, delay, due, pending, eof, log>>
  BY DEF TooSmall
<1>2. /\ terminal' \in [size : Sizes, typed : Nat, winch : BOOLEAN, hungup : BOOLEAN]
      /\ known' \in Sizes /\ keys' \in Seq(Keys)
      /\ terminal'.winch \/ known' = terminal'.size
      /\ terminal'.hungup = terminal.hungup /\ (keys = <<>> => keys' = <<>>)
  BY <1>1, WgetchKeeps
<1>3. /\ loc' \in {"gone", "small", back} /\ loc' \in Locations
      /\ back' \in {"ready", "drain", "input", "haltmsg"} /\ built' \in Sizes
      /\ loc' \notin {"small", "gone"} => built' = known'
  <2>1. CASE k = "q"
    BY <2>1, LoopTypesUnfold DEF LoopInv, TooSmall, Locations
  <2>2. CASE k # "q"
    <3>1. Rebuild(known', back) /\ back \in {"ready", "drain", "input", "haltmsg"}
      BY <2>2, LoopTypesUnfold DEF LoopInv, TooSmall
    <3> QED
      BY <3>1, <1>2, RebuildKeeps
  <2> QED
    BY <2>1, <2>2
<1>4. back \in {"ready", "drain", "input", "haltmsg"}
  BY LoopTypesUnfold DEF LoopInv
<1>5. LoopTypes'
  BY <1>1, <1>2, <1>3, LoopTypesUnfold DEF LoopInv, LoopTypes, VisualTypeOK
<1>6. ResizeInv'
  BY <1>1, <1>2, <1>3, <1>4 DEF LoopInv, ResizeInv, Looping, Locations
<1> QED
  BY <1>1, <1>2, <1>3, <1>4, <1>5, <1>6
  DEF LoopInv, PromptInv, InputInOrder, StepInv, PausedStepsWereAsked

\* The steps that look at nothing but the state of the loop.
LEMMA QuietKeeps ==
  ASSUME LoopInv, loc' \in Locations, loc' \notin {"prompt", "ready"},
         UNCHANGED <<back, paused, step_requested, quit_requested, resize_requested,
                     delay, pending, eof, built, known, terminal, keys, log>>,
         halted' \in BOOLEAN, due' \in BOOLEAN,
         (paused /\ loc' \in {"step", "after"}) => step_requested,
         loc' \in Looping => loc \in Looping \ {"small"} \/ loc = "ready"
  PROVE  LoopInv'
<1>1. LoopTypes'
  BY LoopTypesUnfold DEF LoopInv, LoopTypes, VisualTypeOK
<1> QED
  BY <1>1 DEF LoopInv, PromptInv, InputInOrder, StepInv, PausedStepsWereAsked, ResizeInv

LEMMA QuietStepsKeep ==
  ASSUME LoopInv,
         ReadyFails \/ InputTimeout \/ NoMoreKeys \/ Decide \/ HaltMessageFails
           \/ \E kind \in Kinds : StepOther(kind)
  PROVE  LoopInv'
<1>1. paused \in BOOLEAN /\ due \in BOOLEAN /\ halted \in BOOLEAN /\ step_requested \in BOOLEAN
  BY LoopTypesUnfold DEF LoopInv
<1>2. CASE ReadyFails
  BY <1>1, <1>2, QuietKeeps DEF ReadyFails, WgetchFails, Locations
<1>3. CASE InputTimeout
  BY <1>1, <1>3, QuietKeeps DEF InputTimeout, Locations, Looping
<1>4. CASE NoMoreKeys
  BY <1>1, <1>4, QuietKeeps DEF NoMoreKeys, Locations, Looping
<1>5. CASE Decide
  BY <1>1, <1>5, QuietKeeps DEF Decide, Locations, Looping
<1>6. CASE HaltMessageFails
  BY <1>1, <1>6, QuietKeeps DEF HaltMessageFails, WgetchFails, Locations, Looping
<1>7. CASE \E kind \in Kinds : StepOther(kind)
  <2>1. PICK kind \in Kinds : StepOther(kind)
    BY <1>7
  <2>2. (paused /\ loc = "step") => step_requested
    BY DEF LoopInv, StepInv
  <2> QED
    BY <1>1, <2>1, <2>2, QuietKeeps DEF StepOther, Locations, Looping
<1> QED
  BY <1>2, <1>3, <1>4, <1>5, <1>6, <1>7

LEMMA ReadyKeeps ==
  ASSUME LoopInv, NEW k, Ready(k)
  PROVE  LoopInv'
<1>1. /\ loc = "ready" /\ WgetchRaw(k) /\ loc' = "input" /\ due' = TRUE
      /\ log' = [log EXCEPT !.missed = (k = "resize")]
      /\ UNCHANGED <<back, paused, step_requested, halted, quit_requested,
                     resize_requested, delay, pending, eof, built>>
  BY DEF Ready
<1>2. /\ terminal' \in [size : Sizes, typed : Nat, winch : BOOLEAN, hungup : BOOLEAN]
      /\ known' \in Sizes /\ keys' \in Seq(Keys)
      /\ terminal'.winch \/ known' = terminal'.size
      /\ terminal'.hungup = terminal.hungup /\ (keys = <<>> => keys' = <<>>)
      /\ k # "resize" => known' = known
  BY <1>1, WgetchRawKeeps
<1>3. /\ log' \in [accepted : Seq(Bytes), delivered : Seq(Bytes), asked : Nat,
                   singles : Nat, missed : BOOLEAN]
      /\ log'.accepted = log.accepted /\ log'.delivered = log.delivered
      /\ log'.asked = log.asked /\ log'.singles = log.singles
      /\ log'.missed = (k = "resize")
  BY <1>1, LoopTypesUnfold DEF LoopInv
<1>4. LoopTypes'
  BY <1>1, <1>2, <1>3, LoopTypesUnfold DEF LoopInv, LoopTypes, VisualTypeOK, Locations
<1>5. ResizeInv'
  BY <1>1, <1>2, <1>3 DEF LoopInv, ResizeInv
<1> QED
  BY <1>1, <1>2, <1>3, <1>4, <1>5
  DEF LoopInv, PromptInv, InputInOrder, StepInv, PausedStepsWereAsked

LEMMA HaltMessageKeeps ==
  ASSUME LoopInv, NEW k, HaltMessage(k)
  PROVE  LoopInv'
<1>1. /\ WgetchRaw(k) /\ loc' = "gone"
      /\ UNCHANGED <<back, paused, step_requested, halted, quit_requested, resize_requested,
                     delay, due, pending, eof, built, log>>
  BY DEF HaltMessage
<1>2. /\ terminal' \in [size : Sizes, typed : Nat, winch : BOOLEAN, hungup : BOOLEAN]
      /\ known' \in Sizes /\ keys' \in Seq(Keys)
      /\ terminal'.winch \/ known' = terminal'.size
      /\ terminal'.hungup = terminal.hungup /\ (keys = <<>> => keys' = <<>>)
  BY <1>1, WgetchRawKeeps
<1>3. LoopTypes'
  BY <1>1, <1>2, LoopTypesUnfold DEF LoopInv, LoopTypes, VisualTypeOK, Locations
<1> QED
  BY <1>1, <1>2, <1>3
  DEF LoopInv, PromptInv, InputInOrder, StepInv, PausedStepsWereAsked, ResizeInv, Looping

LEMMA QueueGrows ==
  ASSUME NEW a \in Seq(Bytes), NEW b \in Seq(Bytes), NEW c \in Seq(Bytes)
  PROVE  (a \o b) \o c = a \o (b \o c)
  BY ConcatAssociative

\* A key the program takes goes to the end of the queue and of the history.
LEMMA HandleKeyKeeps ==
  ASSUME LoopInv, NEW k, HandleKey(k)
  PROVE  LoopInv'
<1>1. /\ loc \in {"input", "drain"} /\ Wgetch(k)
      /\ paused' = CASE k = "p" -> ~paused [] k = "s" -> TRUE [] OTHER -> paused
      /\ step_requested' = (step_requested \/ k = "s")
      /\ quit_requested' = (k = "q")
      /\ UNCHANGED <<halted, resize_requested, due, eof>>
  BY DEF HandleKey
<1>2. /\ terminal' \in [size : Sizes, typed : Nat, winch : BOOLEAN, hungup : BOOLEAN]
      /\ known' \in Sizes /\ keys' \in Seq(Keys)
      /\ terminal'.winch \/ known' = terminal'.size
      /\ terminal'.hungup = terminal.hungup /\ (keys = <<>> => keys' = <<>>)
      /\ k # "resize" => known' = known /\ keys # <<>>
  BY <1>1, WgetchKeeps
<1>3. /\ log \in [accepted : Seq(Bytes), delivered : Seq(Bytes), asked : Nat,
                  singles : Nat, missed : BOOLEAN]
      /\ pending \in Seq(Bytes) /\ delay \in Nat /\ paused \in BOOLEAN
      /\ step_requested \in BOOLEAN
      /\ log.accepted = log.delivered \o pending
      /\ eof => terminal.hungup /\ pending = <<>> /\ keys = <<>>
  BY LoopTypesUnfold DEF LoopInv, PromptInv, InputInOrder
<1>4. delay' \in Nat
  BY <1>3 DEF HandleKey, Faster
<1>5. /\ loc' \in {"gone", "drain", "small"} /\ loc' \in Locations
      /\ back' \in {"ready", "drain", "input", "haltmsg"} /\ built' \in Sizes
      /\ loc' = "drain" => built' = IF k = "resize" THEN known' ELSE built
  <2>1. CASE k = "resize"
    <3>1. Rebuild(known', "drain")
      BY <2>1 DEF HandleKey, AfterKey
    <3> QED
      BY <2>1, <3>1, <1>2, RebuildKeeps
  <2>2. CASE k # "resize"
    <3>1. loc' = (IF k = "q" THEN "gone" ELSE "drain") /\ UNCHANGED <<back, built>>
      BY <2>2 DEF HandleKey, AfterKey
    <3> QED
      BY <2>2, <3>1, LoopTypesUnfold DEF LoopInv, Locations
  <2> QED
    BY <2>1, <2>2
<1>6. /\ pending' \in Seq(Bytes)
      /\ log'.accepted \in Seq(Bytes) /\ log'.accepted = log'.delivered \o pending'
      /\ log' \in [accepted : Seq(Bytes), delivered : Seq(Bytes), asked : Nat,
                   singles : Nat, missed : BOOLEAN]
      /\ log'.singles = log.singles /\ log'.missed = log.missed
      /\ log'.asked = IF k = "s" THEN log.asked + 1 ELSE log.asked
      /\ k = "resize" => pending' = pending
  <2> DEFINE taken == IF k \in {"x", "y"} THEN <<k>> ELSE <<>>
             asked == IF k = "s" THEN log.asked + 1 ELSE log.asked
  <2>1. taken \in Seq(Bytes) /\ asked \in Nat
    <3>1. CASE k \in {"x", "y"}
      <4>1. k \in Bytes /\ taken = <<k>>
        BY <3>1 DEF Bytes
      <4> HIDE DEF taken
      <4> QED
        BY <1>3, <4>1
    <3>2. CASE k \notin {"x", "y"}
      <4>1. taken = <<>>
        BY <3>2
      <4> HIDE DEF taken
      <4> QED
        BY <1>3, <4>1
    <3> QED
      BY <3>1, <3>2
  <2>2. log.accepted \in Seq(Bytes) /\ log.delivered \in Seq(Bytes) /\ pending \in Seq(Bytes)
    BY <1>3
  <2>3. /\ log' = [log EXCEPT !.accepted = log.accepted \o taken, !.asked = asked]
        /\ pending' = pending \o taken
        /\ k = "resize" => pending' = pending
    <3>1. CASE k \in {"x", "y"}
      <4>1. k \in Bytes /\ taken = <<k>>
        BY <3>1 DEF Bytes
      <4>2. Append(log.accepted, k) = log.accepted \o <<k>>
            /\ Append(pending, k) = pending \o <<k>>
        BY <2>2, <4>1, AppendIsConcat
      <4> QED
        BY <3>1, <4>1, <4>2 DEF HandleKey
    <3>2. CASE k \notin {"x", "y"}
      <4>1. taken = <<>>
        BY <3>2
      <4>2. log.accepted \o <<>> = log.accepted /\ pending \o <<>> = pending
        BY <2>2, ConcatEmptySeq
      <4> QED
        BY <3>2, <4>1, <4>2 DEF HandleKey
    <3> QED
      BY <3>1, <3>2
  <2> HIDE DEF taken, asked
  <2>4. log.accepted \o taken \in Seq(Bytes) /\ pending \o taken \in Seq(Bytes)
    BY <1>3, <2>1, <2>2
  <2>5. (log.delivered \o pending) \o taken = log.delivered \o (pending \o taken)
    BY <2>1, <2>2, QueueGrows, ZenonT(60)
  <2> QED
    BY <1>3, <2>1, <2>3, <2>4, <2>5 DEF asked
<1>7. LoopTypes'
  BY <1>1, <1>2, <1>3, <1>4, <1>5, <1>6, LoopTypesUnfold, ZenonT(60) DEF LoopInv, LoopTypes, VisualTypeOK
<1>8. PromptInv'
  BY <1>1, <1>2, <1>3, <1>5, <1>6 DEF PromptInv, InputInOrder
<1>9. StepInv'
  BY <1>1, <1>3, <1>5, <1>6 DEF LoopInv, StepInv, PausedStepsWereAsked
<1>10. ResizeInv'
  BY <1>1, <1>2, <1>5, <1>6 DEF LoopInv, ResizeInv, Looping, Locations
<1> QED
  BY <1>7, <1>8, <1>9, <1>10 DEF LoopInv

\* A key typed ahead moves from the queue to the program; without one, and
\* only then, the thread prompts.
LEMMA StepInKeeps ==
  ASSUME LoopInv, StepIn
  PROVE  LoopInv'
<1>1. /\ loc = "step" /\ loc' = IF eof \/ pending # <<>> THEN "after" ELSE "prompt"
      /\ UNCHANGED <<back, paused, step_requested, halted, quit_requested, resize_requested,
                     delay, due, eof, built, known, terminal, keys>>
  BY DEF StepIn
<1>2. /\ log \in [accepted : Seq(Bytes), delivered : Seq(Bytes), asked : Nat,
                  singles : Nat, missed : BOOLEAN]
      /\ pending \in Seq(Bytes)
      /\ log.accepted = log.delivered \o pending
  BY LoopTypesUnfold DEF LoopInv, PromptInv, InputInOrder
<1>3. /\ pending' \in Seq(Bytes) /\ log'.accepted = log'.delivered \o pending'
      /\ log' \in [accepted : Seq(Bytes), delivered : Seq(Bytes), asked : Nat,
                   singles : Nat, missed : BOOLEAN]
      /\ log'.singles = log.singles /\ log'.missed = log.missed /\ log'.asked = log.asked
      /\ pending = <<>> => pending' = <<>>
  <2>1. CASE ~eof /\ pending # <<>>
    <3>1. pending' = Tail(pending)
          /\ log' = [log EXCEPT !.delivered = Append(@, Head(pending))]
      BY <2>1 DEF StepIn
    <3>2. Head(pending) \in Bytes /\ Tail(pending) \in Seq(Bytes)
          /\ log.delivered \in Seq(Bytes)
      BY <1>2, <2>1
    <3> DEFINE d == Append(log.delivered, Head(pending))
    <3>3. d \in Seq(Bytes)
      BY <3>2
    <3>4. d \o Tail(pending) = log.delivered \o pending
      BY <1>2, <2>1, <3>2, SMTT(30)
    <3>5. log' = [log EXCEPT !.delivered = d]
      BY <3>1
    <3> HIDE DEF d
    <3> QED
      BY <1>2, <2>1, <3>1, <3>2, <3>3, <3>4, <3>5
  <2>2. CASE ~(~eof /\ pending # <<>>)
    BY <1>2, <2>2 DEF StepIn
  <2> QED
    BY <2>1, <2>2
<1>4. loc' \in {"after", "prompt"} /\ (loc' = "prompt" => pending = <<>>)
  BY <1>1
<1>5. LoopTypes'
  BY <1>1, <1>3, <1>4, LoopTypesUnfold DEF LoopInv, LoopTypes, VisualTypeOK, Locations
<1>6. PromptInv'
  <2>1. eof => terminal.hungup /\ pending = <<>> /\ keys = <<>>
    BY DEF LoopInv, PromptInv, InputInOrder
  <2> QED
    BY <1>1, <1>3, <1>4, <2>1 DEF PromptInv, InputInOrder
<1>7. StepInv' /\ ResizeInv'
  BY <1>1, <1>3, <1>4 DEF LoopInv, StepInv, PausedStepsWereAsked, ResizeInv, Looping, Locations
<1> QED
  BY <1>5, <1>6, <1>7 DEF LoopInv

\* A key typed at the prompt goes to the program past an empty queue.
LEMMA PromptKeeps ==
  ASSUME LoopInv, NEW k, Prompt(k)
  PROVE  LoopInv'
<1>1. /\ loc = "prompt" /\ Wgetch(k)
      /\ resize_requested' = (resize_requested \/ k = "resize")
      /\ UNCHANGED <<back, paused, step_requested, halted, quit_requested,
                     delay, due, pending, eof, built>>
  BY DEF Prompt
<1>2. /\ terminal' \in [size : Sizes, typed : Nat, winch : BOOLEAN, hungup : BOOLEAN]
      /\ known' \in Sizes /\ keys' \in Seq(Keys)
      /\ terminal'.winch \/ known' = terminal'.size
      /\ terminal'.hungup = terminal.hungup /\ (keys = <<>> => keys' = <<>>)
      /\ k # "resize" => known' = known
  BY <1>1, WgetchKeeps
<1>3. /\ log \in [accepted : Seq(Bytes), delivered : Seq(Bytes), asked : Nat,
                  singles : Nat, missed : BOOLEAN]
      /\ pending = <<>> /\ resize_requested \in BOOLEAN
      /\ log.accepted = log.delivered \o pending
      /\ eof => terminal.hungup /\ keys = <<>>
  BY <1>1, LoopTypesUnfold DEF LoopInv, PromptInv, InputInOrder
<1>4. /\ loc' \in {"prompt", "after"} /\ log'.accepted = log'.delivered \o pending'
      /\ log' \in [accepted : Seq(Bytes), delivered : Seq(Bytes), asked : Nat,
                   singles : Nat, missed : BOOLEAN]
      /\ log'.singles = log.singles /\ log'.missed = log.missed /\ log'.asked = log.asked
  <2>1. log.delivered \in Seq(Bytes) /\ log.accepted \in Seq(Bytes)
    BY <1>3
  <2>2. log.delivered \o <<>> = log.delivered
    BY <2>1
  <2>3. log.accepted = log.delivered
    BY <1>3, <2>2
  <2>4. CASE k \in Bytes
    <3>1. loc' = "after"
          /\ log' = [log EXCEPT !.accepted = Append(@, k), !.delivered = Append(@, k)]
      BY <2>4 DEF Prompt
    <3>2. Append(log.delivered, k) \in Seq(Bytes)
      BY <2>1, <2>4
    <3>3. Append(log.delivered, k) \o <<>> = Append(log.delivered, k)
      BY <3>2
    <3> QED
      BY <1>1, <1>3, <2>3, <3>1, <3>2, <3>3
  <2>5. CASE k \notin Bytes
    BY <1>1, <1>3, <2>5 DEF Prompt
  <2> QED
    BY <2>4, <2>5
<1>5. LoopTypes'
  BY <1>1, <1>2, <1>3, <1>4, LoopTypesUnfold DEF LoopInv, LoopTypes, VisualTypeOK, Locations
<1>6. PromptInv'
  BY <1>1, <1>2, <1>3, <1>4 DEF PromptInv, InputInOrder
<1>7. StepInv'
  BY <1>1, <1>4 DEF LoopInv, StepInv, PausedStepsWereAsked
<1>8. ResizeInv'
  BY <1>1, <1>2, <1>4 DEF LoopInv, ResizeInv, Looping, Locations
<1> QED
  BY <1>5, <1>6, <1>7, <1>8 DEF LoopInv

LEMMA PromptFailsKeeps ==
  ASSUME LoopInv, PromptFails
  PROVE  LoopInv'
<1>1. /\ loc = "prompt" /\ loc' = "after" /\ eof' = TRUE
      /\ terminal.hungup /\ keys = <<>>
      /\ UNCHANGED <<terminal, known, keys>>
      /\ UNCHANGED <<back, paused, step_requested, halted, quit_requested, resize_requested,
                     delay, due, pending, built, log>>
  BY DEF PromptFails, WgetchFails, Readable
<1>2. LoopTypes'
  BY <1>1, LoopTypesUnfold DEF LoopInv, LoopTypes, VisualTypeOK, Locations
<1> QED
  BY <1>1, <1>2 DEF LoopInv, PromptInv, InputInOrder, StepInv, PausedStepsWereAsked,
     ResizeInv, Looping, Locations

\* After a step the request is used up, and the windows follow a resize.
LEMMA AfterKeeps ==
  ASSUME LoopInv, After
  PROVE  LoopInv'
<1>1. /\ loc = "after" /\ step_requested' = FALSE /\ due' = (delay = 0)
      /\ resize_requested' = FALSE
      /\ log' = [log EXCEPT !.singles = IF paused THEN @ + 1 ELSE @]
      /\ UNCHANGED <<paused, halted, quit_requested,
                     delay, pending, eof, known, terminal, keys>>
  BY DEF After
<1>2. /\ log \in [accepted : Seq(Bytes), delivered : Seq(Bytes), asked : Nat,
                  singles : Nat, missed : BOOLEAN]
      /\ known \in Sizes /\ paused \in BOOLEAN /\ resize_requested \in BOOLEAN
      /\ paused => log.singles < log.asked
  BY <1>1, LoopTypesUnfold DEF LoopInv, StepInv
<1>3. /\ log' \in [accepted : Seq(Bytes), delivered : Seq(Bytes), asked : Nat,
                   singles : Nat, missed : BOOLEAN]
      /\ log'.accepted = log.accepted /\ log'.delivered = log.delivered
      /\ log'.missed = log.missed /\ log'.asked = log.asked
      /\ log'.singles = IF paused THEN log.singles + 1 ELSE log.singles
  <2> DEFINE singles == IF paused THEN log.singles + 1 ELSE log.singles
  <2>1. singles \in Nat
    BY <1>2
  <2>2. log' = [log EXCEPT !.singles = singles]
    BY <1>1
  <2> HIDE DEF singles
  <2>3. /\ log' \in [accepted : Seq(Bytes), delivered : Seq(Bytes), asked : Nat,
                     singles : Nat, missed : BOOLEAN]
        /\ log'.accepted = log.accepted /\ log'.delivered = log.delivered
        /\ log'.missed = log.missed /\ log'.asked = log.asked
        /\ log'.singles = singles
    BY <1>2, <2>1, <2>2
  <2> QED
    BY <2>3 DEF singles
<1>4. /\ loc' \in {"haltmsg", "input", "small"}
      /\ back' \in {"ready", "drain", "input", "haltmsg"} /\ built' \in Sizes
      /\ loc' # "small" => built' = IF resize_requested THEN known ELSE built
  <2> DEFINE next == IF halted THEN "haltmsg" ELSE "input"
  <2>1. next \in {"haltmsg", "input"}
    OBVIOUS
  <2>2. IF resize_requested THEN Rebuild(known, next)
                            ELSE loc' = next /\ UNCHANGED <<back, built>>
    BY DEF After
  <2> HIDE DEF next
  <2>3. CASE resize_requested
    BY <1>2, <2>1, <2>2, <2>3, RebuildKeeps
  <2>4. CASE ~resize_requested
    BY <2>1, <2>2, <2>4, LoopTypesUnfold DEF LoopInv
  <2> QED
    BY <1>2, <2>3, <2>4
<1>5. LoopTypes'
  BY <1>1, <1>3, <1>4, LoopTypesUnfold DEF LoopInv, LoopTypes, VisualTypeOK, Locations
<1>6. PromptInv'
  BY <1>1, <1>3, <1>4 DEF LoopInv, PromptInv, InputInOrder
<1>7. StepInv'
  BY <1>1, <1>2, <1>3, <1>4 DEF LoopInv, StepInv, PausedStepsWereAsked
<1>8. ResizeInv'
  BY <1>1, <1>2, <1>3, <1>4 DEF LoopInv, ResizeInv, Looping, Locations
<1> QED
  BY <1>5, <1>6, <1>7, <1>8 DEF LoopInv

LEMMA NextKeepsLoop ==
  ASSUME LoopInv, [VisualNext]_vvars
  PROVE  LoopInv'
<1>1. CASE \E k \in Readable :
             TooSmall(k) \/ Ready(k) \/ HandleKey(k) \/ Prompt(k) \/ HaltMessage(k)
  BY <1>1, TooSmallKeeps, ReadyKeeps, HandleKeyKeeps, PromptKeeps, HaltMessageKeeps
<1>2. CASE ReadyFails \/ InputTimeout \/ NoMoreKeys \/ Decide \/ HaltMessageFails
             \/ \E kind \in Kinds : StepOther(kind)
  BY <1>2, QuietStepsKeep
<1>3. CASE StepIn \/ PromptFails \/ After
  BY <1>3, StepInKeeps, PromptFailsKeeps, AfterKeeps
<1>4. CASE Environment \/ Tick
  BY <1>4, EnvironmentKeeps
<1>5. CASE UNCHANGED vvars
  BY <1>5 DEF vvars, control, LoopInv, LoopTypes, VisualTypeOK, PromptInv, InputInOrder,
     StepInv, PausedStepsWereAsked, ResizeInv
<1> QED
  BY <1>1, <1>2, <1>3, <1>4, <1>5 DEF VisualNext, Thread

-----------------------------------------------------------------------------
(***************************************************************************)
(* The theorems about the loop, for any number of keys and of resizes.     *)
(***************************************************************************)

THEOREM LoopInvariant == VisualSpec => []LoopInv
<1>1. LoopInv /\ [VisualNext]_vvars => LoopInv'
  BY NextKeepsLoop
<1> QED
  BY <1>1, InitLoop, PTL DEF VisualSpec

\* delay_ never goes below zero, and only bytes are queued for the program.
THEOREM LoopTypeCorrect == VisualSpec => []VisualTypeOK
<1>1. LoopInv => VisualTypeOK
  BY DEF LoopInv, LoopTypes
<1> QED
  BY <1>1, LoopInvariant, PTL

\* Typed ahead or at the prompt, the program reads the user's bytes once each
\* and in the order they were typed, and the end of its input behind them.
THEOREM InputIsInOrder == VisualSpec => []InputInOrder
<1>1. LoopInv => InputInOrder
  BY DEF LoopInv, PromptInv
<1> QED
  BY <1>1, LoopInvariant, PTL

\* A paused program never makes more steps than the user asked for.
THEOREM PausedStepsAreAsked == VisualSpec => []PausedStepsWereAsked
<1>1. LoopInv => PausedStepsWereAsked
  BY DEF LoopInv, StepInv
<1> QED
  BY <1>1, LoopInvariant, PTL

\* Unless it came at the screen that waits for a key, no resize is lost.
THEOREM ResizesArePending == VisualSpec => []ResizeIsPending
<1>1. LoopInv => ResizeIsPending
  BY DEF LoopInv, ResizeInv, ResizeIsPending
<1> QED
  BY <1>1, LoopInvariant, PTL
=============================================================================
