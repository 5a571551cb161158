---------------------------- MODULE PrintedProofs ----------------------------
(***************************************************************************)
(* Proofs about the two programs that dump prints.                         *)
(*                                                                         *)
(* The C program implements the bitcode machine: in a complete program the *)
(* brace that closes a while is the partner that the offset of the jump    *)
(* names.  The LLVM module implements it too: its labels are the places    *)
(* behind the partners, and an offset reduced to the tape leads to the     *)
(* cell that the offset itself leads to.                                   *)
(*                                                                         *)
(* The two specifications share the variables of PrintedProgram, and no    *)
(* theorem is about both.                                                  *)
(***************************************************************************)
EXTENDS CProgram, LlvmProgram, Lemmas, FiniteSetTheorems, SequenceTheorems

\* What translate leaves in bitcode_: nothing, or a complete program.
Translated(code) == code = <<>> \/ WellFormed(code)

-----------------------------------------------------------------------------
(***************************************************************************)
(* The C program: braces are partners.                                     *)
(***************************************************************************)

\* The facts about jumps in the form the proofs use.
LEMMA JumpFacts ==
  ASSUME NEW code \in Seq(Instruction), WellFormed(code), NEW i \in DOMAIN code
  PROVE  /\ DOMAIN code = 1 .. Len(code) /\ Len(code) \in Nat
         /\ i \in Int /\ 1 <= i /\ i <= Len(code)
         /\ code[i].off \in Int /\ code[i].imm \in Cell /\ code[i].op \in Opcode
         /\ code[i].op = "JE" =>
              /\ code[i].off > 0 /\ i + code[i].off \in DOMAIN code
              /\ code[i + code[i].off].op = "JN"
              /\ code[i + code[i].off].off = -code[i].off
         /\ code[i].op = "JN" =>
              /\ code[i].off < 0 /\ i + code[i].off \in DOMAIN code
              /\ code[i + code[i].off].op = "JE"
              /\ code[i + code[i].off].off = -code[i].off
<1>1. DOMAIN code = 1 .. Len(code) /\ Len(code) \in Nat
  BY LenProperties
<1>2. code[i] \in Instruction
  BY <1>1
<1>3. code[i].off \in Int /\ code[i].imm \in Cell /\ code[i].op \in Opcode
  BY <1>2 DEF Instruction
<1>4. i \in Int /\ 1 <= i /\ i <= Len(code)
  BY <1>1
<1> QED
  BY <1>1, <1>3, <1>4 DEF WellFormed, JumpsMatched, Paired

\* A "}" inside a loop closes a while inside it.
LEMMA CloseInside ==
  ASSUME NEW code \in Seq(Instruction), WellFormed(code),
         NEW i \in DOMAIN code, code[i].op = "JE",
         NEW c \in DOMAIN code, code[c].op = "JN",
         i < c, c < i + code[i].off
  PROVE  i < c + code[c].off /\ c + code[c].off < c
<1> DEFINE o == c + code[c].off
<1>1. /\ o \in DOMAIN code /\ code[o].op = "JE" /\ o + code[o].off = c
      /\ o \in Int /\ o < c /\ i \in Int /\ code[i].off \in Int
  <2>1. /\ c \in Int /\ code[c].off \in Int /\ code[c].off < 0
        /\ o \in DOMAIN code /\ code[o].op = "JE" /\ code[o].off = -code[c].off
    BY JumpFacts
  <2>2. i \in Int /\ code[i].off \in Int
    BY JumpFacts
  <2> QED
    BY <2>1, <2>2, SMTT(30)
<1>2. o # i
  BY <1>1
<1>3. ~(o < i)
  BY <1>1 DEF WellFormed, WellNested
<1> QED
  BY <1>1, <1>2, <1>3

\* A while inside a loop is closed inside it.
LEMMA OpenInside ==
  ASSUME NEW code \in Seq(Instruction), WellFormed(code),
         NEW i \in DOMAIN code, code[i].op = "JE",
         NEW o \in DOMAIN code, code[o].op = "JE",
         i < o, o < i + code[i].off
  PROVE  o < o + code[o].off /\ o + code[o].off < i + code[i].off
<1>1. code[o].off > 0 /\ code[o].off \in Int /\ o \in Int
  BY JumpFacts
<1> QED
  BY <1>1 DEF WellFormed, WellNested

\* Before the partner of a while more braces have been opened than closed.
LEMMA NotClosedBefore ==
  ASSUME NEW code \in Seq(Instruction), WellFormed(code),
         NEW i \in DOMAIN code, code[i].op = "JE",
         NEW k \in DOMAIN code, i < k, k < i + code[i].off
  PROVE  Cardinality(Opened(code, i .. k)) # Cardinality(Closed(code, i .. k))
<1> DEFINE E == Opened(code, i .. k)
           C == Closed(code, i .. k)
           partner == [c \in C |-> c + code[c].off]
<1>1. i \in Int /\ k \in Int /\ 1 <= i /\ k <= Len(code) /\ DOMAIN code = 1 .. Len(code)
  BY JumpFacts
<1>2. IsFiniteSet(E) /\ IsFiniteSet(C)
  <2>1. IsFiniteSet(i .. k)
    BY <1>1, FS_Interval
  <2> QED
    BY <2>1, FS_Subset DEF Opened, Closed
<1>3. i \in E
  BY <1>1 DEF Opened
<1>4. \A c \in C : /\ c \in DOMAIN code /\ c \in Int /\ code[c].op = "JN"
                   /\ i < c /\ c <= k
  BY <1>1 DEF Closed
<1>5. \A c \in C : partner[c] \in E \ {i}
  <2> SUFFICES ASSUME NEW c \in C PROVE partner[c] \in E \ {i}
    OBVIOUS
  <2>1. i < partner[c] /\ partner[c] < c
    <3>1. c < i + code[i].off
      <4>1. code[i].off \in Int
        BY JumpFacts
      <4> QED
        BY <4>1, <1>1, <1>4
    <3>2. i < c + code[c].off /\ c + code[c].off < c
      BY <3>1, <1>4, CloseInside
    <3> QED
      BY <3>2
  <2>2. partner[c] \in DOMAIN code /\ code[partner[c]].op = "JE" /\ partner[c] \in Int
    BY <1>4, JumpFacts
  <2> QED
    BY <1>1, <1>4, <2>1, <2>2 DEF Opened
<1>6. \A c, d \in C : partner[c] = partner[d] => c = d
  <2> SUFFICES ASSUME NEW c \in C, NEW d \in C, partner[c] = partner[d] PROVE c = d
    OBVIOUS
  <2>1. /\ code[partner[c]].off = -code[c].off /\ code[partner[d]].off = -code[d].off
        /\ code[c].off \in Int /\ code[d].off \in Int
    BY <1>4, JumpFacts
  <2>2. partner[c] = c + code[c].off /\ partner[d] = d + code[d].off
    OBVIOUS
  <2>3. code[c].off = code[d].off
    BY <2>1, SMTT(30)
  <2> QED
    BY <1>4, <2>1, <2>2, <2>3
<1>7. partner \in Injection(C, E \ {i})
  BY <1>5, <1>6 DEF Injection, IsInjective
<1> HIDE DEF E, C, partner
<1>8. /\ IsFiniteSet(E \ {i}) /\ Cardinality(E \ {i}) = Cardinality(E) - 1
  BY <1>2, <1>3, FS_RemoveElement
<1>9. Cardinality(C) <= Cardinality(E) - 1
  BY <1>7, <1>8, FS_Injection
<1>10. Cardinality(E) \in Nat /\ Cardinality(C) \in Nat
  BY <1>2, FS_CardinalityType
<1>11. Cardinality(E) # Cardinality(C)
  BY <1>9, <1>10
<1> QED
  BY <1>11 DEF E, C

\* At the partner as many have been closed as opened.
LEMMA ClosedAtPartner ==
  ASSUME NEW code \in Seq(Instruction), WellFormed(code),
         NEW i \in DOMAIN code, code[i].op = "JE"
  PROVE  LET j == i + code[i].off
         IN  Cardinality(Opened(code, i .. j)) = Cardinality(Closed(code, i .. j))
<1> DEFINE j == i + code[i].off
           E == Opened(code, i .. j)
           C == Closed(code, i .. j)
           partner == [e \in E |-> e + code[e].off]
<1>1. /\ i \in Int /\ j \in Int /\ 1 <= i /\ i < j /\ j <= Len(code)
      /\ DOMAIN code = 1 .. Len(code)
      /\ j \in DOMAIN code /\ code[j].op = "JN" /\ j + code[j].off = i
  BY JumpFacts
<1>2. IsFiniteSet(E)
  <2>1. IsFiniteSet(i .. j)
    BY <1>1, FS_Interval
  <2> QED
    BY <2>1, FS_Subset DEF Opened
<1>3. \A e \in E : /\ e \in DOMAIN code /\ e \in Int /\ code[e].op = "JE"
                   /\ i <= e /\ e < j
  BY <1>1 DEF Opened
<1>4. \A c \in C : /\ c \in DOMAIN code /\ c \in Int /\ code[c].op = "JN"
                   /\ i < c /\ c <= j
  BY <1>1 DEF Closed
<1>5. \A e \in E : partner[e] \in C
  <2> SUFFICES ASSUME NEW e \in E PROVE partner[e] \in C
    OBVIOUS
  <2>1. e < partner[e] /\ partner[e] <= j /\ partner[e] \in Int
    <3>1. CASE e = i
      BY <3>1, <1>1
    <3>2. CASE e # i
      <4>1. i < e /\ e < i + code[i].off
        BY <1>1, <1>3, <3>2
      <4>2. e < e + code[e].off /\ e + code[e].off < i + code[i].off
        BY <4>1, <1>3, OpenInside
      <4>3. e \in Int /\ code[e].off \in Int
        BY <1>3, JumpFacts
      <4> QED
        BY <4>2, <4>3, <1>1
    <3> QED
      BY <3>1, <3>2
  <2>2. code[partner[e]].op = "JN"
    BY <1>3, JumpFacts
  <2> QED
    BY <1>1, <1>3, <2>1, <2>2 DEF Closed
<1>6. \A e, f \in E : partner[e] = partner[f] => e = f
  <2> SUFFICES ASSUME NEW e \in E, NEW f \in E, partner[e] = partner[f] PROVE e = f
    OBVIOUS
  <2>1. /\ code[partner[e]].off = -code[e].off /\ code[partner[f]].off = -code[f].off
        /\ code[e].off \in Int /\ code[f].off \in Int
    BY <1>3, JumpFacts
  <2>2. partner[e] = e + code[e].off /\ partner[f] = f + code[f].off
    OBVIOUS
  <2>3. code[e].off = code[f].off
    BY <2>1, SMTT(30)
  <2> QED
    BY <1>3, <2>1, <2>2, <2>3
<1>7. \A c \in C : \E e \in E : partner[e] = c
  <2> SUFFICES ASSUME NEW c \in C PROVE \E e \in E : partner[e] = c
    OBVIOUS
  <2> DEFINE o == c + code[c].off
  <2>1. /\ o \in DOMAIN code /\ code[o].op = "JE" /\ o \in Int
        /\ o + code[o].off = c /\ o < c
    BY <1>4, JumpFacts
  <2>2. i <= o
    <3>1. CASE c = j
      BY <3>1, <1>1
    <3>2. CASE c # j
      <4>1. i < c /\ c < i + code[i].off
        BY <3>2, <1>1, <1>4
      <4>2. i < c + code[c].off
        BY <4>1, <1>4, CloseInside
      <4> QED
        BY <4>2, <2>1, <1>1
    <3> QED
      BY <3>1, <3>2
  <2>3. o \in E
    BY <1>1, <1>4, <2>1, <2>2 DEF Opened
  <2> QED
    BY <2>1, <2>3
<1>8. partner \in Bijection(E, C)
  BY <1>5, <1>6, <1>7 DEF Bijection, Injection, IsInjective, Surjection
<1> HIDE DEF E, C, partner
<1>9. ExistsBijection(E, C)
  BY <1>8 DEF ExistsBijection
<1>10. Cardinality(E) = Cardinality(C)
  BY <1>2, <1>9, FS_Bijection
<1> QED
  BY <1>10 DEF E, C

\* The "}" that closes a while is the partner of its jump.
LEMMA BraceIsPartner ==
  ASSUME NEW code \in Seq(Instruction), WellFormed(code),
         NEW i \in DOMAIN code, code[i].op = "JE"
  PROVE  ClosingBrace(code, i) = i + code[i].off
<1> DEFINE j == i + code[i].off
           S == {k \in i + 1 .. Len(code) :
                   Cardinality(Opened(code, i .. k)) = Cardinality(Closed(code, i .. k))}
<1>1. /\ i \in Int /\ j \in Int /\ 1 <= i /\ i < j /\ j <= Len(code) /\ Len(code) \in Nat
      /\ DOMAIN code = 1 .. Len(code)
  BY JumpFacts
<1>2. j \in S
  BY <1>1, ClosedAtPartner
<1>3. \A k \in S : k \in Int /\ j <= k
  BY <1>1, NotClosedBefore
<1> HIDE DEF S, j
<1>4. \A k \in S : (\A l \in S : k <= l) => k = j
  BY <1>1, <1>2, <1>3
<1>5. Min(S) = j
  BY <1>2, <1>3, <1>4 DEF Min
<1> QED
  BY <1>5 DEF ClosingBrace, S, j

\* The while that a "}" closes is the partner of its jump.
LEMMA WhileIsPartner ==
  ASSUME NEW code \in Seq(Instruction), WellFormed(code),
         NEW j \in DOMAIN code, code[j].op = "JN"
  PROVE  /\ WhileOf(code, j) = j + code[j].off
         /\ WhileOf(code, j) \in DOMAIN code
         /\ code[WhileOf(code, j)].op = "JE"
         /\ ClosingBrace(code, WhileOf(code, j)) = j
<1> DEFINE o == j + code[j].off
<1>1. /\ o \in DOMAIN code /\ code[o].op = "JE" /\ o + code[o].off = j
      /\ o \in 1 .. j /\ DOMAIN code = 1 .. Len(code) /\ j \in Int /\ j <= Len(code)
      /\ code[j].off \in Int /\ Len(code) \in Nat
  BY JumpFacts
<1>2. ClosingBrace(code, o) = j
  BY <1>1, BraceIsPartner
<1>3. \A i \in 1 .. j : (code[i].op = "JE" /\ ClosingBrace(code, i) = j) => i = o
  <2> SUFFICES ASSUME NEW i \in 1 .. j, code[i].op = "JE", ClosingBrace(code, i) = j
               PROVE  i = o
    OBVIOUS
  <2>1. i \in DOMAIN code
    BY <1>1
  <2>2. i + code[i].off = j /\ code[j].off = -code[i].off /\ code[i].off \in Int
    BY <2>1, BraceIsPartner, JumpFacts
  <2> QED
    BY <2>2
<1>4. WhileOf(code, j) = o
  BY <1>1, <1>2, <1>3 DEF WhileOf
<1> QED
  BY <1>1, <1>2, <1>4

-----------------------------------------------------------------------------
(***************************************************************************)
(* The invariant: control is in the program, and it is back at a test only *)
(* at a while.                                                             *)
(***************************************************************************)

CInv ==
  /\ bitcode \in Seq(Instruction) /\ Translated(bitcode)
  /\ stage \in {"idle", "running", "returned"}
  /\ line \in Nat
  /\ bitcode = <<>> => line = 0
  /\ bitcode # <<>> => line < Len(bitcode)
  /\ again \in BOOLEAN
  /\ again => bitcode # <<>> /\ Here.op = "JE"
  /\ stage = "idle" => /\ line = 0 /\ ~again /\ ptr = 0 /\ output = <<>>
                       /\ memory = [a \in Address |-> 0] /\ input \in Inputs

LEMMA InitCInv ==
  ASSUME \A code \in Programs : Translated(code), CInit
  PROVE  CInv
<1>1. bitcode \in Seq(Instruction) /\ Translated(bitcode) /\ input \in Inputs
  BY ProgramsAssumption DEF CInit, Dumped
<1>2. bitcode # <<>> => 0 < Len(bitcode)
  BY <1>1, EmptySeq, LenProperties
<1> QED
  BY <1>1, <1>2 DEF CInit, Dumped, CInv

\* Control at an instruction.
LEMMA HereFacts ==
  ASSUME CInv, line < Len(bitcode)
  PROVE  /\ bitcode # <<>> /\ WellFormed(bitcode) /\ bitcode \in Seq(Instruction)
         /\ line \in Nat /\ line + 1 \in DOMAIN bitcode /\ Len(bitcode) \in Nat
         /\ Here.op # "H" => line + 1 < Len(bitcode)
<1>1. bitcode \in Seq(Instruction) /\ line \in Nat
  BY DEF CInv
<1>2. Len(bitcode) \in Nat /\ line + 1 \in DOMAIN bitcode
  BY <1>1, LenProperties
<1>3. bitcode # <<>>
  BY <1>2, EmptySeq
<1>4. WellFormed(bitcode)
  BY <1>3 DEF CInv, Translated
<1>5. Here.op # "H" => line + 1 # Len(bitcode)
  BY <1>2, <1>4 DEF WellFormed, Here
<1> QED
  BY <1>1, <1>2, <1>3, <1>4, <1>5

\* Any step to a line of the same program keeps the invariant, if a step that
\* goes back to a test goes to a while.
LEMMA GoesOn ==
  ASSUME CInv, bitcode # <<>>, bitcode' = bitcode, stage' \in {"running", "returned"},
         line' \in Nat, line' < Len(bitcode),
         again' \in BOOLEAN, again' => bitcode[line' + 1].op = "JE"
  PROVE  CInv'
  BY DEF CInv, Translated, WellFormed, JumpsMatched, WellNested, Paired, Here

\* Steps to the next line.
LEMMA NextLineKeeps ==
  ASSUME CInv, NextLine, stage = "running", line < Len(bitcode),
         Here.op \notin {"JE", "H"}
  PROVE  CInv'
<1>1. line + 1 \in Nat /\ line + 1 < Len(bitcode) /\ bitcode # <<>>
  BY HereFacts
<1>2. again = FALSE
  BY DEF CInv
<1> QED
  BY <1>1, <1>2, GoesOn DEF NextLine

-----------------------------------------------------------------------------
(***************************************************************************)
(* Each action is a step of the machine or none.                           *)
(***************************************************************************)

\* The two programs share Bitcode.
LEMMA SameBitcodeC ==
  /\ CInterpreter!Address = Address /\ CInterpreter!IO_IN = IO_IN
  /\ \A a, off, size : CInterpreter!WrapOffset(a, off, size) = WrapOffset(a, off, size)
  BY DEF CInterpreter!Address, Address, CInterpreter!IO_IN, IO_IN,
     CInterpreter!WrapOffset, WrapOffset

CMachineStep == CInterpreter!Next \/ UNCHANGED CInterpreter!mvars

LEMMA MainImplements ==
  ASSUME CInv, CMain
  PROVE  CInv' /\ CMachineStep
<1>1. CInv'
  BY DEF CInv, CMain, Translated, WellFormed, JumpsMatched, WellNested, Paired, Here
<1>2. MachineStatus = "idle" /\ MachineStatus' = "running"
  BY DEF CMain, MachineStatus
<1>3. MachinePc' = 0
  BY DEF CMain, CInv, MachinePc
<1>4. CInterpreter!Run
  BY <1>2, <1>3, SameBitcodeC
  DEF CMain, CInv, CInterpreter!Run, CInterpreter!ResetState, CInterpreter!BlankMemory
<1> QED
  BY <1>1, <1>4 DEF CMachineStep, CInterpreter!Next

\* What the two programs see of each other at an instruction that is no while.
LEMMA SameInstruction ==
  ASSUME CInv, stage = "running", line < Len(bitcode), Here.op # "JE"
  PROVE  /\ again = FALSE /\ MachinePc = line /\ MachineStatus = "running"
         /\ CInterpreter!At = Here /\ CInterpreter!Current = Current
         /\ \A op \in {Here.op} : CInterpreter!Executes(op)
<1>1. again = FALSE
  BY DEF CInv
<1>2. MachinePc = line /\ MachineStatus = "running"
  BY <1>1 DEF MachinePc, MachineStatus
<1> QED
  BY <1>1, <1>2 DEF CInterpreter!At, CInterpreter!Current, CInterpreter!Executes, Here, Current

LEMMA AssignmentImplements ==
  ASSUME CInv, Assignment
  PROVE  CInv' /\ CMachineStep
<1>1. /\ stage = "running" /\ line < Len(bitcode) /\ Here.op \in {"A", "S", "MUL"}
      /\ NextLine
  BY DEF Assignment, At, Here
<1>2. CInv'
  BY <1>1, NextLineKeeps
<1>3. /\ again = FALSE /\ MachinePc = line /\ MachineStatus = "running"
      /\ CInterpreter!At = Here /\ CInterpreter!Current = Current
      /\ CInterpreter!Executes(Here.op)
  BY <1>1, SameInstruction
<1>4. MachinePc' = line + 1 /\ UNCHANGED MachineStatus
  BY <1>1, <1>3 DEF NextLine, MachinePc, MachineStatus
<1>5. CInterpreter!Continue /\ CInterpreter!NoIO
  BY <1>1, <1>3, <1>4 DEF Assignment, NextLine, NoIO, CInterpreter!Continue, CInterpreter!NoIO
<1>6. CInterpreter!A \/ CInterpreter!S \/ CInterpreter!MUL
  <2>1. CASE At("A")
    BY <1>3, <1>5, <2>1 DEF Assignment, At, Here, CInterpreter!A
  <2>2. CASE At("S")
    BY <1>3, <1>5, <2>2 DEF Assignment, At, Here, CInterpreter!S
  <2>3. CASE At("MUL")
    BY <1>3, <1>5, <2>3, SameBitcodeC DEF Assignment, At, Here, CInterpreter!MUL
  <2> QED
    BY <2>1, <2>2, <2>3 DEF Assignment
<1> QED
  BY <1>2, <1>6 DEF CMachineStep, CInterpreter!Next, CInterpreter!Step

LEMMA MoveImplements ==
  ASSUME CInv, Move
  PROVE  CInv' /\ CMachineStep
<1>1. /\ stage = "running" /\ line < Len(bitcode) /\ Here.op = "M" /\ NextLine
  BY DEF Move, At, Here
<1>2. CInv'
  BY <1>1, NextLineKeeps
<1>3. /\ again = FALSE /\ MachinePc = line /\ MachineStatus = "running"
      /\ CInterpreter!At = Here /\ CInterpreter!Executes("M")
  BY <1>1, SameInstruction
<1>4. MachinePc' = line + 1 /\ UNCHANGED MachineStatus
  BY <1>1, <1>3 DEF NextLine, MachinePc, MachineStatus
<1>5. CInterpreter!M
  BY <1>1, <1>3, <1>4, SameBitcodeC
  DEF Move, NextLine, NoIO, CInterpreter!M, CInterpreter!Continue, CInterpreter!NoIO
<1> QED
  BY <1>2, <1>5 DEF CMachineStep, CInterpreter!Next, CInterpreter!Step

LEMMA FindImplements ==
  ASSUME CInv, Find
  PROVE  CInv' /\ CMachineStep
<1>1. /\ stage = "running" /\ line < Len(bitcode) /\ Here.op = "F"
      /\ UNCHANGED <<bitcode, stage, again>>
  BY DEF Find, At, Here
<1>2. /\ again = FALSE /\ MachinePc = line /\ MachineStatus = "running"
      /\ CInterpreter!At = Here /\ CInterpreter!Current = Current
      /\ CInterpreter!Executes("F")
  BY <1>1, SameInstruction
<1>3. line' \in {line, line + 1}
  BY DEF Find
<1>4. CInv'
  <2>1. line' \in Nat /\ line' < Len(bitcode) /\ bitcode # <<>>
    BY <1>1, <1>3, HereFacts
  <2> QED
    BY <1>1, <1>2, <2>1, GoesOn
<1>5. MachinePc' = line' /\ UNCHANGED MachineStatus
  BY <1>1, <1>2 DEF MachinePc, MachineStatus
<1>6. CInterpreter!F
  BY <1>1, <1>2, <1>5, SameBitcodeC DEF Find, NoIO, CInterpreter!F, CInterpreter!NoIO
<1> QED
  BY <1>4, <1>6 DEF CMachineStep, CInterpreter!Next, CInterpreter!Step

\* The test of a while: the machine does it at the JE, or at the JN when control
\* has come back from there.
LEMMA WhileTestImplements ==
  ASSUME CInv, WhileTest
  PROVE  CInv' /\ CMachineStep
<1> DEFINE i == line + 1
           j == i + bitcode[i].off
<1>1. /\ stage = "running" /\ line < Len(bitcode) /\ bitcode[i].op = "JE"
      /\ UNCHANGED <<bitcode, stage, ptr, memory, input>> /\ output' = <<>>
      /\ again' = FALSE
  BY DEF WhileTest, At, NoIO
<1>2. /\ bitcode \in Seq(Instruction) /\ WellFormed(bitcode) /\ i \in DOMAIN bitcode
      /\ line \in Nat /\ bitcode # <<>> /\ i < Len(bitcode) /\ Len(bitcode) \in Nat
  BY <1>1, HereFacts DEF Here
<1>3. /\ j \in DOMAIN bitcode /\ bitcode[j].op = "JN" /\ j + bitcode[j].off = i
      /\ j \in Nat /\ j <= Len(bitcode) /\ j > i
      /\ bitcode[i].off \in Int /\ bitcode[j].off \in Int
  BY <1>1, <1>2, JumpFacts, SMTT(30)
<1>4. ClosingBrace(bitcode, i) = j
  BY <1>1, <1>2, BraceIsPartner
<1>5. j < Len(bitcode)
  BY <1>2, <1>3 DEF WellFormed
<1>6. line' = IF Current # 0 THEN i ELSE j
  BY <1>4 DEF WhileTest
<1>7. CInv'
  <2>1. line' \in Nat /\ line' < Len(bitcode)
    BY <1>2, <1>3, <1>5, <1>6
  <2> QED
    BY <1>1, <1>2, <2>1, GoesOn
<1>8. /\ MachinePc' = line' /\ MachineStatus = "running" /\ UNCHANGED MachineStatus
      /\ CInterpreter!Current = Current /\ CInterpreter!NoIO
  BY <1>1 DEF MachinePc, MachineStatus, CInterpreter!Current, Current, CInterpreter!NoIO
<1>9. CASE again
  <2>1. MachinePc = j - 1
    BY <1>4, <1>9 DEF MachinePc
  <2>2. CInterpreter!At = bitcode[j]
    BY <1>3, <2>1 DEF CInterpreter!At
  <2>3. CInterpreter!Executes("JN")
    BY <1>3, <1>5, <1>8, <2>1, <2>2 DEF CInterpreter!Executes
  <2>4. MachinePc' = (IF Current # 0 THEN MachinePc + bitcode[j].off ELSE MachinePc) + 1
    BY <1>2, <1>3, <1>6, <1>8, <2>1
  <2>5. CInterpreter!JN
    BY <1>1, <1>8, <2>2, <2>3, <2>4 DEF CInterpreter!JN
  <2> QED
    BY <1>7, <2>5 DEF CMachineStep, CInterpreter!Next, CInterpreter!Step
<1>10. CASE ~again
  <2>1. MachinePc = line
    BY <1>10 DEF MachinePc
  <2>2. CInterpreter!At = bitcode[i]
    BY <2>1 DEF CInterpreter!At
  <2>3. CInterpreter!Executes("JE")
    BY <1>1, <1>8, <2>1, <2>2 DEF CInterpreter!Executes
  <2>4. MachinePc' = (IF Current = 0 THEN MachinePc + bitcode[i].off ELSE MachinePc) + 1
    <3>1. j = line + bitcode[i].off + 1
      <4>1. line \in Int /\ bitcode[i].off \in Int
        BY <1>2, <1>3
      <4>2. \A a, b \in Int : (a + 1) + b = a + b + 1
        OBVIOUS
      <4> QED
        BY <4>1, <4>2
    <3> QED
      BY <1>6, <1>8, <2>1, <3>1
  <2>5. CInterpreter!JE
    BY <1>1, <1>8, <2>2, <2>3, <2>4 DEF CInterpreter!JE
  <2> QED
    BY <1>7, <2>5 DEF CMachineStep, CInterpreter!Next, CInterpreter!Step
<1> QED
  BY <1>9, <1>10

\* The brace alone is no step of the machine.
LEMMA CloseBraceImplements ==
  ASSUME CInv, CloseBrace
  PROVE  CInv' /\ CMachineStep
<1> DEFINE j == line + 1
           w == WhileOf(bitcode, j)
<1>1. /\ stage = "running" /\ line < Len(bitcode) /\ Here.op = "JN"
      /\ UNCHANGED <<bitcode, stage, ptr, memory, input, output>>
      /\ line' = w - 1 /\ again' = TRUE
  BY DEF CloseBrace, At, Here
<1>2. /\ bitcode \in Seq(Instruction) /\ WellFormed(bitcode) /\ j \in DOMAIN bitcode
      /\ line \in Nat /\ bitcode # <<>>
  BY <1>1, HereFacts
<1>3. /\ w \in DOMAIN bitcode /\ bitcode[w].op = "JE" /\ ClosingBrace(bitcode, w) = j
  BY <1>1, <1>2, WhileIsPartner DEF Here
<1>4. w \in Int /\ 1 <= w /\ w <= Len(bitcode)
  BY <1>2, <1>3, JumpFacts
<1> HIDE DEF w
<1>5. CInv'
  <2>1. line' \in Nat /\ line' < Len(bitcode) /\ line' + 1 = w
    BY <1>1, <1>4
  <2> QED
    BY <1>1, <1>2, <1>3, <2>1, GoesOn
<1>6. MachinePc = line
  BY <1>1, SameInstruction
<1>7. MachinePc' = line
  <2>1. line' + 1 = w
    BY <1>1, <1>4
  <2> QED
    BY <1>1, <1>2, <1>3, <2>1 DEF MachinePc
<1>8. UNCHANGED MachineStatus
  BY <1>1 DEF MachineStatus
<1> QED
  BY <1>1, <1>5, <1>6, <1>7, <1>8 DEF CMachineStep, CInterpreter!mvars

LEMMA BrainfunkIOImplements ==
  ASSUME CInv, BrainfunkIO
  PROVE  CInv' /\ CMachineStep
<1>1. /\ stage = "running" /\ line < Len(bitcode) /\ Here.op = "IO" /\ NextLine
  BY DEF BrainfunkIO, At, Here
<1>2. CInv'
  BY <1>1, NextLineKeeps
<1>3. /\ again = FALSE /\ MachinePc = line /\ MachineStatus = "running"
      /\ CInterpreter!At = Here /\ CInterpreter!Current = Current
      /\ CInterpreter!Executes("IO")
  BY <1>1, SameInstruction
<1>4. MachinePc' = line + 1 /\ UNCHANGED MachineStatus
  BY <1>1, <1>3 DEF NextLine, MachinePc, MachineStatus
<1>5. CInterpreter!IO
  BY <1>1, <1>3, <1>4, SameBitcodeC DEF BrainfunkIO, NextLine, CInterpreter!IO, CInterpreter!Continue
<1> QED
  BY <1>2, <1>5 DEF CMachineStep, CInterpreter!Next, CInterpreter!Step

LEMMA ReturnImplements ==
  ASSUME CInv, Return
  PROVE  CInv' /\ CMachineStep
<1>1. /\ stage = "running" /\ stage' = "returned"
      /\ UNCHANGED <<bitcode, line, again, ptr, memory, input>> /\ output' = <<>>
      /\ line < Len(bitcode) => Here.op = "H"
  BY DEF Return, At, Here, NoIO, CInv
<1>2. again = FALSE
  <2>1. again => bitcode # <<>> /\ line < Len(bitcode) /\ Here.op = "JE"
    BY DEF CInv
  <2> QED
    BY <1>1, <2>1 DEF CInv
<1>3. /\ MachinePc = line /\ MachinePc' = line
      /\ MachineStatus = "running" /\ MachineStatus' = "halted"
  BY <1>1, <1>2 DEF MachinePc, MachineStatus
<1>4. CInv'
  BY <1>1, <1>2 DEF CInv, Translated, WellFormed, JumpsMatched, WellNested, Paired, Here
<1>5. CInterpreter!Stop
  BY <1>1, <1>3 DEF Here, CInterpreter!Stop, CInterpreter!At, CInterpreter!NoIO
<1> QED
  BY <1>4, <1>5 DEF CMachineStep, CInterpreter!Next, CInterpreter!Step

LEMMA NextImplements ==
  ASSUME CInv, [CNext]_cvars
  PROVE  CInv' /\ CMachineStep
<1>1. CASE UNCHANGED cvars
  <2>1. CInv'
    BY <1>1 DEF CInv, cvars, Translated, WellFormed, JumpsMatched, WellNested, Paired, Here
  <2>2. UNCHANGED <<MachinePc, MachineStatus>>
    BY <1>1 DEF cvars, MachinePc, MachineStatus
  <2> QED
    BY <1>1, <2>1, <2>2 DEF cvars, CMachineStep, CInterpreter!mvars
<1> QED
  BY <1>1, MainImplements, AssignmentImplements, MoveImplements, FindImplements,
     WhileTestImplements, CloseBraceImplements, BrainfunkIOImplements, ReturnImplements
     DEF CNext, CExecute

-----------------------------------------------------------------------------

\* The C program that dump prints of a translated program does, step for step,
\* what Bitcode::execute does with that program: its start is a start of the
\* machine, and each of its steps is a step of the machine or changes nothing
\* that the machine has.
THEOREM CImplementsMachine ==
  ASSUME \A code \in Programs : Translated(code)
  PROVE  CSpec => CInterpreter!Init /\ [][CInterpreter!Next]_CInterpreter!mvars
<1>1. CInit => CInv
  BY InitCInv
<1>2. CInit => CInterpreter!Init
  BY SameBitcodeC DEF CInit, Dumped, MachinePc, MachineStatus, CInterpreter!Init, CInterpreter!BlankMemory
<1>3. CInv /\ [CNext]_cvars => CInv' /\ [CInterpreter!Next]_CInterpreter!mvars
  BY NextImplements DEF CMachineStep
<1> QED
  BY <1>1, <1>2, <1>3, PTL DEF CSpec

-----------------------------------------------------------------------------
(***************************************************************************)
(* The LLVM emitter: labels and offsets.                                   *)
(***************************************************************************)

\* Whatever the sign of the offset, wrap_offset adds it around the tape.
LEMMA WrapIsPlus ==
  ASSUME NEW a \in Int, NEW off \in Int
  PROVE  WrapOffset(a, off, MemSize) = (a + off) % MemSize
<1>1. MemSize \in Nat \ {0}
  BY MemSizeAssumption
<1>2. WrapOffset(a, off, MemSize)
        = IF off >= 0 THEN ((a % MemSize) + (off % MemSize)) % MemSize
                      ELSE ((a % MemSize) + MemSize - ((-(off + 1) + 1) % MemSize)) % MemSize
  BY <1>1 DEF WrapOffset
<1>3. /\ off >= 0 => ((a % MemSize) + (off % MemSize)) % MemSize = (a + off) % MemSize
      /\ off < 0 => ((a % MemSize) + MemSize - ((-(off + 1) + 1) % MemSize)) % MemSize
                      = (a + off) % MemSize
  BY <1>1, WrapArithmetic
<1>4. off >= 0 \/ off < 0
  OBVIOUS
<1>5. off < 0 => ~(off >= 0)
  OBVIOUS
<1> QED
  BY <1>2, <1>3, <1>4, <1>5, Zenon

\* An offset that is reduced while printing leads to the same cell.
LEMMA ReducedOffset ==
  ASSUME NEW a \in Int, NEW off \in Int
  PROVE  /\ (a + Normalized(off)) % MemSize = WrapOffset(a, off, MemSize)
         /\ (a + Normalized(off)) % MemSize \in Address
<1>1. MemSize \in Nat \ {0} /\ 0 \in Int
  BY MemSizeAssumption
<1>2. off % MemSize \in Int
  BY <1>1, DivMod
<1>3. Normalized(off) = off % MemSize
  <2>1. WrapOffset(0, off, MemSize) = (0 + off) % MemSize
    BY WrapIsPlus
  <2>2. 0 + off = off
    OBVIOUS
  <2> QED
    BY <2>1, <2>2 DEF Normalized
<1>4. (a + (off % MemSize)) % MemSize = (a + off) % MemSize
  <2>1. ((off % MemSize) + a) % MemSize = (off + a) % MemSize
    BY <1>1, ModPlus
  <2>2. a + (off % MemSize) = (off % MemSize) + a /\ off + a = a + off
    BY <1>2
  <2> QED
    BY <2>1, <2>2
<1>5. WrapOffset(a, off, MemSize) = (a + off) % MemSize
  BY WrapIsPlus
<1>6. (a + off) % MemSize \in 0 .. MemSize - 1
  <2>1. a + off \in Int
    OBVIOUS
  <2> QED
    BY <1>1, <2>1, DivMod
<1> QED
  BY <1>3, <1>4, <1>5, <1>6 DEF Address

\* In a complete program jump_target finds the label behind the partner.
LEMMA TargetIsBehindPartner ==
  ASSUME bitcode \in Seq(Instruction), WellFormed(bitcode),
         NEW pc \in 0 .. Len(bitcode) - 1, bitcode[pc + 1].op \in {"JE", "JN"}
  PROVE  /\ Targets(pc) = {pc + 1 + bitcode[pc + 1].off}
         /\ pc + 1 + bitcode[pc + 1].off \in 0 .. Len(bitcode) - 1
<1> DEFINE i == pc + 1
           L == Len(bitcode)
           off == bitcode[i].off
<1>1. L \in Nat /\ DOMAIN bitcode = 1 .. L /\ i \in 1 .. L /\ pc \in Int
  BY LenProperties
<1>2. bitcode[i] \in Instruction
  BY <1>1, ElementOfSeq
<1>3. off \in Int
  BY <1>2 DEF Instruction
<1>4. /\ i + off \in 1 .. L /\ bitcode[i + off].op \in {"JE", "JN"}
      /\ bitcode[i].op = "JE" => off > 0
      /\ bitcode[i].op = "JN" => off < 0
  BY <1>1 DEF WellFormed, JumpsMatched, Paired
<1>5. i + off # L
  BY <1>1, <1>4 DEF WellFormed
<1>6. Targets(pc) = JumpTargets(pc, off, L)
  BY DEF Targets
<1> HIDE DEF off, L
<1>7. JumpTargets(pc, off, L) = {i + off}
  <2>1. CASE off >= 0
    BY <1>1, <1>3, <1>4, <1>5, <2>1 DEF JumpTargets
  <2>2. CASE off < 0
    BY <1>1, <1>3, <1>4, <2>2 DEF JumpTargets
  <2> QED
    BY <1>3, <2>1, <2>2
<1>8. i + off \in 0 .. L - 1
  BY <1>1, <1>3, <1>4, <1>5
<1> QED
  BY <1>6, <1>7, <1>8 DEF off, L

-----------------------------------------------------------------------------
(***************************************************************************)
(* What is printed, whatever bitcode_ holds.                               *)
(***************************************************************************)

EmitInv ==
  /\ bitcode \in Seq(Instruction)
  /\ stage \in Stages
  /\ DOMAIN blocks = 1 .. Len(blocks) /\ Len(blocks) \in Nat
  /\ Len(blocks) <= Len(bitcode)
  /\ \A a \in 1 .. Len(blocks) : blocks[a] = Block(a - 1, Targets(a - 1))
  /\ OnlyEmptyIsRefused
  /\ stage \in {"emitted", "running", "returned"} =>
       bitcode # <<>> /\ Len(blocks) = Len(bitcode)

LEMMA InitEmit == LlvmInit => EmitInv
<1> SUFFICES ASSUME LlvmInit PROVE EmitInv
  OBVIOUS
<1>1. bitcode \in Seq(Instruction) /\ Len(bitcode) \in Nat
  BY ProgramsAssumption, LenProperties DEF LlvmInit, Dumped
<1>2. blocks = <<>> /\ stage = "emitting"
  BY DEF LlvmInit
<1> QED
  BY <1>1, <1>2, EmptySeq DEF EmitInv, Stages, OnlyEmptyIsRefused

\* One more block, or the exception, which a complete program never meets.
LEMMA EmitBlockKeeps ==
  ASSUME EmitInv, EmitBlock
  PROVE  EmitInv'
<1> DEFINE pc == Len(blocks)
<1>1. /\ stage = "emitting" /\ pc < Len(bitcode)
      /\ UNCHANGED <<bitcode, result, label, ptr, memory, input, output>>
  BY DEF EmitBlock
<1>2. bitcode \in Seq(Instruction) /\ Len(bitcode) \in Nat /\ pc \in Nat
  BY LenProperties DEF EmitInv
<1>3. UNCHANGED <<WellFormed(bitcode), Normalized(0)>>
      /\ \A a : Block(a, Targets(a))' = Block(a, Targets(a))
  BY <1>1 DEF Block, Targets, JumpTargets, Normalized, WrapOffset, WellFormed, JumpsMatched,
     WellNested, Paired
<1>4. CASE bitcode[pc + 1].op \in {"JE", "JN"} /\ Targets(pc) = {}
  <2>1. stage' = "rejected" /\ blocks' = blocks
    BY <1>4 DEF EmitBlock
  <2>2. pc \in 0 .. Len(bitcode) - 1
    BY <1>1, <1>2
  <2> HIDE DEF pc
  <2>3. ~WellFormed(bitcode)
    BY <1>2, <1>4, <2>2, TargetIsBehindPartner
  <2> QED
    BY <1>1, <1>3, <2>1, <2>3 DEF EmitInv, OnlyEmptyIsRefused, Stages, pc
<1>5. CASE ~(bitcode[pc + 1].op \in {"JE", "JN"} /\ Targets(pc) = {})
  <2> DEFINE b == Block(pc, Targets(pc))
  <2>1. stage' = stage /\ blocks' = Append(blocks, b)
    BY <1>5 DEF EmitBlock
  <2> HIDE DEF b
  <2>2. /\ DOMAIN blocks' = 1 .. pc + 1 /\ Len(blocks') = pc + 1
        /\ \A a \in 1 .. pc : blocks'[a] = blocks[a]
        /\ blocks'[pc + 1] = b
    BY <1>2, <2>1 DEF EmitInv
  <2>3. \A a \in 1 .. pc + 1 : blocks'[a] = Block(a - 1, Targets(a - 1))
    BY <1>2, <2>2 DEF EmitInv, b
  <2> HIDE DEF pc
  <2>4. \A a \in 1 .. pc + 1 : blocks'[a] = Block(a - 1, Targets(a - 1))'
    BY <1>3, <2>3
  <2> QED
    BY <1>1, <1>2, <1>3, <2>1, <2>2, <2>4 DEF EmitInv, OnlyEmptyIsRefused, pc
<1> QED
  BY <1>4, <1>5

\* Behind the emitter nothing is printed any more.
LEMMA PrintedKeeps ==
  ASSUME EmitInv, UNCHANGED <<bitcode, blocks>>,
         \/ stage \in {"emitted", "running"} /\ stage' \in {"emitted", "running", "returned"}
         \/ stage' = "rejected" /\ bitcode = <<>>
         \/ stage' = "emitted" /\ bitcode # <<>> /\ Len(blocks) = Len(bitcode)
         \/ stage' = stage
  PROVE  EmitInv'
<1>1. UNCHANGED WellFormed(bitcode) /\ \A a : Block(a, Targets(a))' = Block(a, Targets(a))
  BY DEF Block, Targets, JumpTargets, Normalized, WrapOffset, WellFormed, JumpsMatched,
     WellNested, Paired
<1>2. OnlyEmptyIsRefused'
  BY <1>1 DEF EmitInv, OnlyEmptyIsRefused, WellFormed
<1>3. stage' \in Stages
  BY DEF EmitInv, Stages
<1>4. \A a \in 1 .. Len(blocks)' : blocks'[a] = Block(a - 1, Targets(a - 1))'
  BY <1>1 DEF EmitInv
<1> QED
  BY <1>2, <1>3, <1>4 DEF EmitInv

LEMMA NextKeepsEmit ==
  ASSUME EmitInv, [LlvmNext]_lvars
  PROVE  EmitInv'
<1>1. CASE EmitBlock
  BY <1>1, EmitBlockKeeps
<1>2. CASE RefuseEmpty \/ EmitEnd
  BY <1>2, PrintedKeeps DEF RefuseEmpty, EmitEnd
<1>3. CASE LlvmMain
  BY <1>3, PrintedKeeps DEF LlvmMain, Returns
<1>4. CASE LlvmExecute
  <2>1. stage = "running" /\ stage' \in {"running", "returned"} /\ UNCHANGED <<bitcode, blocks>>
    BY <1>4 DEF LlvmExecute, Arithmetic, MovePointer, Scan, Branch, ReadByte, WriteByte, Ret,
       In, Next1, Stay, Returns
  <2> QED
    BY <2>1, PrintedKeeps
<1>5. CASE UNCHANGED lvars
  BY <1>5, PrintedKeeps DEF lvars
<1> QED
  BY <1>1, <1>2, <1>3, <1>4, <1>5 DEF LlvmNext

-----------------------------------------------------------------------------
(***************************************************************************)
(* The printed program, over translated code: control stays in its blocks. *)
(***************************************************************************)

LlvmInv ==
  /\ EmitInv
  /\ Translated(bitcode)
  /\ ptr \in Address /\ input \in Seq(Cell)
  /\ stage = "running" => label \in 0 .. Len(blocks) - 1
  /\ stage \notin {"running", "returned"} =>
       /\ label = 0 /\ ptr = 0 /\ memory = [a \in Address |-> 0]
       /\ output = <<>> /\ input \in Inputs

LEMMA InitLlvm ==
  ASSUME \A code \in Programs : Translated(code), LlvmInit
  PROVE  LlvmInv
<1>1. EmitInv
  BY InitEmit
<1>2. Translated(bitcode) /\ input \in Seq(Cell) /\ input \in Inputs /\ 0 \in Address
  BY InputsAssumption, MemSizeAssumption DEF LlvmInit, Dumped, Address
<1> QED
  BY <1>1, <1>2 DEF LlvmInit, Dumped, LlvmInv

\* The block control is in, and the instruction it was printed for.
LEMMA ThisFacts ==
  ASSUME LlvmInv, stage = "running"
  PROVE  /\ WellFormed(bitcode) /\ Len(blocks) = Len(bitcode) /\ Len(bitcode) \in Nat
         /\ label \in Nat /\ label < Len(bitcode) /\ label + 1 \in DOMAIN bitcode
         /\ bitcode[label + 1] \in Instruction
         /\ This = Block(label, Targets(label))
         /\ bitcode[label + 1].op # "H" => label + 1 \in 0 .. Len(blocks) - 1
<1>1. /\ bitcode \in Seq(Instruction) /\ bitcode # <<>> /\ Len(blocks) = Len(bitcode)
      /\ label \in 0 .. Len(blocks) - 1
      /\ \A a \in 1 .. Len(blocks) : blocks[a] = Block(a - 1, Targets(a - 1))
  BY DEF LlvmInv, EmitInv
<1>2. Len(bitcode) \in Nat /\ DOMAIN bitcode = 1 .. Len(bitcode)
  BY <1>1, LenProperties
<1>3. label \in Nat /\ label < Len(bitcode) /\ label + 1 \in 1 .. Len(bitcode)
  BY <1>1, <1>2
<1>4. WellFormed(bitcode)
  BY <1>1 DEF LlvmInv, Translated
<1>5. bitcode[label + 1] \in Instruction
  BY <1>1, <1>3, ElementOfSeq
<1>6. This = Block(label, Targets(label))
  <2>1. label + 1 - 1 = label
    BY <1>3, SMTT(30)
  <2> QED
    BY <1>1, <1>3, <2>1 DEF This
<1>7. bitcode[label + 1].op # "H" => label + 1 # Len(bitcode)
  BY <1>2, <1>3, <1>4 DEF WellFormed
<1>8. bitcode[label + 1].op # "H" => label + 1 \in 0 .. Len(blocks) - 1
  BY <1>1, <1>2, <1>3, <1>7
<1> QED
  BY <1>1, <1>2, <1>3, <1>4, <1>5, <1>6, <1>8

\* What a block says is what its instruction says, the offset reduced.
LEMMA BlockSays ==
  ASSUME LlvmInv, stage = "running"
  PROVE  /\ This.op = bitcode[label + 1].op /\ This.imm = bitcode[label + 1].imm
         /\ (ptr + This.off) % MemSize = WrapOffset(ptr, bitcode[label + 1].off, MemSize)
         /\ (ptr + This.off) % MemSize \in Address
         /\ This.op \in {"JE", "JN"} =>
              /\ Target = label + 1 + bitcode[label + 1].off
              /\ Target \in 0 .. Len(blocks) - 1
<1> DEFINE i == bitcode[label + 1]
<1>1. i \in Instruction /\ This = Block(label, Targets(label))
  BY ThisFacts
<1>2. /\ This.op = i.op /\ This.imm = i.imm /\ This.off = Normalized(i.off)
      /\ This.targets = Targets(label)
  BY <1>1 DEF Block
<1>3. i.off \in Int /\ ptr \in Int
  BY <1>1, MemSizeAssumption DEF Instruction, LlvmInv, Address
<1>4. CASE This.op \in {"JE", "JN"}
  <2>1. bitcode \in Seq(Instruction) /\ WellFormed(bitcode) /\ label \in 0 .. Len(bitcode) - 1
        /\ Len(blocks) = Len(bitcode)
    BY ThisFacts DEF LlvmInv, EmitInv
  <2>2. /\ Targets(label) = {label + 1 + i.off}
        /\ label + 1 + i.off \in 0 .. Len(bitcode) - 1
    BY <1>2, <1>4, <2>1, TargetIsBehindPartner
  <2> DEFINE t == label + 1 + i.off
  <2>3. This.targets = {t}
    BY <1>2, <2>2
  <2> HIDE DEF t
  <2>4. Target = t
    BY <2>3 DEF Target
  <2> QED
    BY <1>2, <1>3, <2>1, <2>2, <2>4, ReducedOffset DEF t
<1> QED
  BY <1>2, <1>3, <1>4, ReducedOffset

-----------------------------------------------------------------------------
(***************************************************************************)
(* Each action of the printed program is a step of the machine or none.    *)
(***************************************************************************)

LEMMA SameBitcodeLlvm ==
  /\ LlvmInterpreter!Address = Address /\ LlvmInterpreter!IO_IN = IO_IN
  /\ \A a, off, size : LlvmInterpreter!WrapOffset(a, off, size) = WrapOffset(a, off, size)
  BY DEF LlvmInterpreter!Address, Address, LlvmInterpreter!IO_IN, IO_IN,
     LlvmInterpreter!WrapOffset, WrapOffset

LlvmMachineStep == LlvmInterpreter!Next \/ UNCHANGED LlvmInterpreter!mvars

\* Before the wrapper calls the program the machine is idle.
LEMMA EmitterImplements ==
  ASSUME LlvmInv, RefuseEmpty \/ EmitBlock \/ EmitEnd \/ UNCHANGED lvars
  PROVE  LlvmInv' /\ LlvmMachineStep
<1>1. EmitInv'
  BY NextKeepsEmit DEF LlvmNext, LlvmInv
<1>2. /\ UNCHANGED <<bitcode, result, label, ptr, memory, input, output>>
      /\ \/ stage = "emitting" /\ stage' \in {"emitting", "rejected", "emitted"}
         \/ stage' = stage /\ blocks' = blocks
  BY DEF RefuseEmpty, EmitBlock, EmitEnd, lvars
<1>3. UNCHANGED <<Translated(bitcode), Address>>
  BY <1>2 DEF Translated, WellFormed, JumpsMatched, WellNested, Paired
<1>4. LlvmInv'
  BY <1>1, <1>2, <1>3 DEF LlvmInv, Address
<1>5. LlvmStatus' = LlvmStatus
  BY <1>2 DEF LlvmStatus
<1> QED
  BY <1>2, <1>4, <1>5 DEF LlvmMachineStep, LlvmInterpreter!mvars

\* The wrapper calls the program, with a tape of the size it was printed for, or
\* does not call it.
LEMMA LlvmMainImplements ==
  ASSUME LlvmInv, LlvmMain
  PROVE  LlvmInv' /\ LlvmMachineStep
<1>1. EmitInv'
  BY NextKeepsEmit DEF LlvmNext, LlvmInv
<1>2. /\ stage = "emitted"
      /\ UNCHANGED <<bitcode, blocks, label, ptr, memory, input, output>>
      /\ label = 0 /\ ptr = 0 /\ memory = [a \in Address |-> 0] /\ output = <<>>
      /\ input \in Inputs /\ ptr \in Address /\ input \in Seq(Cell)
  BY DEF LlvmMain, LlvmInv
<1>3. Len(blocks) \in Nat /\ Len(blocks) > 0
  <2>1. bitcode \in Seq(Instruction) /\ bitcode # <<>> /\ Len(blocks) = Len(bitcode)
    BY <1>2 DEF LlvmInv, EmitInv
  <2> QED
    BY <2>1, EmptySeq, LenProperties
<1>4. UNCHANGED Translated(bitcode)
  BY <1>2 DEF Translated, WellFormed, JumpsMatched, WellNested, Paired
<1>5. stage' \in {"running", "returned"}
  BY DEF LlvmMain, Returns
<1>6. LlvmInv'
  BY <1>1, <1>2, <1>3, <1>4, <1>5 DEF LlvmInv, Address
<1>7. LlvmStatus = "idle"
  BY <1>2 DEF LlvmStatus
<1>8. CASE stage' = "running"
  <2>1. LlvmStatus' = "running"
    BY <1>8 DEF LlvmStatus
  <2>2. LlvmInterpreter!Run
    BY <1>2, <1>7, <2>1, SameBitcodeLlvm
    DEF LlvmInterpreter!Run, LlvmInterpreter!ResetState, LlvmInterpreter!BlankMemory
  <2> QED
    BY <1>6, <2>2 DEF LlvmMachineStep, LlvmInterpreter!Next
<1>9. CASE stage' = "returned"
  <2>1. result' = 1
    BY <1>9 DEF LlvmMain, Returns
  <2>2. LlvmStatus' = "idle"
    BY <1>9, <2>1 DEF LlvmStatus
  <2> QED
    BY <1>2, <1>6, <1>7, <2>2 DEF LlvmMachineStep, LlvmInterpreter!mvars
<1> QED
  BY <1>5, <1>8, <1>9

\* What the two programs see of each other at a block.
LEMMA SameBlock ==
  ASSUME LlvmInv, stage = "running"
  PROVE  /\ LlvmStatus = "running"
         /\ LlvmInterpreter!At = bitcode[label + 1] /\ LlvmInterpreter!Current = Current
         /\ \A op \in {This.op} : LlvmInterpreter!Executes(op)
         /\ label + 1 \in Nat
<1>1. LlvmStatus = "running"
  BY DEF LlvmStatus
<1>2. label \in Nat /\ label < Len(bitcode) /\ This.op = bitcode[label + 1].op
  BY ThisFacts, BlockSays
<1> QED
  BY <1>1, <1>2 DEF LlvmInterpreter!At, LlvmInterpreter!Current, LlvmInterpreter!Executes, Current

\* Any step to a block of the program.
LEMMA RunsOn ==
  ASSUME LlvmInv, stage = "running", Stay, [LlvmNext]_lvars,
         label' \in 0 .. Len(blocks) - 1, ptr' \in Address, input' \in Seq(Cell)
  PROVE  LlvmInv' /\ UNCHANGED <<bitcode, LlvmStatus>>
<1>1. EmitInv'
  BY NextKeepsEmit DEF LlvmInv
<1>2. UNCHANGED <<bitcode, blocks, stage, result>>
  BY DEF Stay
<1>3. UNCHANGED Translated(bitcode)
  BY <1>2 DEF Translated, WellFormed, JumpsMatched, WellNested, Paired
<1>4. LlvmInv'
  BY <1>1, <1>2, <1>3 DEF LlvmInv, Address
<1>5. UNCHANGED LlvmStatus
  BY <1>2 DEF LlvmStatus
<1> QED
  BY <1>2, <1>4, <1>5

\* The next block there is, behind any but the H.
LEMMA NextBlock ==
  ASSUME LlvmInv, stage = "running", This.op # "H", Next1, [LlvmNext]_lvars,
         ptr' \in Address, input' \in Seq(Cell)
  PROVE  LlvmInv' /\ LlvmInterpreter!Continue
<1>1. label' = label + 1 /\ Stay
  BY DEF Next1
<1>2. label + 1 \in 0 .. Len(blocks) - 1
  BY ThisFacts, BlockSays
<1>3. LlvmInv' /\ UNCHANGED <<bitcode, LlvmStatus>>
  BY <1>1, <1>2, RunsOn
<1> QED
  BY <1>1, <1>3 DEF LlvmInterpreter!Continue

LEMMA ArithmeticImplements ==
  ASSUME LlvmInv, Arithmetic
  PROVE  LlvmInv' /\ LlvmMachineStep
<1>1. /\ stage = "running" /\ This.op \in {"A", "S", "MUL"} /\ Next1 /\ NoIO
      /\ ptr' = ptr /\ ptr \in Address /\ input' = input /\ input \in Seq(Cell)
  BY DEF Arithmetic, In, This, NoIO, LlvmInv
<1>2. LlvmInv' /\ LlvmInterpreter!Continue
  BY <1>1, NextBlock DEF LlvmNext, LlvmExecute
<1>3. LlvmInterpreter!NoIO
  BY <1>1 DEF NoIO, LlvmInterpreter!NoIO
<1>4. /\ LlvmInterpreter!At = bitcode[label + 1] /\ LlvmInterpreter!Current = Current
      /\ LlvmInterpreter!Executes(This.op)
  BY <1>1, SameBlock
<1>5. /\ This.imm = bitcode[label + 1].imm
      /\ (ptr + This.off) % MemSize = WrapOffset(ptr, bitcode[label + 1].off, MemSize)
  BY <1>1, BlockSays
<1>6. LlvmInterpreter!A \/ LlvmInterpreter!S \/ LlvmInterpreter!MUL
  <2>1. CASE In("A")
    <3>1. This.op = "A" /\ memory' = [memory EXCEPT ![ptr] = (@ + This.imm) % CellMod]
      BY <2>1 DEF Arithmetic, In, This
    <3> QED
      BY <1>1, <1>2, <1>3, <1>4, <1>5, <3>1 DEF LlvmInterpreter!A
  <2>2. CASE In("S")
    <3>1. This.op = "S" /\ memory' = [memory EXCEPT ![ptr] = This.imm]
      BY <2>2 DEF Arithmetic, In, This
    <3> QED
      BY <1>1, <1>2, <1>3, <1>4, <1>5, <3>1 DEF LlvmInterpreter!S
  <2>3. CASE In("MUL")
    <3>1. /\ This.op = "MUL"
          /\ memory' = [memory EXCEPT ![(ptr + This.off) % MemSize] =
                          (@ + Current * This.imm) % CellMod]
      BY <2>3 DEF Arithmetic, In, This
    <3> QED
      BY <1>1, <1>2, <1>3, <1>4, <1>5, <3>1, SameBitcodeLlvm DEF LlvmInterpreter!MUL
  <2> QED
    BY <2>1, <2>2, <2>3 DEF Arithmetic
<1> QED
  BY <1>2, <1>6 DEF LlvmMachineStep, LlvmInterpreter!Next, LlvmInterpreter!Step

LEMMA MovePointerImplements ==
  ASSUME LlvmInv, MovePointer
  PROVE  LlvmInv' /\ LlvmMachineStep
<1>1. /\ stage = "running" /\ This.op = "M" /\ Next1 /\ NoIO /\ memory' = memory
      /\ ptr' = (ptr + This.off) % MemSize /\ input' = input /\ input \in Seq(Cell)
  BY DEF MovePointer, In, This, NoIO, LlvmInv
<1>2. /\ ptr' = WrapOffset(ptr, bitcode[label + 1].off, MemSize) /\ ptr' \in Address
  BY <1>1, BlockSays
<1>3. LlvmInv' /\ LlvmInterpreter!Continue
  BY <1>1, <1>2, NextBlock DEF LlvmNext, LlvmExecute
<1>4. LlvmInterpreter!At = bitcode[label + 1] /\ LlvmInterpreter!Executes("M")
  BY <1>1, SameBlock
<1>5. LlvmInterpreter!M
  BY <1>1, <1>2, <1>3, <1>4, SameBitcodeLlvm DEF NoIO, LlvmInterpreter!NoIO, LlvmInterpreter!M
<1> QED
  BY <1>3, <1>5 DEF LlvmMachineStep, LlvmInterpreter!Next, LlvmInterpreter!Step

LEMMA ScanImplements ==
  ASSUME LlvmInv, Scan
  PROVE  LlvmInv' /\ LlvmMachineStep
<1>1. /\ stage = "running" /\ This.op = "F" /\ Stay /\ NoIO /\ memory' = memory
      /\ input' = input /\ input \in Seq(Cell) /\ ptr \in Address
      /\ label \in 0 .. Len(blocks) - 1
      /\ Current = 0 => label' = label + 1 /\ ptr' = ptr
      /\ Current # 0 => ptr' = (ptr + This.off) % MemSize /\ label' = label
  BY DEF Scan, In, This, NoIO, LlvmInv
<1>2. /\ (ptr + This.off) % MemSize = WrapOffset(ptr, bitcode[label + 1].off, MemSize)
      /\ (ptr + This.off) % MemSize \in Address
      /\ label + 1 \in 0 .. Len(blocks) - 1
  BY <1>1, BlockSays, ThisFacts
<1>3. LlvmInv' /\ UNCHANGED <<bitcode, LlvmStatus>>
  <2>1. label' \in 0 .. Len(blocks) - 1 /\ ptr' \in Address /\ [LlvmNext]_lvars
    BY <1>1, <1>2 DEF LlvmNext, LlvmExecute
  <2> QED
    BY <1>1, <2>1, RunsOn
<1>4. /\ LlvmInterpreter!At = bitcode[label + 1] /\ LlvmInterpreter!Executes("F")
      /\ LlvmInterpreter!Current = Current
  BY <1>1, SameBlock
<1>5. LlvmInterpreter!F
  BY <1>1, <1>2, <1>3, <1>4, SameBitcodeLlvm DEF NoIO, LlvmInterpreter!NoIO, LlvmInterpreter!F
<1> QED
  BY <1>3, <1>5 DEF LlvmMachineStep, LlvmInterpreter!Next, LlvmInterpreter!Step

\* The label a block branches to is the one behind the partner of its jump.
LEMMA BranchImplements ==
  ASSUME LlvmInv, Branch
  PROVE  LlvmInv' /\ LlvmMachineStep
<1>1. /\ stage = "running" /\ This.op \in {"JE", "JN"} /\ Stay /\ NoIO
      /\ UNCHANGED <<ptr, memory>> /\ ptr \in Address
      /\ input' = input /\ input \in Seq(Cell)
      /\ This.op = "JE" => label' = IF Current = 0 THEN Target ELSE label + 1
      /\ This.op = "JN" => label' = IF Current # 0 THEN Target ELSE label + 1
  BY DEF Branch, In, This, NoIO, LlvmInv
<1>2. /\ Target = label + 1 + bitcode[label + 1].off /\ Target \in 0 .. Len(blocks) - 1
      /\ label + 1 \in 0 .. Len(blocks) - 1
      /\ label \in Int /\ bitcode[label + 1].off \in Int
  BY <1>1, BlockSays, ThisFacts DEF Instruction
<1>3. LlvmInv' /\ UNCHANGED <<bitcode, LlvmStatus>>
  <2>1. label' \in 0 .. Len(blocks) - 1 /\ [LlvmNext]_lvars
    BY <1>1, <1>2 DEF LlvmNext, LlvmExecute
  <2> QED
    BY <1>1, <2>1, RunsOn
<1>4. /\ LlvmInterpreter!At = bitcode[label + 1] /\ LlvmInterpreter!Executes(This.op)
      /\ LlvmInterpreter!Current = Current
  BY <1>1, SameBlock
<1>5. LlvmInterpreter!NoIO
  BY <1>1 DEF NoIO, LlvmInterpreter!NoIO
<1>6. Target = label + bitcode[label + 1].off + 1
  BY <1>2
<1>7. LlvmInterpreter!JE \/ LlvmInterpreter!JN
  <2>1. CASE This.op = "JE"
    <3>1. label' = (IF Current = 0 THEN label + bitcode[label + 1].off ELSE label) + 1
      BY <1>1, <1>6, <2>1
    <3> QED
      BY <1>1, <1>3, <1>4, <1>5, <2>1, <3>1 DEF LlvmInterpreter!JE
  <2>2. CASE This.op = "JN"
    <3>1. label' = (IF Current # 0 THEN label + bitcode[label + 1].off ELSE label) + 1
      BY <1>1, <1>6, <2>2
    <3> QED
      BY <1>1, <1>3, <1>4, <1>5, <2>2, <3>1 DEF LlvmInterpreter!JN
  <2> QED
    BY <1>1, <2>1, <2>2
<1> QED
  BY <1>3, <1>7 DEF LlvmMachineStep, LlvmInterpreter!Next, LlvmInterpreter!Step

\* What getchar gives is a cell, or EOF at the end of stdin.
LEMMA GetCharGives ==
  ASSUME input \in Seq(Cell)
  PROVE  /\ (IF GetChar = EOF THEN 0 ELSE GetChar % CellMod)
              = (IF input = <<>> THEN 0 ELSE Head(input))
         /\ (IF input = <<>> THEN <<>> ELSE Tail(input)) \in Seq(Cell)
<1>1. CASE input = <<>>
  BY <1>1 DEF GetChar, EOF
<1>2. CASE input # <<>>
  <2> DEFINE c == Head(input)
  <2>1. c \in Cell /\ Tail(input) \in Seq(Cell)
    BY <1>2, HeadTailProperties
  <2>2. GetChar = c
    BY <1>2 DEF GetChar
  <2> HIDE DEF c
  <2>3. c # EOF /\ c % CellMod = c
    BY <2>1, CellModAssumption DEF Cell, EOF
  <2> QED
    BY <1>2, <2>1, <2>2, <2>3 DEF c
<1> QED
  BY <1>1, <1>2

LEMMA InputOutputImplements ==
  ASSUME LlvmInv, ReadByte \/ WriteByte
  PROVE  LlvmInv' /\ LlvmMachineStep
<1>1. /\ stage = "running" /\ This.op = "IO" /\ Next1 /\ ptr' = ptr /\ ptr \in Address
      /\ input \in Seq(Cell)
  BY DEF ReadByte, WriteByte, In, This, LlvmInv
<1>2. /\ LlvmInterpreter!At = bitcode[label + 1] /\ LlvmInterpreter!Executes("IO")
      /\ LlvmInterpreter!Current = Current /\ This.imm = bitcode[label + 1].imm
  BY <1>1, SameBlock, BlockSays
<1>3. CASE ReadByte
  <2>1. /\ This.imm = IO_IN /\ output' = <<>>
        /\ memory' = [memory EXCEPT ![ptr] = IF input = <<>> THEN 0 ELSE Head(input)]
        /\ input' = IF input = <<>> THEN <<>> ELSE Tail(input)
        /\ input' \in Seq(Cell)
    BY <1>1, <1>3, GetCharGives DEF ReadByte
  <2>2. LlvmInv' /\ LlvmInterpreter!Continue
    BY <1>1, <1>3, <2>1, NextBlock DEF LlvmNext, LlvmExecute
  <2>3. LlvmInterpreter!IO
    BY <1>1, <1>2, <2>1, <2>2, SameBitcodeLlvm DEF LlvmInterpreter!IO
  <2> QED
    BY <2>2, <2>3 DEF LlvmMachineStep, LlvmInterpreter!Next, LlvmInterpreter!Step
<1>4. CASE WriteByte
  <2>1. This.imm # IO_IN /\ output' = <<Current>> /\ UNCHANGED <<memory, input>>
    BY <1>4 DEF WriteByte
  <2>2. LlvmInv' /\ LlvmInterpreter!Continue
    BY <1>1, <1>4, <2>1, NextBlock DEF LlvmNext, LlvmExecute
  <2>3. LlvmInterpreter!IO
    BY <1>1, <1>2, <2>1, <2>2, SameBitcodeLlvm DEF LlvmInterpreter!IO
  <2> QED
    BY <2>2, <2>3 DEF LlvmMachineStep, LlvmInterpreter!Next, LlvmInterpreter!Step
<1> QED
  BY <1>3, <1>4

\* A complete program returns at its H only, with 0.
LEMMA RetImplements ==
  ASSUME LlvmInv, Ret
  PROVE  LlvmInv' /\ LlvmMachineStep
<1>1. /\ stage = "running" /\ stage' = "returned" /\ This.op \in {"H", "X"}
      /\ result' = IF This.op = "H" THEN 0 ELSE 2
      /\ UNCHANGED <<bitcode, blocks, label, ptr, memory, input>> /\ output' = <<>>
  BY DEF Ret, Returns, NoIO
<1>2. This.op = bitcode[label + 1].op /\ label < Len(bitcode) /\ This.op # "X"
  BY <1>1, ThisFacts, BlockSays DEF WellFormed
<1>3. LlvmStatus = "running" /\ LlvmStatus' = "halted"
  BY <1>1, <1>2 DEF LlvmStatus
<1>4. EmitInv' /\ UNCHANGED Translated(bitcode)
  BY <1>1, NextKeepsEmit
  DEF LlvmNext, LlvmExecute, LlvmInv, Translated, WellFormed, JumpsMatched, WellNested, Paired
<1>5. LlvmInv'
  BY <1>1, <1>4 DEF LlvmInv, Address
<1>6. LlvmInterpreter!Stop
  BY <1>1, <1>2, <1>3 DEF LlvmInterpreter!Stop, LlvmInterpreter!At, LlvmInterpreter!NoIO
<1> QED
  BY <1>5, <1>6 DEF LlvmMachineStep, LlvmInterpreter!Next, LlvmInterpreter!Step

LEMMA LlvmNextImplements ==
  ASSUME LlvmInv, [LlvmNext]_lvars
  PROVE  LlvmInv' /\ LlvmMachineStep
BY EmitterImplements, LlvmMainImplements, ArithmeticImplements, MovePointerImplements,
   ScanImplements, BranchImplements, InputOutputImplements, RetImplements
   DEF LlvmNext, LlvmExecute

\* In a printed program every label that is branched to, or fallen into, is there.
LEMMA LabelsExistAlways ==
  ASSUME LlvmInv
  PROVE  LabelsExist
<1> SUFFICES ASSUME stage = "emitted", NEW a \in 0 .. Len(blocks) - 1
             PROVE  Successors(a) \subseteq 0 .. Len(blocks) - 1
  BY DEF LabelsExist
<1>1. /\ bitcode \in Seq(Instruction) /\ WellFormed(bitcode) /\ Len(blocks) = Len(bitcode)
      /\ Len(bitcode) \in Nat /\ DOMAIN bitcode = 1 .. Len(bitcode)
      /\ \A k \in 1 .. Len(blocks) : blocks[k] = Block(k - 1, Targets(k - 1))
  BY LenProperties DEF LlvmInv, EmitInv, Translated
<1>2. a \in Nat /\ a + 1 \in 1 .. Len(blocks) /\ a + 1 - 1 = a
  BY <1>1
<1>3. blocks[a + 1] = Block(a, Targets(a))
  BY <1>1, <1>2
<1>4. blocks[a + 1].op = bitcode[a + 1].op /\ blocks[a + 1].targets = Targets(a)
  BY <1>3 DEF Block
<1>5. Targets(a) \subseteq 0 .. Len(blocks) - 1
  <2>1. CASE bitcode[a + 1].op \in {"JE", "JN"}
    BY <1>1, <2>1, TargetIsBehindPartner
  <2>2. CASE bitcode[a + 1].op \notin {"JE", "JN"}
    BY <2>2 DEF Targets
  <2> QED
    BY <2>1, <2>2
<1>6. bitcode[a + 1].op # "H" => a + 1 # Len(bitcode)
  BY <1>1, <1>2 DEF WellFormed
<1>7. bitcode[a + 1].op # "H" => a + 1 \in 0 .. Len(blocks) - 1
  BY <1>1, <1>2, <1>6
<1> QED
  BY <1>4, <1>5, <1>7 DEF Successors

-----------------------------------------------------------------------------

\* jump_target throws for no complete program, whatever programs dump is given:
\* one that the emitter refuses is empty or has a jump without its partner.
THEOREM LlvmRefusesOnlyEmpty == LlvmSpec => []OnlyEmptyIsRefused
<1>1. EmitInv => OnlyEmptyIsRefused
  BY DEF EmitInv
<1> QED
  BY <1>1, InitEmit, NextKeepsEmit, PTL DEF LlvmSpec

\* The module printed for a translated program branches to no label that it
\* does not have.
THEOREM LlvmLabelsExist ==
  ASSUME \A code \in Programs : Translated(code)
  PROVE  LlvmSpec => []LabelsExist
<1>1. LlvmInit => LlvmInv
  BY InitLlvm
<1>2. LlvmInv /\ [LlvmNext]_lvars => LlvmInv'
  BY LlvmNextImplements
<1> QED
  BY <1>1, <1>2, LabelsExistAlways, PTL DEF LlvmSpec

\* The compiled module does, block for block, what Bitcode::execute does with
\* the same program, with jumps that became labels and offsets that were reduced
\* to the tape; a wrapper whose tape has another size does nothing at all.
THEOREM LlvmImplementsMachine ==
  ASSUME \A code \in Programs : Translated(code)
  PROVE  LlvmSpec => LlvmInterpreter!Init /\ [][LlvmInterpreter!Next]_LlvmInterpreter!mvars
<1>1. LlvmInit => LlvmInv
  BY InitLlvm
<1>2. LlvmInit => LlvmInterpreter!Init
  BY SameBitcodeLlvm DEF LlvmInit, Dumped, LlvmStatus, LlvmInterpreter!Init, LlvmInterpreter!BlankMemory
<1>3. LlvmInv /\ [LlvmNext]_lvars => LlvmInv' /\ [LlvmInterpreter!Next]_LlvmInterpreter!mvars
  BY LlvmNextImplements DEF LlvmMachineStep
<1> QED
  BY <1>1, <1>2, <1>3, PTL DEF LlvmSpec
=============================================================================
