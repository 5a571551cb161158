-------------------------- MODULE BrainfunkProofs --------------------------
(***************************************************************************)
(* Proofs about the class Brainfunk: first translate on its own, then the  *)
(* object whose caller mixes translate, run, step, reset_state and clear.  *)
(*                                                                         *)
(* IInv of Translator is inductive for a call of translate: CodeInv is     *)
(* kept by emitting plain code, by pushing a placeholder and by patching   *)
(* one; Balanced(src) and Len(stack) = Depth(src, pos) make the stack non- *)
(* empty at every ']' and empty at the end of the source.                  *)
(*                                                                         *)
(* It is not kept by the object, whose clear drops the code that the last  *)
(* call has left, and a step need not start inside the program as a run    *)
(* does.  ObjectInv has IInv for the length of a call only, and the lemma  *)
(* about the machine it uses is ObjectStep.                                *)
(***************************************************************************)
EXTENDS Brainfunk, Lemmas, SequenceTheorems

\* The fields of an instruction of a program.
LEMMA InstructionType ==
  ASSUME NEW code \in Seq(Instruction), NEW i \in DOMAIN code
  PROVE  /\ code[i] \in Instruction
         /\ code[i].op \in Opcode /\ code[i].imm \in Cell /\ code[i].off \in Int
<1>1. code[i] \in Instruction
  BY LenProperties
<1>2. code[i] \in [op : Opcode, imm : Cell, off : Int]
  BY <1>1 DEF Instruction
<1> QED
  BY <1>1, <1>2

\* A well-typed instruction, and its opcode.
LEMMA InstrType ==
  ASSUME NEW op \in Opcode, NEW imm \in Cell, NEW off \in Int
  PROVE  /\ Instr(op, imm, off) \in Instruction
         /\ Instr(op, imm, off).op = op
         /\ Instr(op, imm, off).off = off
  BY DEF Instr, Instruction

\* Zero and every remainder fit memory_t.
LEMMA CellType ==
  /\ 0 \in Cell /\ 1 \in Cell
  /\ \A x \in Int : x % CellMod \in Cell
  BY CellModAssumption DEF Cell

\* new is code with instructions behind it that are no jumps.
Extends(new, code) ==
  /\ Len(code) <= Len(new)
  /\ \A a \in 1 .. Len(code) : new[a] = code[a]
  /\ \A a \in Len(code) + 1 .. Len(new) : new[a].op \notin {"JE", "JN"}

\* Code without jumps breaks no pair and no nesting.
LEMMA ExtensionKeepsJumps ==
  ASSUME NEW code \in Seq(Instruction), NEW new \in Seq(Instruction), Extends(new, code),
         JumpsMatched(code), WellNested(code)
  PROVE  /\ JumpsMatched(new) /\ WellNested(new)
         /\ \A a \in DOMAIN new : new[a].op = "JE" =>
              /\ a \in DOMAIN code /\ code[a].op = "JE"
              /\ new[a].off = code[a].off
              /\ a + code[a].off \in DOMAIN code
<1> DEFINE L == Len(code)
           N == Len(new)
<1>1. L \in Nat /\ N \in Nat /\ DOMAIN code = 1 .. L /\ DOMAIN new = 1 .. N
  BY LenProperties
<1>2. \A a \in DOMAIN code : code[a].off \in Int
  BY InstructionType
<1> HIDE DEF L, N
<1>3. L <= N /\ \A a \in DOMAIN code : a \in DOMAIN new /\ new[a] = code[a]
  BY <1>1 DEF Extends, L, N
<1>4. \A a \in DOMAIN new : new[a].op \in {"JE", "JN"} => a \in DOMAIN code
  <2> SUFFICES ASSUME NEW a \in DOMAIN new, a \notin DOMAIN code
               PROVE  new[a].op \notin {"JE", "JN"}
    OBVIOUS
  <2>1. a \in L + 1 .. N
    BY <1>1
  <2> QED
    BY <2>1 DEF Extends, L, N
<1>5. \A a \in DOMAIN new : new[a].op = "JE" =>
              /\ a \in DOMAIN code /\ code[a].op = "JE"
              /\ new[a].off = code[a].off
              /\ a + code[a].off \in DOMAIN code
  BY <1>3, <1>4 DEF JumpsMatched, Paired
<1>6. JumpsMatched(new)
  <2> SUFFICES ASSUME NEW i \in DOMAIN code
               PROVE  /\ code[i].op = "JE" => code[i].off > 0 /\ Paired(new, i, "JN")
                      /\ code[i].op = "JN" => code[i].off < 0 /\ Paired(new, i, "JE")
    BY <1>3, <1>4 DEF JumpsMatched
  <2> QED
    BY <1>3 DEF JumpsMatched, Paired
<1>7. WellNested(new)
  <2> SUFFICES ASSUME NEW i \in DOMAIN new, NEW j \in DOMAIN new,
                      new[i].op = "JE", new[j].op = "JE", i < j, j < i + new[i].off
               PROVE  j + new[j].off < i + new[i].off
    BY DEF WellNested
  <2> QED
    BY <1>5 DEF WellNested
<1> QED
  BY <1>5, <1>6, <1>7

\* Nothing is pending in an empty program.
LEMMA EmptyCode == CodeInv(<<>>, <<>>)
  BY DEF CodeInv, Pending, NonePendingInside, JumpsMatched, WellNested

\* Instructions that are no placeholder, no jump and no H.
Plain(more) == \A a \in DOMAIN more : more[a].op \notin {"X", "JE", "JN", "H"}

\* What emplace_back of plain instructions leaves true.
LEMMA EmitKeeps ==
  ASSUME NEW code \in Seq(Instruction), NEW stk \in Seq(Nat), CodeInv(code, stk),
         NEW more \in Seq(Instruction), Plain(more)
  PROVE  /\ code \o more \in Seq(Instruction)
         /\ CodeInv(code \o more, stk)
         /\ OnlyPatched(code, code \o more)
         /\ \A a \in DOMAIN (code \o more) :
              (code \o more)[a].op = "H" => a \in DOMAIN code /\ code[a].op = "H"
<1> DEFINE new == code \o more
           L == Len(code)
           N == Len(new)
<1>1. new \in Seq(Instruction) /\ N = L + Len(more)
  BY ConcatProperties
<1>2. L \in Nat /\ N \in Nat /\ L <= N /\ DOMAIN new = 1 .. N /\ DOMAIN code = 1 .. L
  BY <1>1, LenProperties
<1>3. \A a \in 1 .. L : new[a] = code[a]
  BY <1>1, <1>2, ConcatProperties
<1>4. \A a \in L + 1 .. N : new[a].op \notin {"X", "JE", "JN", "H"}
  <2> SUFFICES ASSUME NEW a \in L + 1 .. N
               PROVE  new[a].op \notin {"X", "JE", "JN", "H"}
    OBVIOUS
  <2>1. a - L \in DOMAIN more /\ new[a] = more[a - L]
    BY <1>1, <1>2, ConcatProperties, LenProperties
  <2> QED
    BY <2>1 DEF Plain
<1> HIDE DEF new, L, N
<1>5. Extends(new, code)
  BY <1>2, <1>3, <1>4 DEF Extends, L, N
<1>6. JumpsMatched(new) /\ WellNested(new)
  BY <1>1, <1>5, ExtensionKeepsJumps DEF CodeInv
<1>7. DOMAIN stk = 1 .. Len(stk) /\ \A i \in DOMAIN stk : stk[i] \in Nat /\ stk[i] < L
  BY LenProperties DEF CodeInv, Pending, L
<1>8. Pending(new, stk)
  <2>1. \A i \in DOMAIN stk : stk[i] < N
    BY <1>2, <1>7
  <2>2. \A i, j \in DOMAIN stk : i < j => stk[i] < stk[j]
    BY DEF CodeInv, Pending
  <2>3. ASSUME NEW a \in DOMAIN new
        PROVE  new[a].op = "X" <=> \E i \in DOMAIN stk : stk[i] + 1 = a
    <3>1. CASE a \in 1 .. L
      <4>1. code[a].op = "X" <=> \E i \in DOMAIN stk : stk[i] + 1 = a
        BY <1>2, <3>1 DEF CodeInv, Pending
      <4> QED
        BY <4>1, <3>1, <1>3
    <3>2. CASE a \in L + 1 .. N
      BY <3>2, <1>2, <1>4, <1>7
    <3> QED
      BY <3>1, <3>2, <1>2
  <2> QED
    BY <2>1, <2>2, <2>3 DEF Pending, N
<1>9. NonePendingInside(new, stk)
  <2> SUFFICES ASSUME NEW i \in DOMAIN new, NEW k \in DOMAIN stk,
                      new[i].op = "JE", i < stk[k] + 1
               PROVE  i + new[i].off < stk[k] + 1
    BY DEF NonePendingInside
  <2>1. i \in DOMAIN code /\ code[i].op = "JE" /\ new[i].off = code[i].off
    BY <1>1, <1>5, ExtensionKeepsJumps DEF CodeInv
  <2> QED
    BY <2>1 DEF CodeInv, NonePendingInside
<1>10. OnlyPatched(code, new)
  BY <1>1, <1>2, <1>3 DEF OnlyPatched, L, N
<1> QED
  BY <1>1, <1>2, <1>3, <1>4, <1>6, <1>8, <1>9, <1>10 DEF CodeInv, new

\* What pushing a placeholder and its address leaves true.
LEMMA OpenKeeps ==
  ASSUME NEW code \in Seq(Instruction), NEW stk \in Seq(Nat), CodeInv(code, stk),
         NEW x \in Instruction, x.op = "X"
  PROVE  /\ Append(code, x) \in Seq(Instruction)
         /\ Append(stk, Len(code)) \in Seq(Nat)
         /\ CodeInv(Append(code, x), Append(stk, Len(code)))
         /\ OnlyPatched(code, Append(code, x))
<1> DEFINE new  == Append(code, x)
           L    == Len(code)
           K    == Len(stk)
           push == Append(stk, L)
<1>1. L \in Nat /\ DOMAIN code = 1 .. L /\ K \in Nat /\ DOMAIN stk = 1 .. K
  BY LenProperties
<1>2. /\ new \in Seq(Instruction) /\ Len(new) = L + 1 /\ DOMAIN new = 1 .. L + 1
      /\ \A a \in 1 .. L : new[a] = code[a]
      /\ new[L + 1].op = "X"
  BY AppendProperties, LenProperties
<1>3. /\ push \in Seq(Nat) /\ DOMAIN push = 1 .. K + 1
      /\ \A k \in 1 .. K : push[k] = stk[k]
      /\ push[K + 1] = L
  BY <1>1, AppendProperties, LenProperties
<1>4. \A k \in 1 .. K : stk[k] \in Nat /\ stk[k] < L
  BY <1>1, LenProperties DEF CodeInv, Pending
<1> HIDE DEF new, push, L, K
<1>5. Extends(new, code)
  <2>1. \A a \in L + 1 .. L + 1 : new[a].op \notin {"JE", "JN"}
    BY <1>1, <1>2
  <2> QED
    BY <2>1, <1>1, <1>2 DEF Extends, L
<1>6. JumpsMatched(new) /\ WellNested(new)
  BY <1>2, <1>5, ExtensionKeepsJumps DEF CodeInv
<1>7. Pending(new, push)
  <2>1. \A k \in DOMAIN push : push[k] < Len(new)
    BY <1>1, <1>2, <1>3, <1>4
  <2>2. \A k, j \in DOMAIN push : k < j => push[k] < push[j]
    <3> SUFFICES ASSUME NEW k \in 1 .. K + 1, NEW j \in 1 .. K + 1, k < j
                 PROVE  push[k] < push[j]
      BY <1>3
    <3>1. CASE j \in 1 .. K
      <4>1. k \in DOMAIN stk /\ j \in DOMAIN stk /\ push[k] = stk[k] /\ push[j] = stk[j]
        BY <3>1, <1>1, <1>3
      <4>2. stk[k] < stk[j]
        BY <4>1 DEF CodeInv, Pending
      <4> QED
        BY <4>1, <4>2
    <3>2. CASE j = K + 1
      BY <3>2, <1>1, <1>3, <1>4
    <3> QED
      BY <3>1, <3>2, <1>1
  <2>3. ASSUME NEW a \in DOMAIN new
        PROVE  new[a].op = "X" <=> \E k \in DOMAIN push : push[k] + 1 = a
    <3>1. CASE a \in 1 .. L
      <4>1. code[a].op = "X" <=> \E k \in 1 .. K : stk[k] + 1 = a
        BY <3>1, <1>1 DEF CodeInv, Pending
      <4>2. (\E k \in 1 .. K + 1 : push[k] + 1 = a) <=> (\E k \in 1 .. K : stk[k] + 1 = a)
        BY <3>1, <1>1, <1>3
      <4> QED
        BY <4>1, <4>2, <3>1, <1>2, <1>3
    <3>2. CASE a = L + 1
      <4>1. K + 1 \in DOMAIN push /\ push[K + 1] + 1 = a
        BY <3>2, <1>1, <1>3
      <4> QED
        BY <4>1, <3>2, <1>2
    <3> QED
      BY <3>1, <3>2, <1>1, <1>2
  <2> QED
    BY <2>1, <2>2, <2>3 DEF Pending
<1>8. NonePendingInside(new, push)
  <2> SUFFICES ASSUME NEW i \in DOMAIN new, NEW k \in 1 .. K + 1,
                      new[i].op = "JE", i < push[k] + 1
               PROVE  i + new[i].off < push[k] + 1
    BY <1>3 DEF NonePendingInside
  <2>1. /\ i \in DOMAIN code /\ code[i].op = "JE" /\ new[i].off = code[i].off
        /\ i + code[i].off \in DOMAIN code
    BY <1>2, <1>5, ExtensionKeepsJumps, SMTT(30) DEF CodeInv
  <2>2. CASE k \in 1 .. K
    BY <2>1, <2>2, <1>1, <1>3 DEF CodeInv, NonePendingInside
  <2>3. CASE k = K + 1
    BY <2>1, <2>3, <1>1, <1>3
  <2> QED
    BY <2>2, <2>3, <1>1
<1>9. OnlyPatched(code, new)
  BY <1>1, <1>2 DEF OnlyPatched, L
<1> QED
  BY <1>2, <1>3, <1>6, <1>7, <1>8, <1>9 DEF CodeInv, new, push, L

\* The program and the stack that ']' leaves.
Patched(code, stk) ==
  LET last_pc == stk[Len(stk)]
      end     == Len(code)
  IN  Append([code EXCEPT ![last_pc + 1] = Instr("JE", 0, end - last_pc)],
             Instr("JN", 0, last_pc - end))
Popped(stk) == SubSeq(stk, 1, Len(stk) - 1)

\* What patching the newest placeholder and emitting its JN leaves true: the
\* new loop encloses only finished loops, and the others stay as they were.
LEMMA CloseKeeps ==
  ASSUME NEW code \in Seq(Instruction), NEW stk \in Seq(Nat), CodeInv(code, stk),
         stk # <<>>
  PROVE  /\ Patched(code, stk) \in Seq(Instruction)
         /\ Popped(stk) \in Seq(Nat) /\ Len(Popped(stk)) = Len(stk) - 1
         /\ CodeInv(Patched(code, stk), Popped(stk))
         /\ OnlyPatched(code, Patched(code, stk))
         /\ \A a \in DOMAIN Patched(code, stk) :
              Patched(code, stk)[a].op = "H" => a \in DOMAIN code /\ code[a].op = "H"
<1> DEFINE L   == Len(code)
           K   == Len(stk)
           p   == stk[K] + 1
           je  == Instr("JE", 0, L - stk[K])
           jn  == Instr("JN", 0, stk[K] - L)
           mid == [code EXCEPT ![p] = je]
           new == Append(mid, jn)
           pop == SubSeq(stk, 1, K - 1)
<1>1. L \in Nat /\ DOMAIN code = 1 .. L /\ K \in Nat \ {0} /\ DOMAIN stk = 1 .. K
  BY LenProperties, EmptySeq
<1>2. \A k \in 1 .. K : stk[k] \in Nat /\ stk[k] < L
  BY <1>1, LenProperties DEF CodeInv, Pending
<1>3. p \in 1 .. L
  BY <1>1, <1>2
<1>4. \A j, k \in 1 .. K : j < k => stk[j] < stk[k]
  BY <1>1 DEF CodeInv, Pending
<1>jumps. /\ je \in Instruction /\ je.op = "JE" /\ je.off = L - stk[K]
      /\ jn \in Instruction /\ jn.op = "JN" /\ jn.off = stk[K] - L
  <2>1. L - stk[K] \in Int /\ stk[K] - L \in Int /\ 0 \in Cell
    BY <1>1, <1>2, CellType
  <2>2. "JE" \in Opcode /\ "JN" \in Opcode
    BY DEF Opcode
  <2> HIDE DEF L, K
  <2> QED
    BY <2>1, <2>2, InstrType
<1> HIDE DEF je, jn
<1>5. mid \in Seq(Instruction) /\ Len(mid) = L
      /\ \A a \in 1 .. L : mid[a] = IF a = p THEN je ELSE code[a]
  BY <1>jumps, <1>3, ExceptSeq
<1>6. /\ new \in Seq(Instruction) /\ DOMAIN new = 1 .. L + 1 /\ Len(new) = L + 1
      /\ new[p] = je /\ new[L + 1] = jn
      /\ \A a \in 1 .. L : a # p => new[a] = code[a]
  BY <1>jumps, <1>1, <1>3, <1>5, AppendProperties, LenProperties
<1>7. /\ pop \in Seq(Nat) /\ Len(pop) = K - 1 /\ DOMAIN pop = 1 .. K - 1
      /\ \A k \in 1 .. K - 1 : pop[k] = stk[k]
  BY <1>1, <1>2, SubSeqProperties, LenProperties
<1>8. je.off = L + 1 - p /\ jn.off = p - (L + 1) /\ p = stk[K] + 1
  BY <1>jumps, <1>1, <1>2
<1> HIDE DEF new, pop, mid, p, L, K
<1>9. code[p].op = "X"
  <2>1. K \in DOMAIN stk /\ stk[K] + 1 = p
    BY <1>1, <1>8
  <2> QED
    BY <2>1, <1>1, <1>3 DEF CodeInv, Pending
<1>10. \A a \in 1 .. L : code[a].off \in Int
  BY <1>1, InstructionType
<1>11. Pending(new, pop)
  <2>1. \A k \in DOMAIN pop : pop[k] < Len(new)
    BY <1>1, <1>2, <1>6, <1>7
  <2>2. \A k, j \in DOMAIN pop : k < j => pop[k] < pop[j]
    BY <1>1, <1>4, <1>7
  <2>3. ASSUME NEW a \in DOMAIN new
        PROVE  new[a].op = "X" <=> \E k \in DOMAIN pop : pop[k] + 1 = a
    <3>1. CASE a \in 1 .. L /\ a # p
      <4>1. code[a].op = "X" <=> \E k \in 1 .. K : stk[k] + 1 = a
        BY <3>1, <1>1 DEF CodeInv, Pending
      <4>2. (\E k \in 1 .. K : stk[k] + 1 = a) <=> (\E k \in 1 .. K - 1 : stk[k] + 1 = a)
        BY <3>1, <1>1, <1>8
      <4> QED
        BY <4>1, <4>2, <3>1, <1>6, <1>7
    <3>2. CASE a = p
      <4>1. \A k \in 1 .. K - 1 : stk[k] < stk[K]
        BY <1>1, <1>4
      <4>2. ASSUME NEW k \in DOMAIN pop
            PROVE  pop[k] + 1 # a
        <5>1. pop[k] = stk[k] /\ stk[k] < stk[K] /\ stk[k] \in Nat /\ stk[K] \in Nat
          BY <4>1, <1>1, <1>2, <1>7
        <5> QED
          BY <5>1, <3>2, <1>8
      <4> QED
        BY <4>2, <3>2, <1>jumps, <1>6
    <3>3. CASE a = L + 1
      <4>1. ~ \E k \in DOMAIN pop : pop[k] + 1 = a
        BY <3>3, <1>1, <1>2, <1>7
      <4> QED
        BY <4>1, <3>3, <1>jumps, <1>6
    <3> QED
      BY <3>1, <3>2, <3>3, <1>1, <1>6
  <2> QED
    BY <2>1, <2>2, <2>3 DEF Pending
<1>12. \A i \in DOMAIN new : new[i].op = "JE" =>
         \/ i = p /\ i + new[i].off = L + 1
         \/ /\ i \in 1 .. L /\ i # p /\ code[i].op = "JE" /\ new[i] = code[i]
            /\ i + code[i].off \in 1 .. L
  <2> SUFFICES ASSUME NEW i \in 1 .. L + 1, new[i].op = "JE"
               PROVE  \/ i = p /\ i + new[i].off = L + 1
                      \/ /\ i \in 1 .. L /\ i # p /\ code[i].op = "JE" /\ new[i] = code[i]
                         /\ i + code[i].off \in 1 .. L
    BY <1>6
  <2>1. CASE i = p
    BY <2>1, <1>1, <1>3, <1>jumps, <1>6, <1>8
  <2>2. CASE i \in 1 .. L /\ i # p
    BY <2>2, <1>1, <1>6 DEF CodeInv, JumpsMatched, Paired
  <2>3. CASE i = L + 1
    BY <2>3, <1>jumps, <1>6
  <2> QED
    BY <2>1, <2>2, <2>3, <1>1
<1>13. NonePendingInside(new, pop)
  <2> SUFFICES ASSUME NEW i \in DOMAIN new, NEW k \in 1 .. K - 1,
                      new[i].op = "JE", i < stk[k] + 1
               PROVE  i + new[i].off < stk[k] + 1
    BY <1>7 DEF NonePendingInside
  <2>1. stk[k] < stk[K]
    BY <1>1, <1>4
  <2>2. i # p
    BY <2>1, <1>1, <1>2, <1>8, SMTT(30)
  <2>3. /\ i \in DOMAIN code /\ code[i].op = "JE" /\ new[i] = code[i]
        /\ k \in DOMAIN stk
    BY <2>2, <1>1, <1>12
  <2> QED
    BY <2>3 DEF CodeInv, NonePendingInside
<1>14. JumpsMatched(new)
  <2> SUFFICES ASSUME NEW i \in 1 .. L + 1
               PROVE  /\ new[i].op = "JE" => new[i].off > 0 /\ Paired(new, i, "JN")
                      /\ new[i].op = "JN" => new[i].off < 0 /\ Paired(new, i, "JE")
    BY <1>6 DEF JumpsMatched
  <2>1. CASE i = p
    <3>1. new[p].off > 0 /\ p + new[p].off = L + 1 /\ new[L + 1].off = -new[p].off
      BY <1>1, <1>3, <1>jumps, <1>6, <1>8, SMTT(30)
    <3> QED
      BY <3>1, <2>1, <1>1, <1>jumps, <1>6 DEF Paired
  <2>2. CASE i = L + 1
    <3>1. new[i].off < 0 /\ i + new[i].off = p /\ new[p].off = -new[i].off
      BY <2>2, <1>1, <1>3, <1>jumps, <1>6, <1>8, SMTT(30)
    <3> QED
      BY <3>1, <2>2, <1>1, <1>3, <1>jumps, <1>6 DEF Paired
  <2>3. CASE i \in 1 .. L /\ i # p
    <3>1. ASSUME NEW o \in {"JE", "JN"}, Paired(code, i, o)
          PROVE  Paired(new, i, o)
      <4>1. i + code[i].off # p
        BY <3>1, <1>9 DEF Paired
      <4> QED
        BY <3>1, <4>1, <2>3, <1>1, <1>6 DEF Paired
    <3> QED
      BY <3>1, <2>3, <1>1, <1>6 DEF CodeInv, JumpsMatched
  <2> QED
    BY <2>1, <2>2, <2>3, <1>1
<1>15. WellNested(new)
  <2> SUFFICES ASSUME NEW i \in DOMAIN new, NEW j \in DOMAIN new,
                      new[i].op = "JE", new[j].op = "JE", i < j, j < i + new[i].off
               PROVE  j + new[j].off < i + new[i].off
    BY DEF WellNested
  <2>1. CASE i = p
    BY <2>1, <1>1, <1>3, <1>12
  <2>2. CASE i # p /\ j = p
    <3>1. K \in DOMAIN stk /\ i \in DOMAIN code /\ code[i].op = "JE" /\ i < stk[K] + 1
          /\ new[i] = code[i]
      BY <2>2, <1>1, <1>8, <1>12
    <3>2. i + code[i].off < stk[K] + 1
      BY <3>1 DEF CodeInv, NonePendingInside
    <3> QED
      BY <3>1, <3>2, <2>2, <1>1, <1>2, <1>8, <1>10, SMTT(30)
  <2>3. CASE i # p /\ j # p
    <3>1. /\ i \in DOMAIN code /\ code[i].op = "JE" /\ new[i] = code[i]
          /\ j \in DOMAIN code /\ code[j].op = "JE" /\ new[j] = code[j]
      BY <2>3, <1>1, <1>12
    <3> QED
      BY <3>1 DEF CodeInv, WellNested
  <2> QED
    BY <2>1, <2>2, <2>3
<1>16. \A a \in DOMAIN new : new[a].op = "H" => a \in DOMAIN code /\ code[a].op = "H"
  BY <1>1, <1>jumps, <1>6
<1>17. CodeInv(new, pop)
  BY <1>11, <1>13, <1>14, <1>15 DEF CodeInv
<1>18. Patched(code, stk) = new /\ Popped(stk) = pop
  BY DEF Patched, Popped, new, mid, pop, p, K, L, je, jn
<1>19. Len(pop) = Len(stk) - 1
  BY <1>7 DEF K
<1>20. OnlyPatched(code, new)
  BY <1>jumps, <1>1, <1>3, <1>6, <1>9 DEF OnlyPatched, L
<1> QED
  BY <1>6, <1>7, <1>16, <1>17, <1>18, <1>19, <1>20

-----------------------------------------------------------------------------
(***************************************************************************)
(* What the loops and runs that are recognised consume and emit.           *)
(***************************************************************************)

\* A single instruction that is no jump is plain code.
LEMMA OnePlain ==
  ASSUME NEW x \in Instruction, x.op \notin {"X", "JE", "JN", "H"}
  PROVE  <<x>> \in Seq(Instruction) /\ Plain(<<x>>)
  BY DEF Plain

\* Plain code behind plain code is plain.
LEMMA PlainConcat ==
  ASSUME NEW front \in Seq(Instruction), NEW back \in Seq(Instruction),
         Plain(front), Plain(back)
  PROVE  front \o back \in Seq(Instruction) /\ Plain(front \o back)
<1>1. /\ Len(front) \in Nat /\ DOMAIN front = 1 .. Len(front)
      /\ Len(back) \in Nat /\ DOMAIN back = 1 .. Len(back)
  BY LenProperties
<1>2. /\ front \o back \in Seq(Instruction)
      /\ DOMAIN (front \o back) = 1 .. Len(front) + Len(back)
  BY <1>1, ConcatProperties, LenProperties
<1>3. ASSUME NEW a \in 1 .. Len(front) + Len(back)
      PROVE  (front \o back)[a].op \notin {"X", "JE", "JN", "H"}
  <2>1. CASE a \in 1 .. Len(front)
    <3>1. (front \o back)[a] = front[a]
      BY <2>1, <1>1, <1>3, ConcatProperties
    <3> QED
      BY <3>1, <2>1, <1>1 DEF Plain
  <2>2. CASE a \in Len(front) + 1 .. Len(front) + Len(back)
    <3>1. (front \o back)[a] = back[a - Len(front)]
      BY <2>2, <1>1, <1>3, ConcatProperties
    <3>2. a - Len(front) \in 1 .. Len(back)
      BY <2>2, <1>1
    <3> QED
      BY <3>1, <3>2, <1>1 DEF Plain
  <2> QED
    BY <2>1, <2>2, <1>1, <1>3
<1> QED
  BY <1>2, <1>3 DEF Plain

\* try_parse_mul_offset_loop_ emits MULs and an S.
LEMMA MulCodePlain ==
  ASSUME NEW body \in Seq(Char)
  PROVE  MulCode(body) \in Seq(Instruction) /\ Plain(MulCode(body))
<1> DEFINE ends == PairEnds(body)
           C == Cardinality(ends)
           mul(i)    == MulFactor(body, i)
           offset(i) == MulOffset(body, i)
           muls == [i \in 1 .. C |-> Instr("MUL", mul(i), offset(i))]
           s0 == <<Instr("S", 0, 0)>>
<1>1. C \in Nat
  <2>1. Len(body) \in Nat /\ ends \subseteq 2 .. Len(body) - 1
    BY LenProperties DEF PairEnds
  <2>2. IsFiniteSet(2 .. Len(body) - 1)
    BY <2>1, FS_Interval
  <2> QED
    BY <2>1, <2>2, FS_Subset, FS_CardinalityType
<1>2. \A i \in 1 .. C : mul(i) \in Cell /\ offset(i) \in Int
  <2> SUFFICES ASSUME NEW i \in 1 .. C
               PROVE  mul(i) \in Cell /\ offset(i) \in Int
    OBVIOUS
  <2>1. Net(body, "+", "-", PairStart(body, i) .. Nth(ends, i)) \in Int
    BY NetType
  <2>2. offset(i) \in Int
    BY NetType DEF MulOffset
  <2> QED
    BY <2>1, <2>2, CellType DEF MulFactor
<1> HIDE DEF C, mul, offset
<1>3. \A i \in 1 .. C : muls[i] \in Instruction /\ muls[i].op = "MUL"
  BY <1>2, InstrType DEF Opcode
<1>4. muls \in Seq(Instruction) /\ Len(muls) = C /\ DOMAIN muls = 1 .. C
  BY <1>1, <1>3
<1>5. s0 \in Seq(Instruction) /\ Len(s0) = 1 /\ s0[1].op = "S"
  BY InstrType, CellType DEF Opcode
<1>6. MulCode(body) = muls \o s0
  BY DEF MulCode, C, mul, offset
<1>7. Plain(muls) /\ Plain(s0)
  BY <1>3, <1>4, <1>5 DEF Plain
<1> HIDE DEF muls, s0
<1>8. muls \o s0 \in Seq(Instruction) /\ Plain(muls \o s0)
  BY <1>4, <1>5, <1>7, PlainConcat
<1> QED
  BY <1>6, <1>8

\* The body of a loop is text.
LEMMA BodyType ==
  ASSUME TypeOK, NEW n \in Remaining
  PROVE  Body(n) \in Seq(Char)
<1>1. /\ src \in Seq(Char) /\ pos \in Nat /\ Len(src) \in Nat
      /\ n \in Nat /\ pos + n <= Len(src)
  BY LenProperties DEF TypeOK, Remaining
<1>2. \A i \in pos + 2 .. pos + n - 1 : src[i] \in Char
  BY <1>1, ElementOfSeq
<1> QED
  BY <1>1, <1>2, SubSeqProperties DEF Body

\* A loop without another inside has as many '[' as ']'.
LEMMA InnermostDepth ==
  ASSUME TypeOK, NEW n \in Remaining, InnermostLoop(n)
  PROVE  Depth(src, pos + n) = Depth(src, pos)
<1>1. /\ src \in Seq(Char) /\ pos \in Nat /\ Len(src) \in Nat
      /\ n \in Nat /\ n > 0 /\ pos + n <= Len(src)
  BY LenProperties DEF TypeOK, Remaining
<1>2. n # 1
  BY DEF InnermostLoop
<1>3. pos \in 0 .. Len(src) - 2 /\ pos + n \in pos + 2 .. Len(src)
  BY <1>1, <1>2
<1>4. \A i \in pos + 2 .. pos + n - 1 : src[i] # "[" /\ src[i] # "]"
  BY DEF InnermostLoop, Arith, Moves
<1> QED
  BY <1>1, <1>3, <1>4, DepthInnermost DEF InnermostLoop

\* A run has no brackets.
LEMMA RunDepth ==
  ASSUME TypeOK, NEW n \in Remaining, NEW S, "[" \notin S, "]" \notin S, LeadingRun(S, n)
  PROVE  Depth(src, pos + n) = Depth(src, pos)
<1>1. src \in Seq(Char) /\ pos \in 0 .. Len(src) /\ pos + n \in pos .. Len(src)
  BY LenProperties DEF TypeOK, Remaining
<1>2. \A i \in pos + 1 .. pos + n : src[i] # "[" /\ src[i] # "]"
  BY DEF LeadingRun
<1> QED
  BY <1>1, <1>2, DepthFlat

\* Emitting plain code for a stretch that opens as many loops as it closes.
LEMMA PlainStep ==
  ASSUME IInv, Translating, NEW n \in Remaining,
         NEW code \in Seq(Instruction), Plain(code),
         Depth(src, pos + n) = Depth(src, pos),
         Emit(code, n)
  PROVE  IInv' /\ OnlyPatched(bitcode, bitcode')
<1>1. /\ src \in Seq(Char) /\ pos \in Nat /\ Len(src) \in Nat
      /\ bitcode \in Seq(Instruction) /\ stack \in Seq(Nat)
      /\ phase = "translate"
  BY LenProperties DEF IInv, TypeOK, Translating
<1>2. /\ bitcode' = bitcode \o code /\ pos' = pos + n
      /\ src' = src /\ phase' = phase /\ open' = open /\ stack' = stack
  BY DEF Emit
<1>3. /\ bitcode' \in Seq(Instruction)
      /\ CodeInv(bitcode', stack') /\ OnlyPatched(bitcode, bitcode')
      /\ \A a \in DOMAIN bitcode' :
           bitcode'[a].op = "H" => a \in DOMAIN bitcode /\ bitcode[a].op = "H"
  BY <1>1, <1>2, EmitKeeps DEF IInv
<1>4. pos' \in 0 .. Len(src')
  BY <1>1, <1>2 DEF Remaining
<1>5. TypeOK'
  BY <1>2, <1>3, <1>4 DEF IInv, TypeOK
<1>6. NeverUnmatched' /\ ValidateInv'
  BY <1>1, <1>2 DEF NeverUnmatched, ValidateInv
<1>7. DepthInv'
  BY <1>1, <1>2 DEF IInv, DepthInv, Depth, Balanced
<1>8. HaltInv'
  BY <1>1, <1>2, <1>3 DEF IInv, HaltInv
<1> QED
  BY <1>3, <1>5, <1>6, <1>7, <1>8 DEF IInv

-----------------------------------------------------------------------------
(***************************************************************************)
(* Every step of a call keeps the invariant.                               *)
(***************************************************************************)

LEMMA InitInv == Init => IInv
<1> SUFFICES ASSUME Init PROVE IInv
  OBVIOUS
<1>1. TypeOK
  BY DEF Init, TypeOK, Phases, Resting
<1>2. CodeInv(bitcode, stack)
  BY EmptyCode DEF Init
<1> QED
  BY <1>1, <1>2 DEF Init, IInv, NeverUnmatched, ValidateInv, DepthInv, HaltInv

\* A call starts by clearing everything.
LEMMA BeginKeeps ==
  ASSUME NEW s \in Sources, Begin(s)
  PROVE  IInv'
<1>1. s \in Seq(Char) /\ Len(s) \in Nat
  BY SourcesAssumption, LenProperties
<1>2. /\ src' = s /\ phase' = "validate" /\ pos' = 0 /\ open' = 0
      /\ bitcode' = <<>> /\ stack' = <<>>
  BY DEF Begin
<1>3. TypeOK'
  BY <1>1, <1>2 DEF TypeOK, Phases
<1>4. Depth(s, 0) = 0 /\ \A k \in 0 .. 0 : k = 0
  BY <1>1, DepthType
<1>5. ValidateInv'
  BY <1>2, <1>4 DEF ValidateInv, Depth
<1>6. CodeInv(bitcode, stack)'
  BY <1>2, EmptyCode
<1> QED
  BY <1>2, <1>3, <1>5, <1>6 DEF IInv, NeverUnmatched, DepthInv, HaltInv

\* One character validated: either the count follows the depth, or the
\* character closes more than the prefix has opened.
LEMMA ValidateCharKeeps ==
  ASSUME IInv, ValidateChar
  PROVE  IInv' /\ OnlyPatched(bitcode, bitcode')
<1>1. /\ src \in Seq(Char) /\ Len(src) \in Nat /\ pos \in 0 .. Len(src) - 1
      /\ open \in Nat /\ phase = "validate" /\ bitcode = <<>> /\ stack = <<>>
      /\ open = Depth(src, pos)
      /\ \A k \in 0 .. pos : Depth(src, k) >= 0
      /\ src' = src /\ bitcode' = bitcode /\ stack' = stack
  BY LenProperties DEF IInv, TypeOK, ValidateInv, ValidateChar, AtEnd
<1>2. /\ Depth(src, pos + 1) = Depth(src, pos) + Net(src, "[", "]", {pos + 1})
      /\ Net(src, "[", "]", {pos + 1})
           = IF src[pos + 1] = "[" THEN 1 ELSE IF src[pos + 1] = "]" THEN -1 ELSE 0
  BY <1>1, DepthStep
<1>3. CodeInv(bitcode, stack)' /\ OnlyPatched(bitcode, bitcode')
  BY <1>1, EmptyCode DEF OnlyPatched
<1>4. CASE Front1 = "]" /\ open = 0
  <2>1. phase' = "rejected" /\ pos' = pos /\ open' = open
    BY <1>4 DEF ValidateChar
  <2>2. Depth(src, pos + 1) = -1 /\ pos + 1 \in 0 .. Len(src)
    BY <1>1, <1>2, <1>4 DEF Front1
  <2>3. ~Balanced(src)
    BY <2>2 DEF Balanced
  <2>4. TypeOK'
    BY <1>1, <2>1 DEF IInv, TypeOK, Phases, Resting
  <2>5. DepthInv'
    BY <1>1, <2>1, <2>3 DEF DepthInv
  <2> QED
    BY <1>1, <1>3, <2>1, <2>4, <2>5 DEF IInv, NeverUnmatched, ValidateInv, HaltInv
<1>5. CASE ~(Front1 = "]" /\ open = 0)
  <2>1. /\ phase' = phase /\ pos' = pos + 1
        /\ open' = open + Net(src, "[", "]", {pos + 1})
    BY <1>5 DEF ValidateChar
  <2>2. open' = Depth(src, pos + 1) /\ open' \in Nat
    BY <1>1, <1>2, <1>5, <2>1 DEF Front1
  <2>3. \A k \in 0 .. pos + 1 : Depth(src, k) >= 0
    BY <1>1, <2>2
  <2>4. TypeOK'
    BY <1>1, <2>1, <2>2 DEF IInv, TypeOK
  <2>5. ValidateInv'
    BY <1>1, <2>1, <2>2, <2>3 DEF ValidateInv, Depth
  <2> QED
    BY <1>1, <1>3, <2>1, <2>4, <2>5 DEF IInv, NeverUnmatched, DepthInv, HaltInv
<1> QED
  BY <1>4, <1>5

\* The end of validate_brackets: the translation starts with a balanced text.
LEMMA ValidateEndKeeps ==
  ASSUME IInv, ValidateEnd
  PROVE  IInv' /\ OnlyPatched(bitcode, bitcode')
<1>1. /\ src \in Seq(Char) /\ Len(src) \in Nat /\ pos = Len(src)
      /\ open \in Nat /\ phase = "validate" /\ bitcode = <<>> /\ stack = <<>>
      /\ open = Depth(src, Len(src))
      /\ \A k \in 0 .. Len(src) : Depth(src, k) >= 0
      /\ src' = src /\ bitcode' = bitcode /\ stack' = stack
      /\ open' = open /\ pos' = 0
      /\ phase' = IF open = 0 THEN "translate" ELSE "rejected"
  BY LenProperties DEF IInv, TypeOK, ValidateInv, ValidateEnd, AtEnd
<1>2. Balanced(src) <=> open = 0
  BY <1>1 DEF Balanced
<1>3. Depth(src, 0) = 0 /\ Len(stack) = 0
  BY <1>1, DepthType
<1>4. TypeOK'
  BY <1>1 DEF IInv, TypeOK, Phases, Resting
<1>5. DepthInv'
  BY <1>1, <1>2, <1>3 DEF DepthInv, Depth, Balanced
<1>6. CodeInv(bitcode, stack)' /\ OnlyPatched(bitcode, bitcode')
  BY <1>1, EmptyCode DEF OnlyPatched
<1> QED
  BY <1>1, <1>4, <1>5, <1>6 DEF IInv, NeverUnmatched, ValidateInv, HaltInv

LEMMA MulLoopKeeps ==
  ASSUME IInv, MulLoop
  PROVE  IInv' /\ OnlyPatched(bitcode, bitcode')
<1>1. PICK n \in Remaining : InnermostLoop(n) /\ Emit(MulCode(Body(n)), n)
  BY DEF MulLoop
<1>2. MulCode(Body(n)) \in Seq(Instruction) /\ Plain(MulCode(Body(n)))
  BY BodyType, MulCodePlain DEF IInv
<1>3. Depth(src, pos + n) = Depth(src, pos)
  BY <1>1, InnermostDepth DEF IInv
<1> QED
  BY <1>1, <1>2, <1>3, PlainStep DEF MulLoop

LEMMA ScanLoopKeeps ==
  ASSUME IInv, ScanLoop
  PROVE  IInv' /\ OnlyPatched(bitcode, bitcode')
<1>1. PICK n \in Remaining :
        InnermostLoop(n) /\ Emit(<<Instr("F", 0, Net(Body(n), ">", "<", 1 .. n))>>, n)
  BY DEF ScanLoop
<1> DEFINE f == Instr("F", 0, Net(Body(n), ">", "<", 1 .. n))
<1>2. Net(Body(n), ">", "<", 1 .. n) \in Int
  BY BodyType, NetType DEF IInv
<1>3. f \in Instruction /\ f.op = "F"
  BY <1>2, CellType, InstrType DEF Opcode
<1> HIDE DEF f
<1>4. <<f>> \in Seq(Instruction) /\ Plain(<<f>>)
  BY <1>3, OnePlain
<1>5. Depth(src, pos + n) = Depth(src, pos)
  BY <1>1, InnermostDepth DEF IInv
<1>6. Emit(<<f>>, n)
  BY <1>1 DEF f
<1> QED
  BY <1>4, <1>5, <1>6, PlainStep DEF ScanLoop

LEMMA SetZeroLoopKeeps ==
  ASSUME IInv, SetZeroLoop
  PROVE  IInv' /\ OnlyPatched(bitcode, bitcode')
<1>1. PICK n \in Remaining : InnermostLoop(n) /\ Emit(<<Instr("S", 0, 0)>>, n)
  BY DEF SetZeroLoop
<1>2. Instr("S", 0, 0) \in Instruction /\ Instr("S", 0, 0).op = "S"
  BY CellType, InstrType DEF Opcode
<1>3. <<Instr("S", 0, 0)>> \in Seq(Instruction) /\ Plain(<<Instr("S", 0, 0)>>)
  BY <1>2, OnePlain
<1>4. Depth(src, pos + n) = Depth(src, pos)
  BY <1>1, InnermostDepth DEF IInv
<1> QED
  BY <1>1, <1>3, <1>4, PlainStep DEF SetZeroLoop

LEMMA AddRunKeeps ==
  ASSUME IInv, AddRun
  PROVE  IInv' /\ OnlyPatched(bitcode, bitcode')
<1> DEFINE net(n) == Net(src, "+", "-", pos + 1 .. pos + n)
<1>1. PICK n \in Remaining :
        LeadingRun(Arith, n) /\ Emit(<<Instr("A", net(n) % CellMod, 0)>>, n)
  BY DEF AddRun
<1> DEFINE a == Instr("A", net(n) % CellMod, 0)
<1>2. net(n) % CellMod \in Cell
  <2>1. net(n) \in Int
    BY NetType DEF IInv, TypeOK
  <2> QED
    BY <2>1, CellType
<1>3. a \in Instruction /\ a.op = "A"
  BY <1>2, InstrType DEF Opcode
<1> HIDE DEF a
<1>4. <<a>> \in Seq(Instruction) /\ Plain(<<a>>)
  BY <1>3, OnePlain
<1>5. Depth(src, pos + n) = Depth(src, pos)
  BY <1>1, RunDepth DEF IInv, Arith
<1>6. Emit(<<a>>, n)
  BY <1>1 DEF a
<1> QED
  BY <1>4, <1>5, <1>6, PlainStep DEF AddRun

LEMMA MoveRunKeeps ==
  ASSUME IInv, MoveRun
  PROVE  IInv' /\ OnlyPatched(bitcode, bitcode')
<1> DEFINE net(n) == Net(src, ">", "<", pos + 1 .. pos + n)
<1>1. PICK n \in Remaining : LeadingRun(Moves, n) /\ Emit(<<Instr("M", 0, net(n))>>, n)
  BY DEF MoveRun
<1> DEFINE m == Instr("M", 0, net(n))
<1>2. net(n) \in Int
  BY NetType DEF IInv, TypeOK
<1>3. m \in Instruction /\ m.op = "M"
  BY <1>2, CellType, InstrType DEF Opcode
<1> HIDE DEF m
<1>4. <<m>> \in Seq(Instruction) /\ Plain(<<m>>)
  BY <1>3, OnePlain
<1>5. Depth(src, pos + n) = Depth(src, pos)
  BY <1>1, RunDepth DEF IInv, Moves
<1>6. Emit(<<m>>, n)
  BY <1>1 DEF m
<1> QED
  BY <1>4, <1>5, <1>6, PlainStep DEF MoveRun

\* One character that is no bracket leaves the depth as it is.
LEMMA OneDepth ==
  ASSUME TypeOK, Translating, Front1 # "[", Front1 # "]"
  PROVE  1 \in Remaining /\ Depth(src, pos + 1) = Depth(src, pos)
<1>1. src \in Seq(Char) /\ Len(src) \in Nat /\ pos \in 0 .. Len(src) - 1
  BY LenProperties DEF TypeOK, Translating, AtEnd
<1>2. Depth(src, pos) \in Int
  BY <1>1, DepthType
<1>3. /\ Depth(src, pos + 1) = Depth(src, pos) + Net(src, "[", "]", {pos + 1})
      /\ Net(src, "[", "]", {pos + 1})
           = IF src[pos + 1] = "[" THEN 1 ELSE IF src[pos + 1] = "]" THEN -1 ELSE 0
  BY <1>1, DepthStep
<1>4. Depth(src, pos + 1) = Depth(src, pos)
  BY <1>2, <1>3 DEF Front1
<1> QED
  BY <1>1, <1>4 DEF Remaining

LEMMA InOutKeeps ==
  ASSUME IInv, Input \/ Output
  PROVE  IInv' /\ OnlyPatched(bitcode, bitcode')
<1>1. PICK imm \in {IO_IN, IO_OUT} : Emit(<<Instr("IO", imm, 0)>>, 1)
  BY DEF Input, Output
<1> DEFINE io == Instr("IO", imm, 0)
<1>2. imm \in Cell
  BY CellType DEF IO_IN, IO_OUT
<1>3. io \in Instruction /\ io.op = "IO"
  BY <1>2, InstrType DEF Opcode
<1> HIDE DEF io
<1>4. <<io>> \in Seq(Instruction) /\ Plain(<<io>>)
  BY <1>3, OnePlain
<1>5. 1 \in Remaining /\ Depth(src, pos + 1) = Depth(src, pos)
  BY OneDepth DEF IInv, Input, Output
<1>6. Emit(<<io>>, 1)
  BY <1>1 DEF io
<1> QED
  BY <1>4, <1>5, <1>6, PlainStep DEF Input, Output

LEMMA SkipKeeps ==
  ASSUME IInv, Skip
  PROVE  IInv' /\ OnlyPatched(bitcode, bitcode')
<1>1. 1 \in Remaining /\ Depth(src, pos + 1) = Depth(src, pos)
  BY OneDepth DEF IInv, Skip, InstructionChar
<1>2. <<>> \in Seq(Instruction) /\ Plain(<<>>)
  BY DEF Plain
<1> QED
  BY <1>1, <1>2, PlainStep DEF Skip

\* '[': one more placeholder, one more address, one level deeper.
LEMMA OpenLoopKeeps ==
  ASSUME IInv, OpenLoop
  PROVE  IInv' /\ OnlyPatched(bitcode, bitcode')
<1>1. /\ src \in Seq(Char) /\ Len(src) \in Nat /\ pos \in 0 .. Len(src) - 1
      /\ bitcode \in Seq(Instruction) /\ stack \in Seq(Nat)
      /\ phase = "translate" /\ src[pos + 1] = "["
      /\ Len(stack) = Depth(src, pos)
  BY LenProperties DEF IInv, TypeOK, DepthInv, OpenLoop, Translating, AtEnd, Front1
<1> DEFINE x == Instr("X", 0, 0)
<1>2. x \in Instruction /\ x.op = "X"
  BY CellType, InstrType DEF Opcode
<1>3. /\ bitcode' = Append(bitcode, x) /\ stack' = Append(stack, Len(bitcode))
      /\ pos' = pos + 1 /\ src' = src /\ phase' = phase /\ open' = open
  BY DEF OpenLoop
<1> HIDE DEF x
<1>4. /\ bitcode' \in Seq(Instruction) /\ stack' \in Seq(Nat)
      /\ CodeInv(bitcode', stack') /\ OnlyPatched(bitcode, bitcode')
  BY <1>1, <1>2, <1>3, OpenKeeps DEF IInv
<1>5. Len(stack') = Depth(src, pos + 1)
  <2>1. Depth(src, pos + 1) = Depth(src, pos) + 1
    BY <1>1, DepthStep
  <2>2. Len(bitcode) \in Nat
    BY <1>1, LenProperties
  <2>3. Len(stack') = Len(stack) + 1
    BY <2>2, <1>1, <1>3, AppendProperties
  <2> QED
    BY <2>1, <2>3, <1>1
<1>6. TypeOK'
  BY <1>1, <1>3, <1>4 DEF IInv, TypeOK
<1>7. DepthInv'
  BY <1>1, <1>3, <1>5 DEF IInv, DepthInv, Depth, Balanced
<1>8. \A a \in DOMAIN bitcode' : bitcode'[a].op # "H"
  <2> SUFFICES ASSUME NEW a \in DOMAIN bitcode' PROVE bitcode'[a].op # "H"
    OBVIOUS
  <2>1. CASE a \in DOMAIN bitcode
    <3>1. bitcode'[a] = bitcode[a]
      BY <2>1, <1>1, <1>2, <1>3, AppendProperties, LenProperties
    <3> QED
      BY <3>1, <2>1, <1>1 DEF IInv, HaltInv
  <2>2. CASE a \notin DOMAIN bitcode
    <3>1. bitcode'[a] = x
      BY <2>2, <1>1, <1>2, <1>3, AppendProperties, LenProperties
    <3> QED
      BY <3>1, <1>2
  <2> QED
    BY <2>1, <2>2
<1>9. HaltInv'
  BY <1>1, <1>3, <1>8 DEF HaltInv
<1> QED
  BY <1>1, <1>3, <1>4, <1>6, <1>7, <1>9 DEF IInv, NeverUnmatched, ValidateInv

\* ']': a balanced text has a bracket open here, so the stack is not empty.
LEMMA CloseLoopKeeps ==
  ASSUME IInv, CloseLoop
  PROVE  IInv' /\ OnlyPatched(bitcode, bitcode')
<1>1. /\ src \in Seq(Char) /\ Len(src) \in Nat /\ pos \in 0 .. Len(src) - 1
      /\ bitcode \in Seq(Instruction) /\ stack \in Seq(Nat)
      /\ phase = "translate" /\ src[pos + 1] = "]"
      /\ Len(stack) = Depth(src, pos) /\ Balanced(src) /\ CodeInv(bitcode, stack)
      /\ src' = src /\ open' = open
  BY LenProperties DEF IInv, TypeOK, DepthInv, CloseLoop, Translating, AtEnd, Front1
<1>2. Depth(src, pos + 1) = Depth(src, pos) - 1
  <2>1. Depth(src, pos) \in Int
    BY <1>1, DepthType
  <2> QED
    BY <2>1, <1>1, DepthStep
<1>3. stack # <<>> /\ Len(stack) \in Nat \ {0}
  <2>1. Depth(src, pos + 1) >= 0
    BY <1>1 DEF Balanced
  <2>2. Len(stack) \in Nat /\ Len(stack) >= 1
    BY <2>1, <1>1, <1>2, LenProperties
  <2> QED
    BY <2>2
<1>4. /\ bitcode' = Patched(bitcode, stack) /\ stack' = Popped(stack)
      /\ pos' = pos + 1 /\ phase' = phase
  BY <1>3 DEF CloseLoop, Patched, Popped
<1>5. /\ bitcode' \in Seq(Instruction) /\ stack' \in Seq(Nat)
      /\ Len(stack') = Len(stack) - 1
      /\ CodeInv(bitcode', stack') /\ OnlyPatched(bitcode, bitcode')
      /\ \A a \in DOMAIN bitcode' :
           bitcode'[a].op = "H" => a \in DOMAIN bitcode /\ bitcode[a].op = "H"
  BY <1>1, <1>3, <1>4, CloseKeeps
<1>6. TypeOK'
  BY <1>1, <1>4, <1>5 DEF IInv, TypeOK
<1>7. DepthInv'
  BY <1>1, <1>2, <1>4, <1>5 DEF DepthInv, Depth, Balanced
<1>8. HaltInv'
  BY <1>1, <1>4, <1>5 DEF IInv, HaltInv
<1> QED
  BY <1>1, <1>4, <1>5, <1>6, <1>7, <1>8 DEF IInv, NeverUnmatched, ValidateInv

\* The end: a balanced text has left nothing on the stack, and H goes last.
LEMMA FinishKeeps ==
  ASSUME IInv, Finish
  PROVE  IInv' /\ OnlyPatched(bitcode, bitcode')
<1>1. /\ src \in Seq(Char) /\ Len(src) \in Nat /\ pos = Len(src)
      /\ bitcode \in Seq(Instruction) /\ stack \in Seq(Nat)
      /\ phase = "translate" /\ Len(stack) = Depth(src, Len(src)) /\ Balanced(src)
  BY LenProperties DEF IInv, TypeOK, DepthInv, Finish, AtEnd
<1>2. stack = <<>>
  BY <1>1, EmptySeq DEF Balanced
<1> DEFINE h == Instr("H", 0, 0)
           L == Len(bitcode)
<1>3. /\ src' = src /\ open' = open /\ pos' = pos /\ stack' = stack
      /\ bitcode' = Append(bitcode, h) /\ phase' = "done"
  BY <1>2 DEF Finish
<1>4. h \in Instruction /\ h.op = "H"
  BY CellType, InstrType DEF Opcode
<1> HIDE DEF h
<1>5. L \in Nat /\ DOMAIN bitcode = 1 .. L
  BY <1>1, LenProperties
<1>6. /\ bitcode' \in Seq(Instruction) /\ Len(bitcode') = L + 1
      /\ DOMAIN bitcode' = 1 .. L + 1
      /\ \A a \in 1 .. L : bitcode'[a] = bitcode[a]
      /\ bitcode'[L + 1] = h
  BY <1>1, <1>3, <1>4, <1>5, AppendProperties, LenProperties
<1>7. Extends(bitcode', bitcode)
  BY <1>4, <1>5, <1>6 DEF Extends
<1>8. JumpsMatched(bitcode') /\ WellNested(bitcode')
  BY <1>1, <1>6, <1>7, ExtensionKeepsJumps DEF IInv, CodeInv
<1>9. \A a \in 1 .. L : bitcode[a].op # "X" /\ bitcode[a].op # "H"
  BY <1>1, <1>2, <1>5 DEF IInv, CodeInv, Pending, HaltInv
<1>10. CodeInv(bitcode', stack')
  <2>1. stack' = <<>> /\ DOMAIN stack' = {}
    BY <1>2, <1>3
  <2>2. \A a \in 1 .. L + 1 : bitcode'[a].op # "X"
    BY <1>4, <1>5, <1>6, <1>9
  <2> QED
    BY <2>1, <2>2, <1>6, <1>8 DEF CodeInv, Pending, NonePendingInside
<1>11. HaltInv'
  BY <1>3, <1>4, <1>5, <1>6, <1>9 DEF HaltInv
<1>12. TypeOK'
  BY <1>1, <1>3, <1>6 DEF IInv, TypeOK, Phases, Resting
<1>13. DepthInv'
  BY <1>1, <1>2, <1>3 DEF DepthInv, Balanced, Depth
<1>14. OnlyPatched(bitcode, bitcode')
  BY <1>5, <1>6 DEF OnlyPatched
<1> QED
  BY <1>3, <1>10, <1>11, <1>12, <1>13, <1>14 DEF IInv, NeverUnmatched, ValidateInv

\* Every step keeps the invariant, and within a call only patches placeholders.
LEMMA NextKeeps ==
  ASSUME IInv, [Next]_vars
  PROVE  IInv' /\ (phase' # "validate" => OnlyPatched(bitcode, bitcode'))
<1>1. CASE \E s \in Sources : Begin(s)
  BY <1>1, BeginKeeps DEF Begin
<1>2. CASE ValidateChar
  BY <1>2, ValidateCharKeeps
<1>3. CASE ValidateEnd
  BY <1>3, ValidateEndKeeps
<1>4. CASE MulLoop
  BY <1>4, MulLoopKeeps
<1>5. CASE ScanLoop
  BY <1>5, ScanLoopKeeps
<1>6. CASE SetZeroLoop
  BY <1>6, SetZeroLoopKeeps
<1>7. CASE OpenLoop
  BY <1>7, OpenLoopKeeps
<1>8. CASE CloseLoop
  BY <1>8, CloseLoopKeeps
<1>9. CASE AddRun
  BY <1>9, AddRunKeeps
<1>10. CASE MoveRun
  BY <1>10, MoveRunKeeps
<1>11. CASE Input \/ Output
  BY <1>11, InOutKeeps
<1>12. CASE Skip
  BY <1>12, SkipKeeps
<1>13. CASE Finish
  BY <1>13, FinishKeeps
<1>14. CASE UNCHANGED vars
  BY <1>14 DEF vars, IInv, TypeOK, NeverUnmatched, ValidateInv, DepthInv, CodeInv, HaltInv,
     Pending, NonePendingInside, JumpsMatched, WellNested, Paired, Depth, Balanced,
     OnlyPatched
<1> QED
  BY <1>1, <1>2, <1>3, <1>4, <1>5, <1>6, <1>7, <1>8, <1>9, <1>10, <1>11, <1>12, <1>13, <1>14
     DEF Next, CallStep

-----------------------------------------------------------------------------
(***************************************************************************)
(* The theorems, for every cell size, memory size and set of sources.      *)
(***************************************************************************)

\* The invariant of translate holds in every reachable state.
THEOREM InvariantHolds == Spec => []IInv
<1>1. IInv /\ [Next]_vars => IInv'
  BY NextKeeps
<1> QED
  BY <1>1, InitInv, PTL DEF Spec

\* Every variable of translate keeps its type; no immediate exceeds memory_t.
THEOREM TypeCorrect == Spec => []TypeOK
<1>1. IInv => TypeOK
  BY DEF IInv
<1> QED
  BY <1>1, InvariantHolds, PTL

\* The throws of the second loop of translate are unreachable.
THEOREM SecondLoopNeverThrows == Spec => []NeverUnmatched
<1>1. IInv => NeverUnmatched
  BY DEF IInv
<1> QED
  BY <1>1, InvariantHolds, PTL

\* translate accepts the balanced sources and rejects the others.
THEOREM BracketsAreDecided == Spec => []AcceptsExactlyBalanced
<1>1. IInv => AcceptsExactlyBalanced
  BY DEF IInv, DepthInv, AcceptsExactlyBalanced
<1> QED
  BY <1>1, InvariantHolds, PTL

\* A program translate returns is complete and its loops are paired and nested.
THEOREM TranslationIsWellFormed == Spec => []DoneIsWellFormed
<1>1. IInv => DoneIsWellFormed
  <2> SUFFICES ASSUME IInv, phase = "done" PROVE WellFormed(bitcode)
    BY DEF DoneIsWellFormed
  <2>1. stack = <<>>
    BY DEF IInv, DepthInv
  <2>2. \A a \in DOMAIN bitcode : bitcode[a].op # "X"
    BY <2>1 DEF IInv, CodeInv, Pending
  <2> QED
    BY <2>2 DEF IInv, CodeInv, HaltInv, WellFormed
<1> QED
  BY <1>1, InvariantHolds, PTL

\* Emitted code is final: a step of a call changes no instruction but a
\* placeholder, and that one only into the JE of its loop.
THEOREM EmittedCodeIsFinal == Spec => OnlyPlaceholdersArePatched
<1>1. IInv /\ [Next]_vars
        => [phase' # "validate" => OnlyPatched(bitcode, bitcode')]_vars
  BY NextKeeps
<1> QED
  BY <1>1, InvariantHolds, PTL DEF Spec, OnlyPlaceholdersArePatched

-----------------------------------------------------------------------------
(***************************************************************************)
(* The operands of what is emitted.                                        *)
(***************************************************************************)

LEMMA ProperInstr ==
  ASSUME NEW op \in Opcode, NEW imm \in Cell, NEW off \in Int,
         ~HasImm(op) => imm = 0, ~HasOffset(op) => off = 0
  PROVE  Instr(op, imm, off) \in ProperInstruction
<1>1. Instr(op, imm, off) \in Instruction /\ Instr(op, imm, off).imm = imm
  BY InstrType DEF Instr
<1> QED
  BY <1>1, InstrType DEF ProperInstruction

LEMMA MulCodeProper ==
  ASSUME NEW body \in Seq(Char)
  PROVE  MulCode(body) \in Seq(ProperInstruction)
<1> DEFINE code == MulCode(body)
           C == Cardinality(PairEnds(body))
           mul(i)    == MulFactor(body, i)
           offset(i) == MulOffset(body, i)
           muls == [i \in 1 .. C |-> Instr("MUL", mul(i), offset(i))]
           s0 == <<Instr("S", 0, 0)>>
<1>1. C \in Nat
  <2>1. Len(body) \in Nat /\ PairEnds(body) \subseteq 2 .. Len(body) - 1
    BY LenProperties DEF PairEnds
  <2>2. IsFiniteSet(2 .. Len(body) - 1)
    BY <2>1, FS_Interval
  <2> QED
    BY <2>1, <2>2, FS_Subset, FS_CardinalityType
<1>2. \A i \in 1 .. C : mul(i) \in Cell /\ offset(i) \in Int
  BY NetType, CellType DEF MulFactor, MulOffset
<1>3. code = muls \o s0
  BY DEF MulCode
<1> HIDE DEF code, C, mul, offset
<1>4. \A i \in 1 .. C : muls[i] \in ProperInstruction
  BY <1>2, ProperInstr DEF Opcode, HasImm, HasOffset
<1>5. muls \in Seq(ProperInstruction)
  BY <1>1, <1>4
<1>6. s0 \in Seq(ProperInstruction)
  BY ProperInstr, CellType DEF Opcode, HasImm
<1> HIDE DEF muls, s0
<1> QED
  BY <1>3, <1>5, <1>6 DEF code

\* A step appends proper instructions, and puts one in place of another.
LEMMA StepKeepsProper ==
  ASSUME IInv, bitcode \in Seq(ProperInstruction), [Next]_vars
  PROVE  (bitcode \in Seq(ProperInstruction))'
<1>1. /\ src \in Seq(Char) /\ Len(src) \in Nat /\ pos \in 0 .. Len(src) /\ stack \in Seq(Nat)
      /\ bitcode \in Seq(Instruction)
  BY DEF IInv, TypeOK
<1>2. ASSUME NEW code \in Seq(ProperInstruction), NEW n, Emit(code, n)
      PROVE  bitcode' \in Seq(ProperInstruction)
  BY <1>2, ConcatProperties DEF Emit
<1>3. ASSUME NEW x \in ProperInstruction
      PROVE  <<x>> \in Seq(ProperInstruction) /\ Append(bitcode, x) \in Seq(ProperInstruction)
  OBVIOUS
<1>5. CASE \E s \in Sources : Begin(s)
  BY <1>5 DEF Begin
<1>6. CASE ValidateChar \/ ValidateEnd
  BY <1>6 DEF ValidateChar, ValidateEnd
<1>7. CASE MulLoop
  <2>1. PICK n \in Remaining : Emit(MulCode(Body(n)), n)
    BY <1>7 DEF MulLoop
  <2>2. Body(n) \in Seq(Char)
    BY BodyType DEF IInv, Remaining
  <2> QED
    BY <1>2, <2>1, <2>2, MulCodeProper
<1>8. CASE ScanLoop
  <2>1. PICK n \in Remaining : Emit(<<Instr("F", 0, Net(Body(n), ">", "<", 1 .. n))>>, n)
    BY <1>8 DEF ScanLoop
  <2>2. Net(Body(n), ">", "<", 1 .. n) \in Int
    <3>1. Body(n) \in Seq(Char)
      BY BodyType DEF IInv, Remaining
    <3> QED
      BY <3>1, NetType
  <2>3. Instr("F", 0, Net(Body(n), ">", "<", 1 .. n)) \in ProperInstruction
    BY <2>2, ProperInstr, CellType DEF Opcode, HasOffset
  <2> QED
    BY <1>2, <1>3, <2>1, <2>3
<1>9. CASE SetZeroLoop
  <2>1. PICK n \in Remaining : Emit(<<Instr("S", 0, 0)>>, n)
    BY <1>9 DEF SetZeroLoop
  <2>2. Instr("S", 0, 0) \in ProperInstruction
    BY ProperInstr, CellType DEF Opcode, HasImm
  <2> QED
    BY <1>2, <1>3, <2>1, <2>2
<1>10. CASE OpenLoop
  <2>1. Instr("X", 0, 0) \in ProperInstruction
    BY ProperInstr, CellType DEF Opcode
  <2> QED
    BY <1>3, <1>10, <2>1 DEF OpenLoop
<1>11. CASE CloseLoop /\ stack # <<>>
  <2> DEFINE last_pc == stack[Len(stack)]
             end == Len(bitcode)
             je == Instr("JE", 0, end - last_pc)
             jn == Instr("JN", 0, last_pc - end)
  <2>1. bitcode' = Append([bitcode EXCEPT ![last_pc + 1] = je], jn)
    BY <1>11 DEF CloseLoop
  <2>2. Len(stack) \in DOMAIN stack /\ last_pc \in Nat /\ end \in Nat
    BY <1>1, <1>11
  <2>3. last_pc < end
    BY <2>2 DEF IInv, CodeInv, Pending
  <2>4. je \in ProperInstruction /\ jn \in ProperInstruction
    BY <2>2, ProperInstr, CellType DEF Opcode, HasOffset
  <2> HIDE DEF je, jn, last_pc
  <2>5. last_pc + 1 \in 1 .. Len(bitcode)
    BY <2>2, <2>3
  <2>6. [bitcode EXCEPT ![last_pc + 1] = je] \in Seq(ProperInstruction)
    BY <2>4, <2>5, ExceptSeq
  <2> QED
    BY <2>1, <2>4, <2>6
<1>12. CASE CloseLoop /\ stack = <<>>
  BY <1>12 DEF CloseLoop
<1>13. CASE AddRun
  <2>1. PICK n \in Remaining :
          Emit(<<Instr("A", Net(src, "+", "-", pos + 1 .. pos + n) % CellMod, 0)>>, n)
    BY <1>13 DEF AddRun
  <2>2. Net(src, "+", "-", pos + 1 .. pos + n) % CellMod \in Cell
    BY <1>1, NetType, CellType
  <2>3. Instr("A", Net(src, "+", "-", pos + 1 .. pos + n) % CellMod, 0) \in ProperInstruction
    BY <2>2, ProperInstr DEF Opcode, HasImm
  <2> QED
    BY <1>2, <1>3, <2>1, <2>3
<1>14. CASE MoveRun
  <2>1. PICK n \in Remaining :
          Emit(<<Instr("M", 0, Net(src, ">", "<", pos + 1 .. pos + n))>>, n)
    BY <1>14 DEF MoveRun
  <2>2. Net(src, ">", "<", pos + 1 .. pos + n) \in Int
    BY <1>1, NetType
  <2>3. Instr("M", 0, Net(src, ">", "<", pos + 1 .. pos + n)) \in ProperInstruction
    BY <2>2, ProperInstr, CellType DEF Opcode, HasOffset
  <2> QED
    BY <1>2, <1>3, <2>1, <2>3
<1>15. CASE Input \/ Output
  <2>1. /\ Instr("IO", IO_IN, 0) \in ProperInstruction
        /\ Instr("IO", IO_OUT, 0) \in ProperInstruction
    BY ProperInstr, CellType DEF Opcode, HasImm, IO_IN, IO_OUT
  <2> QED
    BY <1>2, <1>3, <1>15, <2>1 DEF Input, Output
<1>16. CASE Skip
  <2>1. <<>> \in Seq(ProperInstruction)
    OBVIOUS
  <2> QED
    BY <1>2, <1>16, <2>1 DEF Skip
<1>17. CASE Finish
  <2>1. Instr("H", 0, 0) \in ProperInstruction
    BY ProperInstr, CellType DEF Opcode
  <2> QED
    BY <1>3, <1>17, <2>1 DEF Finish
<1>18. CASE UNCHANGED vars
  BY <1>18 DEF vars
<1> QED
  BY <1>5, <1>6, <1>7, <1>8, <1>9, <1>10, <1>11, <1>12, <1>13, <1>14, <1>15, <1>16, <1>17, <1>18
     DEF Next, CallStep

\* translate gives no instruction an operand that its opcode does not have: what
\* bit2bin and the outputs leave out of an instruction was nothing.
THEOREM OperandsAreTheOpcodes == Spec => [](bitcode \in Seq(ProperInstruction))
<1>1. Init => bitcode \in Seq(ProperInstruction)
  BY DEF Init
<1>2. IInv /\ bitcode \in Seq(ProperInstruction) /\ [Next]_vars
        => (bitcode \in Seq(ProperInstruction))'
  BY StepKeepsProper
<1> QED
  BY <1>1, <1>2, InvariantHolds, PTL DEF Spec

-----------------------------------------------------------------------------
(***************************************************************************)
(* The object.  A step of its machine may start behind a pc_ left over     *)
(* from another program.                                                   *)
(***************************************************************************)

LEMMA SameTypes ==
  M!Cell = Cell /\ M!Address = Address /\ M!Instruction = Instruction
<1>1. M!Cell = Cell /\ M!Address = Address /\ M!Opcode = Opcode
  BY DEF Cell, Address, Opcode, M!Cell, M!Address, M!Opcode
<1> QED
  BY <1>1 DEF Instruction, M!Instruction

\* No code, or a complete program.
Whole(code) == code = <<>> \/ WellFormed(code)

\* The instruction a step executes; both ways on from it stay in the program.
LEMMA ObjectAt ==
  ASSUME M!TypeOK, Whole(bitcode), pc < Len(bitcode)
  PROVE  /\ pc \in Nat /\ pc + 1 \in DOMAIN bitcode /\ M!At = bitcode[pc + 1]
         /\ M!At.op \in Opcode \ {"X"} /\ M!At.imm \in Cell /\ M!At.off \in Int
         /\ M!At.op # "H" => pc + 1 < Len(bitcode)
         /\ M!At.op \in {"JE", "JN"} =>
              pc + M!At.off + 1 \in Nat /\ pc + M!At.off + 1 < Len(bitcode)
<1> DEFINE i == pc + 1
           in == bitcode[i]
<1>1. bitcode \in Seq(Instruction) /\ pc \in Nat
  BY SameTypes DEF M!TypeOK
<1>2. Len(bitcode) \in Nat /\ DOMAIN bitcode = 1 .. Len(bitcode) /\ i \in DOMAIN bitcode
  BY <1>1
<1>3. WellFormed(bitcode)
  BY <1>2 DEF Whole
<1>4. in.op \in Opcode /\ in.imm \in Cell /\ in.off \in Int
  BY <1>1, <1>2, InstructionType
<1>5. in.op # "X" /\ (in.op # "H" => i # Len(bitcode))
  BY <1>2, <1>3 DEF WellFormed
<1>6. M!At = in
  BY DEF M!At
<1>7. in.op \in {"JE", "JN"} =>
        /\ i + in.off \in DOMAIN bitcode /\ bitcode[i + in.off].op \in {"JE", "JN"}
  BY <1>2, <1>3 DEF WellFormed, JumpsMatched, Paired
<1>8. in.op \in {"JE", "JN"} => i + in.off # Len(bitcode)
  BY <1>2, <1>3, <1>7, SMTT(30) DEF WellFormed
<1> DEFINE op == in.op
           off == in.off
           end == Len(bitcode)
<1>9. /\ i = pc + 1 /\ i \in 1 .. end /\ end \in Nat /\ off \in Int /\ op \in Opcode \ {"X"}
      /\ op # "H" => i # end
      /\ op \in {"JE", "JN"} => i + off \in 1 .. end /\ i + off # end
  BY <1>1, <1>2, <1>4, <1>5, <1>7, <1>8
<1>10. M!At.op = op /\ M!At.off = off /\ M!At.imm \in Cell /\ M!At = bitcode[pc + 1]
  BY <1>4, <1>6
<1> HIDE DEF i, in, op, off, end
<1>11. op # "H" => pc + 1 < end
  BY <1>1, <1>9
<1>12. op \in {"JE", "JN"} => pc + off + 1 \in Nat /\ pc + off + 1 < end
  BY <1>1, <1>9
<1>13. pc + 1 \in DOMAIN bitcode /\ end = Len(bitcode)
  BY <1>1, <1>2 DEF i, end
<1> QED
  BY <1>1, <1>9, <1>10, <1>11, <1>12, <1>13

\* The address a move or a multiplication computes is on the tape.
LEMMA ObjectOffset ==
  ASSUME NEW a \in Int, NEW off \in Int
  PROVE  M!WrapOffset(a, off, MemSize) \in Address
<1> DEFINE base == a % MemSize
           back == (-(off + 1) + 1) % MemSize
<1>1. MemSize \in Nat /\ MemSize > 0
  BY MemSizeAssumption
<1>2. base \in Int /\ back \in Int /\ off % MemSize \in Int
  BY <1>1
<1> HIDE DEF base, back
<1>3. /\ (base + (off % MemSize)) % MemSize \in Address
      /\ (base + MemSize - back) % MemSize \in Address
  BY <1>1, <1>2 DEF Address
<1>4. M!WrapOffset(a, off, MemSize)
        = IF off >= 0 THEN (base + (off % MemSize)) % MemSize
                      ELSE (base + MemSize - back) % MemSize
  BY <1>1 DEF M!WrapOffset, base, back
<1> QED
  BY <1>3, <1>4

\* What an instruction writes into the current cell or another one fits it.
LEMMA ObjectMemory ==
  ASSUME M!TypeOK, Whole(bitcode), M!A \/ M!S \/ M!MUL \/ M!IO
  PROVE  memory' \in [Address -> Cell] /\ input' \in Seq(Cell) /\ output' \in Seq(Cell)
<1>1. /\ ptr \in Address /\ memory \in [Address -> Cell] /\ input \in Seq(Cell)
      /\ <<>> \in Seq(Cell) /\ Address \subseteq Int /\ Cell \subseteq Int
  BY SameTypes DEF M!TypeOK, Address, Cell
<1>2. M!At.imm \in Cell /\ M!At.off \in Int /\ M!Current \in Cell
  <2>1. pc < Len(bitcode)
    BY DEF M!A, M!S, M!MUL, M!IO, M!Executes
  <2> QED
    BY <1>1, <2>1, ObjectAt DEF M!Current
<1>3. CASE M!A
  <2>1. memory' = [memory EXCEPT ![ptr] = (memory[ptr] + M!At.imm) % CellMod]
    BY <1>3 DEF M!A
  <2>2. memory[ptr] + M!At.imm \in Int
    <3>1. memory[ptr] \in Int /\ M!At.imm \in Int
      BY <1>1, <1>2
    <3> QED
      BY <3>1
  <2>3. (memory[ptr] + M!At.imm) % CellMod \in Cell
    BY <2>2, CellType
  <2> QED
    BY <1>1, <1>3, <2>1, <2>3 DEF M!A, M!NoIO
<1>4. CASE M!S
  BY <1>1, <1>2, <1>4 DEF M!S, M!NoIO
<1>5. CASE M!MUL
  <2> DEFINE t == M!WrapOffset(ptr, M!At.off, MemSize)
             by == M!Current * M!At.imm
  <2>1. t \in Address /\ by \in Int
    <3>1. \A x, y \in Int : x * y \in Int
      OBVIOUS
    <3> QED
      BY <1>1, <1>2, <3>1, ObjectOffset
  <2>2. memory' = [memory EXCEPT ![t] = (memory[t] + by) % CellMod]
    BY <1>5 DEF M!MUL
  <2> HIDE DEF t, by
  <2>3. memory[t] + by \in Int
    <3>1. memory[t] \in Int
      BY <1>1, <2>1
    <3> QED
      BY <2>1, <3>1
  <2>4. (memory[t] + by) % CellMod \in Cell
    BY <2>3, CellType
  <2> QED
    BY <1>1, <1>5, <2>1, <2>2, <2>4 DEF M!MUL, M!NoIO
<1>6. CASE M!IO
  <2>1. CASE M!At.imm = M!IO_IN
    <3>1. (IF input = <<>> THEN 0 ELSE Head(input)) \in Cell
      BY <1>1, CellType, HeadTailProperties
    <3>2. (IF input = <<>> THEN <<>> ELSE Tail(input)) \in Seq(Cell)
      BY <1>1, HeadTailProperties
    <3> QED
      BY <1>1, <1>6, <2>1, <3>1, <3>2 DEF M!IO
  <2>2. CASE M!At.imm # M!IO_IN
    <3>1. <<M!Current>> \in Seq(Cell)
      BY <1>2
    <3> QED
      BY <1>1, <1>6, <2>2, <3>1 DEF M!IO
  <2> QED
    BY <2>1, <2>2
<1> QED
  BY <1>3, <1>4, <1>5, <1>6

\* A step keeps the program and the types and does not throw; inside the
\* program it stays there, past the end nothing happens.
LEMMA ObjectStep ==
  ASSUME M!TypeOK, Whole(bitcode), M!Step
  PROVE  /\ M!TypeOK' /\ bitcode' = bitcode /\ status' # "threw"
         /\ pc < Len(bitcode) => pc' < Len(bitcode)
<1>1. /\ ptr \in Address /\ memory \in [Address -> Cell] /\ input \in Seq(Cell)
      /\ bitcode \in Seq(Instruction) /\ pc \in Nat
      /\ <<>> \in Seq(Cell) /\ Address \subseteq Int
  BY SameTypes DEF M!TypeOK, Address
<1>2. status = "running" /\ bitcode' = bitcode
  BY DEF M!Step, M!A, M!S, M!MUL, M!F, M!M, M!JE, M!JN, M!IO, M!Stop, M!Executes, M!Continue
<1>3. ASSUME ptr' \in Address, memory' \in [Address -> Cell], input' \in Seq(Cell),
             output' \in Seq(Cell), pc' \in Nat, status' \in {"running", "halted"}
      PROVE  M!TypeOK' /\ status' # "threw"
  BY <1>1, <1>2, <1>3, SameTypes DEF M!TypeOK
<1>4. CASE M!A \/ M!S \/ M!MUL \/ M!IO
  <2>1. /\ pc < Len(bitcode) /\ pc' = pc + 1 /\ status' = status /\ ptr' = ptr
        /\ M!At.op # "H"
    BY <1>4 DEF M!A, M!S, M!MUL, M!IO, M!Executes, M!Continue
  <2>2. memory' \in [Address -> Cell] /\ input' \in Seq(Cell) /\ output' \in Seq(Cell)
    BY <1>4, ObjectMemory
  <2> QED
    BY <1>1, <1>2, <1>3, <2>1, <2>2, ObjectAt
<1>5. CASE M!F \/ M!M \/ M!JE \/ M!JN
  <2>1. /\ pc < Len(bitcode) /\ M!At.op \notin {"H"} /\ status' = status
        /\ memory' = memory /\ input' = input /\ output' = <<>>
    BY <1>5 DEF M!F, M!M, M!JE, M!JN, M!Executes, M!Continue, M!NoIO
  <2>2. ptr' \in Address
    <3>1. M!WrapOffset(ptr, M!At.off, MemSize) \in Address
      BY <1>1, <2>1, ObjectAt, ObjectOffset
    <3> QED
      BY <1>1, <1>5, <3>1 DEF M!F, M!M, M!JE, M!JN
  <2>3. pc' \in {pc, pc + 1} \/ (M!At.op \in {"JE", "JN"} /\ pc' = pc + M!At.off + 1)
    BY <1>5 DEF M!F, M!M, M!JE, M!JN, M!Executes, M!Continue
  <2>4. pc' \in Nat /\ pc' < Len(bitcode)
    BY <1>1, <2>1, <2>3, ObjectAt
  <2> QED
    BY <1>1, <1>2, <1>3, <2>1, <2>2, <2>4
<1>6. CASE M!Stop
  <2>1. /\ UNCHANGED <<pc, ptr, memory, input, bitcode>> /\ output' = <<>>
        /\ status' = IF pc < Len(bitcode) /\ M!At.op = "X" THEN "threw" ELSE "halted"
    BY <1>6 DEF M!Stop, M!NoIO
  <2>2. status' = "halted"
    BY <2>1, ObjectAt
  <2> QED
    BY <1>1, <1>3, <2>1, <2>2
<1> QED
  BY <1>4, <1>5, <1>6 DEF M!Step

-----------------------------------------------------------------------------
(***************************************************************************)
(* The invariant of the object.                                            *)
(***************************************************************************)

ObjectInv ==
  /\ TypeOK
  /\ MachineTypeOK
  /\ NoHalfPrograms
  /\ RunStaysInProgram
  /\ call = "translate" => IInv /\ phase \notin Resting
  /\ call # "translate" => phase \in Resting

LEMMA InitObject == BrainfunkInit => ObjectInv
<1> SUFFICES ASSUME BrainfunkInit PROVE ObjectInv
  OBVIOUS
<1>1. IInv
  BY InitInv DEF BrainfunkInit
<1>2. M!BlankMemory \in [Address -> Cell] /\ 0 \in Address
  BY SameTypes, MemSizeAssumption, CellModAssumption DEF M!BlankMemory, Address, Cell
<1>3. <<>> \in Seq(Cell)
  OBVIOUS
<1>4. M!TypeOK
  BY <1>1, <1>2, <1>3, SameTypes DEF M!TypeOK, BrainfunkInit, IInv, TypeOK
<1> QED
  BY <1>1, <1>4 DEF ObjectInv, IInv, MachineTypeOK, NoHalfPrograms, RunStaysInProgram,
     BrainfunkInit, Init, Resting

\* A reset leaves a blank tape.
LEMMA ResetKeeps ==
  ASSUME M!TypeOK, M!ResetState, bitcode' \in Seq(Instruction),
         input' \in Seq(Cell), output' \in Seq(Cell), status' \in {"idle", "running", "halted"}
  PROVE  M!TypeOK'
<1>1. M!BlankMemory \in [Address -> Cell] /\ 0 \in Address
  BY SameTypes, MemSizeAssumption, CellModAssumption DEF M!BlankMemory, Address, Cell
<1> QED
  BY <1>1, SameTypes DEF M!TypeOK, M!ResetState

\* A call of translate that is over has left no code or a complete program.
LEMMA OverIsWhole ==
  ASSUME IInv', phase' \in Resting, phase' # "idle"
  PROVE  Whole(bitcode')
<1>1. CASE phase' = "done"
  <2>1. stack' = <<>>
    BY <1>1 DEF IInv, DepthInv
  <2>2. \A a \in DOMAIN bitcode' : bitcode'[a].op # "X"
    BY <2>1 DEF IInv, CodeInv, Pending
  <2> QED
    BY <1>1, <2>2 DEF IInv, CodeInv, HaltInv, WellFormed, Whole
<1>2. CASE phase' # "done"
  <2>1. bitcode' = <<>>
    BY <1>2 DEF IInv, NeverUnmatched, DepthInv, Resting
  <2> QED
    BY <2>1 DEF Whole
<1> QED
  BY <1>1, <1>2

\* No step of a call goes back to "idle".
LEMMA NeverIdle ==
  ASSUME CallStep
  PROVE  phase' # "idle"
  BY DEF CallStep, ValidateChar, ValidateEnd, MulLoop, ScanLoop, SetZeroLoop, OpenLoop,
     CloseLoop, AddRun, MoveRun, Output, Input, Skip, Finish, Translating, Emit

LEMMA CallTranslateKeeps ==
  ASSUME ObjectInv, NEW s \in Sources, CallTranslate(s)
  PROVE  ObjectInv'
<1>1. IInv'
  BY BeginKeeps DEF CallTranslate
<1>2. /\ call' = "translate" /\ phase' = "validate"
      /\ UNCHANGED <<pc, ptr, memory, input, output, status>>
  BY DEF CallTranslate, Begin
<1>3. M!TypeOK'
  BY <1>1, <1>2, SameTypes DEF ObjectInv, MachineTypeOK, M!TypeOK, IInv, TypeOK
<1> QED
  BY <1>1, <1>2, <1>3 DEF ObjectInv, IInv, MachineTypeOK, NoHalfPrograms, RunStaysInProgram,
     Resting

LEMMA TranslateStepKeeps ==
  ASSUME ObjectInv, TranslateStep
  PROVE  ObjectInv'
<1>1. IInv'
  BY NextKeeps DEF TranslateStep, ObjectInv, Next
<1>2. /\ call = "translate" /\ phase' # "idle"
      /\ call' = IF phase' \in Resting THEN "none" ELSE "translate"
      /\ UNCHANGED <<pc, ptr, memory, input, output, status>>
  BY NeverIdle DEF TranslateStep
<1>3. M!TypeOK'
  BY <1>1, <1>2, SameTypes DEF ObjectInv, MachineTypeOK, M!TypeOK, IInv, TypeOK
<1>4. phase' \in Resting => Whole(bitcode')
  BY <1>1, <1>2, OverIsWhole
<1> QED
  BY <1>1, <1>2, <1>3, <1>4
  DEF ObjectInv, IInv, MachineTypeOK, NoHalfPrograms, RunStaysInProgram, Whole

\* Operations other than translate leave its variables alone.
LEMMA CallerKeeps ==
  ASSUME ObjectInv, call # "translate", call' # "translate",
         UNCHANGED <<src, phase, pos, open, stack>>,
         bitcode' = bitcode \/ bitcode' = <<>>,
         MachineTypeOK', status' # "threw", RunStaysInProgram'
  PROVE  ObjectInv'
<1>1. bitcode' \in Seq(Instruction)
  <2>1. <<>> \in Seq(Instruction)
    OBVIOUS
  <2> QED
    BY <2>1 DEF ObjectInv, TypeOK
<1>2. TypeOK'
  BY <1>1 DEF ObjectInv, TypeOK
<1>3. bitcode' = <<>> \/ WellFormed(bitcode)'
  BY DEF ObjectInv, NoHalfPrograms, WellFormed, JumpsMatched, WellNested, Paired
<1> QED
  BY <1>2, <1>3 DEF ObjectInv, NoHalfPrograms

\* A run starts at the first instruction, whatever ran before it.
LEMMA CallRunKeeps ==
  ASSUME ObjectInv, CallRun
  PROVE  ObjectInv'
<1>1. /\ call = "none" /\ call' = "run" /\ status' = "running" /\ M!ResetState
      /\ input' \in Inputs /\ output' = <<>>
      /\ UNCHANGED <<src, phase, pos, open, bitcode, stack>>
  BY DEF CallRun, vars
<1>2. input' \in Seq(Cell) /\ output' \in Seq(Cell) /\ bitcode' \in Seq(Instruction)
  BY <1>1, InputsAssumption DEF ObjectInv, TypeOK
<1>3. MachineTypeOK'
  BY <1>1, <1>2, ResetKeeps DEF ObjectInv, MachineTypeOK
<1>4. RunStaysInProgram'
  BY <1>1, <1>2, EmptySeq, LenProperties DEF RunStaysInProgram, M!ResetState
<1> QED
  BY <1>1, <1>3, <1>4, CallerKeeps

LEMMA CallOneStepKeeps ==
  ASSUME ObjectInv, CallOneStep
  PROVE  ObjectInv'
<1>1. /\ call = "none" /\ call' = "step" /\ status' = "running"
      /\ input' \in Inputs /\ output' = <<>>
      /\ UNCHANGED <<src, phase, pos, open, bitcode, stack, pc, ptr, memory>>
  BY DEF CallOneStep, vars
<1>2. input' \in Seq(Cell) /\ output' \in Seq(Cell)
  BY <1>1, InputsAssumption
<1>3. MachineTypeOK'
  BY <1>1, <1>2, SameTypes DEF ObjectInv, MachineTypeOK, M!TypeOK
<1>4. RunStaysInProgram'
  BY <1>1 DEF RunStaysInProgram
<1> QED
  BY <1>1, <1>3, <1>4, CallerKeeps

LEMMA MachineStepKeeps ==
  ASSUME ObjectInv, RunStep \/ OneStep
  PROVE  ObjectInv'
<1>1. /\ call \in {"run", "step"} /\ call' \in {call, "none"} /\ M!Step
      /\ UNCHANGED <<src, phase, pos, open, stack>>
  BY DEF RunStep, OneStep
<1>2. Whole(bitcode) /\ M!TypeOK
  BY <1>1 DEF ObjectInv, NoHalfPrograms, MachineTypeOK, Whole
<1>3. /\ M!TypeOK' /\ bitcode' = bitcode /\ status' # "threw"
      /\ pc < Len(bitcode) => pc' < Len(bitcode)
  BY <1>1, <1>2, ObjectStep
<1>4. MachineTypeOK'
  BY <1>1, <1>3 DEF ObjectInv, MachineTypeOK
<1>5. RunStaysInProgram'
  BY <1>1, <1>3 DEF ObjectInv, RunStaysInProgram
<1> QED
  BY <1>1, <1>3, <1>4, <1>5, CallerKeeps

LEMMA ResetAndClearKeep ==
  ASSUME ObjectInv, CallResetState \/ Clear
  PROVE  ObjectInv'
<1>1. /\ call = "none" /\ call' = "none" /\ M!ResetState
      /\ bitcode' = bitcode \/ bitcode' = <<>>
      /\ UNCHANGED <<src, phase, pos, open, stack, input, output, status>>
  BY DEF CallResetState, Clear, vars
<1>2. /\ input' \in Seq(Cell) /\ output' \in Seq(Cell) /\ bitcode' \in Seq(Instruction)
      /\ status' \in {"idle", "running", "halted"}
  <2>1. M!TypeOK /\ status # "threw"
    BY DEF ObjectInv, MachineTypeOK, NoHalfPrograms
  <2>2. input \in Seq(Cell) /\ output \in Seq(Cell) /\ bitcode \in Seq(Instruction)
        /\ status \in {"idle", "running", "halted"}
    BY <2>1, SameTypes DEF M!TypeOK
  <2>3. <<>> \in Seq(Instruction)
    OBVIOUS
  <2> QED
    BY <1>1, <2>2, <2>3
<1>3. MachineTypeOK'
  BY <1>1, <1>2, ResetKeeps DEF ObjectInv, MachineTypeOK
<1>4. RunStaysInProgram'
  BY <1>1 DEF RunStaysInProgram
<1> QED
  BY <1>1, <1>2, <1>3, <1>4, CallerKeeps

LEMMA NextKeepsObject ==
  ASSUME ObjectInv, [BrainfunkNext]_bvars
  PROVE  ObjectInv'
<1>1. CASE \E s \in Sources : CallTranslate(s)
  BY <1>1, CallTranslateKeeps
<1>2. CASE TranslateStep
  BY <1>2, TranslateStepKeeps
<1>3. CASE CallRun
  BY <1>3, CallRunKeeps
<1>4. CASE CallOneStep
  BY <1>4, CallOneStepKeeps
<1>5. CASE RunStep \/ OneStep
  BY <1>5, MachineStepKeeps
<1>6. CASE CallResetState \/ Clear
  BY <1>6, ResetAndClearKeep
<1>7. CASE UNCHANGED bvars
  <2>1. UNCHANGED <<src, phase, pos, open, bitcode, stack>>
        /\ UNCHANGED <<call, pc, ptr, memory, input, output, status>>
    BY <1>7 DEF bvars, vars
  <2>2. IInv => IInv'
    BY <2>1, NextKeeps DEF vars
  <2> QED
    BY <2>1, <2>2 DEF ObjectInv, TypeOK, MachineTypeOK, M!TypeOK, NoHalfPrograms,
       RunStaysInProgram, WellFormed, JumpsMatched, WellNested, Paired
<1> QED
  BY <1>1, <1>2, <1>3, <1>4, <1>5, <1>6, <1>7 DEF BrainfunkNext

-----------------------------------------------------------------------------
(***************************************************************************)
(* The theorems, for every cell and memory size and every source.          *)
(***************************************************************************)

\* The invariant holds whatever the caller does.
THEOREM ObjectInvariant == BrainfunkSpec => []ObjectInv
<1>1. ObjectInv /\ [BrainfunkNext]_bvars => ObjectInv'
  BY NextKeepsObject
<1> QED
  BY <1>1, InitObject, PTL DEF BrainfunkSpec

\* ptr_ stays on the tape, a cell in memory_t and pc_ at or above zero in any
\* order of translate, run, step, reset_state and clear.
THEOREM ObjectTypeCorrect == BrainfunkSpec => []MachineTypeOK
<1>1. ObjectInv => MachineTypeOK
  BY DEF ObjectInv
<1> QED
  BY <1>1, ObjectInvariant, PTL

\* Between two operations bitcode_ is empty or complete, even behind a
\* translate that threw, and execute never meets a placeholder.
THEOREM ObjectHoldsNoHalfPrograms == BrainfunkSpec => []NoHalfPrograms
<1>1. ObjectInv => NoHalfPrograms
  BY DEF ObjectInv
<1> QED
  BY <1>1, ObjectInvariant, PTL

\* A run never leaves its program, wherever an earlier run or step left pc_.
THEOREM RunsStayInProgram == BrainfunkSpec => []RunStaysInProgram
<1>1. ObjectInv => RunStaysInProgram
  BY DEF ObjectInv
<1> QED
  BY <1>1, ObjectInvariant, PTL
=============================================================================
