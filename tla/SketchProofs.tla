---------------------------- MODULE SketchProofs ----------------------------
(***************************************************************************)
(* Proofs about the Arduino interpreter.  It checks no access: for a code  *)
(* that suits it, what is inductive is that the used slots of its stack    *)
(* are the places of the loops around pc, each open since it was passed.   *)
(***************************************************************************)
EXTENDS Sketch, Lemmas, SequenceTheorems

Cell == 0 .. CellMod - 1

\* A slot holds the characters before its '['.
LoopsInv ==
  /\ stack_ptr = Depth(code, pc)
  /\ \A i \in 1 .. stack_ptr :
       OpenAt(code, stack[i] + 1, pc) /\ Depth(code, stack[i] + 1) = i

SetupInv ==
  mode = "setup" =>
    /\ pc = 0 /\ ptr = 0 /\ memory = [a \in 0 .. MemSize - 1 |-> 0]
    /\ output = <<>>

\* The inductive invariant.
SketchInv ==
  /\ NothingUndefined /\ SetupInv
  /\ code \in Codes /\ coming \in Seq(Cell) /\ rx \in Seq(Cell) /\ output \in Seq(Cell)
  /\ Suits(code) => pc <= Len(code) /\ LoopsInv

-----------------------------------------------------------------------------
(***************************************************************************)
(* What the operators of the module compute.                               *)
(***************************************************************************)

LEMMA Sizes ==
  /\ CellMod \in Nat \ {0} /\ MemSize \in Nat \ {0} /\ WordMod \in Nat \ {0}
  /\ StackSize \in Nat /\ 1 <= StackSize /\ StackSize < WordMod
  /\ CR \in Cell /\ LF \in Cell /\ 0 \in Cell
  /\ \A x \in Int : x % CellMod \in Cell
  /\ \A x \in Int : x % WordMod \in 0 .. WordMod - 1
  /\ \A x \in Int : (x % WordMod) % MemSize \in 0 .. MemSize - 1
  /\ \A x \in Int : (x % WordMod) % MemSize = x % MemSize
  /\ \A x \in 0 .. WordMod - 1 : x % WordMod = x
<1>1. /\ CellMod \in Nat \ {0} /\ MemSize \in Nat \ {0} /\ WordMod \in Nat \ {0}
      /\ StackSize \in Nat /\ 1 <= StackSize /\ StackSize < WordMod
      /\ CR \in Cell /\ LF \in Cell /\ 0 \in Cell /\ WordMod % MemSize = 0
  BY CellModAssumption, MemSizeAssumption, StackSizeAssumption DEF Cell
<1>2. \A x \in Int : x % CellMod \in Cell
  BY <1>1, DivMod DEF Cell
<1>3. \A x \in Int : x % WordMod \in 0 .. WordMod - 1 /\ x % WordMod \in Int
  BY <1>1, DivMod
<1>4. \A x \in Int : (x % WordMod) % MemSize = x % MemSize
  BY <1>1, ModMod
<1>5. \A x \in Int : x % MemSize \in 0 .. MemSize - 1
  BY <1>1, DivMod
<1>6. ASSUME NEW x \in 0 .. WordMod - 1
      PROVE  x % WordMod = x
  <2>1. x \in Int /\ 0 \in Int /\ x = WordMod * 0 + x
    BY <1>1
  <2> QED
    BY <1>1, <2>1, ModUnique
<1> QED
  BY <1>1, <1>2, <1>3, <1>4, <1>5, <1>6

\* exit_loop stops inside the code or at its '\0', whatever the code is.
LEMMA ExitLoopType ==
  ASSUME NEW p \in 0 .. Len(code) - 1, code \in Seq(Char), code[p + 1] = "["
  PROVE  ExitLoop(p) \in p .. Len(code)
<1> DEFINE d == Depth(code, p)
           S == {q \in p .. Len(code) : q = Len(code) \/ Depth(code, q + 1) <= d}
<1>1. Len(code) \in Nat /\ p \in Nat /\ p < Len(code)
  OBVIOUS
<1>2. /\ d \in Int
      /\ \A q \in p .. Len(code) - 1 :
           /\ Depth(code, q) \in Int /\ Depth(code, q + 1) \in Int
           /\ Depth(code, q + 1) >= Depth(code, q) - 1
           /\ code[q + 1] = "[" => Depth(code, q + 1) = Depth(code, q) + 1
  <2>1. d \in Int
    BY DepthType
  <2>2. ASSUME NEW q \in p .. Len(code) - 1
        PROVE  /\ Depth(code, q) \in Int /\ Depth(code, q + 1) \in Int
               /\ Depth(code, q + 1) >= Depth(code, q) - 1
               /\ code[q + 1] = "[" => Depth(code, q + 1) = Depth(code, q) + 1
    <3> DEFINE k == q + 1
    <3>1. k \in 1 .. Len(code) /\ k - 1 = q
      BY <1>1
    <3> HIDE DEF k
    <3>2. /\ Depth(code, k - 1) \in Int /\ Depth(code, k) \in Int
          /\ code[k] = "[" => Depth(code, k) = Depth(code, k - 1) + 1
          /\ code[k] = "]" => Depth(code, k) = Depth(code, k - 1) - 1
          /\ code[k] \notin {"[", "]"} => Depth(code, k) = Depth(code, k - 1)
      BY <3>1, DepthAround
    <3>3. Depth(code, k) >= Depth(code, q) - 1
      BY <3>1, <3>2
    <3> QED
      BY <3>1, <3>2, <3>3 DEF k
  <2> QED
    BY <2>1, <2>2
<1>3. PICK q \in S : \A r \in S : q <= r
  <2>1. S \in SUBSET Nat /\ Len(code) \in S
    BY <1>1
  <2> HIDE DEF S
  <2> QED
    BY <2>1, LeastExists
<1>4. q \in p .. Len(code) /\ (q = Len(code) \/ Depth(code, q + 1) <= d)
  OBVIOUS
<1>5. \A r \in p .. q - 1 : Depth(code, r + 1) > d
  <2> SUFFICES ASSUME NEW r \in p .. q - 1 PROVE Depth(code, r + 1) > d
    OBVIOUS
  <2>1. r \in p .. Len(code) - 1 /\ ~(q <= r)
    BY <1>1, <1>4
  <2>2. r \notin S
    BY <1>3, <2>1
  <2> HIDE DEF d
  <2> QED
    BY <1>2, <2>1, <2>2
<1> HIDE DEF S
<1>6. q # Len(code) => Depth(code, q + 1) = d
  <2> SUFFICES ASSUME q # Len(code) PROVE Depth(code, q + 1) = d
    OBVIOUS
  <2>1. Depth(code, p + 1) = d + 1
    BY <1>1, <1>2 DEF d
  <2> HIDE DEF d
  <2>2. q \in p .. Len(code) - 1 /\ Depth(code, q + 1) <= d
    BY <1>1, <1>4
  <2>3. q # p
    BY <1>2, <2>1, <2>2
  <2> DEFINE r == q - 1
  <2>4. r \in p .. q - 1 /\ r + 1 = q
    BY <1>1, <2>2, <2>3
  <2> HIDE DEF r
  <2>5. Depth(code, q) > d
    BY <1>5, <2>4
  <2> QED
    BY <1>2, <2>2, <2>5
<1>7. \E s \in p .. Len(code) :
        /\ s = Len(code) \/ Depth(code, s + 1) = Depth(code, p)
        /\ \A r \in p .. s - 1 : Depth(code, r + 1) > Depth(code, p)
  BY <1>4, <1>5, <1>6 DEF d
<1> QED
  BY <1>7 DEF ExitLoop

\* In a code with matched brackets it stops at the partner.
LEMMA ExitLoopIsPartner ==
  ASSUME code \in Seq(Char), NEW p \in 0 .. Len(code) - 1,
         NEW m \in 1 .. Len(code), Partners(code, p + 1, m)
  PROVE  ExitLoop(p) = m - 1
<1>1. /\ p \in Int /\ m \in Int /\ Len(code) \in Nat /\ p + 1 < m
      /\ Depth(code, m) = Depth(code, p)
      /\ \A k \in p + 1 .. m - 1 : Depth(code, k) > Depth(code, m)
  <2>1. (p + 1) - 1 = p
    OBVIOUS
  <2> QED
    BY <2>1 DEF Partners
<1>2. Depth(code, p) \in Int
  BY DepthType
<1> DEFINE Ends(q) == q = Len(code) \/ Depth(code, q + 1) = Depth(code, p)
           Open(q) == \A r \in p .. q - 1 : Depth(code, r + 1) > Depth(code, p)
           n == m - 1
<1>3. n \in p .. Len(code) - 1 /\ n + 1 = m
  BY <1>1
<1>4. Ends(n) /\ Open(n)
  <2>1. \A r \in p .. n - 1 : r + 1 \in p + 1 .. m - 1
    BY <1>1
  <2> QED
    BY <1>1, <1>3, <2>1
<1> HIDE DEF n
<1>5. ASSUME NEW q \in p .. Len(code), Ends(q), Open(q)
      PROVE  q = n
  <2>1. CASE q < n
    <3>1. q \in p .. n - 1 /\ q # Len(code)
      BY <1>1, <1>3, <2>1
    <3>2. Depth(code, q + 1) > Depth(code, p)
      BY <1>4, <3>1
    <3>3. Depth(code, q + 1) = Depth(code, p)
      BY <1>5, <3>1
    <3> QED
      BY <1>2, <3>2, <3>3
  <2>2. CASE n < q
    <3>1. n \in p .. q - 1
      BY <1>1, <1>3, <2>2
    <3>2. Depth(code, n + 1) > Depth(code, p)
      BY <1>5, <3>1
    <3> QED
      BY <1>1, <1>2, <1>3, <3>2
  <2> QED
    BY <1>1, <1>3, <2>1, <2>2
<1>6. n \in p .. Len(code)
  BY <1>1, <1>3
<1>7. ExitLoop(p) = CHOOSE q \in p .. Len(code) : Ends(q) /\ Open(q)
  BY DEF ExitLoop
<1> HIDE DEF Ends, Open
<1>8. (CHOOSE q \in p .. Len(code) : Ends(q) /\ Open(q)) = n
  BY <1>4, <1>5, <1>6
<1> QED
  BY <1>7, <1>8 DEF n

-----------------------------------------------------------------------------
(***************************************************************************)
(* The invariant.                                                          *)
(***************************************************************************)

LEMMA InitSketchInv ==
  ASSUME Init
  PROVE  SketchInv
<1>1. /\ code \in Codes /\ code \in Seq(Char) /\ Len(code) \in Nat
      /\ coming \in Seq(Cell) /\ rx = <<>> /\ output = <<>> /\ pc = 0 /\ stack_ptr = 0
      /\ <<>> \in Seq(Cell)
  BY CodesAssumption, InputsAssumption DEF Init, Cell
<1>2. TypeOK
  BY <1>1, Sizes DEF Init, TypeOK, Cell
<1>3. Depth(code, 0) = 0
  BY <1>1, DepthType
<1> QED
  BY <1>1, <1>2, <1>3 DEF Init, SketchInv, NothingUndefined, SetupInv, LoopsInv

\* What the invariant says of a running sketch at a character.
LEMMA AtChar ==
  ASSUME SketchInv, NEW ch, Reads(ch)
  PROVE  /\ code \in Seq(Char) /\ Len(code) \in Nat /\ mode = "running"
         /\ pc \in 0 .. Len(code) - 1 /\ pc + 1 \in 1 .. Len(code) /\ code[pc + 1] = ch
         /\ stack_ptr \in 0 .. WordMod - 1
         /\ stack \in [0 .. StackSize - 1 -> 0 .. Len(code)]
         /\ ptr \in 0 .. MemSize - 1 /\ memory \in [0 .. MemSize - 1 -> Cell]
         /\ memory[ptr] \in Cell
         /\ coming \in Seq(Cell) /\ rx \in Seq(Cell)
<1>1. /\ code \in Seq(Char) /\ mode = "running" /\ pc \in 0 .. Len(code) + 1
      /\ stack_ptr \in 0 .. WordMod - 1
      /\ stack \in [0 .. StackSize - 1 -> 0 .. Len(code)]
      /\ ptr \in 0 .. MemSize - 1 /\ memory \in [0 .. MemSize - 1 -> Cell]
      /\ coming \in Seq(Cell) /\ rx \in Seq(Cell) /\ pc < Len(code) /\ code[pc + 1] = ch
  BY CodesAssumption DEF SketchInv, NothingUndefined, TypeOK, Reads, Cell
<1>2. Len(code) \in Nat
  BY <1>1
<1>3. pc \in 0 .. Len(code) - 1 /\ pc + 1 \in 1 .. Len(code)
  BY <1>1, <1>2
<1>4. memory[ptr] \in Cell
  BY <1>1
<1> QED
  BY <1>1, <1>2, <1>3, <1>4

\* And of one whose code suits it.
LEMMA Suited ==
  ASSUME SketchInv, Suits(code)
  PROVE  /\ code \in Seq(Char) /\ Len(code) \in Nat /\ Balanced(code) /\ pc \in 0 .. Len(code)
         /\ \A k \in 1 .. Len(code) : Depth(code, k) \in Nat /\ Depth(code, k) < StackSize
         /\ \A k \in 1 .. Len(code) : code[k] \in InstructionChar
         /\ stack_ptr = Depth(code, pc) /\ stack_ptr \in Nat /\ stack_ptr < StackSize
         /\ \A i \in 1 .. stack_ptr :
              /\ stack[i] \in 0 .. Len(code)
              /\ OpenAt(code, stack[i] + 1, pc) /\ Depth(code, stack[i] + 1) = i
<1>1. /\ code \in Seq(Char) /\ Len(code) \in Nat /\ Balanced(code) /\ pc \in 0 .. Len(code)
      /\ \A k \in 1 .. Len(code) : Depth(code, k) < StackSize
      /\ \A k \in 1 .. Len(code) : code[k] \in InstructionChar
      /\ stack_ptr = Depth(code, pc) /\ stack_ptr \in 0 .. WordMod - 1
      /\ stack \in [0 .. StackSize - 1 -> 0 .. Len(code)]
  <2>1. code \in Seq(Char) /\ code \in Seq(InstructionChar) /\ DOMAIN code = 1 .. Len(code)
    BY CodesAssumption DEF SketchInv, Suits
  <2>2. \A k \in 1 .. Len(code) : code[k] \in InstructionChar
    BY <2>1
  <2>3. TypeOK /\ pc <= Len(code) /\ LoopsInv
    BY DEF SketchInv, NothingUndefined
  <2>4. Balanced(code) /\ \A k \in 1 .. Len(code) : Depth(code, k) < StackSize
    BY <2>1 DEF Suits
  <2>5. Len(code) \in Nat
    BY <2>1
  <2>6. pc \in 0 .. Len(code) + 1
    BY <2>3 DEF TypeOK
  <2>7. pc \in 0 .. Len(code)
    BY <2>3, <2>5, <2>6
  <2> QED
    BY <2>1, <2>2, <2>3, <2>4, <2>5, <2>7 DEF TypeOK, LoopsInv
<1>2. \A k \in 0 .. Len(code) : Depth(code, k) \in Nat
  <2>1. \A k \in 0 .. Len(code) : Depth(code, k) \in Int /\ Depth(code, k) >= 0
    BY <1>1, DepthType DEF Balanced
  <2> QED
    BY <2>1
<1>3. stack_ptr < StackSize
  <2>1. CASE pc = 0
    <3>1. stack_ptr = 0
      BY <1>1, <2>1, DepthType
    <3> QED
      BY <3>1, Sizes
  <2>2. CASE pc # 0
    <3>1. pc \in 1 .. Len(code)
      BY <1>1, <2>2
    <3> QED
      BY <1>1, <3>1
  <2> QED
    BY <2>1, <2>2
<1>4. \A i \in 1 .. stack_ptr :
        /\ stack[i] \in 0 .. Len(code)
        /\ OpenAt(code, stack[i] + 1, pc) /\ Depth(code, stack[i] + 1) = i
  <2>1. \A i \in 1 .. stack_ptr : i \in 0 .. StackSize - 1
    BY <1>1, <1>3, Sizes
  <2> QED
    BY <1>1, <2>1 DEF SketchInv, LoopsInv
<1>5. \A k \in 1 .. Len(code) : Depth(code, k) \in Nat
  BY <1>1, <1>2
<1> QED
  BY <1>1, <1>2, <1>3, <1>4, <1>5

\* What a step of interprete keeps, but for the places.
StepTyped ==
  /\ code' = code /\ mode' \in {"running", "undefined"}
  /\ pc' \in 0 .. Len(code) + 1
  /\ stack_ptr' \in 0 .. WordMod - 1
  /\ stack' \in [0 .. StackSize - 1 -> 0 .. Len(code)]
  /\ ptr' \in 0 .. MemSize - 1
  /\ memory' \in [0 .. MemSize - 1 -> Cell]
  /\ coming' \in Seq(Cell) /\ rx' \in Seq(Cell) /\ output' \in Seq(Cell)

LEMMA TypedKeeps ==
  ASSUME SketchInv, StepTyped,
         Suits(code) => mode' # "undefined" /\ pc' <= Len(code) /\ LoopsInv'
  PROVE  SketchInv'
<1>1. NothingUndefined' /\ SetupInv'
  BY DEF StepTyped, NothingUndefined, TypeOK, SetupInv, Cell
<1>2. code' \in Codes
  BY DEF SketchInv, StepTyped
<1>3. Suits(code)' <=> Suits(code)
  BY DEF StepTyped, Suits
<1> QED
  BY <1>1, <1>2, <1>3 DEF SketchInv, StepTyped

\* A character that is no bracket leaves the same loops open.
LEMMA PlainKeeps ==
  ASSUME SketchInv, NEW ch \in Char \ {"[", "]"}, Reads(ch), NextChar, Suits(code),
         UNCHANGED <<stack, stack_ptr>>
  PROVE  mode' # "undefined" /\ pc' <= Len(code) /\ LoopsInv'
<1>1. /\ code \in Seq(Char) /\ Len(code) \in Nat /\ mode = "running"
      /\ pc \in 0 .. Len(code) - 1 /\ pc + 1 \in 1 .. Len(code) /\ code[pc + 1] = ch
  BY AtChar
<1>2. /\ stack_ptr = Depth(code, pc) /\ stack_ptr \in Nat
      /\ \A i \in 1 .. stack_ptr :
           OpenAt(code, stack[i] + 1, pc) /\ Depth(code, stack[i] + 1) = i
  BY Suited
<1>3. pc' = pc + 1 /\ code' = code /\ mode' = mode
  BY DEF NextChar
<1>4. Depth(code, pc + 1) = stack_ptr
  <2> DEFINE k == pc + 1
  <2>1. k \in 1 .. Len(code) /\ k - 1 = pc /\ code[k] = ch
    BY <1>1
  <2> HIDE DEF k
  <2>2. Depth(code, k) = Depth(code, k - 1)
    BY <1>1, <2>1, DepthAround
  <2> QED
    BY <1>2, <2>1, <2>2 DEF k
<1>5. ASSUME NEW i \in 1 .. stack_ptr
      PROVE  OpenAt(code, stack[i] + 1, pc + 1) /\ Depth(code, stack[i] + 1) = i
  <2> DEFINE n == stack[i] + 1
  <2>1. OpenAt(code, n, pc) /\ Depth(code, n) = i /\ Depth(code, pc + 1) >= i
    BY <1>2, <1>4
  <2> HIDE DEF n
  <2>2. OpenAt(code, n, pc + 1)
    BY <1>1, <2>1, OpenStays
  <2> QED
    BY <2>1, <2>2 DEF n
<1> QED
  BY <1>1, <1>3, <1>4, <1>5 DEF LoopsInv

LEMMA PlainStepKeeps ==
  ASSUME SketchInv,
         \/ Change("+", 1) \/ Change("-", -1) \/ Move(">", 1) \/ Move("<", -1)
         \/ In \/ Out
  PROVE  SketchInv'
<1>1. PICK ch \in Char \ {"[", "]"} : Reads(ch) /\ NextChar
  BY DEF Change, Move, In, Out, Char, InstructionChar, Arith, Moves
<1>2. UNCHANGED <<stack, stack_ptr, code>> /\ mode' = "running" /\ pc' = pc + 1
  BY <1>1, AtChar DEF Change, Move, In, Out, machine, NextChar
<1>3. /\ Len(code) \in Nat /\ pc \in 0 .. Len(code) - 1
      /\ stack_ptr \in 0 .. WordMod - 1
      /\ stack \in [0 .. StackSize - 1 -> 0 .. Len(code)]
      /\ ptr \in 0 .. MemSize - 1 /\ memory \in [0 .. MemSize - 1 -> Cell]
      /\ memory[ptr] \in Cell /\ coming \in Seq(Cell) /\ rx \in Seq(Cell)
  BY <1>1, AtChar
<1>4. <<>> \in Seq(Cell) /\ pc' \in 0 .. Len(code) + 1
  BY <1>2, <1>3
<1> DEFINE Typed == /\ ptr' \in 0 .. MemSize - 1 /\ memory' \in [0 .. MemSize - 1 -> Cell]
                    /\ coming' \in Seq(Cell) /\ rx' \in Seq(Cell) /\ output' \in Seq(Cell)
<1>5. Typed
  <2>1. ASSUME NEW d \in {1, -1}, NEW x, Change(x, d)
        PROVE  Typed
    <3>1. (memory[ptr] + d) % CellMod \in Cell
      <4>1. memory[ptr] + d \in Int
        BY <1>3 DEF Cell
      <4> QED
        BY <4>1, Sizes
    <3> QED
      BY <1>3, <1>4, <2>1, <3>1 DEF Change, Silent
  <2>2. ASSUME NEW d \in {1, -1}, NEW x, Move(x, d)
        PROVE  Typed
    <3>1. ((ptr + d) % WordMod) % MemSize \in 0 .. MemSize - 1
      <4>1. ptr + d \in Int
        BY <1>3
      <4> QED
        BY <4>1, Sizes
    <3> QED
      BY <1>3, <1>4, <2>2, <3>1 DEF Move, Silent
  <2>3. CASE In
    <3>1. rx # <<>> /\ Head(rx) \in Cell /\ Tail(rx) \in Seq(Cell)
      BY <1>3, <2>3, HeadTailProperties DEF In
    <3> QED
      BY <1>3, <1>4, <2>3, <3>1 DEF In
  <2>4. CASE Out
    <3>1. <<CR, LF>> \in Seq(Cell) /\ <<memory[ptr]>> \in Seq(Cell)
      BY <1>3, Sizes
    <3> QED
      BY <1>3, <2>4, <3>1 DEF Out, machine
  <2> QED
    BY <2>1, <2>2, <2>3, <2>4
<1>6. StepTyped
  BY <1>2, <1>3, <1>4, <1>5 DEF StepTyped
<1> QED
  BY <1>1, <1>2, <1>6, PlainKeeps, TypedKeeps

\* A '[' has a partner.
LEMMA OpenHasPartner ==
  ASSUME SketchInv, Reads("["), Suits(code)
  PROVE  \E m \in pc + 2 .. Len(code) :
           Partners(code, pc + 1, m) /\ ExitLoop(pc) = m - 1 /\ Depth(code, m) = Depth(code, pc)
<1>1. /\ code \in Seq(Char) /\ Len(code) \in Nat
      /\ pc \in 0 .. Len(code) - 1 /\ pc + 1 \in 1 .. Len(code) /\ code[pc + 1] = "["
  BY AtChar
<1>2. Balanced(code)
  BY Suited
<1> DEFINE k == pc + 1
<1>3. k \in 1 .. Len(code) /\ code[k] = "[" /\ k - 1 = pc /\ k + 1 = pc + 2
  BY <1>1
<1> HIDE DEF k
<1>4. PICK m \in k + 1 .. Len(code) : Partners(code, k, m)
  BY <1>1, <1>2, <1>3, LoopCloses
<1>5. Partners(code, pc + 1, m) /\ m \in 1 .. Len(code)
  BY <1>1, <1>3, <1>4 DEF k
<1>6. ExitLoop(pc) = m - 1
  BY <1>1, <1>5, ExitLoopIsPartner
<1>7. Depth(code, m) = Depth(code, pc)
  BY <1>3, <1>4 DEF Partners
<1> QED
  BY <1>3, <1>4, <1>5, <1>6, <1>7

LEMMA SkipKeeps ==
  ASSUME SketchInv, Skip
  PROVE  SketchInv'
<1>1. /\ code \in Seq(Char) /\ Len(code) \in Nat /\ mode = "running"
      /\ pc \in 0 .. Len(code) - 1 /\ pc + 1 \in 1 .. Len(code) /\ code[pc + 1] = "["
      /\ stack_ptr \in 0 .. WordMod - 1
      /\ stack \in [0 .. StackSize - 1 -> 0 .. Len(code)]
      /\ ptr \in 0 .. MemSize - 1 /\ memory \in [0 .. MemSize - 1 -> Cell]
      /\ coming \in Seq(Cell) /\ rx \in Seq(Cell)
  BY AtChar DEF Skip
<1>2. /\ UNCHANGED <<code, mode, stack, stack_ptr, ptr, memory, coming, rx>>
      /\ output' = <<>> /\ pc' = ExitLoop(pc) + 1
  BY DEF Skip, machine, Silent
<1>3. pc' \in 0 .. Len(code) + 1
  <2>1. ExitLoop(pc) \in pc .. Len(code)
    BY <1>1, ExitLoopType
  <2> QED
    BY <1>1, <1>2, <2>1
<1>4. StepTyped
  <2>1. <<>> \in Seq(Cell)
    OBVIOUS
  <2> QED
    BY <1>1, <1>2, <1>3, <2>1 DEF StepTyped
<1>5. ASSUME Suits(code)
      PROVE  mode' # "undefined" /\ pc' <= Len(code) /\ LoopsInv'
  <2>1. PICK m \in pc + 2 .. Len(code) :
          Partners(code, pc + 1, m) /\ ExitLoop(pc) = m - 1 /\ Depth(code, m) = Depth(code, pc)
    BY <1>5, OpenHasPartner DEF Skip
  <2>2. pc' = m /\ m \in 1 .. Len(code)
    BY <1>1, <1>2, <2>1
  <2>3. /\ stack_ptr = Depth(code, pc)
        /\ \A i \in 1 .. stack_ptr :
             OpenAt(code, stack[i] + 1, pc) /\ Depth(code, stack[i] + 1) = i
    BY <1>5, Suited
  <2>4. ASSUME NEW i \in 1 .. stack_ptr
        PROVE  OpenAt(code, stack[i] + 1, m) /\ Depth(code, stack[i] + 1) = i
    <3> DEFINE n == stack[i] + 1
    <3>1. OpenAt(code, n, pc) /\ Depth(code, n) = i
      BY <2>3
    <3>2. pc \in 0 .. Len(code)
      BY <1>1
    <3> HIDE DEF n
    <3>3. OpenAt(code, n, m)
      BY <1>1, <2>1, <2>2, <3>1, <3>2, OpenOverLoop
    <3> QED
      BY <3>1, <3>3 DEF n
  <2> QED
    BY <1>1, <1>2, <2>1, <2>2, <2>3, <2>4 DEF LoopsInv
<1> QED
  BY <1>4, <1>5, TypedKeeps

LEMMA PushKeeps ==
  ASSUME SketchInv, Push
  PROVE  SketchInv'
<1>1. /\ code \in Seq(Char) /\ Len(code) \in Nat /\ mode = "running"
      /\ pc \in 0 .. Len(code) - 1 /\ pc + 1 \in 1 .. Len(code) /\ code[pc + 1] = "["
      /\ stack_ptr \in 0 .. WordMod - 1
      /\ stack \in [0 .. StackSize - 1 -> 0 .. Len(code)]
      /\ ptr \in 0 .. MemSize - 1 /\ memory \in [0 .. MemSize - 1 -> Cell]
      /\ coming \in Seq(Cell) /\ rx \in Seq(Cell)
  BY AtChar DEF Push
<1> DEFINE top == (stack_ptr + 1) % WordMod
<1>2. /\ UNCHANGED <<code, ptr, memory, coming, rx>> /\ output' = <<>>
      /\ stack_ptr' = top
      /\ top < StackSize => /\ stack' = [stack EXCEPT ![top] = pc]
                            /\ pc' = pc + 1 /\ mode' = mode
      /\ ~(top < StackSize) => mode' = "undefined" /\ pc' = pc /\ stack' = stack
  BY DEF Push, Silent, NextChar
<1>3. /\ top \in 0 .. WordMod - 1 /\ WordMod \in Nat
      /\ StackSize \in Nat /\ 1 <= StackSize /\ StackSize < WordMod
  <2>1. stack_ptr + 1 \in Int
    BY <1>1
  <2>2. top \in 0 .. WordMod - 1
    BY <2>1, Sizes
  <2> QED
    BY <2>2, Sizes
<1> HIDE DEF top
<1>4. StepTyped
  <2>1. <<>> \in Seq(Cell)
    OBVIOUS
  <2>2. pc' \in 0 .. Len(code) + 1 /\ mode' \in {"running", "undefined"}
    BY <1>1, <1>2
  <2>3. stack' \in [0 .. StackSize - 1 -> 0 .. Len(code)]
    BY <1>1, <1>2
  <2> QED
    BY <1>1, <1>2, <1>3, <2>1, <2>2, <2>3 DEF StepTyped
<1>5. ASSUME Suits(code)
      PROVE  mode' # "undefined" /\ pc' <= Len(code) /\ LoopsInv'
  <2> DEFINE k == pc + 1
  <2>1. k \in 1 .. Len(code) /\ code[k] = "[" /\ k - 1 = pc
    BY <1>1
  <2> HIDE DEF k
  <2>2. Depth(code, k) = Depth(code, k - 1) + 1
    BY <1>1, <2>1, DepthAround
  <2>3. /\ stack_ptr = Depth(code, pc) /\ stack_ptr \in Nat
        /\ Depth(code, k) < StackSize
        /\ \A i \in 1 .. stack_ptr :
             OpenAt(code, stack[i] + 1, pc) /\ Depth(code, stack[i] + 1) = i
    BY <1>5, <2>1, Suited
  <2>4. Depth(code, k) = stack_ptr + 1
    BY <2>1, <2>2, <2>3
  <2>5. top = stack_ptr + 1 /\ top < StackSize
    <3>1. stack_ptr + 1 \in 0 .. WordMod - 1
      BY <1>3, <2>3, <2>4
    <3> QED
      BY <2>3, <2>4, <3>1, Sizes DEF top
  <2>6. /\ pc' = k /\ mode' = mode /\ stack_ptr' = stack_ptr + 1
        /\ stack'[stack_ptr + 1] = pc
        /\ \A i \in 1 .. stack_ptr : stack'[i] = stack[i]
    <3>1. stack_ptr + 1 \in 0 .. StackSize - 1 /\ \A i \in 1 .. stack_ptr : i \in 0 .. StackSize - 1
      BY <1>3, <2>3, <2>5
    <3>2. stack' = [stack EXCEPT ![stack_ptr + 1] = pc]
      BY <1>2, <2>5
    <3> QED
      BY <1>1, <1>2, <2>3, <2>5, <3>1, <3>2 DEF k
  <2>7. ASSUME NEW i \in 1 .. stack_ptr + 1
        PROVE  OpenAt(code, stack'[i] + 1, k) /\ Depth(code, stack'[i] + 1) = i
    <3>1. CASE i = stack_ptr + 1
      <4>1. stack'[i] + 1 = k
        BY <2>6, <3>1 DEF k
      <4>2. OpenAt(code, k, k)
        BY <1>1, <2>1, OpenNow
      <4> QED
        BY <2>4, <3>1, <4>1, <4>2
    <3>2. CASE i # stack_ptr + 1
      <4> DEFINE n == stack[i] + 1
      <4>1. i \in 1 .. stack_ptr /\ stack'[i] = stack[i]
        BY <2>3, <2>6, <3>2
      <4>2. OpenAt(code, n, pc) /\ Depth(code, n) = i /\ Depth(code, pc + 1) >= i
        BY <2>3, <2>4, <4>1 DEF k
      <4> HIDE DEF n
      <4>3. OpenAt(code, n, pc + 1)
        BY <1>1, <4>2, OpenStays
      <4> QED
        BY <4>1, <4>2, <4>3 DEF n, k
    <3> QED
      BY <3>1, <3>2
  <2> QED
    BY <1>1, <1>2, <2>1, <2>4, <2>6, <2>7 DEF LoopsInv
<1> QED
  BY <1>4, <1>5, TypedKeeps

\* At a ']' of a suited code the top of the stack is its '['.
LEMMA TopIsPartner ==
  ASSUME SketchInv, Reads("]"), Suits(code)
  PROVE  /\ stack_ptr \in 1 .. StackSize - 1
         /\ stack[stack_ptr] \in 0 .. Len(code) - 1
         /\ Partners(code, stack[stack_ptr] + 1, pc + 1)
         /\ Depth(code, pc + 1) = stack_ptr - 1
<1>1. /\ code \in Seq(Char) /\ Len(code) \in Nat
      /\ pc \in 0 .. Len(code) - 1 /\ pc + 1 \in 1 .. Len(code) /\ code[pc + 1] = "]"
  BY AtChar
<1>2. /\ stack_ptr = Depth(code, pc) /\ stack_ptr \in Nat /\ stack_ptr < StackSize
      /\ Depth(code, pc + 1) \in Nat
      /\ \A i \in 1 .. stack_ptr :
           /\ stack[i] \in 0 .. Len(code)
           /\ OpenAt(code, stack[i] + 1, pc) /\ Depth(code, stack[i] + 1) = i
  BY <1>1, Suited
<1>3. Depth(code, pc + 1) = stack_ptr - 1
  <2> DEFINE k == pc + 1
  <2>1. k \in 1 .. Len(code) /\ code[k] = "]" /\ k - 1 = pc
    BY <1>1
  <2> HIDE DEF k
  <2>2. Depth(code, k) = Depth(code, k - 1) - 1
    BY <1>1, <2>1, DepthAround
  <2> QED
    BY <1>2, <2>1, <2>2 DEF k
<1>4. stack_ptr \in 1 .. stack_ptr /\ StackSize \in Nat
  <2>1. StackSize \in Nat
    BY Sizes
  <2>2. stack_ptr >= 1
    BY <1>2, <1>3
  <2> QED
    BY <1>2, <2>1, <2>2
<1> DEFINE n == stack[stack_ptr] + 1
<1>5. OpenAt(code, n, pc) /\ Depth(code, n) = Depth(code, pc) /\ stack[stack_ptr] \in 0 .. Len(code)
  BY <1>2, <1>4
<1>6. stack[stack_ptr] \in 0 .. Len(code) - 1
  <2>1. n \in 1 .. pc
    BY <1>5 DEF OpenAt
  <2> QED
    BY <1>1, <1>5, <2>1
<1> HIDE DEF n
<1>7. Partners(code, n, pc + 1)
  BY <1>1, <1>5, NextCloses
<1> QED
  BY <1>2, <1>3, <1>4, <1>6, <1>7 DEF n

LEMMA RepeatKeeps ==
  ASSUME SketchInv, Repeat
  PROVE  SketchInv'
<1>1. /\ code \in Seq(Char) /\ Len(code) \in Nat /\ mode = "running"
      /\ pc \in 0 .. Len(code) - 1 /\ pc + 1 \in 1 .. Len(code) /\ code[pc + 1] = "]"
      /\ stack_ptr \in 0 .. WordMod - 1
      /\ stack \in [0 .. StackSize - 1 -> 0 .. Len(code)]
      /\ ptr \in 0 .. MemSize - 1 /\ memory \in [0 .. MemSize - 1 -> Cell]
      /\ coming \in Seq(Cell) /\ rx \in Seq(Cell)
  BY AtChar DEF Repeat
<1>2. /\ UNCHANGED <<code, stack, stack_ptr, ptr, memory, coming, rx>> /\ output' = <<>>
      /\ stack_ptr < StackSize => pc' = stack[stack_ptr] + 1 /\ mode' = mode
      /\ ~(stack_ptr < StackSize) => mode' = "undefined" /\ pc' = pc
  BY DEF Repeat, Silent, machine
<1>3. StackSize \in Nat
  BY Sizes
<1>4. StepTyped
  <2>1. <<>> \in Seq(Cell)
    OBVIOUS
  <2>2. stack_ptr < StackSize => stack[stack_ptr] \in 0 .. Len(code)
    BY <1>1, <1>3
  <2>3. pc' \in 0 .. Len(code) + 1 /\ mode' \in {"running", "undefined"}
    BY <1>1, <1>2, <2>2
  <2> QED
    BY <1>1, <1>2, <2>1, <2>3 DEF StepTyped
<1>5. ASSUME Suits(code)
      PROVE  mode' # "undefined" /\ pc' <= Len(code) /\ LoopsInv'
  <2> DEFINE top == stack[stack_ptr] + 1
  <2>1. /\ stack_ptr \in 1 .. StackSize - 1 /\ top \in 1 .. Len(code) /\ top \in Int
        /\ Partners(code, top, pc + 1)
    <3>1. stack_ptr \in 1 .. StackSize - 1 /\ stack[stack_ptr] \in 0 .. Len(code) - 1
      BY <1>5, TopIsPartner DEF Repeat
    <3>2. Partners(code, top, pc + 1)
      BY <1>5, TopIsPartner DEF Repeat
    <3> QED
      BY <1>1, <3>1, <3>2
  <2>2. pc' = top /\ mode' = mode
    BY <1>2, <1>3, <2>1
  <2> HIDE DEF top
  <2>3. \A i \in 1 .. stack_ptr :
          OpenAt(code, stack[i] + 1, pc) /\ Depth(code, stack[i] + 1) = i
    BY <1>5, Suited
  <2>4. stack_ptr \in 1 .. stack_ptr /\ stack_ptr \in Int
    BY <2>1
  <2>5. OpenAt(code, top, pc) /\ Depth(code, top) = stack_ptr
    BY <2>3, <2>4 DEF top
  <2>6. code[top] = "["
    BY <2>5 DEF OpenAt
  <2>7. ASSUME NEW i \in 1 .. stack_ptr
        PROVE  OpenAt(code, stack[i] + 1, top) /\ Depth(code, stack[i] + 1) = i
    <3> DEFINE n == stack[i] + 1
    <3>1. OpenAt(code, n, pc) /\ Depth(code, n) = i
      BY <2>3
    <3>2. CASE i = stack_ptr
      <4>1. n = top
        BY <3>2 DEF top
      <4>2. OpenAt(code, top, top)
        BY <1>1, <2>1, <2>6, OpenNow
      <4> QED
        BY <3>1, <4>1, <4>2
    <3>3. CASE i # stack_ptr
      <4>1. Depth(code, n) < Depth(code, top) /\ pc \in 0 .. Len(code)
        BY <1>1, <2>4, <2>5, <3>1, <3>3
      <4> HIDE DEF n
      <4>2. OpenAt(code, n, top)
        BY <1>1, <2>5, <3>1, <4>1, DeeperIsInside
      <4> QED
        BY <3>1, <4>2 DEF n
    <3> QED
      BY <3>2, <3>3
  <2> QED
    BY <1>1, <1>2, <2>1, <2>2, <2>5, <2>7 DEF LoopsInv
<1> QED
  BY <1>4, <1>5, TypedKeeps

LEMMA DropKeeps ==
  ASSUME SketchInv, Drop
  PROVE  SketchInv'
<1>1. /\ code \in Seq(Char) /\ Len(code) \in Nat /\ mode = "running"
      /\ pc \in 0 .. Len(code) - 1 /\ pc + 1 \in 1 .. Len(code)
      /\ stack_ptr \in 0 .. WordMod - 1
      /\ stack \in [0 .. StackSize - 1 -> 0 .. Len(code)]
      /\ ptr \in 0 .. MemSize - 1 /\ memory \in [0 .. MemSize - 1 -> Cell]
      /\ coming \in Seq(Cell) /\ rx \in Seq(Cell)
  BY AtChar DEF Drop
<1>2. /\ UNCHANGED <<code, mode, stack, ptr, memory, coming, rx>> /\ output' = <<>>
      /\ pc' = pc + 1 /\ stack_ptr' = (stack_ptr - 1) % WordMod
  BY DEF Drop, Silent, NextChar
<1>3. StepTyped
  <2>1. <<>> \in Seq(Cell) /\ pc' \in 0 .. Len(code) + 1
    BY <1>1, <1>2
  <2>2. stack_ptr - 1 \in Int
    BY <1>1
  <2>3. stack_ptr' \in 0 .. WordMod - 1
    BY <1>2, <2>2, Sizes
  <2> QED
    BY <1>1, <1>2, <2>1, <2>3 DEF StepTyped
<1>4. ASSUME Suits(code)
      PROVE  mode' # "undefined" /\ pc' <= Len(code) /\ LoopsInv'
  <2>1. stack_ptr \in 1 .. StackSize - 1 /\ Depth(code, pc + 1) = stack_ptr - 1
    BY <1>4, TopIsPartner DEF Drop
  <2>2. stack_ptr' = stack_ptr - 1
    <3>1. WordMod \in Nat
      BY Sizes
    <3>2. stack_ptr - 1 \in 0 .. WordMod - 1
      BY <1>1, <2>1, <3>1
    <3> QED
      BY <1>2, <3>2, Sizes
  <2>3. \A i \in 1 .. stack_ptr :
          OpenAt(code, stack[i] + 1, pc) /\ Depth(code, stack[i] + 1) = i
    BY <1>4, Suited
  <2>4. ASSUME NEW i \in 1 .. stack_ptr - 1
        PROVE  OpenAt(code, stack[i] + 1, pc + 1) /\ Depth(code, stack[i] + 1) = i
    <3> DEFINE n == stack[i] + 1
    <3>1. i \in 1 .. stack_ptr
      BY <1>1
    <3>2. OpenAt(code, n, pc) /\ Depth(code, n) = i
      BY <2>3, <3>1
    <3>3. Depth(code, pc + 1) >= Depth(code, n)
      BY <1>1, <2>1, <3>2
    <3> HIDE DEF n
    <3>4. OpenAt(code, n, pc + 1)
      BY <1>1, <3>2, <3>3, OpenStays
    <3> QED
      BY <3>2, <3>4 DEF n
  <2> QED
    BY <1>1, <1>2, <2>1, <2>2, <2>4 DEF LoopsInv
<1> QED
  BY <1>3, <1>4, TypedKeeps

LEMMA SetupKeeps ==
  ASSUME SketchInv, Setup
  PROVE  SketchInv'
<1>1. /\ mode' = "running"
      /\ UNCHANGED <<code, pc, stack, stack_ptr, ptr, memory, coming, rx, output>>
  BY DEF Setup, machine
<1> QED
  BY <1>1 DEF SketchInv, NothingUndefined, TypeOK, SetupInv, LoopsInv, Suits

\* A byte that arrives changes nothing that has been read or is still to be.
LEMMA ArriveMoves ==
  ASSUME SketchInv, Arrive
  PROVE  /\ coming' \in Seq(Cell) /\ rx' \in Seq(Cell)
         /\ rx' \o coming' = rx \o coming
<1>1. coming \in Seq(Cell) /\ rx \in Seq(Cell) /\ coming # <<>>
  BY DEF SketchInv, Arrive
<1>2. coming' = Tail(coming) /\ rx' = Append(rx, Head(coming))
  BY DEF Arrive
<1>3. Head(coming) \in Cell /\ Tail(coming) \in Seq(Cell) /\ <<Head(coming)>> \in Seq(Cell)
  BY <1>1, HeadTailProperties
<1>4. rx' = rx \o <<Head(coming)>> /\ rx' \in Seq(Cell)
  BY <1>1, <1>2, <1>3, AppendIsConcat, AppendProperties
<1>5. coming = <<Head(coming)>> \o Tail(coming)
  BY <1>1
<1>6. (rx \o <<Head(coming)>>) \o Tail(coming) = rx \o (<<Head(coming)>> \o Tail(coming))
  BY <1>1, <1>3, ConcatAssociative
<1> QED
  BY <1>2, <1>3, <1>4, <1>5, <1>6

LEMMA ArriveKeeps ==
  ASSUME SketchInv, Arrive
  PROVE  SketchInv'
<1>1. UNCHANGED <<code, mode, pc, stack, stack_ptr, ptr, memory, output>>
  BY DEF Arrive, machine
<1>2. coming' \in Seq(Cell) /\ rx' \in Seq(Cell)
  BY ArriveMoves
<1> QED
  BY <1>1, <1>2 DEF SketchInv, NothingUndefined, TypeOK, SetupInv, LoopsInv, Suits

\* The two ways out; a suited code takes only the first half of Quit.
LEMMA StopKeeps ==
  ASSUME SketchInv, Quit \/ PastTheEnd
  PROVE  /\ SketchInv'
         /\ Suits(code) => Quit /\ pc = Len(code) /\ mode' = "done"
<1>1. /\ mode = "running" /\ output' = <<>> /\ mode' \in {"done", "quit", "undefined"}
      /\ UNCHANGED <<code, pc, stack, stack_ptr, ptr, memory, coming, rx>>
  BY DEF Quit, PastTheEnd, Silent, machine
<1>2. Suits(code) => Quit /\ pc = Len(code) /\ mode' = "done"
  <2> SUFFICES ASSUME Suits(code) PROVE Quit /\ pc = Len(code) /\ mode' = "done"
    OBVIOUS
  <2>1. pc \in 0 .. Len(code) /\ Len(code) \in Nat
    BY Suited
  <2>2. Quit
    BY <2>1 DEF PastTheEnd
  <2>3. ~ Reads("#")
    <3> SUFFICES ASSUME Reads("#") PROVE FALSE
      OBVIOUS
    <3>1. pc + 1 \in 1 .. Len(code) /\ code[pc + 1] = "#"
      BY AtChar
    <3>2. code[pc + 1] \in InstructionChar
      BY <3>1, Suited
    <3> QED
      BY <3>1, <3>2 DEF InstructionChar, Arith, Moves
  <2> QED
    BY <2>2, <2>3 DEF Quit
<1>3. SketchInv'
  <2>1. <<>> \in Seq(Cell)
    OBVIOUS
  <2>2. TypeOK' /\ SetupInv'
    BY <1>1 DEF SketchInv, NothingUndefined, TypeOK, SetupInv
  <2>3. Suits(code)' <=> Suits(code)
    BY <1>1 DEF Suits
  <2>4. LoopsInv => LoopsInv'
    BY <1>1 DEF LoopsInv
  <2>5. Suits(code) => mode' # "undefined"
    BY <1>2
  <2> QED
    BY <1>1, <2>1, <2>2, <2>3, <2>4, <2>5 DEF SketchInv, NothingUndefined
<1> QED
  BY <1>2, <1>3

LEMMA NextKeepsSketchInv ==
  ASSUME SketchInv, [Next]_sketchvars
  PROVE  SketchInv'
<1>1. CASE Interprete
  BY <1>1, PlainStepKeeps, SkipKeeps, PushKeeps, RepeatKeeps, DropKeeps, StopKeeps DEF Interprete
<1>2. CASE UNCHANGED sketchvars
  BY <1>2 DEF sketchvars, machine, SketchInv, NothingUndefined, TypeOK, SetupInv, LoopsInv, Suits
<1> QED
  BY <1>1, <1>2, SetupKeeps, ArriveKeeps DEF Next

\* SketchInv holds in every reachable state.
THEOREM SketchInvariant == Spec => []SketchInv
<1>1. Init => SketchInv
  BY InitSketchInv
<1>2. SketchInv /\ [Next]_sketchvars => SketchInv'
  BY NextKeepsSketchInv
<1> QED
  BY <1>1, <1>2, PTL DEF Spec

\* interprete and exit_loop, which test no index, stay on the tape for every code
\* and inside their code and their stack for every code that suits them.
THEOREM SketchIsDefined == Spec => []NothingUndefined
<1>1. SketchInv => NothingUndefined
  BY DEF SketchInv
<1> QED
  BY <1>1, SketchInvariant, PTL

\* Whatever has been skipped and repeated, the used slots of the stack are the
\* loops pc is in.
THEOREM SketchStackIsOpenLoops == Spec => []StackIsOpenLoops
<1>1. SketchInv => StackIsOpenLoops
  <2> SUFFICES ASSUME SketchInv, Suits(code), NEW i \in 1 .. stack_ptr
               PROVE  /\ stack[i] < pc /\ code[stack[i] + 1] = "["
                      /\ Depth(code, stack[i] + 1) = i
                      /\ ExitLoop(stack[i]) >= pc
    BY DEF StackIsOpenLoops, SketchInv, LoopsInv
  <2> DEFINE p == stack[i]
             k == p + 1
  <2>1. /\ code \in Seq(Char) /\ Len(code) \in Nat /\ Balanced(code) /\ pc \in 0 .. Len(code)
        /\ p \in 0 .. Len(code) /\ OpenAt(code, k, pc) /\ Depth(code, k) = i
    BY Suited
  <2>2. k \in 1 .. pc /\ code[k] = "["
    BY <2>1 DEF OpenAt
  <2>3. p \in 0 .. Len(code) - 1 /\ k \in 1 .. Len(code) /\ p < pc
    BY <2>1, <2>2
  <2> HIDE DEF k
  <2>4. PICK m \in k + 1 .. Len(code) : Partners(code, k, m)
    BY <2>1, <2>2, <2>3, LoopCloses
  <2>5. m > pc
    <3>1. Depth(code, m) = Depth(code, k - 1)
      BY <2>4 DEF Partners
    <3> QED
      BY <2>1, <2>4, <3>1, OpenClosesLater
  <2>6. ExitLoop(p) = m - 1
    <3>1. m \in 1 .. Len(code) /\ Partners(code, p + 1, m)
      BY <2>3, <2>4 DEF k
    <3> HIDE DEF p
    <3> QED
      BY <2>1, <2>3, <3>1, ExitLoopIsPartner
  <2>7. ExitLoop(p) >= pc
    BY <2>1, <2>3, <2>4, <2>5, <2>6
  <2> QED
    BY <2>1, <2>2, <2>3, <2>7 DEF k
<1> QED
  BY <1>1, SketchInvariant, PTL

-----------------------------------------------------------------------------
(***************************************************************************)
(* A sketch whose code suits it takes the steps of Language.               *)
(***************************************************************************)

\* Language and the sketch mean the same by balanced and by partners.
LEMMA LangSame ==
  /\ \A t : Lang!Balanced(t) <=> Balanced(t)
  /\ \A t, i, j : Lang!Partners(t, i, j) <=> Partners(t, i, j)
<1>1. \A t, k : Lang!Depth(t, k) = Depth(t, k)
  BY DEF Lang!Depth, Depth, Lang!Net, Net, Lang!Cardinality, Cardinality,
         Lang!IsFiniteSet, IsFiniteSet
<1> QED
  BY <1>1 DEF Lang!Balanced, Balanced, Lang!Partners, Partners

LEMMA StatusOf ==
  ASSUME Suits(code)
  PROVE  /\ mode = "setup"   => Status = "idle"
         /\ mode = "running" => Status = "running"
         /\ mode = "done"    => Status = "ended"
  BY DEF Status

LEMMA StatusOfNext ==
  ASSUME Suits(code), code' = code
  PROVE  /\ mode' = mode      => Status' = Status
         /\ mode' = "running" => Status' = "running"
         /\ mode' = "done"    => Status' = "ended"
<1>1. Suits(code)'
  BY DEF Suits
<1> QED
  BY <1>1 DEF Status

\* What has been written, with LF for CR and LF.
Written == IF output = <<CR, LF>> THEN <<LF>> ELSE output

LEMMA NothingWritten ==
  /\ output = <<>>  => Written = <<>>
  /\ output' = <<>> => Written' = <<>>
  BY DEF Written

LEMMA InitIsInit ==
  ASSUME Init, Suits(code)
  PROVE  Lang!Init
<1>1. Status = "idle" /\ Written = <<>>
  BY StatusOf, NothingWritten DEF Init
<1>2. rx \o coming \in Seq(0 .. CellMod - 1)
  BY InputsAssumption DEF Init
<1> QED
  BY <1>1, <1>2 DEF Init, Lang!Init, Lang!Blank, Written

LEMMA SetupIsStart ==
  ASSUME SketchInv, Suits(code), Setup
  PROVE  Lang!Start
<1>1. /\ mode = "setup" /\ mode' = "running"
      /\ UNCHANGED <<code, pc, ptr, memory, coming, rx, output>>
  BY DEF Setup, machine
<1>2. output' = <<>>
  BY <1>1 DEF SketchInv, SetupInv
<1>3. Status = "idle" /\ Status' = "running" /\ Written' = <<>>
  BY <1>1, <1>2, StatusOf, StatusOfNext, NothingWritten
<1>4. pc = 0 /\ ptr = 0 /\ memory = [a \in 0 .. MemSize - 1 |-> 0] /\ Balanced(code)
  BY <1>1 DEF SketchInv, SetupInv, Suits
<1> QED
  BY <1>1, <1>3, <1>4, LangSame DEF Lang!Start, Lang!Blank, Written

\* The next character, and going on to the one behind it.
LEMMA ReadsIsIs ==
  ASSUME Suits(code), NEW ch, Reads(ch), code' = code
  PROVE  /\ Lang!Is(ch)
         /\ Silent => Lang!Silent
         /\ NextChar => Lang!Continue
         /\ mode' = mode => Status' = Status
<1>1. Status = "running" /\ (mode' = mode => Status' = Status)
  BY StatusOf, StatusOfNext DEF Reads
<1>2. Silent => Lang!Silent
  BY NothingWritten DEF Silent, Lang!Silent, Written
<1> QED
  BY <1>1, <1>2 DEF Reads, Lang!Is, NextChar, Lang!Continue

LEMMA SkipIsPass ==
  ASSUME SketchInv, Suits(code), Skip
  PROVE  Lang!Pass
<1>1. Lang!Is("[") /\ Lang!Silent /\ UNCHANGED <<code, Status, ptr, memory>>
  BY ReadsIsIs DEF Skip, machine
<1>2. PICK m \in pc + 2 .. Len(code) : Partners(code, pc + 1, m) /\ ExitLoop(pc) = m - 1
  BY OpenHasPartner DEF Skip
<1>3. m \in DOMAIN code /\ pc' = m
  <2>1. code \in Seq(Char) /\ Len(code) \in Nat /\ pc \in 0 .. Len(code) - 1
    BY AtChar DEF Skip
  <2> QED
    BY <1>2, <2>1 DEF Skip
<1> QED
  BY <1>1, <1>2, <1>3, LangSame DEF Skip, Lang!Pass

LEMMA PushIsEnter ==
  ASSUME SketchInv, Suits(code), Push
  PROVE  Lang!Enter
<1>1. SketchInv' /\ code' = code
  BY PushKeeps DEF Push, NextChar
<1>2. mode' # "undefined"
  BY <1>1 DEF SketchInv, NothingUndefined, Suits
<1>3. NextChar
  BY <1>2 DEF Push
<1>4. Lang!Is("[") /\ Lang!Silent /\ Lang!Continue
  BY <1>1, <1>3, ReadsIsIs DEF Push
<1> QED
  BY <1>4 DEF Push, Lang!Enter

LEMMA RepeatIsRepeat ==
  ASSUME SketchInv, Suits(code), Repeat
  PROVE  Lang!Repeat
<1>1. UNCHANGED <<code, ptr, memory>> /\ Silent /\ Reads("]") /\ memory[ptr] # 0
  BY DEF Repeat, machine
<1>2. /\ stack_ptr \in 1 .. StackSize - 1 /\ stack[stack_ptr] \in 0 .. Len(code) - 1
      /\ Partners(code, stack[stack_ptr] + 1, pc + 1)
  BY <1>1, TopIsPartner
<1>3. StackSize \in Nat /\ code \in Seq(Char)
  BY Sizes, Suited
<1>4. stack_ptr < StackSize /\ stack[stack_ptr] + 1 \in DOMAIN code
  BY <1>2, <1>3
<1>5. pc' = stack[stack_ptr] + 1 /\ mode' = mode
  BY <1>4 DEF Repeat
<1>6. Lang!Is("]") /\ Lang!Silent /\ Status' = Status
  BY <1>1, <1>5, ReadsIsIs
<1> QED
  BY <1>1, <1>2, <1>4, <1>5, <1>6, LangSame DEF Lang!Repeat

LEMMA DropIsLeave ==
  ASSUME SketchInv, Suits(code), Drop
  PROVE  Lang!Leave
<1>1. Lang!Is("]") /\ Lang!Silent /\ Lang!Continue
  BY ReadsIsIs DEF Drop, NextChar
<1> QED
  BY <1>1 DEF Drop, Lang!Leave

LEMMA PlainStepIsObey ==
  ASSUME SketchInv, Suits(code),
         \/ Change("+", 1) \/ Change("-", -1) \/ Move(">", 1) \/ Move("<", -1)
         \/ In \/ Out
  PROVE  Lang!Obey
<1>0. code' = code
  BY DEF Change, Move, In, Out, NextChar
<1>1. CASE Change("+", 1) \/ Change("-", -1)
  <2>1. PICK ch \in {"+", "-"} : Reads(ch)
    BY <1>1 DEF Change
  <2>2. memory[ptr] \in Int
    BY <2>1, AtChar DEF Cell
  <2>3. memory[ptr] + (-1) = memory[ptr] - 1
    BY <2>2
  <2>4. [memory EXCEPT ![ptr] = (@ + (-1)) % CellMod] = [memory EXCEPT ![ptr] = (@ - 1) % CellMod]
    BY <2>3
  <2>5. Lang!Change
    BY <1>0, <1>1, <2>4, ReadsIsIs DEF Change, Lang!Change
  <2> QED
    BY <2>5 DEF Lang!Obey
<1>2. CASE Move(">", 1) \/ Move("<", -1)
  <2>1. PICK ch \in {">", "<"} : Reads(ch)
    BY <1>2 DEF Move
  <2>2. ptr \in Int /\ ptr + 1 \in Int /\ ptr + (-1) \in Int /\ ptr + (-1) = ptr - 1
    BY <2>1, AtChar
  <2>3. /\ ((ptr + 1) % WordMod) % MemSize = (ptr + 1) % MemSize
        /\ ((ptr + (-1)) % WordMod) % MemSize = (ptr - 1) % MemSize
    BY <2>2, Sizes
  <2>4. Lang!Shift
    BY <1>0, <1>2, <2>3, ReadsIsIs DEF Move, Lang!Shift
  <2> QED
    BY <2>4 DEF Lang!Obey
<1>3. CASE In
  <2>1. Lang!Is(",") /\ Lang!Continue /\ Written' = <<>>
    BY <1>0, <1>3, ReadsIsIs, NothingWritten DEF In
  <2>2. rx \in Seq(Cell) /\ coming \in Seq(Cell) /\ rx # <<>> /\ rx' = Tail(rx) /\ coming' = coming
    BY <1>3 DEF In, SketchInv
  <2>3. rx \o coming # <<>> /\ Head(rx \o coming) = Head(rx)
    BY <2>2
  <2>4. Tail(rx) \o coming = Tail(rx \o coming)
    BY <2>2
  <2>5. Lang!Read
    BY <1>3, <2>1, <2>2, <2>3, <2>4 DEF In, Lang!Read, Written
  <2> QED
    BY <2>5 DEF Lang!Obey
<1>4. CASE Out
  <2>1. Lang!Is(".") /\ Lang!Continue
    BY <1>0, <1>4, ReadsIsIs DEF Out
  <2>2. Written' = <<memory[ptr]>>
    <3>1. output' = IF memory[ptr] = LF THEN <<CR, LF>> ELSE <<memory[ptr]>>
      BY <1>4 DEF Out
    <3>2. <<memory[ptr]>> # <<CR, LF>>
      OBVIOUS
    <3> QED
      BY <3>1, <3>2 DEF Written
  <2>3. Lang!Write
    BY <1>4, <2>1, <2>2 DEF Out, machine, Lang!Write, Written
  <2> QED
    BY <2>3 DEF Lang!Obey
<1> QED
  BY <1>1, <1>2, <1>3, <1>4

LEMMA StopIsEnd ==
  ASSUME SketchInv, Suits(code), Quit \/ PastTheEnd
  PROVE  Lang!End
<1>1. Quit /\ pc = Len(code) /\ mode' = "done"
  BY StopKeeps
<1>2. mode = "running" /\ Silent /\ UNCHANGED <<code, pc, ptr, memory>>
  BY <1>1 DEF Quit, machine
<1>3. Status = "running" /\ Status' = "ended" /\ Lang!Silent
  BY <1>1, <1>2, StatusOf, StatusOfNext, NothingWritten DEF Silent, Lang!Silent, Written
<1> QED
  BY <1>1, <1>2, <1>3 DEF Lang!End

LEMMA NextIsNext ==
  ASSUME SketchInv, [Next]_sketchvars
  PROVE  [Suits(code) => Lang!Next]_(Lang!langvars)
<1> SUFFICES ASSUME Suits(code)
             PROVE  Lang!Next \/ UNCHANGED Lang!langvars
  OBVIOUS
<1>1. CASE Setup
  BY <1>1, SetupIsStart DEF Lang!Next
<1>2. CASE Interprete
  BY <1>2, SkipIsPass, PushIsEnter, RepeatIsRepeat, DropIsLeave, PlainStepIsObey, StopIsEnd
     DEF Interprete, Lang!Next, Lang!Obey
<1>3. CASE Arrive
  <2>1. UNCHANGED <<code, mode, pc, ptr, memory, output>>
    BY <1>3 DEF Arrive, machine
  <2>2. Status' = Status /\ Written' = Written
    BY <2>1, StatusOfNext DEF Written
  <2> QED
    BY <1>3, <2>1, <2>2, ArriveMoves DEF Lang!langvars, Written
<1>4. CASE UNCHANGED sketchvars
  <2>1. UNCHANGED <<code, mode, pc, ptr, memory, coming, rx, output>>
    BY <1>4 DEF sketchvars, machine
  <2>2. Status' = Status /\ Written' = Written
    BY <2>1, StatusOfNext DEF Written
  <2> QED
    BY <2>1, <2>2 DEF Lang!langvars, Written
<1> QED
  BY <1>1, <1>2, <1>3, <1>4 DEF Next

\* The sketch does what the language says to every code that suits it: bytes are
\* read in order however they arrive, a line feed is written as two bytes and
\* everything else as it is, and each of its steps is one of Language or none.
\* SuitedObeysLanguage says in addition that it goes on.
THEOREM SketchImplementsLanguage ==
  Spec => /\ Suits(code) => Lang!Init
          /\ [][Suits(code) => Lang!Next]_(Lang!langvars)
<1>1. Init => (Suits(code) => Lang!Init)
  BY InitIsInit
<1>2. SketchInv /\ [Next]_sketchvars => [Suits(code) => Lang!Next]_(Lang!langvars)
  BY NextIsNext
<1> QED
  BY <1>1, <1>2, SketchInvariant, PTL DEF Spec
=============================================================================
