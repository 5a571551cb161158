--------------------------- MODULE DirectBFProofs ---------------------------
(***************************************************************************)
(* Proofs about bf: validate_code and the stack of iterators together keep *)
(* interprete inside its text, and every step of it is one of Language.    *)
(* What is inductive is that each bracket on the stack has been open since *)
(* it was passed: no place between it and the iterator is less deep.       *)
(***************************************************************************)
EXTENDS DirectBF, Lemmas, SequenceTheorems

\* The bottom of the stack is the outermost loop around the iterator.
StackInv ==
  /\ Len(stack) = Depth(code, c)
  /\ \A i \in DOMAIN stack : OpenAt(code, stack[i], c) /\ Depth(code, stack[i]) = i

BracketInv ==
  /\ mode = "options" => c = 0 /\ stack = <<>>
  /\ mode \in {"options", "running", "finished"} => Balanced(code)
  /\ mode \in {"running", "finished"} => StackInv

\* The inductive invariant.
DirectInv == NothingUndefined /\ BracketInv

-----------------------------------------------------------------------------
(***************************************************************************)
(* What the operators of the module compute.                               *)
(***************************************************************************)

\* validate_code decides whether a text is balanced.
LEMMA ValidateIsBalanced ==
  ASSUME NEW t \in Seq(Char)
  PROVE  ValidateCode(t) <=> Balanced(t)
<1>1. Depth(t, 0) = 0 /\ Len(t) \in Nat
  BY DepthType
<1> QED
  BY <1>1 DEF ValidateCode, Balanced

\* The scan of a '[' ends behind its partner.
LEMMA ScanFindsPartner ==
  ASSUME NEW t \in Seq(Char), Balanced(t), NEW k \in 1 .. Len(t), t[k] = "["
  PROVE  /\ Closes(t, k) # {}
         /\ MatchingClose(t, k) \in k + 1 .. Len(t)
         /\ MatchingClose(t, k) \in Closes(t, k)
         /\ Partners(t, k, MatchingClose(t, k))
<1>1. PICK j \in k + 1 .. Len(t) : Partners(t, k, j)
  BY LoopCloses
<1>2. j \in Closes(t, k)
  BY <1>1 DEF Closes, Partners
<1>3. \A n \in Closes(t, k) : j <= n
  <2> SUFFICES ASSUME NEW n \in Closes(t, k), n < j PROVE FALSE
    BY <1>1 DEF Closes
  <2>1. n \in k .. j - 1 /\ Depth(t, n) = Depth(t, j)
    BY <1>1 DEF Closes, Partners
  <2>2. Depth(t, n) > Depth(t, j) /\ Depth(t, n) \in Int
    BY <1>1, <2>1, DepthType DEF Partners
  <2> QED
    BY <2>1, <2>2
<1>4. \A n \in Closes(t, k) : n \in Int
  BY DEF Closes
<1>5. MatchingClose(t, k) = j
  <2>1. \A m \in Closes(t, k) : (\A n \in Closes(t, k) : m =< n) => m = j
    BY <1>2, <1>3, <1>4
  <2> QED
    BY <1>2, <1>3, <2>1 DEF MatchingClose, Min
<1> QED
  BY <1>1, <1>2, <1>5

\* What read_code leaves is a text of instructions.
LEMMA CodeOfType ==
  ASSUME NEW t \in Seq(Char)
  PROVE  CodeOf(t) \in Seq(Char)
<1>1. {i \in DOMAIN t : IsCode(t[i])} \in SUBSET DOMAIN t
  OBVIOUS
<1> QED
  BY <1>1, PickedType DEF CodeOf

\* A cell and the pointer keep their ranges.
LEMMA Ranges ==
  /\ \A x \in Int : x % CellMod \in 0 .. CellMod - 1
  /\ \A x \in Int : (x % WordMod) % MemSize \in 0 .. MemSize - 1
  /\ \A x \in Int : (x % WordMod) % MemSize = x % MemSize
  /\ 0 \in 0 .. CellMod - 1 /\ 0 \in 0 .. MemSize - 1
<1>1. CellMod \in Nat \ {0} /\ MemSize \in Nat \ {0} /\ WordMod \in Nat \ {0} /\ WordMod % MemSize = 0
  BY CellModAssumption, MemSizeAssumption
<1>2. \A x \in Int : x % CellMod \in 0 .. CellMod - 1
  BY <1>1, DivMod
<1>3. \A x \in Int : (x % WordMod) % MemSize = x % MemSize
  BY <1>1, ModMod
<1>4. \A x \in Int : x % MemSize \in 0 .. MemSize - 1
  BY <1>1, DivMod
<1> QED
  BY <1>1, <1>2, <1>3, <1>4

-----------------------------------------------------------------------------
(***************************************************************************)
(* The invariant.                                                          *)
(***************************************************************************)

LEMMA InitDirectInv ==
  ASSUME Init
  PROVE  DirectInv
<1>1. <<>> \in Seq(Char) /\ Len(<<>>) = 0
  OBVIOUS
<1>2. TypeOK
  BY <1>1, InputsAssumption, Ranges DEF Init, TypeOK, BlankTape
<1>3. Balanced(<<>>)
  <2>1. Depth(<<>>, 0) = 0
    BY <1>1, DepthType
  <2> QED
    BY <1>1, <2>1 DEF Balanced
<1> QED
  BY <1>2, <1>3 DEF Init, DirectInv, NothingUndefined, BracketInv

LEMMA AcceptKeeps ==
  ASSUME DirectInv, NEW t \in Seq(Char), Accept(t), input' \in {input, <<>>}
  PROVE  DirectInv'
<1>1. mode = "options" /\ code' = t /\ mode' = (IF ValidateCode(t) THEN mode ELSE "failed")
  BY DEF Accept
<1>2. Balanced(t) \/ mode' = "failed"
  BY <1>1, ValidateIsBalanced
<1>3. UNCHANGED <<c, stack, ptr, memory, output>>
  BY DEF Accept
<1>4. mode' \in {"options", "failed"}
  BY <1>1
<1>5. c = 0 /\ stack = <<>>
  BY <1>1 DEF DirectInv, BracketInv
<1>6. BracketInv'
  BY <1>1, <1>2, <1>3, <1>4, <1>5 DEF BracketInv
<1>7. TypeOK'
  <2>1. input' \in Seq(0 .. CellMod - 1)
    <3>1. input \in Seq(0 .. CellMod - 1) /\ <<>> \in Seq(0 .. CellMod - 1)
      BY DEF DirectInv, NothingUndefined, TypeOK
    <3> QED
      BY <3>1
  <2>2. 0 \in 0 .. Len(t) /\ <<>> \in Seq(1 .. Len(t))
    OBVIOUS
  <2> QED
    BY <1>1, <1>3, <1>4, <1>5, <2>1, <2>2 DEF DirectInv, NothingUndefined, TypeOK
<1> QED
  BY <1>4, <1>6, <1>7 DEF DirectInv, NothingUndefined

LEMMA NoFileKeeps ==
  ASSUME DirectInv, NoFile
  PROVE  DirectInv'
  BY DEF DirectInv, NothingUndefined, TypeOK, BracketInv, NoFile

LEMMA StartKeeps ==
  ASSUME DirectInv, Start
  PROVE  DirectInv'
<1>1. /\ mode = "options" /\ mode' = "running" /\ code' = code /\ input' = input
      /\ c' = 0 /\ stack' = <<>> /\ ptr' = 0 /\ memory' = BlankTape /\ output' = <<>>
  BY DEF Start
<1>2. code \in Seq(Char) /\ Balanced(code) /\ Len(code) \in Nat
  BY <1>1 DEF DirectInv, NothingUndefined, TypeOK, BracketInv
<1>3. StackInv'
  BY <1>1, <1>2, DepthType DEF StackInv
<1>4. TypeOK'
  BY <1>1, <1>2, Ranges DEF DirectInv, NothingUndefined, TypeOK, BlankTape
<1> QED
  BY <1>1, <1>2, <1>3, <1>4 DEF DirectInv, NothingUndefined, BracketInv

\* What is known when a character is obeyed.
LEMMA Reading ==
  ASSUME DirectInv, NEW ch, Reads(ch)
  PROVE  /\ code \in Seq(Char) /\ Balanced(code) /\ StackInv
         /\ Len(code) \in Nat /\ c \in 0 .. Len(code) - 1 /\ c + 1 \in 1 .. Len(code)
         /\ code[c + 1] = ch /\ mode = "running"
         /\ stack \in Seq(1 .. Len(code)) /\ Len(stack) \in Nat
         /\ DOMAIN stack = 1 .. Len(stack)
         /\ ptr \in 0 .. MemSize - 1 /\ memory \in [0 .. MemSize - 1 -> 0 .. CellMod - 1]
         /\ memory[ptr] \in 0 .. CellMod - 1
         /\ input \in Seq(0 .. CellMod - 1)
<1>1. /\ code \in Seq(Char) /\ Balanced(code) /\ StackInv /\ mode = "running"
      /\ c \in 0 .. Len(code) /\ stack \in Seq(1 .. Len(code))
      /\ ptr \in 0 .. MemSize - 1 /\ memory \in [0 .. MemSize - 1 -> 0 .. CellMod - 1]
      /\ input \in Seq(0 .. CellMod - 1)
  BY DEF DirectInv, NothingUndefined, TypeOK, BracketInv, Reads
<1>2. c < Len(code) /\ code[c + 1] = ch /\ Len(code) \in Nat
  BY <1>1 DEF Reads
<1>3. Len(stack) \in Nat /\ DOMAIN stack = 1 .. Len(stack)
  BY <1>1, LenProperties
<1>4. c \in 0 .. Len(code) - 1 /\ c + 1 \in 1 .. Len(code)
  BY <1>1, <1>2
<1>5. memory[ptr] \in 0 .. CellMod - 1
  BY <1>1
<1> QED
  BY <1>1, <1>2, <1>3, <1>4, <1>5

\* A character that is no bracket leaves the same loops open.
LEMMA PlainKeeps ==
  ASSUME DirectInv, NEW ch \in Char \ {"[", "]"}, Reads(ch), NextChar, stack' = stack
  PROVE  BracketInv' /\ c' \in 0 .. Len(code)' /\ stack' \in Seq(1 .. Len(code))'
<1>1. /\ code \in Seq(Char) /\ Balanced(code) /\ StackInv
      /\ Len(code) \in Nat /\ c \in 0 .. Len(code) - 1 /\ c + 1 \in 1 .. Len(code)
      /\ code[c + 1] = ch /\ mode = "running"
      /\ stack \in Seq(1 .. Len(code)) /\ Len(stack) \in Nat
      /\ DOMAIN stack = 1 .. Len(stack)
  BY Reading
<1>2. c' = c + 1 /\ code' = code /\ mode' = mode
  BY DEF NextChar
<1>3. Depth(code, c + 1) = Depth(code, c)
  <2> DEFINE k == c + 1
  <2>1. k \in 1 .. Len(code) /\ k - 1 = c /\ code[k] = ch
    BY <1>1
  <2> HIDE DEF k
  <2>2. Depth(code, k) = Depth(code, k - 1)
    BY <1>1, <2>1, DepthAround
  <2> QED
    BY <2>1, <2>2 DEF k
<1>4. ASSUME NEW i \in DOMAIN stack
      PROVE  OpenAt(code, stack[i], c + 1) /\ Depth(code, stack[i]) = i
  <2>1. OpenAt(code, stack[i], c) /\ Depth(code, stack[i]) = i
    BY <1>1 DEF StackInv
  <2>2. Depth(code, c + 1) >= i
    BY <1>1, <1>3 DEF StackInv
  <2> QED
    BY <1>1, <2>1, <2>2, OpenStays
<1>5. StackInv'
  BY <1>1, <1>2, <1>3, <1>4 DEF StackInv
<1> QED
  BY <1>1, <1>2, <1>5 DEF BracketInv

\* A '[' finds its partner, and becomes the innermost open one if it is entered.
LEMMA OpenKeeps ==
  ASSUME DirectInv, Open
  PROVE  DirectInv'
<1>1. /\ code \in Seq(Char) /\ Balanced(code) /\ StackInv
      /\ Len(code) \in Nat /\ c \in 0 .. Len(code) - 1 /\ c + 1 \in 1 .. Len(code)
      /\ code[c + 1] = "[" /\ mode = "running"
      /\ stack \in Seq(1 .. Len(code)) /\ Len(stack) \in Nat
      /\ DOMAIN stack = 1 .. Len(stack)
  BY Reading DEF Open
<1>2. UNCHANGED <<code, ptr, memory, input>> /\ output' = <<>>
  BY DEF Open, NoIO
<1> DEFINE k == c + 1
           m == MatchingClose(code, k)
           n == Len(stack)
<1>3. k \in 1 .. Len(code) /\ k - 1 = c /\ code[k] = "[" /\ k \in Int
  BY <1>1
<1>4. /\ Closes(code, k) # {} /\ m \in k + 1 .. Len(code) /\ Partners(code, k, m)
  <2> HIDE DEF k
  <2> QED
    BY <1>1, <1>3, ScanFindsPartner
<1>5. Depth(code, k) = n + 1 /\ Depth(code, c) = n /\ Depth(code, m) = n
  <2> HIDE DEF k, m, n
  <2>1. Depth(code, k) = Depth(code, k - 1) + 1
    BY <1>1, <1>3, DepthAround
  <2>2. Depth(code, c) = n
    BY <1>1 DEF StackInv, n
  <2> QED
    BY <1>3, <1>4, <2>1, <2>2 DEF Partners
<1> HIDE DEF m
<1>6. CASE memory[ptr] # 0
  <2>1. stack' = Append(stack, k) /\ c' = k /\ mode' = mode
    BY <1>6 DEF Open
  <2>2. /\ stack' \in Seq(1 .. Len(code)) /\ Len(stack') = n + 1
        /\ DOMAIN stack' = 1 .. n + 1
        /\ \A i \in 1 .. n : stack'[i] = stack[i]
        /\ stack'[n + 1] = k
    <3> HIDE DEF k
    <3> QED
      BY <1>1, <1>3, <2>1, AppendProperties
  <2> HIDE DEF n
  <2>3. ASSUME NEW i \in 1 .. n + 1
        PROVE  OpenAt(code, stack'[i], k) /\ Depth(code, stack'[i]) = i
    <3>1. CASE i = n + 1
      <4> HIDE DEF k
      <4> QED
        BY <1>1, <1>3, <1>5, <2>2, <3>1, OpenNow
    <3>2. CASE i # n + 1
      <4>1. i \in DOMAIN stack /\ i \in Int /\ i <= n /\ stack'[i] = stack[i]
        BY <1>1, <2>2, <3>2 DEF n
      <4>2. OpenAt(code, stack[i], c) /\ Depth(code, stack[i]) = i
        BY <1>1, <4>1 DEF StackInv
      <4>3. Depth(code, c + 1) >= i
        BY <1>1, <1>5, <4>1 DEF n
      <4> QED
        BY <1>1, <4>1, <4>2, <4>3, OpenStays
    <3> QED
      BY <3>1, <3>2
  <2>4. StackInv'
    BY <1>2, <1>5, <2>1, <2>2, <2>3 DEF StackInv
  <2> QED
    BY <1>1, <1>2, <1>3, <2>1, <2>2, <2>4
       DEF DirectInv, NothingUndefined, TypeOK, BracketInv
<1>7. CASE memory[ptr] = 0
  <2>1. c' = m /\ stack' = stack /\ mode' = mode
    BY <1>4, <1>7 DEF Open, m
  <2>2. m \in 1 .. Len(code) /\ m \in 0 .. Len(code)
    BY <1>1, <1>4
  <2>3. ASSUME NEW i \in DOMAIN stack
        PROVE  OpenAt(code, stack[i], m) /\ Depth(code, stack[i]) = i
    <3>1. OpenAt(code, stack[i], c) /\ Depth(code, stack[i]) = i
      BY <1>1 DEF StackInv
    <3>2. c \in 0 .. Len(code) /\ Partners(code, c + 1, m)
      BY <1>1, <1>4
    <3> QED
      BY <1>1, <2>2, <3>1, <3>2, OpenOverLoop
  <2>4. StackInv'
    BY <1>1, <1>2, <1>5, <2>1, <2>3 DEF StackInv
  <2> QED
    BY <1>1, <1>2, <2>1, <2>2, <2>4
       DEF DirectInv, NothingUndefined, TypeOK, BracketInv
<1> QED
  BY <1>6, <1>7

\* A ']' finds its partner on the top of the stack.
LEMMA TopIsPartner ==
  ASSUME DirectInv, Reads("]")
  PROVE  /\ stack # <<>> /\ Len(stack) \in 1 .. Depth(code, c)
         /\ Last(stack) \in 1 .. Len(code)
         /\ Partners(code, Last(stack), c + 1)
         /\ Depth(code, c + 1) = Len(stack) - 1
         /\ OpenAt(code, Last(stack), c) /\ Depth(code, Last(stack)) = Len(stack)
<1>1. /\ code \in Seq(Char) /\ Balanced(code) /\ StackInv
      /\ Len(code) \in Nat /\ c \in 0 .. Len(code) - 1 /\ c + 1 \in 1 .. Len(code)
      /\ code[c + 1] = "]"
      /\ stack \in Seq(1 .. Len(code)) /\ Len(stack) \in Nat
      /\ DOMAIN stack = 1 .. Len(stack)
  BY Reading
<1> DEFINE k == c + 1
           n == Len(stack)
<1>2. Depth(code, c) = n /\ Depth(code, k) = n - 1 /\ n - 1 >= 0
  <2>1. k \in 1 .. Len(code) /\ k \in 0 .. Len(code) /\ k - 1 = c /\ code[k] = "]"
    BY <1>1
  <2>2. Depth(code, c) = n
    BY <1>1 DEF StackInv
  <2> HIDE DEF k, n
  <2>3. Depth(code, k) = Depth(code, k - 1) - 1
    BY <1>1, <2>1, DepthAround
  <2>4. Depth(code, k) >= 0
    BY <1>1, <2>1 DEF Balanced
  <2> QED
    BY <2>1, <2>2, <2>3, <2>4
<1>3. n \in DOMAIN stack /\ n \in Nat /\ stack # <<>>
  BY <1>1, <1>2
<1>4. Last(stack) = stack[n] /\ stack[n] \in 1 .. Len(code)
  BY <1>1, <1>3 DEF Last
<1>5. OpenAt(code, stack[n], c) /\ Depth(code, stack[n]) = n
  BY <1>1, <1>3 DEF StackInv
<1>6. Partners(code, stack[n], c + 1)
  BY <1>1, <1>2, <1>5, NextCloses
<1> QED
  BY <1>2, <1>3, <1>4, <1>5, <1>6

LEMMA CloseKeeps ==
  ASSUME DirectInv, Close
  PROVE  DirectInv'
<1>1. /\ code \in Seq(Char) /\ Balanced(code) /\ StackInv
      /\ Len(code) \in Nat /\ c \in 0 .. Len(code) - 1 /\ c + 1 \in 1 .. Len(code)
      /\ code[c + 1] = "]" /\ mode = "running"
      /\ stack \in Seq(1 .. Len(code)) /\ Len(stack) \in Nat
      /\ DOMAIN stack = 1 .. Len(stack)
  BY Reading DEF Close
<1>2. UNCHANGED <<code, ptr, memory, input>> /\ output' = <<>>
  BY DEF Close, NoIO
<1> DEFINE top == Last(stack)
           n == Len(stack)
<1>3. /\ stack # <<>> /\ n >= 1 /\ n \in Nat
      /\ top \in 1 .. Len(code) /\ Partners(code, top, c + 1)
      /\ Depth(code, c + 1) = n - 1 /\ Depth(code, c) = n
      /\ OpenAt(code, top, c) /\ Depth(code, top) = n
  BY <1>1, TopIsPartner DEF Close, StackInv
<1>4. mode' = mode
  BY <1>3 DEF Close
<1>5. CASE memory[ptr] # 0
  <2>1. c' = top /\ stack' = stack
    BY <1>3, <1>5 DEF Close
  <2> HIDE DEF top, n
  <2>2. ASSUME NEW i \in DOMAIN stack
        PROVE  OpenAt(code, stack[i], top) /\ Depth(code, stack[i]) = i
    <3>1. OpenAt(code, stack[i], c) /\ Depth(code, stack[i]) = i
      BY <1>1 DEF StackInv
    <3>2. CASE i = n
      <4>1. stack[i] = top
        BY <3>2 DEF Last, top, n
      <4>2. code[top] = "["
        BY <1>3 DEF OpenAt
      <4> QED
        BY <1>1, <1>3, <3>1, <4>1, <4>2, OpenNow
    <3>3. CASE i # n
      <4>1. Depth(code, stack[i]) < Depth(code, top)
        BY <1>1, <1>3, <3>1, <3>3 DEF n
      <4>2. c \in 0 .. Len(code)
        BY <1>1
      <4> QED
        BY <1>1, <1>3, <3>1, <4>1, <4>2, DeeperIsInside
    <3> QED
      BY <3>2, <3>3
  <2>3. StackInv'
    BY <1>1, <1>2, <1>3, <2>1, <2>2 DEF StackInv, n
  <2>4. top \in 0 .. Len(code)
    BY <1>1, <1>3
  <2> QED
    BY <1>1, <1>2, <1>4, <2>1, <2>3, <2>4
       DEF DirectInv, NothingUndefined, TypeOK, BracketInv
<1>6. CASE memory[ptr] = 0
  <2>1. c' = c + 1 /\ stack' = Front(stack)
    BY <1>3, <1>6 DEF Close
  <2>2. /\ stack' \in Seq(1 .. Len(code)) /\ Len(stack') = n - 1
        /\ DOMAIN stack' = 1 .. n - 1
        /\ \A i \in 1 .. n - 1 : stack'[i] = stack[i]
    <3>1. stack' = SubSeq(stack, 1, n - 1) /\ n - 1 <= Len(stack) /\ n - 1 \in Nat
      BY <1>3, <2>1 DEF Front
    <3> HIDE DEF n
    <3> QED
      BY <1>1, <3>1
  <2> HIDE DEF n
  <2>3. ASSUME NEW i \in 1 .. n - 1
        PROVE  OpenAt(code, stack'[i], c + 1) /\ Depth(code, stack'[i]) = i
    <3>0. n \in Nat /\ DOMAIN stack = 1 .. n
      BY <1>1 DEF n
    <3>1. i \in DOMAIN stack /\ stack'[i] = stack[i] /\ i \in Int /\ i <= n - 1
      BY <2>2, <3>0
    <3>2. OpenAt(code, stack[i], c) /\ Depth(code, stack[i]) = i
      BY <1>1, <3>1 DEF StackInv
    <3>3. Depth(code, c + 1) >= i
      BY <1>3, <3>1
    <3> QED
      BY <1>1, <3>1, <3>2, <3>3, OpenStays
  <2>4. StackInv'
    BY <1>1, <1>2, <1>3, <2>1, <2>2, <2>3 DEF StackInv
  <2> QED
    BY <1>1, <1>2, <1>4, <2>1, <2>2, <2>4
       DEF DirectInv, NothingUndefined, TypeOK, BracketInv
<1> QED
  BY <1>5, <1>6

\* The characters that are no brackets.
LEMMA PlainStepKeeps ==
  ASSUME DirectInv, mode = "running",
         \/ AddTo("+", 1) \/ AddTo("-", -1) \/ MoveBy(">", 1) \/ MoveBy("<", -1)
         \/ In \/ Out \/ Other
  PROVE  DirectInv'
<1>1. PICK ch \in Char \ {"[", "]"} : Reads(ch) /\ NextChar
  BY DEF AddTo, MoveBy, In, Out, Other, Char, InstructionChar, Arith, Moves
<1>2. stack' = stack
  BY DEF AddTo, MoveBy, In, Out, Other
<1>3. BracketInv' /\ c' \in 0 .. Len(code)' /\ stack' \in Seq(1 .. Len(code))'
  BY <1>1, <1>2, PlainKeeps
<1>4. /\ ptr \in 0 .. MemSize - 1 /\ memory \in [0 .. MemSize - 1 -> 0 .. CellMod - 1]
      /\ memory[ptr] \in 0 .. CellMod - 1 /\ input \in Seq(0 .. CellMod - 1)
  BY <1>1, Reading
<1>5. <<>> \in Seq(0 .. CellMod - 1)
  OBVIOUS
<1> DEFINE Typed == /\ ptr' \in 0 .. MemSize - 1
                    /\ memory' \in [0 .. MemSize - 1 -> 0 .. CellMod - 1]
                    /\ input' \in Seq(0 .. CellMod - 1) /\ output' \in Seq(0 .. CellMod - 1)
<1>6. Typed
  <2>1. ASSUME NEW d \in {1, -1}, NEW x, AddTo(x, d)
        PROVE  Typed
    <3>1. (memory[ptr] + d) % CellMod \in 0 .. CellMod - 1
      <4>1. memory[ptr] + d \in Int
        BY <1>4
      <4> QED
        BY <4>1, Ranges
    <3> QED
      BY <1>4, <1>5, <2>1, <3>1 DEF AddTo, NoIO
  <2>2. ASSUME NEW d \in {1, -1}, NEW x, MoveBy(x, d)
        PROVE  Typed
    <3>1. ((ptr + d) % WordMod) % MemSize \in 0 .. MemSize - 1
      <4>1. ptr + d \in Int
        BY <1>4
      <4> QED
        BY <4>1, Ranges
    <3> QED
      BY <1>4, <1>5, <2>2, <3>1 DEF MoveBy, NoIO
  <2>3. CASE In
    <3>1. input # <<>> => Head(input) \in 0 .. CellMod - 1 /\ Tail(input) \in Seq(0 .. CellMod - 1)
      BY <1>4, HeadTailProperties
    <3>2. /\ memory' = [memory EXCEPT ![ptr] = IF input = <<>> THEN 0 ELSE Head(input)]
          /\ input' = IF input = <<>> THEN <<>> ELSE Tail(input)
          /\ output' = <<>> /\ ptr' = ptr
      BY <2>3 DEF In
    <3> QED
      BY <1>4, <1>5, <3>1, <3>2, Ranges
  <2>4. CASE Out
    BY <1>4, <2>4 DEF Out
  <2>5. CASE Other
    BY <1>4, <1>5, <2>5 DEF Other, NoIO
  <2> QED
    BY <2>1, <2>2, <2>3, <2>4, <2>5
<1>7. mode' = mode /\ code' = code /\ code \in Seq(Char)
  BY <1>1 DEF NextChar, DirectInv, NothingUndefined, TypeOK
<1> QED
  BY <1>3, <1>6, <1>7 DEF DirectInv, NothingUndefined, TypeOK

LEMMA FinishKeeps ==
  ASSUME DirectInv, Finish
  PROVE  DirectInv'
<1>1. /\ mode = "running" /\ mode' = "finished" /\ output' = <<>>
      /\ UNCHANGED <<code, c, stack, ptr, memory, input>>
  BY DEF Finish, NoIO
<1>2. Balanced(code) /\ StackInv /\ TypeOK
  BY <1>1 DEF DirectInv, NothingUndefined, BracketInv
<1>3. StackInv'
  BY <1>1, <1>2 DEF StackInv
<1>4. TypeOK'
  <2>1. <<>> \in Seq(0 .. CellMod - 1)
    OBVIOUS
  <2> QED
    BY <1>1, <1>2, <2>1 DEF TypeOK
<1> QED
  BY <1>1, <1>2, <1>3, <1>4 DEF DirectInv, NothingUndefined, BracketInv

LEMMA NextKeepsDirectInv ==
  ASSUME DirectInv, [Next]_dvars
  PROVE  DirectInv'
<1>1. ASSUME NEW t \in Sources, SetCode(t) \/ ReadCode(t) \/ ReadStdin(t)
      PROVE  DirectInv'
  <2>1. t \in Seq(Char) /\ CodeOf(t) \in Seq(Char)
    BY SourcesAssumption, CodeOfType
  <2>2. \E u \in Seq(Char) : Accept(u) /\ input' \in {input, <<>>}
    BY <1>1, <2>1 DEF SetCode, ReadCode, ReadStdin
  <2> QED
    BY <2>2, AcceptKeeps
<1>2. CASE NoFile
  BY <1>2, NoFileKeeps
<1>3. CASE Start
  BY <1>3, StartKeeps
<1>4. CASE Interprete
  <2>1. mode = "running"
    BY <1>4 DEF Interprete, AddTo, MoveBy, Open, Close, In, Out, Other, Finish, Reads
  <2> QED
    BY <1>4, <2>1, OpenKeeps, CloseKeeps, PlainStepKeeps, FinishKeeps DEF Interprete
<1>5. CASE UNCHANGED dvars
  BY <1>5 DEF dvars, DirectInv, NothingUndefined, TypeOK, BracketInv, StackInv
<1> QED
  BY <1>1, <1>2, <1>3, <1>4, <1>5 DEF Next

\* DirectInv holds in every reachable state.
THEOREM DirectInvariant == Spec => []DirectInv
<1>1. Init => DirectInv
  BY InitDirectInv
<1>2. DirectInv /\ [Next]_dvars => DirectInv'
  BY NextKeepsDirectInv
<1> QED
  BY <1>1, <1>2, PTL DEF Spec

\* interprete, which tests neither its stack nor the end of its text, never
\* touches what is not there: validate_code has accepted the text.
THEOREM DirectIsDefined == Spec => []NothingUndefined
<1>1. DirectInv => NothingUndefined
  BY DEF DirectInv
<1> QED
  BY <1>1, DirectInvariant, PTL

\* Whatever has been skipped and repeated, the stack is the loops around the
\* iterator.
THEOREM DirectStackIsOpenBrackets == Spec => []StackIsOpenBrackets
<1>1. DirectInv => StackIsOpenBrackets
  <2> SUFFICES ASSUME DirectInv, mode \in {"running", "finished"}, NEW i \in DOMAIN stack
               PROVE  /\ Len(stack) = Depth(code, c)
                      /\ code[stack[i]] = "[" /\ stack[i] <= c
                      /\ Depth(code, stack[i]) = i
                      /\ MatchingClose(code, stack[i]) > c
    BY DEF StackIsOpenBrackets, DirectInv, BracketInv, StackInv
  <2>1. /\ code \in Seq(Char) /\ Balanced(code) /\ c \in 0 .. Len(code)
        /\ Len(stack) = Depth(code, c)
        /\ OpenAt(code, stack[i], c) /\ Depth(code, stack[i]) = i
    BY DEF DirectInv, NothingUndefined, TypeOK, BracketInv, StackInv
  <2> DEFINE p == stack[i]
             m == MatchingClose(code, p)
  <2>2. p \in 1 .. Len(code) /\ p <= c /\ code[p] = "["
    BY <2>1 DEF OpenAt
  <2> HIDE DEF p
  <2>3. m \in p + 1 .. Len(code) /\ Depth(code, m) = Depth(code, p - 1)
    BY <2>1, <2>2, ScanFindsPartner DEF Closes
  <2> HIDE DEF m
  <2>4. m > c
    BY <2>1, <2>3, OpenClosesLater DEF p
  <2> QED
    BY <2>1, <2>2, <2>4 DEF p, m
<1> QED
  BY <1>1, DirectInvariant, PTL

-----------------------------------------------------------------------------
(***************************************************************************)
(* Every step is one of Language, or none.                                 *)
(***************************************************************************)

LEMMA StatusOf ==
  /\ mode = "running"                 => Status = "running"
  /\ mode = "finished"                => Status = "ended"
  /\ mode \in {"options", "failed"}   => Status = "idle"
  BY DEF Status

LEMMA StatusOfNext ==
  /\ mode' = "running"                => Status' = "running"
  /\ mode' = "finished"               => Status' = "ended"
  /\ mode' \in {"options", "failed"}  => Status' = "idle"
  BY DEF Status

\* Language and the interpreter mean the same by balanced and by partners.
LEMMA LangSame ==
  /\ \A t : Lang!Balanced(t) <=> Balanced(t)
  /\ \A t, i, j : Lang!Partners(t, i, j) <=> Partners(t, i, j)
<1>1. \A t, k : Lang!Depth(t, k) = Depth(t, k)
  BY DEF Lang!Depth, Depth, Lang!Net, Net, Lang!Cardinality, Cardinality, Lang!IsFiniteSet, IsFiniteSet
<1> QED
  BY <1>1 DEF Lang!Balanced, Balanced, Lang!Partners, Partners

LEMMA InitIsInit ==
  ASSUME Init
  PROVE  Lang!Init
<1>1. Status = "idle"
  BY StatusOf DEF Init
<1> QED
  BY <1>1, InputsAssumption DEF Init, Lang!Init, BlankTape, Lang!Blank

\* Every option that is accepted or rejected is a Load.
LEMMA AcceptIsLoad ==
  ASSUME NEW t \in Texts, Accept(t), input' \in {input, <<>>}
  PROVE  Lang!Load
<1>1. /\ mode = "options" /\ mode' \in {"options", "failed"} /\ code' = t
      /\ UNCHANGED <<c, stack, ptr, memory, output>>
  BY DEF Accept
<1>2. Status = "idle" /\ Status' = "idle"
  BY <1>1, StatusOf, StatusOfNext
<1> QED
  BY <1>1, <1>2 DEF Lang!Load

LEMMA StartIsStart ==
  ASSUME DirectInv, Start
  PROVE  Lang!Start
<1>1. mode = "options" /\ mode' = "running" /\ Balanced(code)
  BY DEF Start, DirectInv, BracketInv
<1>2. Status = "idle" /\ Status' = "running"
  BY <1>1, StatusOf, StatusOfNext
<1> QED
  BY <1>1, <1>2, LangSame DEF Start, Lang!Start, BlankTape, Lang!Blank

\* The next character, and going on to the one behind it.
LEMMA ReadsIsIs ==
  ASSUME NEW ch, Reads(ch)
  PROVE  /\ Lang!Is(ch) /\ (NoIO => Lang!Silent)
         /\ NextChar => Lang!Continue
         /\ mode' = mode => Status' = Status
<1>1. Status = "running" /\ mode = "running"
  BY StatusOf DEF Reads
<1>2. mode' = mode => Status' = Status
  BY <1>1, StatusOfNext
<1> QED
  BY <1>1, <1>2 DEF Reads, Lang!Is, NextChar, Lang!Continue, NoIO, Lang!Silent

LEMMA OpenIsPassOrEnter ==
  ASSUME DirectInv, Open
  PROVE  Lang!Enter \/ Lang!Pass
<1>1. /\ code \in Seq(Char) /\ Balanced(code) /\ Len(code) \in Nat
      /\ c \in 0 .. Len(code) - 1 /\ c + 1 \in 1 .. Len(code) /\ code[c + 1] = "["
  BY Reading DEF Open
<1> DEFINE k == c + 1
           m == MatchingClose(code, k)
<1>2. Closes(code, k) # {} /\ m \in k + 1 .. Len(code) /\ Partners(code, k, m)
  <2>1. k \in 1 .. Len(code) /\ code[k] = "["
    BY <1>1
  <2> HIDE DEF k
  <2> QED
    BY <1>1, <2>1, ScanFindsPartner
<1>3. Reads("[") /\ NoIO /\ UNCHANGED <<code, ptr, memory>>
  BY DEF Open
<1>4. mode' = mode
  BY <1>2 DEF Open
<1>5. Lang!Is("[") /\ Lang!Silent /\ UNCHANGED <<code, Status, ptr, memory>>
  BY <1>3, <1>4, ReadsIsIs
<1>6. CASE memory[ptr] # 0
  <2>1. c' = c + 1
    BY <1>6 DEF Open
  <2> QED
    BY <1>5, <1>6, <2>1 DEF Lang!Enter, Lang!Continue
<1>7. CASE memory[ptr] = 0
  <2>1. c' = m
    BY <1>2, <1>7 DEF Open
  <2>2. m \in DOMAIN code
    BY <1>1, <1>2
  <2> HIDE DEF m
  <2> QED
    BY <1>2, <1>5, <1>7, <2>1, <2>2, LangSame DEF Lang!Pass
<1> QED
  BY <1>6, <1>7

LEMMA CloseIsRepeatOrLeave ==
  ASSUME DirectInv, Close
  PROVE  Lang!Repeat \/ Lang!Leave
<1>1. Reads("]") /\ NoIO /\ UNCHANGED <<code, ptr, memory>>
  BY DEF Close
<1>2. /\ stack # <<>> /\ Last(stack) \in 1 .. Len(code)
      /\ Partners(code, Last(stack), c + 1)
  BY <1>1, TopIsPartner
<1>3. mode' = mode
  BY <1>2 DEF Close
<1>4. Lang!Is("]") /\ Lang!Silent /\ UNCHANGED <<code, Status, ptr, memory>>
  BY <1>1, <1>3, ReadsIsIs
<1>5. CASE memory[ptr] # 0
  <2>1. c' = Last(stack)
    BY <1>2, <1>5 DEF Close
  <2>2. Last(stack) \in DOMAIN code
    BY <1>1, <1>2, Reading
  <2> QED
    BY <1>2, <1>4, <1>5, <2>1, <2>2, LangSame DEF Lang!Repeat
<1>6. CASE memory[ptr] = 0
  <2>1. c' = c + 1
    BY <1>2, <1>6 DEF Close
  <2> QED
    BY <1>4, <1>6, <2>1 DEF Lang!Leave, Lang!Continue
<1> QED
  BY <1>5, <1>6

LEMMA PlainStepIsObey ==
  ASSUME DirectInv,
         \/ AddTo("+", 1) \/ AddTo("-", -1) \/ MoveBy(">", 1) \/ MoveBy("<", -1)
         \/ In \/ Out \/ Other
  PROVE  Lang!Obey
<1>1. CASE AddTo("+", 1) \/ AddTo("-", -1)
  <2>1. PICK ch \in {"+", "-"} : Reads(ch)
    BY <1>1 DEF AddTo
  <2>2. memory[ptr] \in Int
    BY <2>1, Reading
  <2>3. memory[ptr] + (-1) = memory[ptr] - 1
    BY <2>2
  <2>4. [memory EXCEPT ![ptr] = (@ + (-1)) % CellMod] = [memory EXCEPT ![ptr] = (@ - 1) % CellMod]
    BY <2>3
  <2>5. Lang!Change
    BY <1>1, <2>4, ReadsIsIs DEF AddTo, Lang!Change
  <2> QED
    BY <2>5 DEF Lang!Obey
<1>2. CASE MoveBy(">", 1) \/ MoveBy("<", -1)
  <2>1. PICK ch \in {">", "<"} : Reads(ch)
    BY <1>2 DEF MoveBy
  <2>2. ptr \in Int /\ ptr + 1 \in Int /\ ptr + (-1) \in Int /\ ptr + (-1) = ptr - 1
    BY <2>1, Reading
  <2>3. /\ ((ptr + 1) % WordMod) % MemSize = (ptr + 1) % MemSize
        /\ ((ptr + (-1)) % WordMod) % MemSize = (ptr - 1) % MemSize
    BY <2>2, Ranges
  <2>4. Lang!Shift
    BY <1>2, <2>3, ReadsIsIs DEF MoveBy, Lang!Shift
  <2> QED
    BY <2>4 DEF Lang!Obey
<1>3. CASE In
  BY <1>3, ReadsIsIs DEF In, Lang!Read, Lang!Obey
<1>4. CASE Out
  BY <1>4, ReadsIsIs DEF Out, Lang!Write, Lang!Obey
<1>5. CASE Other
  BY <1>5, ReadsIsIs DEF Other, Lang!Comment, Lang!Obey
<1> QED
  BY <1>1, <1>2, <1>3, <1>4, <1>5

LEMMA FinishIsEnd ==
  ASSUME Finish
  PROVE  Lang!End
<1>1. Status = "running" /\ Status' = "ended"
  BY StatusOf, StatusOfNext DEF Finish
<1> QED
  BY <1>1 DEF Finish, NoIO, Lang!End, Lang!Silent

LEMMA NextIsNext ==
  ASSUME DirectInv, [Next]_dvars
  PROVE  [Lang!Next]_(Lang!langvars)
<1>1. ASSUME NEW t \in Sources, SetCode(t) \/ ReadCode(t) \/ ReadStdin(t)
      PROVE  Lang!Next
  <2>1. \E u \in Texts : Accept(u) /\ input' \in {input, <<>>}
    BY <1>1 DEF SetCode, ReadCode, ReadStdin, Texts
  <2> QED
    BY <2>1, AcceptIsLoad DEF Lang!Next
<1>2. CASE NoFile
  <2>1. Status = "idle" /\ Status' = "idle"
    BY <1>2, StatusOf, StatusOfNext DEF NoFile
  <2> QED
    BY <1>2, <2>1 DEF NoFile, Lang!langvars
<1>3. CASE Start
  BY <1>3, StartIsStart DEF Lang!Next
<1>4. CASE Interprete
  BY <1>4, OpenIsPassOrEnter, CloseIsRepeatOrLeave, PlainStepIsObey, FinishIsEnd
     DEF Interprete, Lang!Next, Lang!Obey
<1>5. CASE UNCHANGED dvars
  BY <1>5 DEF dvars, Lang!langvars, Status
<1> QED
  BY <1>1, <1>2, <1>3, <1>4, <1>5 DEF Next

\* bf does what the language says: it finds the ends of loops by its scan and its
\* stack, wraps its pointer as a word first, and refuses unbalanced texts, and
\* each of its steps is one of Language or none.  ObeysLanguage says in addition
\* that it goes on.
THEOREM DirectImplementsLanguage ==
  Spec => Lang!Init /\ [][Lang!Next]_(Lang!langvars)
<1>1. Init => Lang!Init
  BY InitIsInit
<1>2. DirectInv /\ [Next]_dvars => [Lang!Next]_(Lang!langvars)
  BY NextIsNext
<1> QED
  BY <1>1, <1>2, DirectInvariant, PTL DEF Spec
=============================================================================
