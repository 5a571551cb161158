--------------------------- MODULE LockstepProofs ---------------------------
(***************************************************************************)
(* The optimised code does what the source says, for every source, every   *)
(* input and every size of the cells and of the tape.                      *)
(*                                                                         *)
(* The invariant relates three things.  PieceInv and JumpInv say, for each *)
(* instruction, which piece of the source it was translated from and that  *)
(* it means what that piece says: a run's net, the brackets of a jump, the *)
(* text of a clearing, scanning or multiplying loop.  Met says that the    *)
(* machine, at the first instruction of a piece, has the tape the          *)
(* interpreter has before that piece; Middle says where it is inside the   *)
(* MULs of one loop.  Following says what the interpreter, behind the      *)
(* machine, has still to do to the tape until it gets to the target.       *)
(*                                                                         *)
(* A multiplying loop takes the interpreter as many turns as its cell      *)
(* counts, and the machine one step per pair.  MulLeft says, anywhere      *)
(* inside the loop, that the rest of this turn and the turns that its cell *)
(* still counts make of the interpreter's tape what the MULs have made of  *)
(* the machine's.  It holds when no pair comes back to the loop's cell     *)
(* (HomeKept), which is what HomeUntouched says of the code.               *)
(*                                                                         *)
(* The proofs about translate (BrainfunkProofs) and about bf               *)
(* (DirectBFProofs) are instantiated in the last part only, where what     *)
(* they contribute is put in this module's terms: IInv' after a step of    *)
(* translate, and Stepped, the meaning of a step of bf.                    *)
(***************************************************************************)
EXTENDS Lockstep, Lemmas, SequenceTheorems

-----------------------------------------------------------------------------
(***************************************************************************)
(* The interpreter's steps, one text at a time.                            *)
(***************************************************************************)

Home == dmemory[dptr]

\* Where the bracket behind the first p characters leads.
Lands(p, q) ==
  \/ src[p + 1] = "[" /\ Home # 0 /\ q = p + 1
  \/ src[p + 1] = "[" /\ Home = 0 /\ Partners(src, p + 1, q)
  \/ src[p + 1] = "]" /\ Home = 0 /\ q = p + 1
  \/ src[p + 1] = "]" /\ Home # 0 /\ Partners(src, q, p + 1)

Quietly == UNCHANGED dinput /\ doutput' = <<>>

Adds ==
  /\ src[c + 1] \in Arith /\ c' = c + 1 /\ UNCHANGED dptr /\ Quietly
  /\ dmemory' = [dmemory EXCEPT ![dptr] = (@ + Net(src, "+", "-", {c + 1})) % CellMod]

Shifts ==
  /\ src[c + 1] \in Moves /\ c' = c + 1 /\ UNCHANGED dmemory /\ Quietly
  /\ dptr' = (dptr + Net(src, ">", "<", {c + 1})) % MemSize

Reads ==
  /\ src[c + 1] = "," /\ c' = c + 1 /\ UNCHANGED dptr /\ doutput' = <<>>
  /\ dmemory' = [dmemory EXCEPT ![dptr] = IF dinput = <<>> THEN 0 ELSE Head(dinput)]
  /\ dinput' = IF dinput = <<>> THEN <<>> ELSE Tail(dinput)

Writes ==
  /\ src[c + 1] = "." /\ c' = c + 1 /\ UNCHANGED <<dptr, dmemory, dinput>>
  /\ doutput' = <<dmemory[dptr]>>

Ignores ==
  /\ src[c + 1] = "#" /\ c' = c + 1 /\ UNCHANGED <<dptr, dmemory>> /\ Quietly

Branches ==
  /\ src[c + 1] \in {"[", "]"} /\ c' \in 1 .. Len(src) /\ Lands(c, c')
  /\ UNCHANGED <<dptr, dmemory>> /\ Quietly

Obeys ==
  /\ c < Len(src) /\ mode' = "running"
  /\ Adds \/ Shifts \/ Reads \/ Writes \/ Ignores \/ Branches

Ends ==
  /\ c = Len(src) /\ mode' = "finished"
  /\ UNCHANGED <<c, dptr, dmemory>> /\ Quietly

\* What the steps of the interpreter need of its state.
Sound ==
  /\ src \in Seq(Char) /\ c \in 0 .. Len(src)
  /\ dptr \in Address /\ dmemory \in [Address -> Cell]
  /\ dinput \in Seq(Cell) /\ doutput \in Seq(Cell)
  /\ mode = "running" =>
       /\ Balanced(src)
       /\ \A k \in 1 .. Len(src) : src[k] = "[" =>
            /\ D!MatchingClose(src, k) \in k + 1 .. Len(src)
            /\ Partners(src, k, D!MatchingClose(src, k))

\* A step of the interpreter has been one of these.
Stepped == Sound' /\ src' = src /\ mode = "running" /\ (Obeys \/ Ends)

\* The types of the interpreter's state.
LEMMA DirectTypes ==
  ASSUME Sound
  PROVE  /\ src \in Seq(Char) /\ Len(src) \in Nat /\ c \in 0 .. Len(src) /\ c \in Int
         /\ dptr \in Address /\ dptr \in Int /\ dmemory \in [Address -> Cell]
         /\ Home \in Cell /\ Home \in Int
         /\ dinput \in Seq(Cell) /\ doutput \in Seq(Cell)
         /\ mode = "running" => Balanced(src)
<1>1. /\ src \in Seq(Char) /\ c \in 0 .. Len(src)
      /\ dptr \in Address /\ dmemory \in [Address -> Cell]
      /\ dinput \in Seq(Cell) /\ doutput \in Seq(Cell)
      /\ mode = "running" => Balanced(src)
  BY DEF Sound
<1>2. Address \subseteq Int /\ Cell \subseteq Int
  BY DEF Address, Cell
<1>3. Home \in Cell
  BY <1>1 DEF Home
<1>4. Len(src) \in Nat /\ c \in Int
  BY <1>1
<1> QED
  BY <1>1, <1>2, <1>3, <1>4

-----------------------------------------------------------------------------
(***************************************************************************)
(* The text of a multiplying loop.                                         *)
(***************************************************************************)

Shift(t, j) == Net(t, ">", "<", 1 .. j)

\* What the additions of t at the positions in J do to the cell x when the
\* loop starts at the cell h.
Touch(t, h, x, J) ==
  Net(t, "+", "-", {j \in J : (h + Shift(t, j)) % MemSize = x})

MulText(t) ==
  /\ t \in Seq(Char) /\ \A i \in DOMAIN t : t[i] \in Arith \cup Moves
  /\ IsMulLoop(t)

\* The '-' that is no pair.
LoneAt(t) == IF t[1] = "-" THEN 1 ELSE Len(t)

\* The classes of characters are disjoint.
LEMMA CharClasses ==
  /\ \A ch \in Arith : ch \notin Moves /\ ch \notin {"[", "]", "#", ",", "."}
  /\ \A ch \in Moves : ch \notin Arith /\ ch \notin {"[", "]", "#", ",", "."}
  /\ \A ch : ch \in Arith <=> ch \in {"+", "-"}
  /\ \A ch : ch \in Moves <=> ch \in {">", "<"}
  BY DEF Arith, Moves

\* The shape of the text IsMulLoop accepts: pairs inside, one lone '-' at an end.
LEMMA MulFacts ==
  ASSUME NEW t, MulText(t)
  PROVE  /\ t \in Seq(Char) /\ Len(t) \in Nat /\ Len(t) >= 3 /\ DOMAIN t = 1 .. Len(t)
         /\ PairEnds(t) \subseteq 2 .. Len(t) - 1 /\ PairEnds(t) # {}
         /\ LoneAt(t) \in {1, Len(t)} /\ t[LoneAt(t)] = "-"
         /\ LoneAt(t) = 1 => t[Len(t)] \in Moves
         /\ LoneAt(t) = Len(t) => t[1] \in Moves /\ t[Len(t) - 1] \in Moves
         /\ Shift(t, Len(t)) = 0 /\ Shift(t, LoneAt(t)) = 0
         /\ PairStart(t, 1) = IF LoneAt(t) = 1 THEN 2 ELSE 1
<1> DEFINE n == Len(t)
<1>1. t \in Seq(Char) /\ n \in Nat /\ DOMAIN t = 1 .. n
  BY DEF MulText
<1>2. PairEnds(t) \subseteq 2 .. n - 1 /\ PairEnds(t) # {}
  BY DEF MulText, IsMulLoop, PairEnds
<1>3. n >= 3
  BY <1>1, <1>2
<1>4. Shift(t, n) = 0
  BY DEF MulText, IsMulLoop, Shift
<1>5. CASE t[1] = "-"
  <2>1. LoneAt(t) = 1 /\ t[n] \in Moves /\ PairStart(t, 1) = 2
    <3>1. t[n] \in Moves
      BY <1>5 DEF MulText, IsMulLoop, Moves
    <3>2. PairStart(t, 1) = 2
      BY <1>5 DEF PairStart
    <3> QED
      BY <1>5, <3>1, <3>2 DEF LoneAt
  <2>2. Net(t, ">", "<", 1 .. 1) = 0
    <3>1. \A i \in (1 .. 1) \cap DOMAIN t : t[i] # ">" /\ t[i] # "<"
      BY <1>5
    <3> QED
      BY <1>1, <3>1, NetOfOthers
  <2> QED
    BY <1>1, <1>2, <1>3, <1>4, <1>5, <2>1, <2>2 DEF Shift
<1>6. CASE t[1] # "-"
  <2>1. t[1] \in Moves /\ t[n - 1] \in Moves /\ t[n] = "-"
    BY <1>6 DEF MulText, IsMulLoop
  <2>2. PairStart(t, 1) = 1 /\ LoneAt(t) = n
    BY <1>6 DEF PairStart, LoneAt
  <2> QED
    BY <1>1, <1>2, <1>3, <1>4, <2>1, <2>2
<1> QED
  BY <1>5, <1>6

\* A run of additions ends where a move follows it.
LEMMA ArithReaches ==
  ASSUME NEW t, MulText(t), NEW a \in 1 .. Len(t), NEW b \in 1 .. Len(t), a < b,
         t[a] \in Arith, t[b] \in Moves
  PROVE  \E m \in a .. b - 1 : /\ t[m + 1] \in Moves
                               /\ \A i \in a .. m : t[i] \in Arith
<1> DEFINE S == {i \in a .. b : t[i] \notin Arith}
<1>1. b \in S /\ S \in SUBSET Nat
  <2>1. Len(t) \in Nat /\ t[b] \notin Arith
    BY MulFacts DEF Arith, Moves
  <2> QED
    BY <2>1
<1>2. PICK z \in S : \A i \in S : z <= i
  <2> HIDE DEF S
  <2> QED
    BY <1>1, LeastExists
<1>3. z \in a .. b /\ z # a /\ z - 1 \in a .. b - 1 /\ (z - 1) + 1 = z
  BY <1>2
<1>4. \A i \in a .. z - 1 : t[i] \in Arith
  <2> SUFFICES ASSUME NEW i \in a .. z - 1 PROVE t[i] \in Arith
    OBVIOUS
  <2>1. i \in a .. b /\ ~(z <= i)
    BY <1>3
  <2>2. i \notin S
    BY <1>2, <2>1
  <2> QED
    BY <2>1, <2>2
<1>5. t[z] \in Moves
  <2>1. z \in DOMAIN t /\ t[z] \notin Arith
    BY <1>2, <1>3, MulFacts
  <2> QED
    BY <2>1 DEF MulText
<1> QED
  BY <1>3, <1>4, <1>5

\* Every other addition belongs to a pair.
LEMMA ArithInPair ==
  ASSUME NEW t, MulText(t), NEW j \in 1 .. Len(t), t[j] \in Arith, j # LoneAt(t)
  PROVE  \E z \in PairEnds(t) : j <= z /\ \A i \in j .. z : t[i] \in Arith
<1>1. /\ Len(t) \in Nat /\ Len(t) >= 3
      /\ LoneAt(t) \in {1, Len(t)}
      /\ LoneAt(t) = 1 => t[Len(t)] \in Moves
      /\ LoneAt(t) = Len(t) => t[1] \in Moves /\ t[Len(t) - 1] \in Moves
  BY MulFacts
<1>2. PICK b \in 1 .. Len(t) : j < b /\ t[b] \in Moves /\ (LoneAt(t) = Len(t) => b = Len(t) - 1)
  <2>1. CASE LoneAt(t) = 1
    <3>1. j # Len(t)
      BY <1>1, <2>1, CharClasses
    <3> QED
      BY <1>1, <2>1, <3>1
  <2>2. CASE LoneAt(t) = Len(t)
    <3>1. j # Len(t) - 1
      BY <1>1, <2>2, CharClasses
    <3>2. j < Len(t) - 1 /\ Len(t) - 1 \in 1 .. Len(t)
      BY <1>1, <2>2, <3>1
    <3> QED
      BY <1>1, <2>2, <3>2
  <2> QED
    BY <1>1, <2>1, <2>2
<1>3. PICK m \in j .. b - 1 : t[m + 1] \in Moves /\ \A i \in j .. m : t[i] \in Arith
  BY <1>2, ArithReaches
<1>4. m \in 2 .. Len(t) - 1
  <2>1. m <= Len(t) - 1 /\ m >= 1
    BY <1>1, <1>2, <1>3
  <2>2. m # 1
    <3>1. SUFFICES ASSUME m = 1 PROVE FALSE
      OBVIOUS
    <3>2. j = 1 /\ t[1] \in Arith
      BY <1>3, <3>1
    <3> QED
      BY <1>1, <3>2, CharClasses
  <2> QED
    BY <1>1, <1>3, <2>1, <2>2
<1>5. m \in j .. m /\ t[m] \in Arith /\ j <= m
  BY <1>3
<1>6. m \in PairEnds(t)
  BY <1>3, <1>4, <1>5 DEF PairEnds
<1> QED
  BY <1>3, <1>5, <1>6

\* Additions do not move.
LEMMA ShiftFlat ==
  ASSUME NEW t \in Seq(Char), NEW j \in Nat, NEW z \in Nat, j <= z,
         \A i \in j + 1 .. z : i \in DOMAIN t => t[i] \notin Moves
  PROVE  Shift(t, z) = Shift(t, j)
<1>1. \A i \in DOMAIN t : t[i] \in {">", "<"} => (i \in 1 .. z <=> i \in 1 .. j)
  <2> SUFFICES ASSUME NEW i \in DOMAIN t, t[i] \in {">", "<"} PROVE i \in 1 .. z <=> i \in 1 .. j
    OBVIOUS
  <2>1. i \in Nat /\ t[i] \in Moves
    BY DEF Moves
  <2>2. i \notin j + 1 .. z
    BY <2>1
  <2> QED
    BY <2>1, <2>2
<1> QED
  BY <1>1, NetSame DEF Shift

\* Every addition but the lone one stands in a pair, and the pair's offset is its shift.
LEMMA ShiftInPair ==
  ASSUME NEW t, MulText(t), NEW j \in 1 .. Len(t), t[j] \in Arith, j # LoneAt(t)
  PROVE  \E z \in PairEnds(t) : /\ j <= z /\ Shift(t, j) = Shift(t, z)
                                /\ \A i \in j .. z : t[i] \in Arith
<1>1. PICK z \in PairEnds(t) : j <= z /\ \A i \in j .. z : t[i] \in Arith
  BY ArithInPair
<1>2. j \in Nat /\ z \in Nat /\ t \in Seq(Char)
  BY MulFacts
<1>3. \A i \in j + 1 .. z : t[i] \notin Moves
  <2> SUFFICES ASSUME NEW i \in j + 1 .. z PROVE t[i] \notin Moves
    OBVIOUS
  <2>1. i \in j .. z
    BY <1>2
  <2> QED
    BY <1>1, <2>1 DEF Arith, Moves
<1> QED
  BY <1>1, <1>2, <1>3, ShiftFlat

-----------------------------------------------------------------------------
(***************************************************************************)
(* The pairs in their order.                                               *)
(***************************************************************************)

Pairs(t) == Cardinality(PairEnds(t))
UpTo(t, z) == Cardinality({e \in PairEnds(t) : e <= z})

\* The pairs up to a pair's end count the pairs.
LEMMA UpToGrows ==
  ASSUME NEW t, MulText(t)
  PROVE  /\ Pairs(t) \in Nat /\ Pairs(t) >= 1
         /\ \A z \in PairEnds(t) : UpTo(t, z) \in 1 .. Pairs(t)
         /\ \A y, z \in PairEnds(t) : y < z => UpTo(t, y) < UpTo(t, z)
         /\ \A k \in 1 .. Pairs(t) : \E z \in PairEnds(t) : UpTo(t, z) = k
<1> DEFINE S == PairEnds(t)
           L(z) == {e \in S : e <= z}
<1>1. S \in SUBSET (1 .. Len(t)) /\ Len(t) \in Nat /\ S # {} /\ S \subseteq Nat
  <2>1. Len(t) \in Nat /\ S \subseteq 2 .. Len(t) - 1 /\ S # {}
    BY MulFacts
  <2> QED
    BY <2>1
<1>9. \A e \in S : e \in Nat /\ e >= 1
  BY <1>1
<1> HIDE DEF S
<1>2. /\ IsFiniteSet(S) /\ Cardinality(S) \in Nat
      /\ \A n \in 1 .. Cardinality(S) : \E i \in S : Cardinality(S \cap 1 .. i) = n
  BY <1>1, TakenReaches
<1>3. \A z : IsFiniteSet(L(z)) /\ Cardinality(L(z)) \in Nat /\ Cardinality(L(z)) <= Cardinality(S)
  <2> TAKE z
  <2>1. L(z) \subseteq S
    OBVIOUS
  <2> HIDE DEF L
  <2> QED
    BY <1>2, <2>1, FS_Subset, FS_CardinalityType
<1>4. \A z \in S : L(z) = S \cap 1 .. z
  <2> SUFFICES ASSUME NEW z \in S PROVE L(z) = S \cap 1 .. z
    OBVIOUS
  <2>1. \A e \in S : e <= z <=> e \in 1 .. z
    BY <1>9
  <2> QED
    BY <2>1
<1>5. ASSUME NEW z \in S
      PROVE  Cardinality(L(z)) >= 1
  <2>1. L(z) # {} /\ IsFiniteSet(L(z))
    BY <1>1, <1>3, SMTT(30)
  <2>2. Cardinality(L(z)) # 0
    <3> HIDE DEF L
    <3> QED
      BY <2>1, FS_EmptySet
  <2> QED
    BY <1>3, <2>2
<1>6. ASSUME NEW y \in S, NEW z \in S, y < z
      PROVE  Cardinality(L(y)) < Cardinality(L(z))
  <2>1. L(y) \cup {z} \subseteq L(z) /\ z \notin L(y)
    <3>1. \A e \in S : e <= y => e <= z
      BY <1>6, <1>9
    <3>2. z <= z /\ ~(z <= y)
      BY <1>6, <1>9
    <3> QED
      BY <3>1, <3>2
  <2>2. IsFiniteSet(L(z)) /\ IsFiniteSet(L(y)) /\ Cardinality(L(y)) \in Nat /\ Cardinality(L(z)) \in Nat
    BY <1>3
  <2> HIDE DEF L
  <2>3. Cardinality(L(y) \cup {z}) = Cardinality(L(y)) + 1
    BY <2>1, <2>2, FS_AddElement
  <2>4. Cardinality(L(y) \cup {z}) <= Cardinality(L(z))
    BY <2>1, <2>2, FS_Subset
  <2> QED
    BY <2>2, <2>3, <2>4
<1>7. Cardinality(S) >= 1
  <2>1. Cardinality(S) # 0
    BY <1>1, <1>2, FS_EmptySet
  <2> QED
    BY <1>2, <2>1
<1>8. \A k \in 1 .. Cardinality(S) : \E z \in S : Cardinality(L(z)) = k
  BY <1>2, <1>4
<1>10. Pairs(t) = Cardinality(S) /\ \A z : UpTo(t, z) = Cardinality(L(z))
  BY DEF S, Pairs, UpTo
<1> HIDE DEF L
<1>11. \A z \in S : UpTo(t, z) \in 1 .. Pairs(t)
  <2> SUFFICES ASSUME NEW z \in S PROVE UpTo(t, z) \in 1 .. Pairs(t)
    OBVIOUS
  <2>1. Cardinality(L(z)) \in Nat /\ Cardinality(L(z)) <= Cardinality(S) /\ Cardinality(L(z)) >= 1
    BY <1>3, <1>5
  <2> QED
    BY <1>2, <1>10, <2>1
<1>12. \A y, z \in S : y < z => UpTo(t, y) < UpTo(t, z)
  BY <1>6, <1>10
<1>13. \A k \in 1 .. Pairs(t) : \E z \in S : UpTo(t, z) = k
  BY <1>8, <1>10
<1> QED
  BY <1>2, <1>7, <1>10, <1>11, <1>12, <1>13 DEF S

\* The k-th pair ends at Nth.
LEMMA NthPair ==
  ASSUME NEW t, MulText(t), NEW k \in 1 .. Pairs(t)
  PROVE  /\ Nth(PairEnds(t), k) \in PairEnds(t) /\ UpTo(t, Nth(PairEnds(t), k)) = k
         /\ Nth(PairEnds(t), k) \in Nat
         /\ Nth(PairEnds(t), k) \in 2 .. Len(t) - 1
<1>1. \E z \in PairEnds(t) : UpTo(t, z) = k
  BY UpToGrows
<1>2. Nth(PairEnds(t), k) \in PairEnds(t) /\ UpTo(t, Nth(PairEnds(t), k)) = k
  BY <1>1 DEF Nth, UpTo
<1> QED
  BY <1>2, MulFacts

\* Every pair is some Nth.
LEMMA PairIsNth ==
  ASSUME NEW t, MulText(t), NEW z \in PairEnds(t)
  PROVE  UpTo(t, z) \in 1 .. Pairs(t) /\ Nth(PairEnds(t), UpTo(t, z)) = z
<1> DEFINE k == UpTo(t, z)
           y == Nth(PairEnds(t), k)
<1>1. k \in 1 .. Pairs(t)
  BY UpToGrows
<1>2. y \in PairEnds(t) /\ UpTo(t, y) = k
  <2> HIDE DEF k
  <2> QED
    BY <1>1, NthPair
<1> HIDE DEF y
<1>3. ~(y < z) /\ ~(z < y)
  BY <1>2, UpToGrows
<1>4. y \in Nat /\ z \in Nat
  BY <1>2, MulFacts
<1> QED
  BY <1>1, <1>3, <1>4 DEF y

\* Where the k-th pair starts: behind the one before, with none in between.
LEMMA PairRange ==
  ASSUME NEW t, MulText(t), NEW k \in 1 .. Pairs(t)
  PROVE  /\ PairStart(t, k) \in 1 .. Nth(PairEnds(t), k) /\ PairStart(t, k) \in Nat
         /\ PairStart(t, k) >= PairStart(t, 1) /\ PairStart(t, 1) \in {1, 2}
         /\ \A e \in PairEnds(t) : e < Nth(PairEnds(t), k) => e < PairStart(t, k)
         /\ \A j \in PairStart(t, k) .. Nth(PairEnds(t), k) : j # LoneAt(t)
<1> DEFINE z == Nth(PairEnds(t), k)
           lo == PairStart(t, k)
           y == Nth(PairEnds(t), k - 1)
<1>1. z \in PairEnds(t) /\ UpTo(t, z) = k /\ z \in Nat /\ z \in 2 .. Len(t) - 1
  BY NthPair
<1>2. /\ Len(t) \in Nat /\ LoneAt(t) \in {1, Len(t)}
      /\ PairStart(t, 1) = IF LoneAt(t) = 1 THEN 2 ELSE 1
      /\ PairEnds(t) \subseteq 2 .. Len(t) - 1
  BY MulFacts
<1>3. /\ \A e \in PairEnds(t) : UpTo(t, e) \in 1 .. Pairs(t)
      /\ \A e, f \in PairEnds(t) : e < f => UpTo(t, e) < UpTo(t, f)
      /\ Pairs(t) \in Nat
  BY UpToGrows
<1> HIDE DEF z
<1>4. CASE k = 1
  <2>1. lo = PairStart(t, 1) /\ lo \in {1, 2}
    BY <1>2, <1>4
  <2>2. \A e \in PairEnds(t) : ~(e < z)
    <3> SUFFICES ASSUME NEW e \in PairEnds(t), e < z PROVE FALSE
      OBVIOUS
    <3>1. UpTo(t, e) < 1 /\ UpTo(t, e) \in 1 .. Pairs(t)
      BY <1>1, <1>3, <1>4
    <3> QED
      BY <1>3, <3>1
  <2>3. \A j \in lo .. z : j # LoneAt(t)
    BY <1>1, <1>2, <2>1
  <2> HIDE DEF lo
  <2>4. lo \in 1 .. z /\ lo \in Nat
    BY <1>1, <2>1
  <2> QED
    BY <1>2, <2>1, <2>2, <2>3, <2>4 DEF lo, z
<1>5. CASE k # 1
  <2>1. k - 1 \in 1 .. Pairs(t) /\ k > 1
    BY <1>3, <1>5
  <2>2. y \in PairEnds(t) /\ UpTo(t, y) = k - 1 /\ y \in 2 .. Len(t) - 1
    <3> DEFINE i == k - 1
    <3>1. i \in 1 .. Pairs(t)
      BY <2>1
    <3> HIDE DEF i
    <3>2. /\ Nth(PairEnds(t), i) \in PairEnds(t) /\ UpTo(t, Nth(PairEnds(t), i)) = i
          /\ Nth(PairEnds(t), i) \in 2 .. Len(t) - 1
      BY <3>1, NthPair
    <3> QED
      BY <3>2 DEF i
  <2>3. lo = y + 1
    BY <2>1 DEF PairStart
  <2> HIDE DEF y, lo
  <2>4. y < z
    <3>1. ~(z < y) /\ y # z
      BY <1>1, <1>3, <2>2
    <3> QED
      BY <1>1, <2>2, <3>1
  <2>5. \A e \in PairEnds(t) : e < z => e < lo
    <3> SUFFICES ASSUME NEW e \in PairEnds(t), e < z, ~(e < lo) PROVE FALSE
      OBVIOUS
    <3>1. y < e
      BY <1>2, <2>2, <2>3
    <3>2. k - 1 < UpTo(t, e) /\ UpTo(t, e) < k /\ UpTo(t, e) \in 1 .. Pairs(t)
      BY <1>1, <1>3, <2>2, <3>1
    <3> QED
      BY <1>3, <3>2
  <2>6. lo \in 1 .. z /\ lo \in Nat /\ lo >= 3
    BY <1>1, <2>2, <2>3, <2>4
  <2>7. \A j \in lo .. z : j # LoneAt(t)
    BY <1>1, <1>2, <2>6
  <2> QED
    BY <1>2, <2>5, <2>6, <2>7 DEF lo, z
<1> QED
  BY <1>4, <1>5

\* All additions of a pair are made on its cell.
LEMMA PairShift ==
  ASSUME NEW t, MulText(t), NEW k \in 1 .. Pairs(t),
         NEW j \in PairStart(t, k) .. Nth(PairEnds(t), k), t[j] \in Arith
  PROVE  Shift(t, j) = Shift(t, Nth(PairEnds(t), k))
<1> DEFINE z == Nth(PairEnds(t), k)
           lo == PairStart(t, k)
<1>1. z \in PairEnds(t) /\ z \in Nat /\ z \in 2 .. Len(t) - 1
  BY NthPair
<1>2. /\ lo \in 1 .. z /\ lo \in Nat /\ j # LoneAt(t)
      /\ \A e \in PairEnds(t) : e < z => e < lo
  BY PairRange
<1>3. t \in Seq(Char) /\ Len(t) \in Nat /\ PairEnds(t) \subseteq 2 .. Len(t) - 1
  BY MulFacts
<1>4. j \in lo .. z
  OBVIOUS
<1> HIDE DEF z, lo
<1>5. j \in 1 .. Len(t) /\ j \in Nat /\ j <= z
  BY <1>1, <1>2, <1>3, <1>4
<1>6. PICK e \in PairEnds(t) : j <= e /\ \A i \in j .. e : t[i] \in Arith
  BY <1>2, <1>5, ArithInPair
<1>7. e \in Nat /\ ~(e < z)
  BY <1>2, <1>3, <1>4, <1>6
<1>8. \A i \in j + 1 .. z : t[i] \notin Moves
  <2> SUFFICES ASSUME NEW i \in j + 1 .. z PROVE t[i] \notin Moves
    OBVIOUS
  <2>1. i \in j .. e
    BY <1>1, <1>5, <1>7
  <2> QED
    BY <1>6, <2>1 DEF Arith, Moves
<1>9. Shift(t, z) = Shift(t, j)
  BY <1>1, <1>3, <1>5, <1>8, ShiftFlat
<1> QED
  BY <1>9 DEF z

-----------------------------------------------------------------------------
(***************************************************************************)
(* What the loop does to a cell.                                           *)
(***************************************************************************)

\* What the text adds to a cell is an integer.
LEMMA TouchType ==
  ASSUME NEW t \in Seq(Char), NEW h, NEW x, NEW J
  PROVE  Touch(t, h, x, J) \in Int
  BY NetType DEF Touch

\* Only the additions at the cell count.
LEMMA TouchSame ==
  ASSUME NEW t \in Seq(Char), NEW h, NEW x, NEW J, NEW K,
         \A j \in DOMAIN t : t[j] \in Arith /\ (h + Shift(t, j)) % MemSize = x =>
                               (j \in J <=> j \in K)
  PROVE  Touch(t, h, x, J) = Touch(t, h, x, K)
<1> DEFINE I == {j \in J : (h + Shift(t, j)) % MemSize = x}
           L == {j \in K : (h + Shift(t, j)) % MemSize = x}
<1>1. \A j \in DOMAIN t : t[j] \in {"+", "-"} => (j \in I <=> j \in L)
  BY DEF Arith
<1> HIDE DEF I, L
<1>2. Net(t, "+", "-", I) = Net(t, "+", "-", L)
  BY <1>1, NetSame
<1> QED
  BY <1>2 DEF Touch, I, L

\* The additions of two disjoint parts of the text add up.
LEMMA TouchSplit ==
  ASSUME NEW t \in Seq(Char), NEW h, NEW x, NEW J, NEW K, J \cap K = {}
  PROVE  Touch(t, h, x, J \cup K) = Touch(t, h, x, J) + Touch(t, h, x, K)
<1> DEFINE I == {j \in J : (h + Shift(t, j)) % MemSize = x}
           L == {j \in K : (h + Shift(t, j)) % MemSize = x}
<1>1. {j \in J \cup K : (h + Shift(t, j)) % MemSize = x} = I \cup L /\ I \cap L = {}
  OBVIOUS
<1> HIDE DEF I, L
<1>2. Net(t, "+", "-", I \cup L) = Net(t, "+", "-", I) + Net(t, "+", "-", L)
  BY <1>1, NetSplit
<1> QED
  BY <1>1, <1>2 DEF Touch, I, L

\* A part of the text that never adds at the cell.
LEMMA TouchNone ==
  ASSUME NEW t \in Seq(Char), NEW h, NEW x, NEW J,
         \A j \in J \cap DOMAIN t : t[j] \in Arith => (h + Shift(t, j)) % MemSize # x
  PROVE  Touch(t, h, x, J) = 0
<1> DEFINE I == {j \in J : (h + Shift(t, j)) % MemSize = x}
<1>1. \A j \in I \cap DOMAIN t : t[j] # "+" /\ t[j] # "-"
  BY DEF Arith
<1> HIDE DEF I
<1>2. Net(t, "+", "-", I) = 0
  BY <1>1, NetOfOthers
<1> QED
  BY <1>2 DEF Touch, I

\* A part of the text that only adds at the cell.
LEMMA TouchAll ==
  ASSUME NEW t \in Seq(Char), NEW h, NEW x, NEW J,
         \A j \in J \cap DOMAIN t : t[j] \in Arith => (h + Shift(t, j)) % MemSize = x
  PROVE  Touch(t, h, x, J) = Net(t, "+", "-", J)
<1> DEFINE I == {j \in J : (h + Shift(t, j)) % MemSize = x}
<1>1. \A j \in DOMAIN t : t[j] \in {"+", "-"} => (j \in I <=> j \in J)
  BY DEF Arith
<1> HIDE DEF I
<1>2. Net(t, "+", "-", I) = Net(t, "+", "-", J)
  BY <1>1, NetSame
<1> QED
  BY <1>2 DEF Touch, I

\* The positions of the first k pairs.
Through(t, k) == IF k = 0 THEN {} ELSE PairStart(t, 1) .. Nth(PairEnds(t), k)

\* What one more pair adds: its net, at its offset.
LEMMA PairTouch ==
  ASSUME NEW t, MulText(t), NEW h, NEW x, NEW k \in 1 .. Pairs(t)
  PROVE  /\ Touch(t, h, x, Through(t, k))
              = Touch(t, h, x, Through(t, k - 1))
                  + (IF (h + MulOffset(t, k)) % MemSize = x
                     THEN Net(t, "+", "-", PairStart(t, k) .. Nth(PairEnds(t), k)) ELSE 0)
         /\ MulOffset(t, k) = Shift(t, Nth(PairEnds(t), k))
<1> DEFINE z == Nth(PairEnds(t), k)
           lo == PairStart(t, k)
           first == PairStart(t, 1)
<1>1. t \in Seq(Char) /\ Pairs(t) \in Nat
  BY MulFacts, UpToGrows
<1>2. MulOffset(t, k) = Shift(t, z)
  BY DEF MulOffset, Shift
<1>3. /\ lo \in 1 .. z /\ lo \in Nat /\ z \in Nat /\ lo >= first /\ first \in {1, 2}
  BY NthPair, PairRange
<1>4. \A j \in lo .. z : t[j] \in Arith => Shift(t, j) = Shift(t, z)
  BY PairShift
<1>5. Through(t, k) = Through(t, k - 1) \cup (lo .. z) /\ Through(t, k - 1) \cap (lo .. z) = {}
  <2>1. CASE k = 1
    BY <2>1 DEF Through
  <2>2. CASE k # 1
    <3> DEFINE i == k - 1
               y == Nth(PairEnds(t), i)
    <3>1. i \in 1 .. Pairs(t) /\ i # 0 /\ k > 1
      BY <1>1, <2>2
    <3>2. y \in Nat /\ first \in 1 .. y
      <4> HIDE DEF i
      <4>1. y \in Nat /\ PairStart(t, i) \in 1 .. y /\ PairStart(t, i) >= first
        BY <3>1, NthPair, PairRange
      <4> QED
        BY <1>3, <4>1
    <3>3. lo = y + 1
      BY <3>1 DEF PairStart
    <3>4. Through(t, k - 1) = first .. y /\ Through(t, k) = first .. z
      BY <3>1 DEF Through
    <3> HIDE DEF y, lo, z, first
    <3> QED
      BY <1>3, <3>2, <3>3, <3>4
  <2> QED
    BY <2>1, <2>2
<1> DEFINE N == Net(t, "+", "-", lo .. z)
<1> HIDE DEF z, lo
<1>6. Touch(t, h, x, Through(t, k)) = Touch(t, h, x, Through(t, k - 1)) + Touch(t, h, x, lo .. z)
  <2> DEFINE before == Through(t, k - 1)
             here == lo .. z
  <2>1. Through(t, k) = before \cup here /\ before \cap here = {}
    BY <1>5
  <2> HIDE DEF before, here
  <2>2. Touch(t, h, x, before \cup here) = Touch(t, h, x, before) + Touch(t, h, x, here)
    BY <1>1, <2>1, TouchSplit
  <2> QED
    BY <2>1, <2>2 DEF before, here
<1>7. Touch(t, h, x, lo .. z) = IF (h + Shift(t, z)) % MemSize = x THEN N ELSE 0
  <2>1. CASE (h + Shift(t, z)) % MemSize = x
    <3>1. \A j \in (lo .. z) \cap DOMAIN t : t[j] \in Arith => (h + Shift(t, j)) % MemSize = x
      BY <1>4, <2>1
    <3>2. Touch(t, h, x, lo .. z) = N
      BY <1>1, <3>1, TouchAll
    <3> QED
      BY <2>1, <3>2
  <2>2. CASE (h + Shift(t, z)) % MemSize # x
    <3>1. \A j \in (lo .. z) \cap DOMAIN t : t[j] \in Arith => (h + Shift(t, j)) % MemSize # x
      BY <1>4, <2>2
    <3>2. Touch(t, h, x, lo .. z) = 0
      BY <1>1, <3>1, TouchNone
    <3> QED
      BY <2>2, <3>2
  <2> QED
    BY <2>1, <2>2
<1> QED
  BY <1>2, <1>6, <1>7 DEF z, lo

\* No pair works on the cell the loop counts down.
HomeKept(t) == \A z \in PairEnds(t) : Shift(t, z) % MemSize # 0

\* One turn of the loop takes one from its own cell, if no pair comes back to it.
LEMMA HomeTouch ==
  ASSUME NEW t, MulText(t), NEW h \in Address, HomeKept(t)
  PROVE  /\ Touch(t, h, h, 1 .. Len(t)) = -1
         /\ \A x \in Address : x # h =>
              Touch(t, h, x, 1 .. Len(t)) = Touch(t, h, x, Through(t, Pairs(t)))
         /\ \A k \in 1 .. Pairs(t) : (h + MulOffset(t, k)) % MemSize # h
<1> DEFINE z == Nth(PairEnds(t), Pairs(t))
           first == PairStart(t, 1)
           lone == LoneAt(t)
<1>1. /\ t \in Seq(Char) /\ Len(t) \in Nat /\ DOMAIN t = 1 .. Len(t) /\ Len(t) >= 3
      /\ lone \in {1, Len(t)} /\ t[lone] = "-" /\ Shift(t, lone) = 0
      /\ first = IF lone = 1 THEN 2 ELSE 1
      /\ PairEnds(t) \subseteq 2 .. Len(t) - 1
  BY MulFacts
<1>12. lone \in 1 .. Len(t) /\ lone \in DOMAIN t /\ first \in Nat
  BY <1>1
<1> HIDE DEF lone, first, z
<1>2. MemSize \in Nat \ {0} /\ h \in 0 .. MemSize - 1 /\ h \in Int
  BY MemSizeAssumption DEF Address
<1>3. \A j : Shift(t, j) \in Int
  BY <1>1, NetType DEF Shift
<1>4. \A e \in PairEnds(t) : (h + Shift(t, e)) % MemSize # h
  <2> SUFFICES ASSUME NEW e \in PairEnds(t), (h + Shift(t, e)) % MemSize = h PROVE FALSE
    OBVIOUS
  <2>1. Shift(t, e) % MemSize = 0
    BY <1>2, <1>3, ModReturn
  <2> QED
    BY <2>1 DEF HomeKept
<1>5. ASSUME NEW j \in 1 .. Len(t), t[j] \in Arith, j # lone
      PROVE  \E e \in PairEnds(t) : j <= e /\ Shift(t, j) = Shift(t, e)
  BY <1>5, ShiftInPair DEF lone
<1>6. (h + Shift(t, lone)) % MemSize = h
  <2>1. h % MemSize = h /\ h + 0 = h
    BY <1>2, ModSmall
  <2> QED
    BY <1>1, <2>1
<1>7. Touch(t, h, h, 1 .. Len(t)) = -1
  <2>1. \A j \in DOMAIN t : t[j] \in Arith /\ (h + Shift(t, j)) % MemSize = h
                              => (j \in 1 .. Len(t) <=> j \in {lone})
    <3> SUFFICES ASSUME NEW j \in DOMAIN t, t[j] \in Arith, (h + Shift(t, j)) % MemSize = h, j # lone
                 PROVE  FALSE
      BY <1>1
    <3>1. PICK e \in PairEnds(t) : Shift(t, j) = Shift(t, e)
      BY <1>1, <1>5
    <3> QED
      BY <1>4, <3>1
  <2>2. Touch(t, h, h, 1 .. Len(t)) = Touch(t, h, h, {lone})
    <3> DEFINE every == 1 .. Len(t)
               one == {lone}
    <3> HIDE DEF every, one
    <3>1. \A j \in DOMAIN t : t[j] \in Arith /\ (h + Shift(t, j)) % MemSize = h => (j \in every <=> j \in one)
      BY <2>1 DEF every, one
    <3>2. Touch(t, h, h, every) = Touch(t, h, h, one)
      BY <1>1, <3>1, TouchSame
    <3> QED
      BY <3>2 DEF every, one
  <2>3. Touch(t, h, h, {lone}) = Net(t, "+", "-", {lone})
    <3>1. \A j \in {lone} \cap DOMAIN t : t[j] \in Arith => (h + Shift(t, j)) % MemSize = h
      BY <1>6
    <3> QED
      BY <1>1, <3>1, TouchAll
  <2>4. Net(t, "+", "-", {lone}) = -1
    <3>1. lone \in DOMAIN t
      BY <1>12
    <3>2. Net(t, "+", "-", {lone}) = IF t[lone] = "+" THEN 1 ELSE IF t[lone] = "-" THEN -1 ELSE 0
      BY <1>1, <3>1, NetOfOne
    <3> QED
      BY <1>1, <3>2
  <2> QED
    BY <2>2, <2>3, <2>4
<1>8. /\ Pairs(t) \in Nat /\ Pairs(t) >= 1 /\ Pairs(t) \in 1 .. Pairs(t)
      /\ Through(t, Pairs(t)) = first .. z /\ z \in 2 .. Len(t) - 1 /\ z \in Nat
      /\ z \in PairEnds(t) /\ UpTo(t, z) = Pairs(t)
  <2>1. Pairs(t) \in Nat /\ Pairs(t) >= 1
    BY UpToGrows
  <2>2. Pairs(t) \in 1 .. Pairs(t)
    BY <2>1
  <2>3. z \in 2 .. Len(t) - 1 /\ z \in Nat /\ z \in PairEnds(t) /\ UpTo(t, z) = Pairs(t)
    BY <2>2, NthPair DEF z
  <2>4. Through(t, Pairs(t)) = first .. z
    BY <2>1 DEF Through, first, z
  <2> QED
    BY <2>1, <2>2, <2>3, <2>4
<1>14. Len(t) \in Nat /\ PairEnds(t) \subseteq 2 .. Len(t) - 1
  BY <1>1
<1>13. \A e \in PairEnds(t) : e \in Nat
  BY <1>14
<1>9. \A e \in PairEnds(t) : e <= z
  <2> SUFFICES ASSUME NEW e \in PairEnds(t), z < e PROVE FALSE
    BY <1>8, <1>13
  <2>1. UpTo(t, z) < UpTo(t, e) /\ UpTo(t, e) \in 1 .. Pairs(t)
    BY <1>8, UpToGrows
  <2> QED
    BY <1>8, <2>1
<1>10. ASSUME NEW x \in Address, x # h
       PROVE  Touch(t, h, x, 1 .. Len(t)) = Touch(t, h, x, Through(t, Pairs(t)))
  <2>1. \A j \in DOMAIN t : t[j] \in Arith /\ (h + Shift(t, j)) % MemSize = x
                              => (j \in 1 .. Len(t) <=> j \in first .. z)
    <3> SUFFICES ASSUME NEW j \in DOMAIN t, t[j] \in Arith, (h + Shift(t, j)) % MemSize = x
                 PROVE  j \in first .. z
      BY <1>1, <1>8
    <3>1. j # lone
      BY <1>6, <1>10
    <3>2. PICK e \in PairEnds(t) : j <= e
      BY <1>1, <1>5, <3>1
    <3>3. e <= z /\ e \in Nat /\ j \in Nat /\ j >= 1
      <4>1. j \in 1 .. Len(t)
        BY <1>1
      <4> QED
        BY <1>9, <1>13, <1>14, <4>1
    <3>4. first <= j
      <4>1. first = IF lone = 1 THEN 2 ELSE 1
        BY <1>1
      <4> QED
        BY <3>1, <3>3, <4>1
    <3> QED
      BY <1>8, <1>12, <3>2, <3>3, <3>4
  <2>2. Touch(t, h, x, 1 .. Len(t)) = Touch(t, h, x, first .. z)
    <3> DEFINE every == 1 .. Len(t)
               some == first .. z
    <3> HIDE DEF every, some
    <3>1. \A j \in DOMAIN t : t[j] \in Arith /\ (h + Shift(t, j)) % MemSize = x => (j \in every <=> j \in some)
      BY <2>1 DEF every, some
    <3>2. Touch(t, h, x, every) = Touch(t, h, x, some)
      BY <1>1, <3>1, TouchSame
    <3> QED
      BY <3>2 DEF every, some
  <2> QED
    BY <1>8, <2>2
<1>11. ASSUME NEW k \in 1 .. Pairs(t) PROVE (h + MulOffset(t, k)) % MemSize # h
  <2>1. MulOffset(t, k) = Shift(t, Nth(PairEnds(t), k)) /\ Nth(PairEnds(t), k) \in PairEnds(t)
    BY PairTouch, NthPair
  <2> QED
    BY <1>4, <2>1
<1> QED
  BY <1>7, <1>10, <1>11

-----------------------------------------------------------------------------
(***************************************************************************)
(* The tape of a multiplying loop: d when the interpreter is at its '[', m *)
(* what the instructions that replace it make of d.                        *)
(***************************************************************************)

\* m is d after the first k instructions.
Multiplied(t, h, d, m, k) ==
  /\ m[h] = d[h]
  /\ \A x \in Address : m[x] = (d[x] + d[h] * Touch(t, h, x, Through(t, k))) % CellMod

\* After q characters of a turn of its loop the interpreter has d, and still
\* has the rest of this turn and r more turns to do to get m.
MulLeft(t, h, d, m, q) ==
  \E r \in Int :
    /\ (d[h] + Touch(t, h, h, q + 1 .. Len(t)) - r) % CellMod = 0
    /\ \A x \in Address :
         m[x] = (d[x] + Touch(t, h, x, q + 1 .. Len(t)) + r * Touch(t, h, x, 1 .. Len(t))) % CellMod

\* Cells and addresses are the remainders of CellMod and of MemSize.
LEMMA CellFacts ==
  /\ CellMod \in Nat \ {0} /\ 0 \in Cell /\ Cell \subseteq Int /\ Address \subseteq Int
  /\ \A a \in Int : a % CellMod \in Cell
  /\ \A a \in Cell : a % CellMod = a /\ a \in 0 .. CellMod - 1
  /\ \A a \in Int : a % MemSize \in Address
  /\ \A a \in Address : a % MemSize = a /\ a \in 0 .. MemSize - 1
  /\ MemSize \in Nat \ {0}
<1>1. CellMod \in Nat \ {0} /\ 0 \in Cell /\ MemSize \in Nat \ {0} /\ Cell \subseteq Int /\ Address \subseteq Int
  BY CellModAssumption, MemSizeAssumption DEF Cell, Address
<1>2. \A a \in Int : a % CellMod \in Cell /\ a % MemSize \in Address
  BY <1>1, DivMod DEF Cell, Address
<1>3. \A a \in Cell : a % CellMod = a /\ a \in 0 .. CellMod - 1
  BY <1>1, ModSmall DEF Cell
<1>4. \A a \in Address : a % MemSize = a /\ a \in 0 .. MemSize - 1
  BY <1>1, ModSmall DEF Address
<1> QED
  BY <1>1, <1>2, <1>3, <1>4

\* The cells of a tape are remainders already.
LEMMA TapeFacts ==
  ASSUME NEW d \in [Address -> Cell], NEW x \in Address
  PROVE  d[x] \in Cell /\ d[x] \in Int /\ d[x] % CellMod = d[x] /\ d[x] + 0 = d[x]
<1>1. d[x] \in Cell
  OBVIOUS
<1>2. \A a \in Cell : a \in Int /\ a % CellMod = a /\ a + 0 = a
  BY CellFacts
<1> QED
  BY <1>1, <1>2

\* A factor of a product need not be reduced first.
LEMMA CellTimes ==
  \A a, v, b \in Int : (a + v * (b % CellMod)) % CellMod = (a + v * b) % CellMod
<1> TAKE a, v, b \in Int
<1>1. CellMod \in Nat \ {0}
  BY CellFacts
<1> QED
  BY <1>1, ModTimes, ZenonT(60)

\* Before the first of the instructions nothing is multiplied.
LEMMA MulBegins ==
  ASSUME NEW t, MulText(t), NEW h \in Address, NEW d \in [Address -> Cell]
  PROVE  Multiplied(t, h, d, d, 0)
<1>1. \A x : Touch(t, h, x, Through(t, 0)) = 0
  <2> TAKE x
  <2>1. Through(t, 0) = {} /\ t \in Seq(Char)
    BY MulFacts DEF Through
  <2>2. Touch(t, h, x, {}) = 0
    BY <2>1, TouchNone
  <2> QED
    BY <2>1, <2>2
<1>2. ASSUME NEW x \in Address PROVE d[x] = (d[x] + d[h] * 0) % CellMod
  <2>1. d[h] * 0 = 0
    <3>1. d[h] \in Int
      BY TapeFacts
    <3> QED
      BY <3>1
  <2>2. d[x] % CellMod = d[x] /\ d[x] + 0 = d[x]
    BY TapeFacts
  <2> QED
    BY <2>1, <2>2
<1> QED
  BY <1>1, <1>2 DEF Multiplied

\* The k-th instruction does the work of the k-th pair, all turns at once.
LEMMA MulStep ==
  ASSUME NEW t, MulText(t), HomeKept(t), NEW h \in Address,
         NEW d \in [Address -> Cell], NEW m \in [Address -> Cell],
         NEW k \in 1 .. Pairs(t), Multiplied(t, h, d, m, k - 1)
  PROVE  LET x == (h + MulOffset(t, k)) % MemSize
             w == [m EXCEPT ![x] = (@ + m[h] * MulFactor(t, k)) % CellMod]
         IN  x \in Address /\ w \in [Address -> Cell] /\ Multiplied(t, h, d, w, k)
<1> DEFINE y == (h + MulOffset(t, k)) % MemSize
           N == Net(t, "+", "-", PairStart(t, k) .. Nth(PairEnds(t), k))
           w == [m EXCEPT ![y] = (@ + m[h] * MulFactor(t, k)) % CellMod]
           before(x) == Touch(t, h, x, Through(t, k - 1))
           after(x) == Touch(t, h, x, Through(t, k))
           v == d[h]
<1>1. t \in Seq(Char)
  BY MulFacts
<1>2. MulOffset(t, k) \in Int /\ N \in Int /\ h \in Int /\ v \in Int
  BY <1>1, NetType, CellFacts DEF MulOffset
<1>3. y \in Address
  BY <1>2, CellFacts
<1>4. \A x : before(x) \in Int /\ after(x) \in Int
  BY <1>1, TouchType
<1>5. \A x : after(x) = before(x) + (IF y = x THEN N ELSE 0)
  BY PairTouch
<1>6. y # h
  BY HomeTouch
<1>7. MulFactor(t, k) = N % CellMod
  BY DEF MulFactor
<1>8. m[h] = v /\ \A x \in Address : m[x] = (d[x] + v * before(x)) % CellMod
  BY DEF Multiplied
<1> HIDE DEF N, before, after, v, y
<1>9. (m[y] + v * (N % CellMod)) % CellMod = (d[y] + v * after(y)) % CellMod
  <2> DEFINE a == d[y] + v * before(y)
  <2>1. d[y] \in Int /\ v * before(y) \in Int /\ v * N \in Int /\ v * (N % CellMod) \in Int /\ a \in Int
    <3>1. \A i, j \in Int : i * j \in Int
      OBVIOUS
    <3>2. N % CellMod \in Int /\ d[y] \in Int
      BY <1>2, <1>3, CellFacts
    <3> QED
      BY <1>2, <1>4, <3>1, <3>2
  <2>2. m[y] = a % CellMod
    BY <1>3, <1>8
  <2>3. v * after(y) = v * before(y) + v * N
    <3>1. after(y) = before(y) + N
      BY <1>5
    <3> QED
      BY <1>2, <1>4, <3>1, SMT
  <2>4. d[y] + v * after(y) = a + v * N
    BY <2>1, <2>3
  <2> HIDE DEF a
  <2>5. ((a % CellMod) + v * (N % CellMod)) % CellMod = (a + v * (N % CellMod)) % CellMod
    <3> DEFINE b == v * (N % CellMod)
    <3>1. b \in Int
      BY <2>1
    <3> HIDE DEF b
    <3>2. ((a % CellMod) + b) % CellMod = (a + b) % CellMod
      BY <2>1, <3>1, CellFacts, ModPlus
    <3> QED
      BY <3>2 DEF b
  <2>6. (a + v * (N % CellMod)) % CellMod = (a + v * N) % CellMod
    <3>1. a \in Int /\ v \in Int /\ N \in Int
      BY <1>2, <2>1
    <3> QED
      BY <3>1, CellTimes, Zenon
  <2> QED
    BY <2>2, <2>4, <2>5, <2>6
<1>10. w = [m EXCEPT ![y] = (m[y] + v * (N % CellMod)) % CellMod]
  BY <1>7, <1>8
<1>11. (m[y] + v * (N % CellMod)) % CellMod \in Cell
  <2>1. v * (N % CellMod) \in Int
    <3>1. \A i, j \in Int : i * j \in Int
      OBVIOUS
    <3>2. N % CellMod \in Int
      BY <1>2, CellFacts
    <3> QED
      BY <1>2, <3>1, <3>2
  <2>2. m[y] \in Int
    BY <1>3, CellFacts
  <2> DEFINE z == v * (N % CellMod)
  <2>3. m[y] + z \in Int
    BY <2>1, <2>2
  <2> HIDE DEF z
  <2>4. (m[y] + z) % CellMod \in Cell
    BY <2>3, CellFacts
  <2> QED
    BY <2>4 DEF z
<1> HIDE DEF w
<1>12. w \in [Address -> Cell]
  BY <1>10, <1>11
<1>13. w[h] = v
  BY <1>3, <1>6, <1>8, <1>10
<1>14. ASSUME NEW x \in Address
       PROVE  w[x] = (d[x] + v * after(x)) % CellMod
  <2>1. CASE x = y
    BY <1>3, <1>9, <1>10, <2>1
  <2>2. CASE x # y
    <3>1. after(x) = before(x)
      BY <1>4, <1>5, <2>2
    <3>2. w[x] = m[x]
      BY <1>10, <2>2
    <3> QED
      BY <1>8, <3>1, <3>2
  <2> QED
    BY <2>1, <2>2
<1>15. Multiplied(t, h, d, w, k)
  BY <1>13, <1>14 DEF Multiplied, after, v
<1> QED
  BY <1>3, <1>12, <1>15 DEF y, w

\* The S that follows leaves what the interpreter gets to.
LEMMA MulEnds ==
  ASSUME NEW t, MulText(t), HomeKept(t), NEW h \in Address,
         NEW d \in [Address -> Cell], NEW m \in [Address -> Cell],
         Multiplied(t, h, d, m, Pairs(t))
  PROVE  MulLeft(t, h, d, [m EXCEPT ![h] = 0], Len(t))
<1> DEFINE v == d[h]
           w == [m EXCEPT ![h] = 0]
           T(x) == Touch(t, h, x, 1 .. Len(t))
           U(x) == Touch(t, h, x, Through(t, Pairs(t)))
<1>1. t \in Seq(Char) /\ Len(t) \in Nat
  BY MulFacts
<1>2. \A x : Touch(t, h, x, Len(t) + 1 .. Len(t)) = 0
  <2> TAKE x
  <2>1. Len(t) + 1 .. Len(t) = {}
    BY <1>1
  <2>2. Touch(t, h, x, {}) = 0
    BY <1>1, TouchNone
  <2> QED
    BY <2>1, <2>2
<1>3. T(h) = -1 /\ \A x \in Address : x # h => T(x) = U(x)
  BY HomeTouch
<1>4. \A x \in Address : m[x] = (d[x] + v * U(x)) % CellMod
  BY DEF Multiplied
<1>5. v \in Int /\ v \in Cell /\ \A x : T(x) \in Int
  BY <1>1, TouchType, CellFacts
<1> HIDE DEF T, U, v
<1>6. (v + 0 - v) % CellMod = 0
  <2>1. v + 0 - v = 0
    BY <1>5
  <2> QED
    BY <2>1, CellFacts
<1>7. ASSUME NEW x \in Address
      PROVE  w[x] = (d[x] + 0 + v * T(x)) % CellMod
  <2>1. CASE x = h
    <3>1. d[x] + 0 + v * T(x) = 0
      <4>1. d[x] = v /\ T(x) = -1
        BY <1>3, <2>1 DEF v
      <4>2. v + 0 + v * (-1) = 0
        BY <1>5
      <4> QED
        BY <4>1, <4>2
    <3> QED
      BY <2>1, <3>1, CellFacts
  <2>2. CASE x # h
    <3>1. w[x] = (d[x] + v * T(x)) % CellMod
      BY <1>3, <1>4, <2>2
    <3>2. d[x] + 0 = d[x]
      BY TapeFacts
    <3> QED
      BY <3>1, <3>2
  <2> QED
    BY <2>1, <2>2
<1> QED
  BY <1>2, <1>5, <1>6, <1>7 DEF MulLeft, T, v

\* A turn that begins is one turn less.
LEMMA MulTurn ==
  ASSUME NEW t, MulText(t), HomeKept(t), NEW h \in Address,
         NEW d \in [Address -> Cell], NEW m, MulLeft(t, h, d, m, Len(t))
  PROVE  MulLeft(t, h, d, m, 0)
<1> DEFINE T(x) == Touch(t, h, x, 1 .. Len(t))
<1>1. t \in Seq(Char) /\ Len(t) \in Nat
  BY MulFacts
<1>2. \A x : Touch(t, h, x, Len(t) + 1 .. Len(t)) = 0
  <2> TAKE x
  <2>1. Len(t) + 1 .. Len(t) = {}
    BY <1>1
  <2>2. Touch(t, h, x, {}) = 0
    BY <1>1, TouchNone
  <2> QED
    BY <2>1, <2>2
<1>3. T(h) = -1 /\ \A x : T(x) \in Int
  BY <1>1, HomeTouch, TouchType
<1>4. PICK r \in Int :
        /\ (d[h] + 0 - r) % CellMod = 0
        /\ \A x \in Address : m[x] = (d[x] + 0 + r * T(x)) % CellMod
  BY <1>2 DEF MulLeft
<1>5. 0 + 1 .. Len(t) = 1 .. Len(t)
  OBVIOUS
<1> HIDE DEF T
<1>6. r - 1 \in Int /\ d[h] \in Int
  BY TapeFacts
<1>7. d[h] + T(h) - (r - 1) = d[h] + 0 - r
  BY <1>3, <1>6
<1>8. ASSUME NEW x \in Address
      PROVE  d[x] + T(x) + (r - 1) * T(x) = d[x] + 0 + r * T(x)
  <2>1. (r - 1) * T(x) = r * T(x) - T(x) /\ r * T(x) \in Int
    BY <1>3, SMT
  <2>2. d[x] \in Int /\ T(x) \in Int
    BY <1>3, CellFacts
  <2> QED
    BY <2>1, <2>2
<1>9. (d[h] + T(h) - (r - 1)) % CellMod = 0
  BY <1>4, <1>7
<1>10. \A x \in Address : m[x] = (d[x] + T(x) + (r - 1) * T(x)) % CellMod
  BY <1>4, <1>8
<1> QED
  BY <1>5, <1>6, <1>9, <1>10 DEF MulLeft, T

\* When the cell that is counted down is zero nothing is left to do.
LEMMA MulOver ==
  ASSUME NEW t, MulText(t), NEW h \in Address,
         NEW d \in [Address -> Cell], NEW m \in [Address -> Cell],
         MulLeft(t, h, d, m, Len(t)), d[h] = 0
  PROVE  m = d
<1> DEFINE T(x) == Touch(t, h, x, 1 .. Len(t))
<1>1. t \in Seq(Char) /\ Len(t) \in Nat
  BY MulFacts
<1>2. \A x : Touch(t, h, x, Len(t) + 1 .. Len(t)) = 0
  <2> TAKE x
  <2>1. Len(t) + 1 .. Len(t) = {}
    BY <1>1
  <2>2. Touch(t, h, x, {}) = 0
    BY <1>1, TouchNone
  <2> QED
    BY <2>1, <2>2
<1>3. \A x : T(x) \in Int
  BY <1>1, TouchType
<1>4. PICK r \in Int :
        /\ (d[h] + 0 - r) % CellMod = 0
        /\ \A x \in Address : m[x] = (d[x] + 0 + r * T(x)) % CellMod
  BY <1>2 DEF MulLeft
<1> HIDE DEF T
<1>5. r % CellMod = 0
  <2> DEFINE s == -r
             q == s \div CellMod
  <2>1. s \in Int /\ s % CellMod = 0
    <3>1. d[h] + 0 - r = s
      OBVIOUS
    <3> QED
      BY <1>4, <3>1
  <2> HIDE DEF s
  <2>2. s = CellMod * q + 0 /\ q \in Int
    BY <2>1, CellFacts, DivMod
  <2> HIDE DEF q
  <2>3. r = CellMod * (-q) + 0 /\ -q \in Int
    <3>1. CellMod * (-q) = -(CellMod * q) /\ CellMod * q \in Int
      BY <2>2, CellFacts
    <3>2. r = -s
      BY DEF s
    <3> QED
      BY <2>2, <3>1, <3>2
  <2>4. 0 \in 0 .. CellMod - 1
    BY CellFacts
  <2> QED
    BY <2>3, <2>4, CellFacts, ModUnique
<1>6. ASSUME NEW x \in Address
      PROVE  m[x] = d[x]
  <2>1. d[x] \in Int /\ T(x) \in Int /\ d[x] % CellMod = d[x]
    BY <1>3, CellFacts
  <2>2. (d[x] + T(x) * (r % CellMod)) % CellMod = (d[x] + T(x) * r) % CellMod
    <3>1. d[x] \in Int /\ T(x) \in Int /\ r \in Int
      BY <2>1
    <3> QED
      BY <3>1, CellTimes, Zenon
  <2>3. d[x] + T(x) * 0 = d[x] /\ T(x) * r = r * T(x) /\ d[x] + 0 = d[x]
    BY <2>1
  <2> QED
    BY <1>4, <1>5, <2>1, <2>2, <2>3
<1> QED
  BY <1>6

\* What the interpreter does at one more character of the body is done.
LEMMA MulChar ==
  ASSUME NEW t, MulText(t), NEW h \in Address,
         NEW d \in [Address -> Cell], NEW m, NEW q \in 0 .. Len(t) - 1, MulLeft(t, h, d, m, q),
         NEW w, \A x \in Address : w[x] = (d[x] + Touch(t, h, x, {q + 1})) % CellMod
  PROVE  MulLeft(t, h, w, m, q + 1)
<1> DEFINE T(x) == Touch(t, h, x, 1 .. Len(t))
           U(x) == Touch(t, h, x, q + 1 .. Len(t))
           V(x) == Touch(t, h, x, (q + 1) + 1 .. Len(t))
           O(x) == Touch(t, h, x, {q + 1})
<1>1. t \in Seq(Char) /\ Len(t) \in Nat
  BY MulFacts
<1>2. \A x : T(x) \in Int /\ U(x) \in Int /\ V(x) \in Int /\ O(x) \in Int
  BY <1>1, TouchType
<1>3. ASSUME NEW x PROVE U(x) = O(x) + V(x)
  <2> DEFINE one == {q + 1}
             rest == (q + 1) + 1 .. Len(t)
  <2>1. q + 1 .. Len(t) = one \cup rest /\ one \cap rest = {}
    BY <1>1
  <2> HIDE DEF one, rest
  <2>2. Touch(t, h, x, one \cup rest) = Touch(t, h, x, one) + Touch(t, h, x, rest)
    BY <1>1, <2>1, TouchSplit
  <2> QED
    BY <2>1, <2>2 DEF one, rest
<1>4. PICK r \in Int :
        /\ (d[h] + U(h) - r) % CellMod = 0
        /\ \A x \in Address : m[x] = (d[x] + U(x) + r * T(x)) % CellMod
  BY DEF MulLeft
<1>5. \A x \in Address : w[x] = (d[x] + O(x)) % CellMod
  OBVIOUS
<1>6. \A x \in Address : d[x] \in Int
  BY CellFacts
<1> HIDE DEF T, U, V, O
<1>7. ASSUME NEW x \in Address, NEW b \in Int
      PROVE  (w[x] + b) % CellMod = (d[x] + O(x) + b) % CellMod
  <2> DEFINE a == d[x] + O(x)
  <2>1. a \in Int /\ w[x] = a % CellMod
    BY <1>2, <1>5, <1>6
  <2> HIDE DEF a
  <2>2. ((a % CellMod) + b) % CellMod = (a + b) % CellMod
    BY <2>1, CellFacts, ModPlus
  <2> QED
    BY <2>1, <2>2 DEF a
<1>8. ASSUME NEW x \in Address PROVE w[x] \in Int
  <2>1. d[x] + O(x) \in Int
    BY <1>2, <1>6
  <2>2. (d[x] + O(x)) % CellMod \in Int
    BY <2>1, CellFacts
  <2> QED
    BY <1>5, <2>2
<1>9. (w[h] + V(h) - r) % CellMod = 0
  <2> DEFINE b == V(h) - r
  <2>1. b \in Int
    BY <1>2
  <2>2. w[h] + V(h) - r = w[h] + b /\ d[h] + U(h) - r = d[h] + O(h) + b
    BY <1>2, <1>3, <1>6, <1>8
  <2> HIDE DEF b
  <2> QED
    BY <1>4, <1>7, <2>1, <2>2
<1>10. ASSUME NEW x \in Address
       PROVE  m[x] = (w[x] + V(x) + r * T(x)) % CellMod
  <2> DEFINE z == r * T(x)
             b == V(x) + z
  <2>1. z \in Int
    <3>1. \A i, j \in Int : i * j \in Int
      OBVIOUS
    <3> QED
      BY <1>2, <3>1
  <2>2. m[x] = (d[x] + U(x) + z) % CellMod
    BY <1>4
  <2> HIDE DEF z
  <2>3. b \in Int
    BY <1>2, <2>1
  <2>4. w[x] + V(x) + z = w[x] + b /\ d[x] + U(x) + z = d[x] + O(x) + b
    BY <1>2, <1>3, <1>6, <1>8, <2>1, SMTT(30)
  <2> HIDE DEF b
  <2>5. m[x] = (w[x] + V(x) + z) % CellMod
    BY <1>7, <2>2, <2>3, <2>4
  <2> QED
    BY <2>5 DEF z
<1> QED
  BY <1>9, <1>10 DEF MulLeft, V, T

\* An addition of the text: as much less is left to add.
LEMMA MulAdds ==
  ASSUME NEW t, MulText(t), NEW h \in Address,
         NEW d \in [Address -> Cell], NEW m, NEW q \in 0 .. Len(t) - 1, MulLeft(t, h, d, m, q),
         t[q + 1] \in Arith, NEW y, y = (h + Shift(t, q)) % MemSize
  PROVE  /\ MulLeft(t, h, [d EXCEPT ![y] = (@ + Net(t, "+", "-", {q + 1})) % CellMod], m, q + 1)
         /\ y = (h + Shift(t, q + 1)) % MemSize
<1> DEFINE N == Net(t, "+", "-", {q + 1})
           w == [d EXCEPT ![y] = (@ + N) % CellMod]
           J == {q + 1}
<1>1. t \in Seq(Char) /\ Len(t) \in Nat /\ N \in Int
  BY MulFacts, NetType
<1>2. Shift(t, q + 1) = Shift(t, q)
  <2>1. \A i \in q + 1 .. q + 1 : i \in DOMAIN t => t[i] \notin Moves
    BY DEF Arith, Moves
  <2>2. q \in Nat /\ q + 1 \in Nat /\ q <= q + 1
    OBVIOUS
  <2> QED
    BY <1>1, <2>1, <2>2, ShiftFlat
<1>3. \A j \in J \cap DOMAIN t : (h + Shift(t, j)) % MemSize = y
  BY <1>2
<1> HIDE DEF J
<1>4. ASSUME NEW x \in Address
      PROVE  w[x] = (d[x] + Touch(t, h, x, J)) % CellMod
  <2>1. CASE x = y
    <3>1. Touch(t, h, x, J) = Net(t, "+", "-", J)
      BY <1>1, <1>3, <2>1, TouchAll
    <3> QED
      BY <2>1, <3>1 DEF J
  <2>2. CASE x # y
    <3>1. Touch(t, h, x, J) = 0
      BY <1>1, <1>3, <2>2, TouchNone
    <3>2. w[x] = d[x] /\ d[x] \in Int /\ d[x] % CellMod = d[x] /\ d[x] + 0 = d[x]
      <4>1. w[x] = d[x]
        BY <2>2
      <4>2. d[x] \in Int /\ d[x] % CellMod = d[x] /\ d[x] + 0 = d[x]
        BY TapeFacts
      <4> QED
        BY <4>1, <4>2
    <3> QED
      BY <3>1, <3>2
  <2> QED
    BY <2>1, <2>2
<1>5. \A x \in Address : w[x] = (d[x] + Touch(t, h, x, {q + 1})) % CellMod
  BY <1>4 DEF J
<1> HIDE DEF w
<1>6. MulLeft(t, h, w, m, q + 1)
  BY <1>5, MulChar
<1> QED
  BY <1>2, <1>6 DEF w

\* A move of the text: what is left stays.
LEMMA MulShifts ==
  ASSUME NEW t, MulText(t), NEW h \in Address,
         NEW d \in [Address -> Cell], NEW m, NEW q \in 0 .. Len(t) - 1, MulLeft(t, h, d, m, q),
         t[q + 1] \in Moves, NEW y, y = (h + Shift(t, q)) % MemSize
  PROVE  /\ MulLeft(t, h, d, m, q + 1)
         /\ (y + Net(t, ">", "<", {q + 1})) % MemSize = (h + Shift(t, q + 1)) % MemSize
<1> DEFINE J == {q + 1}
           N == Net(t, ">", "<", J)
<1>1. t \in Seq(Char) /\ Len(t) \in Nat /\ N \in Int /\ h \in Int
  BY MulFacts, NetType, CellFacts
<1>2. \A x : Touch(t, h, x, J) = 0
  <2> TAKE x
  <2>1. \A j \in J \cap DOMAIN t : t[j] \in Arith => (h + Shift(t, j)) % MemSize # x
    BY DEF Arith, Moves
  <2> HIDE DEF J
  <2> QED
    BY <1>1, <2>1, TouchNone
<1>3. \A x \in Address : d[x] = (d[x] + Touch(t, h, x, {q + 1})) % CellMod
  <2>1. ASSUME NEW x \in Address PROVE d[x] = (d[x] + 0) % CellMod
    BY TapeFacts
  <2> QED
    BY <1>2, <2>1
<1>4. MulLeft(t, h, d, m, q + 1)
  BY <1>3, MulChar
<1>5. Shift(t, q + 1) = Shift(t, q) + N /\ Shift(t, q) \in Int
  <2> DEFINE I == 1 .. q
  <2>1. 1 .. q + 1 = I \cup J /\ I \cap J = {}
    OBVIOUS
  <2> HIDE DEF I, J
  <2>2. Net(t, ">", "<", I \cup J) = Net(t, ">", "<", I) + N
    BY <1>1, <2>1, NetSplit
  <2> QED
    BY <1>1, <2>1, <2>2, NetType DEF Shift, I
<1> HIDE DEF N
<1>6. (y + N) % MemSize = (h + Shift(t, q + 1)) % MemSize
  <2> DEFINE a == h + Shift(t, q)
  <2>1. a \in Int /\ y = a % MemSize /\ h + Shift(t, q + 1) = a + N
    BY <1>1, <1>5
  <2> HIDE DEF a
  <2>2. ((a % MemSize) + N) % MemSize = (a + N) % MemSize
    BY <1>1, <2>1, CellFacts, ModPlus
  <2> QED
    BY <2>1, <2>2
<1> QED
  BY <1>4, <1>6 DEF N

-----------------------------------------------------------------------------
(***************************************************************************)
(* What each piece of the source was translated to.                        *)
(***************************************************************************)

\* Nothing but comments between the characters a and b.
Blank(t, a, b) == a <= b /\ \A k \in a + 1 .. b : t[k] = "#"
All(t, S, a, b) == \A k \in a + 1 .. b : t[k] \in S

\* A loop without brackets in it, from p to e.
LoopAt(t, p, e) ==
  /\ p + 2 <= e /\ e <= Len(t)
  /\ t[p + 1] = "[" /\ t[e] = "]"
  /\ \A k \in p + 2 .. e - 1 : t[k] \in Arith \cup Moves
BodyOf(t, p, e) == SubSeq(t, p + 2, e - 1)

First(org, i) == i = 1 \/ org[i] # org[i - 1]
Behind(org, ps, i) == IF i < Len(org) THEN org[i + 1] ELSE ps

\* The characters from p to e became the one instruction `in`.
Plain(t, in, p, e) ==
  /\ p < e
  /\ \/ in.op = "A" /\ All(t, Arith, p, e) /\ in.imm = Net(t, "+", "-", p + 1 .. e) % CellMod
     \/ in.op = "M" /\ All(t, Moves, p, e) /\ in.off = Net(t, ">", "<", p + 1 .. e)
     \/ in.op = "IO" /\ e = p + 1 /\ t[e] = (IF in.imm = IO_IN THEN "," ELSE ".")
     \/ in.op \in {"X", "JE"} /\ e = p + 1 /\ t[e] = "["
     \/ in.op = "JN" /\ e = p + 1 /\ t[e] = "]"
     \/ in.op = "F" /\ LoopAt(t, p, e) /\ All(t, Moves, p + 1, e - 1)
                    /\ in.off = Net(t, ">", "<", p + 2 .. e - 1)
     \/ in.op = "S" /\ LoopAt(t, p, e) /\ All(t, Arith, p + 1, e - 1) /\ in.imm = 0

\* The instructions i .. i + w - 1 are those of the loop from origin[i] to e.
Group(t, code, org, i, e, w) ==
  /\ LoopAt(t, org[i], e) /\ IsMulLoop(BodyOf(t, org[i], e))
  /\ w = Pairs(BodyOf(t, org[i], e)) + 1
  /\ \A k \in 1 .. w : /\ code[i + k - 1] = MulCode(BodyOf(t, org[i], e))[k]
                       /\ org[i + k - 1] = org[i]

Piece(t, code, org, i, e, w) ==
  \/ w = 1 /\ Plain(t, code[i], org[i], e)
  \/ w = 1 /\ code[i].op = "H" /\ org[i] = e /\ e = Len(t)
  \/ Group(t, code, org, i, e, w)

\* Up to ps the source consists of pieces and comments.
PieceInv(t, code, org, ps) ==
  /\ org \in Seq(Nat) /\ Len(org) = Len(code)
  /\ Blank(t, 0, Behind(org, ps, 0))
  /\ \A i \in DOMAIN code :
       /\ org[i] <= ps /\ (code[i].op # "H" => org[i] < ps)
       /\ code[i].op \notin {"MUL", "S"} => First(org, i)
       /\ First(org, i) =>
            \E e \in 0 .. Len(t), w \in 1 .. Len(code) - i + 1 :
              /\ Piece(t, code, org, i, e, w)
              /\ Blank(t, e, Behind(org, ps, i + w - 1))

\* JE and JN stand where the source has partners, the stack holds the loops
\* that are open.
JumpInv(t, code, org, ps, stk) ==
  /\ \A i \in DOMAIN code : code[i].op = "JE" =>
       Partners(t, org[i] + 1, org[i + code[i].off] + 1)
  /\ \A k \in DOMAIN stk :
       /\ OpenAt(t, org[stk[k] + 1] + 1, ps)
       /\ Depth(t, org[stk[k] + 1] + 1) = k

\* The text between the brackets of a loop.
LEMMA BodyText ==
  ASSUME NEW t \in Seq(Char), NEW p \in Nat, NEW e \in Nat, LoopAt(t, p, e)
  PROVE  /\ BodyOf(t, p, e) \in Seq(Char) /\ Len(BodyOf(t, p, e)) = e - p - 2
         /\ DOMAIN BodyOf(t, p, e) = 1 .. e - p - 2
         /\ \A j \in 1 .. e - p - 2 : /\ BodyOf(t, p, e)[j] = t[p + 1 + j]
                                     /\ BodyOf(t, p, e)[j] \in Arith \cup Moves
<1> DEFINE body == BodyOf(t, p, e)
           n == e - p - 2
<1>1. n \in Nat /\ Len(t) \in Nat /\ p + 2 \in Nat /\ e - 1 \in Nat /\ e - 1 <= Len(t) /\ p + 2 >= 1
      /\ DOMAIN t = 1 .. Len(t)
  BY DEF LoopAt
<1>2. body = [j \in 1 .. n |-> t[p + 1 + j]]
  <2>1. body = [j \in 1 .. (e - 1) - (p + 2) + 1 |-> t[(p + 2) + j - 1]]
    BY DEF BodyOf, SubSeq
  <2>2. (e - 1) - (p + 2) + 1 = n
    OBVIOUS
  <2>3. \A j \in 1 .. n : (p + 2) + j - 1 = p + 1 + j
    OBVIOUS
  <2> QED
    BY <2>1, <2>2, <2>3
<1>3. ASSUME NEW j \in 1 .. n
      PROVE  t[p + 1 + j] \in Char /\ t[p + 1 + j] \in Arith \cup Moves
  <2>1. p + 1 + j \in p + 2 .. e - 1 /\ p + 1 + j \in DOMAIN t
    BY <1>1
  <2> QED
    BY <2>1 DEF LoopAt
<1> HIDE DEF n, body
<1>7. \A j \in 1 .. n : t[p + 1 + j] \in Char
  BY <1>3
<1>4. body \in Seq(Char) /\ Len(body) = n /\ DOMAIN body = 1 .. n
  <2> DEFINE f(j) == t[p + 1 + j]
  <2>1. n \in Nat /\ body = [j \in 1 .. n |-> f(j)] /\ \A j \in 1 .. n : f(j) \in Char
    BY <1>1, <1>2, <1>7
  <2> HIDE DEF f
  <2> QED
    BY <2>1
<1>5. \A j \in 1 .. n : body[j] = t[p + 1 + j] /\ body[j] \in Arith \cup Moves
  BY <1>2, <1>3
<1> QED
  BY <1>4, <1>5 DEF n, body

\* The body that mulLoop accepts.
LEMMA BodyMulText ==
  ASSUME NEW t \in Seq(Char), NEW p \in Nat, NEW e \in Nat, LoopAt(t, p, e),
         IsMulLoop(BodyOf(t, p, e))
  PROVE  MulText(BodyOf(t, p, e))
<1>1. /\ BodyOf(t, p, e) \in Seq(Char)
      /\ DOMAIN BodyOf(t, p, e) = 1 .. e - p - 2
      /\ \A j \in 1 .. e - p - 2 : BodyOf(t, p, e)[j] \in Arith \cup Moves
  BY BodyText
<1> QED
  BY <1>1 DEF MulText

\* mulLoop emits one MUL for each pair and an S.
LEMMA MulCodeFacts ==
  ASSUME NEW t, MulText(t)
  PROVE  /\ MulCode(t) \in Seq(Instruction) /\ Len(MulCode(t)) = Pairs(t) + 1
         /\ Pairs(t) \in Nat /\ Pairs(t) >= 1
         /\ \A k \in 1 .. Pairs(t) : MulCode(t)[k] = Instr("MUL", MulFactor(t, k), MulOffset(t, k))
         /\ MulCode(t)[Pairs(t) + 1] = Instr("S", 0, 0)
         /\ \A k \in 1 .. Pairs(t) + 1 : MulCode(t)[k].op \in {"MUL", "S"}
<1> DEFINE muls == [i \in 1 .. Pairs(t) |-> Instr("MUL", MulFactor(t, i), MulOffset(t, i))]
           last == Instr("S", 0, 0)
<1>1. Pairs(t) \in Nat /\ Pairs(t) >= 1
  BY UpToGrows
<1>2. \A i : Instr("MUL", MulFactor(t, i), MulOffset(t, i)) \in Instruction
  <2> TAKE i
  <2>1. t \in Seq(Char)
    BY MulFacts
  <2>2. MulOffset(t, i) \in Int
    BY <2>1, NetType DEF MulOffset
  <2>3. MulFactor(t, i) \in Cell
    <3> DEFINE N == Net(t, "+", "-", PairStart(t, i) .. Nth(PairEnds(t), i))
    <3>1. N \in Int
      BY <2>1, NetType
    <3> HIDE DEF N
    <3>2. N % CellMod \in Cell
      BY <3>1, CellFacts
    <3> QED
      BY <3>2 DEF MulFactor, N
  <2> QED
    BY <2>2, <2>3 DEF Instr, Instruction, Opcode
<1>3. last \in Instruction
  BY CellFacts DEF Instr, Instruction, Opcode
<1>4. muls \in Seq(Instruction) /\ Len(muls) = Pairs(t)
  BY <1>1, <1>2
<1>5. MulCode(t) = muls \o <<last>>
  BY DEF MulCode, Pairs
<1> HIDE DEF last
<1>6. \A k \in 1 .. Pairs(t) : muls[k] = Instr("MUL", MulFactor(t, k), MulOffset(t, k))
  OBVIOUS
<1> HIDE DEF muls
<1> DEFINE K == Pairs(t)
<1>7. K \in Nat /\ Len(muls) = K
  BY <1>1, <1>4
<1>8. <<last>> \in Seq(Instruction) /\ Len(<<last>>) = 1 /\ <<last>>[1] = last
  BY <1>3
<1> HIDE DEF K
<1>9. /\ MulCode(t) \in Seq(Instruction) /\ Len(MulCode(t)) = K + 1
      /\ \A k \in 1 .. K : MulCode(t)[k] = muls[k]
      /\ MulCode(t)[K + 1] = last
  BY <1>3, <1>4, <1>5, <1>7
<1>10. last.op = "S" /\ \A i : Instr("MUL", MulFactor(t, i), MulOffset(t, i)).op = "MUL"
  BY DEF last, Instr
<1>11. ASSUME NEW k \in 1 .. K + 1 PROVE MulCode(t)[k].op \in {"MUL", "S"}
  <2>1. CASE k \in 1 .. K
    <3>1. MulCode(t)[k] = Instr("MUL", MulFactor(t, k), MulOffset(t, k))
      BY <1>6, <1>9, <2>1 DEF K
    <3> QED
      BY <1>10, <3>1
  <2>2. CASE k = K + 1
    BY <1>9, <1>10, <2>2
  <2> QED
    BY <1>7, <2>1, <2>2
<1> QED
  BY <1>1, <1>6, <1>9, <1>11 DEF K, last

\* The translation of n characters is put behind code: new and rec are what
\* code and its history become.
Emitted(t, code, org, ps, more, n, new, rec) ==
  /\ PieceInv(t, code, org, ps) /\ \A i \in DOMAIN code : code[i].op # "H"
  /\ ps + n <= Len(t) /\ Len(more) >= 1
  /\ \A k \in 2 .. Len(more) : more[k].op \in {"MUL", "S"}
  /\ \A k \in 1 .. Len(more) : more[k].op # "H" => n > 0
  /\ Len(new) = Len(code) + Len(more) /\ Len(rec) = Len(code) + Len(more)
  /\ \A i \in 1 .. Len(code) : new[i] = code[i] /\ rec[i] = org[i]
  /\ \A k \in 1 .. Len(more) : new[Len(code) + k] = more[k] /\ rec[Len(code) + k] = ps
  /\ Piece(t, new, rec, Len(code) + 1, ps + n, Len(more))

\* Emitting keeps the pieces of source, and what is emitted is one more.
LEMMA EmitKeeps ==
  ASSUME NEW t \in Seq(Char), NEW code \in Seq(Instruction), NEW org, NEW ps \in Nat,
         NEW more \in Seq(Instruction), NEW n \in Nat,
         NEW new \in Seq(Instruction), NEW rec \in Seq(Nat),
         Emitted(t, code, org, ps, more, n, new, rec)
  PROVE  PieceInv(t, new, rec, ps + n)
<1> DEFINE w == Len(more)
<1>12. /\ PieceInv(t, code, org, ps) /\ \A i \in DOMAIN code : code[i].op # "H"
       /\ ps + n <= Len(t) /\ w \in Nat /\ w >= 1
       /\ \A k \in 2 .. w : more[k].op \in {"MUL", "S"}
       /\ \A k \in 1 .. w : more[k].op # "H" => n > 0
       /\ Piece(t, new, rec, Len(code) + 1, ps + n, w)
  BY DEF Emitted
<1>13. /\ Len(new) = Len(code) + w /\ Len(rec) = Len(code) + w
       /\ \A i \in 1 .. Len(code) : new[i] = code[i] /\ rec[i] = org[i]
       /\ \A k \in 1 .. w : new[Len(code) + k] = more[k] /\ rec[Len(code) + k] = ps
  BY DEF Emitted
<1> HIDE DEF w
<1> DEFINE L == Len(code)
<1>1. /\ L \in Nat /\ Len(t) \in Nat /\ org \in Seq(Nat) /\ Len(org) = L
      /\ DOMAIN code = 1 .. L /\ DOMAIN new = 1 .. Len(new)
      /\ w \in Nat /\ w >= 1
  BY <1>12 DEF PieceInv
<1>2. /\ Len(new) = L + w /\ DOMAIN new = 1 .. L + w
      /\ \A i \in 1 .. L : new[i] = code[i]
      /\ \A k \in 1 .. w : new[L + k] = more[k]
  BY <1>1, <1>13
<1>3. /\ rec \in Seq(Nat) /\ Len(rec) = L + w
      /\ \A i \in 1 .. L : rec[i] = org[i]
      /\ \A k \in 1 .. w : rec[L + k] = ps
  BY <1>1, <1>13
<1> HIDE DEF L
<1>4. ASSUME NEW i \in 1 .. L PROVE org[i] < ps /\ org[i] \in Nat
  <2>1. i \in DOMAIN code /\ i \in DOMAIN org
    BY <1>1
  <2>2. org[i] < ps
    BY <1>12, <2>1 DEF PieceInv
  <2> QED
    BY <1>1, <2>1, <2>2
<1>5. \A i \in L + 1 .. L + w : rec[i] = ps /\ new[i] = more[i - L] /\ i - L \in 1 .. w
  <2> SUFFICES ASSUME NEW i \in L + 1 .. L + w
               PROVE  rec[i] = ps /\ new[i] = more[i - L] /\ i - L \in 1 .. w
    OBVIOUS
  <2>1. i - L \in 1 .. w /\ L + (i - L) = i
    BY <1>1
  <2> QED
    BY <1>2, <1>3, <2>1
<1>6. \A i \in 0 .. L : Behind(rec, ps + n, i) = Behind(org, ps, i)
  <2> SUFFICES ASSUME NEW i \in 0 .. L PROVE Behind(rec, ps + n, i) = Behind(org, ps, i)
    OBVIOUS
  <2>1. CASE i < L
    <3>1. i + 1 \in 1 .. L
      BY <1>1, <2>1
    <3> QED
      <4>1. rec[i + 1] = org[i + 1] /\ i < Len(rec) /\ i < Len(org)
        BY <1>1, <1>3, <2>1, <3>1
      <4> QED
        BY <4>1 DEF Behind
  <2>2. CASE i = L
    <3>1. rec[L + 1] = ps /\ L < L + w
      BY <1>1, <1>3
    <3> QED
      BY <1>1, <1>3, <2>2, <3>1 DEF Behind
  <2> QED
    BY <1>1, <2>1, <2>2
<1>7. Blank(t, 0, Behind(rec, ps + n, 0))
  <2>1. 0 \in 0 .. L
    BY <1>1
  <2> QED
    BY <1>6, <1>12, <2>1 DEF PieceInv
<1>8. ASSUME NEW i \in 1 .. L
      PROVE  /\ rec[i] <= ps + n /\ (new[i].op # "H" => rec[i] < ps + n)
             /\ new[i].op \notin {"MUL", "S"} => First(rec, i)
             /\ First(rec, i) =>
                  \E e \in 0 .. Len(t), v \in 1 .. Len(new) - i + 1 :
                    /\ Piece(t, new, rec, i, e, v)
                    /\ Blank(t, e, Behind(rec, ps + n, i + v - 1))
  <2>1. rec[i] = org[i] /\ new[i] = code[i] /\ org[i] < ps /\ org[i] \in Nat
    BY <1>2, <1>3, <1>4
  <2>2. First(rec, i) <=> First(org, i)
    <3>1. i # 1 => i - 1 \in 1 .. L
      BY <1>1
    <3> QED
      BY <1>3, <2>1, <3>1 DEF First
  <2>3. /\ rec[i] <= ps + n /\ rec[i] < ps + n
        /\ new[i].op \notin {"MUL", "S"} => First(rec, i)
    <3>1. i \in DOMAIN code
      BY <1>1
    <3>2. code[i].op \notin {"MUL", "S"} => First(org, i)
      BY <1>12, <3>1 DEF PieceInv
    <3> QED
      BY <2>1, <2>2, <3>2
  <2>4. ASSUME First(rec, i)
        PROVE  \E e \in 0 .. Len(t), v \in 1 .. Len(new) - i + 1 :
                 /\ Piece(t, new, rec, i, e, v)
                 /\ Blank(t, e, Behind(rec, ps + n, i + v - 1))
    <3>1. PICK e \in 0 .. Len(t), v \in 1 .. Len(code) - i + 1 :
            /\ Piece(t, code, org, i, e, v)
            /\ Blank(t, e, Behind(org, ps, i + v - 1))
      BY <1>1, <1>12, <2>2, <2>4 DEF PieceInv
    <3>2. v \in 1 .. Len(new) - i + 1 /\ i + v - 1 \in 0 .. L
      BY <1>1, <1>2 DEF L
    <3>3. \A k \in 1 .. v : i + k - 1 \in 1 .. L
      BY <1>1 DEF L
    <3>4. Group(t, code, org, i, e, v) => Group(t, new, rec, i, e, v)
      <4> SUFFICES ASSUME Group(t, code, org, i, e, v) PROVE Group(t, new, rec, i, e, v)
        OBVIOUS
      <4>1. \A k \in 1 .. v : new[i + k - 1] = code[i + k - 1] /\ rec[i + k - 1] = org[i + k - 1]
        BY <1>2, <1>3, <3>3
      <4> QED
        BY <2>1, <4>1 DEF Group
    <3>5. Piece(t, new, rec, i, e, v)
      BY <2>1, <3>1, <3>4 DEF Piece
    <3> QED
      BY <1>6, <3>1, <3>2, <3>5
  <2> QED
    BY <2>3, <2>4
<1>9. ASSUME NEW i \in L + 1 .. L + w
      PROVE  /\ rec[i] <= ps + n /\ (new[i].op # "H" => rec[i] < ps + n)
             /\ new[i].op \notin {"MUL", "S"} => First(rec, i)
             /\ First(rec, i) =>
                  \E e \in 0 .. Len(t), v \in 1 .. Len(new) - i + 1 :
                    /\ Piece(t, new, rec, i, e, v)
                    /\ Blank(t, e, Behind(rec, ps + n, i + v - 1))
  <2>1. rec[i] = ps /\ new[i] = more[i - L] /\ i - L \in 1 .. w
    BY <1>5
  <2>2. rec[i] <= ps + n /\ (new[i].op # "H" => rec[i] < ps + n)
    <3> DEFINE k == i - L
    <3>1. more[k].op # "H" => n > 0
      BY <1>12, <2>1
    <3> HIDE DEF k
    <3> QED
      BY <2>1, <3>1 DEF k
  <2>3. CASE i = L + 1
    <3>1. First(rec, i)
      <4>1. i = 1 \/ i - 1 \in 1 .. L
        BY <1>1, <2>3
      <4>2. i - 1 \in 1 .. L => rec[i - 1] < ps /\ rec[i - 1] \in Nat
        BY <1>3, <1>4
      <4>3. i - 1 \in 1 .. L => rec[i] # rec[i - 1]
        BY <2>1, <4>2
      <4> QED
        BY <4>1, <4>3 DEF First
    <3>2. w \in 1 .. Len(new) - i + 1 /\ ps + n \in 0 .. Len(t) /\ i + w - 1 = L + w
      BY <1>1, <1>2, <1>12, <2>3
    <3>3. Behind(rec, ps + n, i + w - 1) = ps + n
      BY <1>1, <1>3, <3>2 DEF Behind
    <3>4. Blank(t, ps + n, ps + n)
      BY DEF Blank
    <3>5. Piece(t, new, rec, i, ps + n, w)
      BY <1>12, <2>3 DEF L
    <3> QED
      BY <2>2, <3>1, <3>2, <3>3, <3>4, <3>5
  <2>4. CASE i # L + 1
    <3>1. i - 1 \in L + 1 .. L + w /\ i - L \in 2 .. w
      <4>1. L \in Nat /\ w \in Nat
        BY <1>1, <1>12
      <4> QED
        BY <2>4, <4>1
    <3>2. ~First(rec, i)
      <4>1. rec[i - 1] = ps /\ i # 1
        <5>1. L \in Nat
          BY <1>1
        <5> QED
          BY <1>5, <3>1, <5>1
      <4> QED
        BY <2>1, <4>1 DEF First
    <3>3. new[i].op \in {"MUL", "S"}
      BY <1>12, <2>1, <3>1
    <3> QED
      BY <2>2, <3>2, <3>3
  <2> QED
    BY <2>3, <2>4
<1>10. \A i \in DOMAIN new : i \in 1 .. L \/ i \in L + 1 .. L + w
  BY <1>1, <1>2
<1>11. Len(rec) = Len(new)
  BY <1>2, <1>3
<1> QED
  BY <1>3, <1>7, <1>8, <1>9, <1>10, <1>11 DEF PieceInv

\* Comments are nobody's.
LEMMA SkipKeeps ==
  ASSUME NEW t \in Seq(Char), NEW code \in Seq(Instruction), NEW org, NEW ps \in Nat,
         PieceInv(t, code, org, ps), t[ps + 1] = "#"
  PROVE  PieceInv(t, code, org, ps + 1)
<1>1. /\ Len(code) \in Nat /\ org \in Seq(Nat) /\ Len(org) = Len(code)
      /\ DOMAIN code = 1 .. Len(code)
  BY DEF PieceInv
<1>2. ASSUME NEW a \in Nat, NEW i, Blank(t, a, Behind(org, ps, i))
      PROVE  Blank(t, a, Behind(org, ps + 1, i))
  <2>1. CASE i < Len(org)
    BY <1>2, <2>1 DEF Behind
  <2>2. CASE ~(i < Len(org))
    <3>1. Behind(org, ps, i) = ps /\ Behind(org, ps + 1, i) = ps + 1
      BY <2>2 DEF Behind
    <3>2. a <= ps /\ \A k \in a + 1 .. ps : t[k] = "#"
      BY <1>2, <3>1 DEF Blank
    <3>3. \A k \in a + 1 .. ps + 1 : k \in a + 1 .. ps \/ k = ps + 1
      OBVIOUS
    <3> QED
      BY <3>1, <3>2, <3>3 DEF Blank
  <2> QED
    BY <2>1, <2>2
<1>3. Blank(t, 0, Behind(org, ps + 1, 0))
  BY <1>2 DEF PieceInv
<1>4. ASSUME NEW i \in DOMAIN code
      PROVE  /\ org[i] <= ps + 1 /\ (code[i].op # "H" => org[i] < ps + 1)
             /\ code[i].op \notin {"MUL", "S"} => First(org, i)
             /\ First(org, i) =>
                  \E e \in 0 .. Len(t), w \in 1 .. Len(code) - i + 1 :
                    /\ Piece(t, code, org, i, e, w)
                    /\ Blank(t, e, Behind(org, ps + 1, i + w - 1))
  <2>1. /\ org[i] <= ps /\ org[i] \in Nat
        /\ code[i].op \notin {"MUL", "S"} => First(org, i)
    BY <1>1 DEF PieceInv
  <2>2. org[i] <= ps + 1 /\ org[i] < ps + 1
    BY <2>1
  <2>3. ASSUME First(org, i)
        PROVE  \E e \in 0 .. Len(t), w \in 1 .. Len(code) - i + 1 :
                    /\ Piece(t, code, org, i, e, w)
                    /\ Blank(t, e, Behind(org, ps + 1, i + w - 1))
    <3>1. PICK e \in 0 .. Len(t), w \in 1 .. Len(code) - i + 1 :
                    /\ Piece(t, code, org, i, e, w)
                    /\ Blank(t, e, Behind(org, ps, i + w - 1))
      BY <2>3 DEF PieceInv
    <3>2. Blank(t, e, Behind(org, ps + 1, i + w - 1))
      BY <1>2, <3>1
    <3> QED
      BY <3>1, <3>2
  <2> QED
    BY <2>1, <2>2, <2>3
<1> QED
  BY <1>1, <1>3, <1>4 DEF PieceInv

\* Nor does a placeholder become anything else than the JE of its bracket.
LEMMA PatchKeeps ==
  ASSUME NEW t \in Seq(Char), NEW code \in Seq(Instruction), NEW org, NEW ps \in Nat,
         PieceInv(t, code, org, ps),
         NEW x \in DOMAIN code, code[x].op = "X", NEW in, in.op = "JE",
         NEW new, new = [code EXCEPT ![x] = in]
  PROVE  PieceInv(t, new, org, ps)
<1>1. /\ Len(code) \in Nat /\ org \in Seq(Nat) /\ Len(org) = Len(code)
      /\ DOMAIN code = 1 .. Len(code)
  BY DEF PieceInv
<1>2. /\ Len(new) = Len(code) /\ DOMAIN new = DOMAIN code /\ new[x] = in
      /\ \A i \in DOMAIN code : i # x => new[i] = code[i]
  BY <1>1
<1>3. ASSUME NEW i \in DOMAIN code, NEW e \in 0 .. Len(t), NEW w \in 1 .. Len(code) - i + 1,
             Piece(t, code, org, i, e, w)
      PROVE  Piece(t, new, org, i, e, w)
  <2>1. org[i] \in Nat
    <3>1. i \in 1 .. Len(org)
      BY <1>1
    <3> QED
      BY <1>1, <3>1, SMTT(30)
  <2>2. e \in Nat
    OBVIOUS
  <2>3. CASE w = 1 /\ Plain(t, code[i], org[i], e)
    <3>1. Plain(t, new[i], org[i], e)
      <4>1. CASE i # x
        BY <1>2, <2>3, <4>1
      <4>2. CASE i = x
        <5>1. org[i] < e /\ e = org[i] + 1 /\ t[e] = "["
          BY <2>3, <4>2 DEF Plain
        <5> QED
          BY <1>2, <4>2, <5>1 DEF Plain
      <4> QED
        BY <4>1, <4>2
    <3> QED
      BY <2>3, <3>1 DEF Piece
  <2>4. CASE w = 1 /\ code[i].op = "H" /\ org[i] = e /\ e = Len(t)
    <3>1. i # x
      BY <2>4
    <3> QED
      BY <1>2, <2>4, <3>1 DEF Piece
  <2>5. CASE Group(t, code, org, i, e, w)
    <3>1. ASSUME NEW k \in 1 .. w PROVE new[i + k - 1] = code[i + k - 1]
      <4>1. i + k - 1 \in DOMAIN code
        <5>1. Len(code) \in Nat /\ i \in 1 .. Len(code)
          BY <1>1
        <5>2. i + k - 1 \in 1 .. Len(code)
          BY <5>1
        <5> QED
          BY <1>1, <5>2
      <4>2. code[i + k - 1].op \in {"MUL", "S"}
        <5> DEFINE body == BodyOf(t, org[i], e)
        <5>1. code[i + k - 1] = MulCode(body)[k] /\ w = Pairs(body) + 1
          BY <2>5 DEF Group
        <5>2. MulText(body)
          <6>1. LoopAt(t, org[i], e) /\ IsMulLoop(body)
            BY <2>5 DEF Group
          <6> QED
            BY <2>1, <2>2, <6>1, BodyMulText
        <5> HIDE DEF body
        <5>3. /\ Pairs(body) \in Nat
              /\ \A j \in 1 .. Pairs(body) + 1 : MulCode(body)[j].op \in {"MUL", "S"}
          BY <5>2, MulCodeFacts
        <5> QED
          BY <5>1, <5>3
      <4> QED
        BY <1>2, <4>1, <4>2
    <3>2. Group(t, new, org, i, e, w)
      BY <2>5, <3>1 DEF Group
    <3> QED
      BY <3>2 DEF Piece
  <2> QED
    BY <1>3, <2>3, <2>4, <2>5 DEF Piece
<1>4. ASSUME NEW i \in DOMAIN code
      PROVE  /\ org[i] <= ps /\ (new[i].op # "H" => org[i] < ps)
             /\ new[i].op \notin {"MUL", "S"} => First(org, i)
             /\ First(org, i) =>
                  \E e \in 0 .. Len(t), w \in 1 .. Len(new) - i + 1 :
                    /\ Piece(t, new, org, i, e, w)
                    /\ Blank(t, e, Behind(org, ps, i + w - 1))
  <2>1. /\ org[i] <= ps /\ (new[i].op # "H" => org[i] < ps)
        /\ new[i].op \notin {"MUL", "S"} => First(org, i)
    <3>1. CASE i # x
      BY <1>2, <3>1 DEF PieceInv
    <3>2. CASE i = x
      BY <1>2, <3>2 DEF PieceInv
    <3> QED
      BY <3>1, <3>2
  <2>2. ASSUME First(org, i)
        PROVE  \E e \in 0 .. Len(t), w \in 1 .. Len(new) - i + 1 :
                    /\ Piece(t, new, org, i, e, w)
                    /\ Blank(t, e, Behind(org, ps, i + w - 1))
    <3>1. PICK e \in 0 .. Len(t), w \in 1 .. Len(code) - i + 1 :
                    /\ Piece(t, code, org, i, e, w)
                    /\ Blank(t, e, Behind(org, ps, i + w - 1))
      BY <2>2 DEF PieceInv
    <3>2. Piece(t, new, org, i, e, w)
      BY <1>3, <3>1
    <3> QED
      BY <1>2, <3>1, <3>2
  <2> QED
    BY <2>1, <2>2
<1>5. Blank(t, 0, Behind(org, ps, 0))
  BY DEF PieceInv
<1> QED
  BY <1>1, <1>2, <1>4, <1>5 DEF PieceInv

-----------------------------------------------------------------------------
(***************************************************************************)
(* A step of translate, with its record in origin.                         *)
(***************************************************************************)

\* new and rec are code and org with more behind them, which begins at ps.
Extended(code, org, ps, more, new, rec) ==
  /\ new \in Seq(Instruction) /\ rec \in Seq(Nat)
  /\ Len(new) = Len(code) + Len(more) /\ Len(rec) = Len(code) + Len(more)
  /\ \A i \in 1 .. Len(code) : new[i] = code[i] /\ rec[i] = org[i]
  /\ \A k \in 1 .. Len(more) : new[Len(code) + k] = more[k] /\ rec[Len(code) + k] = ps

\* The elements of a concatenation.
LEMMA ConcatFacts ==
  ASSUME NEW S, NEW r \in Seq(S), NEW s \in Seq(S)
  PROVE  /\ r \o s \in Seq(S) /\ Len(r \o s) = Len(r) + Len(s)
         /\ \A i \in 1 .. Len(r) : (r \o s)[i] = r[i]
         /\ \A i \in 1 .. Len(s) : (r \o s)[Len(r) + i] = s[i]
  OBVIOUS

\* The same for every two sequences.
LEMMA Concatenations ==
  \A S : \A r, s \in Seq(S) :
    /\ r \o s \in Seq(S) /\ Len(r \o s) = Len(r) + Len(s)
    /\ \A i \in 1 .. Len(r) : (r \o s)[i] = r[i]
    /\ \A i \in 1 .. Len(s) : (r \o s)[Len(r) + i] = s[i]
  BY ConcatFacts

\* What Records appends to origin fits the code that is emitted.
LEMMA ExtendedBy ==
  ASSUME NEW code \in Seq(Instruction), NEW org \in Seq(Nat), Len(org) = Len(code),
         NEW ps \in Nat, NEW more \in Seq(Instruction)
  PROVE  Extended(code, org, ps, more, code \o more,
                  org \o [k \in 1 .. Len(code \o more) - Len(code) |-> ps])
<1> DEFINE L == Len(code)
           w == Len(more)
           new == code \o more
           marks == [k \in 1 .. w |-> ps]
<1>1. L \in Nat /\ w \in Nat /\ Len(org) = L
  OBVIOUS
<1>2. /\ new \in Seq(Instruction) /\ Len(new) = L + w
      /\ \A i \in 1 .. L : new[i] = code[i]
      /\ \A k \in 1 .. w : new[L + k] = more[k]
  BY ConcatFacts
<1> HIDE DEF new
<1>3. Len(new) - L = w
  BY <1>1, <1>2
<1> HIDE DEF L, w
<1>4. marks \in Seq(Nat) /\ Len(marks) = w /\ \A k \in 1 .. w : marks[k] = ps
  BY <1>1
<1> HIDE DEF marks
<1> DEFINE rec == org \o marks
<1>9. org \in Seq(Nat) /\ marks \in Seq(Nat)
  BY <1>4
<1>10. /\ org \o marks \in Seq(Nat)
       /\ Len(org \o marks) = Len(org) + Len(marks)
  BY <1>9, Concatenations
<1>11. \A i \in 1 .. Len(org) : (org \o marks)[i] = org[i]
  BY <1>9, Concatenations
<1>12. \A i \in 1 .. Len(marks) : (org \o marks)[Len(org) + i] = marks[i]
  BY <1>9, Concatenations
<1>8. /\ rec \in Seq(Nat) /\ Len(rec) = Len(org) + Len(marks)
      /\ \A i \in 1 .. Len(org) : rec[i] = org[i]
      /\ \A k \in 1 .. Len(marks) : rec[Len(org) + k] = marks[k]
  BY <1>10, <1>11, <1>12
<1> HIDE DEF rec
<1>5. /\ rec \in Seq(Nat) /\ Len(rec) = L + w
      /\ \A i \in 1 .. L : rec[i] = org[i]
      /\ \A k \in 1 .. w : rec[L + k] = ps
  BY <1>1, <1>4, <1>8
<1>6. Extended(code, org, ps, more, new, rec)
  BY <1>2, <1>5 DEF Extended, L, w
<1>7. rec = org \o [k \in 1 .. Len(new) - L |-> ps]
  BY <1>3 DEF rec, marks
<1> QED
  BY <1>6, <1>7 DEF new, L

\* Text without brackets leaves no bracket open that was closed.
LEMMA OpenFlat ==
  ASSUME NEW t \in Seq(Char), NEW k \in 0 .. Len(t), NEW q \in k .. Len(t),
         \A i \in k + 1 .. q : t[i] \notin {"[", "]"}, NEW i, OpenAt(t, i, k)
  PROVE  OpenAt(t, i, q)
<1>1. i \in 1 .. k /\ k \in Int /\ q \in Int /\ Len(t) \in Nat /\ (i \in k .. q \/ i < k)
  BY DEF OpenAt
<1>2. ASSUME NEW j \in i .. q
      PROVE  Depth(t, j) >= Depth(t, i)
  <2>1. i \in 1 .. k /\ j \in Int /\ Depth(t, k) >= Depth(t, i)
    <3>1. i \in 1 .. k /\ k \in i .. k
      BY DEF OpenAt
    <3> QED
      BY <3>1 DEF OpenAt
  <2>2. CASE j <= k
    <3>1. j \in i .. k
      BY <2>1, <2>2
    <3> QED
      BY <3>1 DEF OpenAt
  <2>3. CASE ~(j <= k)
    <3>1. j \in k .. Len(t) /\ \A n \in k + 1 .. j : t[n] # "[" /\ t[n] # "]"
      BY <2>1, <2>3
    <3>2. Depth(t, j) = Depth(t, k)
      BY <3>1, DepthFlat
    <3> QED
      BY <2>1, <3>2
  <2> QED
    BY <2>2, <2>3
<1>3. i \in 1 .. q /\ t[i] = "["
  BY DEF OpenAt
<1> QED
  BY <1>2, <1>3 DEF OpenAt

\* The brackets of an innermost loop are partners.
LEMMA LoopPartners ==
  ASSUME NEW t \in Seq(Char), NEW p \in Nat, NEW e \in Nat, LoopAt(t, p, e)
  PROVE  Partners(t, p + 1, e)
<1>1. /\ p \in 0 .. Len(t) - 2 /\ e \in p + 2 .. Len(t) /\ t[p + 1] = "[" /\ t[e] = "]"
      /\ Len(t) \in Nat
  BY DEF LoopAt
<1>2. \A i \in p + 2 .. e - 1 : t[i] # "[" /\ t[i] # "]"
  BY DEF LoopAt, Arith, Moves
<1>3. Depth(t, e) = Depth(t, p)
  BY <1>1, <1>2, DepthInnermost
<1>4. Depth(t, p + 1) = Depth(t, p) + 1 /\ Depth(t, p) \in Int
  <2>1. p \in 0 .. Len(t) - 1
    BY <1>1
  <2> QED
    BY <1>1, <2>1, DepthStep, DepthType
<1>5. ASSUME NEW k \in p + 1 .. e - 1
      PROVE  Depth(t, k) > Depth(t, e)
  <2> DEFINE a == p + 1
  <2>1. a \in 0 .. Len(t) /\ k \in a .. Len(t) /\ \A i \in a + 1 .. k : i \in p + 2 .. e - 1
    BY <1>1
  <2> HIDE DEF a
  <2>2. \A i \in a + 1 .. k : t[i] # "[" /\ t[i] # "]"
    BY <1>2, <2>1
  <2>3. Depth(t, k) = Depth(t, a)
    BY <2>1, <2>2, DepthFlat
  <2> QED
    BY <1>3, <1>4, <2>3 DEF a
<1>6. (p + 1) - 1 = p /\ p + 1 < e
  BY <1>1
<1> QED
  BY <1>1, <1>3, <1>5, <1>6 DEF Partners

\* Part of a text, counted by itself.
LEMMA NetOfPart ==
  ASSUME NEW t \in Seq(Char), NEW a \in Nat, NEW b \in Nat, a >= 1, b <= Len(t),
         NEW n \in Nat, n >= b - a + 1, NEW up, NEW down
  PROVE  Net(SubSeq(t, a, b), up, down, 1 .. n) = Net(t, up, down, a .. b)
<1> DEFINE s == SubSeq(t, a, b)
<1>1. s = [j \in 1 .. b - a + 1 |-> t[a + j - 1]] /\ DOMAIN s = 1 .. b - a + 1
  BY DEF SubSeq
<1>2. ASSUME NEW ch
      PROVE  Cardinality(Places(s, ch, 1 .. n)) = Cardinality(Places(t, ch, a .. b))
  <2> DEFINE P == Places(s, ch, 1 .. n)
             Q == Places(t, ch, a .. b)
             f == [i \in Q |-> i - a + 1]
  <2>1. P = {j \in 1 .. b - a + 1 : t[a + j - 1] = ch}
    <3> HIDE DEF s
    <3> QED
      BY <1>1 DEF Places
  <2>2. Q = {i \in a .. b : t[i] = ch}
    BY DEF Places
  <2>3. IsFiniteSet(Q)
    BY PlacesFinite
  <2> HIDE DEF P, Q
  <2>4. f \in [Q -> P]
    <3> SUFFICES ASSUME NEW i \in Q PROVE i - a + 1 \in P
      OBVIOUS
    <3>1. i \in a .. b /\ t[i] = ch
      BY <2>2
    <3>2. i - a + 1 \in 1 .. b - a + 1 /\ a + (i - a + 1) - 1 = i
      BY <3>1
    <3> QED
      BY <2>1, <3>1, <3>2
  <2>5. \A i, j \in Q : f[i] = f[j] => i = j
    BY <2>2
  <2>6. ASSUME NEW j \in P PROVE \E i \in Q : f[i] = j
    <3>1. j \in 1 .. b - a + 1 /\ t[a + j - 1] = ch
      BY <2>1
    <3> DEFINE i == a + j - 1
    <3>2. i \in a .. b /\ i - a + 1 = j /\ t[i] = ch
      BY <3>1
    <3> HIDE DEF i
    <3>3. i \in Q
      BY <2>2, <3>2
    <3> QED
      BY <3>2, <3>3
  <2> HIDE DEF f
  <2>7. f \in Bijection(Q, P)
    BY <2>4, <2>5, <2>6 DEF Bijection, Injection, Surjection, IsInjective
  <2>8. ExistsBijection(Q, P)
    BY <2>7 DEF ExistsBijection
  <2> QED
    BY <2>3, <2>8, FS_Bijection DEF P, Q
<1> HIDE DEF s
<1>3. /\ Net(s, up, down, 1 .. n) = Cardinality(Places(s, up, 1 .. n)) - Cardinality(Places(s, down, 1 .. n))
      /\ Net(t, up, down, a .. b) = Cardinality(Places(t, up, a .. b)) - Cardinality(Places(t, down, a .. b))
  BY DEF Net, Places
<1>4. Net(s, up, down, 1 .. n) = Net(t, up, down, a .. b)
  BY <1>2, <1>3
<1> QED
  BY <1>4 DEF s

\* What the translator's invariant says while it emits.
LEMMA Emitting ==
  ASSUME IInv, phase = "translate"
  PROVE  /\ src \in Seq(Char) /\ Len(src) \in Nat /\ pos \in 0 .. Len(src) /\ pos \in Nat
         /\ bitcode \in Seq(Instruction) /\ Len(bitcode) \in Nat /\ DOMAIN bitcode = 1 .. Len(bitcode)
         /\ stack \in Seq(Nat) /\ Len(stack) \in Nat /\ DOMAIN stack = 1 .. Len(stack)
         /\ \A i \in DOMAIN bitcode : bitcode[i].op # "H"
         /\ Len(stack) = Depth(src, pos) /\ Balanced(src)
         /\ \A k \in DOMAIN stack : stack[k] \in Nat /\ stack[k] + 1 \in DOMAIN bitcode
                                    /\ bitcode[stack[k] + 1].op = "X"
         /\ \A i \in DOMAIN bitcode : bitcode[i].op = "JE" =>
              i + bitcode[i].off \in DOMAIN bitcode
<1>1. /\ src \in Seq(Char) /\ Len(src) \in Nat /\ pos \in 0 .. Len(src) /\ pos \in Nat
      /\ bitcode \in Seq(Instruction) /\ Len(bitcode) \in Nat /\ DOMAIN bitcode = 1 .. Len(bitcode)
      /\ stack \in Seq(Nat) /\ Len(stack) \in Nat /\ DOMAIN stack = 1 .. Len(stack)
  BY DEF IInv, TypeOK
<1>2. \A i \in DOMAIN bitcode : bitcode[i].op # "H"
  BY DEF IInv, HaltInv
<1>3. Len(stack) = Depth(src, pos) /\ Balanced(src)
  BY DEF IInv, DepthInv
<1>4. Pending(bitcode, stack) /\ JumpsMatched(bitcode)
  BY DEF IInv, CodeInv
<1>5. ASSUME NEW k \in DOMAIN stack
      PROVE  stack[k] \in Nat /\ stack[k] + 1 \in DOMAIN bitcode /\ bitcode[stack[k] + 1].op = "X"
  <2>1. stack[k] \in Nat /\ stack[k] < Len(bitcode)
    BY <1>1, <1>4 DEF Pending
  <2>2. stack[k] + 1 \in DOMAIN bitcode
    BY <1>1, <2>1
  <2> QED
    BY <1>4, <2>1, <2>2 DEF Pending
<1>6. \A i \in DOMAIN bitcode : bitcode[i].op = "JE" => i + bitcode[i].off \in DOMAIN bitcode
  BY <1>4 DEF JumpsMatched, Paired
<1> QED
  BY <1>1, <1>2, <1>3, <1>5, <1>6

Translated == PieceInv(src, bitcode, origin, pos) /\ JumpInv(src, bitcode, origin, pos, stack)

\* A step that records in origin where it stood.
Records == origin' = origin \o [i \in 1 .. Len(bitcode') - Len(bitcode) |-> pos]

\* What the new instructions must be.
Fits(more, n, new, rec) ==
  /\ Len(more) >= 1 /\ pos + n <= Len(src)
  /\ \A k \in 2 .. Len(more) : more[k].op \in {"MUL", "S"}
  /\ \A k \in 1 .. Len(more) : more[k].op # "JE" /\ (more[k].op # "H" => n > 0)
  /\ Piece(src, new, rec, Len(bitcode) + 1, pos + n, Len(more))

\* A step that emits keeps the pieces of source.
LEMMA PiecesGrow ==
  ASSUME IInv, phase = "translate", Translated,
         NEW more \in Seq(Instruction), NEW n \in Nat,
         NEW new, NEW rec, Extended(bitcode, origin, pos, more, new, rec), Fits(more, n, new, rec)
  PROVE  PieceInv(src, new, rec, pos + n)
<1>1. /\ src \in Seq(Char) /\ pos \in Nat /\ bitcode \in Seq(Instruction)
      /\ \A i \in DOMAIN bitcode : bitcode[i].op # "H"
  BY Emitting
<1>2. new \in Seq(Instruction) /\ rec \in Seq(Nat)
  BY DEF Extended
<1>3. Emitted(src, bitcode, origin, pos, more, n, new, rec)
  BY <1>1 DEF Emitted, Extended, Fits, Translated
<1> QED
  BY <1>1, <1>2, <1>3, EmitKeeps

\* A step that emits no JE keeps the open jumps.
LEMMA JumpsGrow ==
  ASSUME IInv, phase = "translate", Translated,
         NEW more \in Seq(Instruction), NEW n \in Nat,
         NEW new, NEW rec, Extended(bitcode, origin, pos, more, new, rec),
         \A k \in 1 .. Len(more) : more[k].op # "JE",
         \A i : OpenAt(src, i, pos) => OpenAt(src, i, pos + n)
  PROVE  JumpInv(src, new, rec, pos + n, stack)
<1> DEFINE L == Len(bitcode)
           w == Len(more)
<1>1. /\ L \in Nat /\ w \in Nat /\ DOMAIN bitcode = 1 .. L
      /\ \A k \in DOMAIN stack : stack[k] \in Nat /\ stack[k] + 1 \in DOMAIN bitcode
      /\ \A i \in DOMAIN bitcode : bitcode[i].op = "JE" =>
              i + bitcode[i].off \in DOMAIN bitcode
  BY Emitting
<1>2. /\ DOMAIN new = 1 .. L + w
      /\ \A i \in 1 .. L : new[i] = bitcode[i] /\ rec[i] = origin[i]
      /\ \A k \in 1 .. w : new[L + k] = more[k]
  <2>1. new \in Seq(Instruction) /\ Len(new) = L + w
    BY DEF Extended
  <2>2. DOMAIN new = 1 .. L + w
    BY <2>1
  <2> QED
    BY <2>2 DEF Extended
<1> HIDE DEF L, w
<1>3. ASSUME NEW i \in DOMAIN new, new[i].op = "JE"
      PROVE  Partners(src, rec[i] + 1, rec[i + new[i].off] + 1)
  <2>1. i \in 1 .. L
    <3>1. SUFFICES ASSUME i \notin 1 .. L PROVE FALSE
      OBVIOUS
    <3>2. i - L \in 1 .. w /\ L + (i - L) = i
      BY <1>1, <1>2, <3>1
    <3>3. new[i] = more[i - L]
      BY <1>2, <3>2
    <3> QED
      BY <1>3, <3>2, <3>3 DEF w
  <2>2. new[i] = bitcode[i] /\ rec[i] = origin[i] /\ i \in DOMAIN bitcode
    BY <1>1, <1>2, <2>1
  <2>3. i + bitcode[i].off \in 1 .. L
    BY <1>1, <1>3, <2>2
  <2>4. rec[i + bitcode[i].off] = origin[i + bitcode[i].off]
    BY <1>2, <2>3
  <2>5. Partners(src, origin[i] + 1, origin[i + bitcode[i].off] + 1)
    BY <1>3, <2>2 DEF Translated, JumpInv
  <2> QED
    BY <2>2, <2>4, <2>5
<1>4. ASSUME NEW k \in DOMAIN stack
      PROVE  /\ OpenAt(src, rec[stack[k] + 1] + 1, pos + n)
             /\ Depth(src, rec[stack[k] + 1] + 1) = k
  <2>1. rec[stack[k] + 1] = origin[stack[k] + 1]
    BY <1>1, <1>2
  <2>2. /\ OpenAt(src, origin[stack[k] + 1] + 1, pos)
        /\ Depth(src, origin[stack[k] + 1] + 1) = k
    BY DEF Translated, JumpInv
  <2> QED
    BY <2>1, <2>2
<1> QED
  BY <1>3, <1>4 DEF JumpInv

\* What a step that only emits leaves.
LEMMA EmitTranslates ==
  ASSUME IInv, phase = "translate", Translated, Records,
         NEW more \in Seq(Instruction), NEW n \in Nat,
         bitcode' = bitcode \o more, pos' = pos + n, UNCHANGED <<src, stack>>,
         \A new, rec : Extended(bitcode, origin, pos, more, new, rec) => Fits(more, n, new, rec),
         \A i : OpenAt(src, i, pos) => OpenAt(src, i, pos + n)
  PROVE  Translated'
<1>1. /\ bitcode' = bitcode \o more /\ pos' = pos + n /\ src' = src /\ stack' = stack
      /\ origin' = origin \o [i \in 1 .. Len(bitcode') - Len(bitcode) |-> pos]
  BY DEF Records
<1>2. bitcode \in Seq(Instruction) /\ pos \in Nat
  BY Emitting
<1>3. origin \in Seq(Nat) /\ Len(origin) = Len(bitcode)
  BY DEF Translated, PieceInv
<1> DEFINE new == bitcode \o more
           rec == origin \o [k \in 1 .. Len(new) - Len(bitcode) |-> pos]
<1>4. Extended(bitcode, origin, pos, more, new, rec)
  BY <1>2, <1>3, ExtendedBy
<1>5. bitcode' = new /\ origin' = rec
  BY <1>1
<1> HIDE DEF new, rec
<1>6. Fits(more, n, new, rec)
  BY <1>4
<1>7. PieceInv(src, new, rec, pos + n)
  BY <1>4, <1>6, PiecesGrow
<1>8. \A k \in 1 .. Len(more) : more[k].op # "JE"
  BY <1>6 DEF Fits
<1>9. JumpInv(src, new, rec, pos + n, stack)
  BY <1>4, <1>8, JumpsGrow
<1>10. Translated' <=> PieceInv(src', bitcode', origin', pos') /\ JumpInv(src', bitcode', origin', pos', stack')
  BY DEF Translated
<1> QED
  BY <1>1, <1>5, <1>7, <1>9, <1>10

\* A step that emits one instruction.
LEMMA OneTranslates ==
  ASSUME IInv, phase = "translate", Translated, Records,
         NEW in \in Instruction, NEW n \in Nat \ {0}, Emit(<<in>>, n),
         pos + n <= Len(src), in.op # "JE", Plain(src, in, pos, pos + n),
         \A i : OpenAt(src, i, pos) => OpenAt(src, i, pos + n)
  PROVE  Translated'
<1> DEFINE more == <<in>>
<1>1. more \in Seq(Instruction) /\ Len(more) = 1 /\ more[1] = in
  OBVIOUS
<1>2. Len(bitcode) \in Nat
  BY Emitting
<1> HIDE DEF more
<1>3. ASSUME NEW new, NEW rec, Extended(bitcode, origin, pos, more, new, rec)
      PROVE  Fits(more, n, new, rec)
  <2>1. new[Len(bitcode) + 1] = in /\ rec[Len(bitcode) + 1] = pos
    <3>1. /\ new[Len(bitcode) + 1] = more[1] /\ rec[Len(bitcode) + 1] = pos
      BY <1>1, <1>3 DEF Extended
    <3> QED
      BY <1>1, <3>1
  <2>2. Piece(src, new, rec, Len(bitcode) + 1, pos + n, 1)
    BY <2>1 DEF Piece
  <2>3. \A k \in 2 .. 1 : FALSE
    OBVIOUS
  <2>4. \A k \in 1 .. 1 : k = 1
    OBVIOUS
  <2>5. n > 0
    OBVIOUS
  <2> QED
    BY <1>1, <2>2, <2>3, <2>4, <2>5 DEF Fits
<1>4. bitcode' = bitcode \o more /\ pos' = pos + n /\ UNCHANGED <<src, stack>>
  BY DEF more, Emit
<1>5. n \in Nat
  OBVIOUS
<1> QED
  BY <1>1, <1>3, <1>4, <1>5, EmitTranslates

\* The loop the regular expressions match.
LEMMA LoopHere ==
  ASSUME IInv, phase = "translate", NEW n \in Remaining, InnermostLoop(n), NEW e, e = pos + n
  PROVE  /\ n \in Nat \ {0} /\ n >= 2 /\ e <= Len(src) /\ e \in Nat /\ n = e - pos
         /\ LoopAt(src, pos, e) /\ Body(n) = BodyOf(src, pos, e)
         /\ \A i : OpenAt(src, i, pos) => OpenAt(src, i, e)
<1>1. src \in Seq(Char) /\ pos \in Nat /\ Len(src) \in Nat /\ pos \in 0 .. Len(src)
  BY Emitting
<1>2. n \in 1 .. Len(src) - pos
  BY DEF Remaining
<1>3. n # 1
  BY DEF InnermostLoop
<1>4. n \in Nat \ {0} /\ n >= 2 /\ e <= Len(src) /\ e \in Nat /\ n = e - pos
      /\ pos + 2 <= e /\ e \in 1 .. Len(src) /\ pos + n - 1 = e - 1
  BY <1>1, <1>2, <1>3
<1>9. /\ src[pos + 1] = "[" /\ src[e] = "]"
      /\ \A i \in pos + 2 .. e - 1 : src[i] \in Arith \cup Moves
  <2>1. \A i \in pos + 2 .. pos + n - 1 : src[i] \in Arith \cup Moves
    BY DEF InnermostLoop
  <2>2. \A i \in pos + 2 .. e - 1 : src[i] \in Arith \cup Moves
    BY <1>4, <2>1
  <2> QED
    BY <2>2 DEF InnermostLoop
<1>5. LoopAt(src, pos, e)
  BY <1>4, <1>9 DEF LoopAt
<1>6. Partners(src, pos + 1, e)
  BY <1>1, <1>4, <1>5, LoopPartners
<1>7. ASSUME NEW i, OpenAt(src, i, pos) PROVE OpenAt(src, i, e)
  BY <1>1, <1>4, <1>6, <1>7, OpenOverLoop
<1>8. Body(n) = BodyOf(src, pos, e)
  <2>1. Body(n) = SubSeq(src, pos + 2, pos + n - 1)
    BY DEF Body
  <2>2. Body(n) = SubSeq(src, pos + 2, e - 1)
    BY <1>4, <2>1
  <2> QED
    BY <2>2 DEF BodyOf
<1> QED
  BY <1>4, <1>5, <1>7, <1>8

\* A step of mulLoop.
LEMMA MulLoopTranslates ==
  ASSUME IInv, phase = "translate", Translated, Records, MulLoop
  PROVE  Translated'
<1>1. PICK n \in Remaining : InnermostLoop(n) /\ IsMulLoop(Body(n)) /\ Emit(MulCode(Body(n)), n)
  BY DEF MulLoop
<1> DEFINE e == pos + n
<1>10. e = pos + n
  OBVIOUS
<1> HIDE DEF e
<1> DEFINE body == BodyOf(src, pos, e)
           more == MulCode(body)
<1>2. /\ n \in Nat \ {0} /\ e <= Len(src) /\ e \in Nat
      /\ LoopAt(src, pos, e) /\ Body(n) = body
      /\ \A i : OpenAt(src, i, pos) => OpenAt(src, i, e)
  BY <1>1, <1>10, LoopHere
<1>3. src \in Seq(Char) /\ pos \in Nat /\ Len(bitcode) \in Nat
  BY Emitting
<1>4. IsMulLoop(body) /\ Emit(more, n)
  BY <1>1, <1>2
<1>5. MulText(body)
  BY <1>2, <1>3, <1>4, BodyMulText
<1> DEFINE P == Pairs(body)
<1> HIDE DEF body
<1>6. /\ more \in Seq(Instruction) /\ Len(more) = P + 1 /\ P \in Nat /\ P >= 1
      /\ \A k \in 1 .. P + 1 : more[k].op \in {"MUL", "S"}
  BY <1>5, MulCodeFacts
<1> HIDE DEF more
<1>7. ASSUME NEW new, NEW rec, Extended(bitcode, origin, pos, more, new, rec)
      PROVE  Fits(more, n, new, rec)
  <2> DEFINE f == Len(bitcode) + 1
  <2>1. \A k \in 1 .. P + 1 : new[Len(bitcode) + k] = more[k] /\ rec[Len(bitcode) + k] = pos
    BY <1>6, <1>7 DEF Extended
  <2>2. \A k \in 1 .. P + 1 : f + k - 1 = Len(bitcode) + k
    BY <1>3
  <2>3. rec[f] = pos
    <3>1. 1 \in 1 .. P + 1
      BY <1>6
    <3> QED
      BY <2>1, <3>1
  <2> HIDE DEF P
  <2>4. Group(src, new, rec, f, e, P + 1)
    <3>1. \A k \in 1 .. P + 1 : new[f + k - 1] = more[k] /\ rec[f + k - 1] = rec[f]
      BY <2>1, <2>2, <2>3
    <3> QED
      BY <1>2, <1>4, <2>3, <3>1 DEF Group, P, body, more
  <2>5. Piece(src, new, rec, Len(bitcode) + 1, e, Len(more))
    BY <1>6, <2>4 DEF Piece
  <2>6. \A k \in 1 .. Len(more) : more[k].op \in {"MUL", "S"}
    BY <1>6
  <2>7. Len(more) >= 1 /\ n > 0
    BY <1>2, <1>6
  <2>8. \A k \in 2 .. Len(more) : k \in 1 .. Len(more)
    BY <1>6
  <2> QED
    BY <1>2, <1>10, <2>5, <2>6, <2>7, <2>8 DEF Fits
<1>8. n \in Nat
  BY <1>2
<1>11. bitcode' = bitcode \o more /\ pos' = pos + n /\ UNCHANGED <<src, stack>>
  BY <1>4 DEF Emit
<1> QED
  BY <1>2, <1>6, <1>7, <1>8, <1>10, <1>11, EmitTranslates

\* A step of scanLoop.
LEMMA ScanLoopTranslates ==
  ASSUME IInv, phase = "translate", Translated, Records, ScanLoop
  PROVE  Translated'
<1>1. PICK n \in Remaining :
        InnermostLoop(n) /\ IsScanLoop(Body(n)) /\ Emit(<<Instr("F", 0, Net(Body(n), ">", "<", 1 .. n))>>, n)
  BY DEF ScanLoop
<1> DEFINE e == pos + n
<1>10. e = pos + n
  OBVIOUS
<1> HIDE DEF e
<1>2. /\ n \in Nat \ {0} /\ n >= 2 /\ e <= Len(src) /\ e \in Nat /\ n = e - pos
      /\ LoopAt(src, pos, e) /\ Body(n) = BodyOf(src, pos, e)
      /\ \A i : OpenAt(src, i, pos) => OpenAt(src, i, e)
  BY <1>1, <1>10, LoopHere
<1>3. src \in Seq(Char) /\ pos \in Nat /\ Len(src) \in Nat
  BY Emitting
<1>14. /\ BodyOf(src, pos, e) \in Seq(Char) /\ DOMAIN BodyOf(src, pos, e) = 1 .. e - pos - 2
       /\ \A j \in 1 .. e - pos - 2 : BodyOf(src, pos, e)[j] = src[pos + 1 + j]
  BY <1>2, <1>3, BodyText
<1> DEFINE body == BodyOf(src, pos, e)
           off == Net(body, ">", "<", 1 .. n)
           in == Instr("F", 0, off)
<1>4. /\ DOMAIN body = 1 .. e - pos - 2
      /\ \A j \in 1 .. e - pos - 2 : body[j] = src[pos + 1 + j]
  BY <1>14
<1>13. body \in Seq(Char)
  BY <1>14
<1>5. Emit(<<in>>, n) /\ IsScanLoop(body)
  BY <1>1, <1>2
<1>6. off = Net(src, ">", "<", pos + 2 .. e - 1)
  <2> DEFINE a == pos + 2
             b == e - 1
  <2>1. a \in Nat /\ b \in Nat /\ a >= 1 /\ b <= Len(src) /\ n >= b - a + 1 /\ n \in Nat
    BY <1>2, <1>3
  <2>2. body = SubSeq(src, a, b)
    BY DEF BodyOf
  <2> HIDE DEF a, b, body
  <2>3. Net(SubSeq(src, a, b), ">", "<", 1 .. n) = Net(src, ">", "<", a .. b)
    BY <1>3, <2>1, NetOfPart
  <2> QED
    BY <2>2, <2>3 DEF a, b
<1>7. off \in Int
  BY <1>13, NetType
<1>8. All(src, Moves, pos + 1, e - 1)
  <2> SUFFICES ASSUME NEW k \in (pos + 1) + 1 .. e - 1 PROVE src[k] \in Moves
    BY DEF All
  <2>1. k - pos - 1 \in 1 .. e - pos - 2 /\ pos + 1 + (k - pos - 1) = k
    BY <1>2, <1>3
  <2>2. body[k - pos - 1] = src[k] /\ k - pos - 1 \in DOMAIN body
    BY <1>4, <2>1
  <2> HIDE DEF body
  <2> QED
    BY <1>5, <2>2 DEF IsScanLoop
<1> HIDE DEF off, body
<1>9. in \in Instruction /\ in.op = "F" /\ in.off = off
  BY <1>7, CellFacts DEF Instr, Instruction, Opcode
<1> HIDE DEF in
<1>12. Plain(src, in, pos, e)
  <2>1. pos < e
    BY <1>2, <1>3
  <2>2. in.off = Net(src, ">", "<", pos + 2 .. e - 1)
    BY <1>6, <1>9
  <2> QED
    BY <1>2, <1>8, <1>9, <2>1, <2>2 DEF Plain
<1>11. in.op # "JE"
  BY <1>9
<1> QED
  BY <1>2, <1>5, <1>9, <1>10, <1>12, <1>11, OneTranslates

\* A step of setZeroLoop.
LEMMA SetZeroLoopTranslates ==
  ASSUME IInv, phase = "translate", Translated, Records, SetZeroLoop
  PROVE  Translated'
<1>1. PICK n \in Remaining :
        InnermostLoop(n) /\ IsSetZeroLoop(Body(n)) /\ Emit(<<Instr("S", 0, 0)>>, n)
  BY DEF SetZeroLoop
<1> DEFINE e == pos + n
<1>10. e = pos + n
  OBVIOUS
<1> HIDE DEF e
<1>2. /\ n \in Nat \ {0} /\ n >= 2 /\ e <= Len(src) /\ e \in Nat /\ n = e - pos
      /\ LoopAt(src, pos, e) /\ Body(n) = BodyOf(src, pos, e)
      /\ \A i : OpenAt(src, i, pos) => OpenAt(src, i, e)
  BY <1>1, <1>10, LoopHere
<1>3. src \in Seq(Char) /\ pos \in Nat
  BY Emitting
<1>14. /\ BodyOf(src, pos, e) \in Seq(Char) /\ DOMAIN BodyOf(src, pos, e) = 1 .. e - pos - 2
       /\ \A j \in 1 .. e - pos - 2 : BodyOf(src, pos, e)[j] = src[pos + 1 + j]
  BY <1>2, <1>3, BodyText
<1> DEFINE body == BodyOf(src, pos, e)
           in == Instr("S", 0, 0)
<1>4. /\ DOMAIN body = 1 .. e - pos - 2
      /\ \A j \in 1 .. e - pos - 2 : body[j] = src[pos + 1 + j]
  BY <1>14
<1>5. Emit(<<in>>, n) /\ IsSetZeroLoop(body)
  BY <1>1, <1>2
<1> HIDE DEF body
<1>8. All(src, Arith, pos + 1, e - 1)
  <2> SUFFICES ASSUME NEW k \in (pos + 1) + 1 .. e - 1 PROVE src[k] \in Arith
    BY DEF All
  <2>1. k - pos - 1 \in 1 .. e - pos - 2 /\ pos + 1 + (k - pos - 1) = k
    BY <1>2, <1>3
  <2>2. body[k - pos - 1] = src[k] /\ k - pos - 1 \in DOMAIN body
    BY <1>4, <2>1
  <2> QED
    BY <1>5, <2>2 DEF IsSetZeroLoop
<1>9. in \in Instruction /\ in.op = "S" /\ in.imm = 0
  BY CellFacts DEF Instr, Instruction, Opcode
<1> HIDE DEF in
<1>12. Plain(src, in, pos, e)
  <2>1. pos < e
    BY <1>2, <1>3
  <2> QED
    BY <1>2, <1>8, <1>9, <2>1 DEF Plain
<1>11. in.op # "JE"
  BY <1>9
<1> QED
  BY <1>2, <1>5, <1>9, <1>10, <1>12, <1>11, OneTranslates

\* A run of characters that are no brackets, as one instruction.
LEMMA RunTranslates ==
  ASSUME IInv, phase = "translate", Translated, Records,
         NEW in \in Instruction, NEW n \in Remaining, Emit(<<in>>, n),
         \A i \in pos + 1 .. pos + n : src[i] \notin {"[", "]"},
         in.op # "JE", Plain(src, in, pos, pos + n)
  PROVE  Translated'
<1>1. src \in Seq(Char) /\ pos \in Nat /\ Len(src) \in Nat /\ pos \in 0 .. Len(src)
  BY Emitting
<1>2. n \in 1 .. Len(src) - pos
  BY DEF Remaining
<1>3. n \in Nat \ {0} /\ pos + n <= Len(src) /\ pos + n \in pos .. Len(src)
  BY <1>1, <1>2
<1>4. ASSUME NEW i, OpenAt(src, i, pos) PROVE OpenAt(src, i, pos + n)
  BY <1>1, <1>3, <1>4, OpenFlat
<1> QED
  BY <1>3, <1>4, OneTranslates

\* A step of one of the runs, of input or of output.
LEMMA RunsTranslate ==
  ASSUME IInv, phase = "translate", Translated, Records,
         AddRun \/ MoveRun \/ Output \/ Input
  PROVE  Translated'
<1>1. src \in Seq(Char) /\ pos \in Nat /\ Len(src) \in Nat /\ pos \in 0 .. Len(src)
  BY Emitting
<1>2. CASE AddRun
  <2>1. PICK n \in Remaining :
          /\ LeadingRun(Arith, n)
          /\ Emit(<<Instr("A", Net(src, "+", "-", pos + 1 .. pos + n) % CellMod, 0)>>, n)
    BY <1>2 DEF AddRun
  <2> DEFINE N == Net(src, "+", "-", pos + 1 .. pos + n)
             in == Instr("A", N % CellMod, 0)
  <2>2. N \in Int
    BY <1>1, NetType
  <2>3. Emit(<<in>>, n)
    BY <2>1
  <2> HIDE DEF N
  <2>4. in \in Instruction /\ in.op = "A" /\ in.imm = N % CellMod
    BY <2>2, CellFacts DEF Instr, Instruction, Opcode
  <2> HIDE DEF in
  <2>5. \A i \in pos + 1 .. pos + n : src[i] \in Arith
    BY <2>1 DEF LeadingRun
  <2>6. pos < pos + n
    BY <1>1 DEF Remaining
  <2>7. Plain(src, in, pos, pos + n)
    BY <2>4, <2>5, <2>6 DEF Plain, All, N
  <2>8. (\A i \in pos + 1 .. pos + n : src[i] \notin {"[", "]"}) /\ in.op # "JE"
    BY <2>4, <2>5 DEF Arith
  <2> QED
    BY <2>3, <2>4, <2>7, <2>8, RunTranslates
<1>3. CASE MoveRun
  <2>1. PICK n \in Remaining :
          /\ LeadingRun(Moves, n)
          /\ Emit(<<Instr("M", 0, Net(src, ">", "<", pos + 1 .. pos + n))>>, n)
    BY <1>3 DEF MoveRun
  <2> DEFINE N == Net(src, ">", "<", pos + 1 .. pos + n)
             in == Instr("M", 0, N)
  <2>2. N \in Int
    BY <1>1, NetType
  <2>3. Emit(<<in>>, n)
    BY <2>1
  <2> HIDE DEF N
  <2>4. in \in Instruction /\ in.op = "M" /\ in.off = N
    BY <2>2, CellFacts DEF Instr, Instruction, Opcode
  <2> HIDE DEF in
  <2>5. \A i \in pos + 1 .. pos + n : src[i] \in Moves
    BY <2>1 DEF LeadingRun
  <2>6. pos < pos + n
    BY <1>1 DEF Remaining
  <2>7. Plain(src, in, pos, pos + n)
    BY <2>4, <2>5, <2>6 DEF Plain, All, N
  <2>8. (\A i \in pos + 1 .. pos + n : src[i] \notin {"[", "]"}) /\ in.op # "JE"
    BY <2>4, <2>5 DEF Moves
  <2> QED
    BY <2>3, <2>4, <2>7, <2>8, RunTranslates
<1>4. CASE Output \/ Input
  <2> DEFINE ch(imm) == IF imm = IO_IN THEN "," ELSE "."
             in(imm) == Instr("IO", imm, 0)
  <2>1. \E imm \in {IO_IN, IO_OUT} : Emit(<<in(imm)>>, 1) /\ ~AtEnd /\ Front1 = ch(imm)
    <3>1. CASE Output
      <4>1. Emit(<<in(IO_OUT)>>, 1) /\ ~AtEnd /\ Front1 = "." /\ IO_OUT # IO_IN
        BY <3>1 DEF Output, Translating, IO_IN, IO_OUT
      <4> QED
        BY <4>1
    <3>2. CASE Input
      <4>1. Emit(<<in(IO_IN)>>, 1) /\ ~AtEnd /\ Front1 = ","
        BY <3>2 DEF Input, Translating
      <4> QED
        BY <4>1
    <3> QED
      BY <1>4, <3>1, <3>2
  <2>10. PICK imm \in {IO_IN, IO_OUT} : Emit(<<in(imm)>>, 1) /\ ~AtEnd /\ Front1 = ch(imm)
    BY <2>1
  <2> DEFINE one == in(imm)
  <2>2. imm \in Cell
    BY CellModAssumption DEF Cell, IO_IN, IO_OUT
  <2>3. one \in Instruction /\ one.op = "IO" /\ one.imm = imm
    BY <2>2 DEF Instr, Instruction, Opcode
  <2>4. Emit(<<one>>, 1)
    BY <2>10
  <2> HIDE DEF one
  <2>11. pos # Len(src)
    BY <2>10 DEF AtEnd
  <2>5. 1 \in Remaining /\ pos < pos + 1
    BY <1>1, <2>11 DEF Remaining
  <2>6. src[pos + 1] = (IF one.imm = IO_IN THEN "," ELSE ".")
    <3>1. src[pos + 1] = ch(one.imm)
      BY <2>10, <2>3 DEF Front1
    <3> QED
      BY <3>1
  <2>7. Plain(src, one, pos, pos + 1)
    BY <2>3, <2>5, <2>6 DEF Plain
  <2>8. \A i \in pos + 1 .. pos + 1 : i = pos + 1
    BY <1>1
  <2>9. (\A i \in pos + 1 .. pos + 1 : src[i] \notin {"[", "]"}) /\ one.op # "JE"
    BY <2>3, <2>6, <2>8
  <2> QED
    BY <2>3, <2>4, <2>5, <2>7, <2>9, RunTranslates
<1> QED
  BY <1>2, <1>3, <1>4

\* A step that emits nothing records nothing.
LEMMA NothingRecorded ==
  ASSUME NEW n \in Int, n = Len(bitcode), Len(bitcode') = n, origin \in Seq(Nat), Records
  PROVE  origin' = origin
<1> DEFINE f == [i \in 1 .. Len(bitcode') - Len(bitcode) |-> pos]
<1>1. Len(bitcode') - Len(bitcode) = 0
  OBVIOUS
<1>2. f = <<>>
  BY <1>1
<1>3. origin' = origin \o f
  BY DEF Records
<1> HIDE DEF f
<1> QED
  BY <1>2, <1>3

\* A step past a character that is no instruction.
LEMMA SkipTranslates ==
  ASSUME IInv, phase = "translate", Translated, Records, Skip
  PROVE  Translated'
<1>1. src \in Seq(Char) /\ pos \in Nat /\ Len(src) \in Nat /\ pos \in 0 .. Len(src)
      /\ bitcode \in Seq(Instruction) /\ Len(bitcode) \in Nat
  BY Emitting
<1>2. pos # Len(src) /\ src[pos + 1] \notin InstructionChar /\ Emit(<<>>, 1)
  BY DEF Skip, Translating, AtEnd, Front1
<1>3. bitcode' = bitcode /\ pos' = pos + 1 /\ src' = src /\ stack' = stack
  <2>1. bitcode' = bitcode \o <<>> /\ pos' = pos + 1 /\ src' = src /\ stack' = stack
    BY <1>2 DEF Emit
  <2>2. bitcode \o <<>> = bitcode
    BY <1>1
  <2> QED
    BY <2>1, <2>2
<1>4. pos + 1 \in DOMAIN src /\ pos + 1 \in pos .. Len(src)
  BY <1>1, <1>2
<1>5. src[pos + 1] \in Char
  BY <1>1, <1>4
<1>6. src[pos + 1] = "#"
  BY <1>2, <1>5 DEF Char
<1>7. origin' = origin
  <2>1. origin \in Seq(Nat)
    BY DEF Translated, PieceInv
  <2>2. Len(bitcode) \in Int /\ Len(bitcode') = Len(bitcode)
    BY <1>1, <1>3
  <2> QED
    BY <2>1, <2>2, NothingRecorded
<1>8. PieceInv(src, bitcode, origin, pos + 1)
  BY <1>1, <1>6, SkipKeeps DEF Translated
<1>9. ASSUME NEW i, OpenAt(src, i, pos) PROVE OpenAt(src, i, pos + 1)
  <2>1. \A k \in pos + 1 .. pos + 1 : src[k] \notin {"[", "]"}
    BY <1>1, <1>6
  <2> QED
    BY <1>1, <1>4, <1>9, <2>1, OpenFlat
<1>10. JumpInv(src, bitcode, origin, pos + 1, stack)
  BY <1>9 DEF Translated, JumpInv
<1>11. Translated' <=> PieceInv(src', bitcode', origin', pos') /\ JumpInv(src', bitcode', origin', pos', stack')
  BY DEF Translated
<1> QED
  BY <1>3, <1>7, <1>8, <1>10, <1>11

\* A step of '[' that pushes a placeholder.
LEMMA OpenLoopTranslates ==
  ASSUME IInv, phase = "translate", Translated, Records, OpenLoop
  PROVE  Translated'
<1> DEFINE L == Len(bitcode)
           S == Len(stack)
           in == Instr("X", 0, 0)
           more == <<in>>
           new == bitcode \o more
           rec == origin \o [k \in 1 .. Len(new) - Len(bitcode) |-> pos]
<1>1. /\ src \in Seq(Char) /\ pos \in Nat /\ Len(src) \in Nat /\ pos \in 0 .. Len(src)
      /\ bitcode \in Seq(Instruction) /\ L \in Nat /\ stack \in Seq(Nat) /\ S \in Nat
      /\ S = Depth(src, pos)
  BY Emitting
<1>2. /\ pos # Len(src) /\ src[pos + 1] = "["
      /\ bitcode' = Append(bitcode, in) /\ stack' = Append(stack, L)
      /\ pos' = pos + 1 /\ src' = src
  BY DEF OpenLoop, Translating, AtEnd, Front1
<1>3. in \in Instruction /\ in.op = "X"
  BY CellFacts DEF Instr, Instruction, Opcode
<1> HIDE DEF in
<1>4. more \in Seq(Instruction) /\ Len(more) = 1 /\ more[1] = in /\ bitcode' = new
  BY <1>1, <1>2, <1>3
<1> HIDE DEF more
<1>5. origin \in Seq(Nat) /\ Len(origin) = Len(bitcode)
  BY DEF Translated, PieceInv
<1>6. Extended(bitcode, origin, pos, more, new, rec)
  BY <1>1, <1>4, <1>5, ExtendedBy
<1>7. origin' = rec
  BY <1>4 DEF Records
<1> HIDE DEF new, rec
<1>8. pos + 1 \in 1 .. Len(src) /\ pos \in 0 .. Len(src) - 1 /\ pos + 1 <= Len(src)
  BY <1>1, <1>2
<1>9. Depth(src, pos + 1) = S + 1
  <2>1. (pos + 1) - 1 = pos
    BY <1>1
  <2> QED
    BY <1>1, <1>2, <1>8, <2>1, DepthAround
<1>10. new[L + 1] = in /\ rec[L + 1] = pos
  BY <1>4, <1>6 DEF Extended
<1>11. Fits(more, 1, new, rec)
  <2>1. Plain(src, in, pos, pos + 1)
    BY <1>1, <1>2, <1>3 DEF Plain
  <2>2. Piece(src, new, rec, L + 1, pos + 1, 1)
    BY <1>10, <2>1 DEF Piece
  <2>3. \A k \in 2 .. 1 : FALSE
    OBVIOUS
  <2>4. \A k \in 1 .. 1 : k = 1
    OBVIOUS
  <2> QED
    BY <1>3, <1>4, <1>8, <2>2, <2>3, <2>4 DEF Fits
<1>12. PieceInv(src, new, rec, pos + 1)
  BY <1>4, <1>6, <1>11, PiecesGrow
<1>13. ASSUME NEW i, OpenAt(src, i, pos) PROVE OpenAt(src, i, pos + 1)
  <2>1. Depth(src, pos) >= Depth(src, i)
    <3>1. pos \in i .. pos
      BY <1>1, <1>13 DEF OpenAt
    <3> QED
      BY <1>13, <3>1 DEF OpenAt
  <2>2. Depth(src, i) \in Int
    BY <1>1, DepthType
  <2>3. Depth(src, pos + 1) >= Depth(src, i)
    BY <1>1, <1>9, <2>1, <2>2
  <2> QED
    BY <1>1, <1>8, <1>13, <2>3, OpenStays
<1>14. \A k \in 1 .. Len(more) : more[k].op # "JE"
  BY <1>11 DEF Fits
<1>15. JumpInv(src, new, rec, pos + 1, stack)
  BY <1>4, <1>6, <1>13, <1>14, JumpsGrow
<1>16. JumpInv(src, new, rec, pos + 1, stack')
  <2>1. \A k \in DOMAIN stack' : (k \in DOMAIN stack /\ stack'[k] = stack[k]) \/ (k = S + 1 /\ stack'[k] = L)
    BY <1>1, <1>2
  <2>2. OpenAt(src, pos + 1, pos + 1)
    BY <1>1, <1>2, <1>8, OpenNow
  <2> HIDE DEF L, S
  <2> QED
    BY <1>9, <1>10, <1>15, <2>1, <2>2 DEF JumpInv
<1>17. Translated' <=> PieceInv(src', bitcode', origin', pos') /\ JumpInv(src', bitcode', origin', pos', stack')
  BY DEF Translated
<1> QED
  BY <1>2, <1>4, <1>7, <1>12, <1>16, <1>17

\* A step of ']' that patches the placeholder.
LEMMA CloseLoopTranslates ==
  ASSUME IInv, phase = "translate", Translated, Records, CloseLoop, phase' # "unmatched"
  PROVE  Translated'
<1> DEFINE L == Len(bitcode)
           S == Len(stack)
           a == stack[S]
           x == a + 1
           je == Instr("JE", 0, L - a)
           jn == Instr("JN", 0, a - L)
           mid == [bitcode EXCEPT ![x] = je]
           more == <<jn>>
           new == mid \o more
           rec == origin \o [k \in 1 .. Len(new) - Len(mid) |-> pos]
<1>1. /\ src \in Seq(Char) /\ pos \in Nat /\ Len(src) \in Nat /\ pos \in 0 .. Len(src)
      /\ bitcode \in Seq(Instruction) /\ L \in Nat /\ stack \in Seq(Nat) /\ S \in Nat
      /\ DOMAIN bitcode = 1 .. L /\ DOMAIN stack = 1 .. S
      /\ S = Depth(src, pos)
      /\ \A k \in DOMAIN stack : stack[k] \in Nat /\ stack[k] + 1 \in DOMAIN bitcode
                                 /\ bitcode[stack[k] + 1].op = "X"
      /\ \A i \in DOMAIN bitcode : bitcode[i].op # "H"
      /\ \A i \in DOMAIN bitcode : bitcode[i].op = "JE" => i + bitcode[i].off \in DOMAIN bitcode
  BY Emitting
<1>2. /\ pos # Len(src) /\ src[pos + 1] = "]" /\ stack # <<>>
      /\ bitcode' = Append(mid, jn) /\ stack' = SubSeq(stack, 1, S - 1)
      /\ pos' = pos + 1 /\ src' = src
  BY DEF CloseLoop, Translating, AtEnd, Front1
<1>3. S \in DOMAIN stack
  BY <1>1, <1>2
<1>4. a \in Nat /\ x \in DOMAIN bitcode /\ bitcode[x].op = "X" /\ a \in 0 .. L - 1
  BY <1>1, <1>3
<1> HIDE DEF a
<1>5. je \in Instruction /\ jn \in Instruction /\ je.op = "JE" /\ je.off = L - a /\ jn.op = "JN"
  BY <1>1, <1>4, CellFacts DEF Instr, Instruction, Opcode
<1> HIDE DEF je, jn, L, S
<1>6. /\ mid \in Seq(Instruction) /\ Len(mid) = L /\ DOMAIN mid = 1 .. L /\ mid[x] = je
      /\ \A i \in DOMAIN bitcode : i # x => mid[i] = bitcode[i]
  BY <1>1, <1>4, <1>5 DEF L
<1>7. origin \in Seq(Nat) /\ Len(origin) = L /\ PieceInv(src, bitcode, origin, pos)
  BY DEF Translated, PieceInv, L
<1>8. PieceInv(src, mid, origin, pos)
  BY <1>1, <1>4, <1>5, <1>7, PatchKeeps
<1> HIDE DEF mid, x
<1>9. more \in Seq(Instruction) /\ Len(more) = 1 /\ more[1] = jn /\ bitcode' = new
  BY <1>2, <1>5, <1>6
<1> HIDE DEF more
<1>10. Extended(mid, origin, pos, more, new, rec)
  BY <1>1, <1>6, <1>7, <1>9, ExtendedBy
<1>11. origin' = rec
  BY <1>6, <1>9 DEF Records, L
<1> HIDE DEF new, rec
<1>12. /\ pos + 1 \in 1 .. Len(src) /\ pos \in 0 .. Len(src) - 1 /\ pos + 1 <= Len(src)
       /\ (pos + 1) - 1 = pos
  BY <1>1, <1>2
<1>13. new[L + 1] = jn /\ rec[L + 1] = pos /\ new \in Seq(Instruction) /\ rec \in Seq(Nat)
       /\ Len(new) = L + 1 /\ Len(rec) = L + 1
       /\ \A i \in 1 .. L : new[i] = mid[i] /\ rec[i] = origin[i]
  <2>1. 1 \in 1 .. Len(more)
    BY <1>9
  <2> QED
    BY <1>6, <1>9, <1>10, <2>1 DEF Extended
<1>14. Piece(src, new, rec, L + 1, pos + 1, 1)
  <2>1. Plain(src, jn, pos, pos + 1)
    BY <1>1, <1>2, <1>5 DEF Plain
  <2> QED
    BY <1>13, <2>1 DEF Piece
<1>15. Emitted(src, mid, origin, pos, more, 1, new, rec)
  <2>1. \A i \in DOMAIN mid : mid[i].op # "H"
    <3>1. \A i \in DOMAIN bitcode : i = x \/ mid[i] = bitcode[i]
      BY <1>6
    <3> QED
      BY <1>1, <1>5, <1>6, <3>1
  <2>3. \A k \in 2 .. 1 : FALSE
    OBVIOUS
  <2>4. Extended(mid, origin, pos, more, new, rec) /\ Len(mid) = L
    BY <1>6, <1>10
  <2>5. Piece(src, new, rec, Len(mid) + 1, pos + 1, Len(more))
    BY <1>9, <1>14, <2>4
  <2>6. /\ \A k \in 2 .. Len(more) : more[k].op \in {"MUL", "S"}
        /\ \A k \in 1 .. Len(more) : more[k].op # "H" => 1 > 0
        /\ Len(more) >= 1
    BY <1>9, <2>3
  <2> QED
    BY <1>8, <1>12, <2>1, <2>4, <2>5, <2>6 DEF Emitted, Extended
<1>16. PieceInv(src, new, rec, pos + 1)
  BY <1>1, <1>6, <1>9, <1>13, <1>15, EmitKeeps
<1>17. /\ OpenAt(src, origin[x] + 1, pos) /\ Depth(src, origin[x] + 1) = S
       /\ \A k \in DOMAIN stack : /\ OpenAt(src, origin[stack[k] + 1] + 1, pos)
                                  /\ Depth(src, origin[stack[k] + 1] + 1) = k
  BY <1>3 DEF Translated, JumpInv, x, a
<1>18. Partners(src, origin[x] + 1, pos + 1)
  BY <1>1, <1>2, <1>12, <1>17, NextCloses
<1>19. Depth(src, pos + 1) = S - 1
  BY <1>1, <1>2, <1>12, DepthAround
<1>20. ASSUME NEW i \in DOMAIN new, new[i].op = "JE"
       PROVE  Partners(src, rec[i] + 1, rec[i + new[i].off] + 1)
  <2>1. i \in 1 .. L
    <3>1. i = L + 1 \/ i \in 1 .. L
      BY <1>1, <1>13
    <3>2. new[L + 1].op # "JE"
      BY <1>5, <1>13
    <3> QED
      BY <1>20, <3>1, <3>2
  <2>2. CASE i = x
    <3>1. new[i] = je /\ rec[i] = origin[x]
      BY <1>6, <1>13, <2>1, <2>2
    <3>2. i + new[i].off = L + 1
      <4>1. i = a + 1 /\ new[i].off = L - a
        BY <1>5, <2>2, <3>1 DEF x
      <4> QED
        BY <1>1, <1>4, <4>1
    <3>3. rec[i + new[i].off] = pos
      BY <1>13, <3>2
    <3> QED
      BY <1>18, <3>1, <3>3
  <2>3. CASE i # x
    <3>1. i \in DOMAIN bitcode /\ new[i] = bitcode[i] /\ rec[i] = origin[i]
      BY <1>1, <1>6, <1>13, <2>1, <2>3
    <3>2. i + bitcode[i].off \in 1 .. L
      BY <1>1, <1>20, <3>1
    <3>3. rec[i + bitcode[i].off] = origin[i + bitcode[i].off]
      BY <1>13, <3>2
    <3>4. Partners(src, origin[i] + 1, origin[i + bitcode[i].off] + 1)
      BY <1>20, <3>1 DEF Translated, JumpInv
    <3> QED
      BY <3>1, <3>3, <3>4
  <2> QED
    BY <2>2, <2>3
<1>21. ASSUME NEW k \in DOMAIN stack'
       PROVE  /\ OpenAt(src, rec[stack'[k] + 1] + 1, pos + 1)
              /\ Depth(src, rec[stack'[k] + 1] + 1) = k
  <2>1. k \in 1 .. S - 1 /\ stack'[k] = stack[k] /\ k \in DOMAIN stack
    <3>1. S - 1 \in Nat /\ S - 1 <= Len(stack)
      BY <1>1, <1>3 DEF S
    <3>2. DOMAIN stack' = 1 .. S - 1 /\ \A j \in 1 .. S - 1 : stack'[j] = stack[j]
      BY <1>1, <1>2, <3>1
    <3> QED
      BY <1>1, <3>2
  <2>2. stack[k] + 1 \in 1 .. L
    BY <1>1, <2>1
  <2>3. rec[stack[k] + 1] = origin[stack[k] + 1]
    BY <1>13, <2>2
  <2> DEFINE i == origin[stack[k] + 1] + 1
  <2>4. OpenAt(src, i, pos) /\ Depth(src, i) = k
    BY <1>17, <2>1
  <2> HIDE DEF i
  <2>5. Depth(src, pos + 1) >= Depth(src, i)
    BY <1>1, <1>19, <2>1, <2>4
  <2>6. OpenAt(src, i, pos + 1)
    BY <1>1, <1>12, <2>4, <2>5, OpenStays
  <2> QED
    BY <2>1, <2>3, <2>4, <2>6 DEF i
<1>22. JumpInv(src, new, rec, pos + 1, stack')
  BY <1>20, <1>21 DEF JumpInv
<1>23. Translated' <=> PieceInv(src', bitcode', origin', pos') /\ JumpInv(src', bitcode', origin', pos', stack')
  BY DEF Translated
<1> QED
  BY <1>2, <1>9, <1>11, <1>16, <1>22, <1>23

\* The step that ends translate with the H.
LEMMA FinishTranslates ==
  ASSUME IInv, phase = "translate", Translated, Records, Finish
  PROVE  Translated' /\ pos' = Len(src')
<1> DEFINE in == Instr("H", 0, 0)
           more == <<in>>
<1>1. /\ pos \in Nat /\ bitcode \in Seq(Instruction) /\ Len(bitcode) \in Nat
  BY Emitting
<1>2. /\ pos = Len(src) /\ bitcode' = Append(bitcode, in) /\ pos' = pos /\ UNCHANGED <<src, stack>>
  BY DEF Finish, AtEnd
<1>3. in \in Instruction /\ in.op = "H"
  BY CellFacts DEF Instr, Instruction, Opcode
<1> HIDE DEF in
<1>4. more \in Seq(Instruction) /\ Len(more) = 1 /\ more[1] = in /\ bitcode' = bitcode \o more
      /\ pos + 0 = pos
  BY <1>1, <1>2, <1>3
<1> HIDE DEF more
<1>5. ASSUME NEW new, NEW rec, Extended(bitcode, origin, pos, more, new, rec)
      PROVE  Fits(more, 0, new, rec)
  <2>1. new[Len(bitcode) + 1] = in /\ rec[Len(bitcode) + 1] = pos
    <3>1. new[Len(bitcode) + 1] = more[1] /\ rec[Len(bitcode) + 1] = pos
      BY <1>4, <1>5 DEF Extended
    <3> QED
      BY <1>4, <3>1
  <2>2. Piece(src, new, rec, Len(bitcode) + 1, pos + 0, 1)
    BY <1>2, <1>3, <1>4, <2>1 DEF Piece
  <2>3. \A k \in 2 .. 1 : FALSE
    OBVIOUS
  <2>4. \A k \in 1 .. 1 : k = 1
    OBVIOUS
  <2>5. pos + 0 <= Len(src)
    BY <1>1, <1>2
  <2> QED
    BY <1>3, <1>4, <2>2, <2>3, <2>4, <2>5 DEF Fits
<1>6. Translated'
  BY <1>2, <1>4, <1>5, EmitTranslates
<1> QED
  BY <1>2, <1>6

TransInv ==
  /\ phase = "validate" => origin = <<>>
  /\ phase \in {"translate", "done"} => Translated
  /\ phase = "done" => pos = Len(src)

\* A step of translate keeps what is known of its code.
LEMMA TransKeeps ==
  ASSUME IInv, IInv', TransInv, CallStep, Records
  PROVE  TransInv'
<1>1. phase' # "unmatched"
  BY DEF IInv, NeverUnmatched
<1>2. TypeOK /\ ValidateInv
  BY DEF IInv
<1>3. CASE ValidateChar \/ ValidateEnd
  <2>1. /\ phase = "validate" /\ phase' \in {"validate", "translate", "rejected"}
        /\ bitcode' = bitcode /\ stack' = stack
        /\ phase' = "translate" => pos' = 0
    BY <1>3 DEF ValidateChar, ValidateEnd
  <2>2. bitcode = <<>> /\ stack = <<>> /\ origin = <<>>
    BY <1>2, <2>1 DEF ValidateInv, TransInv
  <2>3. origin' = <<>>
    <3>1. Len(bitcode) = 0 /\ Len(bitcode') = 0 /\ origin \in Seq(Nat) /\ 0 \in Int
      BY <2>1, <2>2
    <3> QED
      BY <2>2, <3>1, NothingRecorded
  <2>4. ASSUME phase' = "translate" PROVE Translated'
    <3>1. Behind(<<>>, 0, 0) = 0
      BY DEF Behind
    <3>2. PieceInv(src', <<>>, <<>>, 0)
      <4>1. Blank(src', 0, 0)
        BY DEF Blank
      <4>2. <<>> \in Seq(Nat) /\ Len(<<>>) = 0 /\ DOMAIN <<>> = {}
        OBVIOUS
      <4> QED
        BY <3>1, <4>1, <4>2 DEF PieceInv
    <3>3. JumpInv(src', <<>>, <<>>, 0, <<>>)
      BY DEF JumpInv
    <3>4. Translated' <=> PieceInv(src', bitcode', origin', pos') /\ JumpInv(src', bitcode', origin', pos', stack')
      BY DEF Translated
    <3> QED
      BY <2>1, <2>2, <2>3, <2>4, <3>2, <3>3, <3>4
  <2> QED
    BY <2>1, <2>3, <2>4 DEF TransInv
<1>4. CASE MulLoop \/ ScanLoop \/ SetZeroLoop \/ OpenLoop \/ CloseLoop
           \/ AddRun \/ MoveRun \/ Output \/ Input \/ Skip
  <2>1. phase = "translate" /\ (phase' = "translate" \/ phase' = "unmatched")
    BY <1>4 DEF MulLoop, ScanLoop, SetZeroLoop, OpenLoop, CloseLoop, AddRun, MoveRun, Output,
       Input, Skip, Emit, Translating
  <2>2. Translated
    BY <2>1 DEF TransInv
  <2>3. Translated'
    BY <1>1, <1>4, <2>1, <2>2, MulLoopTranslates, ScanLoopTranslates, SetZeroLoopTranslates,
       OpenLoopTranslates, CloseLoopTranslates, RunsTranslate, SkipTranslates
  <2> QED
    BY <1>1, <2>1, <2>3 DEF TransInv
<1>5. CASE Finish
  <2>1. phase = "translate" /\ phase' = "done"
    BY <1>1, <1>5 DEF Finish
  <2>2. Translated
    BY <2>1 DEF TransInv
  <2>3. Translated' /\ pos' = Len(src')
    BY <1>5, <2>1, <2>2, FinishTranslates
  <2> QED
    BY <2>1, <2>3 DEF TransInv
<1> QED
  BY <1>3, <1>4, <1>5 DEF CallStep

-----------------------------------------------------------------------------
(***************************************************************************)
(* Complete code: every instruction, its piece of source and the piece     *)
(* behind it.                                                              *)
(***************************************************************************)

Done == IInv /\ TransInv /\ phase = "done"

\* The complete code.
LEMMA DoneFacts ==
  ASSUME Done
  PROVE  /\ src \in Seq(Char) /\ Len(src) \in Nat /\ pos = Len(src)
         /\ bitcode \in Seq(Instruction) /\ Len(bitcode) \in Nat /\ Len(bitcode) >= 1
         /\ DOMAIN bitcode = 1 .. Len(bitcode)
         /\ origin \in Seq(Nat) /\ Len(origin) = Len(bitcode)
         /\ PieceInv(src, bitcode, origin, Len(src))
         /\ \A i \in DOMAIN bitcode : /\ bitcode[i].op # "X"
                                      /\ bitcode[i].op = "H" <=> i = Len(bitcode)
                                      /\ origin[i] \in Nat /\ origin[i] <= Len(src)
<1>1. /\ src \in Seq(Char) /\ Len(src) \in Nat /\ pos = Len(src)
      /\ bitcode \in Seq(Instruction) /\ Len(bitcode) \in Nat
      /\ DOMAIN bitcode = 1 .. Len(bitcode)
  BY DEF Done, IInv, TypeOK, TransInv
<1>2. stack = <<>> /\ bitcode # <<>>
      /\ \A i \in DOMAIN bitcode : bitcode[i].op = "H" <=> i = Len(bitcode)
  BY DEF Done, IInv, DepthInv, HaltInv
<1>3. PieceInv(src, bitcode, origin, Len(src))
  BY <1>1 DEF Done, TransInv, Translated
<1>4. origin \in Seq(Nat) /\ Len(origin) = Len(bitcode)
      /\ \A i \in DOMAIN bitcode : origin[i] <= Len(src)
  BY <1>3 DEF PieceInv
<1>5. \A i \in DOMAIN bitcode : bitcode[i].op # "X"
  BY <1>2 DEF Done, IInv, CodeInv, Pending
<1>6. Len(bitcode) >= 1
  BY <1>1, <1>2
<1>7. \A i \in DOMAIN bitcode : origin[i] \in Nat
  BY <1>1, <1>4
<1> QED
  BY <1>1, <1>2, <1>3, <1>4, <1>5, <1>6, <1>7

\* The same group, instruction by instruction.
MulPiece(t, code, org, i, e, w, body) ==
  /\ body = BodyOf(t, org[i], e) /\ MulText(body) /\ LoopAt(t, org[i], e)
  /\ Pairs(body) \in Nat /\ Pairs(body) >= 1 /\ w = Pairs(body) + 1
  /\ org[i] + 2 < e
  /\ \A k \in 1 .. Pairs(body) :
       code[i + k - 1] = Instr("MUL", MulFactor(body, k), MulOffset(body, k))
  /\ code[i + Pairs(body)] = Instr("S", 0, 0)
  /\ \A k \in 0 .. Pairs(body) : org[i + k] = org[i]
  /\ code[i].op = "MUL"

\* The instructions of a multiplying loop, from the first.
LEMMA FirstOfGroup ==
  ASSUME NEW t \in Seq(Char), NEW code, NEW org, NEW i \in Nat, NEW e \in Nat, NEW w,
         org[i] \in Nat, Group(t, code, org, i, e, w)
  PROVE  MulPiece(t, code, org, i, e, w, BodyOf(t, org[i], e))
<1> DEFINE body == BodyOf(t, org[i], e)
           P == Pairs(body)
<1>1. /\ LoopAt(t, org[i], e) /\ IsMulLoop(body) /\ w = P + 1
      /\ \A k \in 1 .. w : code[i + k - 1] = MulCode(body)[k] /\ org[i + k - 1] = org[i]
  BY DEF Group
<1>2. MulText(body) /\ Len(body) = e - org[i] - 2
  BY <1>1, BodyMulText, BodyText
<1> HIDE DEF body
<1>3. /\ P \in Nat /\ P >= 1
      /\ \A k \in 1 .. P : MulCode(body)[k] = Instr("MUL", MulFactor(body, k), MulOffset(body, k))
      /\ MulCode(body)[P + 1] = Instr("S", 0, 0)
  BY <1>2, MulCodeFacts
<1>4. org[i] + 2 < e
  <2>1. Len(body) >= 3
    BY <1>2, MulFacts
  <2> QED
    BY <1>2, <2>1
<1> HIDE DEF P
<1>5. ASSUME NEW k \in 1 .. P
      PROVE  code[i + k - 1] = Instr("MUL", MulFactor(body, k), MulOffset(body, k))
  <2>1. k \in 1 .. w
    BY <1>1, <1>3
  <2>2. code[i + k - 1] = MulCode(body)[k]
    BY <1>1, <2>1
  <2> QED
    BY <1>3, <2>2
<1>6. code[i + P] = Instr("S", 0, 0)
  <2>1. P + 1 \in 1 .. w /\ i + (P + 1) - 1 = i + P
    BY <1>1, <1>3
  <2>2. code[i + (P + 1) - 1] = MulCode(body)[P + 1]
    BY <1>1, <2>1
  <2> QED
    BY <1>3, <2>1, <2>2
<1>7. ASSUME NEW k \in 0 .. P PROVE org[i + k] = org[i]
  <2>1. k + 1 \in 1 .. w /\ i + (k + 1) - 1 = i + k
    BY <1>1, <1>3
  <2>2. org[i + (k + 1) - 1] = org[i]
    BY <1>1, <2>1
  <2> QED
    BY <2>1, <2>2
<1>8. code[i].op = "MUL"
  <2>1. 1 \in 1 .. P /\ i + 1 - 1 = i
    BY <1>3
  <2>2. code[i] = Instr("MUL", MulFactor(body, 1), MulOffset(body, 1))
    <3>1. code[i + 1 - 1] = Instr("MUL", MulFactor(body, 1), MulOffset(body, 1))
      BY <1>5, <2>1
    <3> QED
      BY <2>1, <3>1
  <2> QED
    BY <2>2 DEF Instr
<1> QED
  BY <1>1, <1>2, <1>3, <1>4, <1>5, <1>6, <1>7, <1>8 DEF P, body, MulPiece

\* The piece that begins at instruction i, and what begins behind it.
LEMMA PieceHere ==
  ASSUME Done, NEW i \in DOMAIN bitcode, First(origin, i), bitcode[i].op # "H"
  PROVE  \E e \in 0 .. Len(src), w \in 1 .. Len(bitcode) - i :
           /\ Piece(src, bitcode, origin, i, e, w) /\ origin[i] < e
           /\ i + w \in DOMAIN bitcode /\ First(origin, i + w)
           /\ Blank(src, e, origin[i + w])
<1>1. /\ src \in Seq(Char) /\ Len(src) \in Nat /\ bitcode \in Seq(Instruction) /\ Len(bitcode) \in Nat
      /\ DOMAIN bitcode = 1 .. Len(bitcode) /\ Len(origin) = Len(bitcode)
      /\ \A j \in DOMAIN bitcode : /\ bitcode[j].op = "H" <=> j = Len(bitcode)
                                   /\ origin[j] \in Nat
  BY DoneFacts
<1>2. PieceInv(src, bitcode, origin, Len(src))
  BY DoneFacts
<1>3. PICK e \in 0 .. Len(src), w \in 1 .. Len(bitcode) - i + 1 :
        /\ Piece(src, bitcode, origin, i, e, w)
        /\ Blank(src, e, Behind(origin, Len(src), i + w - 1))
  BY <1>2 DEF PieceInv
<1>4. i \in 1 .. Len(bitcode) /\ i # Len(bitcode) /\ i \in Nat /\ e \in Nat /\ origin[i] \in Nat
      /\ w \in Nat /\ w >= 1 /\ i + w - 1 \in DOMAIN bitcode
  BY <1>1
<1>5. (Plain(src, bitcode[i], origin[i], e) /\ w = 1) \/ Group(src, bitcode, origin, i, e, w)
  BY <1>3 DEF Piece
<1>6. /\ origin[i] < e /\ origin[i + w - 1] = origin[i] /\ bitcode[i + w - 1].op # "H"
  <2>1. CASE Plain(src, bitcode[i], origin[i], e) /\ w = 1
    <3>1. w = 1 /\ origin[i] < e
      BY <2>1 DEF Plain
    <3>2. i + w - 1 = i
      BY <1>4, <3>1
    <3> QED
      BY <3>1, <3>2
  <2>2. CASE Group(src, bitcode, origin, i, e, w)
    <3> DEFINE body == BodyOf(src, origin[i], e)
               P == Pairs(body)
    <3>3. MulPiece(src, bitcode, origin, i, e, w, body)
      BY <1>1, <1>4, <2>2, FirstOfGroup
    <3> HIDE DEF body
    <3>1. /\ P \in Nat /\ w = P + 1 /\ origin[i] + 2 < e
          /\ bitcode[i + P] = Instr("S", 0, 0)
          /\ \A k \in 0 .. P : origin[i + k] = origin[i]
      BY <3>3 DEF MulPiece
    <3> HIDE DEF P
    <3>2. i + w - 1 = i + P /\ P \in 0 .. P /\ origin[i] < e
      BY <1>4, <3>1
    <3> QED
      BY <3>1, <3>2 DEF Instr
  <2> QED
    BY <1>5, <2>1, <2>2
<1> DEFINE l == i + w - 1
<1>7. l \in DOMAIN bitcode /\ l # Len(bitcode)
  BY <1>1, <1>4, <1>6
<1>12. l + 1 = i + w /\ i + w # 1 /\ (i + w) - 1 = l
  BY <1>4
<1>8. l < Len(bitcode) /\ l + 1 = i + w /\ i + w \in DOMAIN bitcode /\ w \in 1 .. Len(bitcode) - i
      /\ i + w # 1 /\ (i + w) - 1 = l
  <2>1. l \in 1 .. Len(bitcode) - 1
    BY <1>1, <1>7
  <2>2. i + w \in 1 .. Len(bitcode) /\ w \in 1 .. Len(bitcode) - i
    <3> HIDE DEF l
    <3> QED
      BY <1>1, <1>4, <1>12, <2>1, SMTT(30)
  <2> QED
    BY <1>1, <1>12, <2>1, <2>2
<1>9. Behind(origin, Len(src), l) = origin[i + w]
  <2> HIDE DEF l
  <2>1. Behind(origin, Len(src), l) = origin[l + 1]
    BY <1>1, <1>8 DEF Behind
  <2> QED
    BY <1>8, <2>1
<1>10. Blank(src, e, origin[i + w])
  BY <1>3, <1>9
<1>11. First(origin, i + w)
  <2>1. origin[l] = origin[i] /\ origin[i] < e /\ e <= origin[i + w]
        /\ origin[i] \in Nat /\ origin[i + w] \in Nat
    BY <1>1, <1>4, <1>6, <1>8, <1>10 DEF Blank
  <2>2. origin[i + w] # origin[l]
    BY <1>4, <2>1
  <2> QED
    BY <1>8, <2>2 DEF First
<1> QED
  BY <1>3, <1>6, <1>8, <1>10, <1>11

\* An instruction of its own, and the one behind it.
LEMMA PlainHere ==
  ASSUME Done, NEW i \in DOMAIN bitcode, bitcode[i].op \notin {"MUL", "H"}, First(origin, i)
  PROVE  /\ i + 1 \in DOMAIN bitcode /\ First(origin, i + 1) /\ i < Len(bitcode)
         /\ \E e \in 0 .. Len(src) : Plain(src, bitcode[i], origin[i], e) /\ origin[i] < e
                                     /\ Blank(src, e, origin[i + 1])
<1>1. PICK e \in 0 .. Len(src), w \in 1 .. Len(bitcode) - i :
           /\ Piece(src, bitcode, origin, i, e, w) /\ origin[i] < e
           /\ i + w \in DOMAIN bitcode /\ First(origin, i + w)
           /\ Blank(src, e, origin[i + w])
  BY PieceHere
<1>2. src \in Seq(Char) /\ i \in Nat /\ e \in Nat /\ origin[i] \in Nat
  BY DoneFacts
<1>3. ~Group(src, bitcode, origin, i, e, w)
  <2>1. SUFFICES ASSUME Group(src, bitcode, origin, i, e, w) PROVE FALSE
    OBVIOUS
  <2>2. MulPiece(src, bitcode, origin, i, e, w, BodyOf(src, origin[i], e))
    BY <1>2, <2>1, FirstOfGroup
  <2>3. bitcode[i].op = "MUL"
    BY <2>2 DEF MulPiece
  <2> QED
    BY <2>3
<1>4. w = 1 /\ Plain(src, bitcode[i], origin[i], e)
  BY <1>1, <1>3 DEF Piece
<1>5. i < Len(bitcode)
  BY <1>1, <1>2, <1>4, DoneFacts
<1> QED
  BY <1>1, <1>4, <1>5

\* The two ends of a loop.
LEMMA JumpsHere ==
  ASSUME Done, NEW i \in DOMAIN bitcode, bitcode[i].op \in {"JE", "JN"},
         NEW j, j = i + bitcode[i].off
  PROVE  /\ j \in DOMAIN bitcode /\ bitcode[j].op \in {"JE", "JN"} /\ First(origin, j)
         /\ bitcode[i].op = "JE" => Partners(src, origin[i] + 1, origin[j] + 1)
         /\ bitcode[i].op = "JN" => Partners(src, origin[j] + 1, origin[i] + 1) /\ i # 1
<1>1. JumpsMatched(bitcode)
  BY DEF Done, IInv, CodeInv
<1>2. /\ DOMAIN bitcode = 1 .. Len(bitcode) /\ Len(bitcode) \in Nat
      /\ PieceInv(src, bitcode, origin, Len(src)) /\ bitcode \in Seq(Instruction)
  BY DoneFacts
<1>3. bitcode[i].off \in Int
  <2>1. bitcode[i] \in Instruction
    BY <1>2
  <2> QED
    BY <2>1 DEF Instruction
<1>4. /\ j \in DOMAIN bitcode /\ bitcode[j].op = (IF bitcode[i].op = "JE" THEN "JN" ELSE "JE")
      /\ bitcode[j].off = -bitcode[i].off
      /\ bitcode[i].op = "JN" => bitcode[i].off < 0
  BY <1>1 DEF JumpsMatched, Paired
<1>5. j + bitcode[j].off = i
  BY <1>2, <1>3, <1>4
<1>6. \A n \in DOMAIN bitcode : bitcode[n].op = "JE" =>
        Partners(src, origin[n] + 1, origin[n + bitcode[n].off] + 1)
  BY DEF Done, TransInv, Translated, JumpInv
<1>7. First(origin, j)
  BY <1>2, <1>4 DEF PieceInv
<1>8. bitcode[i].op = "JN" => i # 1
  BY <1>2, <1>3, <1>4
<1> QED
  BY <1>4, <1>5, <1>6, <1>7, <1>8

-----------------------------------------------------------------------------
(***************************************************************************)
(* Where the interpreter is while it follows the machine.                  *)
(***************************************************************************)

\* It has still to move from q to the target.
MovesTo(q) ==
  /\ q <= target /\ All(src, Moves \cup {"#"}, q, target)
  /\ memory = dmemory /\ input = dinput /\ output = said
  /\ ptr = (dptr + Net(src, ">", "<", q + 1 .. target)) % MemSize

AddsTo ==
  /\ c < target /\ All(src, Arith \cup {"#"}, c, target)
  /\ ptr = dptr /\ input = dinput /\ output = said
  /\ memory = [dmemory EXCEPT ![dptr] = (@ + Net(src, "+", "-", c + 1 .. target)) % CellMod]

ReadsNext ==
  \E p \in 0 .. Len(src) - 1 :
    /\ Blank(src, c, p) /\ Blank(src, p + 1, target) /\ said = <<>> /\ ptr = dptr
    /\ \/ /\ src[p + 1] = "," /\ output = <<>>
          /\ memory = [dmemory EXCEPT ![dptr] = IF dinput = <<>> THEN 0 ELSE Head(dinput)]
          /\ input = IF dinput = <<>> THEN <<>> ELSE Tail(dinput)
       \/ /\ src[p + 1] = "." /\ output = <<dmemory[dptr]>>
          /\ memory = dmemory /\ input = dinput

\* It is before a bracket from which it gets to q.
Jumps ==
  \E p \in 0 .. Len(src) - 1, q \in 1 .. Len(src) :
    /\ Blank(src, c, p) /\ target \notin c + 1 .. p
    /\ Lands(p, q) /\ MovesTo(q)

\* It is before or in a loop that clears a cell.
Clears ==
  \E p \in 0 .. Len(src), e \in 0 .. Len(src) :
    /\ LoopAt(src, p, e) /\ All(src, Arith, p + 1, e - 1)
    /\ Blank(src, c, p) \/ c \in p + 1 .. e - 1
    /\ Blank(src, e, target)
    /\ ptr = dptr /\ input = dinput /\ output = said
    /\ memory = [dmemory EXCEPT ![dptr] = 0]

\* It is before or in a loop that multiplies.
Multiplies ==
  \E p \in 0 .. Len(src), e \in 0 .. Len(src) :
    LET body == BodyOf(src, p, e)
    IN  /\ LoopAt(src, p, e) /\ MulText(body) /\ HomeKept(body)
        /\ Blank(src, e, target)
        /\ input = dinput /\ output = said
        /\ ptr \in Address /\ memory \in [Address -> Cell]
        /\ \/ Blank(src, c, p) /\ ptr = dptr /\ MulLeft(body, ptr, dmemory, memory, Len(body))
           \/ /\ c \in p + 1 .. e - 1 /\ MulLeft(body, ptr, dmemory, memory, c - p - 1)
              /\ dptr = (ptr + Shift(body, c - p - 1)) % MemSize

Pursuing ==
  AddsTo \/ (c < target /\ MovesTo(c)) \/ ReadsNext \/ Jumps \/ Clears \/ Multiplies

\* The ']' of the scan at instruction i.
ScanEnd(i) ==
  {e \in 1 .. Len(src) : bitcode[i].op = "F" /\ Plain(src, bitcode[i], origin[i], e)}

\* The interpreter is at instruction i; at the end of a turn of a scan, or
\* before the first instruction, that is not where the instruction begins.
AtPiece(i) ==
  \/ c = origin[i]
  \/ i = 1 /\ Blank(src, c, origin[1])
  \/ \E e \in ScanEnd(i) : c = e - 1

Aimed == target = origin[pc + 1] \/ \E e \in ScanEnd(pc + 1) : target = e - 1

Met == status = "running" /\ First(origin, pc + 1) /\ AtPiece(pc + 1) /\ Agree

\* The machine has done k instructions of a multiplying loop.
InGroup(f, e, k) ==
  LET body == BodyOf(src, origin[f], e)
      w == Pairs(body) + 1
  IN  /\ MulPiece(src, bitcode, origin, f, e, w, body)
      /\ f + w \in DOMAIN bitcode /\ First(origin, f + w) /\ Blank(src, e, origin[f + w])
      /\ pc + 1 = f + k /\ k <= Pairs(body)
      /\ Blank(src, c, origin[f])
      /\ status = "running" /\ ptr = dptr /\ input = dinput
      /\ memory \in [Address -> Cell]
      /\ Multiplied(body, ptr, dmemory, memory, k)

Middle ==
  \E f \in DOMAIN bitcode, e \in 0 .. Len(src), k \in Nat \ {0} : InGroup(f, e, k)

Following == status = "running" /\ First(origin, pc + 1) /\ Aimed /\ Pursuing

Ending == status = "halted" /\ Blank(src, c, Len(src)) /\ Agree

-----------------------------------------------------------------------------
(***************************************************************************)
(* A step of the machine.                                                  *)
(***************************************************************************)

\* Where a piece begins is where the machines meet.
LEMMA FirstIsBoundary == \A a \in Nat : Boundary(a) <=> First(origin, a + 1)
<1> TAKE a \in Nat
<1>1. (a + 1 = 1 <=> a = 0) /\ (a + 1) - 1 = a
  OBVIOUS
<1> QED
  BY <1>1 DEF Boundary, First

\* What a step of the machine leaves alone.
LEMMA MachineFrame ==
  ASSUME Done, pc \in Nat, pc < Len(bitcode), MachineStep
  PROVE  /\ status = "running" /\ turn = "machine" /\ said' = <<>>
         /\ UNCHANGED <<src, phase, pos, open, stack, bitcode, origin>>
         /\ UNCHANGED <<mode, c, dstack, dptr, dmemory, dinput, doutput>>
         /\ bitcode[pc + 1].op # "F" => target' = origin[pc' + 1]
         /\ turn' = IF status' = "running" /\ ~Boundary(pc') THEN "machine" ELSE "direct"
<1>1. /\ turn = "machine" /\ said' = <<>> /\ UNCHANGED <<src, phase, pos, open, stack, origin, dvars>>
      /\ target' = IF InScan THEN D!MatchingClose(src, origin[pc + 1] + 1) - 1
                             ELSE origin[pc' + 1]
      /\ turn' = IF status' = "running" /\ ~Boundary(pc') THEN "machine" ELSE "direct"
  BY DEF MachineStep
<1>2. status = "running" /\ bitcode' = bitcode
  BY DEF MachineStep, M!Step, M!A, M!S, M!MUL, M!F, M!M, M!JE, M!JN, M!IO, M!Stop, M!Executes, M!Continue
<1>3. bitcode[pc + 1].op # "F" => target' = origin[pc' + 1]
  BY <1>1 DEF InScan
<1> QED
  BY <1>1, <1>2, <1>3 DEF dvars

\* What the machine has done was the work of the piece before instruction j.
LEMMA StepTo ==
  ASSUME Done, pc \in Nat, pc < Len(bitcode), MachineStep,
         NEW j \in DOMAIN bitcode, First(origin, j), pc' + 1 = j, pc' \in Int,
         status' = "running", target' = origin[j] \/ \E e \in ScanEnd(j) : target' = e - 1,
         Pursuing'
  PROVE  /\ turn' = "direct" /\ Following' /\ pc' \in Nat /\ pc' < Len(bitcode)
<1>1. DOMAIN bitcode = 1 .. Len(bitcode) /\ Len(bitcode) \in Nat
  BY DoneFacts
<1>2. pc' \in Nat /\ pc' < Len(bitcode)
  BY <1>1
<1>3. /\ UNCHANGED <<src, bitcode, origin>>
      /\ turn' = IF status' = "running" /\ ~Boundary(pc') THEN "machine" ELSE "direct"
  BY MachineFrame
<1>4. Boundary(pc')
  BY <1>2, FirstIsBoundary
<1>5. First(origin', pc' + 1)
  BY <1>3
<1>6. ScanEnd(pc + 1)' = ScanEnd(j)
  BY <1>3 DEF ScanEnd
<1>7. Aimed'
  BY <1>3, <1>6 DEF Aimed
<1> QED
  BY <1>2, <1>3, <1>4, <1>5, <1>7 DEF Following

\* The machine's wrapping is a remainder.
LEMMA Wraps ==
  ASSUME NEW a \in Address, NEW off \in Int
  PROVE  M!WrapOffset(a, off, MemSize) = (a + off) % MemSize
<1>1. a \in Int /\ MemSize \in Nat \ {0} /\ MemSize # 0
  BY CellFacts
<1>2. /\ off >= 0 => ((a % MemSize) + (off % MemSize)) % MemSize = (a + off) % MemSize
      /\ off < 0 => ((a % MemSize) + MemSize - ((-(off + 1) + 1) % MemSize)) % MemSize = (a + off) % MemSize
  BY <1>1, WrapArithmetic
<1>3. CASE off >= 0
  <2>1. M!WrapOffset(a, off, MemSize) = ((a % MemSize) + (off % MemSize)) % MemSize
    BY <1>1, <1>3 DEF M!WrapOffset
  <2> QED
    BY <1>2, <1>3, <2>1
<1>4. CASE ~(off >= 0)
  <2>1. M!WrapOffset(a, off, MemSize)
          = ((a % MemSize) + MemSize - ((-(off + 1) + 1) % MemSize)) % MemSize
    BY <1>1, <1>4 DEF M!WrapOffset
  <2>2. off < 0
    BY <1>4
  <2> QED
    BY <1>2, <2>1, <2>2
<1> QED
  BY <1>3, <1>4

\* Both machines are at the beginning of the piece of instruction i, at most
\* with comments before it.
LEMMA MetFacts ==
  ASSUME Done, Sound, pc \in Nat, pc < Len(bitcode), Met
  PROVE  /\ pc + 1 \in DOMAIN bitcode /\ bitcode[pc + 1] \in Instruction
         /\ First(origin, pc + 1) /\ status = "running"
         /\ ptr = dptr /\ memory = dmemory /\ input = dinput
         /\ ptr \in Address /\ memory \in [Address -> Cell]
         /\ bitcode[pc + 1].op # "F" => Blank(src, c, origin[pc + 1])
<1>1. DOMAIN bitcode = 1 .. Len(bitcode) /\ Len(bitcode) \in Nat /\ bitcode \in Seq(Instruction)
      /\ \A i \in DOMAIN bitcode : origin[i] \in Nat
  BY DoneFacts
<1>2. pc + 1 \in DOMAIN bitcode
  BY <1>1
<1>3. dptr \in Address /\ dmemory \in [Address -> Cell]
  BY DirectTypes
<1>4. ASSUME bitcode[pc + 1].op # "F" PROVE Blank(src, c, origin[pc + 1])
  <2>1. c = origin[pc + 1] \/ (pc + 1 = 1 /\ Blank(src, c, origin[1]))
    BY <1>4 DEF Met, AtPiece, ScanEnd
  <2>2. Blank(src, origin[pc + 1], origin[pc + 1])
    BY <1>1, <1>2 DEF Blank
  <2> QED
    BY <2>1, <2>2
<1>5. bitcode[pc + 1] \in Instruction
  BY <1>1, <1>2
<1> QED
  BY <1>2, <1>3, <1>4, <1>5 DEF Met, Agree

\* Comments, a run of characters of S, comments.
Span(S, a, p, e, n) ==
  /\ a \in Int /\ p \in Int /\ e \in Int /\ n \in Int
  /\ Blank(src, a, p) /\ p < e /\ All(src, S, p, e) /\ Blank(src, e, n)

\* A piece of source with its comments.
LEMMA SpanFacts ==
  ASSUME NEW S, NEW a \in Int, NEW p \in Int, NEW e \in Int, NEW n \in Int, Span(S, a, p, e, n)
  PROVE  /\ a < n /\ All(src, S \cup {"#"}, a, n)
<1>1. a <= p /\ e <= n /\ a < n /\ a \in Int /\ p \in Int /\ e \in Int /\ n \in Int
  BY DEF Span, Blank
<1>2. \A k \in a + 1 .. n : k \in a + 1 .. p \/ k \in p + 1 .. e \/ k \in e + 1 .. n
  BY <1>1
<1>3. \A k \in a + 1 .. n : k \in p + 1 .. e \/ src[k] = "#"
  BY <1>2 DEF Blank, Span
<1>4. All(src, S \cup {"#"}, a, n)
  BY <1>3 DEF All, Span
<1> QED
  BY <1>1, <1>4

\* Comments add nothing.
LEMMA SpanNet ==
  ASSUME src \in Seq(Char), NEW S, NEW a \in Int, NEW p \in Int, NEW e \in Int, NEW n \in Int, Span(S, a, p, e, n),
         NEW up, NEW down, up # "#", down # "#"
  PROVE  Net(src, up, down, a + 1 .. n) = Net(src, up, down, p + 1 .. e)
<1> DEFINE I == a + 1 .. n
           B == p + 1 .. e
<1>1. /\ \A k \in I : k \in B \/ src[k] = "#"
      /\ \A k \in B : k \in I
  <2>1. a <= p /\ e <= n
    BY DEF Span, Blank
  <2>2. \A k \in I : k \in a + 1 .. p \/ k \in B \/ k \in e + 1 .. n
    BY <2>1
  <2>3. \A k \in I : k \in B \/ src[k] = "#"
    BY <2>2 DEF Blank, Span
  <2>4. \A k \in B : k \in I
    BY <2>1
  <2> QED
    BY <2>3, <2>4
<1> HIDE DEF I, B
<1>2. \A k \in DOMAIN src : src[k] \in {up, down} => (k \in I <=> k \in B)
  BY <1>1
<1>3. Net(src, up, down, I) = Net(src, up, down, B)
  BY <1>2, NetSame
<1> QED
  BY <1>3 DEF I, B

\* A run of additions.
LEMMA MetAdds ==
  ASSUME Done, Sound, pc \in Nat, pc < Len(bitcode), Met, MachineStep,
         bitcode[pc + 1].op = "A"
  PROVE  turn' = "direct" /\ Following' /\ pc' \in Nat /\ pc' < Len(bitcode)
<1> DEFINE i == pc + 1
           in == bitcode[i]
           p == origin[i]
           n == origin[i + 1]
<1>1. /\ i \in DOMAIN bitcode /\ in \in Instruction /\ First(origin, i) /\ status = "running"
      /\ ptr = dptr /\ memory = dmemory /\ input = dinput
      /\ ptr \in Address /\ memory \in [Address -> Cell]
      /\ Blank(src, c, p)
  BY MetFacts
<1>2. /\ said' = <<>> /\ UNCHANGED <<src, bitcode, origin>>
      /\ UNCHANGED <<mode, c, dstack, dptr, dmemory, dinput, doutput>>
      /\ target' = origin[pc' + 1]
  BY MachineFrame
<1>3. /\ pc' = pc + 1 /\ status' = "running" /\ ptr' = ptr /\ input' = input /\ output' = <<>>
      /\ memory' = [memory EXCEPT ![ptr] = (@ + in.imm) % CellMod]
  BY DEF MachineStep, M!Step, M!A, M!S, M!MUL, M!F, M!M, M!JE, M!JN, M!IO, M!Stop, M!Executes,
     M!Continue, M!NoIO, M!At, M!Current
<1>4. src \in Seq(Char) /\ c \in Int /\ p \in Int /\ \A j \in DOMAIN bitcode : origin[j] \in Nat
  BY <1>1, DirectTypes, DoneFacts, SMTT(30)
<1> HIDE DEF i
<1>5. PICK e \in 0 .. Len(src) : /\ Plain(src, in, p, e) /\ p < e /\ Blank(src, e, n)
                                 /\ i + 1 \in DOMAIN bitcode /\ First(origin, i + 1)
  <2>1. bitcode[i].op \notin {"MUL", "H"}
    BY DEF i
  <2> QED
    BY <1>1, <2>1, PlainHere
<1> DEFINE N == Net(src, "+", "-", p + 1 .. e)
<1>6. All(src, Arith, p, e) /\ in.imm = N % CellMod /\ e \in Int /\ n \in Int
  BY <1>4, <1>5 DEF Plain, i
<1> HIDE DEF in, p, n
<1>7. Span(Arith, c, p, e, n)
  BY <1>1, <1>4, <1>5, <1>6 DEF Span
<1>8. c < n /\ All(src, Arith \cup {"#"}, c, n) /\ Net(src, "+", "-", c + 1 .. n) = N
  <2>2. c < n /\ All(src, Arith \cup {"#"}, c, n)
    BY <1>4, <1>6, <1>7, SpanFacts
  <2>3. Net(src, "+", "-", c + 1 .. n) = Net(src, "+", "-", p + 1 .. e)
    BY <1>4, <1>6, <1>7, SpanNet
  <2> QED
    BY <2>2, <2>3
<1>9. N \in Int
  BY <1>4, NetType
<1> HIDE DEF N
<1>10. (memory[ptr] + in.imm) % CellMod = (memory[ptr] + N) % CellMod
  <2> DEFINE v == memory[ptr]
  <2>1. v \in Int
    BY <1>1, CellFacts
  <2> HIDE DEF v
  <2>2. ((N % CellMod) + v) % CellMod = (N + v) % CellMod
    BY <1>9, <2>1, CellFacts, ModPlus
  <2>3. N % CellMod \in Int
    BY <1>9, CellFacts
  <2>4. (v + (N % CellMod)) % CellMod = (v + N) % CellMod
    BY <1>9, <2>1, <2>2, <2>3
  <2> QED
    BY <1>6, <2>4 DEF v
<1>11. memory' = [dmemory EXCEPT ![dptr] = (@ + Net(src, "+", "-", c + 1 .. n)) % CellMod]
  BY <1>1, <1>3, <1>8, <1>10
<1>12. target' = n /\ pc' + 1 = i + 1 /\ pc' \in Int
  BY <1>2, <1>3 DEF i, n
<1>13. AddsTo'
  BY <1>1, <1>2, <1>3, <1>8, <1>11, <1>12 DEF AddsTo
<1>14. target' = origin[i + 1]
  BY <1>12 DEF n
<1> QED
  BY <1>3, <1>5, <1>12, <1>13, <1>14, StepTo DEF Pursuing

\* A run of moves.
LEMMA MetMoves ==
  ASSUME Done, Sound, pc \in Nat, pc < Len(bitcode), Met, MachineStep,
         bitcode[pc + 1].op = "M"
  PROVE  turn' = "direct" /\ Following' /\ pc' \in Nat /\ pc' < Len(bitcode)
<1> DEFINE i == pc + 1
           in == bitcode[i]
           p == origin[i]
           n == origin[i + 1]
<1>1. /\ i \in DOMAIN bitcode /\ in \in Instruction /\ First(origin, i) /\ status = "running"
      /\ ptr = dptr /\ memory = dmemory /\ input = dinput
      /\ ptr \in Address /\ memory \in [Address -> Cell]
      /\ Blank(src, c, p)
  BY MetFacts
<1>2. /\ said' = <<>> /\ UNCHANGED <<src, bitcode, origin>>
      /\ UNCHANGED <<mode, c, dstack, dptr, dmemory, dinput, doutput>>
      /\ target' = origin[pc' + 1]
  BY MachineFrame
<1>3. /\ pc' = pc + 1 /\ status' = "running" /\ memory' = memory /\ input' = input /\ output' = <<>>
      /\ ptr' = M!WrapOffset(ptr, in.off, MemSize)
  BY DEF MachineStep, M!Step, M!A, M!S, M!MUL, M!F, M!M, M!JE, M!JN, M!IO, M!Stop, M!Executes,
     M!Continue, M!NoIO, M!At, M!Current
<1>4. src \in Seq(Char) /\ c \in Int /\ p \in Int /\ \A j \in DOMAIN bitcode : origin[j] \in Nat
  BY <1>1, DirectTypes, DoneFacts, SMTT(30)
<1> HIDE DEF i
<1>5. PICK e \in 0 .. Len(src) : /\ Plain(src, in, p, e) /\ p < e /\ Blank(src, e, n)
                                 /\ i + 1 \in DOMAIN bitcode /\ First(origin, i + 1)
  <2>1. bitcode[i].op \notin {"MUL", "H"}
    BY DEF i
  <2> QED
    BY <1>1, <2>1, PlainHere
<1> DEFINE N == Net(src, ">", "<", p + 1 .. e)
<1>6. All(src, Moves, p, e) /\ in.off = N /\ e \in Int /\ n \in Int
  BY <1>4, <1>5 DEF Plain, i
<1> HIDE DEF in, p, n
<1>7. Span(Moves, c, p, e, n)
  BY <1>1, <1>4, <1>5, <1>6 DEF Span
<1>8. c < n /\ All(src, Moves \cup {"#"}, c, n) /\ Net(src, ">", "<", c + 1 .. n) = N
  <2>2. c < n /\ All(src, Moves \cup {"#"}, c, n)
    BY <1>4, <1>6, <1>7, SpanFacts
  <2>3. Net(src, ">", "<", c + 1 .. n) = Net(src, ">", "<", p + 1 .. e)
    BY <1>4, <1>6, <1>7, SpanNet
  <2> QED
    BY <2>2, <2>3
<1>9. N \in Int
  BY <1>4, NetType
<1> HIDE DEF N
<1>10. ptr' = (ptr + N) % MemSize
  BY <1>1, <1>3, <1>6, <1>9, Wraps
<1>12. target' = n /\ pc' + 1 = i + 1 /\ pc' \in Int
  BY <1>2, <1>3 DEF i, n
<1> HIDE DEF N
<1>13. MovesTo(c)' /\ (c < target)'
  <2>1. c' = c /\ target' = n /\ src' = src
    BY <1>2, <1>12
  <2>2. (c < target)' /\ (c <= target)' /\ All(src, Moves \cup {"#"}, c, target)'
    BY <1>4, <1>6, <1>8, <2>1
  <2>3. Net(src, ">", "<", c + 1 .. target)' = N
    BY <1>8, <2>1
  <2>4. (memory = dmemory)' /\ (input = dinput)' /\ (output = said)'
    BY <1>1, <1>2, <1>3
  <2>5. ptr' = (dptr' + N) % MemSize
    BY <1>1, <1>2, <1>10
  <2> QED
    BY <2>2, <2>3, <2>4, <2>5 DEF MovesTo
<1>14. target' = origin[i + 1]
  BY <1>12 DEF n
<1>15. Pursuing'
  BY <1>13 DEF Pursuing
<1> QED
  BY <1>3, <1>5, <1>12, <1>14, <1>15, StepTo

\* A loop that clears its cell.
LEMMA MetClears ==
  ASSUME Done, Sound, pc \in Nat, pc < Len(bitcode), Met, MachineStep,
         bitcode[pc + 1].op = "S"
  PROVE  turn' = "direct" /\ Following' /\ pc' \in Nat /\ pc' < Len(bitcode)
<1> DEFINE i == pc + 1
           in == bitcode[i]
           p == origin[i]
           n == origin[i + 1]
<1>1. /\ i \in DOMAIN bitcode /\ in \in Instruction /\ First(origin, i) /\ status = "running"
      /\ ptr = dptr /\ memory = dmemory /\ input = dinput
      /\ ptr \in Address /\ memory \in [Address -> Cell]
      /\ Blank(src, c, p)
  BY MetFacts
<1>2. /\ said' = <<>> /\ UNCHANGED <<src, bitcode, origin>>
      /\ UNCHANGED <<mode, c, dstack, dptr, dmemory, dinput, doutput>>
      /\ target' = origin[pc' + 1]
  BY MachineFrame
<1>3. /\ pc' = pc + 1 /\ status' = "running" /\ ptr' = ptr /\ input' = input /\ output' = <<>>
      /\ memory' = [memory EXCEPT ![ptr] = in.imm]
  BY DEF MachineStep, M!Step, M!A, M!S, M!MUL, M!F, M!M, M!JE, M!JN, M!IO, M!Stop, M!Executes,
     M!Continue, M!NoIO, M!At, M!Current
<1>4. src \in Seq(Char) /\ Len(src) \in Nat /\ p \in 0 .. Len(src) /\ \A j \in DOMAIN bitcode : origin[j] \in Nat
  <2>1. origin[i] \in Nat /\ origin[i] <= Len(src) /\ src \in Seq(Char) /\ Len(src) \in Nat
    BY <1>1, DoneFacts
  <2> QED
    BY <2>1, DoneFacts
<1> HIDE DEF i
<1>5. PICK e \in 0 .. Len(src) : /\ Plain(src, in, p, e) /\ p < e /\ Blank(src, e, n)
                                 /\ i + 1 \in DOMAIN bitcode /\ First(origin, i + 1)
  <2>1. bitcode[i].op \notin {"MUL", "H"}
    BY DEF i
  <2> QED
    BY <1>1, <2>1, PlainHere
<1>6. LoopAt(src, p, e) /\ All(src, Arith, p + 1, e - 1) /\ in.imm = 0
  BY <1>5 DEF Plain, i
<1> HIDE DEF in, p
<1>12. target' = n /\ pc' + 1 = i + 1 /\ pc' \in Int
  BY <1>2, <1>3 DEF i
<1> HIDE DEF n
<1>13. Clears'
  <2>1. memory' = [dmemory' EXCEPT ![dptr'] = 0]
    BY <1>1, <1>2, <1>3, <1>6
  <2>2. LoopAt(src', p, e) /\ All(src', Arith, p + 1, e - 1) /\ Blank(src', c', p)
        /\ Blank(src', e, target') /\ p \in 0 .. Len(src') /\ e \in 0 .. Len(src')
    BY <1>1, <1>2, <1>4, <1>5, <1>6, <1>12
  <2>3. ptr' = dptr' /\ input' = dinput' /\ output' = said'
    BY <1>1, <1>2, <1>3
  <2> QED
    BY <2>1, <2>2, <2>3 DEF Clears
<1>14. target' = origin[i + 1]
  BY <1>12 DEF n
<1>15. Pursuing'
  BY <1>13 DEF Pursuing
<1> QED
  BY <1>3, <1>5, <1>12, <1>14, <1>15, StepTo

\* Input and output.
LEMMA MetReads ==
  ASSUME Done, Sound, pc \in Nat, pc < Len(bitcode), Met, MachineStep,
         bitcode[pc + 1].op = "IO"
  PROVE  turn' = "direct" /\ Following' /\ pc' \in Nat /\ pc' < Len(bitcode)
<1> DEFINE i == pc + 1
           in == bitcode[i]
           p == origin[i]
           n == origin[i + 1]
<1>1. /\ i \in DOMAIN bitcode /\ in \in Instruction /\ First(origin, i) /\ status = "running"
      /\ ptr = dptr /\ memory = dmemory /\ input = dinput
      /\ ptr \in Address /\ memory \in [Address -> Cell]
      /\ Blank(src, c, p)
  BY MetFacts
<1>2. /\ said' = <<>> /\ UNCHANGED <<src, bitcode, origin>>
      /\ UNCHANGED <<mode, c, dstack, dptr, dmemory, dinput, doutput>>
      /\ target' = origin[pc' + 1]
  BY MachineFrame
<1>3. /\ pc' = pc + 1 /\ status' = "running" /\ ptr' = ptr
      /\ IF in.imm = IO_IN
           THEN /\ memory' = [memory EXCEPT ![ptr] = IF input = <<>> THEN 0 ELSE Head(input)]
                /\ input' = IF input = <<>> THEN <<>> ELSE Tail(input)
                /\ output' = <<>>
           ELSE output' = <<memory[ptr]>> /\ UNCHANGED <<memory, input>>
  BY DEF MachineStep, M!Step, M!A, M!S, M!MUL, M!F, M!M, M!JE, M!JN, M!IO, M!Stop, M!Executes,
     M!Continue, M!NoIO, M!At, M!Current, IO_IN, M!IO_IN
<1>4. src \in Seq(Char) /\ Len(src) \in Nat /\ p \in Nat /\ \A j \in DOMAIN bitcode : origin[j] \in Nat
  BY <1>1, DoneFacts
<1> HIDE DEF i
<1>5. PICK e \in 0 .. Len(src) : /\ Plain(src, in, p, e) /\ p < e /\ Blank(src, e, n)
                                 /\ i + 1 \in DOMAIN bitcode /\ First(origin, i + 1)
  <2>1. bitcode[i].op \notin {"MUL", "H"}
    BY DEF i
  <2> QED
    BY <1>1, <2>1, PlainHere
<1>6. e = p + 1 /\ src[e] = (IF in.imm = IO_IN THEN "," ELSE ".")
  BY <1>5 DEF Plain, i
<1> HIDE DEF in, p
<1>7. p \in 0 .. Len(src) - 1
  <2>1. e \in 0 .. Len(src) /\ e = p + 1
    BY <1>5, <1>6
  <2> QED
    BY <1>4, <2>1
<1>12. target' = n /\ pc' + 1 = i + 1 /\ pc' \in Int
  BY <1>2, <1>3 DEF i
<1> HIDE DEF n
<1>13. ReadsNext'
  <2>1. /\ p \in 0 .. Len(src') - 1 /\ Blank(src', c', p) /\ Blank(src', p + 1, target')
        /\ said' = <<>> /\ ptr' = dptr'
    BY <1>1, <1>2, <1>3, <1>5, <1>6, <1>7, <1>12
  <2>2. CASE in.imm = IO_IN
    <3>1. /\ src'[p + 1] = "," /\ output' = <<>>
          /\ memory' = [dmemory' EXCEPT ![dptr'] = IF dinput' = <<>> THEN 0 ELSE Head(dinput')]
          /\ input' = IF dinput' = <<>> THEN <<>> ELSE Tail(dinput')
      BY <1>1, <1>2, <1>3, <1>6, <2>2
    <3> QED
      BY <2>1, <3>1 DEF ReadsNext
  <2>3. CASE in.imm # IO_IN
    <3>1. /\ src'[p + 1] = "." /\ output' = <<dmemory'[dptr']>>
          /\ memory' = dmemory' /\ input' = dinput'
      BY <1>1, <1>2, <1>3, <1>6, <2>3
    <3> QED
      BY <2>1, <3>1 DEF ReadsNext
  <2> QED
    BY <2>2, <2>3
<1>14. target' = origin[i + 1]
  BY <1>12 DEF n
<1>15. Pursuing'
  BY <1>13 DEF Pursuing
<1> QED
  BY <1>3, <1>5, <1>12, <1>14, <1>15, StepTo

\* The machine leaves the tape alone, and the interpreter goes through a bracket.
LEMMA JumpTo ==
  ASSUME Done, Sound, pc \in Nat, pc < Len(bitcode), Met, MachineStep,
         ptr' = ptr, memory' = memory, input' = input, output' = <<>>, status' = "running",
         pc' \in Int,
         NEW p \in 0 .. Len(src) - 1, NEW q \in 1 .. Len(src), Blank(src, c, p), Lands(p, q),
         NEW j \in DOMAIN bitcode, First(origin, j), pc' + 1 = j,
         target' = origin[j], Blank(src, q, origin[j]), origin[j] \notin c + 1 .. p
  PROVE  turn' = "direct" /\ Following' /\ pc' \in Nat /\ pc' < Len(bitcode)
<1> DEFINE n == origin[j]
<1>1. /\ ptr = dptr /\ memory = dmemory /\ input = dinput /\ ptr \in Address
  BY MetFacts
<1>2. /\ said' = <<>> /\ UNCHANGED <<src, bitcode, origin>>
      /\ UNCHANGED <<mode, c, dstack, dptr, dmemory, dinput, doutput>>
  BY MachineFrame
<1>3. src \in Seq(Char) /\ n \in Nat
  BY DoneFacts
<1> HIDE DEF n
<1>4. q <= n /\ All(src, Moves \cup {"#"}, q, n)
  BY DEF Blank, All, n
<1>5. Net(src, ">", "<", q + 1 .. n) = 0
  <2> DEFINE I == q + 1 .. n
  <2>1. \A k \in I \cap DOMAIN src : src[k] # ">" /\ src[k] # "<"
    BY DEF Blank, n
  <2> HIDE DEF I
  <2>2. Net(src, ">", "<", I) = 0
    BY <1>3, <2>1, NetOfOthers
  <2> QED
    BY <2>2 DEF I
<1>6. target' = n /\ n \notin c + 1 .. p
  BY DEF n
<1>7. ptr = (ptr + 0) % MemSize
  <2>1. ptr \in Int /\ ptr % MemSize = ptr
    BY <1>1, CellFacts
  <2> QED
    BY <2>1
<1>8. MovesTo(q)'
  <2>1. q <= target' /\ All(src', Moves \cup {"#"}, q, target')
    BY <1>2, <1>4, <1>6
  <2>2. memory' = dmemory' /\ input' = dinput' /\ output' = said'
    BY <1>1, <1>2
  <2>3. Net(src', ">", "<", q + 1 .. target') = 0
    BY <1>2, <1>5, <1>6
  <2>4. ptr' = (dptr' + 0) % MemSize
    BY <1>1, <1>2, <1>7
  <2> QED
    BY <2>1, <2>2, <2>3, <2>4 DEF MovesTo
<1>9. Lands(p, q)'
  BY <1>2 DEF Lands, Home
<1>10. Jumps'
  <2>1. p \in 0 .. Len(src') - 1 /\ q \in 1 .. Len(src') /\ Blank(src', c', p) /\ target' \notin c' + 1 .. p
    BY <1>2, <1>6
  <2> QED
    BY <1>8, <1>9, <2>1 DEF Jumps
<1>11. Pursuing'
  BY <1>10 DEF Pursuing
<1> QED
  BY <1>11, StepTo

\* Where a piece of one bracket begins and ends.
LEMMA BracketHere ==
  ASSUME Done, NEW j \in DOMAIN bitcode, bitcode[j].op \in {"JE", "JN"}, First(origin, j)
  PROVE  /\ j + 1 \in DOMAIN bitcode /\ First(origin, j + 1)
         /\ origin[j] \in 0 .. Len(src) - 1 /\ origin[j] \in Nat /\ Len(src) \in Nat
         /\ src[origin[j] + 1] = (IF bitcode[j].op = "JE" THEN "[" ELSE "]")
         /\ Blank(src, origin[j] + 1, origin[j + 1]) /\ origin[j + 1] \in Nat
<1>1. /\ j + 1 \in DOMAIN bitcode /\ First(origin, j + 1)
      /\ \E e \in 0 .. Len(src) : Plain(src, bitcode[j], origin[j], e) /\ origin[j] < e
                                  /\ Blank(src, e, origin[j + 1])
  BY PlainHere
<1>2. PICK e \in 0 .. Len(src) : Plain(src, bitcode[j], origin[j], e) /\ origin[j] < e
                                  /\ Blank(src, e, origin[j + 1])
  BY <1>1
<1>3. e = origin[j] + 1 /\ src[e] = (IF bitcode[j].op = "JE" THEN "[" ELSE "]")
  BY <1>2 DEF Plain
<1>4. origin[j] \in Nat /\ Len(src) \in Nat /\ origin[j + 1] \in Nat
  BY <1>1, DoneFacts
<1> HIDE DEF First
<1>5. origin[j] \in 0 .. Len(src) - 1
  <2> DEFINE p == origin[j]
  <2>1. p \in Nat /\ e = p + 1
    BY <1>3, <1>4
  <2> HIDE DEF p
  <2>2. p \in 0 .. Len(src) - 1
    BY <1>4, <2>1
  <2> QED
    BY <2>2 DEF p
<1> QED
  BY <1>1, <1>2, <1>3, <1>4, <1>5

\* The '[' of a loop.
LEMMA MetOpens ==
  ASSUME Done, Sound, pc \in Nat, pc < Len(bitcode), Met, MachineStep,
         bitcode[pc + 1].op = "JE"
  PROVE  turn' = "direct" /\ Following' /\ pc' \in Nat /\ pc' < Len(bitcode)
<1> DEFINE i == pc + 1
           j == i + bitcode[i].off
           p == origin[i]
           q == origin[j] + 1
<1>1. /\ i \in DOMAIN bitcode /\ bitcode[i] \in Instruction /\ First(origin, i)
      /\ ptr = dptr /\ memory = dmemory /\ Blank(src, c, p)
  BY MetFacts
<1>2. target' = origin[pc' + 1]
  BY MachineFrame
<1>3. /\ status' = "running" /\ ptr' = ptr /\ memory' = memory /\ input' = input /\ output' = <<>>
      /\ pc' = (IF Home = 0 THEN pc + bitcode[i].off ELSE pc) + 1
  BY <1>1 DEF MachineStep, M!Step, M!A, M!S, M!MUL, M!F, M!M, M!JE, M!JN, M!IO, M!Stop, M!Executes,
     M!Continue, M!NoIO, M!At, M!Current, Home
<1>4. bitcode[i].off \in Int
  BY <1>1 DEF Instruction
<1> HIDE DEF i
<1>5. bitcode[i].op \in {"JE", "JN"} /\ bitcode[i].op = "JE"
  BY DEF i
<1>6. /\ j \in DOMAIN bitcode /\ bitcode[j].op \in {"JE", "JN"} /\ First(origin, j)
      /\ Partners(src, p + 1, q)
  BY <1>1, <1>5, JumpsHere
<1>7. /\ i + 1 \in DOMAIN bitcode /\ First(origin, i + 1)
      /\ p \in 0 .. Len(src) - 1 /\ Len(src) \in Nat /\ src[p + 1] = "["
      /\ Blank(src, p + 1, origin[i + 1]) /\ origin[i + 1] \in Nat
  BY <1>1, <1>5, BracketHere
<1> HIDE DEF j
<1>8. /\ j + 1 \in DOMAIN bitcode /\ First(origin, j + 1)
      /\ origin[j] \in 0 .. Len(src) - 1 /\ Blank(src, q, origin[j + 1]) /\ origin[j + 1] \in Nat
  BY <1>6, BracketHere
<1>9. p + 1 < q /\ q \in 1 .. Len(src) /\ p + 1 \in 1 .. Len(src) /\ q \in Nat
  <2>1. q \in 1 .. Len(src) /\ q \in Nat
    <3> DEFINE o == origin[j]
    <3>1. o \in 0 .. Len(src) - 1
      BY <1>8
    <3> HIDE DEF o
    <3>2. o + 1 \in 1 .. Len(src) /\ o + 1 \in Nat
      BY <1>7, <3>1
    <3> QED
      BY <3>2 DEF o
  <2> HIDE DEF p, q
  <2> QED
    BY <1>6, <1>7, <2>1 DEF Partners
<1>10. c \in Int
  BY DirectTypes
<1> HIDE DEF p, q
<1>11. CASE Home = 0
  <2>1. pc' + 1 = j + 1 /\ pc' \in Int /\ target' = origin[j + 1]
    BY <1>2, <1>3, <1>4, <1>11 DEF i, j
  <2>2. Lands(p, q)
    BY <1>6, <1>7, <1>11 DEF Lands
  <2>3. origin[j + 1] \notin c + 1 .. p
    <3>1. q <= origin[j + 1]
      BY <1>8 DEF Blank
    <3> QED
      BY <1>7, <1>8, <1>9, <1>10, <3>1
  <2> QED
    BY <1>1, <1>3, <1>7, <1>8, <1>9, <2>1, <2>2, <2>3, JumpTo
<1>12. CASE Home # 0
  <2>1. pc' + 1 = i + 1 /\ pc' \in Int /\ target' = origin[i + 1]
    BY <1>2, <1>3, <1>4, <1>12 DEF i
  <2>2. Lands(p, p + 1)
    BY <1>7, <1>12 DEF Lands
  <2>3. origin[i + 1] \notin c + 1 .. p
    <3>1. p + 1 <= origin[i + 1]
      BY <1>7 DEF Blank
    <3> QED
      BY <1>7, <1>9, <1>10, <3>1
  <2> QED
    BY <1>1, <1>3, <1>7, <1>9, <2>1, <2>2, <2>3, JumpTo
<1> QED
  BY <1>11, <1>12

\* The ']' of a loop.
LEMMA MetCloses ==
  ASSUME Done, Sound, pc \in Nat, pc < Len(bitcode), Met, MachineStep,
         bitcode[pc + 1].op = "JN"
  PROVE  turn' = "direct" /\ Following' /\ pc' \in Nat /\ pc' < Len(bitcode)
<1> DEFINE i == pc + 1
           j == i + bitcode[i].off
           p == origin[i]
           q == origin[j] + 1
<1>1. /\ i \in DOMAIN bitcode /\ bitcode[i] \in Instruction /\ First(origin, i)
      /\ ptr = dptr /\ memory = dmemory /\ Blank(src, c, p)
  BY MetFacts
<1>2. target' = origin[pc' + 1]
  BY MachineFrame
<1>3. /\ status' = "running" /\ ptr' = ptr /\ memory' = memory /\ input' = input /\ output' = <<>>
      /\ pc' = (IF Home # 0 THEN pc + bitcode[i].off ELSE pc) + 1
  BY <1>1 DEF MachineStep, M!Step, M!A, M!S, M!MUL, M!F, M!M, M!JE, M!JN, M!IO, M!Stop, M!Executes,
     M!Continue, M!NoIO, M!At, M!Current, Home
<1>4. bitcode[i].off \in Int
  BY <1>1 DEF Instruction
<1>13. i # 1 => c = p
  BY DEF Met, AtPiece, ScanEnd
<1> HIDE DEF i
<1>5. bitcode[i].op \in {"JE", "JN"} /\ bitcode[i].op = "JN"
  BY DEF i
<1>6. /\ j \in DOMAIN bitcode /\ bitcode[j].op \in {"JE", "JN"} /\ First(origin, j)
      /\ Partners(src, q, p + 1) /\ i # 1
  BY <1>1, <1>5, JumpsHere
<1>7. /\ i + 1 \in DOMAIN bitcode /\ First(origin, i + 1)
      /\ p \in 0 .. Len(src) - 1 /\ Len(src) \in Nat /\ src[p + 1] = "]"
      /\ Blank(src, p + 1, origin[i + 1]) /\ origin[i + 1] \in Nat
  BY <1>1, <1>5, BracketHere
<1> HIDE DEF j
<1>8. /\ j + 1 \in DOMAIN bitcode /\ First(origin, j + 1)
      /\ origin[j] \in 0 .. Len(src) - 1 /\ Blank(src, q, origin[j + 1]) /\ origin[j + 1] \in Nat
  BY <1>6, BracketHere
<1>9. q \in 1 .. Len(src) /\ p + 1 \in 1 .. Len(src) /\ q \in Nat
  <2>1. q \in 1 .. Len(src) /\ q \in Nat
    <3> DEFINE o == origin[j]
    <3>1. o \in 0 .. Len(src) - 1
      BY <1>8
    <3> HIDE DEF o
    <3>2. o + 1 \in 1 .. Len(src) /\ o + 1 \in Nat
      BY <1>7, <3>1
    <3> QED
      BY <3>2 DEF o
  <2> HIDE DEF p, q
  <2> QED
    BY <1>7, <2>1
<1>10. \A x : x \notin c + 1 .. p
  BY <1>6, <1>7, <1>13
<1> HIDE DEF p, q
<1>11. CASE Home # 0
  <2>1. pc' + 1 = j + 1 /\ pc' \in Int /\ target' = origin[j + 1]
    BY <1>2, <1>3, <1>4, <1>11 DEF i, j
  <2>2. Lands(p, q)
    BY <1>6, <1>7, <1>11 DEF Lands
  <2> QED
    BY <1>1, <1>3, <1>7, <1>8, <1>9, <1>10, <2>1, <2>2, JumpTo
<1>12. CASE Home = 0
  <2>1. pc' + 1 = i + 1 /\ pc' \in Int /\ target' = origin[i + 1]
    BY <1>2, <1>3, <1>4, <1>12 DEF i
  <2>2. Lands(p, p + 1)
    BY <1>7, <1>12 DEF Lands
  <2> QED
    BY <1>1, <1>3, <1>7, <1>9, <1>10, <2>1, <2>2, JumpTo
<1> QED
  BY <1>11, <1>12

\* The interpreter's search for the ']' finds the end of the loop.
LEMMA ScanMeets ==
  ASSUME Sound, mode = "running", NEW p \in Nat, NEW e \in Nat, LoopAt(src, p, e)
  PROVE  D!MatchingClose(src, p + 1) = e
<1> DEFINE k == p + 1
           m == D!MatchingClose(src, k)
<1>1. src \in Seq(Char) /\ Len(src) \in Nat /\ Balanced(src)
  BY DirectTypes
<1>2. k \in 1 .. Len(src) /\ src[k] = "[" /\ k \in Nat
  BY <1>1 DEF LoopAt
<1>3. Partners(src, k, e)
  BY <1>1, LoopPartners
<1> HIDE DEF k
<1>4. m \in k + 1 .. Len(src) /\ Partners(src, k, m)
  BY <1>2 DEF Sound
<1>5. m \in Nat
  BY <1>2, <1>4
<1> HIDE DEF m
<1>6. m = e
  BY <1>1, <1>2, <1>3, <1>4, <1>5, OnePartner
<1> QED
  BY <1>6 DEF k, m

\* Only one end belongs to the beginning of a loop.
LEMMA OneEnd ==
  ASSUME src \in Seq(Char), NEW p \in Nat, NEW e \in Nat, NEW d \in Nat,
         LoopAt(src, p, e), LoopAt(src, p, d)
  PROVE  d = e
<1>1. p + 1 \in Nat /\ Partners(src, p + 1, e) /\ Partners(src, p + 1, d)
  BY LoopPartners
<1> DEFINE k == p + 1
<1>2. k \in Nat /\ Partners(src, k, e) /\ Partners(src, k, d)
  BY <1>1
<1> HIDE DEF k
<1> QED
  BY <1>2, OnePartner

\* The interpreter is before the bracket that leads to the target.
LEMMA JumpsOn ==
  ASSUME UNCHANGED <<src, c, dptr, dmemory>>,
         NEW p \in 0 .. Len(src) - 1, NEW q \in 1 .. Len(src), Blank(src, c, p), Lands(p, q),
         target' \notin c + 1 .. p, q <= target', All(src, Moves \cup {"#"}, q, target'),
         memory' = dmemory', input' = dinput', output' = said',
         ptr' = (dptr + Net(src, ">", "<", q + 1 .. target')) % MemSize
  PROVE  Jumps'
<1>1. MovesTo(q)'
  BY DEF MovesTo
<1>2. Lands(p, q)'
  BY DEF Lands, Home
<1>3. p \in 0 .. Len(src') - 1 /\ q \in 1 .. Len(src') /\ Blank(src', c', p) /\ target' \notin c' + 1 .. p
  OBVIOUS
<1> QED
  BY <1>1, <1>2, <1>3 DEF Jumps

\* A loop that moves on until it finds a zero.
LEMMA MetScans ==
  ASSUME Done, Sound, mode = "running", pc \in Nat, pc < Len(bitcode), Met, MachineStep,
         bitcode[pc + 1].op = "F"
  PROVE  turn' = "direct" /\ Following' /\ pc' \in Nat /\ pc' < Len(bitcode)
<1> DEFINE i == pc + 1
           in == bitcode[i]
           p == origin[i]
           n == origin[i + 1]
<1>1. /\ i \in DOMAIN bitcode /\ in \in Instruction /\ First(origin, i)
      /\ ptr = dptr /\ memory = dmemory /\ input = dinput /\ ptr \in Address
  BY MetFacts
<1>2. /\ said' = <<>> /\ UNCHANGED <<src, bitcode, origin>>
      /\ UNCHANGED <<mode, c, dstack, dptr, dmemory, dinput, doutput>>
  BY MachineFrame
<1>3. /\ status' = "running" /\ memory' = memory /\ input' = input /\ output' = <<>>
      /\ Home = 0 => pc' = pc + 1 /\ ptr' = ptr /\ target' = origin[pc' + 1]
      /\ Home # 0 => pc' = pc /\ ptr' = M!WrapOffset(ptr, in.off, MemSize)
                     /\ target' = D!MatchingClose(src, p + 1) - 1
  <2>1. /\ status' = "running" /\ memory' = memory /\ input' = input /\ output' = <<>>
        /\ IF Home = 0 THEN pc' = pc + 1 /\ UNCHANGED ptr
                       ELSE ptr' = M!WrapOffset(ptr, in.off, MemSize) /\ UNCHANGED pc
    BY <1>1 DEF MachineStep, M!Step, M!A, M!S, M!MUL, M!F, M!M, M!JE, M!JN, M!IO, M!Stop, M!Executes,
       M!Continue, M!NoIO, M!At, M!Current, Home
  <2>2. target' = IF Home # 0 THEN D!MatchingClose(src, p + 1) - 1 ELSE origin[pc' + 1]
    BY <1>1 DEF MachineStep, InScan, Home
  <2> QED
    BY <2>1, <2>2
<1>4. /\ src \in Seq(Char) /\ Len(src) \in Nat /\ p \in Nat /\ c \in Int
      /\ \A j \in DOMAIN bitcode : origin[j] \in Nat
  BY <1>1, DirectTypes, DoneFacts
<1>5. PICK e \in 0 .. Len(src) : /\ Plain(src, in, p, e) /\ p < e /\ Blank(src, e, n)
                                 /\ i + 1 \in DOMAIN bitcode /\ First(origin, i + 1)
  <2>1. bitcode[i].op \notin {"MUL", "H"}
    OBVIOUS
  <2> HIDE DEF i
  <2> QED
    BY <1>1, <2>1, PlainHere
<1>6. LoopAt(src, p, e) /\ All(src, Moves, p + 1, e - 1) /\ in.off = Net(src, ">", "<", p + 2 .. e - 1)
      /\ in.op = "F"
  BY <1>5 DEF Plain
<1>7. Blank(src, c, p) \/ c = e - 1
  <2>1. CASE c = p \/ (i = 1 /\ Blank(src, c, origin[1]))
    <3>1. Blank(src, p, p)
      BY <1>4 DEF Blank
    <3> QED
      BY <2>1, <3>1
  <2>2. CASE \E d \in ScanEnd(i) : c = d - 1
    <3>1. PICK d \in 1 .. Len(src) : Plain(src, in, p, d) /\ c = d - 1
      BY <2>2 DEF ScanEnd
    <3>2. LoopAt(src, p, d)
      BY <1>6, <3>1 DEF Plain
    <3> HIDE DEF p, in, i
    <3>3. d \in Nat /\ e \in Nat
      BY <1>4
    <3>4. d = e
      BY <1>4, <1>6, <3>2, <3>3, OneEnd
    <3> QED
      BY <3>1, <3>4
  <2> QED
    BY <2>1, <2>2 DEF Met, AtPiece
<1>8. e \in ScanEnd(i) /\ e \in Nat /\ e \in 1 .. Len(src)
  <2>1. e \in 1 .. Len(src) /\ e \in Nat
    <3> HIDE DEF p, in, i, n
    <3> QED
      BY <1>4, <1>5
  <2> QED
    BY <1>5, <1>6, <2>1 DEF ScanEnd
<1> HIDE DEF in, p, n, i
<1>9. /\ p + 1 \in 1 .. Len(src) /\ p \in 0 .. Len(src) - 1 /\ e - 1 \in 0 .. Len(src) - 1
      /\ p + 1 < e /\ p + 1 <= e - 1 /\ src[p + 1] = "[" /\ src[e] = "]" /\ (e - 1) + 1 = e
  <2>1. p + 2 <= e /\ src[p + 1] = "[" /\ src[e] = "]"
    BY <1>6 DEF LoopAt
  <2> QED
    BY <1>4, <1>8, <2>1
<1>10. Partners(src, p + 1, e)
  BY <1>4, <1>6, <1>8, LoopPartners
<1>11. CASE Home = 0
  <2>1. pc' + 1 = i + 1 /\ pc' \in Int /\ target' = origin[i + 1] /\ ptr' = ptr
    BY <1>3, <1>11 DEF i
  <2>2. Blank(src, e, origin[i + 1]) /\ e <= origin[i + 1]
    BY <1>5 DEF n, Blank
  <2>3. CASE Blank(src, c, p)
    <3>1. Lands(p, e)
      BY <1>9, <1>10, <1>11 DEF Lands
    <3>2. origin[i + 1] \notin c + 1 .. p
      <4>1. origin[i + 1] \in Nat
        BY <1>4, <1>5
      <4> QED
        BY <1>4, <1>8, <1>9, <2>2, <4>1
    <3> QED
      BY <1>3, <1>5, <1>8, <1>9, <2>1, <2>2, <2>3, <3>1, <3>2, JumpTo
  <2>4. CASE c = e - 1
    <3> DEFINE b == e - 1
    <3>1. Lands(b, e)
      BY <1>9, <1>11 DEF Lands
    <3>2. b \in 0 .. Len(src) - 1 /\ Blank(src, c, b) /\ origin[i + 1] \notin c + 1 .. b
      BY <1>4, <1>9, <2>4, SMTT(30) DEF Blank
    <3> HIDE DEF b
    <3> QED
      BY <1>3, <1>5, <1>8, <1>9, <2>1, <2>2, <2>4, <3>1, <3>2, JumpTo
  <2> QED
    BY <1>7, <2>3, <2>4
<1>12. CASE Home # 0
  <2> DEFINE N == Net(src, ">", "<", (p + 1) + 1 .. e - 1)
             q == p + 1
  <2>1. pc' = pc /\ ptr' = M!WrapOffset(ptr, in.off, MemSize) /\ target' = e - 1
    <3>1. D!MatchingClose(src, p + 1) = e
      BY <1>4, <1>6, <1>8, ScanMeets
    <3> QED
      BY <1>3, <1>12, <3>1
  <2>2. N \in Int /\ in.off = N
    <3>1. (p + 1) + 1 = p + 2
      BY <1>4
    <3>2. in.off = N
      BY <1>6, <3>1
    <3>3. N \in Int
      BY <1>4, NetType
    <3> QED
      BY <3>2, <3>3
  <2>3. ptr' = (ptr + N) % MemSize
    <3> HIDE DEF N
    <3> QED
      BY <1>1, <2>1, <2>2, Wraps
  <2>4. /\ q <= target' /\ All(src, Moves \cup {"#"}, q, target') /\ q \in 1 .. Len(src)
        /\ ptr' = (dptr + Net(src, ">", "<", q + 1 .. target')) % MemSize
        /\ memory' = dmemory' /\ input' = dinput' /\ output' = said'
    <3>1. q <= target' /\ Net(src, ">", "<", q + 1 .. target') = N /\ q \in 1 .. Len(src)
      BY <1>9, <2>1
    <3>2. All(src, Moves \cup {"#"}, q, target')
      BY <1>6, <2>1 DEF All
    <3>3. memory' = dmemory' /\ input' = dinput' /\ output' = said'
      BY <1>1, <1>2, <1>3
    <3> HIDE DEF N, q
    <3> QED
      BY <1>1, <2>3, <3>1, <3>2, <3>3
  <2> HIDE DEF N
  <2>6. Jumps'
    <3>1. CASE Blank(src, c, p)
      <4>1. Lands(p, q)
        BY <1>9, <1>12 DEF Lands
      <4>2. p \in 0 .. Len(src) - 1 /\ Blank(src, c, p) /\ target' \notin c + 1 .. p
        BY <1>4, <1>8, <1>9, <2>1, <3>1
      <4> HIDE DEF q
      <4> QED
        BY <1>2, <2>4, <4>1, <4>2, JumpsOn
    <3>2. CASE c = e - 1
      <4> DEFINE b == e - 1
      <4>1. Lands(b, q)
        BY <1>9, <1>10, <1>12 DEF Lands
      <4>2. b \in 0 .. Len(src) - 1 /\ Blank(src, c, b) /\ target' \notin c + 1 .. b
        BY <1>4, <1>9, <3>2, SMTT(30) DEF Blank
      <4> HIDE DEF q, b
      <4> QED
        BY <1>2, <2>4, <4>1, <4>2, JumpsOn
    <3> QED
      BY <1>7, <3>1, <3>2
  <2>7. Pursuing'
    BY <2>6 DEF Pursuing
  <2>8. pc' + 1 = i /\ pc' \in Int
    BY <2>1 DEF i
  <2> QED
    BY <1>1, <1>3, <1>8, <2>1, <2>7, <2>8, StepTo
<1> QED
  BY <1>11, <1>12

\* The end of the program.
LEMMA MetHalts ==
  ASSUME Done, Sound, pc \in Nat, pc < Len(bitcode), Met, MachineStep,
         bitcode[pc + 1].op = "H"
  PROVE  turn' = "direct" /\ Ending' /\ pc' \in Nat /\ pc' < Len(bitcode)
<1> DEFINE i == pc + 1
           p == origin[i]
<1>1. /\ i \in DOMAIN bitcode /\ First(origin, i)
      /\ ptr = dptr /\ memory = dmemory /\ input = dinput
      /\ Blank(src, c, p)
  BY MetFacts
<1>2. /\ said' = <<>> /\ UNCHANGED <<src, bitcode, origin>>
      /\ UNCHANGED <<mode, c, dstack, dptr, dmemory, dinput, doutput>>
      /\ turn' = IF status' = "running" /\ ~Boundary(pc') THEN "machine" ELSE "direct"
  BY MachineFrame
<1>3. pc' = pc /\ status' = "halted" /\ ptr' = ptr /\ memory' = memory /\ input' = input /\ output' = <<>>
  BY DEF MachineStep, M!Step, M!A, M!S, M!MUL, M!F, M!M, M!JE, M!JN, M!IO, M!Stop, M!Executes,
     M!Continue, M!NoIO, M!At, M!Current
<1>4. p = Len(src)
  <2>1. PieceInv(src, bitcode, origin, Len(src))
    BY DoneFacts
  <2>2. \E e \in 0 .. Len(src), w \in 1 .. Len(bitcode) - i + 1 : Piece(src, bitcode, origin, i, e, w)
    BY <1>1, <2>1 DEF PieceInv
  <2>3. PICK e \in 0 .. Len(src), w \in 1 .. Len(bitcode) - i + 1 : Piece(src, bitcode, origin, i, e, w)
    BY <2>2
  <2>4. ~Plain(src, bitcode[i], p, e)
    BY DEF Plain
  <2>5. ~Group(src, bitcode, origin, i, e, w)
    <3>1. src \in Seq(Char) /\ i \in Nat /\ e \in Nat /\ origin[i] \in Nat
      BY <1>1, DoneFacts
    <3>2. Group(src, bitcode, origin, i, e, w) => bitcode[i].op = "MUL"
      <4> HIDE DEF i
      <4>1. Group(src, bitcode, origin, i, e, w)
              => MulPiece(src, bitcode, origin, i, e, w, BodyOf(src, origin[i], e))
        BY <3>1, FirstOfGroup
      <4> QED
        BY <4>1 DEF MulPiece
    <3> QED
      BY <3>2
  <2> QED
    BY <2>3, <2>4, <2>5 DEF Piece
<1>5. Ending'
  BY <1>1, <1>2, <1>3, <1>4 DEF Ending, Agree
<1> QED
  BY <1>2, <1>3, <1>5

\* No MUL of the loop writes the cell the loop counts down.
LEMMA HomeIsKept ==
  ASSUME Done, HomeUntouched, NEW f \in DOMAIN bitcode, NEW e \in Nat, NEW w, NEW t,
         MulPiece(src, bitcode, origin, f, e, w, t), f + w \in DOMAIN bitcode
  PROVE  HomeKept(t)
<1>1. MulText(t) /\ w = Pairs(t) + 1 /\ Pairs(t) \in Nat
      /\ \A k \in 1 .. Pairs(t) : bitcode[f + k - 1] = Instr("MUL", MulFactor(t, k), MulOffset(t, k))
  BY DEF MulPiece
<1>2. DOMAIN bitcode = 1 .. Len(bitcode) /\ Len(bitcode) \in Nat
  BY DoneFacts
<1> SUFFICES ASSUME NEW z \in PairEnds(t) PROVE Shift(t, z) % MemSize # 0
  BY DEF HomeKept
<1>3. PICK k \in 1 .. Pairs(t) : z = Nth(PairEnds(t), k)
  BY <1>1, PairIsNth
<1> DEFINE P == Pairs(t)
           a == f + k - 1
<1>4. a \in DOMAIN bitcode /\ bitcode[a] = Instr("MUL", MulFactor(t, k), MulOffset(t, k))
  <2>1. bitcode[a] = Instr("MUL", MulFactor(t, k), MulOffset(t, k))
    BY <1>1
  <2>2. P \in Nat /\ w = P + 1 /\ k \in 1 .. P
    BY <1>1
  <2> HIDE DEF P
  <2>3. a \in DOMAIN bitcode
    BY <1>2, <2>2
  <2> QED
    BY <2>1, <2>3
<1> HIDE DEF a
<1>5. bitcode[a].op = "MUL" /\ bitcode[a].off = MulOffset(t, k)
  BY <1>4 DEF Instr
<1>6. MulOffset(t, k) % MemSize # 0
  BY <1>4, <1>5 DEF HomeUntouched
<1> QED
  BY <1>3, <1>6 DEF MulOffset, Shift

\* The interpreter is still before the loop whose work the machine has done.
LEMMA MultipliesFirst ==
  ASSUME UNCHANGED <<src, c, dptr, dmemory, dinput>>, ptr' = dptr, dptr \in Address,
         input' = dinput, output' = said', memory' \in [Address -> Cell],
         NEW p \in 0 .. Len(src), NEW e \in 0 .. Len(src), LoopAt(src, p, e),
         NEW t, t = BodyOf(src, p, e), MulText(t), HomeKept(t),
         Blank(src, c, p), Blank(src, e, target'),
         MulLeft(t, dptr, dmemory, memory', Len(t))
  PROVE  Multiplies'
<1>1. /\ p \in 0 .. Len(src') /\ e \in 0 .. Len(src') /\ LoopAt(src', p, e) /\ t = BodyOf(src', p, e)
      /\ Blank(src', c', p) /\ Blank(src', e, target')
      /\ MulLeft(t, ptr', dmemory', memory', Len(t))
      /\ ptr' \in Address /\ ptr' = dptr' /\ input' = dinput' /\ output' = said'
  OBVIOUS
<1> QED
  BY <1>1 DEF Multiplies

\* One instruction of a multiplying loop.
LEMMA GroupSteps ==
  ASSUME Done, Sound, HomeUntouched, pc \in Nat, pc < Len(bitcode), MachineStep,
         NEW f \in DOMAIN bitcode, NEW e \in 0 .. Len(src), NEW k \in Nat, InGroup(f, e, k)
  PROVE  \/ turn' = "machine" /\ InGroup(f, e, k + 1)' /\ pc' \in Nat /\ pc' < Len(bitcode) /\ ~Boundary(pc')
         \/ turn' = "direct" /\ Following' /\ pc' \in Nat /\ pc' < Len(bitcode)
<1> DEFINE t == BodyOf(src, origin[f], e)
           P == Pairs(t)
           w == P + 1
           p == origin[f]
<1>1. /\ MulPiece(src, bitcode, origin, f, e, w, t)
      /\ f + w \in DOMAIN bitcode /\ First(origin, f + w) /\ Blank(src, e, origin[f + w])
      /\ pc + 1 = f + k /\ k <= P
      /\ Blank(src, c, p)
      /\ status = "running" /\ ptr = dptr /\ input = dinput
      /\ memory \in [Address -> Cell]
      /\ Multiplied(t, ptr, dmemory, memory, k)
  BY DEF InGroup
<1>2. /\ said' = <<>> /\ UNCHANGED <<src, bitcode, origin>>
      /\ UNCHANGED <<mode, c, dstack, dptr, dmemory, dinput, doutput>>
      /\ bitcode[pc + 1].op # "F" => target' = origin[pc' + 1]
      /\ turn' = IF status' = "running" /\ ~Boundary(pc') THEN "machine" ELSE "direct"
  BY MachineFrame
<1>11. ptr = dptr
  BY <1>1
<1> HIDE DEF t
<1>3. /\ dptr \in Address /\ dmemory \in [Address -> Cell] /\ ptr \in Address
      /\ DOMAIN bitcode = 1 .. Len(bitcode) /\ Len(bitcode) \in Nat /\ f \in Nat
      /\ p \in Nat /\ p <= Len(src) /\ e \in Nat
  <2>1. dptr \in Address /\ dmemory \in [Address -> Cell] /\ ptr \in Address
    BY <1>11, DirectTypes
  <2>2. DOMAIN bitcode = 1 .. Len(bitcode) /\ Len(bitcode) \in Nat /\ Len(src) \in Nat
    BY DoneFacts
  <2>3. p \in Nat /\ p <= Len(src)
    BY DoneFacts
  <2> HIDE DEF p
  <2> QED
    BY <2>1, <2>2, <2>3
<1> HIDE DEF p
<1>4. /\ P \in Nat /\ MulText(t) /\ LoopAt(src, p, e)
      /\ \A n \in 1 .. P : bitcode[f + n - 1] = Instr("MUL", MulFactor(t, n), MulOffset(t, n))
      /\ bitcode[f + P] = Instr("S", 0, 0)
      /\ \A n \in 0 .. P : origin[f + n] = p
  BY <1>1 DEF MulPiece, p
<1> HIDE DEF P
<1>5. HomeKept(t)
  <2> HIDE DEF w
  <2> QED
    BY <1>1, <1>3, HomeIsKept
<1>6. CASE k < P
  <2> DEFINE off == MulOffset(t, k + 1)
             imm == MulFactor(t, k + 1)
             x == (ptr + off) % MemSize
             n == k + 1
  <2>1. bitcode[pc + 1] = Instr("MUL", imm, off)
    <3>1. n \in 1 .. P /\ f + n - 1 = pc + 1
      BY <1>1, <1>3, <1>4, <1>6
    <3> HIDE DEF n
    <3>2. bitcode[f + n - 1] = Instr("MUL", MulFactor(t, n), MulOffset(t, n))
      BY <1>4, <3>1
    <3> QED
      BY <3>1, <3>2 DEF n
  <2>2. bitcode[pc + 1].op = "MUL" /\ bitcode[pc + 1].imm = imm /\ bitcode[pc + 1].off = off
    BY <2>1 DEF Instr
  <2>3. off \in Int
    <3>1. t \in Seq(Char)
      BY <1>4 DEF MulText
    <3> QED
      BY <3>1, NetType DEF MulOffset
  <2> HIDE DEF off, imm
  <2>4. /\ pc' = pc + 1 /\ status' = "running" /\ ptr' = ptr /\ input' = input
        /\ memory' = [memory EXCEPT ![M!WrapOffset(ptr, off, MemSize)] = (@ + memory[ptr] * imm) % CellMod]
    BY <2>2 DEF MachineStep, M!Step, M!A, M!S, M!MUL, M!F, M!M, M!JE, M!JN, M!IO, M!Stop, M!Executes,
       M!Continue, M!NoIO, M!At, M!Current
  <2>5. memory' = [memory EXCEPT ![x] = (@ + memory[ptr] * imm) % CellMod]
    <3>1. M!WrapOffset(ptr, off, MemSize) = x
      BY <1>3, <2>3, Wraps
    <3> QED
      BY <2>4, <3>1
  <2>6. memory' \in [Address -> Cell] /\ Multiplied(t, ptr, dmemory, memory', k + 1)
    <3>1. n \in 1 .. Pairs(t) /\ n - 1 = k
      BY <1>4, <1>6 DEF P
    <3>2. memory' = [memory EXCEPT ![(ptr + MulOffset(t, n)) % MemSize]
                                     = (@ + memory[ptr] * MulFactor(t, n)) % CellMod]
      BY <2>5 DEF off, imm
    <3>3. Multiplied(t, ptr, dmemory, memory, n - 1)
      BY <1>1, <3>1
    <3> HIDE DEF n
    <3>4. memory' \in [Address -> Cell] /\ Multiplied(t, ptr, dmemory, memory', n)
      BY <1>1, <1>3, <1>4, <1>5, <3>1, <3>2, <3>3, MulStep
    <3> QED
      BY <3>4 DEF n
  <2>7. k + 1 <= P /\ pc' + 1 = f + (k + 1) /\ pc' \in Nat /\ pc' # 0 /\ pc' < Len(bitcode)
    <3>1. f + (P + 1) \in 1 .. Len(bitcode)
      BY <1>1, <1>3
    <3>2. pc + 1 = f + k /\ pc' = pc + 1 /\ P \in Nat /\ k < P /\ f \in Nat /\ Len(bitcode) \in Nat
          /\ f >= 1
      BY <1>1, <1>3, <1>4, <1>6, <2>4
    <3> HIDE DEF w
    <3>3. k + 1 <= P
      BY <3>2
    <3>4. pc' + 1 = f + (k + 1) /\ pc' \in Nat /\ pc' # 0
      BY <3>2
    <3>5. f + (P + 1) <= Len(bitcode)
      BY <3>1, <3>2
    <3>6. pc' < Len(bitcode)
      BY <3>2, <3>3, <3>4, <3>5
    <3> QED
      BY <3>3, <3>4, <3>6
  <2>8. origin[pc' + 1] = origin[pc']
    <3>1. k \in 0 .. P /\ n \in 0 .. P /\ pc' + 1 = f + n /\ pc' = f + k
      BY <1>1, <1>4, <1>6, <2>4, <2>7
    <3> HIDE DEF n
    <3>2. origin[f + n] = p /\ origin[f + k] = p
      BY <1>4, <3>1
    <3> QED
      BY <3>1, <3>2
  <2>9. ~Boundary(pc')
    BY <2>7, <2>8 DEF Boundary
  <2>10. InGroup(f, e, k + 1)'
    <3>1. /\ MulPiece(src', bitcode', origin', f, e, Pairs(t) + 1, t)
          /\ f + (Pairs(t) + 1) \in DOMAIN bitcode' /\ First(origin', f + (Pairs(t) + 1))
          /\ Blank(src', e, origin'[f + (Pairs(t) + 1)])
          /\ pc' + 1 = f + (k + 1) /\ k + 1 <= Pairs(t)
          /\ Blank(src', c', origin'[f])
      BY <1>1, <1>2, <2>7 DEF P, p
    <3>2. /\ status' = "running" /\ ptr' = dptr' /\ input' = dinput'
          /\ memory' \in [Address -> Cell]
          /\ Multiplied(t, ptr', dmemory', memory', k + 1)
      BY <1>1, <1>2, <2>4, <2>6
    <3>3. t = BodyOf(src', origin'[f], e)
      BY <1>2 DEF t
    <3> QED
      BY <3>1, <3>2, <3>3 DEF InGroup
  <2>11. Boundary(pc)' <=> Boundary(pc')
    BY <1>2 DEF Boundary
  <2> QED
    BY <1>2, <2>4, <2>7, <2>9, <2>10
<1>7. CASE k = P
  <2>1. bitcode[pc + 1] = Instr("S", 0, 0)
    BY <1>1, <1>4, <1>7
  <2>2. bitcode[pc + 1].op = "S" /\ bitcode[pc + 1].imm = 0
    BY <2>1 DEF Instr
  <2>3. /\ pc' = pc + 1 /\ status' = "running" /\ ptr' = ptr /\ input' = input /\ output' = <<>>
        /\ memory' = [memory EXCEPT ![ptr] = 0]
    BY <2>2 DEF MachineStep, M!Step, M!A, M!S, M!MUL, M!F, M!M, M!JE, M!JN, M!IO, M!Stop, M!Executes,
       M!Continue, M!NoIO, M!At, M!Current
  <2> DEFINE j == f + w
  <2>4. pc' + 1 = j /\ pc' \in Int
    BY <1>1, <1>3, <1>4, <1>7, <2>3, SMTT(30)
  <2>5. j \in DOMAIN bitcode /\ First(origin, j) /\ Blank(src, e, origin[j])
    BY <1>1
  <2>6. target' = origin[j]
    BY <1>2, <2>2, <2>4
  <2> HIDE DEF j
  <2>7. MulLeft(t, ptr, dmemory, memory', Len(t))
    <3>1. Multiplied(t, ptr, dmemory, memory, Pairs(t))
      BY <1>1, <1>7 DEF P
    <3> QED
      BY <1>1, <1>3, <1>4, <1>5, <2>3, <3>1, MulEnds
  <2>8. memory' \in [Address -> Cell]
    BY <1>1, <2>3, CellFacts
  <2>9. p \in 0 .. Len(src) /\ t = BodyOf(src, p, e)
    <3>1. Len(src) \in Nat
      BY DoneFacts
    <3> QED
      BY <1>3, <3>1 DEF t, p
  <2>10. Multiplies'
    <3>1. UNCHANGED <<src, c, dptr, dmemory, dinput>> /\ ptr' = dptr /\ dptr \in Address
          /\ input' = dinput /\ output' = said'
      BY <1>1, <1>2, <1>3, <2>3
    <3>2. Blank(src, e, target') /\ MulLeft(t, dptr, dmemory, memory', Len(t))
      BY <1>1, <2>5, <2>6, <2>7
    <3> QED
      BY <1>1, <1>4, <1>5, <2>8, <2>9, <3>1, <3>2, MultipliesFirst
  <2>11. Pursuing'
    BY <2>10 DEF Pursuing
  <2> QED
    BY <2>3, <2>4, <2>5, <2>6, <2>11, StepTo
<1>8. k < P \/ k = P
  BY <1>1, <1>4
<1> QED
  BY <1>6, <1>7, <1>8

\* A multiplying loop begins.
LEMMA MetMultiplies ==
  ASSUME Done, Sound, HomeUntouched, pc \in Nat, pc < Len(bitcode), Met,
         bitcode[pc + 1].op = "MUL"
  PROVE  \E f \in DOMAIN bitcode, e \in 0 .. Len(src) : InGroup(f, e, 0)
<1> DEFINE i == pc + 1
<1>1. /\ i \in DOMAIN bitcode /\ First(origin, i) /\ status = "running"
      /\ ptr = dptr /\ memory = dmemory /\ input = dinput
      /\ ptr \in Address /\ memory \in [Address -> Cell]
      /\ Blank(src, c, origin[i])
  BY MetFacts
<1>2. bitcode[i].op = "MUL"
  OBVIOUS
<1>3. src \in Seq(Char) /\ i \in Nat /\ origin[i] \in Nat
  BY <1>1, DoneFacts
<1>6. pc + 1 = i + 0
  OBVIOUS
<1> HIDE DEF i
<1>4. PICK e \in 0 .. Len(src), w \in 1 .. Len(bitcode) - i :
           /\ Piece(src, bitcode, origin, i, e, w) /\ origin[i] < e
           /\ i + w \in DOMAIN bitcode /\ First(origin, i + w)
           /\ Blank(src, e, origin[i + w])
  BY <1>1, <1>2, PieceHere
<1> DEFINE t == BodyOf(src, origin[i], e)
           P == Pairs(t)
<1>5. MulPiece(src, bitcode, origin, i, e, w, t)
  <2>1. ~Plain(src, bitcode[i], origin[i], e) /\ bitcode[i].op # "H"
    BY <1>2 DEF Plain
  <2>2. Group(src, bitcode, origin, i, e, w)
    BY <1>4, <2>1 DEF Piece
  <2>3. e \in Nat
    OBVIOUS
  <2> QED
    BY <1>3, <2>2, <2>3, FirstOfGroup
<1> HIDE DEF t
<1>7. w = P + 1 /\ P \in Nat /\ MulText(t) /\ 0 <= P
  BY <1>5 DEF MulPiece
<1>8. Multiplied(t, ptr, dmemory, memory, 0)
  BY <1>1, <1>7, MulBegins
<1>9. /\ MulPiece(src, bitcode, origin, i, e, Pairs(t) + 1, t)
      /\ i + (Pairs(t) + 1) \in DOMAIN bitcode /\ First(origin, i + (Pairs(t) + 1))
      /\ Blank(src, e, origin[i + (Pairs(t) + 1)])
  BY <1>4, <1>5, <1>7
<1>10. InGroup(i, e, 0)
  BY <1>1, <1>6, <1>7, <1>8, <1>9 DEF InGroup, t
<1> QED
  BY <1>1, <1>10

\* Whatever the machine does, the interpreter then has a way to follow it.
LEMMA MachineMoves ==
  ASSUME Done, Sound, mode = "running", HomeUntouched, pc \in Nat, pc < Len(bitcode),
         MachineStep, Met \/ Middle
  PROVE  /\ pc' \in Nat /\ pc' < Len(bitcode)
         /\ \/ turn' = "machine" /\ ~Boundary(pc') /\ Middle'
            \/ turn' = "direct" /\ (Following' \/ Ending')
<1>1. ASSUME NEW f \in DOMAIN bitcode, NEW e \in 0 .. Len(src), NEW k \in Nat, InGroup(f, e, k)
      PROVE  /\ pc' \in Nat /\ pc' < Len(bitcode)
             /\ \/ turn' = "machine" /\ ~Boundary(pc') /\ Middle'
                \/ turn' = "direct" /\ (Following' \/ Ending')
  <2>1. \/ turn' = "machine" /\ InGroup(f, e, k + 1)' /\ pc' \in Nat /\ pc' < Len(bitcode) /\ ~Boundary(pc')
        \/ turn' = "direct" /\ Following' /\ pc' \in Nat /\ pc' < Len(bitcode)
    BY <1>1, GroupSteps
  <2>2. InGroup(f, e, k + 1)' => Middle'
    <3>1. UNCHANGED <<bitcode, src>>
      BY MachineFrame
    <3>2. k + 1 \in Nat \ {0} /\ f \in DOMAIN bitcode' /\ e \in 0 .. Len(src')
      BY <3>1
    <3> DEFINE n == k + 1
    <3>3. n \in Nat \ {0}
      BY <3>2
    <3> HIDE DEF n
    <3>4. InGroup(f, e, n)' => Middle'
      BY <3>2, <3>3 DEF Middle
    <3> QED
      BY <3>4 DEF n
  <2> QED
    BY <2>1, <2>2
<1>2. CASE Middle
  BY <1>1, <1>2 DEF Middle
<1>3. CASE Met
  <2> DEFINE in == bitcode[pc + 1]
  <2>1. in \in Instruction /\ in.op # "X"
    BY <1>3, MetFacts, DoneFacts
  <2>2. in.op \in {"A", "S", "MUL", "F", "M", "JE", "JN", "IO", "H"}
    BY <2>1 DEF Instruction, Opcode
  <2>3. CASE in.op = "MUL"
    <3>1. \E f \in DOMAIN bitcode, e \in 0 .. Len(src) : InGroup(f, e, 0)
      BY <1>3, <2>3, MetMultiplies
    <3> QED
      BY <1>1, <3>1
  <2>4. CASE in.op \in {"A", "S", "M"}
    BY <1>3, <2>4, MetAdds, MetClears, MetMoves
  <2>5. CASE in.op \in {"JE", "JN", "IO"}
    BY <1>3, <2>5, MetOpens, MetCloses, MetReads
  <2>6. CASE in.op \in {"F", "H"}
    BY <1>3, <2>6, MetScans, MetHalts
  <2> QED
    BY <2>2, <2>3, <2>4, <2>5, <2>6
<1> QED
  BY <1>2, <1>3

-----------------------------------------------------------------------------
(***************************************************************************)
(* A step of the interpreter.                                              *)
(***************************************************************************)

\* It has got where it had to.
Arrived == c = target /\ Agree

\* Either it has, or it still has a way to go.
OnTheWay == Arrived \/ (c # target /\ Pursuing)

\* The last move arrives.
LEMMA MovesEnd == Sound /\ target \in Nat /\ MovesTo(c) => OnTheWay
<1> SUFFICES ASSUME Sound, target \in Nat, MovesTo(c) PROVE OnTheWay
  OBVIOUS
<1>1. src \in Seq(Char) /\ c \in Int /\ dptr \in Address
  BY DirectTypes
<1>2. CASE c = target
  <2> DEFINE I == c + 1 .. target
  <2>1. \A k \in I \cap DOMAIN src : src[k] # ">" /\ src[k] # "<"
    BY <1>1, <1>2
  <2>2. ptr = (dptr + Net(src, ">", "<", I)) % MemSize
    BY DEF MovesTo
  <2> HIDE DEF I
  <2>3. Net(src, ">", "<", I) = 0
    BY <1>1, <2>1, NetOfOthers
  <2>4. ptr = dptr
    <3>1. dptr % MemSize = dptr /\ dptr + 0 = dptr
      BY <1>1, CellFacts
    <3> QED
      BY <2>2, <2>3, <3>1
  <2> QED
    BY <1>2, <2>4 DEF MovesTo, Agree, OnTheWay, Arrived
<1>3. CASE c # target
  <2>1. c < target
    BY <1>1, <1>3 DEF MovesTo
  <2> QED
    BY <1>3, <2>1 DEF OnTheWay, Pursuing
<1> QED
  BY <1>2, <1>3

\* Only comments are left.
LEMMA BlankLeft ==
  Sound /\ target \in Nat /\ Agree /\ Blank(src, c, target) => OnTheWay
<1> SUFFICES ASSUME Sound, target \in Nat, Agree, Blank(src, c, target) PROVE OnTheWay
  OBVIOUS
<1>1. src \in Seq(Char) /\ c \in Int /\ dptr \in Address
  BY DirectTypes
<1> DEFINE I == c + 1 .. target
<1>2. \A k \in I \cap DOMAIN src : src[k] # ">" /\ src[k] # "<"
  BY DEF Blank
<1>3. c <= target /\ All(src, Moves \cup {"#"}, c, target)
  BY DEF Blank, All
<1> HIDE DEF I
<1>4. Net(src, ">", "<", I) = 0
  BY <1>1, <1>2, NetOfOthers
<1>5. ptr = (dptr + Net(src, ">", "<", I)) % MemSize
  <2>1. dptr % MemSize = dptr /\ dptr + 0 = dptr
    BY <1>1, CellFacts
  <2> QED
    BY <1>4, <2>1 DEF Agree
<1>6. MovesTo(c)
  BY <1>3, <1>5 DEF MovesTo, Agree, I
<1> QED
  BY <1>6, MovesEnd

\* DirectTypes as an implication, to be primed.
LEMMA DirectTypesOf ==
  Sound =>
    /\ src \in Seq(Char) /\ c \in Nat /\ dptr \in Address /\ dmemory \in [Address -> Cell]
    /\ Home \in Cell /\ dinput \in Seq(Cell) /\ doutput \in Seq(Cell)
  BY DirectTypes

\* What a step of the interpreter leaves alone.
LEMMA DirectFrame ==
  ASSUME Done, Sound, Stepped, said \in Seq(Cell), DirectStep
  PROVE  /\ Sound' /\ mode = "running" /\ turn = "direct"
         /\ UNCHANGED <<src, phase, pos, open, bitcode, stack, origin, target>>
         /\ UNCHANGED <<pc, ptr, memory, input, output, status>>
         /\ said' = said \o doutput' /\ said' \in Seq(Cell)
         /\ doutput' = <<>> => said' = said
         /\ turn' = CASE mode' = "finished"                 -> "over"
                      [] status = "running" /\ c' = target -> "machine"
                      [] OTHER                              -> "direct"
         /\ Obeys \/ Ends
<1>1. /\ turn = "direct" /\ said' = said \o doutput'
      /\ UNCHANGED <<phase, pos, open, bitcode, stack, origin, target, mvars>>
      /\ turn' = CASE mode' = "finished"                 -> "over"
                   [] status = "running" /\ c' = target -> "machine"
                   [] OTHER                              -> "direct"
  BY DEF DirectStep
<1>2. Sound' /\ src' = src /\ mode = "running" /\ (Obeys \/ Ends)
  BY DEF Stepped
<1>3. (Sound =>
         /\ src \in Seq(Char) /\ c \in Nat /\ dptr \in Address /\ dmemory \in [Address -> Cell]
         /\ Home \in Cell /\ dinput \in Seq(Cell) /\ doutput \in Seq(Cell))'
  BY DirectTypesOf, PTL
<1>6. doutput' \in Seq(Cell)
  BY <1>2, <1>3
<1>4. said' \in Seq(Cell)
  BY <1>1, <1>6
<1>5. doutput' = <<>> => said' = said
  BY <1>1
<1> QED
  BY <1>1, <1>2, <1>4, <1>5 DEF mvars

\* The first character of a text and the rest of it.
LEMMA NetNext ==
  ASSUME src \in Seq(Char), NEW up, NEW down, NEW a \in Int, NEW n \in Int, a < n
  PROVE  /\ Net(src, up, down, a + 1 .. n) = Net(src, up, down, {a + 1}) + Net(src, up, down, (a + 1) + 1 .. n)
         /\ Net(src, up, down, {a + 1}) \in Int /\ Net(src, up, down, (a + 1) + 1 .. n) \in Int
<1> DEFINE I == {a + 1}
           J == (a + 1) + 1 .. n
<1>1. a + 1 .. n = I \cup J /\ I \cap J = {}
  OBVIOUS
<1> HIDE DEF I, J
<1>2. Net(src, up, down, I \cup J) = Net(src, up, down, I) + Net(src, up, down, J)
  BY <1>1, NetSplit
<1>3. Net(src, up, down, I) \in Int /\ Net(src, up, down, J) \in Int
  BY NetType
<1> QED
  BY <1>1, <1>2, <1>3 DEF I, J

\* A comment adds nothing.
LEMMA NetOfComment ==
  ASSUME src \in Seq(Char), NEW up, NEW down, up # "#", down # "#", NEW k, src[k] = "#"
  PROVE  Net(src, up, down, {k}) = 0
<1>1. \A i \in {k} \cap DOMAIN src : src[i] # up /\ src[i] # down
  OBVIOUS
<1> QED
  BY <1>1, NetOfOthers

\* A comment.
LEMMA CommentMeans ==
  ASSUME Obeys, src[c + 1] = "#"
  PROVE  c < Len(src) /\ Ignores
  BY DEF Obeys, Adds, Shifts, Reads, Writes, Branches, Arith, Moves

\* Moves that are left.
LEMMA MovingOn ==
  ASSUME Done, Sound, Stepped, said \in Seq(Cell), DirectStep, target \in Nat, Obeys,
         c < target, MovesTo(c)
  PROVE  OnTheWay'
<1>1. src \in Seq(Char) /\ c \in Int /\ c \in Nat /\ dptr \in Address /\ dptr \in Int
  BY DirectTypes
<1>2. Sound' /\ UNCHANGED <<src, target, ptr, memory, input, output>> /\ (doutput' = <<>> => said' = said)
  BY DirectFrame
<1> DEFINE k == c + 1
           one == Net(src, ">", "<", {c + 1})
           rest == Net(src, ">", "<", (c + 1) + 1 .. target)
<1>3. src[k] \in Moves \cup {"#"} /\ All(src, Moves \cup {"#"}, k, target) /\ k <= target
  BY <1>1 DEF MovesTo, All
<1>4. Net(src, ">", "<", c + 1 .. target) = one + rest /\ one \in Int /\ rest \in Int
  <2>1. target \in Int
    OBVIOUS
  <2>2. /\ Net(src, ">", "<", c + 1 .. target)
             = Net(src, ">", "<", {c + 1}) + Net(src, ">", "<", (c + 1) + 1 .. target)
        /\ Net(src, ">", "<", {c + 1}) \in Int /\ Net(src, ">", "<", (c + 1) + 1 .. target) \in Int
    BY <1>1, <2>1, NetNext
  <2> QED
    BY <2>2
<1>5. memory = dmemory /\ input = dinput /\ output = said /\ ptr = (dptr + (one + rest)) % MemSize
  BY <1>4 DEF MovesTo
<1>6. c' = k /\ Quietly /\ dmemory' = dmemory /\ dptr' = (dptr + one) % MemSize
  <2>1. CASE src[k] \in Moves
    BY <2>1 DEF Obeys, Adds, Shifts, Reads, Writes, Ignores, Branches, Arith, Moves
  <2>2. CASE src[k] = "#"
    <3>1. Ignores
      BY <2>2, CommentMeans
    <3>2. one = 0
      BY <1>1, <2>2, NetOfComment
    <3>3. dptr % MemSize = dptr /\ dptr + 0 = dptr
      BY <1>1, CellFacts
    <3> QED
      BY <3>1, <3>2, <3>3 DEF Ignores
  <2> QED
    BY <1>3, <2>1, <2>2
<1>7. ptr = (dptr' + rest) % MemSize
  <2> HIDE DEF one, rest
  <2>1. dptr + one \in Int /\ (dptr + one) + rest = dptr + (one + rest) /\ MemSize \in Nat \ {0}
    BY <1>1, <1>4, CellFacts
  <2> DEFINE x == dptr + one
  <2>2. ((x % MemSize) + rest) % MemSize = (x + rest) % MemSize
    <3> HIDE DEF x
    <3>1. x \in Int
      BY <2>1 DEF x
    <3> QED
      BY <1>4, <2>1, <3>1, ModPlus
  <2> QED
    BY <1>5, <1>6, <2>1, <2>2
<1>8. MovesTo(c)'
  <2>1. k <= target /\ All(src', Moves \cup {"#"}, k, target') /\ c' = k /\ target' = target
    BY <1>2, <1>3, <1>6
  <2>2. memory' = dmemory' /\ input' = dinput' /\ output' = said'
    BY <1>2, <1>5, <1>6 DEF Quietly
  <2>3. Net(src', ">", "<", c' + 1 .. target') = rest
    BY <1>2, <1>6
  <2>4. ptr' = (dptr' + rest) % MemSize
    BY <1>2, <1>7
  <2> HIDE DEF k, rest
  <2> QED
    BY <2>1, <2>2, <2>3, <2>4 DEF MovesTo
<1>9. (Sound /\ target \in Nat /\ MovesTo(c) => OnTheWay)'
  BY MovesEnd, PTL
<1> QED
  BY <1>2, <1>8, <1>9

\* Additions that are left.
LEMMA AddingOn ==
  ASSUME Done, Sound, Stepped, said \in Seq(Cell), DirectStep, target \in Nat, Obeys, AddsTo
  PROVE  OnTheWay'
<1>1. src \in Seq(Char) /\ c \in Int /\ c \in Nat /\ dptr \in Address /\ dmemory \in [Address -> Cell]
      /\ Home \in Int /\ Home \in Cell
  BY DirectTypes
<1>2. Sound' /\ UNCHANGED <<src, target, ptr, memory, input, output>> /\ (doutput' = <<>> => said' = said)
  BY DirectFrame
<1> DEFINE k == c + 1
           one == Net(src, "+", "-", {c + 1})
           rest == Net(src, "+", "-", (c + 1) + 1 .. target)
<1>3. c < target /\ src[k] \in Arith \cup {"#"} /\ All(src, Arith \cup {"#"}, k, target) /\ k <= target
  BY <1>1 DEF AddsTo, All
<1>4. Net(src, "+", "-", c + 1 .. target) = one + rest /\ one \in Int /\ rest \in Int
  BY <1>1, <1>3, NetNext
<1>5. ptr = dptr /\ input = dinput /\ output = said
      /\ memory = [dmemory EXCEPT ![dptr] = (Home + (one + rest)) % CellMod]
  BY <1>4 DEF AddsTo, Home
<1>6. c' = k /\ Quietly /\ dptr' = dptr /\ dmemory' = [dmemory EXCEPT ![dptr] = (Home + one) % CellMod]
  <2>1. CASE src[k] \in Arith
    BY <2>1 DEF Obeys, Adds, Shifts, Reads, Writes, Ignores, Branches, Arith, Moves, Home
  <2>2. CASE src[k] = "#"
    <3>1. Ignores
      BY <2>2, CommentMeans
    <3>2. one = 0
      BY <1>1, <2>2, NetOfComment
    <3>3. Home % CellMod = Home /\ Home + 0 = Home
      BY <1>1, CellFacts
    <3>4. dmemory = [dmemory EXCEPT ![dptr] = Home]
      BY <1>1 DEF Home
    <3> QED
      BY <3>1, <3>2, <3>3, <3>4 DEF Ignores
  <2> QED
    BY <1>3, <2>1, <2>2
<1> HIDE DEF one, rest
<1>7. (Home' + rest) % CellMod = (Home + (one + rest)) % CellMod /\ Home' = (Home + one) % CellMod
  <2>1. Home' = (Home + one) % CellMod
    BY <1>1, <1>6 DEF Home
  <2>2. Home + one \in Int /\ (Home + one) + rest = Home + (one + rest) /\ CellMod \in Nat \ {0}
    BY <1>1, <1>4, CellFacts
  <2> DEFINE x == Home + one
  <2>3. ((x % CellMod) + rest) % CellMod = (x + rest) % CellMod
    <3> HIDE DEF x
    <3>1. x \in Int
      BY <2>2 DEF x
    <3> QED
      BY <1>4, <2>2, <3>1, ModPlus
  <2> QED
    BY <2>1, <2>2, <2>3
<1>8. memory' = [dmemory' EXCEPT ![dptr'] = (Home' + rest) % CellMod]
  BY <1>1, <1>2, <1>5, <1>6, <1>7
<1>9. (ptr = dptr)' /\ (input = dinput)' /\ (output = said)'
  BY <1>2, <1>5, <1>6 DEF Quietly
<1>10. CASE k < target
  <2>1. AddsTo'
    <3>1. c' < target' /\ All(src', Arith \cup {"#"}, c', target')
      BY <1>2, <1>3, <1>6, <1>10
    <3>2. Net(src', "+", "-", c' + 1 .. target') = rest
      BY <1>2, <1>6 DEF rest
    <3> QED
      BY <1>8, <1>9, <3>1, <3>2 DEF AddsTo, Home
  <2>2. c' # target'
    BY <1>1, <1>2, <1>6, <1>10
  <2> QED
    BY <2>1, <2>2 DEF OnTheWay, Pursuing
<1>11. CASE k = target
  <2>1. rest = 0
    <3> DEFINE I == (c + 1) + 1 .. target
    <3>1. \A i \in I \cap DOMAIN src : src[i] # "+" /\ src[i] # "-"
      BY <1>1, <1>11
    <3> HIDE DEF I
    <3>2. Net(src, "+", "-", I) = 0
      BY <1>1, <3>1, NetOfOthers
    <3> QED
      BY <3>2 DEF rest, I
  <2>2. Home' \in Cell /\ Home' + 0 = Home' /\ Home' % CellMod = Home'
    <3> DEFINE v == Home'
               x == Home + one
    <3>1. x \in Int /\ v = x % CellMod
      BY <1>1, <1>4, <1>7
    <3> HIDE DEF v, x
    <3>2. v \in Cell
      BY <3>1, CellFacts
    <3>3. v \in Int /\ v % CellMod = v
      BY <3>2, CellFacts
    <3>4. v + 0 = v
      BY <3>3
    <3> QED
      BY <3>2, <3>3, <3>4 DEF v
  <2>3. memory' = dmemory'
    <3>1. dmemory' = [dmemory' EXCEPT ![dptr'] = Home']
      BY <1>1, <1>6 DEF Home
    <3> QED
      BY <1>8, <2>1, <2>2, <3>1
  <2> QED
    BY <1>2, <1>6, <1>9, <1>11, <2>3 DEF OnTheWay, Arrived, Agree
<1> QED
  BY <1>1, <1>3, <1>10, <1>11

\* Comments before what is to come.
LEMMA CommentFirst ==
  ASSUME Done, Sound, Stepped, said \in Seq(Cell), DirectStep, Obeys,
         NEW p \in Int, Blank(src, c, p), c # p
  PROVE  /\ c < p /\ c' = c + 1 /\ c' <= p /\ Blank(src, c', p)
         /\ UNCHANGED <<src, target, ptr, memory, input, output, dptr, dmemory, dinput, said>>
<1>1. c \in Int
  BY DirectTypes
<1>2. c < p /\ src[c + 1] = "#"
  BY <1>1 DEF Blank
<1>3. Ignores
  BY <1>2, CommentMeans
<1>4. UNCHANGED <<src, target, ptr, memory, input, output>> /\ (doutput' = <<>> => said' = said)
  BY DirectFrame
<1>5. Blank(src, c + 1, p) /\ c + 1 <= p
  BY <1>1, <1>2 DEF Blank
<1> QED
  BY <1>2, <1>3, <1>4, <1>5 DEF Ignores, Quietly

\* Input and output that is left.
LEMMA ReadingOn ==
  ASSUME Done, Sound, Stepped, said \in Seq(Cell), DirectStep, target \in Nat, Obeys, ReadsNext
  PROVE  OnTheWay'
<1>1. c \in Nat /\ dptr \in Address /\ dmemory \in [Address -> Cell] /\ Len(src) \in Nat
  BY DirectTypes
<1>2. Sound' /\ UNCHANGED <<src, target, ptr, memory, input, output>> /\ said' = said \o doutput'
      /\ (doutput' = <<>> => said' = said)
  BY DirectFrame
<1>3. PICK p \in 0 .. Len(src) - 1 :
    /\ Blank(src, c, p) /\ Blank(src, p + 1, target) /\ said = <<>> /\ ptr = dptr
    /\ \/ /\ src[p + 1] = "," /\ output = <<>>
          /\ memory = [dmemory EXCEPT ![dptr] = IF dinput = <<>> THEN 0 ELSE Head(dinput)]
          /\ input = IF dinput = <<>> THEN <<>> ELSE Tail(dinput)
       \/ /\ src[p + 1] = "." /\ output = <<dmemory[dptr]>>
          /\ memory = dmemory /\ input = dinput
  BY DEF ReadsNext
<1>8. Blank(src, c, p)
  BY <1>3
<1>9. p \in Int
  BY <1>1
<1>6. p \in Int /\ Blank(src, c, p)
  BY <1>8, <1>9
<1>7. p + 1 <= target
  BY <1>3 DEF Blank
<1>4. CASE c # p
  <2>1. /\ c < p /\ c' = c + 1 /\ c' <= p /\ Blank(src, c', p)
        /\ UNCHANGED <<src, target, ptr, memory, input, output, dptr, dmemory, dinput, said>>
    BY <1>4, <1>6, CommentFirst
  <2>2. ReadsNext'
    BY <1>3, <2>1 DEF ReadsNext
  <2>3. c' # target'
    <3>1. c' <= p /\ c' \in Int /\ target' = target
      BY <1>1, <2>1
    <3> QED
      BY <1>6, <1>7, <3>1
  <2> QED
    BY <2>2, <2>3 DEF OnTheWay, Pursuing
<1>5. CASE c = p
  <2>1. CASE src[p + 1] = ","
    <3>1. Reads
      BY <1>5, <2>1 DEF Obeys, Adds, Shifts, Writes, Ignores, Branches, Arith, Moves
    <3>2. Agree' /\ c' = p + 1
      BY <1>2, <1>3, <1>5, <2>1, <3>1 DEF Reads, Agree
    <3>3. Blank(src, c, target)'
      BY <1>2, <1>3, <3>2
    <3>4. (Sound /\ target \in Nat /\ Agree /\ Blank(src, c, target) => OnTheWay)'
      BY BlankLeft, PTL
    <3> QED
      BY <1>2, <3>2, <3>3, <3>4
  <2>2. CASE src[p + 1] # ","
    <3>0. src[c + 1] = "."
      BY <1>3, <1>5, <2>2
    <3>1. Writes
      BY <3>0 DEF Obeys, Adds, Shifts, Reads, Ignores, Branches, Arith, Moves
    <3>5. said' = output
      <4>1. said' = <<>> \o <<dmemory[dptr]>>
        BY <1>2, <1>3, <3>1 DEF Writes
      <4>2. dmemory[dptr] \in Cell
        BY <1>1
      <4>3. <<>> \o <<dmemory[dptr]>> = <<dmemory[dptr]>>
        BY <4>2
      <4> QED
        BY <1>3, <2>2, <4>1, <4>3
    <3>2. Agree' /\ c' = p + 1
      BY <1>2, <1>3, <1>5, <2>2, <3>1, <3>5 DEF Writes, Agree
    <3>3. Blank(src, c, target)'
      BY <1>2, <1>3, <3>2
    <3>4. (Sound /\ target \in Nat /\ Agree /\ Blank(src, c, target) => OnTheWay)'
      BY BlankLeft, PTL
    <3> QED
      BY <1>2, <3>2, <3>3, <3>4
  <2> QED
    BY <2>1, <2>2
<1> QED
  BY <1>4, <1>5

\* Where a bracket leads is one place.
LEMMA OneLanding ==
  ASSUME src \in Seq(Char), NEW p \in Nat, NEW q \in Nat, NEW r \in Nat, Lands(p, q), Lands(p, r)
  PROVE  q = r
<1> DEFINE k == p + 1
<1>1. k \in Nat
  OBVIOUS
<1>2. \/ q = k /\ r = k
      \/ Partners(src, k, q) /\ Partners(src, k, r)
      \/ Partners(src, q, k) /\ Partners(src, r, k)
  BY DEF Lands
<1> HIDE DEF k
<1> QED
  BY <1>1, <1>2, OnePartner

\* A step at a bracket branches.
LEMMA BracketMeans ==
  ASSUME Obeys, src[c + 1] \in {"[", "]"}
  PROVE  Branches
  BY DEF Obeys, Adds, Shifts, Reads, Writes, Ignores, Arith, Moves

\* A bracket that is left, and moves behind it.
LEMMA JumpingOn ==
  ASSUME Done, Sound, Stepped, said \in Seq(Cell), DirectStep, target \in Nat, Obeys, Jumps
  PROVE  OnTheWay'
<1>1. src \in Seq(Char) /\ c \in Nat /\ Len(src) \in Nat
  BY DirectTypes
<1>2. Sound' /\ UNCHANGED <<src, target, ptr, memory, input, output>>
      /\ (doutput' = <<>> => said' = said)
  BY DirectFrame
<1>3. PICK p \in 0 .. Len(src) - 1, q \in 1 .. Len(src) :
        /\ Blank(src, c, p) /\ target \notin c + 1 .. p
        /\ Lands(p, q) /\ MovesTo(q)
  BY DEF Jumps
<1>4. CASE c # p
  <2>1. /\ c < p /\ c' = c + 1 /\ c' <= p /\ Blank(src, c', p)
        /\ UNCHANGED <<src, target, ptr, memory, input, output, dptr, dmemory, dinput, said>>
    BY <1>1, <1>3, <1>4, CommentFirst
  <2>2. Lands(p, q)' /\ MovesTo(q)'
    BY <1>3, <2>1 DEF Lands, Home, MovesTo
  <2>3. target \notin c' + 1 .. p /\ c' # target
    BY <1>1, <1>3, <2>1
  <2>4. Jumps'
    BY <2>1, <2>2, <2>3 DEF Jumps
  <2> QED
    BY <1>2, <2>3, <2>4 DEF OnTheWay, Pursuing
<1>5. CASE c = p
  <2>1. src[c + 1] \in {"[", "]"}
    BY <1>3, <1>5 DEF Lands
  <2>2. Branches
    BY <2>1, BracketMeans
  <2>3. c' \in 1 .. Len(src) /\ Lands(c, c') /\ UNCHANGED <<dptr, dmemory, dinput, said>>
    BY <1>2, <2>2 DEF Branches, Quietly
  <2>4. c' = q
    <3>1. p \in Nat /\ q \in Nat /\ c' \in Nat /\ Lands(p, q) /\ Lands(p, c')
      BY <1>1, <1>3, <1>5, <2>3
    <3> QED
      BY <1>1, <3>1, OneLanding
  <2>5. MovesTo(q)'
    BY <1>2, <1>3, <2>3 DEF MovesTo
  <2>6. MovesTo(c)'
    <3>1. MovesTo(c)' <=> MovesTo(q)'
      BY <2>4 DEF MovesTo
    <3> QED
      BY <2>5, <3>1
  <2>7. (Sound /\ target \in Nat /\ MovesTo(c) => OnTheWay)'
    BY MovesEnd, PTL
  <2> QED
    BY <1>2, <2>6, <2>7
<1> QED
  BY <1>4, <1>5

\* Where the ends of a loop lead.
LEMMA LoopLands ==
  ASSUME src \in Seq(Char), NEW p \in Nat, NEW e \in Nat, LoopAt(src, p, e), NEW r \in Nat
  PROVE  /\ Lands(p, r) => r = (IF Home # 0 THEN p + 1 ELSE e)
         /\ Lands(e - 1, r) => r = (IF Home # 0 THEN p + 1 ELSE e)
         /\ src[p + 1] = "[" /\ src[e] = "]" /\ p + 2 <= e /\ e <= Len(src)
<1>1. src[p + 1] = "[" /\ src[e] = "]" /\ p + 2 <= e /\ e <= Len(src)
  BY DEF LoopAt
<1>2. Partners(src, p + 1, e)
  BY LoopPartners
<1> DEFINE k == p + 1
           b == e - 1
<1>3. k \in Nat /\ b \in Nat /\ b + 1 = e
  BY <1>1
<1>4. Lands(p, IF Home # 0 THEN k ELSE e)
  BY <1>1, <1>2 DEF Lands
<1>5. Lands(b, IF Home # 0 THEN k ELSE e)
  BY <1>1, <1>2, <1>3 DEF Lands
<1> HIDE DEF k, b
<1>6. Lands(p, r) => r = (IF Home # 0 THEN k ELSE e)
  BY <1>3, <1>4, OneLanding
<1>7. Lands(b, r) => r = (IF Home # 0 THEN k ELSE e)
  BY <1>3, <1>5, OneLanding
<1> QED
  BY <1>1, <1>6, <1>7 DEF k, b

\* The end of the loop is behind the bracket, and so is the target.
LEMMA LeavesLoop ==
  ASSUME Sound', target' \in Nat, NEW e, c' = e, Blank(src', e, target'), Agree'
  PROVE  OnTheWay'
<1>1. (Sound /\ target \in Nat /\ Agree /\ Blank(src, c, target) => OnTheWay)'
  BY BlankLeft, PTL
<1> QED
  BY <1>1

\* The interpreter is still in the loop that clears.
LEMMA ClearsOn ==
  ASSUME NEW p \in 0 .. Len(src'), NEW e \in 0 .. Len(src'),
         LoopAt(src', p, e), All(src', Arith, p + 1, e - 1), Blank(src', e, target'),
         Blank(src', c', p) \/ c' \in p + 1 .. e - 1,
         ptr' = dptr', input' = dinput', output' = said', memory' = [dmemory' EXCEPT ![dptr'] = 0],
         c' # target'
  PROVE  OnTheWay'
<1>1. Clears'
  BY DEF Clears
<1> QED
  BY <1>1 DEF OnTheWay, Pursuing

\* A loop that clears its cell, turn by turn.
LEMMA ClearingOn ==
  ASSUME Done, Sound, Stepped, said \in Seq(Cell), DirectStep, target \in Nat, Obeys, Clears
  PROVE  OnTheWay'
<1>1. /\ src \in Seq(Char) /\ c \in Nat /\ Len(src) \in Nat /\ dptr \in Address
      /\ dmemory \in [Address -> Cell]
  BY DirectTypes
<1>2. Sound' /\ UNCHANGED <<src, target, ptr, memory, input, output>>
      /\ (doutput' = <<>> => said' = said)
  BY DirectFrame
<1>3. PICK p \in 0 .. Len(src), e \in 0 .. Len(src) :
    /\ LoopAt(src, p, e) /\ All(src, Arith, p + 1, e - 1)
    /\ Blank(src, c, p) \/ c \in p + 1 .. e - 1
    /\ Blank(src, e, target)
    /\ ptr = dptr /\ input = dinput /\ output = said
    /\ memory = [dmemory EXCEPT ![dptr] = 0]
  BY DEF Clears
<1>4. p \in Nat /\ e \in Nat /\ p \in Int
  BY <1>1
<1>5. p + 2 <= e /\ e <= target /\ src[p + 1] = "[" /\ src[e] = "]"
  BY <1>1, <1>3, <1>4, LoopLands DEF Blank
<1>6. CASE Blank(src, c, p) /\ c # p
  <2>1. /\ c < p /\ c' = c + 1 /\ c' <= p /\ Blank(src, c', p)
        /\ UNCHANGED <<src, target, ptr, memory, input, output, dptr, dmemory, dinput, said>>
    BY <1>4, <1>6, CommentFirst
  <2>2. c' # target'
    <3>1. c' <= p /\ c' \in Int /\ target' = target
      BY <1>1, <2>1
    <3> QED
      BY <1>4, <1>5, <3>1
  <2>3. Blank(src', c', p) \/ c' \in p + 1 .. e - 1
    BY <2>1
  <2>4. p \in 0 .. Len(src') /\ e \in 0 .. Len(src')
        /\ LoopAt(src', p, e) /\ All(src', Arith, p + 1, e - 1) /\ Blank(src', e, target')
    BY <1>3, <2>1
  <2>5. ptr' = dptr' /\ input' = dinput' /\ output' = said' /\ memory' = [dmemory' EXCEPT ![dptr'] = 0]
    BY <1>3, <2>1
  <2> QED
    BY <2>2, <2>3, <2>4, <2>5, ClearsOn
<1>7. CASE c = p \/ c = e - 1
  <2>1. src[c + 1] \in {"[", "]"}
    BY <1>4, <1>5, <1>7
  <2>2. Branches
    BY <2>1, BracketMeans
  <2>3. c' \in Nat /\ Lands(c, c') /\ UNCHANGED <<dptr, dmemory, dinput, said>>
    BY <1>1, <1>2, <2>2 DEF Branches, Quietly
  <2>4. c' = (IF Home # 0 THEN p + 1 ELSE e)
    BY <1>1, <1>3, <1>4, <1>7, <2>3, LoopLands
  <2>5. CASE Home # 0
    <3>1. c' = p + 1 /\ c' \in p + 1 .. e - 1 /\ c' # target'
      BY <1>2, <1>4, <1>5, <2>4, <2>5
    <3>4. p \in 0 .. Len(src') /\ e \in 0 .. Len(src')
          /\ LoopAt(src', p, e) /\ All(src', Arith, p + 1, e - 1) /\ Blank(src', e, target')
      BY <1>2, <1>3
    <3>5. ptr' = dptr' /\ input' = dinput' /\ output' = said' /\ memory' = [dmemory' EXCEPT ![dptr'] = 0]
      BY <1>2, <1>3, <2>3
    <3> QED
      BY <3>1, <3>4, <3>5, ClearsOn
  <2>6. CASE Home = 0
    <3>1. memory = dmemory
      BY <1>1, <1>3, <2>6 DEF Home
    <3>2. Agree' /\ c' = e /\ Blank(src', e, target') /\ target' \in Nat
      BY <1>2, <1>3, <2>3, <2>4, <2>6, <3>1 DEF Agree
    <3> QED
      BY <1>2, <3>2, LeavesLoop
  <2> QED
    BY <2>5, <2>6
<1>8. CASE c \in p + 1 .. e - 1 /\ c # e - 1
  <2>1. c + 1 \in (p + 1) + 1 .. e - 1 /\ c + 1 \in p + 1 .. e - 1
    BY <1>1, <1>4, <1>8
  <2>2. src[c + 1] \in Arith
    BY <1>3, <2>1 DEF All
  <2>3. Adds
    BY <2>2 DEF Obeys, Shifts, Reads, Writes, Ignores, Branches, Arith, Moves
  <2>4. c' = c + 1 /\ dptr' = dptr /\ dinput' = dinput /\ said' = said
        /\ dmemory' = [dmemory EXCEPT ![dptr] = (@ + Net(src, "+", "-", {c + 1})) % CellMod]
    BY <1>2, <2>3 DEF Adds, Quietly
  <2>5. memory' = [dmemory' EXCEPT ![dptr'] = 0]
    BY <1>1, <1>2, <1>3, <2>4
  <2>6. c' # target'
    BY <1>1, <1>2, <1>4, <1>5, <2>1, <2>4
  <2>7. p \in 0 .. Len(src') /\ e \in 0 .. Len(src')
        /\ LoopAt(src', p, e) /\ All(src', Arith, p + 1, e - 1) /\ Blank(src', e, target')
    BY <1>2, <1>3
  <2>8. ptr' = dptr' /\ input' = dinput' /\ output' = said' /\ c' \in p + 1 .. e - 1
    BY <1>2, <1>3, <2>1, <2>4
  <2> QED
    BY <2>5, <2>6, <2>7, <2>8, ClearsOn
<1>9. Blank(src, c, p) \/ c \in p + 1 .. e - 1
  BY <1>3
<1> QED
  BY <1>6, <1>7, <1>8, <1>9

\* The interpreter is still in the loop that multiplies.
LEMMA MultipliesOn ==
  ASSUME NEW p \in 0 .. Len(src'), NEW e \in 0 .. Len(src'),
         NEW t, t = BodyOf(src', p, e), LoopAt(src', p, e), MulText(t), HomeKept(t),
         Blank(src', e, target'), input' = dinput', output' = said',
         ptr' \in Address, memory' \in [Address -> Cell],
         \/ Blank(src', c', p) /\ ptr' = dptr' /\ MulLeft(t, ptr', dmemory', memory', Len(t))
         \/ /\ c' \in p + 1 .. e - 1 /\ MulLeft(t, ptr', dmemory', memory', c' - p - 1)
            /\ dptr' = (ptr' + Shift(t, c' - p - 1)) % MemSize,
         c' # target'
  PROVE  OnTheWay'
<1>1. Multiplies'
  BY DEF Multiplies
<1> QED
  BY <1>1 DEF OnTheWay, Pursuing

\* A multiplying loop, character by character.
LEMMA MultiplyingOn ==
  ASSUME Done, Sound, Stepped, said \in Seq(Cell), DirectStep, target \in Nat, Obeys, Multiplies
  PROVE  OnTheWay'
<1>1. /\ src \in Seq(Char) /\ c \in Nat /\ Len(src) \in Nat /\ dptr \in Address
      /\ dmemory \in [Address -> Cell]
  BY DirectTypes
<1>2. Sound' /\ UNCHANGED <<src, target, ptr, memory, input, output>>
      /\ (doutput' = <<>> => said' = said)
  BY DirectFrame
<1>3. PICK p \in 0 .. Len(src), e \in 0 .. Len(src) :
    LET body == BodyOf(src, p, e)
    IN  /\ LoopAt(src, p, e) /\ MulText(body) /\ HomeKept(body)
        /\ Blank(src, e, target)
        /\ input = dinput /\ output = said
        /\ ptr \in Address /\ memory \in [Address -> Cell]
        /\ \/ Blank(src, c, p) /\ ptr = dptr /\ MulLeft(body, ptr, dmemory, memory, Len(body))
           \/ /\ c \in p + 1 .. e - 1 /\ MulLeft(body, ptr, dmemory, memory, c - p - 1)
              /\ dptr = (ptr + Shift(body, c - p - 1)) % MemSize
  BY DEF Multiplies
<1>4. PICK t : t = BodyOf(src, p, e)
  OBVIOUS
<1>5. /\ LoopAt(src, p, e) /\ MulText(t) /\ HomeKept(t) /\ Blank(src, e, target)
      /\ input = dinput /\ output = said /\ ptr \in Address /\ memory \in [Address -> Cell]
  BY <1>3, <1>4
<1>6. \/ Blank(src, c, p) /\ ptr = dptr /\ MulLeft(t, ptr, dmemory, memory, Len(t))
      \/ /\ c \in p + 1 .. e - 1 /\ MulLeft(t, ptr, dmemory, memory, c - p - 1)
         /\ dptr = (ptr + Shift(t, c - p - 1)) % MemSize
  BY <1>3, <1>4
<1>7. p \in Nat /\ e \in Nat /\ p \in Int
  BY <1>1
<1>8. p + 2 <= e /\ e <= target /\ src[p + 1] = "[" /\ src[e] = "]"
  BY <1>1, <1>5, <1>7, LoopLands DEF Blank
<1>9. /\ t \in Seq(Char) /\ Len(t) = e - p - 2 /\ DOMAIN t = 1 .. e - p - 2
      /\ \A j \in 1 .. e - p - 2 : t[j] = src[p + 1 + j] /\ t[j] \in Arith \cup Moves
  <2>1. LET b == BodyOf(src, p, e)
        IN  /\ b \in Seq(Char) /\ Len(b) = e - p - 2 /\ DOMAIN b = 1 .. e - p - 2
            /\ \A j \in 1 .. e - p - 2 : b[j] = src[p + 1 + j] /\ b[j] \in Arith \cup Moves
    BY <1>1, <1>5, <1>7, BodyText, SMTT(30)
  <2> QED
    BY <1>4, <2>1
<1>15. t \in Seq(Char) /\ MulText(t)
  BY <1>5, <1>9
<1>16. ptr \in Address /\ dmemory \in [Address -> Cell]
  BY <1>1, <1>5
<1>10. /\ p \in 0 .. Len(src') /\ e \in 0 .. Len(src') /\ LoopAt(src', p, e)
       /\ t = BodyOf(src', p, e) /\ Blank(src', e, target')
       /\ ptr' \in Address /\ memory' \in [Address -> Cell] /\ output' = output /\ input' = input
       /\ target' = target /\ target' \in Nat
  BY <1>2, <1>4, <1>5
<1>11. CASE Blank(src, c, p) /\ c # p /\ ptr = dptr /\ MulLeft(t, ptr, dmemory, memory, Len(t))
  <2>1. /\ c < p /\ c' = c + 1 /\ c' <= p /\ Blank(src, c', p)
        /\ UNCHANGED <<src, target, ptr, memory, input, output, dptr, dmemory, dinput, said>>
    BY <1>7, <1>11, CommentFirst
  <2>2. c' # target'
    <3>1. c' <= p /\ c' \in Int /\ target' = target
      BY <1>1, <2>1
    <3> QED
      BY <1>7, <1>8, <3>1
  <2>3. Blank(src', c', p) /\ ptr' = dptr' /\ MulLeft(t, ptr', dmemory', memory', Len(t))
        /\ input' = dinput' /\ output' = said'
    BY <1>5, <1>11, <2>1
  <2> QED
    BY <1>5, <1>10, <2>2, <2>3, MultipliesOn
<1>12. CASE (c = p \/ c = e - 1) /\ ptr = dptr /\ MulLeft(t, ptr, dmemory, memory, Len(t))
  <2>1. src[c + 1] \in {"[", "]"}
    BY <1>7, <1>8, <1>12
  <2>2. Branches
    BY <2>1, BracketMeans
  <2>3. c' \in Nat /\ Lands(c, c') /\ UNCHANGED <<dptr, dmemory, dinput, said>>
    BY <1>1, <1>2, <2>2 DEF Branches, Quietly
  <2>4. c' = (IF Home # 0 THEN p + 1 ELSE e)
    BY <1>1, <1>5, <1>7, <1>12, <2>3, LoopLands
  <2>5. CASE Home # 0
    <3>1. c' = p + 1 /\ c' \in p + 1 .. e - 1 /\ c' # target' /\ c' - p - 1 = 0
      BY <1>7, <1>8, <1>10, <2>4, <2>5
    <3>2. MulLeft(t, ptr, dmemory, memory, 0)
      BY <1>1, <1>5, <1>12, MulTurn
    <3>3. Shift(t, 0) = 0
      <4>1. \A i \in (1 .. 0) \cap DOMAIN t : t[i] # ">" /\ t[i] # "<"
        OBVIOUS
      <4> DEFINE I == 1 .. 0
      <4>2. \A i \in I \cap DOMAIN t : t[i] # ">" /\ t[i] # "<"
        BY <4>1
      <4> HIDE DEF I
      <4>3. Net(t, ">", "<", I) = 0
        BY <1>9, <4>2, NetOfOthers
      <4> QED
        BY <4>3 DEF Shift, I
    <3>4. dptr = (ptr + Shift(t, 0)) % MemSize
      <4>1. ptr % MemSize = ptr /\ ptr + 0 = ptr
        BY <1>5, CellFacts
      <4> QED
        BY <1>12, <3>3, <4>1
    <3>5. /\ MulLeft(t, ptr', dmemory', memory', c' - p - 1)
          /\ dptr' = (ptr' + Shift(t, c' - p - 1)) % MemSize
      BY <1>2, <2>3, <3>1, <3>2, <3>4
    <3>6. input' = dinput' /\ output' = said'
      BY <1>2, <1>5, <2>3
    <3> QED
      BY <1>5, <1>10, <3>1, <3>5, <3>6, MultipliesOn
  <2>6. CASE Home = 0
    <3>1. memory = dmemory
      <4>1. dmemory[ptr] = 0
        BY <1>12, <2>6 DEF Home
      <4> QED
        BY <1>1, <1>5, <1>12, <4>1, MulOver
    <3>2. Agree' /\ c' = e
      BY <1>2, <1>5, <1>12, <2>3, <2>4, <2>6, <3>1 DEF Agree
    <3> QED
      BY <1>2, <1>10, <3>2, LeavesLoop
  <2> QED
    BY <2>5, <2>6
<1>13. CASE /\ c \in p + 1 .. e - 1 /\ c # e - 1 /\ MulLeft(t, ptr, dmemory, memory, c - p - 1)
            /\ dptr = (ptr + Shift(t, c - p - 1)) % MemSize
  <2> DEFINE q == c - p - 1
             k == c + 1
  <2>1. q \in 0 .. e - p - 3 /\ q + 1 \in 1 .. e - p - 2 /\ p + 1 + (q + 1) = k /\ k \in p + 1 .. e - 1
        /\ k - p - 1 = q + 1 /\ k # target
    BY <1>7, <1>8, <1>13
  <2>2. q \in 0 .. Len(t) - 1 /\ q + 1 \in DOMAIN t
    <3>1. e - p - 3 = (e - p - 2) - 1
      BY <1>7
    <3>2. Len(t) = e - p - 2 /\ DOMAIN t = 1 .. e - p - 2
      BY <1>9
    <3>3. Len(t) - 1 = e - p - 3
      BY <3>1, <3>2
    <3> HIDE DEF q
    <3> QED
      BY <2>1, <3>2, <3>3
  <2>3. t[q + 1] = src[k] /\ t[q + 1] \in Arith \cup Moves /\ k \in DOMAIN src
    <3>1. \A j \in 1 .. e - p - 2 : t[j] = src[p + 1 + j] /\ t[j] \in Arith \cup Moves
      BY <1>9
    <3> DEFINE n == q + 1
    <3>2. n \in 1 .. e - p - 2 /\ p + 1 + n = k
      BY <2>1
    <3>3. k \in DOMAIN src
      BY <1>1, <1>5, <1>7, <2>1 DEF LoopAt
    <3> HIDE DEF n, k
    <3>4. t[n] = src[k] /\ t[n] \in Arith \cup Moves
      BY <3>1, <3>2
    <3> QED
      BY <3>3, <3>4 DEF n
  <2>4. MulLeft(t, ptr, dmemory, memory, q) /\ dptr = (ptr + Shift(t, q)) % MemSize
    BY <1>13
  <2> HIDE DEF q
  <2>9. q \in 0 .. Len(t) - 1
    BY <2>2
  <2>5. /\ Net(src, "+", "-", {k}) = Net(t, "+", "-", {q + 1})
        /\ Net(src, ">", "<", {k}) = Net(t, ">", "<", {q + 1})
    <3> DEFINE n == q + 1
    <3>1. n \in DOMAIN t /\ t[n] = src[k] /\ k \in DOMAIN src
      BY <2>2, <2>3
    <3> HIDE DEF n, k
    <3>2. Net(src, "+", "-", {k}) = Net(t, "+", "-", {n})
      <4>1. Net(src, "+", "-", {k}) = IF src[k] = "+" THEN 1 ELSE IF src[k] = "-" THEN -1 ELSE 0
        BY <1>1, <3>1, NetOfOne
      <4>2. Net(t, "+", "-", {n}) = IF t[n] = "+" THEN 1 ELSE IF t[n] = "-" THEN -1 ELSE 0
        BY <1>15, <3>1, NetOfOne
      <4> QED
        BY <3>1, <4>1, <4>2
    <3>3. Net(src, ">", "<", {k}) = Net(t, ">", "<", {n})
      <4>1. Net(src, ">", "<", {k}) = IF src[k] = ">" THEN 1 ELSE IF src[k] = "<" THEN -1 ELSE 0
        BY <1>1, <3>1, NetOfOne
      <4>2. Net(t, ">", "<", {n}) = IF t[n] = ">" THEN 1 ELSE IF t[n] = "<" THEN -1 ELSE 0
        BY <1>15, <3>1, NetOfOne
      <4> QED
        BY <3>1, <4>1, <4>2
    <3> QED
      BY <3>2, <3>3 DEF n
  <2>6. /\ c' = k /\ dinput' = dinput /\ said' = said
        /\ MulLeft(t, ptr, dmemory', memory, q + 1) /\ dptr' = (ptr + Shift(t, q + 1)) % MemSize
    <3>1. CASE src[k] \in Arith
      <4>1. Adds
        BY <3>1 DEF Obeys, Shifts, Reads, Writes, Ignores, Branches, Arith, Moves
      <4>2. c' = k /\ dptr' = dptr /\ dinput' = dinput /\ said' = said
            /\ dmemory' = [dmemory EXCEPT ![dptr] = (@ + Net(t, "+", "-", {q + 1})) % CellMod]
        BY <1>2, <2>5, <4>1 DEF Adds, Quietly
      <4>3. t[q + 1] \in Arith
        BY <2>3, <3>1
      <4>4. /\ MulLeft(t, ptr, [dmemory EXCEPT ![dptr] = (@ + Net(t, "+", "-", {q + 1})) % CellMod],
                       memory, q + 1)
            /\ dptr = (ptr + Shift(t, q + 1)) % MemSize
        <5>1. MulLeft(t, ptr, [dmemory EXCEPT ![dptr] = (@ + Net(t, "+", "-", {q + 1})) % CellMod],
                      memory, q + 1)
          BY <1>15, <1>16, <2>4, <2>9, <4>3, MulAdds
        <5>2. dptr = (ptr + Shift(t, q + 1)) % MemSize
          BY <1>15, <1>16, <2>4, <2>9, <4>3, MulAdds, ZenonT(60)
        <5> QED
          BY <5>1, <5>2
      <4> QED
        BY <4>2, <4>4
    <3>2. CASE src[k] \in Moves
      <4>1. Shifts
        BY <3>2 DEF Obeys, Adds, Reads, Writes, Ignores, Branches, Arith, Moves
      <4>2. c' = k /\ dmemory' = dmemory /\ dinput' = dinput /\ said' = said
            /\ dptr' = (dptr + Net(t, ">", "<", {q + 1})) % MemSize
        BY <1>2, <2>5, <4>1 DEF Shifts, Quietly
      <4>3. t[q + 1] \in Moves
        BY <2>3, <3>2
      <4>4. /\ MulLeft(t, ptr, dmemory, memory, q + 1)
            /\ (dptr + Net(t, ">", "<", {q + 1})) % MemSize = (ptr + Shift(t, q + 1)) % MemSize
        <5>1. MulLeft(t, ptr, dmemory, memory, q + 1)
          BY <1>15, <1>16, <2>4, <2>9, <4>3, MulShifts
        <5>2. (dptr + Net(t, ">", "<", {q + 1})) % MemSize = (ptr + Shift(t, q + 1)) % MemSize
          BY <1>15, <1>16, <2>4, <2>9, <4>3, MulShifts
        <5> QED
          BY <5>1, <5>2
      <4> QED
        BY <4>2, <4>4
    <3> QED
      BY <2>3, <3>1, <3>2
  <2>7. c' \in p + 1 .. e - 1 /\ c' - p - 1 = q + 1 /\ c' # target'
    BY <1>10, <2>1, <2>6
  <2>8. /\ MulLeft(t, ptr', dmemory', memory', c' - p - 1)
        /\ dptr' = (ptr' + Shift(t, c' - p - 1)) % MemSize
        /\ input' = dinput' /\ output' = said'
    BY <1>2, <1>5, <2>6, <2>7
  <2> QED
    BY <1>5, <1>10, <2>7, <2>8, MultipliesOn
<1>14. c = e - 1 /\ MulLeft(t, ptr, dmemory, memory, c - p - 1) /\ dptr = (ptr + Shift(t, c - p - 1)) % MemSize
       => ptr = dptr /\ MulLeft(t, ptr, dmemory, memory, Len(t))
  <2> SUFFICES ASSUME c = e - 1, MulLeft(t, ptr, dmemory, memory, c - p - 1),
                      dptr = (ptr + Shift(t, c - p - 1)) % MemSize
               PROVE  ptr = dptr /\ MulLeft(t, ptr, dmemory, memory, Len(t))
    OBVIOUS
  <2>1. c - p - 1 = Len(t)
    BY <1>7, <1>9
  <2>2. Shift(t, Len(t)) = 0
    BY <1>5, MulFacts
  <2>3. ptr % MemSize = ptr /\ ptr + 0 = ptr
    BY <1>5, CellFacts
  <2> QED
    BY <2>1, <2>2, <2>3
<1> QED
  BY <1>6, <1>11, <1>12, <1>13, <1>14

\* Where it is before its source ends.
LEMMA PursuitInside ==
  ASSUME Sound, target \in Nat, target <= Len(src), Pursuing
  PROVE  c < Len(src)
<1>1. c \in Int /\ Len(src) \in Nat
  BY DirectTypes
<1>2. CASE AddsTo \/ (c < target /\ MovesTo(c))
  <2>1. c < target
    BY <1>2 DEF AddsTo
  <2> QED
    BY <1>1, <2>1
<1>3. CASE ReadsNext \/ Jumps
  <2>1. PICK p \in 0 .. Len(src) - 1 : Blank(src, c, p)
    BY <1>3 DEF ReadsNext, Jumps
  <2>2. c <= p
    BY <2>1 DEF Blank
  <2> QED
    BY <1>1, <2>2
<1>4. CASE Clears \/ Multiplies
  <2>1. PICK p \in 0 .. Len(src), e \in 0 .. Len(src) :
          LoopAt(src, p, e) /\ (Blank(src, c, p) \/ c \in p + 1 .. e - 1)
    BY <1>4 DEF Clears, Multiplies
  <2>2. p + 2 <= e /\ (c <= p \/ c <= e - 1)
    BY <2>1 DEF LoopAt, Blank
  <2> QED
    BY <1>1, <2>2
<1> QED
  BY <1>2, <1>3, <1>4 DEF Pursuing

\* It gets on, or it arrives and the machine is next.
LEMMA Follows ==
  ASSUME Done, Sound, Stepped, said \in Seq(Cell), DirectStep, Following,
         pc \in Nat, pc < Len(bitcode)
  PROVE  /\ mode' = "running"
         /\ (turn' = "machine" /\ Met') \/ (turn' = "direct" /\ Following')
<1>1. /\ pc + 1 \in DOMAIN bitcode /\ Len(src) \in Nat
      /\ origin[pc + 1] \in Nat /\ origin[pc + 1] <= Len(src)
  <2>1. /\ Len(src) \in Nat /\ Len(bitcode) \in Nat /\ DOMAIN bitcode = 1 .. Len(bitcode)
        /\ \A i \in DOMAIN bitcode : origin[i] \in Nat /\ origin[i] <= Len(src)
    BY DoneFacts
  <2>2. pc + 1 \in 1 .. Len(bitcode)
    BY <2>1
  <2> QED
    BY <2>1, <2>2
<1>2. status = "running" /\ First(origin, pc + 1) /\ Aimed /\ Pursuing
  BY DEF Following
<1>3. target \in Nat /\ target <= Len(src)
  <2>1. CASE target = origin[pc + 1]
    BY <1>1, <2>1
  <2>2. CASE \E e \in ScanEnd(pc + 1) : target = e - 1
    <3>1. PICK e \in 1 .. Len(src) : target = e - 1
      BY <2>2 DEF ScanEnd
    <3> QED
      BY <1>1, <3>1
  <2> QED
    BY <1>2, <2>1, <2>2 DEF Aimed
<1>4. c < Len(src)
  BY <1>2, <1>3, PursuitInside
<1>5. /\ UNCHANGED <<src, bitcode, origin, target, pc, status>>
      /\ turn' = CASE mode' = "finished"                 -> "over"
                   [] status = "running" /\ c' = target -> "machine"
                   [] OTHER                              -> "direct"
      /\ Obeys \/ Ends
  BY DirectFrame
<1>6. Obeys /\ mode' = "running"
  <2>1. c # Len(src)
    BY <1>1, <1>4, DirectTypes
  <2> QED
    BY <1>5, <2>1 DEF Ends, Obeys
<1>7. OnTheWay'
  <2>1. CASE c < target /\ MovesTo(c)
    BY <1>3, <1>6, <2>1, MovingOn
  <2>2. CASE AddsTo
    BY <1>3, <1>6, <2>2, AddingOn
  <2>3. CASE ReadsNext
    BY <1>3, <1>6, <2>3, ReadingOn
  <2>4. CASE Jumps
    BY <1>3, <1>6, <2>4, JumpingOn
  <2>5. CASE Clears
    BY <1>3, <1>6, <2>5, ClearingOn
  <2>6. CASE Multiplies
    BY <1>3, <1>6, <2>6, MultiplyingOn
  <2> QED
    BY <1>2, <2>1, <2>2, <2>3, <2>4, <2>5, <2>6 DEF Pursuing
<1>8. /\ ScanEnd(pc + 1)' = ScanEnd(pc + 1)
      /\ First(origin', pc' + 1) /\ status' = "running"
  BY <1>2, <1>5 DEF ScanEnd
<1>9. CASE c' = target
  <2>1. Agree'
    BY <1>5, <1>7, <1>9 DEF OnTheWay, Arrived
  <2>2. AtPiece(pc + 1)'
    BY <1>2, <1>5, <1>8, <1>9 DEF Aimed, AtPiece
  <2>3. Met'
    BY <1>8, <2>1, <2>2 DEF Met
  <2> QED
    BY <1>2, <1>5, <1>6, <1>9, <2>3
<1>10. CASE c' # target
  <2>1. Pursuing'
    BY <1>5, <1>7, <1>10 DEF OnTheWay, Arrived
  <2>2. Aimed'
    BY <1>2, <1>5, <1>8 DEF Aimed
  <2>3. Following'
    BY <1>8, <2>1, <2>2 DEF Following
  <2> QED
    BY <1>2, <1>5, <1>6, <1>10, <2>3
<1> QED
  BY <1>6, <1>9, <1>10

\* The machine has halted: comments are all that is left.
LEMMA EndsToo ==
  ASSUME Done, Sound, Stepped, said \in Seq(Cell), DirectStep, Ending
  PROVE  \/ turn' = "over" /\ status' = "halted" /\ Agree'
         \/ turn' = "direct" /\ mode' = "running" /\ Ending'
<1>1. /\ UNCHANGED <<src, ptr, memory, input, output, status>>
      /\ doutput' = <<>> => said' = said
      /\ turn' = CASE mode' = "finished"                 -> "over"
                   [] status = "running" /\ c' = target -> "machine"
                   [] OTHER                              -> "direct"
      /\ Obeys \/ Ends
  BY DirectFrame
<1>2. status = "halted" /\ Blank(src, c, Len(src)) /\ Agree
  BY DEF Ending
<1>3. CASE Ends
  BY <1>1, <1>2, <1>3 DEF Ends, Quietly, Agree
<1>4. CASE Obeys
  <2> DEFINE n == Len(src)
  <2>1. n \in Int /\ c # n /\ Blank(src, c, n)
    BY <1>2, <1>4, DirectTypes DEF Obeys
  <2> HIDE DEF n
  <2>2. /\ Blank(src, c', n)
        /\ UNCHANGED <<src, target, ptr, memory, input, output, dptr, dmemory, dinput, said>>
    BY <1>4, <2>1, CommentFirst
  <2>3. Ending'
    <3>1. n = Len(src)
      BY DEF n
    <3> QED
      BY <1>1, <1>2, <2>2, <3>1 DEF Ending, Agree
  <2>4. mode' = "running" /\ turn' = "direct"
    BY <1>1, <1>2, <1>4 DEF Obeys
  <2> QED
    BY <2>3, <2>4
<1> QED
  BY <1>1, <1>3, <1>4

-----------------------------------------------------------------------------
(***************************************************************************)
(* What the proofs about translate and about bf contribute.                *)
(***************************************************************************)

TP == INSTANCE BrainfunkProofs WITH call <- "none"

DP == INSTANCE DirectBFProofs WITH
        code <- src, stack <- dstack, ptr <- dptr, memory <- dmemory,
        input <- dinput, output <- doutput

\* The instances speak of the same sets.
LEMMA SameBasics ==
  /\ TP!Cell = Cell /\ TP!Instruction = Instruction /\ TP!Opcode = Opcode
  /\ TP!Char = Char /\ TP!Phases = Phases /\ TP!Resting = Resting
  /\ DP!Char = Char
<1>1. TP!Cell = Cell /\ TP!Opcode = Opcode /\ TP!Char = Char /\ TP!Resting = Resting
      /\ DP!Char = Char
  BY DEF TP!Cell, Cell, TP!Opcode, Opcode, TP!Char, Char, TP!InstructionChar, InstructionChar,
     TP!Arith, Arith, TP!Moves, Moves, TP!Resting, Resting, DP!Char, DP!InstructionChar, DP!Arith, DP!Moves
<1> QED
  BY <1>1 DEF TP!Instruction, Instruction, TP!Phases, Phases

\* They count alike: translate.
LEMMA SameCounts ==
  /\ \A t, up, down, I : TP!Net(t, up, down, I) = Net(t, up, down, I)
  /\ \A t, k : TP!Depth(t, k) = Depth(t, k)
  /\ \A t : TP!Balanced(t) <=> Balanced(t)
<1>1. \A t, up, down, I : TP!Net(t, up, down, I) = Net(t, up, down, I)
  BY DEF TP!Net, Net, TP!Cardinality, Cardinality, TP!IsFiniteSet, IsFiniteSet
<1> QED
  BY <1>1 DEF TP!Depth, Depth, TP!Balanced, Balanced

\* They count alike: bf.
LEMMA SameCountsD ==
  /\ \A t, k : D!Depth(t, k) = Depth(t, k) /\ DP!Depth(t, k) = Depth(t, k)
  /\ \A t : DP!Balanced(t) <=> Balanced(t)
  /\ \A t, i, j : DP!Partners(t, i, j) <=> Partners(t, i, j)
<1>1. \A t, up, down, I : D!Net(t, up, down, I) = Net(t, up, down, I)
                        /\ DP!Net(t, up, down, I) = Net(t, up, down, I)
  BY DEF D!Net, DP!Net, Net, D!Cardinality, DP!Cardinality, Cardinality,
     D!IsFiniteSet, DP!IsFiniteSet, IsFiniteSet
<1>2. \A t, k : D!Depth(t, k) = Depth(t, k) /\ DP!Depth(t, k) = Depth(t, k)
  BY <1>1 DEF D!Depth, DP!Depth, Depth
<1> QED
  BY <1>2 DEF DP!Balanced, Balanced, DP!Partners, Partners

\* What DirectBF assumes of its constants.
LEMMA DirectAssumptions ==
  /\ CellMod \in Nat /\ CellMod > 1
  /\ Sources \subseteq Seq(DP!Char) /\ Inputs \subseteq Seq(0 .. CellMod - 1)
  /\ MemSize \in Nat \ {0} /\ WordMod \in Nat \ {0} /\ WordMod % MemSize = 0
  BY CellModAssumption, SourcesAssumption, InputsAssumption, MemSizeAssumption, WordAssumption,
     SameBasics DEF Cell

\* They say the same of translate.
LEMMA SameIInv == TP!IInv <=> IInv
<1>1. TP!TypeOK <=> TypeOK
  BY SameBasics DEF TP!TypeOK, TypeOK
<1>2. TP!ValidateInv <=> ValidateInv
  BY SameCounts DEF TP!ValidateInv, ValidateInv
<1>3. TP!DepthInv <=> DepthInv
  BY SameCounts DEF TP!DepthInv, DepthInv
<1>4. TP!CodeInv(bitcode, stack) <=> CodeInv(bitcode, stack)
  BY DEF TP!CodeInv, CodeInv, TP!Pending, Pending, TP!NonePendingInside, NonePendingInside,
     TP!JumpsMatched, JumpsMatched, TP!Paired, Paired, TP!WellNested, WellNested
<1>5. TP!HaltInv <=> HaltInv
  BY DEF TP!HaltInv, HaltInv
<1> QED
  BY <1>1, <1>2, <1>3, <1>4, <1>5 DEF TP!IInv, IInv, TP!NeverUnmatched, NeverUnmatched

\* They translate a multiplying loop alike.
LEMMA SameMulCode == \A body : TP!MulCode(body) = MulCode(body)
<1>1. \A body : TP!PairEnds(body) = PairEnds(body)
  BY DEF TP!PairEnds, PairEnds, TP!Arith, Arith, TP!Moves, Moves
<1>2. \A S, i : TP!Nth(S, i) = Nth(S, i)
  BY DEF TP!Nth, Nth, TP!Cardinality, Cardinality, TP!IsFiniteSet, IsFiniteSet
<1>3. \A S : TP!Cardinality(S) = Cardinality(S)
  BY DEF TP!Cardinality, Cardinality, TP!IsFiniteSet, IsFiniteSet
<1>4. \A body, i : TP!PairStart(body, i) = PairStart(body, i)
  BY <1>1, <1>2 DEF TP!PairStart, PairStart
<1>5. \A body, i : /\ TP!MulFactor(body, i) = MulFactor(body, i)
                   /\ TP!MulOffset(body, i) = MulOffset(body, i)
  BY <1>1, <1>2, <1>4, SameCounts DEF TP!MulFactor, MulFactor, TP!MulOffset, MulOffset
<1> QED
  BY <1>1, <1>3, <1>5 DEF TP!MulCode, MulCode, TP!Instr, Instr

\* They take the same steps.
LEMMA SameStep == CallStep => TP!CallStep
<1>1. \A n : TP!InnermostLoop(n) <=> InnermostLoop(n)
  BY DEF TP!InnermostLoop, InnermostLoop, TP!Arith, Arith, TP!Moves, Moves
<1>2. \A n : TP!Body(n) = Body(n)
  BY DEF TP!Body, Body
<1>3. \A t : /\ TP!IsMulLoop(t) <=> IsMulLoop(t)
             /\ TP!IsScanLoop(t) <=> IsScanLoop(t)
             /\ TP!IsSetZeroLoop(t) <=> IsSetZeroLoop(t)
  BY SameCounts DEF TP!IsMulLoop, IsMulLoop, TP!IsScanLoop, IsScanLoop, TP!IsSetZeroLoop,
     IsSetZeroLoop, TP!PairEnds, PairEnds, TP!Arith, Arith, TP!Moves, Moves
<1>4. \A n : TP!Optimisable(n) <=> Optimisable(n)
  BY <1>1, <1>2, <1>3 DEF TP!Optimisable, Optimisable
<1>5. /\ TP!Remaining = Remaining /\ (TP!Translating <=> Translating) /\ (TP!AtEnd <=> AtEnd)
      /\ TP!Front1 = Front1
      /\ \A S, n : TP!LeadingRun(S, n) <=> LeadingRun(S, n)
      /\ \A new, n : Emit(new, n) => TP!Emit(new, n)
      /\ TP!Arith = Arith /\ TP!Moves = Moves /\ TP!InstructionChar = InstructionChar
      /\ TP!IO_IN = IO_IN /\ TP!IO_OUT = IO_OUT
      /\ \A op, imm, off : TP!Instr(op, imm, off) = Instr(op, imm, off)
  BY DEF TP!Remaining, Remaining, TP!Translating, Translating, TP!AtEnd, AtEnd, TP!Front1, Front1,
     TP!LeadingRun, LeadingRun, TP!Emit, Emit, TP!Arith, Arith, TP!Moves, Moves,
     TP!InstructionChar, InstructionChar, TP!IO_IN, IO_IN, TP!IO_OUT, IO_OUT, TP!Instr, Instr
<1>6. ValidateChar \/ ValidateEnd => TP!ValidateChar \/ TP!ValidateEnd
  BY <1>5, SameCounts DEF ValidateChar, TP!ValidateChar, ValidateEnd, TP!ValidateEnd
<1>7. MulLoop => TP!MulLoop
  BY <1>1, <1>2, <1>3, <1>5, SameMulCode DEF MulLoop, TP!MulLoop
<1>8. ScanLoop \/ SetZeroLoop => TP!ScanLoop \/ TP!SetZeroLoop
  BY <1>1, <1>2, <1>3, <1>5, SameCounts DEF ScanLoop, TP!ScanLoop, SetZeroLoop, TP!SetZeroLoop
<1>9. OpenLoop \/ CloseLoop => TP!OpenLoop \/ TP!CloseLoop
  BY <1>4, <1>5 DEF OpenLoop, TP!OpenLoop, CloseLoop, TP!CloseLoop
<1>10. AddRun \/ MoveRun => TP!AddRun \/ TP!MoveRun
  BY <1>5, SameCounts DEF AddRun, TP!AddRun, MoveRun, TP!MoveRun
<1>11. Output \/ Input \/ Skip \/ Finish => TP!Output \/ TP!Input \/ TP!Skip \/ TP!Finish
  BY <1>5 DEF Output, TP!Output, Input, TP!Input, Skip, TP!Skip, Finish, TP!Finish
<1> QED
  BY <1>6, <1>7, <1>8, <1>9, <1>10, <1>11 DEF CallStep, TP!CallStep

\* A step of translate keeps its invariant.
LEMMA CallKeeps ==
  ASSUME IInv, CallStep
  PROVE  IInv'
<1>1. TP!IInv /\ [TP!Next]_(TP!vars)
  BY SameIInv, SameStep DEF TP!Next
<1>2. TP!IInv'
  BY <1>1, TP!NextKeeps, CellModAssumption, MemSizeAssumption, InputsAssumption, SourcesAssumption,
     SameBasics
<1>3. TP!IInv' <=> IInv'
  BY SameIInv, PTL
<1> QED
  BY <1>2, <1>3

\* The code stays once it is complete.
LEMMA StaysDone == Done /\ UNCHANGED <<vars, origin>> => Done'
<1> SUFFICES ASSUME Done, UNCHANGED <<vars, origin>> PROVE Done'
  OBVIOUS
<1>1. IInv'
  <2>1. TP!IInv /\ [TP!Next]_(TP!vars)
    BY SameIInv DEF Done, vars, TP!vars
  <2>2. TP!IInv'
    BY <2>1, TP!NextKeeps, CellModAssumption, MemSizeAssumption, InputsAssumption,
       SourcesAssumption, SameBasics
  <2>3. TP!IInv' <=> IInv'
    BY SameIInv, PTL
  <2> QED
    BY <2>2, <2>3
<1>2. Translated /\ pos = Len(src) /\ phase = "done"
  BY DEF Done, TransInv
<1>3. Translated' <=> PieceInv(src', bitcode', origin', pos') /\ JumpInv(src', bitcode', origin', pos', stack')
  BY DEF Translated
<1>4. UNCHANGED <<src, phase, pos, bitcode, stack, origin>>
  BY DEF vars
<1>5. Translated'
  BY <1>2, <1>3, <1>4 DEF Translated
<1> QED
  BY <1>1, <1>2, <1>4, <1>5 DEF Done, TransInv

\* What DirectBFProofs shows of bf is what its steps need.
LEMMA DirectSound == DP!DirectInv => Sound
<1> SUFFICES ASSUME DP!DirectInv PROVE Sound
  OBVIOUS
<1>1. /\ src \in Seq(Char) /\ c \in 0 .. Len(src)
      /\ dptr \in Address /\ dmemory \in [Address -> Cell]
      /\ dinput \in Seq(Cell) /\ doutput \in Seq(Cell)
  BY SameBasics DEF DP!DirectInv, DP!NothingUndefined, DP!TypeOK, Address, Cell
<1>2. ASSUME mode = "running" PROVE Balanced(src)
  BY <1>2, SameCountsD DEF DP!DirectInv, DP!BracketInv
<1>3. ASSUME mode = "running", NEW k \in 1 .. Len(src), src[k] = "["
      PROVE  /\ D!MatchingClose(src, k) \in k + 1 .. Len(src)
             /\ Partners(src, k, D!MatchingClose(src, k))
  <2>1. \A t, n : D!Closes(t, n) = DP!Closes(t, n)
    BY SameCountsD DEF D!Closes, DP!Closes
  <2>2. D!MatchingClose(src, k) = DP!MatchingClose(src, k)
    BY <2>1 DEF D!MatchingClose, DP!MatchingClose, D!Min, DP!Min
  <2>3. DP!Balanced(src) /\ src \in Seq(DP!Char)
    BY <1>1, <1>2, <1>3, SameCountsD, SameBasics
  <2>4. DP!MatchingClose(src, k) \in k + 1 .. Len(src) /\ DP!Partners(src, k, DP!MatchingClose(src, k))
    BY <1>3, <2>3, DirectAssumptions, DP!ScanFindsPartner
  <2> QED
    BY <2>2, <2>4, SameCountsD
<1> QED
  BY <1>1, <1>2, <1>3 DEF Sound

\* The two instances of bf take the same steps.
LEMMA SameInterprete ==
  /\ D!Interprete => DP!Interprete
  /\ D!Open => DP!Open
<1>1. \A t, k : D!Closes(t, k) = DP!Closes(t, k)
  BY SameCountsD DEF D!Closes, DP!Closes
<1>2. \A t, k : D!MatchingClose(t, k) = DP!MatchingClose(t, k)
  BY <1>1 DEF D!MatchingClose, DP!MatchingClose, D!Min, DP!Min
<1>3. D!Open => DP!Open
  BY <1>1, <1>2 DEF D!Open, DP!Open, D!Reads, DP!Reads, D!NoIO, DP!NoIO
<1>4. D!Close => DP!Close
  BY DEF D!Close, DP!Close, D!Reads, DP!Reads, D!NoIO, DP!NoIO, D!Last, DP!Last, D!Front, DP!Front
<1>5. \A ch, d : /\ D!AddTo(ch, d) => DP!AddTo(ch, d)
                 /\ D!MoveBy(ch, d) => DP!MoveBy(ch, d)
  BY DEF D!AddTo, DP!AddTo, D!MoveBy, DP!MoveBy, D!Reads, DP!Reads, D!NoIO, DP!NoIO,
     D!NextChar, DP!NextChar
<1>6. D!In \/ D!Out \/ D!Other \/ D!Finish => DP!In \/ DP!Out \/ DP!Other \/ DP!Finish
  BY DEF D!In, DP!In, D!Out, DP!Out, D!Other, DP!Other, D!Finish, DP!Finish,
     D!Reads, DP!Reads, D!NoIO, DP!NoIO, D!NextChar, DP!NextChar
<1> QED
  BY <1>3, <1>4, <1>5, <1>6 DEF D!Interprete, DP!Interprete

\* bf starts with a balanced source: the one translate has accepted.
LEMMA DirectStarts ==
  ASSUME src \in Seq(Char), Balanced(src), D!Start, c = 0, dstack = <<>>,
         dptr = 0, dmemory = D!BlankTape, dinput \in Seq(Cell), doutput = <<>>
  PROVE  /\ DP!DirectInv' /\ mode' = "running" /\ src' = src /\ c' = 0 /\ dptr' = 0
         /\ dmemory' = D!BlankTape /\ dinput' = dinput
<1>1. DP!BlankTape = D!BlankTape /\ DP!BlankTape = [a \in Address |-> 0]
  BY DEF DP!BlankTape, D!BlankTape, Address
<1>2. /\ mode = "options" /\ mode' = "running" /\ src' = src /\ c' = 0 /\ dptr' = 0
      /\ dmemory' = D!BlankTape /\ dinput' = dinput /\ dstack' = <<>> /\ doutput' = <<>>
  BY DEF D!Start
<1>3. DP!Start
  BY <1>1, <1>2 DEF D!Start, DP!Start
<1>4. 0 \in Address /\ 0 \in Cell /\ <<>> \in Seq(Cell) /\ <<>> \in Seq(1 .. Len(src)) /\ 0 \in 0 .. Len(src)
  BY CellModAssumption, MemSizeAssumption DEF Address, Cell
<1>5. DP!TypeOK
  BY <1>1, <1>2, <1>4, SameBasics DEF DP!TypeOK, Address, Cell
<1>6. DP!BracketInv
  BY <1>2, SameCountsD DEF DP!BracketInv
<1>7. DP!DirectInv
  BY <1>2, <1>5, <1>6 DEF DP!DirectInv, DP!NothingUndefined
<1>8. DP!DirectInv'
  BY <1>3, <1>7, DirectAssumptions, DP!StartKeeps
<1> QED
  BY <1>2, <1>8

\* A step of bf obeys the text, or ends at the end of it.
LEMMA DirectObeys ==
  ASSUME DP!DirectInv, D!Interprete
  PROVE  DP!DirectInv' /\ Stepped
<1>1. /\ src \in Seq(Char) /\ Len(src) \in Nat /\ c \in 0 .. Len(src) /\ c \in Int
      /\ dptr \in Address /\ dptr \in Int /\ dmemory \in [Address -> Cell]
      /\ Home \in Cell /\ Home \in Int
  BY DirectSound, DirectTypes
<1>2. DP!Interprete
  BY SameInterprete
<1>3. DP!DirectInv'
  BY <1>2, DirectAssumptions, DP!NextKeepsDirectInv DEF DP!Next
<1>4. mode = "running" /\ src' = src
  BY DEF D!Interprete, D!AddTo, D!MoveBy, D!Open, D!Close, D!In, D!Out, D!Other, D!Finish,
     D!Reads, D!NextChar
<1>5. Balanced(src)
  BY <1>4, DirectSound, DirectTypes
<1>6. ASSUME c < Len(src)
      PROVE  /\ c + 1 \in DOMAIN src
             /\ Net(src, "+", "-", {c + 1}) = IF src[c + 1] = "+" THEN 1 ELSE IF src[c + 1] = "-" THEN -1 ELSE 0
             /\ Net(src, ">", "<", {c + 1}) = IF src[c + 1] = ">" THEN 1 ELSE IF src[c + 1] = "<" THEN -1 ELSE 0
  <2>1. c + 1 \in DOMAIN src
    BY <1>1, <1>6
  <2> QED
    BY <1>1, <2>1, NetOfOne
<1>7. Obeys \/ Ends
  <2>7. CASE D!AddTo("+", 1) \/ D!AddTo("-", -1)
    <3>1. PICK ch \in {"+", "-"} : D!AddTo(ch, IF ch = "+" THEN 1 ELSE -1)
      BY <2>7
    <3>2. c < Len(src) /\ src[c + 1] = ch
      BY <3>1 DEF D!AddTo, D!Reads
    <3>3. Net(src, "+", "-", {c + 1}) = IF ch = "+" THEN 1 ELSE -1
      BY <1>6, <3>2
    <3>4. Adds
      BY <3>1, <3>2, <3>3 DEF D!AddTo, D!Reads, D!NextChar, D!NoIO, Adds, Quietly, Arith
    <3>5. mode' = "running"
      BY <1>4, <3>1 DEF D!AddTo, D!NextChar
    <3> QED
      BY <1>4, <3>2, <3>4, <3>5 DEF Obeys
  <2>8. CASE D!MoveBy(">", 1) \/ D!MoveBy("<", -1)
    <3>1. PICK ch \in {">", "<"} : D!MoveBy(ch, IF ch = ">" THEN 1 ELSE -1)
      BY <2>8
    <3>2. c < Len(src) /\ src[c + 1] = ch
      BY <3>1 DEF D!MoveBy, D!Reads
    <3> DEFINE d == IF ch = ">" THEN 1 ELSE -1
    <3>3. Net(src, ">", "<", {c + 1}) = d
      BY <1>6, <3>2
    <3>4. dptr' = ((dptr + d) % WordMod) % MemSize
      BY <3>1 DEF D!MoveBy
    <3>5. dptr + d \in Int
      BY <1>1
    <3> HIDE DEF d
    <3>6. dptr' = (dptr + d) % MemSize
      <4> DEFINE z == dptr + d
      <4>1. z \in Int /\ dptr' = (z % WordMod) % MemSize
        BY <3>4, <3>5
      <4> HIDE DEF z
      <4>2. dptr' = z % MemSize
        BY <4>1, ModMod, WordAssumption, MemSizeAssumption
      <4> QED
        BY <4>2 DEF z
    <3>7. Shifts
      BY <3>1, <3>2, <3>3, <3>6 DEF D!MoveBy, D!Reads, D!NextChar, D!NoIO, Shifts, Quietly, Moves
    <3>8. mode' = "running"
      BY <1>4, <3>1 DEF D!MoveBy, D!NextChar
    <3> QED
      BY <1>4, <3>2, <3>7, <3>8 DEF Obeys
  <2>9. CASE D!In \/ D!Out \/ D!Other
    <3>1. c < Len(src) /\ mode' = "running"
      BY <1>4, <2>9 DEF D!In, D!Out, D!Other, D!Reads, D!NextChar
    <3>2. Reads \/ Writes \/ Ignores
      BY <2>9 DEF D!In, D!Out, D!Other, D!Reads, D!NextChar, D!NoIO, Reads, Writes, Ignores, Quietly
    <3> QED
      BY <1>4, <3>1, <3>2 DEF Obeys
  <2>10. CASE D!Open
    <3>1. c < Len(src) /\ src[c + 1] = "[" /\ UNCHANGED <<dptr, dmemory>> /\ Quietly
      BY <2>10 DEF D!Open, D!Reads, D!NoIO, Quietly
    <3> DEFINE k == c + 1
               m == DP!MatchingClose(src, k)
    <3>2. DP!Open
      BY <2>10, SameInterprete
    <3>3. k \in 1 .. Len(src) /\ src[k] = "["
      BY <1>1, <3>1
    <3>4. DP!Closes(src, k) # {} /\ m \in k + 1 .. Len(src) /\ Partners(src, k, m)
      <4> HIDE DEF k
      <4>1. DP!Balanced(src) /\ src \in Seq(DP!Char)
        BY <1>1, <1>5, SameCountsD, SameBasics
      <4>2. DP!Closes(src, k) # {} /\ m \in k + 1 .. Len(src) /\ DP!Partners(src, k, m)
        BY <3>3, <4>1, DirectAssumptions, DP!ScanFindsPartner
      <4> QED
        BY <4>2, SameCountsD
    <3>5. mode' = "running" /\ c' = IF Home # 0 THEN k ELSE m
      BY <1>4, <3>2, <3>4 DEF DP!Open, Home
    <3>6. c' \in 1 .. Len(src)
      BY <1>1, <3>3, <3>4, <3>5
    <3> HIDE DEF m
    <3>7. Lands(c, c')
      BY <3>1, <3>4, <3>5 DEF Lands
    <3> QED
      BY <1>4, <3>1, <3>5, <3>6, <3>7 DEF Obeys, Branches
  <2>11. CASE D!Close
    <3>1. c < Len(src) /\ src[c + 1] = "]" /\ UNCHANGED <<dptr, dmemory>> /\ Quietly
      BY <2>11 DEF D!Close, D!Reads, D!NoIO, Quietly
    <3>2. DP!Reads("]")
      BY <2>11 DEF D!Close, D!Reads, DP!Reads
    <3>3. /\ dstack # <<>> /\ DP!Last(dstack) \in 1 .. Len(src)
          /\ DP!Partners(src, DP!Last(dstack), c + 1)
      BY <3>2, DirectAssumptions, DP!TopIsPartner
    <3>4. DP!Last(dstack) = D!Last(dstack)
      BY DEF DP!Last, D!Last
    <3>5. mode' = "running" /\ c' = IF Home # 0 THEN DP!Last(dstack) ELSE c + 1
      BY <1>4, <2>11, <3>3, <3>4 DEF D!Close, Home
    <3>6. c' \in 1 .. Len(src)
      BY <1>1, <3>1, <3>3, <3>5
    <3>7. Lands(c, c')
      BY <3>1, <3>3, <3>5, SameCountsD DEF Lands
    <3> QED
      BY <1>4, <3>1, <3>5, <3>6, <3>7 DEF Obeys, Branches
  <2>12. CASE D!Finish
    BY <1>4, <2>12 DEF D!Finish, D!NoIO, Ends, Quietly
  <2> QED
    BY <2>7, <2>8, <2>9, <2>10, <2>11, <2>12 DEF D!Interprete
<1>8. Sound'
  <2>1. (DP!DirectInv => Sound)'
    BY DirectSound, PTL
  <2> QED
    BY <1>3, <2>1
<1> QED
  BY <1>3, <1>4, <1>7, <1>8 DEF Stepped

-----------------------------------------------------------------------------
(***************************************************************************)
(* The invariant.                                                          *)
(***************************************************************************)

\* While both run: who is where, and what the one whose turn it is has to do.
ExecInv ==
  /\ turn \in {"machine", "direct"} => mode = "running" /\ pc \in Nat /\ pc < Len(bitcode)
  /\ turn = "machine" => IF Boundary(pc) THEN Met ELSE Middle
  /\ turn = "direct" => Following \/ Ending
  /\ turn = "over" => status = "halted" /\ Agree

\* Nothing has run before the source is translated.
Waiting ==
  /\ mode = "options" /\ c = 0 /\ dstack = <<>> /\ dptr = 0 /\ dmemory = D!BlankTape
  /\ dinput = input /\ input \in Seq(Cell)
  /\ output = <<>> /\ doutput = <<>> /\ said = <<>>

\* The code so far, and who may do what.
LInv ==
  /\ IInv /\ TransInv
  /\ turn \in {"translate", "machine", "direct", "over"}
  /\ turn = "translate" => Waiting
  /\ turn # "translate" => phase = "done" /\ said \in Seq(Cell) /\ DP!DirectInv
  /\ turn # "translate" /\ HomeUntouched => ExecInv

\* bf keeps its invariant when it is not its turn.
LEMMA DirectStays == DP!DirectInv /\ UNCHANGED <<src, dvars>> => DP!DirectInv'
<1> SUFFICES ASSUME DP!DirectInv, UNCHANGED <<src, dvars>> PROVE DP!DirectInv'
  OBVIOUS
<1>1. DP!DirectInv /\ [DP!Next]_(DP!dvars)
  BY DEF dvars, DP!dvars
<1> QED
  BY <1>1, DirectAssumptions, DP!NextKeepsDirectInv

\* Before translate.
LEMMA InitLInv == LockstepInit => LInv
<1> SUFFICES ASSUME LockstepInit PROVE LInv
  OBVIOUS
<1>1. /\ src \in Seq(Char) /\ Len(src) \in Nat /\ phase = "validate" /\ pos = 0 /\ open = 0
      /\ bitcode = <<>> /\ stack = <<>> /\ origin = <<>> /\ turn = "translate"
      /\ input \in Seq(Cell)
  BY SourcesAssumption, InputsAssumption DEF LockstepInit
<1>2. TypeOK
  <2>1. 0 \in 0 .. Len(src)
    BY <1>1
  <2> QED
    BY <1>1, <2>1 DEF TypeOK, Phases
<1>3. ValidateInv
  <2>1. Depth(src, 0) = 0 /\ \A k \in 0 .. 0 : k = 0
    BY <1>1, DepthType
  <2> QED
    BY <1>1, <2>1 DEF ValidateInv
<1>4. CodeInv(bitcode, stack)
  <2>1. TP!CodeInv(<<>>, <<>>)
    BY TP!EmptyCode, CellModAssumption, MemSizeAssumption, InputsAssumption, SourcesAssumption,
       SameBasics
  <2>2. CodeInv(<<>>, <<>>)
    BY DEF CodeInv, Pending, NonePendingInside, JumpsMatched, WellNested
  <2> QED
    BY <1>1, <2>2
<1>5. IInv
  BY <1>1, <1>2, <1>3, <1>4 DEF IInv, NeverUnmatched, DepthInv, HaltInv
<1>6. TransInv
  BY <1>1 DEF TransInv
<1>7. Waiting
  BY <1>1 DEF LockstepInit, Waiting
<1> QED
  BY <1>1, <1>5, <1>6, <1>7 DEF LInv

\* A step of translate.
LEMMA TranslateKeeps == LInv /\ Translate => LInv'
<1> SUFFICES ASSUME LInv, Translate PROVE LInv'
  OBVIOUS
<1>1. /\ IInv /\ TransInv /\ CallStep /\ Records /\ turn = "translate" /\ turn' = turn /\ Waiting
      /\ UNCHANGED <<mvars, dvars, said>>
  BY DEF LInv, Translate, Records
<1>2. IInv'
  BY <1>1, CallKeeps
<1>4. TransInv'
  BY <1>1, <1>2, TransKeeps
<1>3. Waiting'
  BY <1>1 DEF Waiting, mvars, dvars, D!BlankTape
<1> QED
  BY <1>1, <1>2, <1>3, <1>4 DEF LInv

\* Both begin before the first piece.
LEMMA StartKeeps == LInv /\ StartBoth => LInv'
<1> SUFFICES ASSUME LInv, StartBoth PROVE LInv'
  OBVIOUS
<1>1. /\ IInv /\ TransInv /\ turn = "translate" /\ phase = "done" /\ turn' = "machine" /\ Waiting
      /\ memory' = M!BlankMemory /\ ptr' = 0 /\ pc' = 0 /\ status' = "running"
      /\ UNCHANGED <<input, output>> /\ D!Start /\ UNCHANGED <<vars, origin, target, said>>
  BY DEF LInv, StartBoth, M!ResetState
<1>2. Done /\ Done'
  BY <1>1, StaysDone DEF Done
<1>3. IInv' /\ TransInv' /\ phase' = "done"
  BY <1>2 DEF Done
<1>4. src \in Seq(Char) /\ Balanced(src)
  BY <1>1, <1>2, DoneFacts DEF IInv, DepthInv
<1>5. /\ mode = "options" /\ c = 0 /\ dstack = <<>> /\ dptr = 0 /\ dmemory = D!BlankTape
      /\ dinput = input /\ input \in Seq(Cell) /\ output = <<>> /\ doutput = <<>> /\ said = <<>>
  BY <1>1 DEF Waiting
<1>6. /\ DP!DirectInv' /\ mode' = "running" /\ src' = src /\ c' = 0 /\ dptr' = 0
      /\ dmemory' = D!BlankTape /\ dinput' = dinput
  BY <1>1, <1>4, <1>5, DirectStarts
<1>7. said' \in Seq(Cell)
  BY <1>1, <1>5
<1>8. /\ bitcode' = bitcode /\ origin' = origin
      /\ Len(bitcode) \in Nat /\ Len(bitcode) >= 1 /\ Len(origin) = Len(bitcode)
      /\ PieceInv(src, bitcode, origin, Len(src))
  BY <1>1, <1>2, DoneFacts DEF vars
<1>9. Met'
  <2>1. Blank(src, 0, origin[1])
    <3>1. Blank(src, 0, Behind(origin, Len(src), 0))
      BY <1>8 DEF PieceInv
    <3>2. 0 < Len(origin) /\ 0 + 1 = 1
      BY <1>8
    <3> QED
      BY <3>1, <3>2 DEF Behind
  <2>2. pc' + 1 = 1
    BY <1>1
  <2>3. AtPiece(pc + 1)'
    <3>1. pc' + 1 = 1 /\ Blank(src', c', origin'[1])
      BY <1>6, <1>8, <2>1, <2>2
    <3> QED
      BY <3>1 DEF AtPiece
  <2>4. First(origin', pc' + 1)
    BY <2>2 DEF First
  <2>5. Agree'
    BY <1>1, <1>5, <1>6 DEF Agree, M!BlankMemory, D!BlankTape, M!Address
  <2> QED
    BY <1>1, <2>3, <2>4, <2>5 DEF Met
<1>10. ExecInv'
  <2>1. Boundary(pc')
    BY <1>1 DEF Boundary
  <2>2. pc' \in Nat /\ pc' < Len(bitcode')
    BY <1>1, <1>8
  <2>3. Boundary(pc)'
    BY <1>1 DEF Boundary
  <2> QED
    BY <1>1, <1>6, <1>9, <2>2, <2>3 DEF ExecInv
<1> QED
  BY <1>1, <1>3, <1>6, <1>7, <1>10 DEF LInv

\* A step of the machine.
LEMMA MachineStepKeeps == LInv /\ MachineStep => LInv'
<1> SUFFICES ASSUME LInv, MachineStep PROVE LInv'
  OBVIOUS
<1>1. /\ turn = "machine" /\ said' = <<>> /\ UNCHANGED <<src, phase, pos, open, stack, origin, dvars>>
      /\ turn' \in {"machine", "direct"}
  BY DEF MachineStep
<1>2. bitcode' = bitcode
  BY DEF MachineStep, M!Step, M!A, M!S, M!MUL, M!F, M!M, M!JE, M!JN, M!IO, M!Stop, M!Executes, M!Continue
<1>3. Done /\ DP!DirectInv
  BY <1>1 DEF LInv, Done
<1>8. Sound
  BY <1>3, DirectSound
<1>4. Done'
  <2>1. UNCHANGED <<vars, origin>>
    BY <1>1, <1>2 DEF vars
  <2> QED
    BY <1>3, <2>1, StaysDone
<1>5. DP!DirectInv'
  BY <1>1, <1>3, DirectStays
<1>6. said' \in Seq(Cell)
  BY <1>1
<1>7. ASSUME HomeUntouched' PROVE ExecInv'
  <2>1. HomeUntouched
    BY <1>2, <1>7 DEF HomeUntouched
  <2>2. ExecInv
    BY <1>1, <2>1 DEF LInv
  <2>3. mode = "running" /\ pc \in Nat /\ pc < Len(bitcode) /\ (Met \/ Middle)
    BY <1>1, <2>2 DEF ExecInv
  <2>4. /\ pc' \in Nat /\ pc' < Len(bitcode)
        /\ \/ turn' = "machine" /\ ~Boundary(pc') /\ Middle'
           \/ turn' = "direct" /\ (Following' \/ Ending')
    BY <1>3, <1>8, <2>1, <2>3, MachineMoves
  <2>5. Boundary(pc)' <=> Boundary(pc')
    BY <1>1 DEF Boundary
  <2>6. mode' = "running"
    BY <1>1, <2>3 DEF dvars
  <2> QED
    BY <1>2, <2>4, <2>5, <2>6 DEF ExecInv
<1> QED
  BY <1>1, <1>4, <1>5, <1>6, <1>7 DEF LInv, Done

\* A step of the interpreter.
LEMMA DirectStepKeeps == LInv /\ DirectStep => LInv'
<1> SUFFICES ASSUME LInv, DirectStep PROVE LInv'
  OBVIOUS
<1>1. turn = "direct"
  BY DEF DirectStep
<1>2. Done /\ DP!DirectInv /\ said \in Seq(Cell)
  BY <1>1 DEF LInv, Done
<1>7. Sound /\ DP!DirectInv' /\ Stepped
  <2>1. D!Interprete
    BY DEF DirectStep
  <2> QED
    BY <1>2, <2>1, DirectSound, DirectObeys
<1>3. /\ said' \in Seq(Cell)
      /\ UNCHANGED <<src, phase, pos, open, bitcode, stack, origin, target>>
      /\ UNCHANGED <<pc, ptr, memory, input, output, status>>
      /\ turn' = CASE mode' = "finished"                 -> "over"
                   [] status = "running" /\ c' = target -> "machine"
                   [] OTHER                              -> "direct"
  BY <1>2, <1>7, DirectFrame
<1>4. Done'
  <2>1. UNCHANGED <<vars, origin>>
    BY <1>3 DEF vars
  <2> QED
    BY <1>2, <2>1, StaysDone
<1>5. turn' \in {"machine", "direct", "over"}
  BY <1>3
<1>6. ASSUME HomeUntouched' PROVE ExecInv'
  <2>1. HomeUntouched
    BY <1>3, <1>6 DEF HomeUntouched
  <2>2. ExecInv
    BY <1>1, <2>1 DEF LInv
  <2>3. pc \in Nat /\ pc < Len(bitcode) /\ (Following \/ Ending)
    BY <1>1, <2>2 DEF ExecInv
  <2>4. CASE Following
    <3>1. /\ mode' = "running"
          /\ (turn' = "machine" /\ Met') \/ (turn' = "direct" /\ Following')
      BY <1>2, <1>7, <2>3, <2>4, Follows
    <3>2. Boundary(pc) /\ (Boundary(pc)' <=> Boundary(pc))
      <4>1. Boundary(pc)
        BY <2>3, <2>4, FirstIsBoundary DEF Following
      <4> QED
        BY <1>3, <4>1 DEF Boundary
    <3> QED
      BY <1>3, <2>3, <3>1, <3>2 DEF ExecInv
  <2>5. CASE Ending
    <3>1. \/ turn' = "over" /\ status' = "halted" /\ Agree'
          \/ turn' = "direct" /\ mode' = "running" /\ Ending'
      BY <1>2, <1>7, <2>5, EndsToo
    <3> QED
      BY <1>3, <2>3, <3>1 DEF ExecInv
  <2> QED
    BY <2>3, <2>4, <2>5
<1> QED
  BY <1>3, <1>4, <1>5, <1>6, <1>7 DEF LInv, Done

\* A step of nobody.
LEMMA StutterKeeps == LInv /\ UNCHANGED lvars => LInv'
<1> SUFFICES ASSUME LInv, UNCHANGED lvars PROVE LInv'
  OBVIOUS
<1>1. /\ UNCHANGED <<vars, origin>> /\ UNCHANGED <<src, dvars>>
      /\ UNCHANGED <<src, phase, pos, open, bitcode, stack, origin, target, turn, said>>
      /\ UNCHANGED <<pc, ptr, memory, input, output, status>>
      /\ UNCHANGED <<mode, c, dstack, dptr, dmemory, dinput, doutput>>
  BY DEF lvars, vars, mvars, dvars
<1>2. IInv'
  <2>1. TP!IInv /\ [TP!Next]_(TP!vars)
    BY <1>1, SameIInv DEF LInv, vars, TP!vars
  <2>2. TP!IInv'
    BY <2>1, TP!NextKeeps, CellModAssumption, MemSizeAssumption, InputsAssumption,
       SourcesAssumption, SameBasics
  <2>3. TP!IInv' <=> IInv'
    BY SameIInv, PTL
  <2> QED
    BY <2>2, <2>3
<1>3. TransInv'
  BY <1>1 DEF LInv, TransInv, Translated
<1>4. Waiting <=> Waiting'
  BY <1>1 DEF Waiting, D!BlankTape
<1>5. DP!DirectInv => DP!DirectInv'
  BY <1>1, DirectStays
<1>6. HomeUntouched <=> HomeUntouched'
  BY <1>1 DEF HomeUntouched
<1>7. (Boundary(pc) <=> Boundary(pc)') /\ (Agree <=> Agree') /\ (Ending <=> Ending')
  BY <1>1 DEF Boundary, Agree, Ending
<1>8. Met <=> Met'
  BY <1>1, <1>7 DEF Met, AtPiece, ScanEnd
<1>9. Middle <=> Middle'
  BY <1>1 DEF Middle, InGroup
<1>10. Following <=> Following'
  <2>1. \A q : MovesTo(q) <=> MovesTo(q)'
    BY <1>1 DEF MovesTo
  <2>2. Aimed <=> Aimed'
    BY <1>1 DEF Aimed, ScanEnd
  <2>3. (AddsTo <=> AddsTo') /\ (ReadsNext <=> ReadsNext')
    BY <1>1 DEF AddsTo, ReadsNext
  <2>4. Jumps <=> Jumps'
    BY <1>1, <2>1 DEF Jumps, Lands, Home
  <2>5. Clears <=> Clears'
    BY <1>1 DEF Clears
  <2>6. Multiplies <=> Multiplies'
    BY <1>1 DEF Multiplies
  <2> QED
    BY <1>1, <2>1, <2>2, <2>3, <2>4, <2>5, <2>6 DEF Following, Pursuing
<1>11. ExecInv <=> ExecInv'
  BY <1>1, <1>7, <1>8, <1>9, <1>10 DEF ExecInv
<1> QED
  BY <1>1, <1>2, <1>3, <1>4, <1>5, <1>6, <1>11 DEF LInv

\* LInv is inductive: what is known of the code, of bf, and of where the two
\* machines are holds in every state of Lockstep.
THEOREM LockstepInvariant == LockstepSpec => []LInv
<1>1. LInv /\ [LockstepNext]_lvars => LInv'
  BY TranslateKeeps, StartKeeps, MachineStepKeeps, DirectStepKeeps, StutterKeeps DEF LockstepNext
<1> QED
  BY <1>1, InitLInv, PTL DEF LockstepSpec

\* When both machines are at the same piece of the source, or both have ended,
\* they have the same pointer and tape, have read as much and wrote the same,
\* unless the code has a MUL onto the cell its loop counts down.
THEOREM MachinesAgree == LockstepSpec => []AgreeUnlessHomeTouched
<1>1. LInv => AgreeUnlessHomeTouched
  <2>1. LInv /\ Meeting /\ HomeUntouched => ExecInv
    BY DEF LInv, Meeting
  <2>2. ExecInv /\ Meeting => Agree
    BY DEF ExecInv, Meeting, Met
  <2> QED
    BY <2>1, <2>2 DEF AgreeUnlessHomeTouched
<1> QED
  BY <1>1, LockstepInvariant, PTL

\* The interpreter ends only when the machine has halted, under the same condition.
THEOREM MachinesEndTogether == LockstepSpec => []EndTogether
<1>1. LInv => EndTogether
  BY DEF LInv, ExecInv, EndTogether
<1> QED
  BY <1>1, LockstepInvariant, PTL
=============================================================================
