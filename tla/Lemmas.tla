------------------------------- MODULE Lemmas -------------------------------
(***************************************************************************)
(* Lemmas that the proofs of several components cite: remainders, least    *)
(* elements, the counting operators of BFSource and the ends of a loop.    *)
(***************************************************************************)
EXTENDS BFSource, FiniteSetTheorems, WellFoundedInduction, TLAPS

-----------------------------------------------------------------------------
(***************************************************************************)
(* Remainders.                                                             *)
(***************************************************************************)

\* The definition of a remainder.
LEMMA DivMod ==
  ASSUME NEW x \in Int, NEW m \in Nat \ {0}
  PROVE  /\ x % m \in 0 .. m - 1 /\ x % m \in Int
         /\ x = m * (x \div m) + (x % m) /\ x \div m \in Int
  BY SMT

\* Nothing else has its two properties.
LEMMA ModUnique ==
  ASSUME NEW x \in Int, NEW m \in Nat \ {0}, NEW q \in Int, NEW r \in 0 .. m - 1, x = m * q + r
  PROVE  x % m = r
<1> DEFINE d == x \div m
           e == x % m
<1>1. e \in 0 .. m - 1 /\ x = m * d + e /\ d \in Int
  BY DivMod
<1> HIDE DEF d, e
<1>2. m * (q - d) = e - r
  BY <1>1, SMT
<1>3. q - d >= 1 => m * (q - d) >= m
  BY <1>1, SMT
<1>4. q - d <= -1 => m * (q - d) <= -m
  BY <1>1, SMT
<1>5. q - d = 0
  BY <1>1, <1>2, <1>3, <1>4, SMT
<1>6. e = r
  BY <1>1, <1>2, <1>5, SMT
<1> QED
  BY <1>6 DEF e

\* A remainder may be taken before an addition too.
LEMMA ModPlus ==
  ASSUME NEW a \in Int, NEW b \in Int, NEW m \in Nat \ {0}
  PROVE  ((a % m) + b) % m = (a + b) % m
<1> DEFINE k == a \div m
           r == a % m
           s == (r + b) % m
           l == (r + b) \div m
<1>1. r \in 0 .. m - 1 /\ a = m * k + r /\ k \in Int
  BY DivMod
<1>2. r + b \in Int
  BY <1>1
<1>3. s \in 0 .. m - 1 /\ r + b = m * l + s /\ l \in Int
  BY <1>2, DivMod
<1> HIDE DEF k, r, s, l
<1>4. a + b = m * (k + l) + s
  BY <1>1, <1>3, SMT
<1>5. k + l \in Int /\ a + b \in Int
  BY <1>1, <1>3
<1>6. (a + b) % m = s
  BY <1>3, <1>4, <1>5, ModUnique
<1> QED
  BY <1>6 DEF s, r

\* A remainder may be taken away and a whole turn added instead.
LEMMA ModMinus ==
  ASSUME NEW a \in Int, NEW b \in Int, NEW m \in Nat \ {0}
  PROVE  ((a % m) + m - (b % m)) % m = (a - b) % m
<1> DEFINE j == a \div m
           e == a % m
           k == b \div m
           r == b % m
           x == e + m - r
           s == x % m
           l == x \div m
<1>1. e \in Int /\ a = m * j + e /\ j \in Int
  BY DivMod
<1>2. r \in Int /\ b = m * k + r /\ k \in Int
  BY DivMod
<1>3. x \in Int
  BY <1>1, <1>2
<1>4. s \in 0 .. m - 1 /\ x = m * l + s /\ l \in Int
  <2> HIDE DEF x
  <2> QED
    BY <1>3, DivMod
<1>5. x = e + m - r
  OBVIOUS
<1> HIDE DEF j, e, k, r, x, s, l
<1>6. a - b = m * (j - k + l - 1) + s
  <2>1. e - r = m * l + s - m
    BY <1>1, <1>2, <1>3, <1>4, <1>5
  <2>2. m * (j - k + l - 1) = m * j - m * k + m * l - m
    BY <1>1, <1>2, <1>4
  <2>3. m * j \in Int /\ m * k \in Int /\ m * l \in Int
    BY <1>1, <1>2, <1>4
  <2> QED
    BY <1>1, <1>2, <1>4, <2>1, <2>2, <2>3
<1>7. j - k + l - 1 \in Int /\ a - b \in Int
  BY <1>1, <1>2, <1>4
<1>8. (a - b) % m = s
  BY <1>4, <1>6, <1>7, ModUnique
<1> QED
  BY <1>8 DEF s, x, e, r

\* Both branches of wrap_offset add the offset around the tape.
LEMMA WrapArithmetic ==
  ASSUME NEW a \in Int, NEW off \in Int, NEW m \in Nat \ {0}
  PROVE  /\ off >= 0 => ((a % m) + (off % m)) % m = (a + off) % m
         /\ off < 0 => ((a % m) + m - ((-(off + 1) + 1) % m)) % m = (a + off) % m
<1>1. a % m \in Int /\ off % m \in Int
  BY DivMod
<1>2. ((a % m) + (off % m)) % m = (a + off) % m
  <2>1. ((a % m) + (off % m)) % m = (a + (off % m)) % m
    BY <1>1, ModPlus
  <2>2. ((off % m) + a) % m = (off + a) % m
    BY ModPlus
  <2> QED
    BY <1>1, <2>1, <2>2
<1>3. ((a % m) + m - ((-(off + 1) + 1) % m)) % m = (a + off) % m
  <2> DEFINE b == -(off + 1) + 1
  <2>1. b \in Int /\ a - b = a + off
    OBVIOUS
  <2> HIDE DEF b
  <2>2. ((a % m) + m - (b % m)) % m = (a - b) % m
    BY <2>1, ModMinus
  <2> QED
    BY <2>1, <2>2 DEF b
<1> QED
  BY <1>2, <1>3

\* A word that wraps first changes nothing on a tape whose size divides it.
LEMMA ModMod ==
  ASSUME NEW x \in Int, NEW w \in Nat \ {0}, NEW m \in Nat \ {0}, w % m = 0
  PROVE  (x % w) % m = x % m
<1> DEFINE q == x \div w
           r == x % w
           k == w \div m
           s == r % m
           l == r \div m
<1>1. r \in Int /\ x = w * q + r /\ q \in Int
  BY DivMod
<1>2. k \in Int /\ w = m * k
  BY DivMod
<1>3. s \in 0 .. m - 1 /\ r = m * l + s /\ l \in Int
  <2> HIDE DEF r
  <2> QED
    BY <1>1, DivMod
<1> HIDE DEF q, r, k, s, l
<1>4. x = m * (k * q + l) + s
  <2>1. w * q = m * (k * q)
    BY <1>1, <1>2, SMT
  <2>2. k * q \in Int
    BY <1>1, <1>2
  <2> DEFINE z == k * q
  <2>3. m * (z + l) = m * z + m * l
    <3> HIDE DEF z
    <3>1. z \in Int
      BY <2>2 DEF z
    <3> QED
      BY <1>3, <3>1, SMT
  <2> QED
    BY <1>1, <1>3, <2>1, <2>2, <2>3
<1>5. k * q + l \in Int
  BY <1>1, <1>2, <1>3
<1> HIDE DEF q
<1>6. x % m = s
  <2> DEFINE y == k * q + l
  <2>1. x = m * y + s /\ y \in Int
    BY <1>4, <1>5
  <2> HIDE DEF y
  <2> QED
    BY <1>3, <2>1, ModUnique
<1> QED
  BY <1>6 DEF s, r

\* It may be taken of a factor too.
LEMMA ModTimes ==
  ASSUME NEW a \in Int, NEW v \in Int, NEW b \in Int, NEW m \in Nat \ {0}
  PROVE  (a + v * (b % m)) % m = (a + v * b) % m
<1> DEFINE q == b \div m
           r == b % m
           y == a + v * r
           s == y % m
           l == y \div m
<1>1. r \in Int /\ b = m * q + r /\ q \in Int
  BY DivMod
<1>2. y \in Int /\ v * r \in Int /\ v * q \in Int
  <2>1. \A j, k \in Int : j * k \in Int
    OBVIOUS
  <2> QED
    BY <1>1, <2>1
<1>3. s \in 0 .. m - 1 /\ y = m * l + s /\ l \in Int
  <2> HIDE DEF y
  <2> QED
    BY <1>2, DivMod
<1>4. y = a + v * r
  OBVIOUS
<1> HIDE DEF q, r, y, s, l
<1>5. v * b = m * (v * q) + v * r
  BY <1>1, SMT
<1>6. a + v * b = m * (v * q + l) + s
  <2> DEFINE z == v * q
             w == v * r
  <2>1. z \in Int /\ w \in Int /\ v * b = m * z + w /\ y = a + w
    BY <1>2, <1>4, <1>5
  <2> HIDE DEF z, w
  <2>2. a + v * b = m * z + m * l + s
    BY <1>3, <2>1
  <2>3. m * (z + l) = m * z + m * l
    BY <1>3, <2>1
  <2>4. a + v * b = m * (z + l) + s
    BY <2>2, <2>3
  <2> QED
    BY <2>4 DEF z
<1>7. v * q + l \in Int /\ a + v * b \in Int
  BY <1>2, <1>3, <1>6
<1>8. (a + v * b) % m = s
  <2> DEFINE k == v * q + l
             x == a + v * b
  <2>1. k \in Int /\ x \in Int /\ x = m * k + s
    BY <1>6, <1>7
  <2> HIDE DEF k, x
  <2>2. x % m = s
    BY <1>3, <2>1, ModUnique
  <2> QED
    BY <2>2 DEF x
<1> QED
  BY <1>8 DEF s, y, r

\* A place is reached again only by whole turns.
LEMMA ModReturn ==
  ASSUME NEW m \in Nat \ {0}, NEW h \in 0 .. m - 1, NEW d \in Int, (h + d) % m = h
  PROVE  d % m = 0
<1> DEFINE x == h + d
           q == x \div m
<1>1. x \in Int
  OBVIOUS
<1>2. x = m * q + h /\ q \in Int
  <2> HIDE DEF x
  <2>1. x % m = h
    BY DEF x
  <2> QED
    BY <1>1, <2>1, DivMod
<1> HIDE DEF q
<1>3. d = m * q + 0
  BY <1>2
<1>4. 0 \in 0 .. m - 1
  OBVIOUS
<1> QED
  BY <1>2, <1>3, <1>4, ModUnique

\* What is in the range already is its own remainder.
LEMMA ModSmall ==
  ASSUME NEW m \in Nat \ {0}, NEW x \in 0 .. m - 1
  PROVE  x % m = x /\ 0 % m = 0
<1>1. x = m * 0 + x /\ 0 = m * 0 + 0 /\ 0 \in 0 .. m - 1 /\ x \in Int
  OBVIOUS
<1>2. x % m = x
  BY <1>1, ModUnique
<1>3. 0 % m = 0
  BY <1>1, ModUnique
<1> QED
  BY <1>2, <1>3

-----------------------------------------------------------------------------
(***************************************************************************)
(* Least elements.                                                         *)
(***************************************************************************)

\* The sets 1 .. k are ordered by inclusion as the numbers k are.
LEMMA LeastExists ==
  ASSUME NEW S \in SUBSET Nat, S # {}
  PROVE  \E m \in S : \A n \in S : m <= n
<1> DEFINE T == {1 .. k : k \in S}
           R == StrictSubsetOrdering(Nat)
           F == FiniteSubsetsOf(Nat)
<1>1. T \subseteq F /\ T # {}
  <2>1. \A k \in S : 1 .. k \subseteq Nat /\ IsFiniteSet(1 .. k)
    BY FS_Interval
  <2> QED
    BY <2>1 DEF FiniteSubsetsOf
<1>2. IsWellFoundedOn(R, F)
  BY FS_StrictSubsetOrderingWellFounded
<1>3. PICK x \in T : \A y \in T : ~ (<<y, x>> \in R)
  <2> HIDE DEF T, R, F
  <2> QED
    BY <1>1, <1>2, WFMin
<1>4. PICK m \in S : x = 1 .. m
  BY <1>3
<1>5. ASSUME NEW n \in S, n < m
      PROVE  FALSE
  <2>1. 1 .. n \subseteq 1 .. m /\ 1 .. n # 1 .. m
    <3>1. m \in 1 .. m /\ m \notin 1 .. n
      BY <1>5
    <3> QED
      BY <1>5, <3>1
  <2>2. 1 .. n \in SUBSET Nat /\ 1 .. m \in SUBSET Nat
    OBVIOUS
  <2>3. <<1 .. n, 1 .. m>> \in R
    BY <2>1, <2>2 DEF StrictSubsetOrdering
  <2> QED
    BY <1>3, <1>4, <1>5, <2>3
<1> QED
  BY <1>5

-----------------------------------------------------------------------------
(***************************************************************************)
(* Counting characters.                                                    *)
(***************************************************************************)

\* The occurrences counted by Net: positions of ch in t, inside I.
Places(t, ch, I) == {i \in I \cap DOMAIN t : t[i] = ch}

\* A text has finitely many positions, so the counts are natural numbers.
LEMMA PlacesFinite ==
  ASSUME NEW t \in Seq(Char), NEW ch, NEW I
  PROVE  /\ IsFiniteSet(Places(t, ch, I))
         /\ Cardinality(Places(t, ch, I)) \in Nat
<1>1. DOMAIN t = 1 .. Len(t) /\ Len(t) \in Nat
  OBVIOUS
<1>2. IsFiniteSet(1 .. Len(t))
  BY <1>1, FS_Interval
<1>3. Places(t, ch, I) \subseteq 1 .. Len(t)
  BY <1>1 DEF Places
<1> QED
  BY <1>2, <1>3, FS_Subset, FS_CardinalityType

\* count_net returns a number.
LEMMA NetType ==
  ASSUME NEW t \in Seq(Char), NEW up, NEW down, NEW I
  PROVE  Net(t, up, down, I) \in Int
<1>1. Net(t, up, down, I) = Cardinality(Places(t, up, I)) - Cardinality(Places(t, down, I))
  BY DEF Net, Places
<1> QED
  BY <1>1, PlacesFinite

\* The count over two disjoint sets of positions is the sum of the counts.
LEMMA PlacesSplit ==
  ASSUME NEW t \in Seq(Char), NEW ch, NEW I, NEW J, I \cap J = {}
  PROVE  Cardinality(Places(t, ch, I \cup J))
           = Cardinality(Places(t, ch, I)) + Cardinality(Places(t, ch, J))
<1> DEFINE P == Places(t, ch, I)
           Q == Places(t, ch, J)
<1>1. Places(t, ch, I \cup J) = P \cup Q
  BY DEF Places
<1>2. P \cap Q = {}
  BY DEF Places
<1>3. IsFiniteSet(P) /\ Cardinality(P) \in Nat /\ IsFiniteSet(Q) /\ Cardinality(Q) \in Nat
  BY PlacesFinite
<1> HIDE DEF P, Q
<1>4. Cardinality(P \cap Q) = 0
  BY <1>2, FS_EmptySet
<1>5. Cardinality(P \cup Q) = Cardinality(P) + Cardinality(Q) - Cardinality(P \cap Q)
  BY <1>3, FS_Union
<1>6. Cardinality(P \cup Q) = Cardinality(P) + Cardinality(Q)
  BY <1>3, <1>4, <1>5
<1> QED
  BY <1>1, <1>6 DEF P, Q

\* The net count is additive in the same way.
LEMMA NetSplit ==
  ASSUME NEW t \in Seq(Char), NEW up, NEW down, NEW I, NEW J, I \cap J = {}
  PROVE  Net(t, up, down, I \cup J) = Net(t, up, down, I) + Net(t, up, down, J)
<1> DEFINE Count(ch, K) == Cardinality(Places(t, ch, K))
<1>1. /\ Net(t, up, down, I) = Count(up, I) - Count(down, I)
      /\ Net(t, up, down, J) = Count(up, J) - Count(down, J)
      /\ Net(t, up, down, I \cup J) = Count(up, I \cup J) - Count(down, I \cup J)
  BY DEF Net, Places
<1>2. /\ Count(up, I) \in Nat /\ Count(down, I) \in Nat
      /\ Count(up, J) \in Nat /\ Count(down, J) \in Nat
  BY PlacesFinite
<1>3. Count(up, I \cup J) = Count(up, I) + Count(up, J)
  BY PlacesSplit
<1>4. Count(down, I \cup J) = Count(down, I) + Count(down, J)
  BY PlacesSplit
<1> HIDE DEF Count
<1> QED
  BY <1>1, <1>2, <1>3, <1>4

\* Positions that hold neither character count nothing.
LEMMA NetOfOthers ==
  ASSUME NEW t \in Seq(Char), NEW up, NEW down, NEW I,
         \A i \in I \cap DOMAIN t : t[i] # up /\ t[i] # down
  PROVE  Net(t, up, down, I) = 0
<1>1. Places(t, up, I) = {} /\ Places(t, down, I) = {}
  BY DEF Places
<1>2. Cardinality(Places(t, up, I)) = 0 /\ Cardinality(Places(t, down, I)) = 0
  BY <1>1, FS_EmptySet
<1> QED
  BY <1>2 DEF Net, Places

\* Two sets with the same positions of the two characters count the same.
LEMMA NetSame ==
  ASSUME NEW t \in Seq(Char), NEW up, NEW down, NEW I, NEW J,
         \A i \in DOMAIN t : t[i] \in {up, down} => (i \in I <=> i \in J)
  PROVE  Net(t, up, down, I) = Net(t, up, down, J)
<1>1. Places(t, up, I) = Places(t, up, J) /\ Places(t, down, I) = Places(t, down, J)
  BY DEF Places
<1> QED
  BY <1>1 DEF Net, Places

\* One position counts one up, one down or nothing.
LEMMA NetOfOne ==
  ASSUME NEW t \in Seq(Char), NEW up, NEW down, up # down, NEW i \in DOMAIN t
  PROVE  Net(t, up, down, {i}) = IF t[i] = up THEN 1 ELSE IF t[i] = down THEN -1 ELSE 0
<1>1. \A ch : Places(t, ch, {i}) = IF t[i] = ch THEN {i} ELSE {}
  BY DEF Places
<1>2. Cardinality({i}) = 1 /\ Cardinality({}) = 0
  BY FS_Singleton, FS_EmptySet
<1>3. Cardinality(Places(t, up, {i})) = IF t[i] = up THEN 1 ELSE 0
  BY <1>1, <1>2
<1>4. Cardinality(Places(t, down, {i})) = IF t[i] = down THEN 1 ELSE 0
  BY <1>1, <1>2
<1>5. Net(t, up, down, {i}) = (IF t[i] = up THEN 1 ELSE 0) - (IF t[i] = down THEN 1 ELSE 0)
  BY <1>3, <1>4 DEF Net, Places
<1> QED
  BY <1>5

-----------------------------------------------------------------------------

\* Nothing is open before the first character.
LEMMA DepthType ==
  ASSUME NEW t \in Seq(Char), NEW k
  PROVE  Depth(t, k) \in Int /\ Depth(t, 0) = 0
<1>1. Depth(t, k) \in Int
  BY NetType DEF Depth
<1>2. 1 .. 0 = {}
  OBVIOUS
<1>3. Net(t, "[", "]", {}) = 0
  BY NetOfOthers
<1> QED
  BY <1>1, <1>2, <1>3 DEF Depth

\* Each character adds its own count to the depth.
LEMMA DepthStep ==
  ASSUME NEW t \in Seq(Char), NEW k \in 0 .. Len(t) - 1
  PROVE  /\ Depth(t, k + 1) = Depth(t, k) + Net(t, "[", "]", {k + 1})
         /\ Net(t, "[", "]", {k + 1}) = IF t[k + 1] = "[" THEN 1 ELSE IF t[k + 1] = "]" THEN -1 ELSE 0
<1>1. 1 .. k + 1 = (1 .. k) \cup {k + 1}
  OBVIOUS
<1>2. (1 .. k) \cap {k + 1} = {}
  OBVIOUS
<1>3. k + 1 \in DOMAIN t
  OBVIOUS
<1> QED
  BY <1>1, <1>2, <1>3, NetSplit, NetOfOne DEF Depth

\* A stretch without brackets leaves the depth as it is.
LEMMA DepthFlat ==
  ASSUME NEW t \in Seq(Char), NEW a \in 0 .. Len(t), NEW b \in a .. Len(t),
         \A i \in a + 1 .. b : t[i] # "[" /\ t[i] # "]"
  PROVE  Depth(t, b) = Depth(t, a)
<1>1. 1 .. b = (1 .. a) \cup (a + 1 .. b)
  OBVIOUS
<1>2. (1 .. a) \cap (a + 1 .. b) = {}
  OBVIOUS
<1>3. Net(t, "[", "]", a + 1 .. b) = 0
  BY NetOfOthers
<1>4. Depth(t, b) = Depth(t, a) + 0
  BY <1>1, <1>2, <1>3, NetSplit DEF Depth
<1> QED
  BY <1>4, DepthType

\* So does a whole loop that contains no other.
LEMMA DepthInnermost ==
  ASSUME NEW t \in Seq(Char), NEW a \in 0 .. Len(t) - 2, NEW b \in a + 2 .. Len(t),
         t[a + 1] = "[", t[b] = "]",
         \A i \in a + 2 .. b - 1 : t[i] # "[" /\ t[i] # "]"
  PROVE  Depth(t, b) = Depth(t, a)
<1>1. Depth(t, a + 1) = Depth(t, a) + 1
  <2>1. a \in 0 .. Len(t) - 1
    OBVIOUS
  <2> QED
    BY <2>1, DepthStep
<1>2. Depth(t, b - 1) = Depth(t, a + 1)
  <2>1. a + 1 \in 0 .. Len(t) /\ b - 1 \in a + 1 .. Len(t)
    OBVIOUS
  <2> QED
    BY <2>1, DepthFlat
<1>3. Depth(t, (b - 1) + 1) = Depth(t, b - 1) + (-1)
  <2>1. b - 1 \in 0 .. Len(t) - 1 /\ (b - 1) + 1 = b
    OBVIOUS
  <2> QED
    BY <2>1, DepthStep
<1> QED
  BY <1>1, <1>2, <1>3, DepthType

-----------------------------------------------------------------------------
(***************************************************************************)
(* The ends of a loop.                                                     *)
(***************************************************************************)

\* The character at position k, and the depth on both sides of it.
LEMMA DepthAround ==
  ASSUME NEW t \in Seq(Char), NEW k \in 1 .. Len(t)
  PROVE  /\ k \in Int /\ Len(t) \in Nat
         /\ Depth(t, k - 1) \in Int /\ Depth(t, k) \in Int
         /\ t[k] = "[" => Depth(t, k) = Depth(t, k - 1) + 1
         /\ t[k] = "]" => Depth(t, k) = Depth(t, k - 1) - 1
         /\ t[k] \notin {"[", "]"} => Depth(t, k) = Depth(t, k - 1)
<1> DEFINE p == k - 1
<1>1. p \in 0 .. Len(t) - 1 /\ p + 1 = k /\ Len(t) \in Nat
  OBVIOUS
<1> HIDE DEF p
<1>2. /\ Depth(t, p + 1) = Depth(t, p) + Net(t, "[", "]", {p + 1})
      /\ Net(t, "[", "]", {p + 1})
           = IF t[p + 1] = "[" THEN 1 ELSE IF t[p + 1] = "]" THEN -1 ELSE 0
  BY <1>1, DepthStep
<1>3. Depth(t, p) \in Int /\ Depth(t, k) \in Int
  BY DepthType
<1>4. Depth(t, k) = Depth(t, p) + (IF t[k] = "[" THEN 1 ELSE IF t[k] = "]" THEN -1 ELSE 0)
  BY <1>1, <1>2
<1>5. k \in Int
  OBVIOUS
<1> QED
  BY <1>1, <1>3, <1>4, <1>5 DEF p

\* Every loop of a balanced text ends: at the first place behind its '[' where
\* the depth is no longer greater than in front of it.
LEMMA LoopCloses ==
  ASSUME NEW t \in Seq(Char), Balanced(t), NEW i \in 1 .. Len(t), t[i] = "["
  PROVE  \E j \in i + 1 .. Len(t) : Partners(t, i, j)
<1> DEFINE a == Depth(t, i - 1)
           S == {j \in i + 1 .. Len(t) : Depth(t, j) <= a}
<1>1. i \in Int /\ Len(t) \in Nat /\ a \in Int /\ Depth(t, i) = a + 1
  BY DepthAround
<1>2. a >= 0 /\ Depth(t, Len(t)) = 0
  <2>1. i - 1 \in 0 .. Len(t)
    OBVIOUS
  <2> QED
    BY <2>1 DEF Balanced
<1> HIDE DEF a
<1>3. Len(t) \in S
  BY <1>1, <1>2
<1>4. PICK j \in S : \A k \in S : j <= k
  <2>1. S \in SUBSET Nat /\ S # {}
    BY <1>1, <1>3
  <2> HIDE DEF S
  <2> QED
    BY <2>1, LeastExists
<1>5. j \in 1 .. Len(t) /\ j > i /\ j \in Int /\ Depth(t, j) <= a
  BY <1>1
<1>6. ASSUME NEW k \in i .. j - 1
      PROVE  Depth(t, k) > a /\ Depth(t, k) \in Int
  <2>1. Depth(t, k) \in Int
    BY DepthType
  <2>2. CASE k = i
    BY <1>1, <2>2
  <2>3. CASE k # i
    <3>1. k \in i + 1 .. Len(t) /\ ~(j <= k)
      BY <1>1, <1>5, <2>3
    <3>2. k \notin S
      BY <1>4, <3>1
    <3> QED
      BY <1>1, <2>1, <3>1, <3>2
  <2> QED
    BY <2>1, <2>2, <2>3
<1>7. Depth(t, j - 1) > a
  BY <1>1, <1>5, <1>6
<1>8. t[j] = "]" /\ Depth(t, j) = a
  <2>1. /\ Depth(t, j - 1) \in Int /\ Depth(t, j) \in Int
        /\ t[j] = "[" => Depth(t, j) = Depth(t, j - 1) + 1
        /\ t[j] = "]" => Depth(t, j) = Depth(t, j - 1) - 1
        /\ t[j] \notin {"[", "]"} => Depth(t, j) = Depth(t, j - 1)
    BY <1>5, DepthAround
  <2> QED
    BY <1>1, <1>5, <1>7, <2>1
<1>9. Partners(t, i, j)
  BY <1>5, <1>6, <1>8 DEF Partners, a
<1> QED
  BY <1>9

\* A bracket has one partner.
LEMMA OnePartner ==
  ASSUME NEW t \in Seq(Char)
  PROVE  /\ \A i, j, k \in Nat : Partners(t, i, j) /\ Partners(t, i, k) => j = k
         /\ \A i, j, k \in Nat : Partners(t, i, j) /\ Partners(t, k, j) => i = k
<1>1. ASSUME NEW i \in Nat, NEW j \in Nat, NEW k \in Nat,
             Partners(t, i, j), Partners(t, i, k), j < k
      PROVE  FALSE
  <2>1. j \in i .. k - 1 /\ Depth(t, j) = Depth(t, k)
    BY <1>1 DEF Partners
  <2>2. Depth(t, j) > Depth(t, k) /\ Depth(t, j) \in Int
    BY <1>1, <2>1, DepthType DEF Partners
  <2> QED
    BY <2>1, <2>2
<1>2. ASSUME NEW i \in Nat, NEW j \in Nat, NEW k \in Nat,
             Partners(t, i, j), Partners(t, k, j), i < k
      PROVE  FALSE
  <2>1. k - 1 \in i .. j - 1 /\ Depth(t, k - 1) = Depth(t, j)
    BY <1>2 DEF Partners
  <2>2. Depth(t, k - 1) > Depth(t, j) /\ Depth(t, j) \in Int
    BY <1>2, <2>1, DepthType DEF Partners
  <2> QED
    BY <2>1, <2>2
<1>3. \A i, j, k \in Nat : Partners(t, i, j) /\ Partners(t, i, k) => j = k
  <2>1. \A j, k \in Nat : j < k \/ k < j \/ j = k
    OBVIOUS
  <2> QED
    BY <1>1, <2>1
<1>4. \A i, j, k \in Nat : Partners(t, i, j) /\ Partners(t, k, j) => i = k
  <2>1. \A j, k \in Nat : j < k \/ k < j \/ j = k
    OBVIOUS
  <2> QED
    BY <1>2, <2>1
<1> QED
  BY <1>3, <1>4

\* The '[' at position i is still open behind the first k characters.
OpenAt(t, i, k) ==
  /\ i \in 1 .. k /\ t[i] = "["
  /\ \A j \in i .. k : Depth(t, j) >= Depth(t, i)

\* It closes later.
LEMMA OpenClosesLater ==
  ASSUME NEW t \in Seq(Char), NEW k \in 0 .. Len(t), NEW i, OpenAt(t, i, k),
         NEW j \in i + 1 .. Len(t), Depth(t, j) = Depth(t, i - 1)
  PROVE  j > k
<1>1. i \in 1 .. Len(t) /\ k \in Int /\ j \in Int
  BY DEF OpenAt
<1>2. Depth(t, i) \in Int /\ Depth(t, j) \in Int /\ Depth(t, j) = Depth(t, i) - 1
  BY <1>1, DepthAround DEF OpenAt
<1> QED
  BY <1>1, <1>2 DEF OpenAt

\* A bracket just passed is open.
LEMMA OpenNow ==
  ASSUME NEW t \in Seq(Char), NEW i \in 1 .. Len(t), t[i] = "["
  PROVE  OpenAt(t, i, i)
<1>1. Depth(t, i) \in Int
  BY DepthType
<1> QED
  BY <1>1 DEF OpenAt

\* A character that does not end the loop leaves it open.
LEMMA OpenStays ==
  ASSUME NEW t \in Seq(Char), NEW k \in 0 .. Len(t) - 1, NEW i, OpenAt(t, i, k),
         Depth(t, k + 1) >= Depth(t, i)
  PROVE  OpenAt(t, i, k + 1)
  BY DEF OpenAt

\* So does a whole loop inside it.
LEMMA OpenOverLoop ==
  ASSUME NEW t \in Seq(Char), NEW k \in 0 .. Len(t), NEW i, OpenAt(t, i, k),
         NEW j \in 1 .. Len(t), Partners(t, k + 1, j)
  PROVE  OpenAt(t, i, j)
<1>1. i \in Int /\ 1 <= i /\ i <= k /\ k \in Int /\ j \in Int /\ k + 1 < j
  BY DEF OpenAt, Partners
<1>2. /\ Depth(t, i) \in Int /\ Depth(t, k) \in Int /\ Depth(t, k) >= Depth(t, i)
      /\ Depth(t, j) = Depth(t, k)
  <2>1. Depth(t, i) \in Int /\ Depth(t, k) \in Int
    BY DepthType
  <2>2. Depth(t, k) >= Depth(t, i)
    BY <1>1 DEF OpenAt
  <2>3. (k + 1) - 1 = k
    BY <1>1
  <2> QED
    BY <2>1, <2>2, <2>3 DEF Partners
<1>3. ASSUME NEW n \in i .. j
      PROVE  Depth(t, n) >= Depth(t, i)
  <2>1. Depth(t, n) \in Int
    BY DepthType
  <2>2. CASE n <= k
    BY <1>1, <2>2 DEF OpenAt
  <2>3. CASE n \in k + 1 .. j - 1
    <3>1. Depth(t, n) > Depth(t, j)
      BY <2>3 DEF Partners
    <3> QED
      BY <1>2, <2>1, <3>1
  <2>4. CASE n = j
    BY <1>2, <2>4
  <2> QED
    BY <1>1, <2>2, <2>3, <2>4
<1> QED
  BY <1>1, <1>3 DEF OpenAt

\* Of two open loops the deeper one begins later.
LEMMA DeeperIsInside ==
  ASSUME NEW t \in Seq(Char), NEW k \in 0 .. Len(t), NEW i, OpenAt(t, i, k),
         NEW n, OpenAt(t, n, k), Depth(t, i) < Depth(t, n)
  PROVE  OpenAt(t, i, n) /\ i < n
<1>1. i \in 1 .. k /\ n \in 1 .. k /\ k \in Int
  BY DEF OpenAt
<1>2. Depth(t, i) \in Int /\ Depth(t, n) \in Int
  BY DepthType
<1>3. i < n
  <2>1. SUFFICES ASSUME i >= n PROVE FALSE
    BY <1>1
  <2>2. Depth(t, i) >= Depth(t, n)
    BY <1>1, <2>1 DEF OpenAt
  <2> QED
    BY <1>2, <2>2
<1> QED
  BY <1>1, <1>3 DEF OpenAt

\* The ']' that comes next ends the open loop that is as deep as the place.
LEMMA NextCloses ==
  ASSUME NEW t \in Seq(Char), NEW k \in 0 .. Len(t) - 1, NEW i, OpenAt(t, i, k),
         t[k + 1] = "]", Depth(t, i) = Depth(t, k)
  PROVE  Partners(t, i, k + 1)
<1>1. i \in 1 .. Len(t) /\ k + 1 \in 1 .. Len(t) /\ i \in 1 .. k /\ k \in Int
  BY DEF OpenAt
<1>2. Depth(t, i) \in Int /\ Depth(t, i - 1) \in Int /\ Depth(t, i) = Depth(t, i - 1) + 1
  BY <1>1, DepthAround DEF OpenAt
<1>3. Depth(t, k + 1) = Depth(t, i - 1) /\ Depth(t, k + 1) = Depth(t, i) - 1
  <2> DEFINE m == k + 1
  <2>1. m \in 1 .. Len(t) /\ m - 1 = k /\ t[m] = "]"
    BY <1>1
  <2> HIDE DEF m
  <2>2. Depth(t, m) = Depth(t, m - 1) - 1
    BY <2>1, DepthAround
  <2>3. Depth(t, m) = Depth(t, i) - 1
    BY <2>1, <2>2
  <2>4. Depth(t, k + 1) = Depth(t, i) - 1
    BY <2>3 DEF m
  <2> QED
    BY <1>2, <2>4
<1>4. ASSUME NEW n \in i .. (k + 1) - 1
      PROVE  Depth(t, n) > Depth(t, k + 1)
  <2>1. n \in i .. k
    BY <1>1
  <2>2. Depth(t, n) \in Int /\ Depth(t, n) >= Depth(t, i)
    BY <2>1, DepthType DEF OpenAt
  <2> QED
    BY <1>2, <1>3, <2>2
<1> QED
  BY <1>1, <1>3, <1>4 DEF OpenAt, Partners

-----------------------------------------------------------------------------
(***************************************************************************)
(* A part of a text.                                                       *)
(***************************************************************************)

\* Going through a set of positions from the front, every number of them is
\* reached: at the first place by which enough have been met.
LEMMA TakenReaches ==
  ASSUME NEW L \in Nat, NEW I \in SUBSET (1 .. L)
  PROVE  /\ IsFiniteSet(I) /\ Cardinality(I) \in Nat
         /\ \A n \in 1 .. Cardinality(I) : \E i \in I : Cardinality(I \cap 1 .. i) = n
<1> DEFINE N == Cardinality(I)
           Taken(k) == Cardinality(I \cap 1 .. k)
<1>2. IsFiniteSet(I)
  <2>1. IsFiniteSet(1 .. L)
    BY FS_Interval
  <2> QED
    BY <2>1, FS_Subset
<1>3. N \in Nat
  BY <1>2, FS_CardinalityType
<1>4. \A k : IsFiniteSet(I \cap 1 .. k) /\ Taken(k) \in Nat
  <2> TAKE k
  <2>1. I \cap 1 .. k \subseteq I
    OBVIOUS
  <2>2. IsFiniteSet(I \cap 1 .. k)
    BY <1>2, <2>1, FS_Subset
  <2> QED
    BY <2>2, FS_CardinalityType
<1>5. Taken(0) = 0 /\ Taken(L) = N
  <2>1. I \cap 1 .. 0 = {}
    OBVIOUS
  <2>2. I \subseteq 1 .. L
    OBVIOUS
  <2>3. I \cap 1 .. L = I
    BY <2>2, Zenon
  <2> QED
    BY <2>1, <2>3, FS_EmptySet
<1>6. ASSUME NEW m \in 1 .. L
      PROVE  Taken(m) = Taken(m - 1) + (IF m \in I THEN 1 ELSE 0)
  <2> DEFINE p == m - 1
             Q == I \cap 1 .. p
  <2>1. I \cap 1 .. m = Q \cup (IF m \in I THEN {m} ELSE {}) /\ m \notin Q
    OBVIOUS
  <2>2. IsFiniteSet(Q) /\ Cardinality(Q) \in Nat
    BY <1>4
  <2> HIDE DEF Q
  <2>3. Cardinality(Q \cup {m}) = Cardinality(Q) + 1
    BY <2>1, <2>2, FS_AddElement
  <2>4. m \in I => Taken(m) = Cardinality(Q) + 1
    BY <2>1, <2>3
  <2>5. m \notin I => I \cap 1 .. m = Q
    BY <2>1
  <2>6. m \notin I => Taken(m) = Cardinality(Q)
    BY <2>5
  <2> HIDE DEF Taken
  <2>7. Taken(m) = Cardinality(Q) + (IF m \in I THEN 1 ELSE 0)
    BY <2>2, <2>4, <2>6
  <2> QED
    BY <2>7 DEF Q, Taken
<1>7. \A k : Taken(k) \in Nat
  BY <1>4
<1> HIDE DEF Taken, N
<1>8. ASSUME NEW n \in 1 .. N
      PROVE  \E i \in I : Taken(i) = n
  <2> DEFINE M == {k \in 0 .. L : Taken(k) >= n}
  <2>1. M \in SUBSET Nat /\ L \in M
    BY <1>3, <1>5
  <2>2. PICK m \in M : \A k \in M : m <= k
    <3> HIDE DEF M
    <3> QED
      BY <2>1, LeastExists
  <2>3. m \in 1 .. L /\ Taken(m) >= n
    BY <1>5
  <2>4. m - 1 \in 0 .. L /\ ~(m <= m - 1)
    BY <2>3
  <2>5. ~(Taken(m - 1) >= n)
    BY <2>2, <2>4
  <2>6. m \in I /\ Taken(m) = n
    BY <1>3, <1>6, <1>7, <2>3, <2>5
  <2> QED
    BY <2>6
<1> QED
  BY <1>2, <1>3, <1>8 DEF N, Taken

\* So there is a position for every place of the part.
LEMMA PickedType ==
  ASSUME NEW S, NEW t \in Seq(S), NEW I \in SUBSET DOMAIN t
  PROVE  /\ Picked(t, I) \in Seq({t[i] : i \in I})
         /\ Picked(t, I) \in Seq(S)
         /\ Cardinality(I) \in Nat /\ Len(Picked(t, I)) = Cardinality(I)
<1> DEFINE N == Cardinality(I)
<1>1. Len(t) \in Nat /\ DOMAIN t = 1 .. Len(t)
  OBVIOUS
<1>2. N \in Nat /\ \A n \in 1 .. N : \E i \in I : Cardinality(I \cap 1 .. i) = n
  BY <1>1, TakenReaches
<1>3. \A n \in 1 .. N : Picked(t, I)[n] \in {t[i] : i \in I}
  BY <1>2 DEF Picked
<1> HIDE DEF N
<1>4. Picked(t, I) = [n \in 1 .. N |-> Picked(t, I)[n]]
  BY DEF Picked, N
<1>5. {t[i] : i \in I} \subseteq S
  BY <1>1
<1>6. Picked(t, I) \in Seq({t[i] : i \in I}) /\ Picked(t, I) \in Seq(S)
  BY <1>2, <1>3, <1>4, <1>5, SMTT(30)
<1>7. Len(Picked(t, I)) = N
  BY <1>2, <1>4
<1> QED
  BY <1>2, <1>6, <1>7 DEF N
=============================================================================
