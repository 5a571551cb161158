--------------------------- MODULE AssembleProofs ---------------------------
(***************************************************************************)
(* Proofs about bit2bin and the pipeline of assemble.sh: a word means what *)
(* its line says, and the exit statuses tell whether anything was lost.    *)
(***************************************************************************)
EXTENDS Assemble, Lemmas, SequenceTheorems

-----------------------------------------------------------------------------
(***************************************************************************)
(* Fields.                                                                 *)
(***************************************************************************)

\* Two digits in base m.
LEMMA Digits ==
  ASSUME NEW m \in Nat \ {0}, NEW q \in Int, NEW r \in 0 .. m - 1
  PROVE  (m * q + r) % m = r /\ (m * q + r) \div m = q
<1> DEFINE x == m * q + r
           d == x \div m
<1>1. x \in Int /\ x = m * q + r
  BY SMT
<1> HIDE DEF x
<1>2. x % m = r
  BY <1>1, ModUnique
<1>3. x = m * d + r /\ d \in Int
  BY <1>1, <1>2, DivMod
<1> HIDE DEF d
<1>4. q - d >= 1 => m * (q - d) >= m
  BY <1>3, SMT
<1>5. q - d <= -1 => m * (q - d) <= -m
  BY <1>3, SMT
<1>6. m * (q - d) = 0
  BY <1>1, <1>3, SMT
<1>7. q = d
  BY <1>3, <1>4, <1>5, <1>6, SMT
<1> QED
  BY <1>2, <1>7 DEF x, d

\* A value that fits a signed field is read back from it.
LEMMA SignedRoundTrip ==
  ASSUME NEW mod \in Nat \ {0}, NEW value \in Int, FitsSigned(value, mod)
  PROVE  /\ EncodeSigned(value, mod) \in 0 .. mod - 1
         /\ DecodeSigned(EncodeSigned(value, mod), mod) = value
<1>1. value >= -(mod \div 2) /\ value <= (mod \div 2) - 1
  BY DEF FitsSigned
<1>2. mod \div 2 \in Nat /\ 2 * (mod \div 2) <= mod
  BY SMT
<1>3. CASE value >= 0
  <2>1. value \in 0 .. mod - 1 /\ value = mod * 0 + value /\ 0 \in Int
    BY <1>1, <1>2, <1>3
  <2>2. value % mod = value
    BY <2>1, ModUnique
  <2> QED
    BY <1>1, <2>1, <2>2 DEF EncodeSigned, DecodeSigned
<1>4. CASE value < 0
  <2> DEFINE field == value + mod
  <2>1. field \in 0 .. mod - 1 /\ value = mod * (-1) + field /\ -1 \in Int
    BY <1>1, <1>2, <1>4
  <2>2. ~(field < mod \div 2) /\ field - mod = value
    BY <1>1, <1>2
  <2> HIDE DEF field
  <2>3. value % mod = field
    BY <2>1, ModUnique
  <2> QED
    BY <2>1, <2>2, <2>3 DEF EncodeSigned, DecodeSigned
<1> QED
  BY <1>3, <1>4

\* What is read from a signed field fits it.
LEMMA DecodedFits ==
  ASSUME NEW mod \in Nat \ {0}, mod % 2 = 0, NEW field \in 0 .. mod - 1
  PROVE  FitsSigned(DecodeSigned(field, mod), mod)
<1>1. mod \div 2 \in Nat /\ 2 * (mod \div 2) = mod
  BY SMT
<1> QED
  BY <1>1 DEF FitsSigned, DecodeSigned

LEMMA FieldSizes ==
  /\ CellMod \in Nat \ {0} /\ DualMod \in Nat \ {0} /\ DualMod % 2 = 0
  /\ OffsetMod \in Nat \ {0} /\ OffsetMod % 2 = 0
<1>1. CellMod \in Nat \ {0} /\ DualMod \in Nat \ {0} /\ DualMod % 2 = 0
  BY CellModAssumption, DualModAssumption
<1>2. OffsetMod \in Nat \ {0}
  BY <1>1, SMT DEF OffsetMod
<1>3. OffsetMod % 2 = 0
  <2> DEFINE h == DualMod \div 2
  <2>1. DualMod = 2 * h /\ h \in Int
    BY <1>1, SMT
  <2> HIDE DEF h
  <2>2. OffsetMod = 2 * (CellMod * h) + 0 /\ CellMod * h \in Int
    BY <1>1, <2>1, SMT DEF OffsetMod
  <2> DEFINE y == CellMod * h
  <2>3. OffsetMod = 2 * y + 0 /\ y \in Int
    BY <2>2
  <2> HIDE DEF y
  <2>4. 2 \in Nat \ {0} /\ 0 \in 0 .. 2 - 1 /\ OffsetMod \in Int
    BY <1>2
  <2> QED
    BY <2>3, <2>4, ModUnique
<1> QED
  BY <1>1, <1>2, <1>3

\* parse_opcode is the inverse of opcode_name.
LEMMA OpcodeNumbers ==
  ASSUME NEW op \in Opcode
  PROVE  OpcodeNumber(op) \in 0 .. 9 /\ OpcodeNames[OpcodeNumber(op) + 1] = op
<1>1. DOMAIN OpcodeNames = 1 .. 10
  BY DEF OpcodeNames
<1>2. \E i \in 1 .. 10 : OpcodeNames[i] = op
  BY DEF OpcodeNames, Opcode
<1> DEFINE n == CHOOSE i \in DOMAIN OpcodeNames : OpcodeNames[i] = op
<1>3. n \in 1 .. 10 /\ OpcodeNames[n] = op
  BY <1>1, <1>2
<1>4. OpcodeNumber(op) = n - 1
  BY DEF OpcodeNumber
<1> HIDE DEF n
<1> QED
  BY <1>3, <1>4

-----------------------------------------------------------------------------
(***************************************************************************)
(* Words.                                                                  *)
(***************************************************************************)

\* The operands of an instruction as Encode puts them below the opcode.
Low(l) ==
  (IF HasImm(l.op) THEN l.imm ELSE 0)
    + (IF HasOffset(l.op)
         THEN EncodeSigned(l.off, FieldOf(l.op)) * (IF l.op = "MUL" THEN CellMod ELSE 1)
         ELSE 0)

\* Operands that emit accepts fill their field and are read back from it.
LEMMA LowFits ==
  ASSUME NEW l, l.op \in Opcode, l.imm \in Int, l.off \in Int, Encodable(l)
  PROVE  /\ Low(l) \in 0 .. OffsetMod - 1
         /\ HasImm(l.op) => Low(l) % CellMod = l.imm
         /\ l.op = "MUL" => DecodeSigned(Low(l) \div CellMod, DualMod) = l.off
         /\ HasOffset(l.op) /\ l.op # "MUL" => DecodeSigned(Low(l), OffsetMod) = l.off
<1> DEFINE e == EncodeSigned(l.off, FieldOf(l.op))
<1>1. /\ HasImm(l.op) => l.imm \in 0 .. CellMod - 1
      /\ HasOffset(l.op) => FitsSigned(l.off, FieldOf(l.op))
  BY DEF Encodable, Cell
<1>2. FieldOf(l.op) \in Nat \ {0}
  BY FieldSizes DEF FieldOf
<1>3. HasOffset(l.op) => /\ e \in 0 .. FieldOf(l.op) - 1
                         /\ DecodeSigned(e, FieldOf(l.op)) = l.off
  BY <1>1, <1>2, SignedRoundTrip
<1> HIDE DEF e
<1>4. CellMod \in Nat \ {0} /\ DualMod \in Nat \ {0} /\ OffsetMod \in Nat \ {0}
      /\ CellMod <= OffsetMod /\ OffsetMod = CellMod * DualMod
  BY FieldSizes, SMT DEF OffsetMod
<1>5. CASE l.op = "MUL"
  <2>1. /\ Low(l) = l.imm + e * CellMod /\ l.imm \in 0 .. CellMod - 1
        /\ e \in 0 .. DualMod - 1 /\ DecodeSigned(e, DualMod) = l.off
    BY <1>1, <1>3, <1>5 DEF Low, HasImm, HasOffset, FieldOf, e
  <2>2. Low(l) = CellMod * e + l.imm
    BY <1>4, <2>1, SMT
  <2>3. Low(l) % CellMod = l.imm /\ Low(l) \div CellMod = e
    <3> DEFINE i == l.imm
    <3>1. e \in Int /\ i \in 0 .. CellMod - 1 /\ Low(l) = CellMod * e + i
      BY <1>4, <2>1, <2>2
    <3> HIDE DEF i
    <3>2. Low(l) % CellMod = i /\ Low(l) \div CellMod = e
      BY <1>4, <3>1, Digits
    <3> QED
      BY <3>2 DEF i
  <2>4. Low(l) \in 0 .. OffsetMod - 1
    <3>1. CellMod * e <= CellMod * (DualMod - 1) /\ CellMod * e >= 0 /\ CellMod * e \in Int
      BY <1>4, <2>1, SMT
    <3>2. CellMod * (DualMod - 1) = OffsetMod - CellMod
      BY <1>4, SMT
    <3> QED
      BY <1>4, <2>1, <2>2, <3>1, <3>2
  <2> QED
    BY <1>5, <2>1, <2>3, <2>4
<1>6. CASE l.op # "MUL" /\ HasImm(l.op)
  <2>1. ~HasOffset(l.op) /\ l.imm \in 0 .. CellMod - 1 /\ Low(l) = l.imm
    BY <1>1, <1>6 DEF HasImm, HasOffset, Low
  <2>2. l.imm % CellMod = l.imm
    BY <1>4, <2>1
  <2> QED
    BY <1>4, <1>6, <2>1, <2>2
<1>7. CASE l.op # "MUL" /\ ~HasImm(l.op) /\ HasOffset(l.op)
  <2>1. FieldOf(l.op) = OffsetMod
    BY <1>7 DEF FieldOf
  <2>2. e \in Int
    BY <1>3, <1>4, <1>7, <2>1
  <2>3. Low(l) = e
    BY <1>7, <2>2 DEF Low, e
  <2> QED
    BY <1>3, <1>7, <2>1, <2>3
<1>8. CASE l.op # "MUL" /\ ~HasImm(l.op) /\ ~HasOffset(l.op)
  BY <1>4, <1>8 DEF Low
<1> QED
  BY <1>5, <1>6, <1>7, <1>8

\* A word is the number of its opcode and what is below.
LEMMA WordSum ==
  ASSUME NEW l, l.op \in Opcode, l.imm \in Int, l.off \in Int
  PROVE  /\ Low(l) \in Int /\ Encode(l) \in Int
         /\ Encode(l) = OffsetMod * OpcodeNumber(l.op) + Low(l)
<1> DEFINE n == OpcodeNumber(l.op)
           i == IF HasImm(l.op) THEN l.imm ELSE 0
           f == IF HasOffset(l.op)
                  THEN EncodeSigned(l.off, FieldOf(l.op)) * (IF l.op = "MUL" THEN CellMod ELSE 1)
                  ELSE 0
           p == OffsetMod * n
<1>1. n \in Int /\ OffsetMod \in Nat \ {0}
  BY OpcodeNumbers, FieldSizes
<1>2. EncodeSigned(l.off, FieldOf(l.op)) \in Int
  <2>1. FieldOf(l.op) \in Nat \ {0}
    BY FieldSizes DEF FieldOf
  <2> QED
    BY <2>1, DivMod DEF EncodeSigned
<1>3. i \in Int /\ f \in Int
  <2> DEFINE e == EncodeSigned(l.off, FieldOf(l.op))
  <2>1. e \in Int /\ CellMod \in Int
    BY <1>2, FieldSizes
  <2> HIDE DEF e
  <2>2. e * CellMod \in Int
    BY <2>1, SMT
  <2> QED
    BY <2>1, <2>2 DEF e
<1>4. Encode(l) = n * OffsetMod + i + f /\ Low(l) = i + f
  BY DEF Encode, Low
<1> HIDE DEF i, f, n
<1>5. p \in Int /\ n * OffsetMod = p
  BY <1>1, SMT
<1> HIDE DEF p
<1>6. Encode(l) = p + i + f
  BY <1>4, <1>5
<1>7. Encode(l) = p + Low(l) /\ Low(l) \in Int /\ Encode(l) \in Int
  BY <1>3, <1>4, <1>5, <1>6
<1> QED
  BY <1>7 DEF p, n

LEMMA WordParts ==
  ASSUME NEW l, l.op \in Opcode, l.imm \in Int, l.off \in Int, Low(l) \in 0 .. OffsetMod - 1
  PROVE  /\ Encode(l) % OffsetMod = Low(l)
         /\ Encode(l) \div OffsetMod = OpcodeNumber(l.op)
<1> DEFINE n == OpcodeNumber(l.op)
           low == Low(l)
<1>1. n \in Int /\ OffsetMod \in Nat \ {0} /\ Encode(l) = OffsetMod * n + low
  BY OpcodeNumbers, FieldSizes, WordSum
<1> HIDE DEF n
<1>2. Encode(l) % OffsetMod = low /\ Encode(l) \div OffsetMod = n
  <2> HIDE DEF low
  <2> QED
    BY <1>1, Digits DEF low
<1> QED
  BY <1>2 DEF n

\* The processor reads from the word of an instruction what its line says.
LEMMA RoundTrip ==
  ASSUME NEW l, l.op \in Opcode, l.imm \in Int, l.off \in Int, Encodable(l)
  PROVE  Decode(Encode(l)) = Meant(l)
<1> DEFINE w == Encode(l)
           low == w % OffsetMod
<1>1. /\ low = Low(l) /\ w \div OffsetMod = OpcodeNumber(l.op)
      /\ HasImm(l.op) => low % CellMod = l.imm
      /\ l.op = "MUL" => DecodeSigned(low \div CellMod, DualMod) = l.off
      /\ HasOffset(l.op) /\ l.op # "MUL" => DecodeSigned(low, OffsetMod) = l.off
  BY LowFits, WordParts
<1>2. OpcodeNames[w \div OffsetMod + 1] = l.op
  BY <1>1, OpcodeNumbers
<1>3. HasOffset("MUL")
  BY DEF HasOffset
<1> HIDE DEF w
<1>4. Decode(w) = Meant(l)
  BY <1>1, <1>2, <1>3 DEF Decode, Meant
<1> QED
  BY <1>4 DEF w

\* What is read back from some word as the instruction that was meant was
\* accepted.
LEMMA ReadBackIsEncodable ==
  ASSUME NEW l, l.imm \in Int, l.off \in Int, NEW w \in Int, Decode(w) = Meant(l)
  PROVE  Encodable(l)
<1> DEFINE low == w % OffsetMod
<1>1. /\ CellMod \in Nat \ {0} /\ DualMod \in Nat \ {0} /\ DualMod % 2 = 0
      /\ OffsetMod \in Nat \ {0} /\ OffsetMod % 2 = 0
  BY FieldSizes
<1>2. low \in 0 .. OffsetMod - 1 /\ low \in Int
  BY <1>1, DivMod
<1> DEFINE op == OpcodeNames[(w \div OffsetMod) + 1]
<1>3. /\ op = l.op
      /\ (IF HasImm(op) THEN low % CellMod ELSE 0) = (IF HasImm(l.op) THEN l.imm ELSE 0)
      /\ (IF op = "MUL" THEN DecodeSigned(low \div CellMod, DualMod)
          ELSE IF HasOffset(op) THEN DecodeSigned(low, OffsetMod) ELSE 0)
           = (IF HasOffset(l.op) THEN l.off ELSE 0)
  BY DEF Decode, Meant, Instr
<1> HIDE DEF op, low
<1>4. HasImm(l.op) => l.imm \in Cell
  <2>1. low % CellMod \in 0 .. CellMod - 1
    BY <1>1, <1>2, DivMod
  <2> QED
    BY <1>3, <2>1 DEF Cell
<1>5. HasOffset(l.op) => FitsSigned(l.off, FieldOf(l.op))
  <2>1. CASE l.op = "MUL"
    <3> DEFINE d == low \div CellMod
    <3>1. low = CellMod * d + (low % CellMod) /\ d \in Int /\ (low % CellMod) \in 0 .. CellMod - 1
      BY <1>1, <1>2, DivMod
    <3>2. DecodeSigned(d, DualMod) = l.off /\ FieldOf(l.op) = DualMod
      BY <1>3, <2>1 DEF HasOffset, FieldOf
    <3>3. d \in 0 .. DualMod - 1
      <4> DEFINE r == low % CellMod
      <4>1. low = CellMod * d + r /\ r \in 0 .. CellMod - 1 /\ low < CellMod * DualMod /\ 0 <= low
        BY <1>1, <1>2, <3>1 DEF OffsetMod
      <4> HIDE DEF d, r
      <4>2. d >= DualMod => CellMod * d >= CellMod * DualMod
        BY <1>1, <3>1, SMT
      <4>3. d <= -1 => CellMod * d <= -CellMod
        BY <1>1, <3>1, SMT
      <4>4. CellMod * d \in Int /\ CellMod * DualMod \in Int
        BY <1>1, <3>1, SMT
      <4> QED
        BY <1>1, <1>2, <3>1, <4>1, <4>2, <4>3, <4>4
    <3> HIDE DEF d
    <3> QED
      BY <1>1, <3>2, <3>3, DecodedFits
  <2>2. CASE l.op # "MUL" /\ HasOffset(l.op)
    <3>1. DecodeSigned(low, OffsetMod) = l.off /\ FieldOf(l.op) = OffsetMod
      BY <1>3, <2>2 DEF FieldOf
    <3> QED
      BY <1>1, <1>2, <3>1, DecodedFits
  <2> QED
    BY <2>1, <2>2
<1> QED
  BY <1>4, <1>5 DEF Encodable

-----------------------------------------------------------------------------
(***************************************************************************)
(* The invariant of bit2bin.  Of the lines read so far, exit status 0 says *)
(* that each has a word, and unless stdout has refused one that each has   *)
(* become it, in order; exit status 1 that one of them had no word.        *)
(***************************************************************************)

HasWord(l) == IsInstruction(l) /\ Encodable(l)

NoneRefused ==
  \A k \in 1 .. line_no : lines[k].kind = "blank" \/ HasWord(lines[k])

AllAssembled ==
  /\ Len(words) = Cardinality(InstructionsTo(line_no))
  /\ \A k \in InstructionsTo(line_no) :
       Decode(words[Cardinality(InstructionsTo(k))]) = Meant(lines[k])

OneRefused ==
  \E k \in 1 .. line_no : lines[k].kind # "blank" /\ ~HasWord(lines[k])

BitTypeOK ==
  /\ lines \in Seq(Line) /\ line_no \in 0 .. Len(lines)
  /\ words \in Seq(Int) /\ refused \in BOOLEAN /\ exit_status \in {0, 1}

BitInv ==
  /\ BitTypeOK
  /\ Len(words) <= line_no /\ WordsMeanTheirLines
  /\ exit_status = 0 => NoneRefused
  /\ (exit_status = 0 /\ ~refused) => AllAssembled
  /\ exit_status = 1 => OneRefused
  /\ done => line_no = Len(lines)

(***************************************************************************)
(* The invariant of brainfunk, as far as bit2bin sees it: what has been    *)
(* written to the pipe at each stage.                                      *)
(***************************************************************************)

\* The lines of the first n instructions.
Printout(n) == [i \in 1 .. n |-> Cmd!LineOf(bitcode[i])]
NoListing == \A i \in DOMAIN lines : lines[i] = [kind |-> "malformed line"]

NotTranslated == bitcode = <<>> /\ lines = <<>>
Run == format = "bf" /\ bitcode \in Programs /\ NoListing
Dumped ==
  /\ format \in Cmd!Formats /\ bitcode \in Programs /\ printed \in 0 .. Len(bitcode)
  /\ lines = IF target = "-" THEN Printout(printed) ELSE <<>>

PipeInv ==
  /\ stage \in {"absent", "options", "running", "dumping", "exited"}
  /\ stage = "options" => NotTranslated /\ printed = 0
  /\ stage = "running" => Run
  /\ stage = "dumping" => Dumped
  /\ stage = "exited" => NotTranslated \/ Run \/ (Dumped /\ printed = Len(bitcode))
  /\ done => stage \in {"exited", "absent"}

(***************************************************************************)
(* The rest of it: the options that have been taken, and the files.        *)
(***************************************************************************)

LastArgTo(n, o, default) ==
  LET S == Cmd!Given(o, n + 1) IN IF S = {} THEN default ELSE args[Cmd!LastOf(S)].arg

\* The options that have been taken are obeyed.
Obeyed ==
  /\ format = LastArgTo(optind, "m", "bf") /\ target = LastArgTo(optind, "o", "-")
  /\ Cmd!Given("h", optind + 1) = {}

OptionsInv ==
  /\ args \in Arguments /\ optind \in 0 .. Len(args)
  /\ stage # "exited" => Obeyed
  /\ stage \in {"running", "dumping"} => optind = Len(args)

Clean(name) ==
  files[name] = <<>> \/ (name \in DOMAIN Originals /\ files[name] = Originals[name])

FilesInv ==
  /\ target # "-" => target \in DOMAIN files
  /\ stage \in {"options", "running"} =>
       /\ \A name \in DOMAIN files : Clean(name)
       /\ target # "-" => files[target] = <<>>
  /\ stage \in {"options", "running", "dumping"} => exit_code = 0
  /\ stage = "dumping" =>
       /\ \A name \in DOMAIN files : (name = target /\ target # "-") \/ Clean(name)
       /\ target # "-" => full \/ files[target] = Printout(printed)

Ended == optind = Len(args) /\ Obeyed /\ exit_code = 0

ExitInv ==
  \/ /\ NotTranslated /\ \A name \in DOMAIN files : Clean(name)
     /\ exit_code = 1 \/ Cmd!Given("h", Len(args) + 1) # {}
  \/ Run /\ Ended /\ \A name \in DOMAIN files : Clean(name)
  \/ /\ Dumped /\ printed = Len(bitcode) /\ Ended
     /\ \A name \in DOMAIN files : (name = target /\ target # "-") \/ Clean(name)
     /\ target # "-" => full \/ files[target] = Printout(printed)

CmdInv == stage # "absent" => OptionsInv /\ FilesInv /\ (stage = "exited" => ExitInv)

(***************************************************************************)
(* The program: what the options taken so far say it is, as long as no     *)
(* source of theirs is emptied by an -o in front of it.                    *)
(***************************************************************************)

\* A file is as it was, or an option -o has named it.
Kept(name) ==
  \/ name \in DOMAIN Originals /\ files[name] = Originals[name]
  \/ \E i \in Cmd!Given("o", optind + 1) : args[i].arg = name

GivenInv ==
  /\ stage = "options" => \A name \in DOMAIN files : Kept(name)
  /\ stage \in {"options", "running", "dumping"} =>
       Cmd!ClobberedTo(optind) \/ code = Cmd!GivenTo(optind)

-----------------------------------------------------------------------------
(***************************************************************************)
(* Counting the instructions.                                              *)
(***************************************************************************)

LEMMA InstructionsCount ==
  ASSUME NEW n \in Nat
  PROVE  /\ IsFiniteSet(InstructionsTo(n)) /\ Cardinality(InstructionsTo(n)) \in 0 .. n
         /\ \A k \in InstructionsTo(n) :
              /\ k \in 1 .. n
              /\ Cardinality(InstructionsTo(k)) \in 1 .. Cardinality(InstructionsTo(n))
<1>1. \A k \in Nat : /\ IsFiniteSet(InstructionsTo(k))
                     /\ Cardinality(InstructionsTo(k)) \in 0 .. k
  <2> SUFFICES ASSUME NEW k \in Nat
               PROVE  /\ IsFiniteSet(InstructionsTo(k))
                      /\ Cardinality(InstructionsTo(k)) \in 0 .. k
    OBVIOUS
  <2>1. InstructionsTo(k) \in SUBSET (1 .. k)
    BY DEF InstructionsTo
  <2>2. IsFiniteSet(1 .. k) /\ Cardinality(1 .. k) = k
    BY FS_Interval
  <2>3. /\ IsFiniteSet(InstructionsTo(k))
        /\ Cardinality(InstructionsTo(k)) <= k
    BY <2>1, <2>2, FS_Subset
  <2> QED
    BY <2>3, FS_CardinalityType
<1>2. ASSUME NEW k \in InstructionsTo(n)
      PROVE  /\ k \in 1 .. n
             /\ Cardinality(InstructionsTo(k)) \in 1 .. Cardinality(InstructionsTo(n))
  <2>1. k \in 1 .. n /\ k \in Nat /\ k \in InstructionsTo(k)
        /\ InstructionsTo(k) \in SUBSET InstructionsTo(n)
    BY DEF InstructionsTo
  <2>2. Cardinality(InstructionsTo(k)) <= Cardinality(InstructionsTo(n))
    BY <1>1, <2>1, FS_Subset
  <2>3. Cardinality(InstructionsTo(k)) # 0
    BY <1>1, <2>1, FS_EmptySet
  <2> QED
    BY <1>1, <2>1, <2>2, <2>3
<1> QED
  BY <1>1, <1>2

LEMMA InstructionsStep ==
  ASSUME NEW n \in Nat
  PROVE  /\ InstructionsTo(0) = {} /\ Cardinality({}) = 0
         /\ IsInstruction(lines[n + 1]) =>
              /\ InstructionsTo(n + 1) = InstructionsTo(n) \cup {n + 1}
              /\ Cardinality(InstructionsTo(n + 1)) = Cardinality(InstructionsTo(n)) + 1
         /\ ~IsInstruction(lines[n + 1]) => InstructionsTo(n + 1) = InstructionsTo(n)
<1>1. InstructionsTo(0) = {} /\ Cardinality({}) = 0
  BY FS_EmptySet DEF InstructionsTo
<1>2. ~IsInstruction(lines[n + 1]) => InstructionsTo(n + 1) = InstructionsTo(n)
  BY DEF InstructionsTo
<1>3. ASSUME IsInstruction(lines[n + 1])
      PROVE  InstructionsTo(n + 1) = InstructionsTo(n) \cup {n + 1}
  BY <1>3 DEF InstructionsTo
<1>4. n + 1 \notin InstructionsTo(n)
  BY DEF InstructionsTo
<1>5. Cardinality(InstructionsTo(n) \cup {n + 1}) = Cardinality(InstructionsTo(n)) + 1
  BY <1>4, InstructionsCount, FS_AddElement
<1> QED
  BY <1>1, <1>2, <1>3, <1>5

\* Lines that are added do not change the count of those before.
LEMMA InstructionsKept ==
  ASSUME NEW n \in Nat, \A k \in 1 .. n : lines'[k] = lines[k]
  PROVE  \A k \in 0 .. n : InstructionsTo(k)' = InstructionsTo(k)
  BY DEF InstructionsTo, IsInstruction

-----------------------------------------------------------------------------
(***************************************************************************)
(* The steps of bit2bin.                                                   *)
(***************************************************************************)

LEMMA LineFields ==
  ASSUME NEW l \in Line, IsInstruction(l)
  PROVE  l.op \in Opcode /\ l.imm \in Int /\ l.off \in Int
  BY DEF Line, IsInstruction

\* The lines that have been read, with one more.
LEMMA OneMoreLine ==
  ASSUME BitInv, Reading, NextLine
  PROVE  /\ line_no \in Nat /\ line_no' = line_no + 1 /\ line_no' \in 0 .. Len(lines)
         /\ lines' = lines /\ lines \in Seq(Line) /\ This \in Line
         /\ ~done /\ ~done'
  BY DEF BitInv, BitTypeOK, Reading, NextLine, This

\* What was known of the lines read stays true of them.
LEMMA WordsMeanStill ==
  ASSUME BitInv, Reading, NextLine, words' = words
  PROVE  WordsMeanTheirLines'
<1>1. line_no \in Nat /\ line_no' = line_no + 1 /\ lines' = lines
  BY OneMoreLine
<1>2. WordsMeanTheirLines /\ words \in Seq(Int)
  BY DEF BitInv, BitTypeOK
<1>3. \A i \in DOMAIN words : i \in Nat
  BY <1>2
<1>4. ASSUME NEW i \in DOMAIN words, NEW k \in i .. line_no
      PROVE  k \in i .. line_no'
  BY <1>1, <1>3
<1> QED
  BY <1>1, <1>2, <1>4 DEF WordsMeanTheirLines, IsInstruction, Meant, Decode

LEMMA RefusedStill ==
  ASSUME BitInv, Reading, NextLine, OneRefused
  PROVE  OneRefused'
<1>1. line_no \in Nat /\ line_no' = line_no + 1 /\ lines' = lines
  BY OneMoreLine
<1>2. PICK k \in 1 .. line_no : lines[k].kind # "blank" /\ ~HasWord(lines[k])
  BY DEF OneRefused
<1>3. k \in 1 .. line_no' /\ lines'[k].kind # "blank" /\ ~HasWord(lines'[k])
  BY <1>1, <1>2
<1> QED
  BY <1>3 DEF OneRefused, HasWord, IsInstruction, Encodable

LEMMA GoodStill ==
  ASSUME BitInv, Reading, NextLine, NoneRefused, This.kind = "blank" \/ HasWord(This)
  PROVE  NoneRefused'
<1>1. line_no \in Nat /\ line_no' = line_no + 1 /\ lines' = lines
  BY OneMoreLine
<1>2. lines[line_no + 1].kind = "blank" \/ HasWord(lines[line_no + 1])
  BY DEF This
<1>3. \A k \in 1 .. line_no : lines[k].kind = "blank" \/ HasWord(lines[k])
  BY DEF NoneRefused
<1>4. \A k \in 1 .. line_no + 1 : lines[k].kind = "blank" \/ HasWord(lines[k])
  <2> TAKE k \in 1 .. line_no + 1
  <2>1. CASE k = line_no + 1
    BY <1>2, <2>1
  <2>2. CASE k # line_no + 1
    BY <1>1, <1>3, <2>2
  <2> QED
    BY <2>1, <2>2
<1> QED
  BY <1>1, <1>4 DEF NoneRefused, HasWord, IsInstruction, Encodable

LEMMA BlankKeeps ==
  ASSUME BitInv, Blank
  PROVE  BitInv'
<1>1. /\ This.kind = "blank" /\ words' = words /\ refused' = refused
      /\ exit_status' = exit_status /\ Reading /\ NextLine
  BY DEF Blank
<1>2. /\ line_no \in Nat /\ line_no' = line_no + 1 /\ line_no' \in 0 .. Len(lines)
      /\ lines' = lines /\ lines \in Seq(Line) /\ ~done'
  BY <1>1, OneMoreLine
<1>3. lines[line_no + 1].kind = "blank" /\ ~IsInstruction(lines[line_no + 1])
  BY <1>1 DEF This, IsInstruction
<1>4. ASSUME AllAssembled PROVE AllAssembled'
  <2>1. InstructionsTo(line_no + 1) = InstructionsTo(line_no)
    BY <1>2, <1>3, InstructionsStep
  <2>2. /\ Len(words) = Cardinality(InstructionsTo(line_no + 1))
        /\ \A k \in InstructionsTo(line_no + 1) :
             Decode(words[Cardinality(InstructionsTo(k))]) = Meant(lines[k])
    BY <1>4, <2>1 DEF AllAssembled
  <2>3. \A k : InstructionsTo(k)' = InstructionsTo(k)
    BY <1>2 DEF InstructionsTo, IsInstruction
  <2> QED
    BY <1>1, <1>2, <2>2, <2>3 DEF AllAssembled, IsInstruction, Meant, Decode
<1> QED
  BY <1>1, <1>2, <1>4, WordsMeanStill, RefusedStill, GoodStill DEF BitInv, BitTypeOK

LEMMA RejectKeeps ==
  ASSUME BitInv, Reject
  PROVE  BitInv'
<1>1. /\ This.kind # "blank"
      /\ IsInstruction(This) => ~Encodable(This)
      /\ words' = words /\ refused' = refused /\ exit_status' = 1
      /\ Reading /\ NextLine
  BY DEF Reject, IsInstruction
<1>2. /\ line_no \in Nat /\ line_no' = line_no + 1 /\ line_no' \in 0 .. Len(lines)
      /\ lines' = lines /\ lines \in Seq(Line) /\ ~done'
  BY <1>1, OneMoreLine
<1>3. OneRefused'
  <2>1. line_no' \in 1 .. line_no' /\ lines'[line_no'] = This
    BY <1>2 DEF This
  <2>2. lines'[line_no'].kind # "blank" /\ ~HasWord(lines'[line_no'])
    BY <1>1, <2>1 DEF HasWord
  <2> QED
    BY <2>1, <2>2 DEF OneRefused, HasWord, IsInstruction, Encodable
<1> QED
  BY <1>1, <1>2, <1>3, WordsMeanStill DEF BitInv, BitTypeOK

\* What is there stays, and the word comes behind it.
LEMMA WordAppended ==
  ASSUME NEW s \in Seq(Int), NEW x \in Int, NEW t, t = Append(s, x)
  PROVE  /\ t \in Seq(Int) /\ Len(t) = Len(s) + 1 /\ t[Len(s) + 1] = x
         /\ \A i \in 1 .. Len(s) : t[i] = s[i]
  OBVIOUS

\* stdout has taken the word.
LEMMA WordKeeps ==
  ASSUME BitInv, Emit, words' = Append(words, Encode(This)), refused' = refused
  PROVE  BitInv'
<1> DEFINE w == Encode(This)
           n == line_no + 1
<1>1. /\ IsInstruction(This) /\ Encodable(This) /\ Reading /\ NextLine
      /\ words' = Append(words, w) /\ exit_status' = exit_status
  BY DEF Emit, IsInstruction
<1>2. /\ line_no \in Nat /\ line_no' = n /\ n \in 0 .. Len(lines)
      /\ lines' = lines /\ lines \in Seq(Line) /\ This \in Line /\ This = lines[n] /\ ~done'
  BY <1>1, OneMoreLine DEF This
<1>3. w \in Int /\ Decode(w) = Meant(This)
  <2>1. This.op \in Opcode /\ This.imm \in Int /\ This.off \in Int
    BY <1>1, <1>2, LineFields
  <2> DEFINE l == This
  <2> HIDE DEF l
  <2>2. l.op \in Opcode /\ l.imm \in Int /\ l.off \in Int /\ Encodable(l)
    BY <1>1, <2>1 DEF l
  <2>3. Encode(l) \in Int /\ Decode(Encode(l)) = Meant(l)
    BY <2>2, WordSum, RoundTrip
  <2> QED
    BY <2>3 DEF l
<1> HIDE DEF w
<1>4. words \in Seq(Int) /\ Len(words) <= line_no /\ Len(words) \in Nat
  BY DEF BitInv, BitTypeOK
<1>5. /\ words' \in Seq(Int) /\ Len(words') = Len(words) + 1
      /\ words'[Len(words) + 1] = w
      /\ \A i \in 1 .. Len(words) : words'[i] = words[i]
  <2>1. words' = Append(words, w)
    BY <1>1
  <2>2. w \in Int /\ words \in Seq(Int)
    BY <1>3, <1>4
  <2> QED
    BY <2>1, <2>2, WordAppended, SMTT(30)
<1>6. WordsMeanTheirLines'
  <2> SUFFICES ASSUME NEW i \in 1 .. Len(words) + 1
               PROVE  \E k \in i .. n : IsInstruction(lines[k]) /\ Meant(lines[k]) = Decode(words'[i])
    <3>1. DOMAIN words' = 1 .. Len(words) + 1
      BY <1>4, <1>5
    <3> HIDE DEF n
    <3> QED
      BY <1>2, <3>1 DEF WordsMeanTheirLines, IsInstruction, Meant, Decode
  <2>1. CASE i = Len(words) + 1
    <3>1. n \in i .. n
      BY <1>2, <1>4, <2>1
    <3> QED
      BY <1>1, <1>2, <1>3, <1>5, <2>1, <3>1
  <2>2. CASE i # Len(words) + 1
    <3>1. i \in 1 .. Len(words) /\ i \in DOMAIN words
      BY <1>4, <2>2
    <3>2. PICK k \in i .. line_no : IsInstruction(lines[k]) /\ Meant(lines[k]) = Decode(words[i])
      BY <3>1 DEF BitInv, WordsMeanTheirLines
    <3>3. k \in i .. n
      BY <1>2
    <3> QED
      BY <1>5, <3>1, <3>2, <3>3
  <2> QED
    BY <2>1, <2>2
<1>7. ASSUME AllAssembled PROVE AllAssembled'
  <2>2. /\ InstructionsTo(n) = InstructionsTo(line_no) \cup {n}
        /\ Cardinality(InstructionsTo(n)) = Cardinality(InstructionsTo(line_no)) + 1
    BY <1>1, <1>2, InstructionsStep
  <2>3. Len(words) = Cardinality(InstructionsTo(line_no))
    BY <1>7 DEF AllAssembled
  <2>4. \A k \in InstructionsTo(n) :
          Decode(words'[Cardinality(InstructionsTo(k))]) = Meant(lines[k])
    <3> SUFFICES ASSUME NEW k \in InstructionsTo(n)
                 PROVE  Decode(words'[Cardinality(InstructionsTo(k))]) = Meant(lines[k])
      OBVIOUS
    <3>1. CASE k = n
      BY <1>2, <1>3, <1>5, <2>2, <2>3, <3>1
    <3>2. CASE k # n
      <4>1. k \in InstructionsTo(line_no)
        BY <2>2, <3>2
      <4>2. Cardinality(InstructionsTo(k)) \in 1 .. Len(words)
        BY <1>2, <2>3, <4>1, InstructionsCount
      <4>3. Decode(words[Cardinality(InstructionsTo(k))]) = Meant(lines[k])
        BY <1>7, <4>1 DEF AllAssembled
      <4> QED
        BY <1>5, <4>2, <4>3
    <3> QED
      BY <3>1, <3>2
  <2>5. \A k : InstructionsTo(k)' = InstructionsTo(k)
    BY <1>2 DEF InstructionsTo, IsInstruction
  <2>6. Len(words') = Cardinality(InstructionsTo(n))
    BY <1>5, <2>2, <2>3
  <2> QED
    BY <1>2, <2>4, <2>5, <2>6 DEF AllAssembled, IsInstruction, Meant, Decode
<1>8. BitTypeOK' /\ Len(words') <= line_no'
  BY <1>1, <1>2, <1>4, <1>5 DEF BitInv, BitTypeOK
<1>9. /\ exit_status' = 0 => NoneRefused'
      /\ (exit_status' = 0 /\ ~refused') => AllAssembled'
  BY <1>1, <1>7, GoodStill DEF BitInv, HasWord
<1>10. exit_status' = 1 => OneRefused'
  BY <1>1, RefusedStill DEF BitInv
<1> QED
  BY <1>2, <1>6, <1>8, <1>9, <1>10 DEF BitInv

\* stdout has refused it.
LEMMA NoWordKeeps ==
  ASSUME BitInv, Emit, words' = words, refused' = TRUE
  PROVE  BitInv'
<1>1. /\ HasWord(This) /\ Reading /\ NextLine /\ exit_status' = exit_status
  BY DEF Emit, IsInstruction, HasWord
<1>2. /\ line_no \in Nat /\ line_no' = line_no + 1 /\ line_no' \in 0 .. Len(lines)
      /\ lines' = lines /\ lines \in Seq(Line) /\ ~done'
  BY <1>1, OneMoreLine
<1> QED
  BY <1>1, <1>2, WordsMeanStill, RefusedStill, GoodStill DEF BitInv, BitTypeOK

LEMMA EmitKeeps ==
  ASSUME BitInv, Emit
  PROVE  BitInv'
  BY WordKeeps, NoWordKeeps DEF Emit

LEMMA EndKeeps ==
  ASSUME BitInv, EndOfInput
  PROVE  BitInv'
<1>1. /\ lines' = lines /\ line_no' = line_no /\ words' = words /\ refused' = refused
      /\ exit_status' = exit_status /\ line_no = Len(lines)
  BY DEF EndOfInput
<1>2. WordsMeanTheirLines' <=> WordsMeanTheirLines
  BY <1>1 DEF WordsMeanTheirLines, IsInstruction, Meant, Decode
<1>3. AllAssembled' <=> AllAssembled
  BY <1>1 DEF AllAssembled, InstructionsTo, IsInstruction, Meant, Decode
<1>4. (OneRefused' <=> OneRefused) /\ (NoneRefused' <=> NoneRefused)
  BY <1>1 DEF OneRefused, NoneRefused, HasWord, IsInstruction, Encodable
<1> QED
  BY <1>1, <1>2, <1>3, <1>4 DEF BitInv, BitTypeOK

\* Lines that are written do not concern those that have been read.
LEMMA LinesAdded ==
  ASSUME BitInv, lines' \in Seq(Line), Len(lines) <= Len(lines'), ~done,
         \A k \in 1 .. Len(lines) : lines'[k] = lines[k],
         UNCHANGED <<line_no, words, refused, exit_status, done>>
  PROVE  BitInv'
<1>1. /\ line_no \in Nat /\ line_no <= Len(lines) /\ Len(lines) \in Nat /\ Len(lines') \in Nat
      /\ line_no' = line_no /\ words' = words /\ refused' = refused
      /\ exit_status' = exit_status /\ ~done'
      /\ words \in Seq(Int) /\ Len(words) <= line_no
  BY DEF BitInv, BitTypeOK
<1>2. \A k \in 1 .. line_no : lines'[k] = lines[k]
  BY <1>1
<1>3. WordsMeanTheirLines'
  <2> SUFFICES ASSUME NEW i \in DOMAIN words
               PROVE  \E k \in i .. line_no : IsInstruction(lines'[k]) /\ Meant(lines'[k]) = Decode(words[i])
    BY <1>1 DEF WordsMeanTheirLines, IsInstruction, Meant, Decode
  <2>1. PICK k \in i .. line_no : IsInstruction(lines[k]) /\ Meant(lines[k]) = Decode(words[i])
    BY DEF BitInv, WordsMeanTheirLines
  <2>2. i \in 1 .. Len(words)
    BY <1>1
  <2>3. k \in 1 .. line_no
    BY <1>1, <2>2
  <2> QED
    BY <1>2, <2>1, <2>3
<1>4. AllAssembled => AllAssembled'
  <2> SUFFICES ASSUME AllAssembled PROVE AllAssembled'
    OBVIOUS
  <2>1. \A k \in 0 .. line_no : InstructionsTo(k)' = InstructionsTo(k)
    BY <1>1, <1>2, InstructionsKept
  <2>2. \A k \in InstructionsTo(line_no) : k \in 1 .. line_no
    BY <1>1, InstructionsCount
  <2>3. InstructionsTo(line_no)' = InstructionsTo(line_no)
    BY <1>1, <1>2 DEF InstructionsTo, IsInstruction
  <2>4. \A k \in InstructionsTo(line_no) :
          /\ Decode(words[Cardinality(InstructionsTo(k))]) = Meant(lines'[k])
          /\ Cardinality(InstructionsTo(k)') = Cardinality(InstructionsTo(k))
    <3> TAKE k \in InstructionsTo(line_no)
    <3>1. k \in 1 .. line_no /\ k \in 0 .. line_no
      BY <1>1, <2>2
    <3> QED
      BY <1>2, <2>1, <3>1 DEF AllAssembled
  <2>5. Len(words') = Cardinality(InstructionsTo(line_no)')
    BY <1>1, <2>3 DEF AllAssembled
  <2> QED
    BY <1>1, <2>3, <2>4, <2>5 DEF AllAssembled, IsInstruction, Meant, Decode
<1>5. OneRefused => OneRefused'
  <2> SUFFICES ASSUME NEW k \in 1 .. line_no, lines[k].kind # "blank", ~HasWord(lines[k])
               PROVE  OneRefused'
    BY DEF OneRefused
  <2>1. k \in 1 .. line_no' /\ lines'[k].kind # "blank" /\ ~HasWord(lines'[k])
    BY <1>1, <1>2
  <2> QED
    BY <2>1 DEF OneRefused, HasWord, IsInstruction, Encodable
<1>6. NoneRefused => NoneRefused'
  <2> SUFFICES ASSUME NoneRefused PROVE NoneRefused'
    OBVIOUS
  <2>1. \A k \in 1 .. line_no : lines'[k].kind = "blank" \/ HasWord(lines'[k])
    BY <1>2 DEF NoneRefused
  <2> QED
    BY <1>1, <2>1 DEF NoneRefused, HasWord, IsInstruction, Encodable
<1> QED
  BY <1>1, <1>3, <1>4, <1>5, <1>6 DEF BitInv, BitTypeOK

-----------------------------------------------------------------------------
(***************************************************************************)
(* What is written to the pipe.                                            *)
(***************************************************************************)

LEMMA ProgramTypes ==
  ASSUME NEW p \in Programs
  PROVE  /\ p \in Seq(Instruction) /\ p # <<>> /\ Len(p) \in Nat /\ DOMAIN p = 1 .. Len(p)
         /\ \A i \in 1 .. Len(p) : p[i] \in Instruction /\ Meant(p[i]) = p[i]
<1>1. p \in Seq(ProperInstruction) /\ p # <<>>
  BY ProgramsAssumption DEF WellFormed
<1>2. /\ p \in Seq(Instruction) /\ Len(p) \in Nat /\ DOMAIN p = 1 .. Len(p)
      /\ \A i \in 1 .. Len(p) : p[i] \in ProperInstruction
  BY <1>1, LenProperties, SeqMonotonic DEF ProperInstruction
<1>3. ASSUME NEW x \in ProperInstruction PROVE x \in Instruction /\ Meant(x) = x
  BY DEF ProperInstruction, Instruction, Meant, Instr
<1> QED
  BY <1>1, <1>2, <1>3

LEMMA LineOfType ==
  ASSUME NEW instr \in Instruction
  PROVE  Cmd!LineOf(instr) \in Line
<1>1. instr.op \in Opcode /\ instr.imm \in Int /\ instr.off \in Int
  BY CellModAssumption DEF Instruction, Cell
<1> QED
  BY <1>1 DEF Cmd!LineOf, Line

LEMMA PrintoutStep ==
  ASSUME NEW n \in Nat
  PROVE  /\ Printout(0) = <<>>
         /\ Printout(n + 1) = Append(Printout(n), Cmd!LineOf(bitcode[n + 1]))
<1>1. Printout(0) = <<>>
  BY DEF Printout
<1> DEFINE t == Printout(n)
           x == Cmd!LineOf(bitcode[n + 1])
           T == {Cmd!LineOf(bitcode[i]) : i \in 1 .. n + 1}
<1>2. t \in [1 .. n -> T] /\ x \in T /\ Printout(n + 1) \in [1 .. n + 1 -> T]
  BY DEF Printout
<1>3. /\ \A i \in 1 .. n : Printout(n + 1)[i] = t[i]
      /\ Printout(n + 1)[n + 1] = x
  BY DEF Printout
<1> DEFINE s == Printout(n + 1)
<1> HIDE DEF t, x, T, s
<1>4. t \in Seq(T) /\ Len(t) = n /\ s \in Seq(T) /\ Len(s) = n + 1
  BY <1>2 DEF s
<1>5. /\ Append(t, x) \in Seq(T) /\ Len(Append(t, x)) = n + 1
      /\ \A i \in 1 .. n + 1 : Append(t, x)[i] = IF i = n + 1 THEN x ELSE t[i]
  BY <1>2, <1>4
<1>6. \A i \in 1 .. n + 1 : s[i] = Append(t, x)[i]
  BY <1>3, <1>5 DEF s
<1>7. s = Append(t, x)
  BY <1>4, <1>5, <1>6, SeqEqual
<1> QED
  BY <1>1, <1>7 DEF s, t, x

\* Only a command that is printing or running writes, one line at a time.
LEMMA WriterAppends ==
  ASSUME PipeInv, lines \in Seq(Line), Cmd!Main
  PROVE  /\ stage \in {"options", "running", "dumping"}
         /\ lines' = lines \/ \E l \in Line : lines' = Append(lines, l)
<1>1. CASE Cmd!ReadCode \/ Cmd!SetCode \/ Cmd!SetMode \/ Cmd!SetOutput \/ Cmd!Unknown
  BY <1>1 DEF Cmd!ReadCode, Cmd!SetCode, Cmd!SetMode, Cmd!SetOutput, Cmd!Unknown, Cmd!Option,
    Cmd!outputs
<1>2. CASE Cmd!Help \/ Cmd!NotOpened \/ Cmd!Refuse \/ Cmd!Translate
  BY <1>2 DEF Cmd!Help, Cmd!NotOpened, Cmd!Refuse, Cmd!Translate, Cmd!Option, Cmd!Exit,
    Cmd!AllTaken, Cmd!outputs
<1>3. CASE Cmd!PrintLine
  <2>1. stage = "dumping" /\ printed < Len(bitcode) /\ Cmd!Write(Cmd!LineOf(bitcode[printed + 1]))
    BY <1>3 DEF Cmd!PrintLine
  <2>2. bitcode \in Programs /\ printed \in Nat /\ printed + 1 \in 1 .. Len(bitcode)
    BY <2>1, ProgramTypes DEF PipeInv, Dumped
  <2>3. Cmd!LineOf(bitcode[printed + 1]) \in Line
    BY <2>2, ProgramTypes, LineOfType
  <2> QED
    BY <2>1, <2>3 DEF Cmd!Write
<1>4. CASE Cmd!DumpEnds \/ Cmd!RunEnds
  BY <1>4 DEF Cmd!DumpEnds, Cmd!RunEnds, Cmd!Exit, Cmd!outputs
<1>5. CASE Cmd!RunWrites
  <2>1. [kind |-> "malformed line"] \in Line
    BY DEF Line
  <2> QED
    BY <1>5, <2>1 DEF Cmd!RunWrites
<1> QED
  BY <1>1, <1>2, <1>3, <1>4, <1>5 DEF Cmd!Main

LEMMA WriterKeepsBit ==
  ASSUME BitInv, PipeInv, WriterStep
  PROVE  BitInv'
<1>1. Cmd!Main /\ UNCHANGED <<line_no, words, refused, exit_status, done>>
  BY DEF WriterStep
<1>2. lines \in Seq(Line)
  BY DEF BitInv, BitTypeOK
<1>3. /\ stage \in {"options", "running", "dumping"}
      /\ lines' = lines \/ \E l \in Line : lines' = Append(lines, l)
  BY <1>1, <1>2, WriterAppends
<1>4. ~done
  BY <1>3 DEF PipeInv
<1>5. /\ lines' \in Seq(Line) /\ Len(lines) <= Len(lines')
      /\ \A k \in 1 .. Len(lines) : lines'[k] = lines[k]
  <2>1. CASE lines' = lines
    BY <1>2, <2>1
  <2>2. ASSUME NEW l \in Line, lines' = Append(lines, l)
        PROVE  /\ lines' \in Seq(Line) /\ Len(lines) <= Len(lines')
               /\ \A k \in 1 .. Len(lines) : lines'[k] = lines[k]
    BY <1>2, <2>2
  <2> QED
    BY <1>3, <2>1, <2>2
<1> QED
  BY <1>1, <1>4, <1>5, LinesAdded

\* An option that is obeyed translates nothing and writes nothing.
LEMMA OptionKeepsPipe ==
  ASSUME PipeInv, done' = done,
         Cmd!ReadCode \/ Cmd!SetCode \/ Cmd!SetMode \/ Cmd!SetOutput \/ Cmd!Unknown
  PROVE  PipeInv'
<1>1. /\ stage = "options" /\ stage' = stage /\ lines' = lines /\ bitcode' = bitcode
      /\ printed' = printed
  BY DEF Cmd!ReadCode, Cmd!SetCode, Cmd!SetMode, Cmd!SetOutput, Cmd!Unknown, Cmd!Option,
    Cmd!Taken, Cmd!outputs
<1> QED
  BY <1>1 DEF PipeInv, NotTranslated

LEMMA FailureKeepsPipe ==
  ASSUME PipeInv, done' = done, Cmd!Help \/ Cmd!NotOpened \/ Cmd!Refuse
  PROVE  PipeInv'
<1>1. /\ stage = "options" /\ stage' = "exited" /\ lines' = lines /\ bitcode' = bitcode
  BY DEF Cmd!Help, Cmd!NotOpened, Cmd!Refuse, Cmd!Option, Cmd!Exit, Cmd!AllTaken, Cmd!outputs
<1> QED
  BY <1>1 DEF PipeInv, NotTranslated

LEMMA TranslateKeepsPipe ==
  ASSUME PipeInv, done' = done, Cmd!Translate
  PROVE  PipeInv'
<1>1. /\ stage = "options" /\ bitcode' \in Programs /\ format \in Cmd!Formats \cup {"bf"}
      /\ stage' = IF format = "bf" THEN "running" ELSE "dumping"
      /\ format' = format /\ target' = target /\ lines' = lines /\ printed' = printed
  BY DEF Cmd!Translate, Cmd!AllTaken, Cmd!settings, Cmd!outputs
<1>2. lines = <<>> /\ printed = 0 /\ ~done
  BY <1>1 DEF PipeInv, NotTranslated
<1>3. CASE format = "bf"
  <2>1. DOMAIN <<>> = {}
    OBVIOUS
  <2>2. NoListing'
    BY <1>1, <1>2, <2>1 DEF NoListing
  <2> QED
    BY <1>1, <1>2, <1>3, <2>2 DEF PipeInv, Run
<1>4. CASE format # "bf"
  <2>1. Len(bitcode') \in Nat
    BY <1>1, ProgramTypes
  <2>2. Printout(printed)' = <<>>
    BY <1>1, <1>2 DEF Printout
  <2>3. Dumped'
    BY <1>1, <1>2, <1>4, <2>1, <2>2 DEF Dumped, Cmd!Formats
  <2> QED
    BY <1>1, <1>2, <1>4, <2>3 DEF PipeInv
<1> QED
  BY <1>3, <1>4

\* The dump grows by the line of the next instruction, or is lost.
LEMMA PrintSteps ==
  ASSUME PipeInv, Cmd!PrintLine
  PROVE  /\ stage = "dumping" /\ stage' = stage /\ bitcode' = bitcode /\ format' = format
         /\ target' = target /\ printed' = printed + 1 /\ printed' \in 0 .. Len(bitcode)
         /\ printed \in Nat /\ bitcode \in Programs
         /\ Printout(printed)' = Append(Printout(printed), Cmd!LineOf(bitcode[printed + 1]))
         /\ Cmd!Write(Cmd!LineOf(bitcode[printed + 1]))
<1>1. /\ stage = "dumping" /\ stage' = stage /\ bitcode' = bitcode /\ format' = format
      /\ target' = target /\ printed' = printed + 1 /\ printed < Len(bitcode)
      /\ Cmd!Write(Cmd!LineOf(bitcode[printed + 1]))
  BY DEF Cmd!PrintLine, Cmd!settings
<1>2. bitcode \in Programs /\ Len(bitcode) \in Nat /\ printed \in Nat
  BY <1>1, ProgramTypes DEF PipeInv, Dumped
<1>3. Printout(printed)' = Printout(printed + 1)
  BY <1>1 DEF Printout, Cmd!LineOf
<1>4. Printout(printed + 1) = Append(Printout(printed), Cmd!LineOf(bitcode[printed + 1]))
  BY <1>2, PrintoutStep
<1>5. printed' \in 0 .. Len(bitcode)
  BY <1>1, <1>2
<1>6. Printout(printed)' = Append(Printout(printed), Cmd!LineOf(bitcode[printed + 1]))
  BY <1>3, <1>4
<1> QED
  BY <1>1, <1>2, <1>5, <1>6

LEMMA PrintKeepsPipe ==
  ASSUME PipeInv, done' = done, Cmd!PrintLine
  PROVE  PipeInv'
<1> DEFINE x == Cmd!LineOf(bitcode[printed + 1])
<1>1. /\ stage = "dumping" /\ stage' = stage /\ bitcode' = bitcode /\ format' = format
      /\ target' = target /\ printed' \in 0 .. Len(bitcode) /\ bitcode \in Programs
      /\ Printout(printed)' = Append(Printout(printed), x) /\ Cmd!Write(x)
  BY PrintSteps
<1> HIDE DEF x
<1>2. Dumped
  BY <1>1 DEF PipeInv
<1>3. IF target = "-" THEN lines' = Append(lines, x) ELSE lines' = lines
  BY <1>1 DEF Cmd!Write
<1>4. lines' = IF target' = "-" THEN Printout(printed)' ELSE <<>>
  BY <1>1, <1>2, <1>3 DEF Dumped
<1>5. Dumped'
  BY <1>1, <1>2, <1>4 DEF Dumped, Cmd!Formats
<1> QED
  BY <1>1, <1>5 DEF PipeInv

LEMMA EndKeepsPipe ==
  ASSUME PipeInv, done' = done, Cmd!DumpEnds \/ Cmd!RunEnds
  PROVE  PipeInv'
<1>1. /\ stage' = "exited" /\ bitcode' = bitcode /\ format' = format
      /\ target' = target /\ printed' = printed /\ lines' = lines
  BY DEF Cmd!DumpEnds, Cmd!RunEnds, Cmd!Exit, Cmd!settings, Cmd!outputs
<1>2. CASE Cmd!DumpEnds
  <2>1. stage = "dumping" /\ printed = Len(bitcode)
    BY <1>2 DEF Cmd!DumpEnds
  <2>2. Dumped'
    BY <1>1, <2>1 DEF PipeInv, Dumped, Printout, Cmd!LineOf, Cmd!Formats
  <2> QED
    BY <1>1, <2>1, <2>2 DEF PipeInv
<1>3. CASE Cmd!RunEnds
  <2>1. stage = "running"
    BY <1>3 DEF Cmd!RunEnds
  <2>2. Run'
    BY <1>1, <2>1 DEF PipeInv, Run, NoListing
  <2> QED
    BY <1>1, <2>1, <2>2 DEF PipeInv
<1> QED
  BY <1>2, <1>3

LEMMA RunKeepsPipe ==
  ASSUME PipeInv, done' = done, lines \in Seq(Line), Cmd!RunWrites
  PROVE  PipeInv'
<1>1. /\ stage = "running" /\ stage' = stage /\ bitcode' = bitcode /\ format' = format
      /\ lines' = Append(lines, [kind |-> "malformed line"])
  BY DEF Cmd!RunWrites, Cmd!settings
<1>2. Run
  BY <1>1 DEF PipeInv
<1> DEFINE x == [kind |-> "malformed line"]
<1>3. x \in Line /\ lines' = Append(lines, x) /\ \A i \in DOMAIN lines : lines[i] = x
  BY <1>1, <1>2 DEF Run, NoListing, Line
<1>4. \A i \in DOMAIN lines' : lines'[i] = x
  <2> HIDE DEF x
  <2> QED
    BY <1>3
<1> QED
  BY <1>1, <1>2, <1>4 DEF PipeInv, Run, NoListing

LEMMA WriterKeepsPipe ==
  ASSUME BitInv, PipeInv, WriterStep
  PROVE  PipeInv'
<1>1. Cmd!Main /\ done' = done /\ lines \in Seq(Line)
  BY DEF WriterStep, BitInv, BitTypeOK
<1> QED
  BY <1>1, OptionKeepsPipe, FailureKeepsPipe, TranslateKeepsPipe, PrintKeepsPipe, EndKeepsPipe,
    RunKeepsPipe DEF Cmd!Main

LEMMA ReaderKeepsPipe ==
  ASSUME PipeInv, ReaderStep
  PROVE  PipeInv'
<1>1. /\ lines' = lines /\ UNCHANGED cmdstate
      /\ done' = done \/ stage \in {"exited", "absent"}
  BY DEF ReaderStep, Blank, Emit, Reject, NextLine, EndOfInput
<1>2. Printout(printed)' = Printout(printed)
  BY <1>1 DEF Printout, Cmd!LineOf, cmdstate
<1>3. /\ NotTranslated' <=> NotTranslated
      /\ Run' <=> Run
      /\ Dumped' <=> Dumped
  BY <1>1, <1>2 DEF NotTranslated, Run, NoListing, Dumped, Cmd!Formats, cmdstate
<1> QED
  BY <1>1, <1>3 DEF PipeInv, cmdstate

-----------------------------------------------------------------------------
(***************************************************************************)
(* What the status of the pipeline promises.                               *)
(***************************************************************************)

BothInv == BitInv /\ PipeInv

LEMMA BothStart == AssembleInit => BothInv
<1> SUFFICES ASSUME AssembleInit PROVE BothInv
  OBVIOUS
<1>1. /\ lines \in Seq(Line) /\ line_no = 0 /\ words = <<>> /\ refused = FALSE
      /\ exit_status = 0 /\ ~done
  BY ListingsAssumption DEF AssembleInit, Init
<1>2. <<>> \in Seq(Int) /\ Len(<<>>) = 0 /\ DOMAIN <<>> = {} /\ Len(lines) \in Nat
  BY <1>1, EmptySeq
<1>3. BitTypeOK /\ WordsMeanTheirLines
  <2>1. line_no \in 0 .. Len(lines) /\ words \in Seq(Int)
    BY <1>1, <1>2
  <2>2. BitTypeOK
    BY <1>1, <2>1 DEF BitTypeOK
  <2>3. WordsMeanTheirLines
    BY <1>1, <1>2 DEF WordsMeanTheirLines
  <2> QED
    BY <2>2, <2>3
<1>4. AllAssembled /\ NoneRefused
  <2>1. 0 \in Nat /\ 1 .. 0 = {}
    OBVIOUS
  <2>2. InstructionsTo(0) = {} /\ Cardinality({}) = 0
    BY <2>1, InstructionsStep
  <2> QED
    BY <1>1, <1>2, <2>1, <2>2 DEF AllAssembled, NoneRefused
<1>5. BitInv
  BY <1>1, <1>2, <1>3, <1>4 DEF BitInv
<1>6. PipeInv
  <2>1. CASE Pipeline
    BY <1>1, <2>1 DEF Pipeline, Cmd!Init, Cmd!Started, PipeInv, NotTranslated
  <2>2. CASE Redirected
    BY <1>1, <2>2 DEF Redirected, PipeInv
  <2> QED
    BY <2>1, <2>2 DEF AssembleInit
<1> QED
  BY <1>5, <1>6 DEF BothInv

LEMMA BothStep == BothInv /\ [AssembleNext]_assemblevars => BothInv'
<1> SUFFICES ASSUME BothInv, [AssembleNext]_assemblevars PROVE BothInv'
  OBVIOUS
<1> USE DEF BothInv
<1>1. CASE WriterStep
  BY <1>1, WriterKeepsBit, WriterKeepsPipe
<1>2. CASE ReaderStep
  <2>1. BitInv'
    BY <1>2, BlankKeeps, EmitKeeps, RejectKeeps, EndKeeps DEF ReaderStep
  <2> QED
    BY <1>2, <2>1, ReaderKeepsPipe
<1>3. CASE UNCHANGED assemblevars
  <2>1. /\ lines' = lines /\ line_no' = line_no /\ words' = words /\ refused' = refused
        /\ exit_status' = exit_status /\ done' = done /\ UNCHANGED cmdstate
    BY <1>3 DEF assemblevars, bitvars
  <2>2. WordsMeanTheirLines' <=> WordsMeanTheirLines
    BY <2>1 DEF WordsMeanTheirLines, IsInstruction, Meant, Decode
  <2>3. AllAssembled' <=> AllAssembled
    BY <2>1 DEF AllAssembled, InstructionsTo, IsInstruction, Meant, Decode
  <2>4. (OneRefused' <=> OneRefused) /\ (NoneRefused' <=> NoneRefused)
    BY <2>1 DEF OneRefused, NoneRefused, HasWord, IsInstruction, Encodable
  <2>5. BitInv'
    BY <2>1, <2>2, <2>3, <2>4 DEF BitInv, BitTypeOK
  <2>6. Printout(printed)' = Printout(printed)
    BY <2>1 DEF Printout, Cmd!LineOf, cmdstate
  <2>7. /\ NotTranslated' <=> NotTranslated
        /\ Run' <=> Run
        /\ Dumped' <=> Dumped
    BY <2>1, <2>6 DEF NotTranslated, Run, NoListing, Dumped, Cmd!Formats, cmdstate
  <2>8. PipeInv'
    BY <2>1, <2>7 DEF PipeInv, cmdstate
  <2> QED
    BY <2>5, <2>8
<1> QED
  BY <1>1, <1>2, <1>3 DEF AssembleNext

LEMMA BitInvAccepts == BitInv => RepresentableIsAccepted
<1> SUFFICES ASSUME BitInv, exit_status # 0,
                    \A i \in DOMAIN lines :
                      \/ lines[i].kind = "blank"
                      \/ IsInstruction(lines[i]) /\ Decode(Encode(lines[i])) = Meant(lines[i])
             PROVE  FALSE
  BY DEF RepresentableIsAccepted
<1>1. OneRefused /\ lines \in Seq(Line) /\ line_no \in 0 .. Len(lines)
  BY DEF BitInv, BitTypeOK
<1>2. PICK k \in 1 .. line_no : lines[k].kind # "blank" /\ ~HasWord(lines[k])
  BY <1>1 DEF OneRefused
<1>3. k \in DOMAIN lines /\ lines[k] \in Line
  BY <1>1
<1> DEFINE l == lines[k]
<1> HIDE DEF l
<1>4. IsInstruction(l) /\ Decode(Encode(l)) = Meant(l) /\ l \in Line
  BY <1>2, <1>3 DEF l
<1>5. l.op \in Opcode /\ l.imm \in Int /\ l.off \in Int
  BY <1>4, LineFields
<1>6. Encode(l) \in Int
  BY <1>5, WordSum
<1>7. Encodable(l)
  BY <1>4, <1>5, <1>6, ReadBackIsEncodable
<1> QED
  BY <1>2, <1>4, <1>7 DEF HasWord, l

LEMMA BitInvIsWhole == BitInv => StatusZeroIsWhole
<1> SUFFICES ASSUME BitInv, done, exit_status = 0
             PROVE  /\ \A k \in DOMAIN lines : lines[k].kind = "blank" \/ HasWord(lines[k])
                    /\ refused \/ Whole
  BY DEF StatusZeroIsWhole, HasWord
<1>1. /\ NoneRefused /\ line_no = Len(lines) /\ Len(lines) \in Nat /\ words \in Seq(Int)
      /\ DOMAIN lines = 1 .. Len(lines)
  BY DEF BitInv, BitTypeOK
<1>2. ASSUME ~refused PROVE Whole
  <2>1. AllAssembled
    BY <1>2 DEF BitInv
  <2>2. Len(words) = Cardinality(InstructionsTo(Len(lines)))
    BY <1>1, <2>1 DEF AllAssembled
  <2>3. ASSUME NEW k \in InstructionsTo(Len(lines))
        PROVE  Assembled[Cardinality(InstructionsTo(k))] = Meant(lines[k])
    <3>1. Cardinality(InstructionsTo(k)) \in 1 .. Len(words)
      BY <1>1, <2>2, InstructionsCount
    <3>2. Cardinality(InstructionsTo(k)) \in DOMAIN words
      BY <1>1, <3>1
    <3> QED
      BY <1>1, <2>1, <3>2 DEF Assembled, AllAssembled
  <2> QED
    BY <2>2, <2>3 DEF Whole
<1> QED
  BY <1>1, <1>2 DEF NoneRefused

\* If every line has its word, a pipe that carried no listing carried nothing.
LEMMA NothingAssembled ==
  ASSUME BitInv, NoneRefused, AllAssembled, line_no = Len(lines), NoListing
  PROVE  Assembled = <<>> /\ lines = <<>>
<1>1. /\ lines \in Seq(Line) /\ Len(lines) \in Nat /\ words \in Seq(Int)
      /\ Len(words) <= Len(lines) /\ Len(words) \in Nat
  BY DEF BitInv, BitTypeOK
<1>2. ~ \E k \in 1 .. Len(lines) : TRUE
  <2> SUFFICES ASSUME NEW k \in 1 .. Len(lines) PROVE FALSE
    OBVIOUS
  <2> DEFINE r == [kind |-> "malformed line"]
  <2>1. k \in DOMAIN lines /\ r.kind = "malformed line"
    BY <1>1
  <2>2. lines[k] = r
    BY <2>1 DEF NoListing
  <2> HIDE DEF r
  <2>3. lines[k].kind = "malformed line"
    BY <2>1, <2>2
  <2>4. lines[k].kind = "blank" \/ lines[k].kind = "instruction"
    BY DEF NoneRefused, HasWord, IsInstruction
  <2> QED
    BY <2>3, <2>4
<1>3. Len(lines) = 0
  BY <1>1, <1>2
<1>4. lines = <<>> /\ words = <<>>
  BY <1>1, <1>3
<1>5. DOMAIN words = {}
  BY <1>4
<1> QED
  BY <1>4, <1>5 DEF Assembled

\* If every line has its word, a listing of a program has become the program.
LEMMA ProgramAssembled ==
  ASSUME BitInv, AllAssembled, line_no = Len(lines), format = "bit", bitcode \in Programs,
         lines = Printout(Len(bitcode))
  PROVE  Assembled = bitcode
<1> DEFINE n == Len(bitcode)
<1>1. n \in Nat /\ bitcode \in Seq(Instruction) /\ DOMAIN bitcode = 1 .. n
      /\ \A i \in 1 .. n : bitcode[i] \in Instruction /\ Meant(bitcode[i]) = bitcode[i]
  BY ProgramTypes
<1>2. lines \in Seq(Line) /\ words \in Seq(Int)
  BY DEF BitInv, BitTypeOK
<1>3. DOMAIN lines = 1 .. n /\ Len(lines) = n
  BY <1>1, <1>2 DEF Printout
<1>4. \A i \in 1 .. n :
        /\ IsInstruction(lines[i])
        /\ Meant(lines[i]) = bitcode[i]
  <2> SUFFICES ASSUME NEW i \in 1 .. n
               PROVE  IsInstruction(lines[i]) /\ Meant(lines[i]) = bitcode[i]
    OBVIOUS
  <2>1. lines[i] = [kind |-> "instruction", op |-> bitcode[i].op, imm |-> bitcode[i].imm,
                    off |-> bitcode[i].off]
    BY DEF Printout, Cmd!LineOf
  <2>2. Meant(lines[i]) = Meant(bitcode[i])
    BY <2>1 DEF Meant
  <2> QED
    BY <1>1, <2>1, <2>2 DEF IsInstruction
<1>5. \A k \in 0 .. n : InstructionsTo(k) = 1 .. k /\ Cardinality(1 .. k) = k
  <2> TAKE k \in 0 .. n
  <2>1. InstructionsTo(k) = 1 .. k
    BY <1>1, <1>4 DEF InstructionsTo
  <2> QED
    BY <1>1, <2>1, FS_Interval
<1>6. Len(words) = n /\ \A k \in 1 .. n : Decode(words[k]) = bitcode[k]
  <2>1. n \in 0 .. n /\ InstructionsTo(n) = 1 .. n /\ Cardinality(InstructionsTo(n)) = n
    BY <1>1, <1>5
  <2>2. Len(words) = n
    BY <1>3, <2>1 DEF AllAssembled
  <2>3. ASSUME NEW k \in 1 .. n PROVE Decode(words[k]) = bitcode[k]
    <3>1. Cardinality(InstructionsTo(k)) = k
      BY <1>1, <1>5
    <3>2. Decode(words[Cardinality(InstructionsTo(k))]) = Meant(lines[k])
      BY <1>3, <2>1 DEF AllAssembled
    <3> QED
      BY <1>4, <3>1, <3>2
  <2> QED
    BY <2>2, <2>3
<1>7. DOMAIN words = 1 .. n /\ bitcode = [i \in 1 .. n |-> bitcode[i]]
  BY <1>1, <1>2, <1>6
<1>8. Assembled = [i \in 1 .. n |-> bitcode[i]]
  BY <1>6, <1>7 DEF Assembled
<1> QED
  BY <1>7, <1>8

LEMMA BothInvIsWhole == BothInv => WholeOrNothing
<1> SUFFICES ASSUME BothInv, done, exit_status = 0, stage = "exited", ~refused
             PROVE  /\ Assembled \in {bitcode, <<>>}
                    /\ (exit_code = 0 /\ format = "bit" /\ target = "-" /\ bitcode # <<>>)
                         => Assembled = bitcode
  BY DEF WholeOrNothing
<1>1. BitInv /\ NoneRefused /\ AllAssembled /\ line_no = Len(lines)
  BY DEF BothInv, BitInv
<1>2. NotTranslated \/ Run \/ (Dumped /\ printed = Len(bitcode))
  BY DEF BothInv, PipeInv
<1>3. DOMAIN <<>> = {}
  OBVIOUS
<1>4. CASE NotTranslated
  BY <1>1, <1>3, <1>4, NothingAssembled DEF NotTranslated, NoListing
<1>5. CASE Run
  BY <1>1, <1>5, NothingAssembled DEF Run
<1>6. CASE Dumped /\ printed = Len(bitcode) /\ target # "-"
  BY <1>1, <1>3, <1>6, NothingAssembled DEF Dumped, NoListing
<1>7. CASE Dumped /\ printed = Len(bitcode) /\ target = "-" /\ format = "bit"
  BY <1>1, <1>7, ProgramAssembled DEF Dumped
<1>8. CASE Dumped /\ printed = Len(bitcode) /\ target = "-" /\ format # "bit"
  <2>1. lines = Printout(Len(bitcode))
    BY <1>8 DEF Dumped
  <2>2. NoListing
    BY <1>8, <2>1 DEF NoListing, Printout, Cmd!LineOf
  <2> QED
    BY <1>1, <1>8, <2>2, NothingAssembled
<1> QED
  BY <1>2, <1>4, <1>5, <1>6, <1>7, <1>8

-----------------------------------------------------------------------------
(***************************************************************************)
(* The options.                                                            *)
(***************************************************************************)

LEMMA GivenStep ==
  ASSUME NEW n \in Nat, NEW o
  PROVE  /\ Cmd!Given(o, 1) = {}
         /\ Cmd!Given(o, n + 2)
              = IF args[n + 1].opt = o THEN Cmd!Given(o, n + 1) \cup {n + 1} ELSE Cmd!Given(o, n + 1)
<1>1. Cmd!Given(o, 1) = {}
  BY DEF Cmd!Given
<1>2. n + 2 - 1 = n + 1 /\ n + 1 - 1 = n
  OBVIOUS
<1> QED
  BY <1>1, <1>2 DEF Cmd!Given

\* The last of a kind is the one that is taken now or the one that was.
LEMMA LastArgStep ==
  ASSUME NEW n \in Nat, NEW o, NEW default
  PROVE  /\ LastArgTo(0, o, default) = default
         /\ LastArgTo(n + 1, o, default)
              = IF args[n + 1].opt = o THEN args[n + 1].arg ELSE LastArgTo(n, o, default)
<1> DEFINE S == Cmd!Given(o, n + 1)
           T == Cmd!Given(o, n + 2)
<1>1. 0 + 1 = 1 /\ (n + 1) + 1 = n + 2
  OBVIOUS
<1>2. LastArgTo(0, o, default) = default
  BY <1>1, GivenStep DEF LastArgTo
<1>3. /\ LastArgTo(n, o, default) = IF S = {} THEN default ELSE args[Cmd!LastOf(S)].arg
      /\ LastArgTo(n + 1, o, default) = IF T = {} THEN default ELSE args[Cmd!LastOf(T)].arg
  BY <1>1 DEF LastArgTo
<1>4. T = IF args[n + 1].opt = o THEN S \cup {n + 1} ELSE S
  BY GivenStep
<1>5. \A i \in S : i \in 1 .. n
  BY DEF Cmd!Given
<1> HIDE DEF S, T
<1>6. ASSUME args[n + 1].opt = o PROVE Cmd!LastOf(T) = n + 1 /\ T # {}
  <2>1. T = S \cup {n + 1}
    BY <1>4, <1>6
  <2>2. n + 1 \in T /\ \A j \in T : j <= n + 1
    BY <1>5, <2>1
  <2>3. \A i \in T : (\A j \in T : j <= i) => i = n + 1
    BY <1>5, <2>1, <2>2
  <2> QED
    BY <2>2, <2>3 DEF Cmd!LastOf
<1> QED
  BY <1>2, <1>3, <1>4, <1>6

LEMMA TakenStep ==
  ASSUME args' = args, optind \in Nat, optind' = optind + 1, NEW o, NEW default
  PROVE  /\ LastArgTo(optind, o, default)'
              = IF args[optind + 1].opt = o THEN args[optind + 1].arg ELSE LastArgTo(optind, o, default)
         /\ Cmd!Given(o, optind + 1)'
              = IF args[optind + 1].opt = o THEN Cmd!Given(o, optind + 1) \cup {optind + 1}
                                            ELSE Cmd!Given(o, optind + 1)
<1>1. LastArgTo(optind, o, default)' = LastArgTo(optind + 1, o, default)
  BY DEF LastArgTo, Cmd!Given, Cmd!LastOf
<1>2. Cmd!Given(o, optind + 1)' = Cmd!Given(o, optind + 2)
  <2>1. optind' + 1 = optind + 2
    OBVIOUS
  <2> QED
    BY <2>1 DEF Cmd!Given
<1>3. LastArgTo(optind + 1, o, default)
        = IF args[optind + 1].opt = o THEN args[optind + 1].arg ELSE LastArgTo(optind, o, default)
  BY LastArgStep
<1>4. Cmd!Given(o, optind + 2)
        = IF args[optind + 1].opt = o THEN Cmd!Given(o, optind + 1) \cup {optind + 1}
                                      ELSE Cmd!Given(o, optind + 1)
  BY GivenStep
<1> HIDE DEF LastArgTo
<1> QED
  BY <1>1, <1>2, <1>3, <1>4

LEMMA NoneTaken ==
  ASSUME args' = args, optind' = optind
  PROVE  /\ \A o, default : LastArgTo(optind, o, default)' = LastArgTo(optind, o, default)
         /\ \A o : Cmd!Given(o, optind + 1)' = Cmd!Given(o, optind + 1)
  BY DEF LastArgTo, Cmd!Given, Cmd!LastOf

\* What an option that is obeyed does, apart from the code.
LEMMA OptionSteps ==
  ASSUME CmdInv,
         Cmd!ReadCode \/ Cmd!SetCode \/ Cmd!SetMode \/ Cmd!SetOutput \/ Cmd!Unknown
  PROVE  /\ stage = "options" /\ stage' = stage /\ args' = args
         /\ optind \in Nat /\ optind' = optind + 1 /\ optind' \in 0 .. Len(args)
         /\ args \in Arguments /\ exit_code' = exit_code
         /\ Obeyed /\ FilesInv
  BY ArgumentsAssumption DEF CmdInv, OptionsInv, Cmd!ReadCode, Cmd!SetCode, Cmd!SetMode,
    Cmd!SetOutput, Cmd!Unknown, Cmd!Option, Cmd!Taken

LEMMA PlainOptionKeepsCmd ==
  ASSUME CmdInv, Cmd!ReadCode \/ Cmd!SetCode \/ Cmd!Unknown
  PROVE  CmdInv'
<1> DEFINE o == args[optind + 1].opt
<1>1. /\ stage = "options" /\ stage' = stage /\ args' = args
      /\ optind \in Nat /\ optind' = optind + 1 /\ optind' \in 0 .. Len(args)
      /\ args \in Arguments /\ exit_code' = exit_code /\ Obeyed /\ FilesInv
  BY OptionSteps
<1>2. /\ o \in {"f", "s", "?"} /\ format' = format /\ target' = target /\ files' = files
  BY DEF Cmd!ReadCode, Cmd!SetCode, Cmd!Unknown, Cmd!Option, Cmd!settings, Cmd!outputs
<1>3. /\ LastArgTo(optind, "m", "bf")' = LastArgTo(optind, "m", "bf")
      /\ LastArgTo(optind, "o", "-")' = LastArgTo(optind, "o", "-")
      /\ Cmd!Given("h", optind + 1)' = Cmd!Given("h", optind + 1)
  BY <1>1, <1>2, TakenStep
<1>4. Obeyed'
  BY <1>1, <1>2, <1>3 DEF Obeyed
<1>5. FilesInv'
  BY <1>1, <1>2 DEF FilesInv, Clean
<1> QED
  BY <1>1, <1>4, <1>5 DEF CmdInv, OptionsInv

LEMMA SetModeKeepsCmd ==
  ASSUME CmdInv, Cmd!SetMode
  PROVE  CmdInv'
<1> DEFINE o == args[optind + 1].opt
<1>1. /\ stage = "options" /\ stage' = stage /\ args' = args
      /\ optind \in Nat /\ optind' = optind + 1 /\ optind' \in 0 .. Len(args)
      /\ args \in Arguments /\ exit_code' = exit_code /\ Obeyed /\ FilesInv
  BY OptionSteps
<1>2. /\ o = "m" /\ format' = args[optind + 1].arg /\ target' = target /\ files' = files
  BY DEF Cmd!SetMode, Cmd!Option, Cmd!Arg, Cmd!outputs
<1>3. /\ LastArgTo(optind, "m", "bf")' = args[optind + 1].arg
      /\ LastArgTo(optind, "o", "-")' = LastArgTo(optind, "o", "-")
      /\ Cmd!Given("h", optind + 1)' = Cmd!Given("h", optind + 1)
  BY <1>1, <1>2, TakenStep
<1>4. Obeyed'
  BY <1>1, <1>2, <1>3 DEF Obeyed
<1>5. FilesInv'
  BY <1>1, <1>2 DEF FilesInv, Clean
<1> QED
  BY <1>1, <1>4, <1>5 DEF CmdInv, OptionsInv

LEMMA SetOutputKeepsCmd ==
  ASSUME CmdInv, Cmd!SetOutput
  PROVE  CmdInv'
<1> DEFINE o == args[optind + 1].opt
           a == args[optind + 1].arg
<1>1. /\ stage = "options" /\ stage' = stage /\ args' = args
      /\ optind \in Nat /\ optind' = optind + 1 /\ optind' \in 0 .. Len(args)
      /\ args \in Arguments /\ exit_code' = exit_code /\ Obeyed /\ FilesInv
  BY OptionSteps
<1>2. /\ o = "o" /\ format' = format /\ target' = a
      /\ files' = IF a = "-" THEN files
                  ELSE [n \in DOMAIN files \cup {a} |-> IF n = a THEN <<>> ELSE files[n]]
  BY DEF Cmd!SetOutput, Cmd!Option, Cmd!Arg
<1>3. /\ LastArgTo(optind, "m", "bf")' = LastArgTo(optind, "m", "bf")
      /\ LastArgTo(optind, "o", "-")' = a
      /\ Cmd!Given("h", optind + 1)' = Cmd!Given("h", optind + 1)
  BY <1>1, <1>2, TakenStep
<1>4. Obeyed'
  BY <1>1, <1>2, <1>3 DEF Obeyed
<1>5. FilesInv'
  <2> HIDE DEF a
  <2>1. exit_code = 0 /\ \A name \in DOMAIN files : Clean(name)
    BY <1>1 DEF FilesInv
  <2>2. \A name \in DOMAIN files' : Clean(name)'
    BY <1>2, <2>1 DEF Clean
  <2>3. target' # "-" => target' \in DOMAIN files' /\ files'[target'] = <<>>
    BY <1>2
  <2> QED
    BY <1>1, <2>1, <2>2, <2>3 DEF FilesInv
<1> QED
  BY <1>1, <1>4, <1>5 DEF CmdInv, OptionsInv

LEMMA FailureKeepsCmd ==
  ASSUME PipeInv, CmdInv, Cmd!Help \/ Cmd!NotOpened \/ Cmd!Refuse
  PROVE  CmdInv'
<1>1. /\ stage = "options" /\ stage' = "exited" /\ args' = args /\ lines' = lines
      /\ bitcode' = bitcode /\ format' = format /\ target' = target /\ files' = files
  BY DEF Cmd!Help, Cmd!NotOpened, Cmd!Refuse, Cmd!Option, Cmd!Exit, Cmd!AllTaken, Cmd!settings,
    Cmd!outputs
<1>2. /\ args \in Arguments /\ optind \in 0 .. Len(args) /\ FilesInv /\ Len(args) \in Nat
  BY <1>1, ArgumentsAssumption DEF CmdInv, OptionsInv
<1>3. optind' \in 0 .. Len(args)
  BY <1>2 DEF Cmd!Help, Cmd!NotOpened, Cmd!Refuse, Cmd!Option, Cmd!AllTaken
<1>4. exit_code' = 1 \/ Cmd!Given("h", Len(args) + 1)' # {}
  <2>1. CASE Cmd!Help
    <3>1. args[optind + 1].opt = "h" /\ optind + 1 \in 1 .. Len(args)
      BY <1>2, <2>1 DEF Cmd!Help, Cmd!Option
    <3>2. Len(args) + 1 - 1 = Len(args)
      BY <1>2
    <3>3. optind + 1 \in Cmd!Given("h", Len(args) + 1)
      BY <3>1, <3>2 DEF Cmd!Given
    <3>4. Cmd!Given("h", Len(args) + 1)' = Cmd!Given("h", Len(args) + 1)
      BY <1>1 DEF Cmd!Given
    <3> QED
      BY <3>3, <3>4
  <2>2. CASE Cmd!NotOpened \/ Cmd!Refuse
    BY <2>2 DEF Cmd!NotOpened, Cmd!Refuse, Cmd!Exit
  <2> QED
    BY <2>1, <2>2
<1>5. NotTranslated' /\ \A name \in DOMAIN files' : Clean(name)'
  BY <1>1, <1>2 DEF PipeInv, NotTranslated, FilesInv, Clean
<1>6. ExitInv'
  BY <1>4, <1>5 DEF ExitInv
<1>7. OptionsInv' /\ FilesInv'
  BY <1>1, <1>2, <1>3 DEF OptionsInv, FilesInv
<1> QED
  BY <1>6, <1>7 DEF CmdInv

LEMMA TranslateKeepsCmd ==
  ASSUME PipeInv, CmdInv, Cmd!Translate
  PROVE  CmdInv'
<1>1. /\ stage = "options" /\ stage' = IF format = "bf" THEN "running" ELSE "dumping"
      /\ optind = Len(args) /\ optind' = optind /\ args' = args /\ lines' = lines
      /\ format' = format /\ target' = target /\ files' = files /\ full' = full
      /\ printed' = printed /\ exit_code' = exit_code
  BY DEF Cmd!Translate, Cmd!AllTaken, Cmd!settings, Cmd!outputs
<1>2. /\ args \in Arguments /\ optind \in 0 .. Len(args) /\ Obeyed /\ FilesInv /\ printed = 0
  BY <1>1 DEF CmdInv, OptionsInv, PipeInv, NotTranslated
<1>3. Obeyed'
  BY <1>1, <1>2, NoneTaken DEF Obeyed
<1>4. \A name \in DOMAIN files : Clean(name) /\ Clean(name)'
  BY <1>1, <1>2 DEF FilesInv, Clean
<1>5. Printout(printed)' = <<>>
  BY <1>1, <1>2 DEF Printout
<1>6. FilesInv'
  BY <1>1, <1>2, <1>4, <1>5 DEF FilesInv
<1> QED
  BY <1>1, <1>2, <1>3, <1>6 DEF CmdInv, OptionsInv

LEMMA PrintKeepsCmd ==
  ASSUME PipeInv, CmdInv, Cmd!PrintLine
  PROVE  CmdInv'
<1> DEFINE x == Cmd!LineOf(bitcode[printed + 1])
           old == Printout(printed)
<1>1. /\ stage = "dumping" /\ stage' = stage /\ format' = format /\ target' = target
      /\ Printout(printed)' = Append(old, x) /\ Cmd!Write(x)
  BY PrintSteps
<1>2. optind' = optind /\ args' = args /\ exit_code' = exit_code
  BY DEF Cmd!PrintLine
<1>3. /\ args \in Arguments /\ optind \in 0 .. Len(args) /\ optind = Len(args)
      /\ Obeyed /\ FilesInv
  BY <1>1 DEF CmdInv, OptionsInv
<1>4. Obeyed'
  BY <1>1, <1>2, <1>3, NoneTaken DEF Obeyed
<1>5. /\ \A name \in DOMAIN files : (name = target /\ target # "-") \/ Clean(name)
      /\ target # "-" => target \in DOMAIN files /\ (full \/ files[target] = old)
      /\ exit_code = 0
  BY <1>1, <1>3 DEF FilesInv
<1> HIDE DEF x, old
<1>6. \/ files' = files /\ full' = full /\ target = "-"
      \/ ~full /\ target # "-" /\ full' = full
           /\ files' = [files EXCEPT ![target] = Append(files[target], x)]
      \/ full' = TRUE /\ files' = files /\ target # "-"
  BY <1>1 DEF Cmd!Write
<1>7. DOMAIN files' = DOMAIN files /\ \A name \in DOMAIN files : name # target => files'[name] = files[name]
  BY <1>6
<1>8. target # "-" => full' \/ files'[target] = Append(old, x)
  BY <1>5, <1>6
<1>9. \A name \in DOMAIN files' : (name = target /\ target # "-") \/ Clean(name)'
  <2> SUFFICES ASSUME NEW name \in DOMAIN files, ~(name = target /\ target # "-")
               PROVE  Clean(name)'
    BY <1>7
  <2>1. files'[name] = files[name]
    BY <1>6, <1>7
  <2> QED
    BY <1>5, <2>1 DEF Clean
<1>10. FilesInv'
  <2>1. target' # "-" => target' \in DOMAIN files'
    BY <1>1, <1>5, <1>7
  <2>2. exit_code' = 0
    BY <1>2, <1>5
  <2> QED
    BY <1>1, <1>8, <1>9, <2>1, <2>2 DEF FilesInv
<1> QED
  BY <1>1, <1>2, <1>3, <1>4, <1>10 DEF CmdInv, OptionsInv

LEMMA EndKeepsCmd ==
  ASSUME PipeInv, CmdInv, Cmd!DumpEnds \/ Cmd!RunEnds
  PROVE  CmdInv'
<1>1. /\ stage' = "exited" /\ bitcode' = bitcode /\ format' = format /\ args' = args
      /\ target' = target /\ printed' = printed /\ lines' = lines /\ files' = files
      /\ full' = full /\ exit_code' = 0 /\ optind' = optind
  BY DEF Cmd!DumpEnds, Cmd!RunEnds, Cmd!Exit, Cmd!settings, Cmd!outputs
<1>2. stage \in {"dumping", "running"}
  BY DEF Cmd!DumpEnds, Cmd!RunEnds
<1>3. /\ args \in Arguments /\ optind \in 0 .. Len(args) /\ optind = Len(args)
      /\ Obeyed /\ FilesInv
  BY <1>2 DEF CmdInv, OptionsInv
<1>4. Ended'
  BY <1>1, <1>3, NoneTaken DEF Ended, Obeyed
<1>5. OptionsInv' /\ FilesInv'
  BY <1>1, <1>3 DEF OptionsInv, FilesInv
<1>7. Printout(printed)' = Printout(printed)
  BY <1>1 DEF Printout, Cmd!LineOf
<1>8. CASE Cmd!DumpEnds
  <2>1. stage = "dumping" /\ printed = Len(bitcode)
    BY <1>8 DEF Cmd!DumpEnds
  <2>2. Dumped'
    BY <1>1, <1>7, <2>1 DEF PipeInv, Dumped, Cmd!Formats
  <2>3. /\ \A name \in DOMAIN files' : (name = target' /\ target' # "-") \/ Clean(name)'
        /\ target' # "-" => full' \/ files'[target'] = Printout(printed)'
    BY <1>1, <1>3, <1>7, <2>1 DEF FilesInv, Clean
  <2>4. ExitInv'
    BY <1>1, <1>4, <2>1, <2>2, <2>3 DEF ExitInv
  <2> QED
    BY <1>5, <2>4 DEF CmdInv
<1>9. CASE Cmd!RunEnds
  <2>1. stage = "running"
    BY <1>9 DEF Cmd!RunEnds
  <2>2. Run'
    BY <1>1, <2>1 DEF PipeInv, Run, NoListing
  <2>3. \A name \in DOMAIN files' : Clean(name)'
    BY <1>1, <1>3, <2>1 DEF FilesInv, Clean
  <2>4. ExitInv'
    BY <1>4, <2>2, <2>3 DEF ExitInv
  <2> QED
    BY <1>5, <2>4 DEF CmdInv
<1> QED
  BY <1>8, <1>9

LEMMA RunKeepsCmd ==
  ASSUME CmdInv, Cmd!RunWrites
  PROVE  CmdInv'
<1>1. /\ stage = "running" /\ stage' = stage /\ optind' = optind /\ args' = args
      /\ format' = format /\ target' = target /\ files' = files /\ exit_code' = exit_code
  BY DEF Cmd!RunWrites, Cmd!settings
<1>2. Obeyed /\ Obeyed'
  BY <1>1, NoneTaken DEF CmdInv, OptionsInv, Obeyed
<1>3. FilesInv'
  BY <1>1 DEF CmdInv, FilesInv, Clean
<1> QED
  BY <1>1, <1>2, <1>3 DEF CmdInv, OptionsInv

LEMMA WriterKeepsCmd ==
  ASSUME PipeInv, CmdInv, WriterStep
  PROVE  CmdInv'
  BY PlainOptionKeepsCmd, SetModeKeepsCmd, SetOutputKeepsCmd, FailureKeepsCmd, TranslateKeepsCmd,
    PrintKeepsCmd, EndKeepsCmd, RunKeepsCmd DEF WriterStep, Cmd!Main

LEMMA ReaderKeepsCmd ==
  ASSUME CmdInv, lines' = lines, UNCHANGED cmdstate
  PROVE  CmdInv'
<1>1. /\ stage' = stage /\ optind' = optind /\ args' = args /\ bitcode' = bitcode
      /\ format' = format /\ target' = target /\ files' = files /\ exit_code' = exit_code
      /\ printed' = printed /\ full' = full
  BY DEF cmdstate
<1>2. Printout(printed)' = Printout(printed)
  BY <1>1 DEF Printout, Cmd!LineOf
<1>3. Obeyed' <=> Obeyed
  BY <1>1, NoneTaken DEF Obeyed
<1>4. Cmd!Given("h", Len(args) + 1)' = Cmd!Given("h", Len(args) + 1)
  BY <1>1 DEF Cmd!Given
<1>5. (\A name : Clean(name)' <=> Clean(name)) /\ (OptionsInv' <=> OptionsInv)
  BY <1>1, <1>3 DEF Clean, OptionsInv
<1>6. (FilesInv' <=> FilesInv) /\ (Ended' <=> Ended)
  BY <1>1, <1>2, <1>3, <1>5 DEF FilesInv, Ended
<1>7. /\ NotTranslated' <=> NotTranslated
      /\ Run' <=> Run
      /\ Dumped' <=> Dumped
  BY <1>1, <1>2 DEF NotTranslated, Run, NoListing, Dumped, Cmd!Formats
<1>8. ExitInv' <=> ExitInv
  BY <1>1, <1>2, <1>4, <1>5, <1>6, <1>7 DEF ExitInv
<1> QED
  BY <1>1, <1>5, <1>6, <1>8 DEF CmdInv

-----------------------------------------------------------------------------
(***************************************************************************)
(* FlattenSeq, one sequence at a time.                                     *)
(***************************************************************************)

\* What FlattenSeq's recursive function is for the first n sequences of s.
Flattens(f, s, n) == f = [i \in 1 .. n |-> IF i = 1 THEN s[i] ELSE f[i - 1] \o s[i]]

LEMMA FlattensAt ==
  ASSUME NEW f, NEW s, NEW n \in Nat
  PROVE  Flattens(f, s, n) <=> /\ f = [i \in 1 .. n |-> f[i]]
                               /\ \A i \in 1 .. n : f[i] = IF i = 1 THEN s[i] ELSE f[i - 1] \o s[i]
  BY DEF Flattens

\* There is such a function.
LEMMA FlattensExists ==
  ASSUME NEW s, NEW n \in Nat
  PROVE  \E f : Flattens(f, s, n)
<1> DEFINE Missing == {k \in Nat : ~ \E f : Flattens(f, s, k)}
<1>1. SUFFICES ASSUME n \in Missing PROVE FALSE
  OBVIOUS
<1>2. PICK m \in Missing : \A k \in Missing : m <= k
  <2>1. Missing \in SUBSET Nat /\ Missing # {}
    BY <1>1
  <2> HIDE DEF Missing
  <2> QED
    BY <2>1, LeastExists
<1>3. m \in Nat /\ ~ \E f : Flattens(f, s, m)
  BY <1>2
<1>4. m # 0
  <2>1. 1 .. 0 = {}
    OBVIOUS
  <2> DEFINE f == [i \in 1 .. 0 |-> s[i]]
  <2>2. Flattens(f, s, 0)
    BY <2>1 DEF Flattens
  <2> QED
    BY <1>3, <2>2
<1>5. m - 1 \in Nat /\ m - 1 \notin Missing
  <2>1. m - 1 \in Nat /\ ~(m <= m - 1)
    BY <1>3, <1>4
  <2> QED
    BY <1>2, <2>1
<1>6. PICK f : Flattens(f, s, m - 1)
  BY <1>5
<1> DEFINE g == [i \in 1 .. m |-> IF i = 1 THEN s[i] ELSE f[i - 1] \o s[i]]
<1>7. ASSUME NEW i \in 1 .. m, i # 1
      PROVE  g[i - 1] = f[i - 1]
  <2>1. i - 1 \in 1 .. m - 1 /\ i - 1 \in 1 .. m
    BY <1>3, <1>7
  <2>2. f[i - 1] = IF i - 1 = 1 THEN s[i - 1] ELSE f[(i - 1) - 1] \o s[i - 1]
    BY <1>5, <1>6, <2>1, FlattensAt
  <2> QED
    BY <2>1, <2>2
<1>8. g = [i \in 1 .. m |-> g[i]] /\ \A i \in 1 .. m : g[i] = IF i = 1 THEN s[i] ELSE f[i - 1] \o s[i]
  OBVIOUS
<1> HIDE DEF g
<1>9. Flattens(g, s, m)
  <2>1. \A i \in 1 .. m : g[i] = IF i = 1 THEN s[i] ELSE g[i - 1] \o s[i]
    BY <1>7, <1>8
  <2> QED
    BY <1>3, <1>8, <2>1, FlattensAt
<1> QED
  BY <1>3, <1>9

\* s and t begin with the same n sequences.
Alike(s, t, n) == \A i \in 1 .. n : s[i] = t[i]

\* It depends on these n sequences only.
LEMMA FlattensAlike ==
  ASSUME NEW s, NEW t, NEW n \in Nat, NEW m \in Nat, NEW f, NEW g,
         n <= m, Alike(s, t, n), Flattens(f, s, n), Flattens(g, t, m)
  PROVE  \A i \in 1 .. n : f[i] = g[i]
<1> DEFINE Wrong == {k \in Nat : k \in 1 .. n /\ f[k] # g[k]}
<1>1. SUFFICES ASSUME NEW i \in 1 .. n, f[i] # g[i] PROVE FALSE
  OBVIOUS
<1>2. PICK k \in Wrong : \A j \in Wrong : k <= j
  <2>1. Wrong \in SUBSET Nat /\ Wrong # {}
    BY <1>1
  <2> HIDE DEF Wrong
  <2> QED
    BY <2>1, LeastExists
<1>3. k \in 1 .. n /\ k \in 1 .. m /\ f[k] # g[k] /\ s[k] = t[k]
  BY <1>2 DEF Alike
<1>4. /\ f[k] = IF k = 1 THEN s[k] ELSE f[k - 1] \o s[k]
      /\ g[k] = IF k = 1 THEN t[k] ELSE g[k - 1] \o t[k]
  BY <1>3, FlattensAt
<1>5. k # 1 /\ f[k - 1] # g[k - 1]
  BY <1>3, <1>4
<1>6. k - 1 \in Nat /\ k - 1 \in 1 .. n /\ ~(k <= k - 1)
  BY <1>3, <1>5
<1>7. k - 1 \in Wrong
  BY <1>5, <1>6
<1> QED
  BY <1>2, <1>6, <1>7

LEMMA FlattenSeqIs ==
  ASSUME NEW s, Len(s) \in Nat, Len(s) # 0
  PROVE  \E f : Flattens(f, s, Len(s)) /\ Cmd!FlattenSeq(s) = f[Len(s)]
<1>1. Cmd!FlattenSeq(s) = (CHOOSE f : Flattens(f, s, Len(s)))[Len(s)]
  BY DEF Cmd!FlattenSeq, Flattens
<1>2. \E f : Flattens(f, s, Len(s))
  BY FlattensExists
<1> QED
  BY <1>1, <1>2

\* One sequence more is appended, whatever it is.
LEMMA FlattenLonger ==
  ASSUME NEW s, NEW t, NEW n \in Nat, NEW m \in Nat, Len(s) = n, Len(t) = m, m = n + 1,
         Alike(s, t, n)
  PROVE  Cmd!FlattenSeq(t) = IF n = 0 THEN t[m] ELSE Cmd!FlattenSeq(s) \o t[m]
<1>1. n <= m /\ m # 0 /\ m \in 1 .. m /\ m - 1 = n /\ (m = 1 <=> n = 0)
  OBVIOUS
<1>2. PICK g : Flattens(g, t, m) /\ Cmd!FlattenSeq(t) = g[m]
  BY <1>1, FlattenSeqIs
<1>3. g[m] = IF m = 1 THEN t[m] ELSE g[m - 1] \o t[m]
  BY <1>1, <1>2, FlattensAt
<1>5. \A f, h : Flattens(f, s, n) /\ Flattens(h, t, m) => \A i \in 1 .. n : f[i] = h[i]
  <2> SUFFICES ASSUME NEW f, NEW h, Flattens(f, s, n), Flattens(h, t, m)
               PROVE  \A i \in 1 .. n : f[i] = h[i]
    OBVIOUS
  <2> QED
    BY <1>1, FlattensAlike
<1>4. ASSUME n # 0 PROVE g[n] = Cmd!FlattenSeq(s)
  <2>1. PICK f : Flattens(f, s, n) /\ Cmd!FlattenSeq(s) = f[n]
    BY <1>4, FlattenSeqIs
  <2>2. \A i \in 1 .. n : f[i] = g[i]
    BY <1>2, <1>5, <2>1
  <2>3. n \in 1 .. n
    BY <1>4
  <2> QED
    BY <2>1, <2>2, <2>3
<1> QED
  BY <1>1, <1>2, <1>3, <1>4

\* Flattening one sequence more appends it.
LEMMA FlattenAppend ==
  ASSUME NEW S, NEW s \in Seq(Seq(S)), NEW x \in Seq(S)
  PROVE  /\ Cmd!FlattenSeq(<<>>) = <<>>
         /\ Cmd!FlattenSeq(Append(s, x)) = Cmd!FlattenSeq(s) \o x
<1>1. Cmd!FlattenSeq(<<>>) = <<>>
  <2>1. Len(<<>>) = 0
    OBVIOUS
  <2> QED
    BY <2>1 DEF Cmd!FlattenSeq
<1>2. PICK n, m, t : n = Len(s) /\ m = n + 1 /\ t = Append(s, x)
  OBVIOUS
<1>3. /\ n \in Nat /\ m \in Nat /\ Len(s) = n /\ Len(t) = m /\ m = n + 1
      /\ t[m] = x /\ \A i \in 1 .. n : s[i] = t[i]
  BY <1>2
<1>4. Cmd!FlattenSeq(t) = IF n = 0 THEN t[m] ELSE Cmd!FlattenSeq(s) \o t[m]
  <2>1. Alike(s, t, n)
    BY <1>3 DEF Alike
  <2> QED
    BY <1>3, <2>1, FlattenLonger, ZenonT(60)
<1>5. n = 0 => Cmd!FlattenSeq(s) = <<>>
  <2>1. n = 0 => s = <<>>
    BY <1>2, EmptySeq
  <2> QED
    BY <1>1, <2>1
<1> QED
  BY <1>1, <1>2, <1>3, <1>4, <1>5

\* What is flattened is a sequence of the same kind.
LEMMA FlattenType ==
  ASSUME NEW S, NEW s \in Seq(Seq(S))
  PROVE  Cmd!FlattenSeq(s) \in Seq(S)
<1> DEFINE n == Len(s)
<1>1. n \in Nat /\ \A i \in 1 .. n : s[i] \in Seq(S)
  OBVIOUS
<1>2. CASE n = 0
  BY <1>2 DEF Cmd!FlattenSeq
<1>3. CASE n # 0
  <2>1. PICK f : Flattens(f, s, n) /\ Cmd!FlattenSeq(s) = f[n]
    BY <1>1, <1>3, FlattenSeqIs
  <2> HIDE DEF n
  <2> DEFINE Wrong == {k \in Nat : k \in 1 .. n /\ f[k] \notin Seq(S)}
  <2>2. SUFFICES ASSUME f[n] \notin Seq(S) PROVE FALSE
    BY <2>1
  <2>3. PICK k \in Wrong : \A j \in Wrong : k <= j
    <3>1. Wrong \in SUBSET Nat /\ n \in Wrong
      BY <1>1, <1>3, <2>2
    <3> HIDE DEF Wrong
    <3> QED
      BY <3>1, LeastExists
  <2>4. k \in 1 .. n /\ f[k] \notin Seq(S) /\ s[k] \in Seq(S)
    BY <1>1, <2>3
  <2>5. f[k] = IF k = 1 THEN s[k] ELSE f[k - 1] \o s[k]
    BY <1>1, <2>1, <2>4, FlattensAt
  <2>6. k # 1
    BY <2>4, <2>5
  <2>7. k - 1 \in Nat /\ k - 1 \in 1 .. n /\ ~(k <= k - 1)
    BY <1>1, <2>4, <2>6
  <2>8. k - 1 \notin Wrong
    BY <2>3, <2>7
  <2>9. f[k - 1] \in Seq(S)
    BY <2>7, <2>8
  <2> HIDE DEF Wrong
  <2>10. f[k - 1] \o s[k] \in Seq(S)
    BY <2>4, <2>9
  <2> QED
    BY <2>4, <2>5, <2>6, <2>10
<1> QED
  BY <1>2, <1>3

-----------------------------------------------------------------------------
(***************************************************************************)
(* The program that the options name.                                      *)
(***************************************************************************)

\* The position of the last -s of the first n options, and what stands there.
TextOption(n) ==
  LET S == Cmd!Given("s", n + 1) IN IF S = {} THEN 0 ELSE Cmd!LastOf(S)
FirstText(n) == IF TextOption(n) = 0 THEN <<>> ELSE args[TextOption(n)].arg

\* The files behind it.
FileTexts(n) == [i \in 1 .. n - TextOption(n) |-> Cmd!TextAt(TextOption(n) + i)]

LEMMA GivenToParts ==
  ASSUME NEW n
  PROVE  Cmd!GivenTo(n) = FirstText(n) \o Cmd!FlattenSeq(FileTexts(n))
  BY DEF Cmd!GivenTo, FirstText, FileTexts, TextOption

LEMMA TextOptionStep ==
  ASSUME NEW n \in Nat
  PROVE  /\ TextOption(0) = 0
         /\ TextOption(n + 1) = IF args[n + 1].opt = "s" THEN n + 1 ELSE TextOption(n)
<1> DEFINE S == Cmd!Given("s", n + 1)
           T == Cmd!Given("s", n + 2)
<1>1. 0 + 1 = 1 /\ (n + 1) + 1 = n + 2
  OBVIOUS
<1>2. TextOption(0) = 0
  BY <1>1, GivenStep DEF TextOption
<1>3. /\ TextOption(n) = IF S = {} THEN 0 ELSE Cmd!LastOf(S)
      /\ TextOption(n + 1) = IF T = {} THEN 0 ELSE Cmd!LastOf(T)
  BY <1>1 DEF TextOption
<1>4. T = IF args[n + 1].opt = "s" THEN S \cup {n + 1} ELSE S
  BY GivenStep
<1>5. \A i \in S : i \in 1 .. n
  BY DEF Cmd!Given
<1> HIDE DEF S, T
<1>6. ASSUME args[n + 1].opt = "s" PROVE Cmd!LastOf(T) = n + 1 /\ T # {}
  <2>1. T = S \cup {n + 1}
    BY <1>4, <1>6
  <2>2. n + 1 \in T /\ \A j \in T : j <= n + 1
    BY <1>5, <2>1
  <2>3. \A i \in T : (\A j \in T : j <= i) => i = n + 1
    BY <1>5, <2>1, <2>2
  <2> QED
    BY <2>2, <2>3 DEF Cmd!LastOf
<1> QED
  BY <1>2, <1>3, <1>4, <1>6

\* It is one of the n options.
TextOptionIs(n) ==
  /\ TextOption(n) \in 0 .. n
  /\ TextOption(n) # 0 => args[TextOption(n)].opt = "s"

LEMMA TextOptionAlways ==
  ASSUME NEW n \in Nat
  PROVE  TextOptionIs(n)
<1> DEFINE Wrong == {k \in Nat : ~TextOptionIs(k)}
<1>1. SUFFICES ASSUME n \in Wrong PROVE FALSE
  OBVIOUS
<1>2. PICK m \in Wrong : \A k \in Wrong : m <= k
  <2>1. Wrong \in SUBSET Nat /\ Wrong # {}
    BY <1>1
  <2> HIDE DEF Wrong
  <2> QED
    BY <2>1, LeastExists
<1>3. m \in Nat /\ ~TextOptionIs(m)
  BY <1>2
<1>4. m # 0
  <2>1. TextOption(0) = 0
    BY TextOptionStep
  <2> QED
    BY <1>3, <2>1 DEF TextOptionIs
<1>5. PICK k \in Nat : m = k + 1
  <2>1. m - 1 \in Nat /\ m = (m - 1) + 1
    BY <1>3, <1>4
  <2> QED
    BY <2>1
<1>6. TextOptionIs(k)
  <2>1. ~(m <= k)
    BY <1>5
  <2> QED
    BY <1>2, <2>1
<1>7. TextOption(m) = IF args[m].opt = "s" THEN m ELSE TextOption(k)
  BY <1>5, TextOptionStep
<1>8. TextOptionIs(m)
  BY <1>5, <1>6, <1>7 DEF TextOptionIs
<1> QED
  BY <1>3, <1>8

LEMMA InstructionsType ==
  ASSUME NEW text \in Seq(Cmd!Char)
  PROVE  Cmd!Instructions(text) \in Seq(Cmd!Char)
<1> DEFINE I == {i \in DOMAIN text : text[i] \in Cmd!InstructionChar}
<1>1. I \in SUBSET DOMAIN text
  OBVIOUS
<1>2. Cmd!Instructions(text) = Cmd!Picked(text, I)
  BY DEF Cmd!Instructions
<1> HIDE DEF I
<1>3. Picked(text, I) \in Seq(Cmd!Char)
  BY <1>1, PickedType
<1>4. Cmd!Picked(text, I) = Picked(text, I)
  BY DEF Cmd!Picked, Picked, Cmd!Cardinality, Cardinality
<1> QED
  BY <1>2, <1>3, <1>4

LEMMA TextAtType ==
  ASSUME NEW i
  PROVE  Cmd!TextAt(i) \in Seq(Cmd!Char)
<1>1. CASE args[i].opt = "f" /\ args[i].arg \in DOMAIN Originals
  <2> DEFINE text == Originals[args[i].arg]
  <2>1. text \in Seq(Cmd!Char)
    BY <1>1, OriginalsAssumption
  <2> HIDE DEF text
  <2>2. Cmd!Instructions(text) \in Seq(Cmd!Char)
    BY <2>1, InstructionsType
  <2> QED
    BY <1>1, <2>2 DEF Cmd!TextAt, text
<1>2. CASE ~(args[i].opt = "f" /\ args[i].arg \in DOMAIN Originals)
  BY <1>2 DEF Cmd!TextAt
<1> QED
  BY <1>1, <1>2

LEMMA GivenToTypes ==
  ASSUME args \in Arguments, NEW n \in 0 .. Len(args)
  PROVE  FirstText(n) \in Seq(Cmd!Char) /\ FileTexts(n) \in Seq(Seq(Cmd!Char))
<1>1. n \in Nat /\ Len(args) \in Nat /\ DOMAIN args = 1 .. Len(args) /\ TextOptionIs(n)
  BY ArgumentsAssumption, TextOptionAlways
<1>2. FirstText(n) \in Seq(Cmd!Char)
  <2>1. CASE TextOption(n) = 0
    BY <2>1 DEF FirstText
  <2>2. CASE TextOption(n) # 0
    <3>1. TextOption(n) \in DOMAIN args /\ args[TextOption(n)].opt = "s"
      BY <1>1, <2>2 DEF TextOptionIs
    <3> QED
      BY <2>2, <3>1, ArgumentsAssumption DEF FirstText
  <2> QED
    BY <2>1, <2>2
<1>3. FileTexts(n) \in Seq(Seq(Cmd!Char))
  <2> DEFINE k == TextOption(n)
             m == n - k
  <2>1. m \in Nat /\ \A i \in 1 .. m : Cmd!TextAt(k + i) \in Seq(Cmd!Char)
    BY <1>1, TextAtType DEF TextOptionIs
  <2>2. FileTexts(n) = [i \in 1 .. m |-> Cmd!TextAt(k + i)]
    BY DEF FileTexts
  <2> HIDE DEF m, k
  <2> QED
    BY <2>1, <2>2
<1> QED
  BY <1>2, <1>3

\* Nothing is given by no option; a text replaces what was given; a file is
\* added to it.
LEMMA GivenToStart ==
  Cmd!GivenTo(0) = <<>>
<1>1. TextOption(0) = 0
  BY TextOptionStep
<1>2. FirstText(0) = <<>> /\ FileTexts(0) = <<>>
  BY <1>1 DEF FirstText, FileTexts
<1>3. Cmd!FlattenSeq(<<>>) = <<>>
  <2>1. Len(<<>>) = 0
    OBVIOUS
  <2> QED
    BY <2>1 DEF Cmd!FlattenSeq
<1> QED
  BY <1>2, <1>3, GivenToParts

\* Texts are appended in any grouping.
LEMMA TextsAppended ==
  \A s, t, u \in Seq(Cmd!Char) : s \o (t \o u) = (s \o t) \o u
<1> TAKE s, t, u \in Seq(Cmd!Char)
<1> QED
  BY ConcatAssociative, SMTT(30)

LEMMA GivenToStep ==
  ASSUME args \in Arguments, NEW n \in Nat, n + 1 \in 0 .. Len(args)
  PROVE  Cmd!GivenTo(n + 1)
           = IF args[n + 1].opt = "s" THEN args[n + 1].arg
             ELSE Cmd!GivenTo(n) \o Cmd!TextAt(n + 1)
<1> DEFINE k == TextOption(n)
           x == Cmd!TextAt(n + 1)
<1>1. /\ n \in 0 .. Len(args) /\ n + 1 \in DOMAIN args /\ k \in 0 .. n
      /\ TextOption(n + 1) = IF args[n + 1].opt = "s" THEN n + 1 ELSE k
  <2>1. Len(args) \in Nat /\ DOMAIN args = 1 .. Len(args)
    BY ArgumentsAssumption
  <2>2. k \in 0 .. n
    BY TextOptionAlways DEF TextOptionIs
  <2>3. TextOption(n + 1) = IF args[n + 1].opt = "s" THEN n + 1 ELSE k
    BY TextOptionStep
  <2> HIDE DEF k
  <2> QED
    BY <2>1, <2>2, <2>3
<1>2. CASE args[n + 1].opt = "s"
  <2>1. TextOption(n + 1) = n + 1 /\ n + 1 # 0 /\ (n + 1) - (n + 1) = 0
    BY <1>1, <1>2
  <2>2. FirstText(n + 1) = args[n + 1].arg /\ args[n + 1].arg \in Seq(Cmd!Char)
    BY <1>1, <1>2, <2>1, ArgumentsAssumption DEF FirstText
  <2>3. FileTexts(n + 1) = <<>>
    BY <2>1 DEF FileTexts
  <2>4. Cmd!FlattenSeq(<<>>) = <<>>
    <3>1. Len(<<>>) = 0
      OBVIOUS
    <3> QED
      BY <3>1 DEF Cmd!FlattenSeq
  <2>5. Cmd!GivenTo(n + 1) = FirstText(n + 1) \o Cmd!FlattenSeq(FileTexts(n + 1))
    BY GivenToParts
  <2> QED
    BY <1>2, <2>2, <2>3, <2>4, <2>5
<1>3. CASE args[n + 1].opt # "s"
  <2> DEFINE t == FileTexts(n)
             a == FirstText(n)
  <2>1. TextOption(n + 1) = k
    BY <1>1, <1>3
  <2>2. FirstText(n + 1) = a
    BY <2>1 DEF FirstText
  <2>3. a \in Seq(Cmd!Char) /\ t \in Seq(Seq(Cmd!Char)) /\ x \in Seq(Cmd!Char)
    BY <1>1, GivenToTypes, TextAtType
  <2>4. FileTexts(n + 1) = Append(t, x)
    <3> DEFINE m == n - k
    <3>1. m \in Nat /\ (n + 1) - k = m + 1 /\ k + (m + 1) = n + 1
      BY <1>1
    <3>2. FileTexts(n + 1) = [i \in 1 .. m + 1 |-> Cmd!TextAt(k + i)]
      BY <2>1, <3>1 DEF FileTexts
    <3>3. t = [i \in 1 .. m |-> Cmd!TextAt(k + i)]
      BY DEF FileTexts
    <3>4. Cmd!TextAt(k + (m + 1)) = x
      BY <3>1
    <3> HIDE DEF m, t, k, x
    <3>5. Len(t) = m
      BY <3>1, <3>3
    <3> QED
      BY <2>3, <3>1, <3>2, <3>3, <3>4, <3>5
  <2>5. Cmd!FlattenSeq(Append(t, x)) = Cmd!FlattenSeq(t) \o x
        /\ Cmd!FlattenSeq(t) \in Seq(Cmd!Char)
    <3> HIDE DEF t, x
    <3> QED
      BY <2>3, FlattenAppend, FlattenType
  <2>6. /\ Cmd!GivenTo(n + 1) = a \o (Cmd!FlattenSeq(t) \o x)
        /\ Cmd!GivenTo(n) = a \o Cmd!FlattenSeq(t)
    BY <2>2, <2>4, <2>5, GivenToParts
  <2> HIDE DEF t, x, a
  <2>7. a \o (Cmd!FlattenSeq(t) \o x) = (a \o Cmd!FlattenSeq(t)) \o x
    <3> DEFINE f == Cmd!FlattenSeq(t)
    <3>1. f \in Seq(Cmd!Char)
      BY <2>5
    <3>2. a \in Seq(Cmd!Char) /\ x \in Seq(Cmd!Char)
      BY <2>3
    <3> HIDE DEF f
    <3>3. a \o (f \o x) = (a \o f) \o x
      BY <3>1, <3>2, TextsAppended
    <3> QED
      BY <3>3 DEF f
  <2> QED
    BY <1>3, <2>6, <2>7 DEF x
<1> QED
  BY <1>2, <1>3

LEMMA GivenToType ==
  ASSUME args \in Arguments, NEW n \in 0 .. Len(args)
  PROVE  Cmd!GivenTo(n) \in Seq(Cmd!Char)
<1> DEFINE t == FileTexts(n)
           a == FirstText(n)
<1>1. a \in Seq(Cmd!Char) /\ t \in Seq(Seq(Cmd!Char)) /\ Cmd!GivenTo(n) = a \o Cmd!FlattenSeq(t)
  BY GivenToTypes, GivenToParts
<1> HIDE DEF t, a
<1>2. Cmd!FlattenSeq(t) \in Seq(Cmd!Char)
  BY <1>1, FlattenType
<1> QED
  BY <1>1, <1>2

\* An option that is neither -s nor -f gives nothing.
LEMMA GivenToSame ==
  ASSUME args \in Arguments, NEW n \in Nat, n + 1 \in 0 .. Len(args),
         args[n + 1].opt \notin {"s", "f"}
  PROVE  Cmd!GivenTo(n + 1) = Cmd!GivenTo(n)
<1>1. Cmd!TextAt(n + 1) = <<>>
  BY DEF Cmd!TextAt
<1>2. Cmd!GivenTo(n + 1) = Cmd!GivenTo(n) \o <<>>
  BY <1>1, GivenToStep
<1>3. Cmd!GivenTo(n) \in Seq(Cmd!Char)
  <2>1. n \in 0 .. Len(args)
    BY ArgumentsAssumption
  <2> QED
    BY <2>1, GivenToType
<1> DEFINE g == Cmd!GivenTo(n)
<1> HIDE DEF g
<1>4. g \o <<>> = g
  BY <1>3 DEF g
<1> QED
  BY <1>2, <1>4 DEF g

LEMMA ClobberedStep ==
  ASSUME NEW n \in Nat
  PROVE  Cmd!ClobberedTo(n + 1)
           <=> \/ Cmd!ClobberedTo(n)
               \/ /\ args[n + 1].opt = "f"
                  /\ \E i \in Cmd!Given("o", n + 1) : args[i].arg = args[n + 1].arg
<1>1. (n + 1) + 1 = n + 2
  OBVIOUS
<1>2. Cmd!Given("f", n + 2)
        = IF args[n + 1].opt = "f" THEN Cmd!Given("f", n + 1) \cup {n + 1} ELSE Cmd!Given("f", n + 1)
  BY GivenStep
<1> QED
  BY <1>1, <1>2 DEF Cmd!ClobberedTo

-----------------------------------------------------------------------------
(***************************************************************************)
(* The steps of the command, as far as the program is concerned.           *)
(***************************************************************************)

LEMMA GivenKept ==
  ASSUME args' = args
  PROVE  /\ \A n : Cmd!GivenTo(n)' = Cmd!GivenTo(n)
         /\ \A n : Cmd!ClobberedTo(n)' <=> Cmd!ClobberedTo(n)
         /\ \A o, k : Cmd!Given(o, k)' = Cmd!Given(o, k)
  BY DEF Cmd!GivenTo, Cmd!ClobberedTo, Cmd!Given, Cmd!LastOf, Cmd!TextAt

\* An option that is obeyed.
LEMMA OptionKeepsGiven ==
  ASSUME CmdInv, GivenInv,
         Cmd!ReadCode \/ Cmd!SetCode \/ Cmd!SetMode \/ Cmd!SetOutput \/ Cmd!Unknown
  PROVE  GivenInv'
<1> DEFINE n == optind
           o == args[optind + 1].opt
           a == args[optind + 1].arg
           d == Cmd!Given("o", n + 1)
<1>1. /\ stage = "options" /\ stage' = stage /\ args' = args
      /\ n \in Nat /\ optind' = n + 1 /\ n + 1 \in 0 .. Len(args)
      /\ args \in Arguments /\ FilesInv
  BY OptionSteps
<1>2. /\ Cmd!ClobberedTo(n) \/ code = Cmd!GivenTo(n)
      /\ \A name \in DOMAIN files : Kept(name)
  BY <1>1 DEF GivenInv
<1>3. Cmd!Given("o", optind + 1)' = IF o = "o" THEN d \cup {n + 1} ELSE d
  BY <1>1, TakenStep
<1>4. /\ Cmd!GivenTo(optind)' = Cmd!GivenTo(n + 1)
      /\ Cmd!ClobberedTo(optind)' <=> Cmd!ClobberedTo(n + 1)
  BY <1>1, GivenKept
<1>5. Cmd!ClobberedTo(n + 1)
        <=> Cmd!ClobberedTo(n) \/ (o = "f" /\ \E i \in d : args[i].arg = a)
  BY <1>1, ClobberedStep
<1>6. ASSUME NEW name, Kept(name), files'[name] = files[name]
      PROVE  Kept(name)'
  <2>1. CASE name \in DOMAIN Originals /\ files[name] = Originals[name]
    BY <1>6, <2>1 DEF Kept
  <2>2. CASE \E i \in d : args[i].arg = name
    <3>1. \E i \in Cmd!Given("o", optind + 1)' : args[i].arg = name
      BY <1>3, <2>2
    <3> QED
      BY <1>1, <3>1 DEF Kept
  <2> QED
    BY <1>6, <2>1, <2>2 DEF Kept
<1>7. \A name \in DOMAIN files' : Kept(name)'
  <2>1. CASE files' = files
    BY <1>2, <1>6, <2>1
  <2>2. CASE Cmd!SetOutput /\ a # "-"
    <3>1. /\ o = "o"
          /\ files' = [m \in DOMAIN files \cup {a} |-> IF m = a THEN <<>> ELSE files[m]]
      BY <2>2 DEF Cmd!SetOutput, Cmd!Option, Cmd!Arg
    <3>2. ASSUME NEW name, name = a PROVE Kept(name)'
      <4> DEFINE k == n + 1
                 e == Cmd!Given("o", optind + 1)'
      <4>1. k \in e
        BY <1>3, <3>1
      <4>2. args'[k].arg = name
        BY <1>1, <3>2
      <4> HIDE DEF k
      <4>3. \E i \in e : args'[i].arg = name
        BY <4>1, <4>2
      <4> QED
        BY <4>3 DEF Kept
    <3>3. ASSUME NEW name \in DOMAIN files, name # a PROVE Kept(name)'
      <4>1. files'[name] = files[name]
        BY <3>1, <3>3
      <4> QED
        BY <1>2, <1>6, <3>3, <4>1
    <3>4. DOMAIN files' = DOMAIN files \cup {a}
      BY <3>1
    <3> QED
      BY <3>2, <3>3, <3>4
  <2> QED
    BY <2>1, <2>2 DEF Cmd!ReadCode, Cmd!SetCode, Cmd!SetMode, Cmd!SetOutput, Cmd!Unknown,
      Cmd!outputs, Cmd!Arg
<1>8. Cmd!ClobberedTo(n + 1) \/ code' = Cmd!GivenTo(n + 1)
  <2> SUFFICES ASSUME ~Cmd!ClobberedTo(n + 1) PROVE code' = Cmd!GivenTo(n + 1)
    OBVIOUS
  <2>1. code = Cmd!GivenTo(n) /\ ~(o = "f" /\ \E i \in d : args[i].arg = a)
    BY <1>2, <1>5
  <2>2. CASE Cmd!ReadCode
    <3>1. /\ o = "f" /\ a \in DOMAIN files /\ code' = code \o Cmd!Instructions(files[a])
      BY <2>2 DEF Cmd!ReadCode, Cmd!Option, Cmd!Arg
    <3>2. a \in DOMAIN Originals /\ files[a] = Originals[a]
      BY <1>2, <2>1, <3>1 DEF Kept
    <3>3. Cmd!TextAt(n + 1) = Cmd!Instructions(files[a])
      BY <3>1, <3>2 DEF Cmd!TextAt
    <3>4. Cmd!GivenTo(n + 1) = Cmd!GivenTo(n) \o Cmd!TextAt(n + 1)
      BY <1>1, <3>1, GivenToStep
    <3> QED
      BY <2>1, <3>1, <3>3, <3>4
  <2>3. CASE Cmd!SetCode
    <3>1. o = "s" /\ code' = a
      BY <2>3 DEF Cmd!SetCode, Cmd!Option, Cmd!Arg
    <3> QED
      BY <1>1, <3>1, GivenToStep
  <2>4. CASE Cmd!SetMode \/ Cmd!SetOutput \/ Cmd!Unknown
    <3>1. o \notin {"s", "f"} /\ code' = code
      BY <2>4 DEF Cmd!SetMode, Cmd!SetOutput, Cmd!Unknown, Cmd!Option, Cmd!settings
    <3> QED
      BY <1>1, <2>1, <3>1, GivenToSame
  <2> QED
    BY <2>2, <2>3, <2>4
<1> HIDE DEF n, o, a, d
<1> QED
  BY <1>1, <1>4, <1>7, <1>8 DEF GivenInv

\* A step that takes no option and opens no file.
LEMMA OtherKeepsGiven ==
  ASSUME GivenInv, args' = args, optind' = optind, code' = code,
         \/ stage' = stage /\ files' = files
         \/ stage' \in {"running", "dumping"} /\ stage \in {"options", "running", "dumping"}
  PROVE  GivenInv'
<1>1. /\ Cmd!GivenTo(optind)' = Cmd!GivenTo(optind)
      /\ Cmd!ClobberedTo(optind)' <=> Cmd!ClobberedTo(optind)
      /\ Cmd!Given("o", optind + 1)' = Cmd!Given("o", optind + 1)
  BY GivenKept, NoneTaken
<1>2. CASE stage' = stage /\ files' = files
  <2>1. \A name : Kept(name)' <=> Kept(name)
    BY <1>1, <1>2 DEF Kept
  <2> QED
    BY <1>1, <1>2, <2>1 DEF GivenInv
<1>3. CASE stage' \in {"running", "dumping"} /\ stage \in {"options", "running", "dumping"}
  BY <1>1, <1>3 DEF GivenInv
<1> QED
  BY <1>2, <1>3

LEMMA WriterKeepsGiven ==
  ASSUME CmdInv, GivenInv, WriterStep
  PROVE  GivenInv'
<1>1. CASE Cmd!ReadCode \/ Cmd!SetCode \/ Cmd!SetMode \/ Cmd!SetOutput \/ Cmd!Unknown
  BY <1>1, OptionKeepsGiven
<1>2. CASE Cmd!Help \/ Cmd!NotOpened \/ Cmd!Refuse \/ Cmd!DumpEnds \/ Cmd!RunEnds
  <2>1. stage' = "exited"
    BY <1>2 DEF Cmd!Help, Cmd!NotOpened, Cmd!Refuse, Cmd!DumpEnds, Cmd!RunEnds, Cmd!Exit
  <2> QED
    BY <2>1 DEF GivenInv
<1>3. CASE Cmd!Translate
  <2>1. /\ stage = "options" /\ stage' \in {"running", "dumping"}
        /\ args' = args /\ optind' = optind /\ code' = code
    BY <1>3 DEF Cmd!Translate, Cmd!AllTaken, Cmd!settings
  <2> QED
    BY <2>1, OtherKeepsGiven
<1>4. CASE Cmd!PrintLine \/ Cmd!RunWrites
  <2>1. /\ stage \in {"running", "dumping"} /\ stage' = stage
        /\ args' = args /\ optind' = optind /\ code' = code
    BY <1>4 DEF Cmd!PrintLine, Cmd!RunWrites, Cmd!settings
  <2> QED
    BY <2>1, OtherKeepsGiven
<1> QED
  BY <1>1, <1>2, <1>3, <1>4 DEF WriterStep, Cmd!Main

LEMMA GivenStart == AssembleInit => GivenInv
<1> SUFFICES ASSUME AssembleInit PROVE GivenInv
  OBVIOUS
<1>1. optind = 0 /\ code = <<>> /\ files = Originals
  BY DEF AssembleInit, Pipeline, Redirected, Cmd!Init, Cmd!Started
<1>2. Cmd!GivenTo(0) = <<>>
  BY GivenToStart
<1> QED
  BY <1>1, <1>2 DEF GivenInv, Kept

-----------------------------------------------------------------------------
(***************************************************************************)
(* What the status of the command promises.                                *)
(***************************************************************************)

PipelineInv == BothInv /\ CmdInv /\ GivenInv

LEMMA CmdStart == AssembleInit => CmdInv
<1> SUFFICES ASSUME AssembleInit, stage # "absent" PROVE CmdInv
  BY DEF CmdInv
<1>1. /\ args \in Arguments /\ stage = "options" /\ optind = 0 /\ format = "bf" /\ target = "-"
      /\ files = Originals /\ exit_code = 0
  BY DEF AssembleInit, Pipeline, Redirected, Cmd!Init, Cmd!Started
<1>2. 0 \in Nat /\ 0 \in 0 .. Len(args) /\ 0 + 1 = 1
  BY <1>1, ArgumentsAssumption
<1>3. /\ LastArgTo(0, "m", "bf") = "bf" /\ LastArgTo(0, "o", "-") = "-"
      /\ Cmd!Given("h", 1) = {}
  BY <1>2, LastArgStep, GivenStep
<1>4. Obeyed
  BY <1>1, <1>2, <1>3 DEF Obeyed
<1>5. FilesInv
  BY <1>1 DEF FilesInv, Clean
<1> QED
  BY <1>1, <1>2, <1>4, <1>5 DEF CmdInv, OptionsInv

LEMMA PipelineStep == PipelineInv /\ [AssembleNext]_assemblevars => PipelineInv'
<1> SUFFICES ASSUME PipelineInv, [AssembleNext]_assemblevars PROVE PipelineInv'
  OBVIOUS
<1>1. BothInv' /\ BothInv /\ CmdInv /\ PipeInv /\ GivenInv
  BY BothStep DEF PipelineInv, BothInv
<1>2. CmdInv' /\ GivenInv'
  <2>1. CASE WriterStep
    BY <1>1, <2>1, WriterKeepsCmd, WriterKeepsGiven
  <2>2. ASSUME lines' = lines, UNCHANGED cmdstate
        PROVE  CmdInv' /\ GivenInv'
    <3>1. /\ args' = args /\ optind' = optind /\ code' = code /\ stage' = stage
          /\ files' = files
      BY <2>2 DEF cmdstate
    <3>2. CmdInv'
      BY <1>1, <2>2, ReaderKeepsCmd
    <3>3. GivenInv'
      BY <1>1, <3>1, OtherKeepsGiven
    <3> QED
      BY <3>2, <3>3
  <2>3. CASE ReaderStep
    <3>1. lines' = lines /\ UNCHANGED cmdstate
      BY <2>3 DEF ReaderStep, Blank, Emit, Reject, NextLine, EndOfInput
    <3> QED
      BY <2>2, <3>1
  <2>4. CASE UNCHANGED assemblevars
    <3>1. lines' = lines /\ UNCHANGED cmdstate
      BY <2>4 DEF assemblevars, bitvars
    <3> QED
      BY <2>2, <3>1
  <2> QED
    BY <2>1, <2>3, <2>4 DEF AssembleNext
<1> QED
  BY <1>1, <1>2 DEF PipelineInv

LEMMA PipelineStart == AssembleInit => PipelineInv
  BY BothStart, CmdStart, GivenStart DEF PipelineInv

LEMMA CmdInvTells == CmdInv => StatusTellsTheOutput
<1> DEFINE printing == exit_code = 0 /\ Cmd!Given("h", Len(args) + 1) = {}
           output == Cmd!LastArg("o", "-")
           running == Cmd!LastArg("m", "bf") = "bf"
           Allowed(name) == \/ printing /\ name = IF running THEN "-" ELSE output
                            \/ Cmd!Untouched(name)
<1> SUFFICES ASSUME CmdInv, stage = "exited"
             PROVE  /\ printing => bitcode # <<>>
                    /\ printing /\ ~running =>
                         Cmd!Contents(output) = Cmd!Dump \/ (full /\ output # "-")
                    /\ \A name \in DOMAIN files \cup {"-"} : Allowed(name)
  BY DEF StatusTellsTheOutput, Cmd!StatusTellsTheOutput
<1>1. ExitInv /\ OptionsInv /\ FilesInv
  BY DEF CmdInv
<1>2. Ended => output = target /\ running = (format = "bf") /\ printing
  BY DEF Ended, Obeyed, LastArgTo, Cmd!LastArg
<1>3. ASSUME NEW name \in DOMAIN files, Clean(name), name # "-"
      PROVE  Cmd!Untouched(name)
  BY <1>3 DEF Clean, Cmd!Untouched, Cmd!Contents
<1>4. lines = <<>> => Cmd!Untouched("-")
  BY DEF Cmd!Untouched, Cmd!Contents
<1> HIDE DEF printing, output, running
<1>5. CASE /\ NotTranslated /\ \A name \in DOMAIN files : Clean(name)
           /\ exit_code = 1 \/ Cmd!Given("h", Len(args) + 1) # {}
  <2>1. ~printing
    BY <1>5 DEF printing
  <2>2. \A name \in DOMAIN files \cup {"-"} : Cmd!Untouched(name)
    BY <1>3, <1>4, <1>5 DEF NotTranslated
  <2> QED
    BY <2>1, <2>2
<1>6. CASE Run /\ Ended /\ \A name \in DOMAIN files : Clean(name)
  <2>1. printing /\ running /\ bitcode # <<>>
    BY <1>2, <1>6, ProgramTypes DEF Run
  <2>2. \A name \in DOMAIN files \cup {"-"} : name = "-" \/ Cmd!Untouched(name)
    BY <1>3, <1>6
  <2> QED
    BY <2>1, <2>2
<1>7. CASE /\ Dumped /\ printed = Len(bitcode) /\ Ended
           /\ \A name \in DOMAIN files : (name = target /\ target # "-") \/ Clean(name)
           /\ target # "-" => full \/ files[target] = Printout(printed)
  <2>1. printing /\ ~running /\ output = target /\ bitcode # <<>> /\ bitcode \in Programs
    BY <1>2, <1>7, ProgramTypes DEF Dumped, Cmd!Formats
  <2>2. Cmd!Dump = Printout(printed)
    BY <1>7, <2>1, ProgramTypes DEF Cmd!Dump, Printout
  <2>3. Cmd!Contents(output) = Cmd!Dump \/ (full /\ output # "-")
    BY <1>7, <2>1, <2>2 DEF Dumped, Cmd!Contents
  <2>4. \A name \in DOMAIN files \cup {"-"} : name = target \/ Cmd!Untouched(name)
    BY <1>3, <1>4, <1>7 DEF Dumped
  <2> QED
    BY <2>1, <2>3, <2>4
<1> QED
  BY <1>1, <1>5, <1>6, <1>7 DEF ExitInv

-----------------------------------------------------------------------------
(***************************************************************************)
(* Theorems.                                                               *)
(***************************************************************************)

\* Every reachable state of the pipeline satisfies the inductive invariant: of
\* the lines read, whether each has a word and, if stdout has refused none, that
\* it became it; of the options taken, what was printed where.
THEOREM PipelineInvariant == AssembleSpec => []PipelineInv
  BY PipelineStart, PipelineStep, PTL DEF AssembleSpec

\* No word that bit2bin writes means anything else than a line it has read
\* says, for every width of the fields and every listing.
THEOREM WordsMeanWhatLinesSay == AssembleSpec => []WordsMeanTheirLines
<1>1. PipelineInv => WordsMeanTheirLines
  BY DEF PipelineInv, BothInv, BitInv
<1> QED
  BY <1>1, PipelineInvariant, PTL

\* emit refuses no operand that the processor would read back from its word.
THEOREM BoundsAreThoseOfTheFields == AssembleSpec => []RepresentableIsAccepted
<1>1. PipelineInv => RepresentableIsAccepted
  BY BitInvAccepts DEF PipelineInv, BothInv
<1> QED
  BY <1>1, PipelineInvariant, PTL

\* bit2bin returns 0 only when every line was blank or an instruction that has a
\* word, and then the words are all there, so that no jump leads elsewhere,
\* unless stdout has refused one, which the status does not tell.
THEOREM StatusZeroMeansWhole == AssembleSpec => []StatusZeroIsWhole
<1>1. PipelineInv => StatusZeroIsWhole
  BY BitInvIsWhole DEF PipelineInv, BothInv
<1> QED
  BY <1>1, PipelineInvariant, PTL

\* assemble.sh leaves the words of the whole program or none when it returns 0,
\* whatever the two processes did in what order, unless stdout has refused a
\* word of it.
THEOREM PipelineIsWholeOrNothing == AssembleSpec => []WholeOrNothing
<1>1. PipelineInv => WholeOrNothing
  BY BothInvIsWhole DEF PipelineInv
<1> QED
  BY <1>1, PipelineInvariant, PTL

\* brainfunk returns 1 with nothing printed anywhere, and 0 with the dump where
\* the last -o says, for every call, disk and program.
THEOREM ExitStatusTellsTheOutput == AssembleSpec => []StatusTellsTheOutput
<1>1. PipelineInv => StatusTellsTheOutput
  BY CmdInvTells DEF PipelineInv
<1> QED
  BY <1>1, PipelineInvariant, PTL

\* What brainfunk runs or dumps is the program its options name: the last -s and
\* the files behind it, each as it was on the disk before the call, unless an -o
\* in front of it has named the same file and emptied it.
THEOREM CodeIsWhatIsGiven == AssembleSpec => []CodeIsAsGiven
<1>1. PipelineInv => CodeIsAsGiven
  BY DEF PipelineInv, CmdInv, OptionsInv, GivenInv, CodeIsAsGiven, Cmd!CodeIsAsGiven
<1> QED
  BY <1>1, PipelineInvariant, PTL
=============================================================================
