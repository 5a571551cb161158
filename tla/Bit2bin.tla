------------------------------- MODULE Bit2bin -------------------------------
(***************************************************************************)
(* bit2bin: the listing of dump with Format::BIT to instruction words.     *)
(*                                                                         *)
(* A line is read, parsed and written as a word, or reported and skipped;  *)
(* the lines behind it are assembled all the same, and only the exit       *)
(* status remembers.  The address in front of a line is parsed and used    *)
(* for messages only: a word goes where the output is.                     *)
(***************************************************************************)
EXTENDS Bitcode, FiniteSets

CONSTANTS
  DualMod,    \* values of the offset field of MUL (2^12)
  Listings    \* what stdin may hold, line by line

\* The offset field of the other instructions takes the room of MUL's two
\* operands, and both fields are signed.
ASSUME DualModAssumption == DualMod \in Nat \ {0} /\ DualMod % 2 = 0
OffsetMod == CellMod * DualMod

\* What a line can be.  The operands of a line that has them may be any
\* numbers; those that do not read as numbers are malformed operands.
Line ==
  [kind : {"blank", "malformed line", "unknown opcode", "malformed operand"}]
    \cup [kind : {"instruction"}, op : Opcode, imm : Int, off : Int]

ASSUME ListingsAssumption == Listings \subseteq Seq(Line)

VARIABLES
  lines,        \* the listing
  line_no,      \* lines read
  words,        \* the words written, of those that stdout has taken
  refused,      \* history: stdout has refused a word
  exit_status,
  done          \* main has returned

bitvars == <<lines, line_no, words, refused, exit_status, done>>

Init ==
  /\ lines \in Listings
  /\ line_no = 0 /\ words = <<>> /\ refused = FALSE /\ exit_status = 0
  /\ done = FALSE

-----------------------------------------------------------------------------
(***************************************************************************)
(* Operands and fields.                                                    *)
(***************************************************************************)

\* Mutant: the bounds are those of an unsigned field.
BugFitsSigned(value, mod) == value >= -mod /\ value <= mod - 1

\* Mutant: the most negative value is left out.
TightFitsSigned(value, mod) ==
  value > -(mod \div 2) /\ value <= (mod \div 2) - 1

\* fits_signed_bits and encode_signed, for a field of mod values.
FitsSigned(value, mod) == value >= -(mod \div 2) /\ value <= (mod \div 2) - 1
EncodeSigned(value, mod) == value % mod

FieldOf(op) == IF op = "MUL" THEN DualMod ELSE OffsetMod

\* emit takes the operands: a byte that is one, an offset that fits.
Encodable(l) ==
  /\ HasImm(l.op) => l.imm \in Cell
  /\ HasOffset(l.op) => FitsSigned(l.off, FieldOf(l.op))

\* The numbers of the opcodes, the order of enum class Opcode.
OpcodeNames == <<"X", "A", "S", "MUL", "F", "M", "JE", "JN", "IO", "H">>
OpcodeNumber(op) == (CHOOSE i \in DOMAIN OpcodeNames : OpcodeNames[i] = op) - 1

\* The factor of MUL is in the low bits and its offset above them.
Encode(l) ==
  OpcodeNumber(l.op) * OffsetMod
    + (IF HasImm(l.op) THEN l.imm ELSE 0)
    + (IF HasOffset(l.op)
         THEN EncodeSigned(l.off, FieldOf(l.op)) * (IF l.op = "MUL" THEN CellMod ELSE 1)
         ELSE 0)

-----------------------------------------------------------------------------

Reading == ~done /\ line_no < Len(lines)
This == lines[line_no + 1]
NextLine == line_no' = line_no + 1 /\ UNCHANGED <<lines, done>>

Blank ==
  /\ Reading /\ This.kind = "blank"
  /\ NextLine
  /\ UNCHANGED <<words, refused, exit_status>>

\* stdout takes the word or, on a full disk, refuses it.  Nobody looks: the
\* instruction is counted as assembled, and the exit status stays.
Emit ==
  /\ Reading /\ This.kind = "instruction" /\ Encodable(This)
  /\ NextLine
  /\ \/ words' = Append(words, Encode(This)) /\ UNCHANGED refused
     \/ refused' = TRUE /\ UNCHANGED words
  /\ UNCHANGED exit_status

\* Mutant: an erroneous line is reported, but not by the exit status.
BugReject ==
  /\ Reading /\ This.kind # "blank"
  /\ This.kind = "instruction" => ~Encodable(This)
  /\ NextLine
  /\ UNCHANGED <<words, refused, exit_status>>

\* Mutant: the erroneous line is not left behind.
BugSkipLine ==
  /\ Reading /\ This.kind # "blank"
  /\ This.kind = "instruction" => ~Encodable(This)
  /\ exit_status' = 1
  /\ UNCHANGED <<lines, line_no, words, refused, done>>

\* parse_line or emit returns false.
Reject ==
  /\ Reading /\ This.kind # "blank"
  /\ This.kind = "instruction" => ~Encodable(This)
  /\ NextLine
  /\ exit_status' = 1
  /\ UNCHANGED <<words, refused>>

EndOfInput ==
  /\ ~done /\ line_no = Len(lines)
  /\ done' = TRUE
  /\ UNCHANGED <<lines, line_no, words, refused, exit_status>>

Next == Blank \/ Emit \/ Reject \/ EndOfInput

Spec == Init /\ [][Next]_bitvars /\ WF_bitvars(Next)

-----------------------------------------------------------------------------
(***************************************************************************)
(* The words as doc/bincode.txt has the processor read them.               *)
(***************************************************************************)

DecodeSigned(field, mod) == IF field < mod \div 2 THEN field ELSE field - mod

Decode(word) ==
  LET op   == OpcodeNames[(word \div OffsetMod) + 1]
      low  == word % OffsetMod
  IN  Instr(op,
            IF HasImm(op) THEN low % CellMod ELSE 0,
            IF op = "MUL" THEN DecodeSigned(low \div CellMod, DualMod)
            ELSE IF HasOffset(op) THEN DecodeSigned(low, OffsetMod) ELSE 0)

\* The instruction a line stands for.
Meant(l) ==
  Instr(l.op, IF HasImm(l.op) THEN l.imm ELSE 0, IF HasOffset(l.op) THEN l.off ELSE 0)

IsInstruction(l) == l.kind = "instruction"
InstructionsTo(n) == {k \in 1 .. n : IsInstruction(lines[k])}
Assembled == [i \in DOMAIN words |-> Decode(words[i])]

\* There is a word for every instruction, the n-th for the n-th.
Whole ==
  /\ Len(words) = Cardinality(InstructionsTo(Len(lines)))
  /\ \A k \in InstructionsTo(Len(lines)) :
       Assembled[Cardinality(InstructionsTo(k))] = Meant(lines[k])

\* A listing of which a line was lost has moved the instructions behind it, and
\* its jumps lead elsewhere.  Exit status 0 promises that no line was found to
\* be in error, whatever stdout did, and that the words are whole unless stdout
\* has refused one: of that the status says nothing.
StatusZeroIsWhole ==
  (done /\ exit_status = 0) =>
    /\ \A k \in DOMAIN lines :
         lines[k].kind = "blank" \/ (IsInstruction(lines[k]) /\ Encodable(lines[k]))
    /\ refused \/ Whole

\* Nothing is refused that a word can hold: the bounds of the test are those of
\* the field.
RepresentableIsAccepted ==
  (done /\ \A i \in DOMAIN lines :
             \/ lines[i].kind = "blank"
             \/ IsInstruction(lines[i]) /\ Decode(Encode(lines[i])) = Meant(lines[i]))
    => exit_status = 0

\* Every word that is written means what its own line says: no instruction is
\* ever truncated into another one, whatever happens to the lines around it.
WordsMeanTheirLines ==
  \A i \in DOMAIN words :
    \E k \in i .. line_no : IsInstruction(lines[k]) /\ Meant(lines[k]) = Decode(words[i])
=============================================================================
