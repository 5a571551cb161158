------------------------------ MODULE DirectBF ------------------------------
(***************************************************************************)
(* bf: the direct interpreter that is kept as a comparison implementation. *)
(* It validates the brackets of its source and then obeys it one character *)
(* at a time, with a stack of the loops it is in.                          *)
(***************************************************************************)
EXTENDS BFSource, FiniteSetsExt, SequencesExt

CONSTANTS
  CellMod,   \* number of values of memory_t
  MemSize,   \* MEMSIZE
  WordMod,   \* number of values of arg_t, the type of ptr
  Sources,   \* what -s may give and a file may hold
  Inputs     \* what stdin may hold

ASSUME CellModAssumption == CellMod \in Nat /\ CellMod > 1
ASSUME SourcesAssumption == Sources \subseteq Seq(Char)
ASSUME InputsAssumption == Inputs \subseteq Seq(0 .. CellMod - 1)

\* MEMSIZE is a power of two: --ptr % MEMSIZE wraps only because it divides
\* the range of arg_t.
ASSUME MemSizeAssumption ==
  MemSize \in Nat \ {0} /\ WordMod \in Nat \ {0} /\ WordMod % MemSize = 0

VARIABLES
  code,    \* code
  mode,    \* "options", "running", "finished", "failed" or "undefined"
  c,       \* characters before the iterator c
  stack,   \* the iterators on the stack, as positions of code
  ptr,     \* ptr
  memory,  \* memory
  input,   \* what is left of stdin
  output   \* what the last action wrote

dvars == <<code, mode, c, stack, ptr, memory, input, output>>

BlankTape == [a \in 0 .. MemSize - 1 |-> 0]

Init ==
  /\ code = <<>> /\ mode = "options"
  /\ c = 0 /\ stack = <<>> /\ ptr = 0 /\ memory = BlankTape
  /\ input \in Inputs /\ output = <<>>

-----------------------------------------------------------------------------
(***************************************************************************)
(* main: every -s and -f replaces the code.                                *)
(***************************************************************************)

\* Mutant: only the total is looked at.
BugValidateCode(t) == Depth(t, Len(t)) = 0

\* validate_code: level goes below zero nowhere and ends at zero.
ValidateCode(t) ==
  /\ \A k \in 1 .. Len(t) : Depth(t, k) >= 0
  /\ Depth(t, Len(t)) = 0

Accept(t) ==
  /\ mode = "options"
  /\ code' = t
  /\ mode' = IF ValidateCode(t) THEN mode ELSE "failed"
  /\ UNCHANGED <<c, stack, ptr, memory, output>>

SetCode(t) == Accept(t) /\ UNCHANGED input

\* read_code: what is not an instruction is left out.  A program that is read
\* from stdin leaves nothing there.
IsCode(ch) == ch \in InstructionChar
CodeOf(t) == Picked(t, {i \in DOMAIN t : IsCode(t[i])})
ReadCode(t)  == Accept(CodeOf(t)) /\ UNCHANGED input
ReadStdin(t) == Accept(CodeOf(t)) /\ input' = <<>>

\* The file of -f cannot be opened.
NoFile ==
  /\ mode = "options"
  /\ mode' = "failed"
  /\ UNCHANGED <<code, c, stack, ptr, memory, input, output>>

Start ==
  /\ mode = "options"
  /\ mode' = "running"
  /\ c' = 0 /\ stack' = <<>> /\ ptr' = 0 /\ memory' = BlankTape
  /\ output' = <<>>
  /\ UNCHANGED <<code, input>>

-----------------------------------------------------------------------------
(***************************************************************************)
(* interprete.                                                             *)
(***************************************************************************)

Reads(ch) == mode = "running" /\ c < Len(code) /\ code[c + 1] = ch
NextChar == c' = c + 1 /\ UNCHANGED <<code, mode>>
NoIO == UNCHANGED input /\ output' = <<>>

AddTo(ch, d) ==
  /\ Reads(ch) /\ NextChar /\ NoIO
  /\ memory' = [memory EXCEPT ![ptr] = (@ + d) % CellMod]
  /\ UNCHANGED <<stack, ptr>>

\* ptr is unsigned: the word wraps first, then the tape.
MoveBy(ch, d) ==
  /\ Reads(ch) /\ NextChar /\ NoIO
  /\ ptr' = ((ptr + d) % WordMod) % MemSize
  /\ UNCHANGED <<stack, memory>>

\* Where the scan for the ']' of the '[' at position k ends: after the first
\* position at which no bracket since k is open.
Closes(t, k) == {j \in k + 1 .. Len(t) : Depth(t, j) = Depth(t, k - 1)}

\* Mutant: level does not count the brackets on the way.
BugMatchingClose(t, k) == Min({j \in k + 1 .. Len(t) : t[j] = "]"})

MatchingClose(t, k) == Min(Closes(t, k))

\* Without a matching ']' the scan reads past the end of the string.
Open ==
  /\ Reads("[") /\ NoIO
  /\ IF memory[ptr] # 0
       THEN /\ stack' = Append(stack, c + 1) /\ c' = c + 1
            /\ UNCHANGED mode
       ELSE IF Closes(code, c + 1) # {}
       THEN c' = MatchingClose(code, c + 1) /\ UNCHANGED <<stack, mode>>
       ELSE mode' = "undefined" /\ UNCHANGED <<c, stack>>
  /\ UNCHANGED <<code, ptr, memory>>

\* Mutant: the loop stays on the stack when it ends.
BugClose ==
  /\ Reads("]") /\ NoIO /\ stack # <<>>
  /\ c' = IF memory[ptr] # 0 THEN Last(stack) ELSE c + 1
  /\ UNCHANGED <<code, mode, stack, ptr, memory>>

\* The iterator goes back to the '[' and is then incremented.  back() and
\* pop_back() of an empty vector are undefined.
Close ==
  /\ Reads("]") /\ NoIO
  /\ IF stack = <<>>
       THEN mode' = "undefined" /\ UNCHANGED <<c, stack>>
       ELSE /\ IF memory[ptr] # 0
                 THEN c' = Last(stack) /\ UNCHANGED stack
                 ELSE c' = c + 1 /\ stack' = Front(stack)
            /\ UNCHANGED mode
  /\ UNCHANGED <<code, ptr, memory>>

\* The end of stdin reads as zero.
In ==
  /\ Reads(",") /\ NextChar
  /\ memory' = [memory EXCEPT ![ptr] = IF input = <<>> THEN 0 ELSE Head(input)]
  /\ input' = IF input = <<>> THEN <<>> ELSE Tail(input)
  /\ output' = <<>>
  /\ UNCHANGED <<stack, ptr>>

Out ==
  /\ Reads(".") /\ NextChar
  /\ output' = <<memory[ptr]>>
  /\ UNCHANGED <<stack, ptr, memory, input>>

\* A comment reaches the interpreter only through -s.
Other ==
  /\ Reads("#") /\ NextChar /\ NoIO
  /\ UNCHANGED <<stack, ptr, memory>>

Finish ==
  /\ mode = "running" /\ c = Len(code) /\ NoIO
  /\ mode' = "finished"
  /\ UNCHANGED <<code, c, stack, ptr, memory>>

Interprete ==
  \/ AddTo("+", 1) \/ AddTo("-", -1) \/ MoveBy(">", 1) \/ MoveBy("<", -1)
  \/ Open \/ Close \/ In \/ Out \/ Other \/ Finish

Next ==
  \/ \E t \in Sources : SetCode(t) \/ ReadCode(t) \/ ReadStdin(t)
  \/ NoFile \/ Start
  \/ Interprete

Spec == Init /\ [][Next]_dvars /\ WF_dvars(Interprete)

-----------------------------------------------------------------------------
(***************************************************************************)
(* Properties.                                                             *)
(***************************************************************************)

TypeOK ==
  /\ code \in Seq(Char)
  /\ mode \in {"options", "running", "finished", "failed", "undefined"}
  /\ c \in 0 .. Len(code)
  /\ stack \in Seq(1 .. Len(code))
  /\ ptr \in 0 .. MemSize - 1
  /\ memory \in [0 .. MemSize - 1 -> 0 .. CellMod - 1]
  /\ input \in Seq(0 .. CellMod - 1)
  /\ output \in Seq(0 .. CellMod - 1)

\* interprete trusts its source: that it never looks at an empty stack or past
\* the end of the string rests on validate_code having accepted it, and that it
\* stays on the tape on ptr being reduced wherever it goes.
NothingUndefined == TypeOK /\ mode # "undefined"

\* The stack holds exactly the brackets around the iterator that are still
\* open, the innermost last: those the next ']' characters close in turn.
StackIsOpenBrackets ==
  mode \in {"running", "finished"} =>
    /\ Len(stack) = Depth(code, c)
    /\ \A i \in DOMAIN stack :
         /\ code[stack[i]] = "[" /\ stack[i] <= c
         /\ Depth(code, stack[i]) = i
         /\ MatchingClose(code, stack[i]) > c

\* bf is an interpreter of Brainfuck, whatever its stack and its scan do to
\* find the other end of a loop; in particular it never runs a text with
\* unmatched brackets, and it goes on to the end.
Texts == Sources \cup {CodeOf(t) : t \in Sources}

Status ==
  CASE mode = "running"   -> "running"
    [] mode = "finished"  -> "ended"
    [] mode = "undefined" -> "undefined"
    [] OTHER              -> "idle"

Lang ==
  INSTANCE Language WITH
    Programs <- Texts, InputEnds <- TRUE, status <- Status, at <- c

ObeysLanguage == Lang!Spec
=============================================================================
